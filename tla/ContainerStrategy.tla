-------------------------- MODULE ContainerStrategy --------------------------
(***************************************************************************)
(* The container fallback of DwarfTypeResolver (src/type_resolver.cc):    *)
(* GetCallStackContainerResolutionStrategy scans a callstack for a        *)
(* strategy, ResolveTypeFromResolutionStrategy turns the strategy into    *)
(* the type whose tree the allocation gets.  The resolver of the tool is  *)
(* local (is_local = true, histogram_builder.cc:401), so the Abseil      *)
(* strategies return the slot type's tree and the blueprints are not     *)
(* applied; module Blueprints models those.                              *)
(*                                                                         *)
(* Names are not strings here.  A formal parameter is a record            *)
(*   [cls, const, raw, text, clean, deref, arg]                          *)
(* where cls is the set of keyword lists of type_resolver.cc 50-153 that  *)
(* its const-stripped text starts with ("alloc" kAllocatorWrappers, "stl"               *)
(* kSTLContainerTypes, "stl_leaf" kSTLContainerLeafCheckTypes, "adt",    *)
(* "adt_dense", "swiss", "btree", "flat_policy", "params" for            *)
(* set_params/map_params, "cint" for absl::container_internal::), const  *)
(* tells a leading "const", raw is the name as DWARF gives it, text the  *)
(* name with "const" and blanks stripped, clean is CleanTypeName(raw),   *)
(* deref is DereferencePointer then CleanTypeName of text, and arg is     *)
(* UnwrapAndCleanTypeName of text.  A prefix test on raw fails when       *)
(* const is set, and a raw name with "const" is not a name GetType finds. *)
(***************************************************************************)
EXTENDS TypeResolver

CONSTANTS
    FormalParams,   \* linkage name -> formal and template parameters
    TypeParams,     \* type name -> its template parameter DIEs, in order
    TypeConsts,     \* type name -> names of its constant_variables
    FnInfo          \* linkage name -> [smart, memprof, dem]

\* GetFormalParameters succeeds exactly on DOMAIN FormalParams; the
\* fetcher stores only non-empty parameter lists
\* (dwarf_metadata_fetcher.cc:158).
HasFormalParams(fn) == fn \in DOMAIN FormalParams

\* The template parameters a class declares, one per DIE.
DeclaredParams(tn) == IF tn \in DOMAIN TypeParams THEN TypeParams[tn] ELSE <<>>

\* TypeData::VisitChildDIE on a template or formal parameter DIE: its
\* qualified name is appended unless the list already holds that name.
AppendParam(ps, p) ==
    IF \E i \in DOMAIN ps : ps[i].raw = p.raw THEN ps ELSE Append(ps, p)

\* TypeData::formal_parameters of a class, as the fetcher builds it.
ParamsOfType(tn) == FoldLeft(AppendParam, <<>>, DeclaredParams(tn))

ConstsOfType(tn) == IF tn \in DOMAIN TypeConsts THEN TypeConsts[tn] ELSE {}

\* A prefix test on the name as given (absl::StartsWith on raw).
RawIs(p, c) == c \in p.cls /\ ~p.const

\* What the function name tells: it begins with a kSmartPointersTypes
\* mangling, contains "__memprof_ctrl_alloc", and what its demangled name
\* (without parameters) begins with: "special", "char" or "other", or
\* "none" when itaniumDemangle fails.
Info(fn) ==
    IF fn \in DOMAIN FnInfo THEN FnInfo[fn]
    ELSE [smart |-> FALSE, memprof |-> FALSE, dem |-> "none"]

\* WrapType(outer, inner): the name outer<inner> (inner is not an array;
\* the blank WrapType puts before a closing ">>" is left out).
WrapType(outer, inner) == <<outer \o "<" \o inner[1] \o ">">>

\* The strategy: its ContainerResolutionStrategy::Type, func_name and
\* lookup_type (<<>> when the constructor leaves it empty).
Strat(kind, fn, lookup) == [kind |-> kind, fn |-> fn, lookup |-> lookup]

NoLookup == <<>>

-----------------------------------------------------------------------------
(* GetCallStackContainerResolutionStrategy                               *)

\* CallStackContainsMemprof: the first frame whose name contains the
\* memprof marker.
MemprofFrames(cs) == SelectSeq(cs, LAMBDA fr : Info(fr.fn).memprof)

\* The scan state: done once a strategy or an error is returned (res is
\* <<strategy>> or <<>>), has_seen_alloc, is_leaf and the fallthrough
\* strategy (<<>> while none).  last_frame_has_allocator_formal_param is
\* written but never read, and is left out.
ScanInit == [done |-> FALSE, res |-> <<>>, seen |-> FALSE, leaf |-> TRUE,
             fall |-> <<>>]

Return(s, r) == [s EXCEPT !.done = TRUE, !.res = r]

\* Mutant: every allocator parameter overwrites the fallthrough strategy.
ScanParamAnyAlloc(cs, fn, s, p) ==
    IF s.done THEN s
    ELSE [s EXCEPT !.fall = IF "alloc" \in p.cls
                            THEN <<Strat("default", fn, p.arg)>> ELSE s.fall,
                   !.seen = @ \/ p.cls \cap {"alloc", "cint"} # {},
                   !.leaf = FALSE]

\* One iteration of the loop over the formal parameters of frame fn.
ScanParam(cs, fn, s, p) ==
    IF s.done THEN s
    ELSE LET fall == IF "alloc" \in p.cls /\ ~s.seen
                     THEN <<Strat("default", fn, p.arg)>> ELSE s.fall
         IN IF s.leaf /\ "stl_leaf" \in p.cls
            THEN Return(s, <<Strat("leaf_gwp", fn, p.text)>>)
            ELSE IF "stl" \in p.cls
            THEN Return(s, <<Strat("allocator_allocate", cs[1].fn, NoLookup)>>)
            ELSE IF "adt" \in p.cls
            THEN Return(s, <<Strat("adt", fn, p.deref)>>)
            ELSE IF "adt_dense" \in p.cls
            THEN Return(s, <<Strat("adt_dense", fn, p.deref)>>)
            ELSE IF "swiss" \in p.cls
            THEN IF ~GetTypeOk(p.text)
                 THEN Return(s, <<Strat("absl_allocator_allocate", cs[1].fn, p.deref)>>)
                 ELSE IF ParamsOfType(p.text) = <<>> THEN Return(s, <<>>)
                 ELSE IF RawIs(ParamsOfType(p.text)[1], "flat_policy")
                 THEN Return(s, <<Strat("swiss_flat", fn, p.deref)>>)
                 ELSE Return(s, <<Strat("swiss_node", fn, p.deref)>>)
            ELSE IF "btree" \in p.cls
            THEN Return(s, <<Strat("btree", fn, p.deref)>>)
            ELSE [s EXCEPT !.fall = fall,
                           !.seen = @ \/ p.cls \cap {"alloc", "cint"} # {},
                           !.leaf = FALSE]

\* One iteration of the loop over the frames, leaf first.
ScanFrame(cs, s, fr) ==
    IF s.done THEN s
    ELSE IF fr.fn = "" THEN Return(s, <<>>)
    ELSE IF Info(fr.fn).smart THEN Return(s, <<Strat("special", fr.fn, NoLookup)>>)
    ELSE IF ~HasFormalParams(fr.fn) THEN s
    ELSE IF Info(fr.fn).dem = "special"
    THEN Return(s, <<Strat("special", fr.fn, NoLookup)>>)
    ELSE IF Info(fr.fn).dem = "char"
    THEN Return(s, <<Strat("char", fr.fn, NoLookup)>>)
    ELSE FoldLeft(LAMBDA t, p : ScanParam(cs, fr.fn, t, p), s,
                  FormalParams[fr.fn])

\* <<strategy>>, or <<>> for InvalidArgument and NotFound.
GetCallStackContainerResolutionStrategy(cs) ==
    IF MemprofFrames(cs) # <<>>
    THEN <<Strat("inserted", MemprofFrames(cs)[1].fn, NoLookup)>>
    ELSE LET s == FoldLeft(LAMBDA t, fr : ScanFrame(cs, t, fr), ScanInit, cs)
         IN IF s.done THEN s.res ELSE s.fall

-----------------------------------------------------------------------------
(* ResolveTypeFromResolutionStrategy, local resolver                      *)

\* The first parameter whose text as given starts with an allocator
\* wrapper (absl::StartsWith on the unstripped name): <<p>> or <<>>.
FirstAllocator(ps) ==
    LET hits == SelectSeq(ps, LAMBDA p : RawIs(p, "alloc"))
    IN IF hits = <<>> THEN <<>> ELSE <<hits[1]>>

\* kAllocatorAllocate: from the leaf, the first frame with an allocator
\* parameter; a frame without formal parameters ends the walk (the
\* ASSIGN_OR_RETURN inside the loop).
AllocatorWalk(cs) ==
    LET step(r, fr) ==
          IF r.done THEN r
          ELSE IF ~HasFormalParams(fr.fn) THEN [done |-> TRUE, res |-> <<>>]
          ELSE IF FirstAllocator(FormalParams[fr.fn]) # <<>>
          THEN [done |-> TRUE, res |-> <<FirstAllocator(FormalParams[fr.fn])[1].arg>>]
          ELSE r
    IN FoldLeft(step, [done |-> FALSE, res |-> <<>>], cs).res

\* GetAlignmentFromAbslAllocatorCall succeeds (its value is unused by the
\* local resolver): the allocator's first parameter, then that type's
\* first template parameter, dereferenced, must be types with an
\* "Alignment" constant.
AlignmentOk(fn) ==
    /\ HasFormalParams(fn)
    /\ ~FormalParams[fn][1].const
    /\ GetTypeOk(FormalParams[fn][1].deref)
    /\ ParamsOfType(FormalParams[fn][1].deref) # <<>>
    /\ LET t2 == ParamsOfType(FormalParams[fn][1].deref)[1]
       IN ~t2.const /\ GetTypeOk(t2.deref) /\ "Alignment" \in ConstsOfType(t2.deref)

\* The btree slot type found through one set_params/map_params parameter
\* p: <<<<name>>>> to return, <<>> for an error, <<<<>>>> to go on.
BtreeParam(p) ==
    IF ~GetTypeOk(p.raw) THEN <<>>
    ELSE IF ~GetTypeOk(WrapType("absl::container_internal::btree_node", p.raw)) THEN <<>>
    ELSE IF "kNodeSlots" \notin ConstsOfType(WrapType("absl::container_internal::btree_node", p.raw)) THEN <<>>
    ELSE IF ~GetTypeOk(<<WrapType("absl::container_internal::btree", p.raw)[1] \o "::field_type">>) THEN <<>>
    ELSE IF FirstAllocator(ParamsOfType(p.raw)) = <<>> THEN <<<<>>>>
    ELSE <<<<FirstAllocator(ParamsOfType(p.raw))[1].arg>>>>

BtreeWalk(ps) ==
    LET step(r, p) ==
          IF r.done \/ ~RawIs(p, "params") THEN r
          ELSE IF BtreeParam(p) = <<>> THEN [done |-> TRUE, res |-> <<>>]
          ELSE IF BtreeParam(p)[1] = <<>> THEN r
          ELSE [done |-> TRUE, res |-> BtreeParam(p)[1]]
    IN FoldLeft(step, [done |-> FALSE, res |-> <<>>], ps).res

\* absl::StrAppend(&type_name, "*"): the node hash slot is a pointer.
NodeSlotName(n) == <<n[1] \o "*">>

\* The name whose tree CreateTreeFromDwarf builds: <<name>>, or <<>> when
\* the strategy fails before that.
ResolveStrategyTypeName(st, cs) ==
    LET tps == ParamsOfType(st.lookup)
        fps == FormalParams[st.fn]
    IN IF ~HasFormalParams(st.fn) THEN <<>>
       ELSE CASE st.kind = "default" -> <<st.lookup>>
              [] st.kind = "special" -> <<fps[1].clean>>
              [] st.kind \in {"char", "inserted"} -> <<<<"char">>>>
              [] st.kind \in {"allocator_allocate", "absl_allocator_allocate"} ->
                    AllocatorWalk(cs)
              [] st.kind = "leaf_gwp" ->
                    IF ~GetTypeOk(st.lookup) \/ FirstAllocator(tps) = <<>> THEN <<>>
                    ELSE <<FirstAllocator(tps)[1].arg>>
              [] st.kind = "adt" ->
                    IF ~GetTypeOk(st.lookup) \/ tps = <<>> THEN <<>> ELSE <<tps[1].raw>>
              [] st.kind = "adt_dense" ->
                    IF ~GetTypeOk(st.lookup) \/ Len(tps) < 5 THEN <<>> ELSE <<tps[5].raw>>
              [] st.kind \in {"swiss_flat", "swiss_node"} ->
                    IF ~GetTypeOk(st.lookup) \/ FirstAllocator(tps) = <<>> THEN <<>>
                    ELSE IF st.kind = "swiss_node"
                         THEN <<NodeSlotName(FirstAllocator(tps)[1].arg)>>
                         ELSE <<FirstAllocator(tps)[1].arg>>
              [] st.kind = "btree" ->
                    IF ~AlignmentOk(cs[1].fn) \/ ~GetTypeOk(st.lookup) THEN <<>>
                    ELSE BtreeWalk(tps)

\* The container fallback of ResolveTypeFromCallstack: <<type name>> when
\* a strategy is found and the tree of its type can be built.
ResolveContainerType(cs) ==
    LET st == GetCallStackContainerResolutionStrategy(cs)
        tn == IF st = <<>> THEN <<>> ELSE ResolveStrategyTypeName(st[1], cs)
    IN IF tn # <<>> /\ BuildTreeOk(tn[1]) THEN tn ELSE <<>>

=============================================================================
