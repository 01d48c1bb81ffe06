------------------------- MODULE ContainerResolution -------------------------
(***************************************************************************)
(* The container fallback of DwarfTypeResolver::ResolveTypeFromCallstack   *)
(* (src/type_resolver.cc 1191-1200) for one callstack that no heap-alloc   *)
(* frame resolved: the strategy is chosen, then resolved to the type whose *)
(* tree the allocation gets.                                               *)
(*                                                                         *)
(* The callstack is chosen in Init from CallStackSet; a frame is a record  *)
(* [fn, col] as in module HistogramBuilder.                               *)
(***************************************************************************)
EXTENDS ContainerStrategy

CONSTANTS
    CallStackSet    \* the callstacks an allocation may carry, leaf first

VARIABLES
    cs,             \* the callstack
    strategy,       \* <<ContainerResolutionStrategy>>, or <<>> on an error
    result,         \* <<type name>> of the tree built, or <<>>
    pc              \* "strategy", "resolve", then "resolved" or "failed"

vars == <<cs, strategy, result, pc>>

Init ==
    /\ cs \in CallStackSet
    /\ strategy = <<>>
    /\ result = <<>>
    /\ pc = "strategy"

\* ASSIGN_OR_RETURN(resolution_strategy,
\*                  GetCallStackContainerResolutionStrategy(callstack)).
ChooseStrategy ==
    /\ pc = "strategy"
    /\ strategy' = GetCallStackContainerResolutionStrategy(cs)
    /\ pc' = IF strategy' = <<>> THEN "failed" ELSE "resolve"
    /\ UNCHANGED <<cs, result>>

\* Mutant: the name is returned without building its tree.
ResolveUnchecked ==
    /\ pc = "resolve"
    /\ result' = ResolveStrategyTypeName(strategy[1], cs)
    /\ pc' = IF result' = <<>> THEN "failed" ELSE "resolved"
    /\ UNCHANGED <<cs, strategy>>

\* ResolveTypeFromResolutionStrategy, ending in CreateTreeFromDwarf.
Resolve ==
    /\ pc = "resolve"
    /\ LET tn == ResolveStrategyTypeName(strategy[1], cs)
       IN result' = IF tn # <<>> /\ BuildTreeOk(tn[1]) THEN tn ELSE <<>>
    /\ pc' = IF result' = <<>> THEN "failed" ELSE "resolved"
    /\ UNCHANGED <<cs, strategy>>

\* ResolveTypeFromCallstack has returned.
Done ==
    /\ pc \in {"resolved", "failed"}
    /\ UNCHANGED vars

Next == ChooseStrategy \/ Resolve \/ Done

Spec == Init /\ [][Next]_vars /\ WF_vars(ChooseStrategy \/ Resolve)

-----------------------------------------------------------------------------
(* Properties                                                             *)

Kinds == {"default", "special", "char", "allocator_allocate",
          "absl_allocator_allocate", "leaf_gwp", "adt", "adt_dense",
          "swiss_flat", "swiss_node", "btree", "inserted"}

TypeOK ==
    /\ cs \in Seq([fn : STRING, col : Nat])
    /\ strategy = <<>> \/ (Len(strategy) = 1 /\ strategy[1].kind \in Kinds)
    /\ result = <<>> \/ (Len(result) = 1 /\ BuildTreeOk(result[1]))
    /\ pc \in {"strategy", "resolve", "resolved", "failed"}

\* The formal parameters of the frames of cs that have debug info, leaf
\* frame first, in the order the scan meets them.
ScannedParams(c) ==
    FoldLeft(LAMBDA acc, fr : IF HasFormalParams(fr.fn)
                              THEN acc \o FormalParams[fr.fn] ELSE acc,
             <<>>, c)

\* The default (fallthrough) strategy looks up the element type of the
\* allocator wrapper nearest to the leaf: when the scan finds no specific
\* container, the has_seen_alloc flag of GetCallStackContainerResolution-
\* Strategy keeps the first allocator parameter it meets, not a later one
\* of an outer frame.
FallthroughIsFirstAllocator ==
    strategy # <<>> /\ strategy[1].kind = "default" =>
        LET allocs == SelectSeq(ScannedParams(cs), LAMBDA p : "alloc" \in p.cls)
        IN allocs # <<>> /\ strategy[1].lookup = allocs[1].arg

\* Spec 4.2.3: the default strategy applies when "an allocator-wrapper
\* formal parameter was seen anywhere".  So a callstack with such a
\* parameter and with no other trigger never ends in NotFound.
AllocatorSeenGivesStrategy ==
    (/\ pc # "strategy"
     /\ \A i \in DOMAIN cs : cs[i].fn # ""
     /\ \E p \in Range(ScannedParams(cs)) : "alloc" \in p.cls)
        => strategy # <<>>

\* Spec 4.2.3 (ADT-dense row): an allocation under a DenseMapBase frame
\* resolves to "the fifth template parameter of the matched type", the
\* bucket type the class template declares in that place.  The resolver
\* reads formal_parameters[4] of the fetched TypeData, whose parameter list
\* the fetcher has de-duplicated by name.
DenseBucketIsFifthParam ==
    (/\ pc \in {"resolved", "failed"}
     /\ strategy # <<>> /\ strategy[1].kind = "adt_dense"
     /\ Len(DeclaredParams(strategy[1].lookup)) >= 5)
        => result = <<DeclaredParams(strategy[1].lookup)[5].raw>>

=============================================================================
