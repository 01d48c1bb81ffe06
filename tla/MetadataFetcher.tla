--------------------------- MODULE MetadataFetcher ---------------------------
(***************************************************************************)
(* DwarfMetadataFetcher (src/dwarf_metadata_fetcher.cc): the parse of the  *)
(* debug information entries (DIEs) of a binary into the namespaced type   *)
(* index, its post-processing, and the lookups the resolver makes in it:   *)
(* GetType (SplitNamespace, SearchType) and GetField.          *)
(*                                                                         *)
(* The DIE forest is the constant Dies: id -> [tag, name, type, children,  *)
(* size, loc, linkage, cval, line, col], the id being the DIE offset and 0 *)
(* the invalid DIE; "" and -1 stand for an absent attribute.  A binary is  *)
(* the sequence of its compile units in the order ParseDWARF visits them,  *)
(* each [addr, dies] with its address size and the children of its unit   *)
(* DIE; the fetcher reads one of the constant set Binaries.  The           *)
(* pointer-like tags are represented by "pointer", the enumeration tag by  *)
(* "enumeration".  A unit also has its section (sec: "dwp_types",        *)
(* "dwp_info" for the units of a .dwp file, "types", "info"), and a type  *)
(* unit its signature (sig, 0 for a compile unit) and type DIE (td).  A   *)
(* DIE that refers to a type unit carries the signature in its sig.       *)
(*                                                                         *)
(* The recursion of ParseDIE and VisitChildDIE is an explicit depth-first  *)
(* work list: each step visits one DIE into the TypeData at a path of      *)
(* short names, and puts its children first in the list.                   *)
(***************************************************************************)
EXTENDS Integers, Sequences, SequencesExt, FiniteSets, TLC

CONSTANTS
    Dies,               \* DIE offset -> DIE
    Binaries,           \* the binaries the fetcher may read: sequences of units
    ReadSubprograms,    \* should_read_subprogram
    MaxLookupDepth      \* the call depth at which the lookup's stack is exhausted

VARIABLES
    cus,        \* the compile units of the binary read
    index,      \* TypeData path (sequence of short names) -> TypeData
    pending,    \* the DIEs still to visit: sequence of [die, path]
    unit,       \* the next compile unit
    ptr_size,   \* MetadataPack::pointer_size
    phase,      \* "parse", "ready" after post-processing, or "failed"
    heap,       \* heapalloc_sites of the pack: frame -> type name
    params,     \* formal_and_template_param_map
    anon,       \* path -> the iteration order of its Anon_ namespaces
    dies        \* what the DIE helpers give for each DIE (never changes)

vars == <<cus, index, pending, unit, ptr_size, phase, heap, params, anon, dies>>

-----------------------------------------------------------------------------
(* DIEs and their names                                                   *)

D(d) == Dies[d]

ScopeTags == {"namespace", "class", "structure", "union"}

\* The DIE whose children list holds d (llvm::DWARFDie::getParent), 0 at
\* the top.
Parent(d) ==
    IF \E p \in DOMAIN Dies : d \in ToSet(D(p).children)
    THEN CHOOSE p \in DOMAIN Dies : d \in ToSet(D(p).children)
    ELSE 0

\* RecursiveGetName: the short name, else the referenced type's name with
\* the pointer suffix.
RECURSIVE RecursiveGetName(_)
RecursiveGetName(d) ==
    IF d = 0 THEN ""
    ELSE IF D(d).name # "" THEN D(d).name
    ELSE RecursiveGetName(D(d).type) \o (IF D(d).tag = "pointer" THEN "*" ELSE "")

RecursiveGetNameOrResolveAnon(d) ==
    IF RecursiveGetName(d) = "" THEN "Anon_" \o ToString(d) ELSE RecursiveGetName(d)

\* llvm::dumpTypeQualifiedName: the enclosing scopes joined by "::"; a
\* nameless namespace prints "(anonymous namespace)", a nameless record
\* its tag and a blank, a pointer its pointee and " *".
QualifiedNameLocal(d) ==
    CASE D(d).name # ""          -> D(d).name
      [] D(d).tag = "namespace"  -> "(anonymous namespace)"
      [] OTHER                   -> D(d).tag \o " "

RECURSIVE QualifiedName(_), ScopePrefix(_)
ScopePrefix(p) ==
    IF p = 0 \/ D(p).tag \notin ScopeTags THEN ""
    ELSE ScopePrefix(Parent(p)) \o QualifiedNameLocal(p) \o "::"
QualifiedName(d) ==
    IF d = 0 THEN ""
    ELSE IF D(d).tag = "pointer"
    THEN (IF D(d).type = 0 THEN "void" ELSE QualifiedName(D(d).type)) \o " *"
    ELSE ScopePrefix(Parent(d)) \o QualifiedNameLocal(d)

GetTypeQualifiedName(d) == QualifiedName(d)

\* RecursiveGetTypeDIE: follow DW_AT_type to a record, base or pointer.
RECURSIVE RecursiveGetTypeDIE(_)
RecursiveGetTypeDIE(d) ==
    IF d = 0 \/ D(d).tag \in {"structure", "class", "base", "pointer", "union"}
    THEN d ELSE RecursiveGetTypeDIE(D(d).type)

RECURSIVE RecursiveGetTypedefDIE(_)
RecursiveGetTypedefDIE(d) ==
    IF d # 0 /\ D(d).tag = "typedef" THEN RecursiveGetTypedefDIE(D(d).type) ELSE d

\* RecursiveGetTypeDIEFormalParam: as RecursiveGetTypeDIE, through pointers.
RECURSIVE RecursiveGetTypeDIEFormalParam(_)
RecursiveGetTypeDIEFormalParam(d) ==
    IF d = 0 \/ D(d).tag \in {"structure", "class", "base", "union"}
    THEN d ELSE RecursiveGetTypeDIEFormalParam(D(d).type)

EndsWith(s, t) == Len(s) >= Len(t) /\ SubSeq(s, Len(s) - Len(t) + 1, Len(s)) = t
StartsWith(s, t) == Len(s) >= Len(t) /\ SubSeq(s, 1, Len(t)) = t

\* The position of the last "::" in s, 0 if none.
LastColons(s) ==
    LET at == {i \in 1..(Len(s) - 1) : SubSeq(s, i, i + 1) = "::"}
    IN IF at = {} THEN 0 ELSE CHOOSE i \in at : \A j \in at : j <= i

\* ConsumeAngleBracket: the text inside the outermost angle brackets,
\* without a blank before the closing one.
RECURSIVE ConsumeLoop(_, _, _, _, _)
ConsumeLoop(s, i, opened, closed, start) ==
    IF i > Len(s) THEN SubSeq(s, start, Len(s))
    ELSE IF SubSeq(s, i, i) = ">" /\ closed + 1 = opened
    THEN SubSeq(s, start, IF SubSeq(s, i - 1, i - 1) = " " THEN i - 2 ELSE i - 1)
    ELSE IF SubSeq(s, i, i) = ">"
    THEN ConsumeLoop(s, i + 1, opened, closed + 1, start)
    ELSE IF SubSeq(s, i, i) = "<"
    THEN ConsumeLoop(s, i + 1, opened + 1, closed,
                     IF opened = 0 THEN i + 1 ELSE start)
    ELSE ConsumeLoop(s, i + 1, opened, closed, start)

ConsumeAngleBracket(s) == ConsumeLoop(s, 1, 0, 0, 1)

KMembufWrappers == {"__gnu_cxx::__aligned_membuf", "__gnu_cxx::__aligned_buffer"}

UnwrapParameterizedStorage(tn) ==
    IF \E w \in KMembufWrappers : StartsWith(tn, w)
    THEN ConsumeAngleBracket(tn) ELSE tn

-----------------------------------------------------------------------------
(* TypeData and FieldData                                                 *)

NewTypeData(name) ==
    [name |-> name, size |-> -1, kind |-> "UNKNOWN", fields |-> <<>>,
     offset_idx |-> <<>>, typedefs |-> <<>>, params |-> <<>>,
     consts |-> <<>>, heap |-> <<>>]

KindOf(tag) ==
    CASE tag = "namespace"   -> "NAMESPACE"
      [] tag = "class"       -> "CLASS"
      [] tag = "enumeration" -> "ENUM"
      [] tag = "structure"   -> "STRUCTURE"
      [] tag = "base"        -> "BASE_TYPE"
      [] tag = "pointer"     -> "POINTER_LIKE"
      [] tag = "subprogram"  -> "SUBPROGRAM"
      [] tag = "union"       -> "UNION"
      [] OTHER               -> "UNKNOWN"

SizedKinds == {"BASE_TYPE", "CLASS", "STRUCTURE", "UNION", "ENUM"}
ScopeKinds == {"NAMESPACE", "CLASS", "STRUCTURE", "SUBPROGRAM", "UNION"}

\* TypeData::ParseDIE on the TypeData td of DIE d, without its children.
ParseDIE(td, d) ==
    LET k == KindOf(D(d).tag)
    IN [td EXCEPT
          !.kind = k,
          !.name = IF k = "SUBPROGRAM" /\ D(d).linkage # "" THEN D(d).linkage ELSE @,
          !.size = IF k \in SizedKinds /\ D(d).size # -1 THEN D(d).size ELSE @]

\* The children ParseDIE visits, in order, into the TypeData at path c.
ChildVisits(d, c, k) ==
    IF k \in ScopeKinds
    THEN [i \in DOMAIN D(d).children |-> [die |-> D(d).children[i], path |-> c]]
    ELSE <<>>

\* The type-unit loops of ParseDWARF with a .dwp file, run before any unit
\* is visited: each type unit's signature is mapped to the qualified name
\* of its type DIE.  An anonymous record's name is made unique with the
\* signature, but the loop over the types section stores the name before
\* doing so and the loop over the info section after.
AnonSigName(tn) ==
    \/ tn = ""
    \/ \E k \in {"class", "union", "structure"} : EndsWith(tn, k \o " ")

SigName(u) ==
    LET tn == GetTypeQualifiedName(u.td)
        stripped == IF EndsWith(tn, " ") THEN SubSeq(tn, 1, Len(tn) - 1) ELSE tn
    IN IF u.sec = "dwp_info" /\ AnonSigName(tn)
       THEN stripped \o "_AnonSig_" \o ToString(u.sig)
       ELSE tn

SignatureMap(b) ==
    LET tus(sec) == SelectSeq(b, LAMBDA u : u.sec = sec /\ u.sig # 0)
    IN FoldLeft(LAMBDA m, u : (u.sig :> SigName(u)) @@ m, << >>,
                tus("dwp_types") \o tus("dwp_info"))

\* ResolveSignature: the name the context holds for the DIE's signature,
\* << >> for nullopt (no signature, or one the context does not hold).
ResolveSignature(d, sigs) ==
    IF d # 0 /\ D(d).sig \in DOMAIN sigs THEN <<sigs[D(d).sig]>> ELSE << >>

\* VisitChildDIE of a type: the signature's name, else the short name.
ChildName(d, sigs) ==
    IF ResolveSignature(d, sigs) # << >> THEN ResolveSignature(d, sigs)[1]
    ELSE RecursiveGetNameOrResolveAnon(d)

\* FieldData::ParseDIE: the type is named after its signature or by its
\* qualified name; a nameless record type is named after the DIE the
\* member refers to.
FieldTypeName(m, sigs) ==
    LET sig == ResolveSignature(RecursiveGetTypeDIE(m), sigs)
        tn == IF sig # << >> THEN sig[1]
              ELSE GetTypeQualifiedName(RecursiveGetTypeDIE(m))
        anonRec == \E k \in {"union", "class", "structure"} : EndsWith(tn, "::" \o k \o " ")
        cut == SubSeq(tn, 1, LastColons(tn) + 1)
    IN IF ~anonRec THEN tn
       ELSE IF D(m).type = 0 THEN cut
       ELSE cut \o "Anon_" \o ToString(D(m).type)

FieldData(m, sigs) ==
    [name |-> RecursiveGetName(m), offset |-> D(m).loc,
     type_name |-> FieldTypeName(m, sigs), inherited |-> D(m).tag = "inheritance"]

\* What the helpers above give for each DIE depends on the constant forest
\* alone.  Init computes it once into the variable dies, which no step
\* changes, and the actions and properties read it there rather than
\* recurse in every state.
DieIds == DOMAIN Dies \cup {0}
MemberDies == {m \in DOMAIN Dies : D(m).tag \in {"member", "inheritance"}}

RECURSIVE IndexPath(_, _)
\* The path of the TypeData the parse makes for a type DIE.
IndexPath(d, sigs) ==
    IF Parent(d) # 0 /\ D(Parent(d)).tag \in ScopeTags
    THEN IndexPath(Parent(d), sigs) \o <<ChildName(d, sigs)>>
    ELSE <<ChildName(d, sigs)>>

DieTables(sigs) ==
    [name    |-> [d \in DieIds |-> RecursiveGetName(d)],
     short   |-> [d \in DOMAIN Dies |-> ChildName(d, sigs)],
     qname   |-> [d \in DieIds |-> GetTypeQualifiedName(d)],
     type    |-> [d \in DieIds |-> RecursiveGetTypeDIE(d)],
     typedef |-> [d \in DieIds |-> RecursiveGetTypedefDIE(d)],
     param   |-> [d \in DieIds |-> RecursiveGetTypeDIEFormalParam(d)],
     field   |-> [m \in MemberDies |-> FieldData(m, sigs)],
     path    |-> [d \in DOMAIN Dies |-> IndexPath(d, sigs)],
     sigs    |-> sigs,
     parent  |-> [d \in DOMAIN Dies |-> Parent(d)]]

NameOf     == dies.name
ShortName  == dies.short
QName      == dies.qname
TypeDie    == dies.type
TypedefDie == dies.typedef
ParamDie   == dies.param
FieldOf    == dies.field
PathOf     == dies.path


-----------------------------------------------------------------------------
(* MetadataPack::ParseDWARF                                               *)

Init ==
    /\ cus \in Binaries
    /\ index = << >> :> NewTypeData("")
    /\ pending = << >>
    /\ unit = 1
    /\ ptr_size = 0
    /\ phase = "parse"
    /\ heap = << >>
    /\ params = << >>
    /\ anon = << >>
    /\ dies = DieTables(SignatureMap(cus))

\* VisitSibAndChildren: TryUpdatePointerSize, then every child of the unit
\* DIE is visited into the root space.
StartUnit ==
    /\ phase = "parse"
    /\ pending = << >>
    /\ unit <= Len(cus)
    /\ IF ptr_size = 0 \/ ptr_size = cus[unit].addr
       THEN /\ ptr_size' = cus[unit].addr
            /\ pending' = [i \in DOMAIN cus[unit].dies |->
                             [die |-> cus[unit].dies[i], path |-> << >>]]
            /\ unit' = unit + 1
            /\ UNCHANGED phase
       ELSE /\ phase' = "failed"
            /\ UNCHANGED <<ptr_size, pending, unit>>
    /\ UNCHANGED <<cus, index, heap, params, anon, dies>>

Visiting == phase = "parse" /\ pending # << >>
Cur == Head(pending)
Tag == D(Cur.die).tag

\* The TypeData at the current path after f is applied to it.
Update(f(_)) == [index EXCEPT ![Cur.path] = f(@)]

Skip ==
    /\ pending' = Tail(pending)
    /\ UNCHANGED index

TypeTags == {"namespace", "class", "structure", "base", "pointer",
             "enumeration", "union"}

\* A type or namespace: the child TypeData of its name is made if absent
\* (AddType) and parsed, and its children are visited next.
VisitType ==
    /\ Visiting
    /\ Tag \in TypeTags
    /\ LET c  == Cur.path \o <<ShortName[Cur.die]>>
           td == IF c \in DOMAIN index THEN index[c] ELSE NewTypeData(Last(c))
           nt == ParseDIE(td, Cur.die)
       IN /\ index' = (c :> nt) @@ index
          /\ pending' = ChildVisits(Cur.die, c, nt.kind) \o Tail(pending)
    /\ UNCHANGED <<cus, unit, ptr_size, phase, heap, params, anon, dies>>

\* A subprogram, keyed by its linkage name, else its short name; its
\* TypeData is made without AddType, so keeps an empty name unless the
\* DIE has a linkage name.
VisitSubprogram ==
    /\ Visiting
    /\ Tag = "subprogram"
    /\ LET key == IF D(Cur.die).linkage # "" THEN D(Cur.die).linkage
                  ELSE D(Cur.die).name
           c   == Cur.path \o <<key>>
           td  == IF c \in DOMAIN index THEN index[c] ELSE NewTypeData("")
       IN IF ReadSubprograms /\ key # ""
          THEN /\ index' = (c :> ParseDIE(td, Cur.die)) @@ index
               /\ pending' = ChildVisits(Cur.die, c, "SUBPROGRAM") \o Tail(pending)
          ELSE Skip
    /\ UNCHANGED <<cus, unit, ptr_size, phase, heap, params, anon, dies>>

\* DW_TAG_GOOGLE_heapalloc: frame -> qualified name of the allocated type
\* past its typedefs; an existing frame keeps its type (insert).
VisitHeapAlloc ==
    /\ Visiting
    /\ Tag = "heapalloc"
    /\ LET fr == [fn |-> D(Cur.die).name, line |-> D(Cur.die).line,
                  col |-> D(Cur.die).col]
           tn == QName[TypedefDie[D(Cur.die).type]]
       IN index' = Update(LAMBDA td : [td EXCEPT !.heap =
                            IF fr \in DOMAIN @ THEN @ ELSE (fr :> tn) @@ @])
    /\ pending' = Tail(pending)
    /\ UNCHANGED <<cus, unit, ptr_size, phase, heap, params, anon, dies>>

\* A typedef recorded under its own qualified name instead of its target's.
VisitTypedefSelf ==
    /\ Visiting
    /\ Tag = "typedef"
    /\ LET target == TypedefDie[Cur.die]
       IN IF target # 0
          THEN index' = Update(LAMBDA td : [td EXCEPT !.typedefs =
                  (NameOf[Cur.die] :> QName[Cur.die]) @@ @])
          ELSE UNCHANGED index
    /\ pending' = Tail(pending)
    /\ UNCHANGED <<cus, unit, ptr_size, phase, heap, params, anon, dies>>

\* DW_TAG_typedef: its name -> the qualified name of the first DIE past
\* the typedef chain, when that DIE is valid (overwriting).
VisitTypedef ==
    /\ Visiting
    /\ Tag = "typedef"
    /\ LET target == TypedefDie[Cur.die]
       IN IF target # 0
          THEN index' = Update(LAMBDA td : [td EXCEPT !.typedefs =
                  (NameOf[Cur.die] :> QName[target]) @@ @])
          ELSE UNCHANGED index
    /\ pending' = Tail(pending)
    /\ UNCHANGED <<cus, unit, ptr_size, phase, heap, params, anon, dies>>

\* A member indexed by the position after the one it is appended at.
VisitMemberShifted ==
    /\ Visiting
    /\ Tag \in {"member", "inheritance"}
    /\ LET f   == FieldOf[Cur.die]
           fs  == index[Cur.path].fields
           dup == \E i \in DOMAIN fs : /\ fs[i].offset = f.offset
                                       /\ fs[i].type_name = f.type_name
                                       /\ fs[i].name = f.name
           g   == [f EXCEPT !.type_name = UnwrapParameterizedStorage(@)]
       IN IF ~dup /\ g.offset >= 0
          THEN index' = Update(LAMBDA td : [td EXCEPT
                  !.offset_idx = (g.offset :>
                       ((IF g.offset \in DOMAIN @ THEN @[g.offset] ELSE {})
                          \cup {Len(fs) + 1})) @@ @,
                  !.fields = Append(@, g)])
          ELSE UNCHANGED index
    /\ pending' = Tail(pending)
    /\ UNCHANGED <<cus, unit, ptr_size, phase, heap, params, anon, dies>>

\* A member or base: the field is dropped when one with the same name,
\* offset and type name is already there (compared before the storage
\* wrapper is unwrapped), and kept, indexed by offset, when it has an
\* offset.
VisitMember ==
    /\ Visiting
    /\ Tag \in {"member", "inheritance"}
    /\ LET f   == FieldOf[Cur.die]
           fs  == index[Cur.path].fields
           dup == \E i \in DOMAIN fs : /\ fs[i].offset = f.offset
                                       /\ fs[i].type_name = f.type_name
                                       /\ fs[i].name = f.name
           g   == [f EXCEPT !.type_name = UnwrapParameterizedStorage(@)]
       IN IF ~dup /\ g.offset >= 0
          THEN index' = Update(LAMBDA td : [td EXCEPT
                  !.offset_idx = (g.offset :>
                       ((IF g.offset \in DOMAIN @ THEN @[g.offset] ELSE {})
                          \cup {Len(fs)})) @@ @,
                  !.fields = Append(@, g)])
          ELSE UNCHANGED index
    /\ pending' = Tail(pending)
    /\ UNCHANGED <<cus, unit, ptr_size, phase, heap, params, anon, dies>>

\* A template type or formal parameter: the qualified name of the record
\* or base type it refers to, appended unless already in the list.
VisitParameter ==
    /\ Visiting
    /\ Tag \in {"template_type_parameter", "formal_parameter"}
    /\ LET pn == QName[ParamDie[Cur.die]]
       IN index' = Update(LAMBDA td : [td EXCEPT !.params =
                            IF pn \in ToSet(@) THEN @ ELSE Append(@, pn)])
    /\ pending' = Tail(pending)
    /\ UNCHANGED <<cus, unit, ptr_size, phase, heap, params, anon, dies>>

\* A template value parameter or variable with a constant value and a
\* name: name -> value, an existing name keeping its value.
VisitConstant ==
    /\ Visiting
    /\ Tag \in {"template_value_parameter", "variable"}
    /\ IF D(Cur.die).cval # -1 /\ D(Cur.die).name # ""
       THEN index' = Update(LAMBDA td : [td EXCEPT !.consts =
               IF D(Cur.die).name \in DOMAIN @ THEN @
               ELSE (D(Cur.die).name :> D(Cur.die).cval) @@ @])
       ELSE UNCHANGED index
    /\ pending' = Tail(pending)
    /\ UNCHANGED <<cus, unit, ptr_size, phase, heap, params, anon, dies>>

VisitOther ==
    /\ Visiting
    /\ Tag \notin TypeTags \cup {"subprogram", "heapalloc", "typedef", "member",
                                 "inheritance", "template_type_parameter",
                                 "formal_parameter", "template_value_parameter",
                                 "variable"}
    /\ pending' = Tail(pending)
    /\ UNCHANGED <<cus, index, unit, ptr_size, phase, heap, params, anon, dies>>

-----------------------------------------------------------------------------
(* PostProcessAndIndexTypeData                                            *)

\* The namespace context of the walk at path p: "::" and the name of each
\* named namespace from the root down to p.
NsCtxt(p) ==
    FoldLeft(LAMBDA acc, k :
               LET q == SubSeq(p, 1, k)
               IN IF index[q].kind = "NAMESPACE" /\ index[q].name # ""
                  THEN acc \o "::" \o index[q].name ELSE acc,
             "", [k \in 1..Len(p) |-> k])

ParamKey(p) ==
    IF index[p].kind = "SUBPROGRAM" THEN index[p].name
    ELSE NsCtxt(p) \o "::" \o index[p].name

\* A map built by insertions that keep the first value of a key, in the
\* iteration order of the walk: any one of the candidates of each key.
FirstInserted(cand) ==
    {h \in [DOMAIN cand -> UNION {cand[k] : k \in DOMAIN cand}] :
        \A k \in DOMAIN cand : h[k] \in cand[k]}

AnonChildren(p) ==
    {c \in {Last(q) : q \in {q \in DOMAIN index : Len(q) = Len(p) + 1 /\ Front(q) = p}} :
        StartsWith(c, "Anon") /\ index[p \o <<c>>].kind = "NAMESPACE"}

\* The walk from the root: the heap-alloc sites and the parameter lists are
\* gathered, pointer-like types take the pointer size.  The iteration
\* order of every types map is fixed here for the process.
PostProcess ==
    /\ phase = "parse"
    /\ pending = << >>
    /\ unit > Len(cus)
    /\ LET P      == DOMAIN index
           Frames == UNION {DOMAIN index[p].heap : p \in P}
           Keys   == {ParamKey(p) : p \in {p \in P : index[p].params # << >>}}
       IN /\ heap' \in FirstInserted([fr \in Frames |->
                         {index[p].heap[fr] : p \in {p \in P : fr \in DOMAIN index[p].heap}}])
          /\ params' \in FirstInserted([k \in Keys |->
                         {index[p].params : p \in {p \in P : index[p].params # << >>
                                                            /\ ParamKey(p) = k}}])
          /\ anon' \in FirstInserted([p \in P |-> SetToSeqs(AnonChildren(p))])
          /\ index' = [p \in P |-> IF index[p].kind = "POINTER_LIKE"
                                   THEN [index[p] EXCEPT !.size = ptr_size]
                                   ELSE index[p]]
    /\ phase' = "ready"
    /\ UNCHANGED <<cus, pending, unit, ptr_size, dies>>

\* The fetcher is ready (or the parse failed) and answers lookups.
Ready ==
    /\ phase \in {"ready", "failed"}
    /\ UNCHANGED vars

Next ==
    \/ StartUnit \/ VisitType \/ VisitSubprogram \/ VisitHeapAlloc
    \/ VisitTypedef \/ VisitMember \/ VisitParameter \/ VisitConstant
    \/ VisitOther \/ PostProcess \/ Ready

\* The parse is a sequential loop over a finite forest.
Spec == Init /\ [][Next]_vars /\ WF_vars(Next)

-----------------------------------------------------------------------------
(* Lookups                                                                *)

\* SplitNamespace: split at each "::" outside angle brackets; the last
\* character is never looked at.
RECURSIVE SplitLoop(_, _, _, _, _)
SplitLoop(s, i, prev, depth, names) ==
    IF i > Len(s) - 1 THEN Append(names, SubSeq(s, prev, Len(s)))
    ELSE IF SubSeq(s, i, i) = "<" THEN SplitLoop(s, i + 1, prev, depth + 1, names)
    ELSE IF SubSeq(s, i, i) = ">" THEN SplitLoop(s, i + 1, prev, depth - 1, names)
    ELSE IF SubSeq(s, i, i + 1) = "::" /\ depth = 0
    THEN SplitLoop(s, i + 2, i + 2, depth, Append(names, SubSeq(s, prev, i - 1)))
    ELSE SplitLoop(s, i + 1, prev, depth, names)

SplitNamespace(s) == IF s = "" THEN << >> ELSE SplitLoop(s, 1, 1, 0, << >>)

\* A lookup's outcome: "ok" with the path found, "notfound", "invalid",
\* "overflow" when the recursion exceeds the stack, or "outofrange"
\* when names is read past its end.
Found(p) == [st |-> "ok", path |-> p]
Fail(st) == [st |-> st, path |-> << >>]

\* The outcomes a caller returns at once: a result, or a crash (the stack
\* overflow, the read past the end of names) that ends the process.
Stop == {"ok", "overflow", "outofrange"}

RECURSIVE SearchType(_, _, _, _), AnonSearch(_, _, _, _, _), GetTypeAt(_, _)

\* SearchType(parent_type, names, cur), at call depth n.
SearchType(p, names, cur, n) ==
    LET name  == names[cur]
        child == p \o <<name>>
        sub   == IF child \in DOMAIN index
                 THEN SearchType(child, names, cur + 1, n + 1) ELSE Fail("notfound")
    IN CASE n > MaxLookupDepth                   -> Fail("overflow")
         [] cur > Len(names)                    -> Fail("outofrange")
         [] name = "(anonymous namespace)"      -> AnonSearch(p, anon[p], names, cur, n)
         [] name \in DOMAIN index[p].typedefs   -> GetTypeAt(index[p].typedefs[name], n + 1)
         [] cur = Len(names)                    -> IF child \in DOMAIN index
                                                   THEN Found(child) ELSE Fail("notfound")
         [] sub.st \in Stop                      -> sub
         [] p \o <<"">> \in DOMAIN index        -> SearchType(p \o <<"">>, names, cur + 1, n + 1)
         [] OTHER                               -> Fail("notfound")

\* The search of the Anon_ namespaces that gives up after the first.
AnonSearchFirst(p, cands, names, cur, n) ==
    IF cands = << >> THEN Fail("notfound")
    ELSE SearchType(p \o <<Head(cands)>>, names, cur + 1, n + 1)

\* The greedy search of the Anon_ namespaces, in iteration order.
AnonSearch(p, cands, names, cur, n) ==
    IF cands = << >> THEN Fail("notfound")
    ELSE LET r == SearchType(p \o <<Head(cands)>>, names, cur + 1, n + 1)
         IN IF r.st \in Stop THEN r ELSE AnonSearch(p, Tail(cands), names, cur, n)

GetTypeAt(tn, n) ==
    IF tn = "" THEN Fail("invalid")
    ELSE LET r == SearchType(<< >>, SplitNamespace(tn), 1, n)
         IN IF r.st = "ok" /\ index[r.path].kind = "NAMESPACE" THEN Fail("invalid") ELSE r

GetType(tn) == GetTypeAt(tn, 1)

-----------------------------------------------------------------------------
(* Properties                                                             *)

\* The DIEs the parse visits outside subprograms: the unit DIEs' children
\* and, below a namespace or record, its children.
RECURSIVE ReachedFrom(_)
ReachedFrom(d) ==
    {d} \cup (IF D(d).tag \in ScopeTags
              THEN UNION {ReachedFrom(c) : c \in ToSet(D(d).children)} ELSE {})

Reached == UNION {ReachedFrom(d) : d \in UNION {ToSet(cus[u].dies) : u \in DOMAIN cus}}

\* The children of the subprograms the parse visits.
InSubprograms ==
    IF ReadSubprograms
    THEN UNION {ToSet(D(s).children) : s \in {s \in Reached : D(s).tag = "subprogram"}}
    ELSE {}


ResolvableTags == {"structure", "class", "union", "base"}

\* The names the resolver looks up with GetType, each with the DIE of the
\* type it stands for: the type of a field (not wrapped in a storage
\* buffer), the type allocated at a heap-alloc site, a formal or template
\* parameter, and a member typedef (as in the "btree<...>::field_type" the
\* btree strategy composes).
Lookups ==
    {<<FieldOf[m].type_name, TypeDie[m]>> :
        m \in {m \in Reached \cap MemberDies :
                   UnwrapParameterizedStorage(FieldOf[m].type_name) = FieldOf[m].type_name}}
    \cup {<<QName[TypedefDie[D(h).type]], TypedefDie[D(h).type]>> :
            h \in {h \in Reached \cup InSubprograms : D(h).tag = "heapalloc"}}
    \cup {<<QName[ParamDie[x]], ParamDie[x]>> :
            x \in {x \in Reached \cup InSubprograms :
                      D(x).tag \in {"template_type_parameter", "formal_parameter"}}}
    \cup {<<QName[t], TypedefDie[t]>> :
            t \in {t \in Reached : D(t).tag = "typedef"}}

TypeOK ==
    /\ phase \in {"parse", "ready", "failed"}
    /\ unit \in 1..(Len(cus) + 1)
    /\ ptr_size \in Nat
    /\ \A p \in DOMAIN index :
          /\ index[p].kind \in {"NAMESPACE", "CLASS", "ENUM", "STRUCTURE", "BASE_TYPE",
                                "POINTER_LIKE", "SUBPROGRAM", "UNION", "UNKNOWN"}
          /\ \A o \in DOMAIN index[p].offset_idx :
                index[p].offset_idx[o] \subseteq 0..(Len(index[p].fields) - 1)

\* The DIE that defines the type d stands for: the type DIE of the type
\* unit whose signature d carries, else d itself.
Definition(d) ==
    IF \E u \in Range(cus) : u.sig # 0 /\ u.sig = D(d).sig
    THEN (CHOOSE u \in Range(cus) : u.sig # 0 /\ u.sig = D(d).sig).td
    ELSE d

\* Once the fetcher is ready, every name the resolver looks up for a record
\* or base type DIE finds the TypeData that the type's definition was
\* parsed into: through the typedef restart (SearchType), the greedy search
\* of the anonymous namespaces, the merge of the same type from several
\* units, and the signature of a type unit (ResolveSignature).
IndexNamesResolve ==
    phase = "ready" =>
        \A q \in Lookups :
            q[2] \in Reached /\ D(q[2]).tag \in ResolvableTags
                => GetType(q[1]) = Found(PathOf[Definition(q[2])])

\* No lookup of a name the resolver asks for exhausts the stack or reads
\* past the end of the split name: the typedef restart of SearchType
\* always reaches a name that is not a typedef of its own scope.
LookupTerminates ==
    phase = "ready" =>
        \A q \in Lookups : GetType(q[1]).st \notin {"overflow", "outofrange"}

\* The field a member DIE is parsed into.
ParsedField(m) == [FieldOf[m] EXCEPT !.type_name = UnwrapParameterizedStorage(@)]

\* Once the fetcher is ready, every member of a reached record, whichever
\* units declare it, is found exactly once through the offset index the
\* resolver reads (type_resolver.cc, the fields at an offset): VisitChildDIE
\* drops the copy a later unit brings and indexes the one it keeps.
MembersIndexedOnce ==
    phase = "ready" =>
        \A m \in {m \in Reached : D(m).tag \in {"member", "inheritance"} /\ D(m).loc >= 0} :
            LET td  == index[PathOf[dies.parent[m]]]
                at  == IF D(m).loc \in DOMAIN td.offset_idx THEN td.offset_idx[D(m).loc] ELSE {}
            IN Cardinality({i \in at : i + 1 \in DOMAIN td.fields
                                       /\ td.fields[i + 1] = ParsedField(m)}) = 1

====
