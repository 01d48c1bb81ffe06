---------------------------- MODULE TypeResolver ----------------------------
(***************************************************************************)
(* Tree construction of src/type_resolver.cc: BuildTree,                  *)
(* BuildTreeRecursive and ResolveFieldConflicts, over a fixed debug index. *)
(*                                                                         *)
(* The debug index is the constant Types: a function from type names to   *)
(* [size (bytes), dt (DataType), fields], each field a record              *)
(* [name, off (bytes), tname, inh].  GetType(name) succeeds exactly on     *)
(* DOMAIN Types.  ResolveFieldConflicts iterates the field indices of an   *)
(* offset in the order of an absl::flat_hash_set, which the code does not  *)
(* fix; that order is the argument `ord`: ord[<<tname, off>>] is the       *)
(* iteration order of the indices sharing offset `off` in type `tname`.    *)
(***************************************************************************)
EXTENDS TypeTree

CONSTANTS
    Types,          \* the debug index
    Indirections,   \* base names ending in "*", "&", "()" or ")>"
    Underscored,    \* field names that start with "_"
    PointerSize     \* GetPointerSize(), in bytes

GetTypeOk(tn) == tn \in DOMAIN Types

\* IsIndirection: a name that is not an array and ends like a pointer.
IsIndirection(tn) == Len(tn) = 1 /\ tn[1] \in Indirections

\* GetArrayMultiplicity: the trailing "[N]", 1 when there is none.
GetArrayMultiplicity(tn) == IF Len(tn) > 1 THEN tn[Len(tn)] ELSE 1

\* GetArrayChildTypeName: the name without its trailing "[N]".
GetArrayChildTypeName(tn) == SubSeq(tn, 1, Len(tn) - 1)

-----------------------------------------------------------------------------
(* ResolveFieldConflicts                                                  *)

FieldIndicesAt(td, off) == {i \in DOMAIN td.fields : td.fields[i].off = off}

FieldOffsets(td) == {td.fields[i].off : i \in DOMAIN td.fields}

\* The keys of `ord`: every offset of a non-union type holding two fields.
ConflictKeys ==
    UNION {{<<tn, off>> : off \in {o \in FieldOffsets(Types[tn]) :
                                 Cardinality(FieldIndicesAt(Types[tn], o)) > 1}} :
           tn \in {t \in DOMAIN Types : Types[t].dt # "union"}}

\* One iteration of the loop over the candidates at an offset: `cur` is
\* <<>> while no candidate resolved, else <<the field chosen so far>>.
ConflictStep(cur, f) ==
    IF ~GetTypeOk(f.tname) THEN cur
    ELSE IF cur = <<>> THEN <<f>>
    ELSE
      LET a == Types[cur[1].tname]
          b == Types[f.tname]
      IN IF a.size = b.size /\ Len(a.fields) = Len(b.fields)
         THEN IF ~cur[1].inh /\ f.inh THEN <<f>>
              ELSE IF cur[1].name \in Underscored /\ f.name \notin Underscored
                   THEN <<f>>
                   ELSE cur
         ELSE IF a.size < b.size THEN <<f>>
         ELSE IF Len(a.fields) < Len(b.fields) THEN <<f>>
         ELSE cur

\* The field kept at `off`: <<>> when no candidate resolves.
ResolveAt(tn, off, ord) ==
    LET td == Types[tn]
    IN IF Cardinality(FieldIndicesAt(td, off)) = 1
       THEN <<td.fields[CHOOSE i \in FieldIndicesAt(td, off) : TRUE]>>
       ELSE FoldLeft(ConflictStep, <<>>,
                     [k \in DOMAIN ord[<<tn, off>>] |->
                        td.fields[ord[<<tn, off>>][k]]])

\* A union keeps all fields in order; otherwise one field per sorted
\* offset, and an empty vector as soon as one offset has no resolvable
\* candidate.  (The final size check cannot fail: offset_idx holds exactly
\* the offsets of the stored fields, see TypeData::ParseDIE.)
ResolveFieldConflicts(tn, ord) ==
    LET td    == Types[tn]
        offs  == SetToSortSeq(FieldOffsets(td), LAMBDA x, y : x < y)
        picks == [k \in DOMAIN offs |-> ResolveAt(tn, offs[k], ord)]
    IN IF td.dt = "union" THEN td.fields
       ELSE IF \E k \in DOMAIN picks : picks[k] = <<>> THEN <<>>
       ELSE [k \in DOMAIN picks |-> picks[k][1]]

ResolvedOffsets(rf) == [k \in DOMAIN rf |-> rf[k].off]

-----------------------------------------------------------------------------
(* BuildTree / BuildTreeRecursive                                         *)

\* The size given to a field whose type is not in the index.
InferredSize(idx, parent, rf) ==
    IF rf = <<>> THEN parent.size
    ELSE IF idx >= Len(rf) - 1 THEN parent.size - rf[idx + 1].off * 8
    ELSE rf[idx + 2].off * 8 - rf[idx + 1].off * 8

RECURSIVE BuildTreeRecursive(_, _, _, _, _, _, _, _), AddFields(_, _, _, _)

\* The loop over resolved fields shared by BuildTree and BuildTreeRecursive.
AddFields(node, rf, ord, i) ==
    IF i > Len(rf) THEN node
    ELSE LET child == BuildTreeRecursive(rf[i].tname, rf[i].name, i - 1,
                                         rf[i].off * 8, 1, node, rf, ord)
         IN AddFields(AddChildAndInsertPaddingIfNecessary(
                          node, child, i - 1, ResolvedOffsets(rf)),
                      rf, ord, i + 1)

BuildTreeRecursive(tn, fname, idx, off, mult, parent, rf, ord) ==
    IF IsIndirection(tn)
    THEN CreatePointerNode(fname, tn, off, mult, PointerSize * 8, parent.gofs)
    ELSE IF GetArrayMultiplicity(tn) > 1
    THEN LET arr == CreateArrayTypeNode(fname, tn, -1, off, mult, parent)
             sub == BuildTreeRecursive(GetArrayChildTypeName(tn), "[_]", 0, 0,
                                       GetArrayMultiplicity(tn), arr, <<>>, ord)
         IN AddChildAndInsertPaddingIfNecessary(
                [arr EXCEPT !.size = sub.size * sub.mult], sub, 0, <<>>)
    ELSE IF ~GetTypeOk(tn)
    THEN CreateUnresolvedTypeNode(fname, tn, off, mult,
                                  InferredSize(idx, parent, rf), parent)
    ELSE AddFields(CreateNodeFromTypedata(fname, tn, off, mult, Types[tn], parent),
                   ResolveFieldConflicts(tn, ord), ord, 1)

\* BuildTree fails with NotFound exactly when this is false.
BuildTreeOk(tn) == IsIndirection(tn) \/ GetTypeOk(tn)

BuildTree(tn, ord) ==
    IF IsIndirection(tn)
    THEN CreatePointerNode(tn, tn, 0, 1, PointerSize * 8, 0)
    ELSE AddFields(CreateRootNode(tn, Types[tn]),
                   ResolveFieldConflicts(tn, ord), ord, 1)

\* Every iteration order the code may use: one permutation per key.
IterationOrders(S) == {p \in [1..Cardinality(S) -> S] : Range(p) = S}
KeyOrders(key) == IterationOrders(FieldIndicesAt(Types[key[1]], key[2]))
Orders ==
    {ord \in [ConflictKeys -> UNION {KeyOrders(key) : key \in ConflictKeys}] :
        \A key \in ConflictKeys :
            ord[key] \in KeyOrders(key)}

=============================================================================
