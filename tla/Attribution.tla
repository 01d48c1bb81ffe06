---------------------------- MODULE Attribution ----------------------------
(***************************************************************************)
(* One allocation's histogram attributed to the tree of its type: the      *)
(* resolver builds the tree (DwarfTypeResolver::BuildTree), then          *)
(* TypeTree::RecordAccessHistogram records the histogram, as               *)
(* LocalHistogramBuilder::BuildHistogram does for each sample.            *)
(*                                                                         *)
(* The inputs are chosen in Init: the root type, the iteration order of   *)
(* every hash set the resolver reads, and the histogram.                  *)
(***************************************************************************)
EXTENDS TypeResolver

CONSTANTS
    RootTypes,      \* the type names an allocation may have
    Hists           \* the histograms an allocation may carry

VARIABLES
    ord,            \* the flat_hash_set iteration orders of this process
    tree,           \* the root node
    hist,           \* the allocation's access histogram
    status          \* "pending" before recording, then the returned status

vars == <<ord, tree, hist, status>>

Init ==
    /\ ord \in Orders
    /\ \E tn \in {t \in RootTypes : BuildTreeOk(t)} : tree = BuildTree(tn, ord)
    /\ hist \in Hists
    /\ status = "pending"

\* TypeTree::RecordAccessHistogram on the freshly built tree.
Record ==
    /\ status = "pending"
    /\ LET r == RecordAccessHistogram(tree, hist)
       IN /\ tree' = r.root
          /\ status' = r.status
    /\ UNCHANGED <<ord, hist>>

\* The attribution of one sample is over.
Done ==
    /\ status # "pending"
    /\ UNCHANGED vars

Next == Record \/ Done

Spec == Init /\ [][Next]_vars /\ WF_vars(Record)

-----------------------------------------------------------------------------
(* Properties                                                             *)

RECURSIVE NodeOk(_)
NodeOk(n) ==
    /\ DOMAIN n = {"name", "tname", "off", "size", "mult", "kind", "gofs",
                   "union", "total", "children"}
    /\ n.tname[1] \in STRING
    /\ \A i \in 2..Len(n.tname) : n.tname[i] \in Nat
    /\ {n.off, n.size, n.mult, n.gofs} \subseteq Int
    /\ n.kind \in {"record", "builtin", "indirection", "enum", "unknown",
                    "array", "padding"}
    /\ n.union \in BOOLEAN
    /\ n.total \in Nat
    /\ \A k \in DOMAIN n.children : NodeOk(n.children[k])

TypeOK ==
    /\ NodeOk(tree)
    /\ hist \in Seq(Nat)
    /\ status \in {"pending", "OK", "InvalidArgument", "FailedPrecondition"}

SumSeq(s) == FoldFunction(+, 0, s)

\* The reference count of a node: every tuple x of element indices of its
\* array ancestors places one copy of the node; a bucket adds its count
\* once for every copy it overlaps.  No pruning, no offset vectors.
Shift(x, anc) == SumSeq([j \in DOMAIN anc |-> x[j] * anc[j].size])
Copies(anc) ==
    {x \in [DOMAIN anc -> 0..(FoldFunction(Max2, 1, [j \in DOMAIN anc |->
                                                    anc[j].mult]) - 1)] :
        \A j \in DOMAIN anc : x[j] < anc[j].mult}
RefTotal(n, anc, h) ==
    LET g  == GlobalOffsetBytes(n)
        fs == FullSizeBytes(n)
    IN SumSeq([i \in DOMAIN h |->
         h[i] * Cardinality({x \in Copies(anc) :
                   Overlap((i - 1) * AccessGranularity, i * AccessGranularity,
                           g + Shift(x, anc), g + Shift(x, anc) + fs)})])

RECURSIVE MatchesReference(_, _, _)
MatchesReference(n, anc, h) ==
    /\ n.total = RefTotal(n, anc, h)
    /\ \A k \in DOMAIN n.children :
         MatchesReference(n.children[k],
                          Append(anc, [size |-> SizeBytes(n), mult |-> n.mult]),
                          h)

\* Node::RecordAccess counts every node once per copy of it that a bucket
\* overlaps, as a direct enumeration of the copies does: the pruning on
\* array_element_offsets.back() and the offset vectors lose nothing.
RecordMatchesReference ==
    status # "pending" =>
        MatchesReference(tree, <<>>,
                         IF status = "InvalidArgument" THEN <<>>
                         ELSE RecordedHistogram(tree, hist))

ChildSum(n, F(_)) == SumSeq([k \in DOMAIN n.children |-> F(n.children[k])])

\* Invariants 1 and 6: positive sizes, and a type name on every node but
\* padding.
RECURSIVE SpecWellFormed(_)
SpecWellFormed(n) ==
    /\ n.size > 0
    /\ ~IsPadding(n) => n.tname # PaddingName
    /\ \A k \in DOMAIN n.children : SpecWellFormed(n.children[k])

\* Invariants 2 and 3: the children of a non-union node start at 0,
\* follow each other without gap or overlap and fill the node; global
\* offsets add up along the tree.
RECURSIVE Tiled(_)
Tiled(n) ==
    /\ ~n.union /\ n.children # <<>> =>
         /\ n.children[1].off = 0
         /\ \A k \in 2..Len(n.children) :
              n.children[k].off = n.children[k - 1].off
                                    + FullSizeBits(n.children[k - 1])
         /\ ChildSum(n, FullSizeBits) = n.size
    /\ \A k \in DOMAIN n.children :
         /\ n.children[k].gofs = n.gofs + n.children[k].off
         /\ Tiled(n.children[k])

\* Spec section 8: invariants 1, 2, 3 and 6 hold for every tree the
\* resolver builds (BuildTree with the padding of
\* AddChildAndInsertPaddingIfNecessary), and recording keeps the shape.
LayoutWellFormed == SpecWellFormed(tree) /\ Tiled(tree)

\* Invariants 4 and 5 after recording: a parent never counts more than its
\* children together; the only child of a union counts what the union
\* counts, and children of a union with the same size count alike.
RECURSIVE CountsOk(_)
CountsOk(n) ==
    /\ n.children # <<>> => SumSeq([k \in DOMAIN n.children |-> n.children[k].total]) >= n.total
    /\ n.union /\ Len(n.children) = 1 => n.children[1].total = n.total
    /\ n.union =>
         \A j, k \in DOMAIN n.children :
            FullSizeBits(n.children[j]) = FullSizeBits(n.children[k])
              => n.children[j].total = n.children[k].total
    /\ \A k \in DOMAIN n.children : CountsOk(n.children[k])

CountsConsistent == status # "pending" => CountsOk(tree)

\* Spec 4.2.2: when fields share an offset, the larger type wins, and of
\* types of equal size the one with more sub-fields (the later tiebreakers
\* on inheritance and "_" may pick any candidate, spec section 9).  So no
\* resolvable candidate beats the field ResolveFieldConflicts keeps, in
\* whatever order the flat_hash_set yields the candidates.
SpecBeats(f, g) ==
    LET a == Types[f.tname]
        b == Types[g.tname]
    IN a.size > b.size \/ (a.size = b.size /\ Len(a.fields) > Len(b.fields))

ConflictWinnerMatchesSpec ==
    \A key \in ConflictKeys :
       LET td   == Types[key[1]]
           kept == ResolveAt(key[1], key[2], ord)
       IN kept # <<>> =>
            ~\E i \in FieldIndicesAt(td, key[2]) :
                GetTypeOk(td.fields[i].tname) /\ SpecBeats(td.fields[i], kept[1])

=============================================================================
