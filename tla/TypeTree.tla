------------------------------ MODULE TypeTree ------------------------------
(***************************************************************************)
(* The attribution-side type tree of src/type_tree.{h,cc}.                 *)
(*                                                                         *)
(* A node is a record; its children are a sequence of nodes, so every      *)
(* operation on a tree is a RECURSIVE operator.  Offsets and sizes are     *)
(* kept in BITS, as in the code, and converted to bytes with the code's    *)
(* truncating division, so an unresolved node of size -1 bits has 0 bytes  *)
(* exactly as GetSizeBytes() computes it.  Only the `total` access counter *)
(* is kept: the only caller records kAccess, so `access` always equals     *)
(* `total`, and `llc_miss` is never incremented.                           *)
(*                                                                         *)
(* A type name is a tuple <<base>> \o dims: "A[2][3]" is <<"A", 2, 3>>.    *)
(* The regular expressions of the code that read the trailing "[N]" are    *)
(* modelled by the last element of the tuple.                              *)
(***************************************************************************)
EXTENDS Integers, Sequences, FiniteSets, SequencesExt, Functions

\* The template argument AccessGranularity at the only call site
\* (kMemprofHistogramGranularity in histogram_builder.h).
AccessGranularity == 8

\* C++ signed integer division truncates toward zero; TLA+ \div floors.
CDiv(a, b) == IF a >= 0 THEN a \div b ELSE -((-a) \div b)

Max2(a, b) == IF a >= b THEN a ELSE b
Min2(a, b) == IF a <= b THEN a ELSE b

\* Comparisons of a uint64 value a >= 0 with an int64 value b: C++ converts
\* b to uint64, so a negative b compares as a number above every a.
UGreater(a, b) == b >= 0 /\ a > b
ULess(a, b) == b < 0 \/ a < b

PaddingName == <<"">>

-----------------------------------------------------------------------------
(* Node construction: the Create*Node helpers of TypeTree::Node.          *)

MkNode(name, tname, off, size, mult, kind, gofs, isUnion) ==
    [name |-> name, tname |-> tname, off |-> off, size |-> size,
     mult |-> mult, kind |-> kind, gofs |-> gofs, union |-> isUnion,
     total |-> 0, children |-> <<>>]

\* Mutation: unions left out of the record kinds.
KindOfUnionApart(dt) ==
    CASE dt \in {"class", "struct"} -> "record"
      [] dt = "union"                -> "union"
      [] dt = "base"                 -> "builtin"
      [] dt = "pointer"              -> "indirection"
      [] dt = "enum"                 -> "enum"
      [] OTHER                       -> "unknown"

\* DwarfTypeKindToObjectTypeKind.
KindOf(dt) ==
    CASE dt \in {"class", "struct", "union"} -> "record"
      [] dt = "base"                         -> "builtin"
      [] dt = "pointer"                      -> "indirection"
      [] dt = "enum"                         -> "enum"
      [] OTHER                               -> "unknown"

\* Every helper with a parent computes the global offset from it.
CreateNodeFromTypedata(name, tname, off, mult, td, parent) ==
    MkNode(name, tname, off, td.size * 8, mult, KindOf(td.dt),
           parent.gofs + off, td.dt = "union")

CreateArrayTypeNode(name, tname, size, off, mult, parent) ==
    MkNode(name, tname, off, size, mult, "array", parent.gofs + off, FALSE)

CreateRootNode(tname, td) ==
    MkNode(tname, tname, 0, td.size * 8, 1, KindOf(td.dt), 0, td.dt = "union")

CreatePaddingNode(from, to, parent) ==
    MkNode("", PaddingName, from, to - from, 1, "padding",
           parent.gofs + from, FALSE)

CreateUnresolvedTypeNode(name, tname, off, mult, size, parent) ==
    MkNode(name, tname, off, size, mult, "unknown", parent.gofs + off, FALSE)

\* BuildTree creates a root pointer node with a null parent (gofs 0).
CreatePointerNode(name, tname, off, mult, psize, parentGofs) ==
    MkNode(name, tname, off, psize, mult, "indirection", parentGofs + off, FALSE)

-----------------------------------------------------------------------------
(* Size accessors, with the code's int64 arithmetic.                      *)

SizeBytes(n) == CDiv(n.size, 8)
FullSizeBits(n) == n.size * n.mult
FullSizeBytes(n) == CDiv(n.size * n.mult, 8)
OffsetBytes(n) == CDiv(n.off, 8)
GlobalOffsetBytes(n) == CDiv(n.gofs, 8)
IsPadding(n) == n.kind = "padding"

\* Mutation: the trailing padding after the last field is forgotten.
AddChildWithoutTrailingPadding(parent, child, idx, resolved) ==
    IF parent.union
    THEN [parent EXCEPT !.children = Append(@, child)]
    ELSE
      LET lastEnd  == IF idx > 0
                      THEN resolved[idx] * 8
                             + FullSizeBits(parent.children[Len(parent.children)])
                      ELSE 0
          curStart == IF idx > 0 THEN resolved[idx + 1] * 8 ELSE 0
          gap      == IF idx > 0 /\ curStart > lastEnd
                      THEN <<CreatePaddingNode(lastEnd, curStart, parent)>>
                      ELSE <<>>
      IN [parent EXCEPT !.children = @ \o gap \o <<child>>]

\* AddChildAndInsertPaddingIfNecessary, with `this` and `parent_node` the
\* same node as at every call site.  `resolved` is the sequence of the
\* resolved fields' byte offsets; `idx` is the code's 0-based field_index.
\* With an empty `resolved`, resolved_fields.size() - 1 wraps around as a
\* size_t and no trailing padding is added.
AddChildAndInsertPaddingIfNecessary(parent, child, idx, resolved) ==
    IF parent.union
    THEN [parent EXCEPT !.children = Append(@, child)]
    ELSE
      LET lastEnd  == IF idx > 0
                      THEN resolved[idx] * 8
                             + FullSizeBits(parent.children[Len(parent.children)])
                      ELSE 0
          curStart == IF idx > 0 THEN resolved[idx + 1] * 8 ELSE 0
          gap      == IF idx > 0 /\ curStart > lastEnd
                      THEN <<CreatePaddingNode(lastEnd, curStart, parent)>>
                      ELSE <<>>
          childEnd == child.off + FullSizeBits(child)
          trail    == IF Len(resolved) > 0 /\ idx = Len(resolved) - 1
                         /\ parent.size > childEnd
                      THEN <<CreatePaddingNode(childEnd, parent.size, parent)>>
                      ELSE <<>>
      IN [parent EXCEPT !.children = @ \o gap \o <<child>> \o trail]

-----------------------------------------------------------------------------
(* Recording accesses: Node::RecordAccess and TypeTree::RecordAccessHistogram *)

Overlap(a1, a2, b1, b2) == Max2(a2, b2) - Min2(a1, b1) < (a2 - a1) + (b2 - b1)

\* Mutation: an inner array restarts from the first copy of the outer one.
ExpandOffsetsRestart(theta, m, s) ==
    IF m = 1 THEN theta ELSE [k \in 1..m |-> theta[1] + (k - 1) * s]

\* The array element offsets handed to the children: for i in 0..m-1, for
\* each parent offset t, t + i * size (in that order, duplicates kept).
ExpandOffsets(theta, m, s) ==
    [k \in 1..(m * Len(theta)) |->
        theta[((k - 1) % Len(theta)) + 1] + ((k - 1) \div Len(theta)) * s]

\* Mutation: the pruning range ends at the first element offset.
PruneEndFront(n, theta) == GlobalOffsetBytes(n) + theta[1] + FullSizeBytes(n)

\* The end of the widest range of a node: the pruning test of RecordAccess
\* uses the last array element offset.
PruneEnd(n, theta) == GlobalOffsetBytes(n) + Last(theta) + FullSizeBytes(n)

\* The return value of the code (overlap in children) is discarded by every
\* caller, so the operator returns the updated node only.
RECURSIVE NodeRecordAccess(_, _, _, _)
NodeRecordAccess(n, o, c, theta) ==
    LET g  == GlobalOffsetBytes(n)
        fs == FullSizeBytes(n)
    IN IF ~Overlap(o, o + AccessGranularity, g, PruneEnd(n, theta))
       THEN n
       ELSE LET hits == Cardinality({i \in DOMAIN theta :
                          Overlap(o, o + AccessGranularity,
                                  g + theta[i], g + theta[i] + fs)})
                next == ExpandOffsets(theta, n.mult, SizeBytes(n))
            IN [n EXCEPT !.total = @ + hits * c,
                         !.children = [k \in DOMAIN n.children |->
                                  NodeRecordAccess(n.children[k], o, c, next)]]

\* CollapseHistogram: bucket j of the result sums h[i * new + j] for the
\* first collapse_num = N \div new rows; a trailing partial row is dropped.
CollapseHistogram(h, collapsed) ==
    LET new == 1 + CDiv(collapsed - 1, AccessGranularity)
        num == Len(h) \div new
    IN [j \in 1..new |->
          FoldFunction(+, 0, [i \in 0..(num - 1) |-> h[i * new + j]])]

\* The loop of RecordAccessHistogram over the (possibly collapsed) buckets.
RECURSIVE RecordBuckets(_, _, _)
RecordBuckets(root, h, i) ==
    IF i > Len(h) THEN root
    ELSE RecordBuckets(NodeRecordAccess(root, (i - 1) * AccessGranularity,
                                        h[i], <<0>>), h, i + 1)

\* The histogram actually recorded: unchanged below the type size and in
\* the window (full, 2 * full), collapsed from 2 * full on.
RecordedHistogram(root, h) ==
    LET hb   == Len(h) * AccessGranularity
        full == FullSizeBytes(root)
    IN IF UGreater(hb, full) /\ ULess(hb, 2 * full) THEN h
       ELSE IF UGreater(hb, full) THEN CollapseHistogram(h, full)
       ELSE h

\* RecordAccessHistogram: the updated root and the returned status.  The
\* FailedPrecondition check happens after the counts are applied.
RecordAccessHistogram(root, h) ==
    IF Len(h) * AccessGranularity = 0
    THEN [root |-> root, status |-> "InvalidArgument"]
    ELSE LET h2 == RecordedHistogram(root, h)
         IN [root   |-> RecordBuckets(root, h2, 1),
             status |-> IF Len(h) % Len(h2) # 0 THEN "FailedPrecondition"
                                                 ELSE "OK"]

-----------------------------------------------------------------------------
(* Node::Verify.  `parent` and `older` are <<>> for a null pointer or a    *)
(* one-element sequence holding the node.                                 *)

\* The checks made on a child of a union (and nothing else: the child's
\* own children are not visited).
UnionChildOk(n, par, older) ==
    /\ ~(OffsetBytes(n) # 0 /\ ~IsPadding(n))
    /\ older = <<>> =>
         ~(Len(par[1].children) = 1 /\ n.total # par[1].total)
    /\ older # <<>> =>
         ~(FullSizeBytes(n) = FullSizeBytes(older[1])
           /\ n.total # older[1].total)

\* The checks made on a node that is neither a union nor a union's child.
RecordNodeOk(n, par, older) ==
    /\ n.children # <<>> =>
         /\ FoldFunction(+, 0, [k \in DOMAIN n.children |->
                                  n.children[k].total]) >= n.total
         /\ FoldFunction(+, 0, [k \in DOMAIN n.children |->
                                  FullSizeBits(n.children[k])]) = n.size
    /\ ~IsPadding(n) => n.tname # PaddingName
    /\ par # <<>> => n.gofs = par[1].gofs + n.off
    /\ older # <<>> =>
         /\ n.gofs > older[1].gofs
         /\ older[1].size + older[1].off = n.off
         /\ older[1].gofs + older[1].size = n.gofs
    /\ older = <<>> => n.off = 0
    /\ n.size > 0

\* A union node hands its OWN older sibling to each of its children.
RECURSIVE Verify(_, _, _)
Verify(n, par, older) ==
    IF par # <<>> /\ par[1].union
    THEN UnionChildOk(n, par, older)
    ELSE IF n.union
    THEN /\ \A k \in DOMAIN n.children :
              ~(OffsetBytes(n.children[k]) # 0 /\ ~IsPadding(n.children[k]))
         /\ \A k \in DOMAIN n.children : Verify(n.children[k], <<n>>, older)
    ELSE /\ RecordNodeOk(n, par, older)
         /\ \A k \in DOMAIN n.children :
              Verify(n.children[k], <<n>>,
                     IF k = 1 THEN <<>> ELSE <<n.children[k - 1]>>)

VerifyTree(root) == Verify(root, <<>>, <<>>)

-----------------------------------------------------------------------------
(* Node::MergeCounts(other): counters are added top-down and the first    *)
(* structural mismatch returns InvalidArgument.  On an error the caller   *)
(* discards the partly merged tree, so the model separates the check      *)
(* (MergeCountsOk) from the sum (MergeCounts).                            *)

\* has_same_type: equal names, or names sharing the part before '['.
SameTypeName(t1, t2) == t1 = t2 \/ (Len(t1) > 1 /\ t1[1] = t2[1])

RECURSIVE MergeCountsOk(_, _)
MergeCountsOk(n, other) ==
    /\ n.name = other.name
    /\ Len(n.children) = Len(other.children)
    /\ SameTypeName(n.tname, other.tname)
    /\ \A k \in DOMAIN n.children :
         MergeCountsOk(n.children[k], other.children[k])

\* Mutation: the counts of the root are added, those below it are not.
MergeCountsRootOnly(n, other) == [n EXCEPT !.total = @ + other.total]

RECURSIVE MergeCounts(_, _)
MergeCounts(n, other) ==
    [n EXCEPT !.total = @ + other.total,
              !.children = [k \in DOMAIN n.children |->
                              MergeCounts(n.children[k], other.children[k])]]

-----------------------------------------------------------------------------
(* TypeTree::MergeTreeIntoThis(other): the non-local resolver merges a    *)
(* slot tree into the template of a container block.  A node of the tree  *)
(* is addressed by its path, the sequence of child indices from the root.  *)

\* Node::FindNodeWithTypeName: a child is tried before its subtree, in
\* order; the root itself is never a candidate.  <<>> is NotFound.
RECURSIVE FindNodeWithTypeName(_, _)
FindNodeWithTypeName(n, tn) ==
    LET hits == {k \in DOMAIN n.children :
                   n.children[k].tname = tn
                   \/ FindNodeWithTypeName(n.children[k], tn) # <<>>}
        k    == Min(hits)
    IN IF hits = {} THEN <<>>
       ELSE IF n.children[k].tname = tn THEN <<k>>
       ELSE <<k>> \o FindNodeWithTypeName(n.children[k], tn)

RECURSIVE NodeAt(_, _)
NodeAt(n, path) ==
    IF path = <<>> THEN n ELSE NodeAt(n.children[Head(path)], Tail(path))

RECURSIVE ReplaceNodeAt(_, _, _)
ReplaceNodeAt(n, path, m) ==
    IF path = <<>> THEN m
    ELSE [n EXCEPT !.children[Head(path)] = ReplaceNodeAt(@, Tail(path), m)]

\* Node::BuildSizesBottomUp: a node of full size 0 takes the sum of its
\* children's full sizes, after the children have done the same.
RECURSIVE BuildSizesBottomUp(_)
BuildSizesBottomUp(n) ==
    LET cs == [k \in DOMAIN n.children |-> BuildSizesBottomUp(n.children[k])]
        sum == FoldFunction(+, 0, [k \in DOMAIN cs |-> FullSizeBits(cs[k])])
    IN [n EXCEPT !.children = cs,
                 !.size = IF FullSizeBits(n) = 0 THEN sum ELSE @]

\* Mutation: the global offset of a child is its offset in the parent.
RECURSIVE InferOffsetsLocal(_)
InferOffsetsLocal(n) ==
    LET at(k) == FoldFunction(+, 0, [j \in 1..(k - 1) |-> FullSizeBits(n.children[j])])
    IN [n EXCEPT !.children =
          [k \in DOMAIN n.children |->
             InferOffsetsLocal([n.children[k] EXCEPT !.off = at(k),
                                                     !.gofs = at(k)])]]

\* Node::InferOffsetsFromSizes: every child is placed at the sum of the
\* full sizes of its older siblings, whether or not the node is a union.
RECURSIVE InferOffsetsFromSizes(_)
InferOffsetsFromSizes(n) ==
    LET at(k) == FoldFunction(+, 0, [j \in 1..(k - 1) |-> FullSizeBits(n.children[j])])
    IN [n EXCEPT !.children =
          [k \in DOMAIN n.children |->
             InferOffsetsFromSizes([n.children[k] EXCEPT !.off = at(k),
                                                         !.gofs = n.gofs + at(k)])]]

\* TypeTree::MergeTreeIntoThis: the node named like `other` must be a
\* leaf; it gets copies of other's children (CopyNode keeps every value
\* but the children, Node::MergeTreeIntoThis copies those recursively),
\* then sizes and offsets of the whole tree are inferred again.
\* The result is [status, tree].
MergeTreeIntoThis(t, other) ==
    LET path == FindNodeWithTypeName(t, other.tname)
        node == NodeAt(t, path)
    IN CASE path = <<>>            -> [status |-> "NotFound", tree |-> t]
         [] node.children # <<>>   -> [status |-> "InvalidArgument", tree |-> t]
         [] OTHER ->
              [status |-> "OK",
               tree |-> InferOffsetsFromSizes(BuildSizesBottomUp(
                          ReplaceNodeAt(t, path, [node EXCEPT !.children = other.children])))]

=============================================================================
