------------------------------ MODULE Blueprints ------------------------------
(***************************************************************************)
(* The synthetic container layouts of src/type_tree_container_blueprints.h *)
(* and their use by the non-local resolver (type_resolver.cc 1014-1047     *)
(* and 1121-1147): GetSwissMapTemplate and GetBtreeNodeTypeTemplate infer  *)
(* the number of slots of a heap block from its requested size and the    *)
(* size of the slot type's tree; the resolver turns the template into a   *)
(* tree (CreateTreeFromObjectLayout), merges the slot tree into it        *)
(* (TypeTree::MergeTreeIntoThis) and rejects a tree whose size is not the *)
(* request.                                                                *)
(*                                                                         *)
(* The template is kept as the TypeTree node tree CreateTreeFromObject-   *)
(* Layout makes of it: every offset_bits is 0 in the templates, arrays    *)
(* have size 0 and one "[_]" element child of the element's size and the  *)
(* array's multiplicity.  Sizes are in bits, as the callers pass them.    *)
(* The text-proto round trip is not modelled, except that a negative      *)
(* multiplicity may or may not parse: ObjectLayout's field type is not in *)
(* the repository.                                                         *)
(***************************************************************************)
EXTENDS TypeResolver

CONSTANTS
    SwissInputs,    \* [kind, tn, slot, request] (bits) of the SwissMap path
    BtreeInputs     \* [kind, tn, slot, align, field, slots, ptr, request, gen]

VARIABLES
    input,          \* the arguments of the template call
    slot,           \* the slot type's tree, CreateTreeFromDwarf(type_name)
    out             \* the result [status, tree, n, leaf], status "pending" before

vars == <<input, slot, out>>

\* C++ % on int64_t: the sign follows the dividend.
CMod(a, b) == a - CDiv(a, b) * b

RoundUpTo(number, multiple) == CDiv(number + multiple - 1, multiple) * multiple

\* A scalar subobject of a template.
Sub(name, tname, bits) == MkNode(name, <<tname>>, 0, bits, 1, "builtin", 0, FALSE)

\* An array subobject: size 0 and one "[_]" child for its elements.
ArraySub(name, elem, bits, mult) ==
    [MkNode(name, elem \o <<mult>>, 0, 0, 1, "array", 0, FALSE)
        EXCEPT !.children = <<MkNode("[_]", elem, 0, bits, mult, "record", 0, FALSE)>>]

\* kAbslTemplatePadding, emitted only when padding_size > 0.
Padding(size) ==
    IF size > 0 THEN <<MkNode("", PaddingName, 0, size, 1, "padding", 0, FALSE)>>
    ELSE <<>>

\* CreateTreeFromObjectLayout of a template whose root has size 0.
Template(tname, subs) ==
    [MkNode(<<tname>>, <<tname>>, 0, 0, 1, "record", 0, FALSE) EXCEPT !.children = subs]

\* TextFormat::ParseFromString of the substituted template: fails or not
\* on a negative multiplicity.
ParseResults(n, tree, isLeaf) ==
    LET ok == [status |-> "OK", tree |-> tree, n |-> n, leaf |-> isLeaf]
    IN IF n >= 0 THEN {ok}
       ELSE {ok, [status |-> "Internal", tree |-> <<>>, n |-> n, leaf |-> isLeaf]}

Err(status) == [status |-> status, tree |-> <<>>, n |-> 0, leaf |-> FALSE]

-----------------------------------------------------------------------------
(* GetBtreeNodeTypeTemplate                                               *)

BtreeStaticSize(in) == in.ptr + in.field * 4 + (IF in.gen THEN 32 ELSE 0)

BtreeLayout(in, n, isLeaf) ==
    LET static == BtreeStaticSize(in)
    IN Template("absl::container_internal::btree_node<" \o in.tn[1] \o ">",
         <<Sub("parent", "btree_node *", in.ptr)>>
         \o (IF in.gen THEN <<Sub("generation", "uint32_t", 32)>> ELSE <<>>)
         \o [i \in 1..4 |-> Sub(<<"position", "start", "finish", "max_count">>[i],
                                "node_count_type", in.field)]
         \o Padding(RoundUpTo(static, in.align) - static)
         \o <<ArraySub("values", in.tn, in.slot, n)>>
         \o (IF isLeaf THEN <<>>
             ELSE <<ArraySub("children", <<"btree_node *">>, in.ptr, in.slots + 1)>>))

\* Mutant: the leaf equation tried before the internal one.
GetBtreeNodeTypeTemplateLeafFirst(in) ==
    LET variable == in.request - RoundUpTo(BtreeStaticSize(in), in.align)
        children == (in.slots + 1) * in.ptr
    IN IF CMod(variable, in.slot) = 0
       THEN ParseResults(CDiv(variable, in.slot),
                         BtreeLayout(in, CDiv(variable, in.slot), TRUE), TRUE)
       ELSE IF CMod(variable - children, in.slot) = 0
       THEN ParseResults(CDiv(variable - children, in.slot),
                         BtreeLayout(in, CDiv(variable - children, in.slot), FALSE),
                         FALSE)
       ELSE {Err("InvalidArgument")}

\* The set of results GetBtreeNodeTypeTemplate may give.
GetBtreeNodeTypeTemplate(in) ==
    LET variable == in.request - RoundUpTo(BtreeStaticSize(in), in.align)
        children == (in.slots + 1) * in.ptr
    IN IF CMod(variable - children, in.slot) = 0
       THEN ParseResults(CDiv(variable - children, in.slot),
                         BtreeLayout(in, CDiv(variable - children, in.slot), FALSE),
                         FALSE)
       ELSE IF CMod(variable, in.slot) = 0
       THEN ParseResults(CDiv(variable, in.slot),
                         BtreeLayout(in, CDiv(variable, in.slot), TRUE), TRUE)
       ELSE {Err("InvalidArgument")}

-----------------------------------------------------------------------------
(* GetSwissMapTemplate, with the constants the resolver passes            *)

\* kWidth, size_t_size and Alignment as hard-coded at type_resolver.cc
\* 942-980; hashtablez is forced off.
KWidth == 16
SizeTSize == 64
SwissAlignment == 8

SwissCapacity(in) == CDiv(in.request - (KWidth - 1) * 8 - SizeTSize, in.slot + 8)

SwissLayout(in, capacity) ==
    LET metadata == SizeTSize + (capacity + KWidth) * 8
    IN Template("absl::container_internal::raw_hash_set::BackingArray<"
                  \o in.tn[1] \o ">",
         <<Sub("growth_left", "size_t", SizeTSize),
           ArraySub("ctrl", <<"ctrl_t">>, 8, capacity),
           Sub("sentinel", "ctrl_t", 8),
           ArraySub("clones", <<"ctrl_t">>, 8, KWidth - 1)>>
         \o Padding(RoundUpTo(metadata, SwissAlignment * 8) - metadata)
         \o <<ArraySub("slots", in.tn, in.slot, capacity)>>)

GetSwissMapTemplate(in) ==
    ParseResults(SwissCapacity(in), SwissLayout(in, SwissCapacity(in)), TRUE)

-----------------------------------------------------------------------------
(* The non-local resolver's use of the templates                           *)

\* The call's slot_type_size is the full size of the slot tree.
Call(in) == [in EXCEPT !.slot = FullSizeBits(slot)]

\* CreateTreeFromObjectLayout of the template, MergeTreeIntoThis of the
\* slot tree, then the size check: the outer tree must have as many bytes
\* as the request, else Internal.
Synthesize(r, in) ==
    IF r.status # "OK" THEN r
    ELSE LET m == MergeTreeIntoThis(r.tree, slot)
         IN CASE m.status # "OK"                            -> Err(m.status)
              [] FullSizeBytes(m.tree) # CDiv(in.request, 8) -> Err("Internal")
              [] OTHER                                      -> [r EXCEPT !.tree = m.tree]

\* CreateTreeFromDwarf(type_name) for the slot, in any hash-set order.
Init ==
    /\ input \in SwissInputs \cup BtreeInputs
    /\ \E ord \in Orders : slot = BuildTree(input.tn, ord)
    /\ out = Err("pending")

SwissBackingArray ==
    /\ out.status = "pending"
    /\ input.kind = "swiss"
    /\ \E r \in GetSwissMapTemplate(Call(input)) : out' = Synthesize(r, input)
    /\ UNCHANGED <<input, slot>>

BtreeNode ==
    /\ out.status = "pending"
    /\ input.kind = "btree"
    /\ \E r \in GetBtreeNodeTypeTemplate(Call(input)) : out' = Synthesize(r, input)
    /\ UNCHANGED <<input, slot>>

Done ==
    /\ out.status # "pending"
    /\ UNCHANGED vars

Next == SwissBackingArray \/ BtreeNode \/ Done

Spec == Init /\ [][Next]_vars /\ WF_vars(SwissBackingArray \/ BtreeNode)

-----------------------------------------------------------------------------
(* Properties                                                             *)

\* The size of an Abseil btree node with n slots, as btree_node lays it
\* out: the parent pointer, the generation when enabled, four
\* field_type counters, alignment, the n values and, in an internal
\* node, kNodeSlots + 1 child pointers.
BtreeNodeBits(in, n, isLeaf) ==
    LET prefix == in.ptr + 4 * in.field + (IF in.gen THEN 32 ELSE 0)
    IN ((prefix + in.align - 1) \div in.align) * in.align + n * in.slot
         + (IF isLeaf THEN 0 ELSE (in.slots + 1) * in.ptr)

\* The size of a SwissMap backing array of the given capacity:
\* growth_left, capacity + kWidth control bytes, alignment to 8 bytes,
\* then the slots.
BackingArrayBits(capacity, s) ==
    ((64 + (capacity + 16) * 8 + 63) \div 64) * 64 + capacity * s

\* An internal btree node (kNodeSlots values and kNodeSlots + 1 children)
\* is recognised by GetBtreeNodeTypeTemplate: the template the resolver
\* builds from its allocation size has kNodeSlots values and children.
BtreeInternalRecognised ==
    (out.status # "pending" /\ input.kind = "btree"
     /\ input.request = BtreeNodeBits(input, input.slots, FALSE))
        => out.status = "OK" /\ ~out.leaf /\ out.n = input.slots

\* A subtree moved by d bits.
RECURSIVE Shifted(_, _)
Shifted(n, d) ==
    [n EXCEPT !.gofs = @ + d,
              !.children = [k \in DOMAIN n.children |-> Shifted(n.children[k], d)]]

\* The offset of the node at a path from the start of the block: the sum
\* of the offsets of the nodes on the way.
RECURSIVE BlockOffset(_, _)
BlockOffset(n, path) ==
    IF path = <<>> THEN 0
    ELSE n.children[Head(path)].off + BlockOffset(n.children[Head(path)], Tail(path))

\* The slot elements of a synthesized container tree have the slot type's
\* layout where they lie in the block: the "[_]" node MergeTreeIntoThis
\* merged into holds the slot tree's subobjects, each with its offset in
\* the slot and its global offset moved by the element's offset in the
\* block.  The merge copies the slot tree, then BuildSizesBottomUp and
\* InferOffsetsFromSizes re-lay out the whole tree from sizes alone, the
\* slot's subobjects included.
MergedSlotKeepsLayout ==
    out.status = "OK" =>
        LET path == FindNodeWithTypeName(out.tree, slot.tname)
            elem == NodeAt(out.tree, path)
        IN elem.children = [k \in DOMAIN slot.children |->
                              Shifted(slot.children[k], BlockOffset(out.tree, path))]
=============================================================================
