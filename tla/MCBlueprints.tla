---------------------------- MODULE MCBlueprints ----------------------------
(***************************************************************************)
(* Inputs of the template calls: the sizes of real backing arrays and     *)
(* btree nodes (leaf nodes of every fill, full internal nodes), the       *)
(* request of spec example 8, and sizes that fit no layout.  The slot     *)
(* types are layouts of MCTypes with a 2-byte short added: scalars, a     *)
(* packed struct, a struct with a nested struct and inner padding, an     *)
(* array member with tail padding, a pointer (node policy) and a field    *)
(* conflict.                                                              *)
(***************************************************************************)
EXTENDS Blueprints, MCTypes

BlueprintTypes == LayoutTypes @@ (<<"short">> :> Ty(2, "base", <<>>))

\* The slot's full size in bits, as BuildTree gives it.
SlotBits(tn) == IF tn[1] \in MCIndirections THEN 64 ELSE BlueprintTypes[tn].size * 8

SwissSlotTypes == {<<"char">>, <<"short">>, <<"long">>, <<"B">>, <<"C">>,
                   <<"E">>, <<"A*">>, <<"Derived">>}

MCSwissInputs ==
    UNION {{[kind |-> "swiss", tn |-> tn, slot |-> SlotBits(tn), request |-> r] :
               r \in {BackingArrayBits(2^k - 1, SlotBits(tn)) : k \in 1..4}
                     \cup {1024, 1032}}
           : tn \in SwissSlotTypes}

BtreeShapes ==
    [kind : {"btree"}, tn : {<<"int">>, <<"long">>, <<"B">>, <<"C">>},
     slot : {0}, align : {64}, field : {8, 16}, slots : {3, 5}, ptr : {64},
     request : {0}, gen : BOOLEAN]

MCBtreeInputs ==
    UNION {{[sh EXCEPT !.slot = SlotBits(sh.tn), !.request = r] :
               r \in {BtreeNodeBits([sh EXCEPT !.slot = SlotBits(sh.tn)], n, TRUE)
                        : n \in 1..sh.slots}
                     \cup {BtreeNodeBits([sh EXCEPT !.slot = SlotBits(sh.tn)], sh.slots, FALSE),
                           BtreeNodeBits([sh EXCEPT !.slot = SlotBits(sh.tn)], sh.slots, FALSE) + 8}}
           : sh \in BtreeShapes}

=============================================================================
