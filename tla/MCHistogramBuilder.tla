------------------------- MODULE MCHistogramBuilder -------------------------
(***************************************************************************)
(* A profile for LocalHistogramBuilder over the indexes of MCTypes.  One  *)
(* callstack per path through the loop:                                    *)
(*   cA  new_A:5         heap-alloc site recorded with column 0 only -> A  *)
(*   cD  alloc:3, make_D:7   first frame names an unknown type, the       *)
(*                       second -> D                                      *)
(*   cC  vec_alloc:1     no heap-alloc site, container strategy -> C       *)
(*   cL  new_long:2      heap-alloc -> long (not a record)                 *)
(*   cP  new_P:4         heap-alloc -> P, outside the type prefix filter   *)
(*   cU  main:1          nothing resolves                                  *)
(*   cX  lib:1           outside the callstack filter                      *)
(***************************************************************************)
EXTENDS HistogramBuilder, MCTypes

Fr(fn, col) == [fn |-> fn, col |-> col]

MCCallStacks ==
    ("cA" :> <<Fr("new_A", 5)>>) @@ ("cD" :> <<Fr("alloc", 3), Fr("make_D", 7)>>)
    @@ ("cC" :> <<Fr("vec_alloc", 1)>>) @@ ("cL" :> <<Fr("new_long", 2)>>)
    @@ ("cP" :> <<Fr("new_P", 4)>>) @@ ("cU" :> <<Fr("main", 1)>>)
    @@ ("cX" :> <<Fr("lib", 1)>>)

MCHeapAllocSites ==
    (Fr("new_A", 0) :> <<"A">>) @@ (Fr("alloc", 3) :> <<"Opaque">>)
    @@ (Fr("make_D", 7) :> <<"D">>) @@ (Fr("new_long", 2) :> <<"long">>)
    @@ (Fr("new_P", 4) :> <<"P">>)

\* vec_alloc is std::allocator<C>::allocate: its allocator parameter
\* gives the default strategy, and C.
MCFormalParams ==
    "vec_alloc" :> <<Plain({"alloc"}, "std::allocator<C>", "C")>>

MCCallstackFilter == {"new_A", "alloc", "vec_alloc", "new_long", "new_P", "main"}
MCTypePrefixFilter == {"A", "C", "D", "long"}

\* Every profile of up to three sites.  The sites that reach the
\* attribution carry a histogram of the type's size or a longer one that
\* collapses; a callstack may recur with the same or another histogram.
MCSites ==
    {[cs |-> c, hist |-> h] : c \in {"cA", "cD", "cC"},
                              h \in {<<1, 10>>, <<1, 10, 100, 1000>>}}
    \cup {[cs |-> c, hist |-> <<1>>] : c \in {"cL", "cP", "cU", "cX"}}
MCProfiles == UNION {[1..n -> MCSites] : n \in 0..3}

\* For the Verify run: new_A allocates the struct X { long a; U u; }.
UnionHeapAllocSites == Fr("new_A", 0) :> <<"X">>

=============================================================================
