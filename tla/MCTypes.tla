------------------------------ MODULE MCTypes ------------------------------
(***************************************************************************)
(* Debug indexes for model checking: the layouts of the resolver and      *)
(* attribution tests (type_resolver_test.cc) and of the scenarios of the  *)
(* spec (section 8), as the DwarfMetadataFetcher index the resolver reads: *)
(* type name -> [size (bytes), dt, fields], each field [name, off (bytes), *)
(* tname, inh].  A type name is <<base>>, <<base, N>> for "base[N]", and *)
(* <<base, N, K, L>> for "base[N][K][L]".                                 *)
(***************************************************************************)
EXTENDS Integers, Sequences, TLC

Fld(name, off, tn, inh) == [name |-> name, off |-> off, tname |-> tn, inh |-> inh]
Ty(size, dt, fields) == [size |-> size, dt |-> dt, fields |-> fields]

\* A formal or template parameter as module ContainerStrategy reads it;
\* Plain is one without "const" or a trailing pointer.
Prm(cls, const, raw, text, clean, deref, arg) ==
    [cls |-> cls, const |-> const, raw |-> <<raw>>, text |-> <<text>>,
     clean |-> <<clean>>, deref |-> <<deref>>, arg |-> <<arg>>]
Plain(cls, name, arg) == Prm(cls, FALSE, name, name, name, name, arg)

\* The function with an empty domain.
NoEntries == <<>>

TLong   == <<"long">>
TInt    == <<"int">>
TDouble == <<"double">>
TChar   == <<"char">>

BaseTypes ==
    (TLong :> Ty(8, "base", <<>>)) @@ (TInt :> Ty(4, "base", <<>>))
    @@ (TDouble :> Ty(8, "base", <<>>)) @@ (TChar :> Ty(1, "base", <<>>))

\* struct A { long x; long y; };                      (scenario 1)
\* struct B { long y; int x; } __attribute((packed));
\* struct C { B b; double x; };                       (scenario 3)
\* struct D { int x; int y; int z; } __attribute((packed));   (scenario 6)
\* struct E { A arr[2]; int n; };                     (array, tail padding)
\* struct M { int m[3][2][2]; int k; };               (array of arrays)
\* struct P { A* p; long z; };                        (indirection)
\* struct G { Opaque o; long z; };                    (unresolved field)
\* struct S1 { int a; int b; };  struct S2 { double d; };
\* union U { S1 s; S2 t; };  struct X5 { U u; };      (scenario 5)
\* struct Empty {};  struct Derived : Empty { long v; };
\*   (the empty base and v share offset 0: a field conflict)
UnionTypes ==
    (<<"S1">> :> Ty(8, "struct", <<Fld("a", 0, TInt, FALSE),
                                   Fld("b", 4, TInt, FALSE)>>))
    @@ (<<"S2">> :> Ty(8, "struct", <<Fld("d", 0, TDouble, FALSE)>>))
    @@ (<<"U">> :> Ty(8, "union", <<Fld("s", 0, <<"S1">>, FALSE),
                                    Fld("t", 0, <<"S2">>, FALSE)>>))
    @@ (<<"X5">> :> Ty(8, "struct", <<Fld("u", 0, <<"U">>, FALSE)>>))

LayoutTypes ==
    BaseTypes
    @@ (<<"A">> :> Ty(16, "struct", <<Fld("x", 0, TLong, FALSE),
                                      Fld("y", 8, TLong, FALSE)>>))
    @@ (<<"B">> :> Ty(12, "struct", <<Fld("y", 0, TLong, FALSE),
                                      Fld("x", 8, TInt, FALSE)>>))
    @@ (<<"C">> :> Ty(24, "struct", <<Fld("b", 0, <<"B">>, FALSE),
                                      Fld("x", 16, TDouble, FALSE)>>))
    @@ (<<"D">> :> Ty(12, "struct", <<Fld("x", 0, TInt, FALSE),
                                      Fld("y", 4, TInt, FALSE),
                                      Fld("z", 8, TInt, FALSE)>>))
    @@ (<<"E">> :> Ty(40, "struct", <<Fld("arr", 0, <<"A", 2>>, FALSE),
                                      Fld("n", 32, TInt, FALSE)>>))
    @@ (<<"M">> :> Ty(52, "struct", <<Fld("m", 0, <<"int", 3, 2, 2>>, FALSE),
                                      Fld("k", 48, TInt, FALSE)>>))
    @@ (<<"P">> :> Ty(16, "struct", <<Fld("p", 0, <<"A*">>, FALSE),
                                      Fld("z", 8, TLong, FALSE)>>))
    @@ (<<"G">> :> Ty(16, "struct", <<Fld("o", 0, <<"Opaque">>, FALSE),
                                      Fld("z", 8, TLong, FALSE)>>))

    @@ UnionTypes
    @@ (<<"Empty">> :> Ty(1, "struct", <<>>))
    @@ (<<"Derived">> :> Ty(8, "struct", <<Fld("Empty", 0, <<"Empty">>, TRUE),
                                          Fld("v", 0, TLong, FALSE)>>))

LayoutRoots == {<<"A">>, <<"C">>, <<"D">>, <<"E">>, <<"M">>, <<"P">>, <<"G">>, <<"A*">>,
                <<"X5">>, <<"Derived">>}

-----------------------------------------------------------------------------
(* Indexes for the runs that compare the code with the spec.              *)

\* struct X { long a; U u; }: the union follows a sibling of its size.
UnionSiblingTypes ==
    BaseTypes @@ UnionTypes
    @@ (<<"X">> :> Ty(16, "struct", <<Fld("a", 0, TLong, FALSE),
                                      Fld("u", 8, <<"U">>, FALSE)>>))

UnionSiblingRoots == {<<"X">>}

\* struct Big { long v[2]; };  struct Wide { int a; char b; char c; };
\* struct W { Big big; Wide wide; } with both fields at offset 0, as the
\* debug info of a layout that overlays two members presents it.
ConflictSizeTypes ==
    BaseTypes
    @@ (<<"Big">> :> Ty(16, "struct", <<Fld("v", 0, <<"long", 2>>, FALSE)>>))
    @@ (<<"Wide">> :> Ty(8, "struct", <<Fld("a", 0, TInt, FALSE),
                                        Fld("b", 4, TChar, FALSE),
                                        Fld("c", 5, TChar, FALSE)>>))
    @@ (<<"W">> :> Ty(16, "struct", <<Fld("big", 0, <<"Big">>, FALSE),
                                      Fld("wide", 0, <<"Wide">>, FALSE)>>))

ConflictSizeRoots == {<<"W">>}

\* The index of the histogram builder runs: no field conflicts.
BuilderTypes ==
    BaseTypes
    @@ (<<"A">> :> LayoutTypes[<<"A">>]) @@ (<<"B">> :> LayoutTypes[<<"B">>])
    @@ (<<"C">> :> LayoutTypes[<<"C">>]) @@ (<<"D">> :> LayoutTypes[<<"D">>])
    @@ (<<"P">> :> LayoutTypes[<<"P">>])

\* struct G2 { Opaque o[2]; long z; }: an array of a type not in the index.
UnresolvedArrayTypes ==
    BaseTypes
    @@ (<<"G2">> :> [size |-> 24, dt |-> "struct",
                     fields |-> <<Fld("o", 0, <<"Opaque", 2>>, FALSE),
                                  Fld("z", 16, TLong, FALSE)>>])

UnresolvedArrayRoots == {<<"G2">>}

MCIndirections == {"A*"}
MCUnderscored == {"_M_impl"}

=============================================================================
