------------------------- MODULE MCMetadataFetcher -------------------------
(***************************************************************************)
(* DIE forests for MetadataFetcher.  Two compile units share a header      *)
(* type N::S; each has an anonymous namespace with a record of its own.    *)
(*                                                                         *)
(*   unit 1 (offsets 1-23)                 unit 2 (offsets 30-40)          *)
(*   int                                    int                            *)
(*   namespace N { struct S {               namespace N { struct S {       *)
(*       int a;  Tree<int> w;                   int a;  (anon)::B m;       *)
(*       typedef int field_type; }; }       }; }                           *)
(*   S *                                    namespace { struct B {int y;} }*)
(*   namespace { struct A { int x; }; }     typedef N::S Alias;            *)
(*   struct Tree<int> {                     a DIE of another tag           *)
(*       template <int>;                                                   *)
(*       __gnu_cxx::__aligned_membuf<int> buf; };                          *)
(*   namespace __gnu_cxx { __aligned_membuf<int> }                         *)
(*   _Z1f, taking an S*, with a heapalloc of N::S at 3:5,                  *)
(*   a nameless subprogram,                                                *)
(*   const int kNodeSlots = 4                                              *)
(*                                                                         *)
(* The fetcher reads this binary with its units in either link order, with *)
(* 8-byte addresses throughout or 4-byte ones in unit 2.  A split binary  *)
(* reads two type units from its .dwp file.  Two further                  *)
(* binaries each show one way a real program's debug information breaks   *)
(* a property.                                                             *)
(***************************************************************************)
EXTENDS MetadataFetcher

Die(tag, name, type, children) ==
    [tag |-> tag, name |-> name, type |-> type, children |-> children,
     size |-> -1, loc |-> -1, linkage |-> "", cval |-> -1, line |-> 0, col |-> 0,
     sig |-> 0]

\* A compile unit of the binary's info section.
CU(addr, ds) == [addr |-> addr, dies |-> ds, sec |-> "info", sig |-> 0, td |-> 0]

\* A type unit of a .dwp section with its signature and type DIE.
TU(sec, sig, td, ds) == [addr |-> 8, dies |-> ds, sec |-> sec, sig |-> sig, td |-> td]

\* A declaration that refers to a type unit by its signature.
SigDecl(tag, name, sig) == [Die(tag, name, 0, <<>>) EXCEPT !.sig = sig]

Rec(tag, name, size, children) == [Die(tag, name, 0, children) EXCEPT !.size = size]
Mem(name, type, loc) == [Die("member", name, type, <<>>) EXCEPT !.loc = loc]
Base(name, size) == Rec("base", name, size, <<>>)

Unit1Dies ==
    (1 :> Base("int", 4)) @@ (2 :> Die("namespace", "N", 0, <<3>>))
    @@ (3 :> Rec("structure", "S", 16, <<4, 5, 6>>))
    @@ (4 :> Mem("a", 1, 0)) @@ (5 :> Mem("w", 10, 8))
    @@ (6 :> Die("typedef", "field_type", 1, <<>>))
    @@ (7 :> Die("pointer", "", 3, <<>>))
    @@ (8 :> Die("namespace", "", 0, <<9>>))
    @@ (9 :> Rec("structure", "A", 4, <<13>>)) @@ (13 :> Mem("x", 1, 0))
    @@ (10 :> Rec("structure", "Tree<int>", 4, <<11, 12>>))
    @@ (11 :> Die("template_type_parameter", "T", 1, <<>>))
    @@ (12 :> Mem("buf", 16, 0))
    @@ (17 :> Die("namespace", "__gnu_cxx", 0, <<16>>))
    @@ (16 :> Rec("structure", "__aligned_membuf<int>", 4, <<>>))
    @@ (18 :> [Die("subprogram", "f", 0, <<19, 20>>) EXCEPT !.linkage = "_Z1f"])
    @@ (19 :> Die("formal_parameter", "s", 7, <<>>))
    @@ (20 :> [Die("heapalloc", "f", 3, <<>>) EXCEPT !.line = 3, !.col = 5])
    @@ (21 :> Die("subprogram", "", 0, <<>>))
    @@ (22 :> [Die("variable", "kNodeSlots", 1, <<>>) EXCEPT !.cval = 4])
    @@ (23 :> Die("variable", "tmp", 1, <<>>))

Unit2Dies ==
    (30 :> Base("int", 4)) @@ (31 :> Die("namespace", "N", 0, <<32>>))
    @@ (32 :> Rec("structure", "S", 16, <<33, 34>>))
    @@ (33 :> Mem("a", 30, 0)) @@ (34 :> Mem("m", 36, 4))
    @@ (35 :> Die("namespace", "", 0, <<36>>))
    @@ (36 :> Rec("structure", "B", 4, <<37>>)) @@ (37 :> Mem("y", 30, 0))
    @@ (38 :> Die("typedef", "Alias", 32, <<>>))
    @@ (39 :> Die("other", "", 0, <<>>))

Unit1 == CU(8, <<1, 2, 7, 8, 10, 17, 18, 21, 22, 23>>)
Unit2 == CU(8, <<30, 31, 35, 38, 39>>)

(***************************************************************************)
(* Split debug information: the .dwp holds a type unit in its types       *)
(* section (namespace T { struct TS { int a; }; }, signature 7) and one in *)
(* its info section (struct TV { int b; }, signature 9); the binary's     *)
(* unit declares both by signature and uses them as field types:          *)
(*   namespace T { struct TS; }  struct User { T::TS t; TV v; };           *)
(***************************************************************************)
SplitDies ==
    (80 :> Die("namespace", "T", 0, <<81>>))
    @@ (81 :> Rec("structure", "TS", 4, <<82>>)) @@ (82 :> Mem("a", 83, 0))
    @@ (83 :> Base("int", 4))
    @@ (84 :> Rec("structure", "TV", 4, <<85>>)) @@ (85 :> Mem("b", 86, 0))
    @@ (86 :> Base("int", 4))
    @@ (90 :> Die("namespace", "T", 0, <<91>>))
    @@ (91 :> SigDecl("structure", "TS", 7))
    @@ (92 :> Rec("structure", "User", 8, <<93, 94>>))
    @@ (93 :> Mem("t", 91, 0)) @@ (94 :> Mem("v", 95, 4))
    @@ (95 :> SigDecl("structure", "TV", 9))

SplitBinary == <<TU("dwp_types", 7, 81, <<83, 80>>), TU("dwp_info", 9, 84, <<86, 84>>),
                 CU(8, <<90, 92, 95>>)>>

MCBinaries == {<<Unit1, Unit2>>, <<Unit2, Unit1>>,
               <<Unit1, [Unit2 EXCEPT !.addr = 4]>>, <<[Unit2 EXCEPT !.addr = 4], Unit1>>,
               SplitBinary}

(***************************************************************************)
(* The C idiom "typedef struct lua_State lua_State;": a typedef named as   *)
(* the record it names, in the same scope, and a heap allocation of it.    *)
(***************************************************************************)
SelfTypedefDies ==
    (50 :> Base("int", 4)) @@ (51 :> Rec("structure", "lua_State", 4, <<52>>))
    @@ (52 :> Mem("top", 50, 0))
    @@ (53 :> Die("typedef", "lua_State", 51, <<>>))
    @@ (54 :> [Die("subprogram", "lua_newstate", 0, <<55>>) EXCEPT !.linkage = "lua_newstate"])
    @@ (55 :> [Die("heapalloc", "lua_newstate", 53, <<>>) EXCEPT !.line = 9, !.col = 3])

MCSelfTypedef == {<<CU(8, <<50, 51, 53, 54>>)>>}

(***************************************************************************)
(* Two units each with a file-local "namespace { struct Node }" of its own *)
(* layout, both used as field types.                                       *)
(***************************************************************************)
AnonTwinDies ==
    (60 :> Base("int", 4)) @@ (61 :> Die("namespace", "", 0, <<62>>))
    @@ (62 :> Rec("structure", "Node", 4, <<63>>)) @@ (63 :> Mem("v", 60, 0))
    @@ (64 :> Rec("structure", "Use1", 4, <<65>>)) @@ (65 :> Mem("n", 62, 0))
    @@ (70 :> Base("int", 4)) @@ (71 :> Die("namespace", "", 0, <<72>>))
    @@ (72 :> Rec("structure", "Node", 8, <<73, 76>>)) @@ (73 :> Mem("v", 70, 0))
    @@ (76 :> Mem("w", 70, 4))
    @@ (74 :> Rec("structure", "Use2", 8, <<75>>)) @@ (75 :> Mem("n", 72, 0))

MCAnonTwins == {<<CU(8, <<60, 61, 64>>), CU(8, <<70, 71, 74>>)>>}

MCDies == Unit1Dies @@ Unit2Dies @@ SplitDies @@ SelfTypedefDies @@ AnonTwinDies

====
