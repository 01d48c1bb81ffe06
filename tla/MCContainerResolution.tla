------------------------ MODULE MCContainerResolution ------------------------
(***************************************************************************)
(* Callstacks of one to three frames over functions whose debug info     *)
(* carries the container parameters of the resolver's tests: allocator   *)
(* calls, std::vector and its base, flat and node hash sets, a btree, an  *)
(* LLVM SmallVector, two LLVM DenseMaps (one with equal key and value    *)
(* types), a smart-pointer factory, a string, a memprof control function *)
(* and a frame without debug info.                                       *)
(***************************************************************************)
EXTENDS ContainerResolution, MCTypes

CI == "absl::container_internal::"
FlatSet == CI \o "raw_hash_set<" \o CI \o "FlatHashSetPolicy<A>>"
NodeSet == CI \o "raw_hash_set<" \o CI \o "NodeHashSetPolicy<A>>"
MissingSet == CI \o "raw_hash_set<Missing>"
SetParams == CI \o "set_params<A>"
Btree == CI \o "btree<" \o SetParams \o ">"

pTA         == Plain({}, "A", "A")
pInt        == Plain({}, "int", "int")
pAllocA     == Plain({"alloc"}, "std::allocator<A>", "A")
pAllocB     == Plain({"alloc"}, "std::allocator<B>", "B")
pNewAllocA  == Prm({"alloc"}, FALSE, "std::__new_allocator<A> *",
                   "std::__new_allocator<A> *", "std::__new_allocator<A>*",
                   "std::__new_allocator<A>", "A")
pAllocConstA == Prm({"alloc"}, TRUE, "const std::allocator<A> &",
                    "std::allocator<A> &", "std::allocator<A> &",
                    "std::allocator<A> &", "A")
pAllocAligned == Prm({"alloc"}, FALSE, "std::allocator<AlignedType<8> > *",
                     "std::allocator<AlignedType<8> > *",
                     "std::allocator<AlignedType<8> >*",
                     "std::allocator<AlignedType<8> >", "AlignedType<8>")
pAligned8   == Plain({}, "AlignedType<8>", "AlignedType<8>")
pVecBase    == Plain({"stl"}, "std::_Vector_base<A, std::allocator<A> >", "")
pVec        == Plain({"stl_leaf"}, "std::vector<A>", "")
pCint       == Plain({"cint"}, CI \o "hash_policy_traits<P>", "")
pSwissFlat  == Plain({"swiss", "cint"}, FlatSet, "")
pSwissNode  == Plain({"swiss", "cint"}, NodeSet, "")
pSwissMissing == Plain({"swiss", "cint"}, MissingSet, "")
pFlatPolicy == Plain({"flat_policy", "cint"}, CI \o "FlatHashSetPolicy<A>", "")
pNodePolicy == Plain({"cint"}, CI \o "NodeHashSetPolicy<A>", "")
pBtree      == Plain({"btree", "cint"}, Btree, "")
pSetParams  == Plain({"params", "cint"}, SetParams, "")
pAllocOpaque == Plain({"alloc"}, "std::allocator<Opaque>", "Opaque")
pAdt        == Plain({"adt"}, "llvm::SmallVectorTemplateBase<A, true>", "")
pTB         == Plain({}, "B", "B")

\* llvm::DenseMap<K, V> and the template parameters of its DenseMapBase:
\* derived class, key, value, key info and bucket.
DenseMap(k, v)  == "llvm::DenseMap<" \o k \o ", " \o v \o ">"
DenseBase(k, v) == "llvm::DenseMapBase<" \o DenseMap(k, v) \o ", " \o k \o ", "
                   \o v \o ", llvm::DenseMapInfo<" \o k \o ">, "
                   \o "llvm::detail::DenseMapPair<" \o k \o ", " \o v \o "> >"
DensePair(k, v) == "llvm::detail::DenseMapPair<" \o k \o ", " \o v \o ">"
DenseParams(k, pk, v, pv) ==
    <<Plain({}, DenseMap(k, v), DenseMap(k, v)), pk, pv,
      Plain({}, "llvm::DenseMapInfo<" \o k \o ">", ""),
      Plain({}, DensePair(k, v), DensePair(k, v))>>
pDenseAB    == Plain({"adt_dense"}, DenseBase("A", "B"), "")
pDenseAA    == Plain({"adt_dense"}, DenseBase("A", "A"), "")

MCFormalParams ==
    ("alloc_allocate" :> <<pNewAllocA>>)
    @@ ("absl_allocate" :> <<pAllocAligned>>)
    @@ ("vector_base" :> <<pVecBase, pAllocConstA>>)
    @@ ("vector_push" :> <<pInt, pVec>>)
    @@ ("vector_ctor" :> <<pVec>>)
    @@ ("flat_hash_resize" :> <<pSwissFlat>>)
    @@ ("node_hash_resize" :> <<pSwissNode>>)
    @@ ("missing_hash_resize" :> <<pSwissMissing>>)
    @@ ("btree_insert" :> <<pBtree>>)
    @@ ("policy_alloc" :> <<pCint, pAllocB>>)
    @@ ("make_unique" :> <<pTA>>)
    @@ ("string_create" :> <<pInt>>)
    @@ ("adt_grow" :> <<pAdt>>)
    @@ ("opaque_alloc" :> <<pAllocOpaque>>)
    @@ ("dense_grow_ab" :> <<pDenseAB>>)
    @@ ("dense_grow_aa" :> <<pDenseAA>>)

FnNames == DOMAIN MCFormalParams \cup {"nodebug", "memprof_ctrl"}

MCFnInfo ==
    ("memprof_ctrl" :> [smart |-> FALSE, memprof |-> TRUE, dem |-> "none"])
    @@ ("make_unique" :> [smart |-> TRUE, memprof |-> FALSE, dem |-> "other"])
    @@ ("string_create" :> [smart |-> FALSE, memprof |-> FALSE, dem |-> "char"])

MCTypeParams ==
    (<<"std::vector<A>">> :> <<pTA, pAllocA>>)
    @@ (<<FlatSet>> :> <<pFlatPolicy, pAllocA>>)
    @@ (<<NodeSet>> :> <<pNodePolicy, pAllocA>>)
    @@ (<<Btree>> :> <<pSetParams>>)
    @@ (<<SetParams>> :> <<pTA, pAllocA>>)
    @@ (<<"std::allocator<AlignedType<8> >">> :> <<pAligned8>>)
    @@ (<<"llvm::SmallVectorTemplateBase<A, true>">> :> <<pTA>>)
    @@ (<<DenseBase("A", "B")>> :> DenseParams("A", pTA, "B", pTB))
    @@ (<<DenseBase("A", "A")>> :> DenseParams("A", pTA, "A", pTA))

MCTypeConsts ==
    (<<"AlignedType<8>">> :> {"Alignment"})
    @@ (WrapType(CI \o "btree_node", <<SetParams>>) :> {"kNodeSlots"})

\* Container classes: only their presence in the index matters here.
ContainerIndex ==
    LayoutTypes
    @@ [tn \in DOMAIN MCTypeParams \cup DOMAIN MCTypeConsts
               \cup {<<WrapType(CI \o "btree", <<SetParams>>)[1] \o "::field_type">>}
               \cup {<<DensePair("A", "B")>>, <<DensePair("A", "A")>>}
        |-> Ty(24, "struct", <<>>)]

MCCallStackSet ==
    UNION {{[i \in 1..n |-> [fn |-> s[i], col |-> 0]] : s \in [1..n -> FnNames]}
           : n \in 1..3}

=============================================================================
