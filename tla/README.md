# TLA+ models of llvm-memprof's field-access attribution

These modules model how the field-access tool turns a memprof profile into
per-field access counts. Sources are under `src/`; the behaviour the tool
promises is in `spec.md`.

## The system and how its parts interact

`field_access_tool` (`field_access_tool.cc`) checks `--local` and the two
input paths, calls `LocalHistogramBuilder::Create` (open the profile,
create the reader, the `BinaryFileRetriever`, `FetchDWPWithPath`; the first
failure is returned), runs `LocalHistogramBuilder::BuildHistogram`
(`histogram_builder.cc`), dumps the `TypeTreeStore` as the flags ask and
exits. `BuildHistogram` loops over the allocation sites of a memprof
profile in the reader's order. For each site the loop does this:

1. `FilterCallstack`: with `--callstack_filter`, the site is skipped unless
   some frame names a listed function.
2. `DwarfTypeResolver::ResolveTypeFromCallstack` (`type_resolver.cc`) finds
   the type:
   - first by the `DW_TAG_GOOGLE_heapalloc` map of the `DwarfMetadataFetcher`,
     looking at each frame and then at that frame with column 0;
   - then by the container strategy.
3. The resolver builds a `TypeTree` (`type_tree.h/.cc`):
   - `BuildTree` and `BuildTreeRecursive` walk the debug-info type index;
   - `ResolveFieldConflicts` picks one field per offset;
   - `AddChildAndInsertPaddingIfNecessary` fills the gaps with padding nodes.
4. The type filter and `--only_records` may skip the site.
5. `TypeTree::RecordAccessHistogram` records the site's access histogram:
   - it collapses a bulk allocation's histogram to one type size;
   - `Node::RecordAccess` adds each 8-byte bucket to every node it overlaps,
     once per copy of the node in enclosing arrays.
6. `Verify` checks the tree, and the `Statistics` counters are updated.
7. `TypeTreeStore::Insert` stores the tree under its callstack. A repeated
   callstack merges the old counts into the new tree (`MergeCounts`).

Before the loop, `DwarfMetadataFetcher::FetchDWPWithPath`
(`dwarf_metadata_fetcher.cc`) parses the binary's DWARF into a tree of
`TypeData` (namespaces, records, base and pointer types, subprograms). Each
`TypeData` holds its fields with an offset index, its typedefs, its template
or formal parameters, its constants and its heap-alloc sites. The fetcher then
post-processes the tree. The resolver reads it through `GetType` (a
qualified name split on `::` and searched from the root),
`GetHeapAllocType` and `GetFormalParameters`.

Everything runs on one thread. The parallel DWARF parse in
`dwarf_metadata_fetcher.cc` is commented out, so the models have no
concurrency. The only nondeterminism the code really has is the iteration
order of `absl::flat_hash_set`. That order is chosen once in `Init`, as the
variable `ord`, from every permutation of each conflicting offset's field
indices.

## Modules

| Module | Models | State and actions |
|---|---|---|
| `TypeTree` | `type_tree.h/.cc` | Pure operators: node constructors, byte and bit getters, padding insertion, `RecordAccess` with its array-offset expansion and pruning, `CollapseHistogram`, `RecordAccessHistogram` (returns root and status), `Verify`, `MergeCounts`. A node is a record whose `children` is a sequence. Sizes and offsets are in bits, as in `Node`. |
| `TypeResolver` | `type_resolver.cc` 213-563 | Extends TypeTree. `ResolveFieldConflicts` is the code's cascade (`ConflictStep`) folded over the candidates in `ord` order. It also models `BuildTree`, `BuildTreeRecursive` (pointers, arrays, unresolved types with inferred size, records) and `Orders`. |
| `Attribution` | one sample of `BuildHistogram` | Variables `ord, tree, hist, status`. `Init` builds the tree of a root type. `Record` is `RecordAccessHistogram`. `Done` is the end of the sample. |
| `HistogramBuilder` | `BuildHistogram`, `ResolveTypeFromCallstack/Frame`, `GetHeapAllocType`, `TypeTreeStore::Insert` | Variables `ord, resolved, recorded, only_records, dump_unresolved, profile, pc, store, stats, result, stdout`. `stdout` is the sequence of entries written to standard output; `SkipUnresolved` appends the callstack to it under `--dump_unresolved_callstacks`. `resolved[cs]` is `ResolveTypeFromCallstack`'s answer, computed in `Init`: resolution depends only on the debug index, the callstack and the hash-set orders, which are fixed for the process. `recorded[i]` is the tree `RecordAccessHistogram` makes of site `i`'s resolved tree, also a function of fixed data. The module maps its state to `AccessStore` (`Store == INSTANCE AccessStore WITH ...`): the sites that pass the filters, their root totals, `pc` and `result`. There is one action per way a loop iteration ends: `SkipCallstack`, `SkipUnresolved`, `SkipType`, `SkipNonRecord`, `Attribute` (record, verify, statistics, insert; an `Insert` error ends the run), plus `Finish`. |
| `ContainerStrategy` | `type_resolver.cc` 583-1168 | Pure operators. A formal parameter is a record of its classes (which prefix lists of `type_resolver.cc` it starts with), its raw, cleaned and dereferenced text and its allocator argument. `ScanParam` and `ScanFrame` are one step of the parameter and frame loops of `GetCallStackContainerResolutionStrategy`; the scan state `[done, res, seen, leaf, fall]` holds `has_seen_alloc`, `is_leaf` and the fallthrough strategy. `ResolveStrategyTypeName` is the local-mode `ResolveTypeFromResolutionStrategy`, one CASE arm per strategy, with the allocator walk, the alignment check and the btree walk. `ParamsOfType` is `TypeData::formal_parameters`, folded from the declared parameters by `AppendParam`, the de-duplication of `VisitChildDIE`. |
| `ContainerResolution` | `ResolveTypeFromCallstack` 1191-1199 | Variables `cs, strategy, result, pc`. `ChooseStrategy`, then `Resolve` (which builds the tree of the name, `CreateTreeFromDwarf`), then `Done`. |
| `Blueprints` | `type_tree_container_blueprints.h`, `type_resolver.cc` 1014-1047, 1121-1147 | Extends `TypeResolver`. Variables `input, slot, out`; `slot` is the slot type's tree (`CreateTreeFromDwarf`, any hash-set order). A template is the node tree `CreateTreeFromObjectLayout` makes of it: offsets 0, arrays of size 0 with one `[_]` element child. `SwissBackingArray` and `BtreeNode` are the non-local resolver's whole path: the template call with the slot tree's size, `MergeTreeIntoThis` of the slot tree (module `TypeTree`: `FindNodeWithTypeName`, the copy, `BuildSizesBottomUp`, `InferOffsetsFromSizes`), then the size check in bytes. |
| `MetadataFetcher` | `dwarf_metadata_fetcher.cc` 62-557, 609-975 | Variables `cus, index, pending, unit, ptr_size, phase, heap, params, anon, dies`. `dies` holds, for every DIE, what the name and type helpers give. They depend on the constant forest alone, so `Init` computes them once and no step changes them. The DIE forest is the constant `Dies` (offset -> tag, name, type, children, size, member location, linkage name, constant value, line, column); `cus` is the binary read, one of `Binaries`. `index` maps a path of short names to its `TypeData` record. The recursion of `ParseDIE`/`VisitChildDIE` is the work list `pending`: `StartUnit` is `VisitSibAndChildren` with `TryUpdatePointerSize`; there is one action per case of `VisitChildDIE` (`VisitType`, `VisitSubprogram`, `VisitHeapAlloc`, `VisitTypedef`, `VisitMember`, `VisitParameter`, `VisitConstant`, `VisitOther`); Before any unit is visited, `SignatureMap` fills `signature_to_type_name` from the type units of the `.dwp` file's types and info sections (`SigName` gives a unit's name, renamed with `_AnonSig_` only in the info-section loop), and `ChildName` and `FieldTypeName` name a DIE that carries a signature by `ResolveSignature`; a binary's units are listed in the order `ParseDWARF` visits them (`.dwp` types, `.dwp` info, then compile units). `PostProcess` is `PostProcessAndIndexTypeData`, and it also fixes the iteration order of every `flat_hash_map` that a lookup walks (`anon`, and the first-inserted value of `heap` and `params`). The name helpers (`RecursiveGetName`, `GetTypeQualifiedName`, `RecursiveGetTypeDIE`, ...), `ConsumeAngleBracket`, `UnwrapParameterizedStorage`, `SplitNamespace`, `SearchType` and `GetType` are recursive operators over strings. `SearchType` carries its call depth, and a depth past `MaxLookupDepth` stands for the exhausted stack. |
| `FieldAccessTool` | `field_access_tool.cc`, `LocalHistogramBuilder::Create`, `TypeTreeStore::Dump/DumpFlamegraph` | Extends HistogramBuilder with variables `flags, phase, created, exit_code`. `NotLocal` is main's early return; `CreateBuilder` is `CreateLocalHistogramBuilderFromFlags` with its QCHECK failures (`LOG(QFATAL)`, which exits with `_exit(1)`) and `Create`'s outcome, "ok" or the step that failed (`CreateResults`); `BuilderStep` is one step of the builder's loop; `Report` is main after the build: return 1 on an error, else the dump the flags select, over any iteration order of the `flat_hash_map` (`StoreOrders`), and return 0; `Exited` stutters. |
| `AccessStore` | what `BuildHistogram` promises of the store | Variables `sites, totals, next, status`. `Take` takes the next site and adds a kept site's accesses to its callstack's total. `Refuse` is the store refusing a kept site whose callstack it already holds. `Finish` returns. |
| `MCTypes` | test data | Small debug indexes: base types, structs with padding, an array of records, a three-level array (`M`: `int m[3][2][2]`), a union, an empty base, a pointer, field conflicts, an array of an unknown type. |
| `MCFieldAccessTool` | instantiation | The builder's data with profiles of up to two sites from a resolved callstack `cA`, a second resolved `cC`, an unresolved `cU` and a filtered `cX`; every flag record with `--limit` in {-1, 0, 1}, `--out` empty or a file; four failing steps of `Create`. |
| `MCAttribution`, `MCHistogramBuilder` | instantiation | The histograms, the callstacks, the heap-alloc map, the filters and the profiles. |
| `MCContainerResolution` | instantiation | Eighteen functions whose debug info carries the parameters of the resolver's tests (allocator calls, `std::vector` and `_Vector_base`, flat and node hash sets, a btree, an LLVM `SmallVector`, `DenseMap<A, B>` and `DenseMap<A, A>`, `make_unique`, a string, a memprof control function, a frame without debug info), and every callstack of one to three of them (6,174 callstacks). A type's parameter list is given as its template parameter DIEs; the model builds `formal_parameters` from them by the fetcher's append-if-absent rule. |
| `MCMetadataFetcher` | instantiation | A two-unit DIE forest, shown in the module's header; a split binary whose `T::TS` is defined in a type unit of the `.dwp` types section and `TV` in one of the info section, both declared by signature in the compile unit that uses them; and two small binaries that each break one property: `typedef struct lua_State lua_State`, and two units with their own anonymous `struct Node`. |
| `MCBlueprints` | instantiation | Slot types from `MCTypes` plus a `short`: `char`, `short`, `long`, packed `B`, `C` (nested struct, inner padding), `E` (array member, tail padding), `A*` and `Derived` (a field conflict). Real SwissMap backing-array sizes (capacity 1, 3, 7, 15) and sizes fitting no layout; btree nodes of every fill for `int`, `long`, `B` and `C` slots, 3 or 5 slots, with and without generations. |

`Attribution`, `HistogramBuilder` and `ContainerResolution` extend
`TypeResolver`, which extends `TypeTree`; `HistogramBuilder` takes its
container fallback from `ContainerStrategy`. The builder composes resolution, tree building,
recording and the store, one allocation site per step.

## Runs

| Run | Expect | What it shows |
|---|---|---|
| `attribution` (`MCAttribution.cfg`) | pass, 320 states | See below. |
| `attribution_conflict_size` | violation | See below. |
| `builder` (`MCHistogramBuilder.cfg`) | pass, ~21.7k states, under a minute | See below. |
| `container` (`MCContainerResolution.cfg`) | pass, ~18k states, seconds | See below. |
| `container_allocator_seen` | violation | See below. |
| `container_dense_bucket` | violation | See below. |
| `blueprints` (`MCBlueprints.cfg`) | pass, 560 states, seconds | See below. |
| `fetcher` (`MCMetadataFetcher.cfg`) | pass, 127 states, about 10 s | See below. |
| `fetcher_self_typedef` | violation | See below. |
| `fetcher_anon_twins` | violation | See below. |
| `tool` (`MCFieldAccessTool.cfg`) | pass, ~23.9k states, under 30 s | See below. |
| `tool_flamegraph` (`MCFieldAccessTool_Flamegraph.cfg`) | violation | See below. |

**`attribution`.** It covers every layout root (structs, nested arrays,
union, empty base, pointer) with every histogram of 0-7 buckets. It checks
these properties:
- `RecordMatchesReference`: each node's count equals a direct enumeration of
  the node's copies in its enclosing arrays.
- `LayoutWellFormed`: spec §8 invariants 1, 2, 3 and 6.
- `CountsConsistent`: invariants 4 and 5.
- `TypeOK`.

**`attribution_conflict_size`.** In one hash-set order a smaller type with
more fields replaces a larger one (`type_resolver.cc:327`). This goes against
spec §4.2.2.

**`builder`.** It covers every profile of up to 3 sites, with both
`--only_records` values. The sites include:
- heap allocations resolved directly or by the column-0 retry;
- an unresolvable site, a container site, a filtered callstack and a
  filtered type;
- repeated callstacks, with histograms of 1, 2 and 4 buckets.

It checks these properties:
- `StoreAccumulatesSites`: every stored node holds the sum of what each
  inserted site recorded.
- `StatsMatchStore`: the access statistics equal the store's totals and the
  heap/container split, and verified = heap + container allocations.
- `RefinesAccessStore`: the loop implements `AccessStore`, checked as the
  property `Store!Spec`, its weak fairness included. Every step takes the
  next site or returns. A kept site's accesses reach its callstack's root
  total once. `Insert` refuses only a callstack already stored.
- `UnresolvedDumped`: with `--dump_unresolved_callstacks` standard output
  holds exactly the unresolved callstacks that passed the filter, in
  profile order, and nothing without it; their number is
  `total_allocations_count - total_found_type`.
- `TypeOK`.

**`container`.** Every callstack of `MCContainerResolution` is scanned and
resolved. It checks:
- `FallthroughIsFirstAllocator`: when no container is recognised, the
  default strategy looks up the element type of the allocator parameter
  nearest the leaf, the one `has_seen_alloc` keeps.
- `TypeOK`: in particular, every resolved name has a tree.

**`container_allocator_seen`.** A `absl::container_internal::` parameter
before the allocator sets `has_seen_alloc` (`type_resolver.cc:786`), so the
fallthrough is never recorded and the site is NotFound. Spec §4.2.3 says the
default applies when an allocator wrapper was seen anywhere.

**`container_dense_bucket`.** `DenseBucketIsFifthParam`: an allocation
under an `llvm::DenseMapBase` frame should resolve to the fifth template
parameter of the type, the bucket type (spec §4.2.3). The resolver reads
`formal_parameters[4]` (`type_resolver.cc:915`). But `VisitChildDIE`
appends a parameter only when its name is new
(`dwarf_metadata_fetcher.cc:746-750`). `DenseMap<A, B>` keeps five
parameters and resolves to `DenseMapPair<A, B>`. `DenseMap<A, A>` keeps
four, so the allocation ends in NotFound.

**`blueprints`.** It checks:
- `BtreeInternalRecognised`: a full internal node's size gives a template
  with kNodeSlots values and children.
- `MergedSlotKeepsLayout`: after the merge, the `[_]` element node holds
  the slot tree's subobjects. Each keeps its offset in the slot, and its
  global offset is moved by the element's offset in the block. The merge
  re-lays out the whole tree from sizes alone (`InferOffsetsFromSizes`),
  so this is not true by construction. It holds for the run's slot types,
  which have no union; see `type_tree.cc:603` below.

**`fetcher`.** The binary is read with its two units in either order, or
with unit 2 at 4-byte addresses (the parse fails). After post-processing,
every order of the root's two anonymous namespaces is explored. A third
binary defines its records in `.dwp` type units and declares them by
signature. The run
checks these properties:
- `IndexNamesResolve`: every name the resolver asks `GetType` for a record
  or base type DIE finds the `TypeData` that DIE was parsed into. The names
  are the field types, the heap-alloc types, the parameters, and member
  typedefs like the `btree<...>::field_type` of the btree strategy. The
  property goes through the typedef restart, the greedy search of the
  anonymous namespaces, the merge of `N::S` from both units, and, for a
  declaration carrying a signature, `ResolveSignature` to the type unit's
  definition.
- `LookupTerminates`: none of those lookups exhausts the stack or reads past
  the end of the split name.
- `MembersIndexedOnce`: every member of a record is found exactly once
  through the offset index that the resolver reads. This holds through the
  duplicate check across units and the unwrapping of `__aligned_membuf`.
- `TypeOK`.

**`fetcher_self_typedef`.** A C unit declares `typedef struct lua_State
lua_State`. `VisitChildDIE` records `typedef_type["lua_State"] =
"lua_State"`. `SearchType` checks typedefs before types
(`dwarf_metadata_fetcher.cc:926`) and restarts `GetType("lua_State")`,
so the lookup of the allocated type never ends.

**`fetcher_anon_twins`.** Two units each define `namespace { struct Node }`
with a different layout. Both field types read `(anonymous namespace)::Node`.
`SearchType` returns the first `Anon_` namespace in hash order that has a
`Node` (`:908`), so one field gets the other unit's layout.

**`tool`.** main over every flag record and every failing step of
`Create`. It checks:
- `ExitStatusMatches`: the status is 0 exactly when `--local` and both
  paths were given, `Create` and `BuildHistogram` succeeded, and then the
  loop took every site; a failed QCHECK exits with 1, as every other
  failure returns 1.
- `DumpHonoursLimit`: the textual dump writes distinct stored callstacks,
  all of them for a negative `--limit`, none for 0, and never more than the
  store holds, whatever the hash map's order.
- `ToolTypeOK`.

**`tool_flamegraph`.** With `--flamegraph` main exits 0 having written
nothing: `dump_fn` is assigned the `DumpFlamegraph` call and never called,
and the textual branch calls a second `dump_fn` local to it
(`field_access_tool.cc:145`). `--out` is read and never used, so the dump
always goes to standard output. Spec §6 says `--flamegraph` emits a flame
graph and `--out` names the destination.

Each property of the passing runs has a mutant in `PROJECT.json`. A mutant
is a plausible slip in the mapped code, and TLC finds it violating the
property:
- the wrong pruning element;
- a bit instead of a byte stride;
- no trailing padding;
- a union kind;
- a merge of the root only;
- no merge at all;
- insertion by type name;
- `has_seen_alloc` ignored by the fallthrough;
- the `*` of a node slot dropped;
- a resolved name returned without building its tree;
- the btree leaf equation tried first;
- a typedef recorded under its own name;
- the offset index one past the appended field;
- the anonymous-namespace search giving up after the first candidate;
- the loop returning before its last site;
- a `continue` that does not advance;
- unresolved callstacks dumped without the flag;
- main returning -1;
- a dump loop that stops at `i > N`;
- a failed `Create` step that is only logged.

Some disagreements found with the models are kept as hazards rather than
runs, because the run budget went to the fetcher and the tool. Each is stated in
`PROJECT.json`:
- `Verify` rejects a correct tree whose union follows another field: the
  union's older sibling is passed to the union's children
  (`type_tree.cc:291`). Its result is only logged, so nothing downstream
  changes;
- a histogram longer than its type but shorter than twice its size returns
  OK and loses the buckets past the type (`type_tree.h:536`), where spec
  §4.3 says this case is reported;
- an array of a type missing from the index gets elements of size −1 and
  padding at offset −2 (`type_resolver.cc:517`);
- the STL-leaf check clears `is_leaf` per parameter
  (`type_resolver.cc:793`);
- the btree leaf equation is tried after the internal one
  (`type_tree_container_blueprints.h:318`);
- after `MergeTreeIntoThis`, `InferOffsetsFromSizes` lays the members of
  any union in the slot tree one after another (`type_tree.cc:603`). With
  the slot type `X5` (a struct holding a union) added to `MCBlueprints`,
  TLC reports `MergedSlotKeepsLayout` violated;
- the SwissMap capacity formula (`type_tree_container_blueprints.h:360`); the three blueprint findings are
  latent, because the local resolver that the tool uses returns the slot
  tree before the templates are built;
- a `__aligned_membuf` member that two units declare is indexed twice
  (`dwarf_metadata_fetcher.cc:702`);
- a field whose type is a typedef of an anonymous record is not found
  (`:511`);
- an anonymous record defined in a type unit is never found through the
  signature of its declaration: the types-section loop stores its name
  before renaming it, the info-section loop after, and the visit of the
  definition uses neither name (`:380`). With such a unit added to
  `MCMetadataFetcher`, TLC reports `IndexNamesResolve` violated.

Two further disagreements were seen while modelling: `total_verified` counts samples whose tree failed
`Verify` (`histogram_builder.cc:201`), and the allocator walk of the
STL-interior strategy returns NotFound at the first frame without debug info
(`type_resolver.cc:864`), before the frame that has the allocator.

## Bounds

**Attribution.** The types are 1-52 bytes. They include:
- an array of records (`E`: `A arr[2]`) and an array of arrays
  (`M`: `int m[3][2][2]`). Three levels are the fewest in which a node
  with several copies of its own receives several offsets from its
  parent, the case of `type_tree.h:472`: a mutant that restarts an inner
  array from the outer array's first copy is caught only through `M`;
- a struct with inner padding;
- a union of two structs;
- an empty base.

Histograms of 0 to 7 buckets reach each branch of `RecordAccessHistogram`:
- the empty histogram;
- shorter than the type;
- exactly the type;
- the window below twice the size;
- a collapse with a full row, and one with a partial row.

The bucket counts are distinct powers of ten, so a count sent to the wrong
bucket changes a total.

**Builder.** Three sites are enough for a callstack to repeat (a merge)
after another site has been inserted in between. Each site class appears at
least once. Longer profiles only repeat these cases.

**Container.** Three frames are enough for a leaf, an interior frame and
an outer frame, so the walk, the fallthrough order and a frame without
debug info in between all occur; every strategy kind is reached.

**Fetcher.** Two units are the fewest in which the same record, and two
anonymous namespaces, can meet. The forest has one DIE of each tag that
`VisitChildDIE` handles. Between them, the DIEs take every branch:
- a duplicate member;
- a wrapped member;
- a member typedef;
- a subprogram with and one without a name;
- a constant with and one without a value;
- a tag that is ignored.

`MaxLookupDepth` is 20. That is more than twice the deepest lookup of the
passing forest, so only a real cycle reaches it. One type unit in each
`.dwp` section is enough to take both orders of storing and renaming a
signature's name.

**Tool.** Two resolved callstacks make a store of two entries, so a limit
of 1 cuts the dump, 0 writes nothing and -1 writes both; an unresolved and
a filtered site reach the other two ends of an iteration. Every flag
combination and every failing step of `Create` is an initial choice.

**Blueprints.** Capacities 2^k−1 are the ones Abseil uses. Slot sizes of 1
and 2 bytes show the padding; 8, 12, 24 and 40 bytes the aligned cases.
Btree slot sizes 4, 8, 12 and 24 bytes with 3 and 5 slots include the
cases where the children size is and is not a multiple of the slot size.
The slot types with members (`B`, `C`, `E`, `Derived`) give the merge
nested structs, inner and tail padding, an array member and a resolved
field conflict to re-lay out.

## Fairness

All specs are sequential: a loop, or a call followed by its return. `WF`
on the steps says that the program keeps going, which a single thread
that never waits guarantees. The fairness of `AccessStore` is checked in
the builder run as part of `RefinesAccessStore`, so the loop returning is
not stated again as a property of its own: `BuildHistogram`'s loop is a
range-for over the profile and main has no loop, so both end by
construction. TLC evaluates `ENABLED`
without caching, so the builder precomputes `recorded` to keep that run
fast.

## Not modelled

- The demangling, prefix matching and text cleaning of formal parameters
  are abstracted to the parameter record's classes and precomputed texts.
- The blueprints' text-proto parse is not modelled: a template is built
  as the tree the parse and `CreateTreeFromObjectLayout` give. The type
  names of the template's own subobjects are kept, as `FindNodeWithTypeName`
  compares them with the slot type's name.
- `HistogramBuilder` and the resolver modules read the debug index as the
  constant `Types`, with `GetType` as membership in it. `MetadataFetcher`
  models the parse and the real `GetType` separately. `DwarfParserState`
  and `getNextDwarfUnit` are used only by the commented-out multithreaded
  parse, and are left out. `GetField` and `GetCacheableType` are called only from tests.
  `FetchWithPath` and `MetadataPack::Insert` are not used by the tool.
- `BinaryFileRetriever` is file I/O only.
- `field_access_tool.cc` is modelled except `--stats` and
  `--verify_verbose`, which only log. A dump entry is the callstack it
  writes; the text of the tree and the flame graph is left out.
- The failed build-id lookup in `Create` is only logged and is left out.
- Logging and the `ObjectLayout` output are not modelled.
- `FieldAccessHistogram` is not modelled.

## Plan for later work

1. The resolver over the fetcher's real index: `BuildTree` fed by
   `MetadataFetcher`'s `GetType`.
2. The output conversion: `ObjectLayout` and the field access histogram.
