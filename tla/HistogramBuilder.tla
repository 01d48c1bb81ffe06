-------------------------- MODULE HistogramBuilder --------------------------
(***************************************************************************)
(* LocalHistogramBuilder::BuildHistogram (src/histogram_builder.cc): the   *)
(* loop over the allocation sites of a memprof profile.  Each step takes   *)
(* the next site through the filters, DwarfTypeResolver::                  *)
(* ResolveTypeFromCallstack, TypeTree::RecordAccessHistogram, the          *)
(* statistics and TypeTreeStore::Insert, and ends in one of the loop's     *)
(* `continue`s or in the insertion.                                       *)
(*                                                                         *)
(* A callstack is an id; its frames are CallStacks[cs], each a record     *)
(* [fn, col] (the line offset is folded into fn).  The heap-alloc map of   *)
(* the debug index is HeapAllocSites, a function from frames to type      *)
(* names.  When no frame resolves, the container fallback of module       *)
(* ContainerStrategy gives the type from the callstack's frames.           *)
(*                                                                         *)
(* Resolution is a function of the debug index, the callstack and the     *)
(* hash-set orders, all fixed for the process, so the loop's call of       *)
(* ResolveTypeFromCallstack returns resolved[cs], computed once in Init,   *)
(* and the tree RecordAccessHistogram makes of it for site i, a function  *)
(* of the two, is recorded[i].                                             *)
(***************************************************************************)
EXTENDS ContainerStrategy

CONSTANTS
    CallStacks,         \* callstack id -> sequence of frames
    HeapAllocSites,     \* frame -> type name (DW_TAG_GOOGLE_heapalloc)
    CallstackFilter,    \* --callstack_filter: function names
    TypePrefixFilter,   \* --type_prefix_filter: base type names
    OnlyRecordsFlags,   \* the values --only_records may take
    DumpUnresolvedFlags,\* the values --dump_unresolved_callstacks may take
    Profiles            \* the profiles: sequences of [cs, hist]

VARIABLES
    ord,            \* the flat_hash_set iteration orders of this process
    resolved,       \* ResolveTypeFromCallstack's answer for each callstack
    recorded,       \* each site's histogram recorded on its resolved tree
    only_records,   \* --only_records
    dump_unresolved,\* --dump_unresolved_callstacks
    profile,        \* the allocation sites, in the reader's order
    pc,             \* index of the next site
    store,          \* TypeTreeStore: callstack -> [name, root, fromContainer]
    stats,          \* Statistics
    result,         \* "running", then "ok" or the Insert error
    stdout          \* what is written to std::cout: a sequence of [kind, cs]

vars == <<ord, resolved, recorded, only_records, dump_unresolved, profile, pc, store,
          stats, result, stdout>>

StatFields == {"total_allocations_count", "total_found_type", "total_verified",
               "heap_alloc_count", "container_alloc_count",
               "total_record_count", "total_after_filtering",
               "duplicate_callstack_count", "total_accesses",
               "total_accesses_on_heapallocs", "total_accesses_on_containers",
               "total_accesses_on_records"}

-----------------------------------------------------------------------------
(* Filters and resolution                                                 *)

\* FilterCallstack: with a filter, skip unless some frame is named in it.
FilterCallstack(cs) ==
    /\ CallstackFilter # {}
    /\ \A i \in DOMAIN CallStacks[cs] : CallStacks[cs][i].fn \notin CallstackFilter

\* FilterType: with a filter, skip unless the name starts with an entry.
FilterType(tn) ==
    /\ TypePrefixFilter # {}
    /\ \A f \in TypePrefixFilter :
          ~(Len(tn[1]) >= Len(f) /\ SubSeq(tn[1], 1, Len(f)) = f)

\* ResolveTypeFromFrame's lookup: the frame as given, then with column 0.
GetHeapAllocType(fr) ==
    IF fr \in DOMAIN HeapAllocSites THEN <<HeapAllocSites[fr]>>
    ELSE IF [fr EXCEPT !.col = 0] \in DOMAIN HeapAllocSites
         THEN <<HeapAllocSites[[fr EXCEPT !.col = 0]]>>
         ELSE <<>>

\* A frame resolves when its heap-alloc type is found and BuildTree of it
\* succeeds (CreateTreeFromDwarf); otherwise the loop tries the next frame.
FrameResolves(fr) ==
    GetHeapAllocType(fr) # <<>> /\ BuildTreeOk(GetHeapAllocType(fr)[1])

\* ResolveTypeFromCallstack: <<[name, root, fromContainer]>>, or <<>>.
ResolveTypeFromCallstack(cs, o) ==
    LET hits == SelectSeq(CallStacks[cs], FrameResolves)
        mk(tn, fc) == <<[name |-> tn, root |-> BuildTree(tn, o), fromContainer |-> fc]>>
    IN IF hits # <<>> THEN mk(GetHeapAllocType(hits[1])[1], FALSE)
       ELSE IF ResolveContainerType(CallStacks[cs]) # <<>>
       THEN mk(ResolveContainerType(CallStacks[cs])[1], TRUE)
       ELSE <<>>

IsRecordType(t) == t.root.kind = "record"

-----------------------------------------------------------------------------
(* TypeTreeStore::Insert                                                  *)

\* The insertion succeeds unless the stored tree has another name or
\* another shape.
InsertOk(st, cs, t) ==
    cs \in DOMAIN st =>
        /\ st[cs].name = t.name
        /\ MergeCountsOk(t.root, st[cs].root)

\* Mutation: the tree is stored under its type name, not its callstack.
InsertTreeByName(st, cs, t) ==
    LET merged == IF t.name \in DOMAIN st
                  THEN [t EXCEPT !.root = MergeCounts(t.root, st[t.name].root)]
                  ELSE t
    IN [c \in DOMAIN st \cup {t.name} |-> IF c = t.name THEN merged ELSE st[c]]

\* Mutation: the new tree replaces the stored one without the merge.
InsertTreeNoMerge(st, cs, t) == [c \in DOMAIN st \cup {cs} |->
                                    IF c = cs THEN t ELSE st[c]]

\* The new tree is stored with the stored tree's counts added to it.
InsertTree(st, cs, t) ==
    LET merged == IF cs \in DOMAIN st
                  THEN [t EXCEPT !.root = MergeCounts(t.root, st[cs].root)]
                  ELSE t
    IN [c \in DOMAIN st \cup {cs} |-> IF c = cs THEN merged ELSE st[c]]

-----------------------------------------------------------------------------
(* The loop                                                               *)

Init ==
    /\ ord \in Orders
    /\ resolved = [cs \in DOMAIN CallStacks |-> ResolveTypeFromCallstack(cs, ord)]
    /\ only_records \in OnlyRecordsFlags
    /\ dump_unresolved \in DumpUnresolvedFlags
    /\ profile \in Profiles
    /\ recorded = [i \in DOMAIN profile |->
                    IF resolved[profile[i].cs] = <<>> THEN <<>>
                    ELSE RecordAccessHistogram(resolved[profile[i].cs][1].root,
                                               profile[i].hist).root]
    /\ pc = 1
    /\ store = <<>>
    /\ stats = [f \in StatFields |-> 0]
    /\ result = "running"
    /\ stdout = << >>

Site == profile[pc]
Resolved == resolved[Site.cs]

Inc(s, fields) == [f \in StatFields |-> IF f \in fields THEN s[f] + 1 ELSE s[f]]

Running == result = "running" /\ pc <= Len(profile)

\* FilterCallstack(callstack): continue.
SkipCallstack ==
    /\ Running
    /\ FilterCallstack(Site.cs)
    /\ pc' = pc + 1
    /\ UNCHANGED <<ord, resolved, recorded, only_records, dump_unresolved, stdout, profile, store, stats, result>>

\* Mutation: the unresolved callstack is dumped whatever the flag says.
SkipUnresolvedAlwaysDumped ==
    /\ Running
    /\ ~FilterCallstack(Site.cs)
    /\ Resolved = <<>>
    /\ stats' = Inc(stats, {"total_allocations_count"})
    /\ stdout' = Append(stdout, [kind |-> "unresolved", cs |-> Site.cs])
    /\ pc' = pc + 1
    /\ UNCHANGED <<ord, resolved, recorded, only_records, dump_unresolved, profile, store, result>>

\* ResolveTypeFromCallstack fails: with --dump_unresolved_callstacks the
\* callstack is dumped to std::cout as an entry; continue.
SkipUnresolved ==
    /\ Running
    /\ ~FilterCallstack(Site.cs)
    /\ Resolved = <<>>
    /\ stats' = Inc(stats, {"total_allocations_count"})
    /\ stdout' = IF dump_unresolved
                 THEN Append(stdout, [kind |-> "unresolved", cs |-> Site.cs])
                 ELSE stdout
    /\ pc' = pc + 1
    /\ UNCHANGED <<ord, resolved, recorded, only_records, dump_unresolved, profile, store, result>>

\* FilterType(type_tree->Name()): continue.
SkipType ==
    /\ Running
    /\ ~FilterCallstack(Site.cs)
    /\ Resolved # <<>>
    /\ FilterType(Resolved[1].name)
    /\ stats' = Inc(stats, {"total_allocations_count", "total_found_type"})
    /\ pc' = pc + 1
    /\ UNCHANGED <<ord, resolved, recorded, only_records, dump_unresolved, stdout, profile, store, result>>

\* only_records_ and the tree is not a record: continue.
SkipNonRecord ==
    /\ Running
    /\ ~FilterCallstack(Site.cs)
    /\ Resolved # <<>>
    /\ ~FilterType(Resolved[1].name)
    /\ only_records /\ ~IsRecordType(Resolved[1])
    /\ stats' = Inc(stats, {"total_allocations_count", "total_found_type",
                            "total_after_filtering"})
    /\ pc' = pc + 1
    /\ UNCHANGED <<ord, resolved, recorded, only_records, dump_unresolved, stdout, profile, store, result>>

\* The histogram is recorded on the tree (a status other than OK is only
\* logged), the tree is verified (a failure is only logged), the
\* statistics are counted and the tree is inserted; an Insert error is
\* returned from BuildHistogram and ends the run.
Attribute ==
    /\ Running
    /\ ~FilterCallstack(Site.cs)
    /\ Resolved # <<>>
    /\ ~FilterType(Resolved[1].name)
    /\ only_records => IsRecordType(Resolved[1])
    /\ LET t     == Resolved[1]
           rec   == recorded[pc]
           tree  == [t EXCEPT !.root = rec]
           acc   == rec.total
           isRec == IsRecordType(t)
           cnt   == Inc(stats, {"total_allocations_count", "total_found_type",
                                "total_after_filtering", "total_verified"}
                               \cup (IF isRec THEN {"total_record_count"} ELSE {})
                               \cup {IF t.fromContainer THEN "container_alloc_count"
                                     ELSE "heap_alloc_count"})
           accF  == {"total_accesses",
                     IF t.fromContainer THEN "total_accesses_on_containers"
                     ELSE "total_accesses_on_heapallocs"}
                    \cup (IF isRec THEN {"total_accesses_on_records"} ELSE {})
       IN IF InsertOk(store, Site.cs, tree)
          THEN /\ stats' = [f \in StatFields |->
                              IF f \in accF THEN cnt[f] + acc ELSE cnt[f]]
               /\ store' = InsertTree(store, Site.cs, tree)
               /\ pc' = pc + 1
               /\ UNCHANGED result
          ELSE /\ result' = "error"
               /\ UNCHANGED <<store, stats, pc>>
    /\ UNCHANGED <<ord, resolved, recorded, only_records, dump_unresolved, stdout, profile>>

\* Mutation: the results are returned before the loop is over.
FinishEarly ==
    /\ result = "running"
    /\ result' = "ok"
    /\ UNCHANGED <<ord, resolved, recorded, only_records, dump_unresolved, stdout, profile, pc, store, stats>>

\* The loop is over: the results are returned.
Finish ==
    /\ result = "running"
    /\ pc > Len(profile)
    /\ result' = "ok"
    /\ UNCHANGED <<ord, resolved, recorded, only_records, dump_unresolved, stdout, profile, pc, store, stats>>

\* BuildHistogram has returned.
Done ==
    /\ result # "running"
    /\ UNCHANGED vars

Next ==
    \/ SkipCallstack \/ SkipUnresolved \/ SkipType \/ SkipNonRecord
    \/ Attribute \/ Finish \/ Done

\* The loop runs on one thread without waiting on anything.
Spec == Init /\ [][Next]_vars /\ WF_vars(Next)

-----------------------------------------------------------------------------
(* Properties                                                             *)

TypeOK ==
    /\ only_records \in BOOLEAN
    /\ dump_unresolved \in BOOLEAN
    /\ pc \in 1..(Len(profile) + 1)
    /\ DOMAIN store \subseteq DOMAIN CallStacks
    /\ \A cs \in DOMAIN store :
          /\ store[cs].name \in DOMAIN Types
          /\ store[cs].fromContainer \in BOOLEAN
          /\ store[cs].root.total \in Nat
    /\ stats \in [StatFields -> Nat]
    /\ result \in {"running", "ok", "error"}

SumOver(S, F(_)) == FoldSet(LAMBDA x, acc : F(x) + acc, 0, S)

\* The tree a site contributes when it is processed on its own.
Attributed(i) == recorded[i]

\* Site i passes the loop's filters and reaches TypeTreeStore::Insert.
Kept(i) ==
    LET r == resolved[profile[i].cs]
    IN /\ ~FilterCallstack(profile[i].cs)
       /\ r # <<>>
       /\ ~FilterType(r[1].name)
       /\ only_records => IsRecordType(r[1])

\* The sites before pc that reached TypeTreeStore::Insert.
Inserted == {i \in 1..(pc - 1) : Kept(i)}

RECURSIVE Paths(_)
Paths(n) == {<<>>} \cup UNION {{<<k>> \o p : p \in Paths(n.children[k])} :
                                k \in DOMAIN n.children}

\* Spec 4.4 and section 5: every node of the tree stored for a callstack
\* counts the sum of what that node counted in each site of the callstack
\* inserted so far, whatever the order of the sites; Insert keeps the new
\* tree and adds the stored counts into it, so no site's counts are lost
\* or counted twice on any node.
StoreAccumulatesSites ==
    \A cs \in DOMAIN store :
       \A path \in Paths(store[cs].root) :
          NodeAt(store[cs].root, path).total =
             SumOver({i \in Inserted : profile[i].cs = cs},
                     LAMBDA i : NodeAt(Attributed(i), path).total)

\* The statistics agree with the store: total_accesses, counted per site
\* before the insertion, is what the stored trees hold at their roots, and
\* it splits into heap and container accesses as the verified sites split
\* into heap and container allocations.
StatsMatchStore ==
    result # "error" =>
      /\ stats.total_accesses =
            SumOver(DOMAIN store, LAMBDA cs : store[cs].root.total)
      /\ stats.total_accesses = stats.total_accesses_on_heapallocs
                                  + stats.total_accesses_on_containers
      /\ stats.total_verified = stats.heap_alloc_count + stats.container_alloc_count

\* The loop as the store sees it: the accesses of each kept site, and the
\* totals at the roots of the stored trees.
Store == INSTANCE AccessStore
            WITH sites  <- [i \in DOMAIN profile |->
                              [cs   |-> profile[i].cs,
                               kept |-> Kept(i),
                               acc  |-> IF Kept(i) THEN Attributed(i).total ELSE 0]],
                 totals <- [cs \in DOMAIN store |-> store[cs].root.total],
                 next   <- pc,
                 status <- result

\* BuildHistogram implements AccessStore: every step of the loop takes the
\* next site or returns, a kept site's accesses reach the root of its
\* callstack's tree exactly once, Insert refuses only a callstack already
\* stored, and the loop returns.
RefinesAccessStore == Store!Spec

\* The sites before pc that passed the callstack filter and that
\* ResolveTypeFromCallstack could not resolve, in profile order.
UnresolvedSites ==
    SelectSeq([i \in 1..(pc - 1) |-> i],
              LAMBDA i : ~FilterCallstack(profile[i].cs) /\ resolved[profile[i].cs] = <<>>)

\* --dump_unresolved_callstacks: std::cout holds, in profile order, one
\* entry for each site so far that passed the callstack filter and did not
\* resolve, and nothing without the flag; and the statistics count those
\* sites as the allocations whose type was not found.
UnresolvedDumped ==
    /\ stdout = IF dump_unresolved
                THEN [k \in DOMAIN UnresolvedSites |->
                        [kind |-> "unresolved", cs |-> profile[UnresolvedSites[k]].cs]]
                ELSE << >>
    /\ Len(UnresolvedSites) = stats.total_allocations_count - stats.total_found_type

=============================================================================
