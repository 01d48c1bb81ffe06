--------------------------- MODULE FieldAccessTool ---------------------------
(***************************************************************************)
(* The field_access_tool binary (src/field_access_tool.cc): main reads    *)
(* the flags, LocalMode creates a LocalHistogramBuilder                   *)
(* (CreateLocalHistogramBuilderFromFlags, LocalHistogramBuilder::Create   *)
(* in src/histogram_builder.cc) and runs BuildHistogram, whose loop is    *)
(* the module HistogramBuilder; main then dumps the TypeTreeStore as the  *)
(* flags ask and exits.                                                   *)
(*                                                                         *)
(* The flags of main are a record flags; --only_records and              *)
(* --dump_unresolved_callstacks are the builder's own variables.  The     *)
(* files are outside the program: opening the profile, creating the      *)
(* reader, the BinaryFileRetriever and FetchDWPWithPath each may fail,    *)
(* and Create returns the first failure.  A failed build-id lookup is     *)
(* only logged and is left out.  Logging (LOG, --stats, --verify_verbose) *)
(* writes nothing the properties read and is left out.                    *)
(***************************************************************************)
EXTENDS HistogramBuilder

CONSTANTS
    FlagSets,       \* the flag records main may be started with
    CreateFailures  \* the steps of Create that may fail

VARIABLES
    flags,      \* [local, binary, profile, flamegraph, limit, out]
    phase,      \* "start", "building" while BuildHistogram runs, "exited"
    created,    \* what Create returned: "none" before, "ok" or the failed step
    exit_code   \* the process's exit status, -1 while it runs

tvars == <<flags, phase, created, exit_code>>
allvars == <<vars, tvars>>

\* QCHECK failure: LOG(QFATAL), which ends the process with _exit(1).
AbortStatus == 1

ToolInit ==
    /\ Init
    /\ flags \in FlagSets
    /\ phase = "start"
    /\ created = "none"
    /\ exit_code = -1

\* LocalHistogramBuilder::Create: a failed build-id lookup is logged and
\* tolerated; then opening the profile, creating the RawMemProfReader, the
\* BinaryFileRetriever and FetchDWPWithPath run in this order, and the
\* first that fails is returned; otherwise the builder.
CreateResults == {"ok"} \cup CreateFailures

Exit(code) ==
    /\ phase' = "exited"
    /\ exit_code' = code

\* Mutation: main returns -1, which the process exits with as 255.
NotLocalReturnsMinusOne ==
    /\ phase = "start"
    /\ ~flags.local
    /\ Exit(255)
    /\ UNCHANGED <<vars, flags, created>>

\* main without --local: "Must choose local mode", return 1.
NotLocal ==
    /\ phase = "start"
    /\ ~flags.local
    /\ Exit(1)
    /\ UNCHANGED <<vars, flags, created>>

\* Mutation: a failed step of Create is logged and the build goes on.
CreateBuilderIgnoresFailure ==
    /\ phase = "start"
    /\ flags.local
    /\ IF ~flags.binary \/ ~flags.profile
       THEN /\ Exit(AbortStatus)
            /\ UNCHANGED created
       ELSE \E o \in CreateResults :
               /\ created' = o
               /\ phase' = "building"
               /\ UNCHANGED exit_code
    /\ UNCHANGED <<vars, flags>>

\* CreateLocalHistogramBuilderFromFlags: the QCHECKs on
\* --memprof_profiled_binary and --memprof_profile abort the process; then
\* LocalHistogramBuilder::Create either returns the builder or the status
\* of the first step that failed, which LocalMode returns and main
\* reports with return 1.
CreateBuilder ==
    /\ phase = "start"
    /\ flags.local
    /\ IF ~flags.binary \/ ~flags.profile
       THEN /\ Exit(AbortStatus)
            /\ UNCHANGED created
       ELSE \E o \in CreateResults :
               /\ created' = o
               /\ IF o = "ok"
                  THEN /\ phase' = "building"
                       /\ UNCHANGED exit_code
                  ELSE Exit(1)
    /\ UNCHANGED <<vars, flags>>

\* A step of BuildHistogram's loop, until it returns.
BuilderStep ==
    /\ phase = "building"
    /\ \/ SkipCallstack \/ SkipUnresolved \/ SkipType \/ SkipNonRecord
       \/ Attribute \/ Finish
    /\ UNCHANGED tvars

-----------------------------------------------------------------------------
(* TypeTreeStore::Dump and DumpFlamegraph                                 *)

\* Mutation: the loop returns when i > N.
DumpedPrefixPastLimit(order, limit) ==
    LET N == IF limit < 0 THEN Len(order) ELSE limit
    IN [k \in {k \in 1..Len(order) : ~(k - 1 > N)} |-> order[k]]

\* The entries the dump loop writes for a store iterated in order: N is
\* the store's size for a negative limit, else the limit, and the loop
\* returns when i >= N.
DumpedPrefix(order, limit) ==
    LET N == IF limit < 0 THEN Len(order) ELSE limit
    IN [k \in {k \in 1..Len(order) : ~(k - 1 >= N)} |-> order[k]]

\* Dump: an entry with the tree and the callstack for each callstack.
Dump(order, limit) ==
    [k \in DOMAIN DumpedPrefix(order, limit) |->
        [kind |-> "tree", cs |-> DumpedPrefix(order, limit)[k]]]

\* DumpFlamegraph: the flame graph of each tree, with id i + 1.
DumpFlamegraph(order, limit) ==
    [k \in DOMAIN DumpedPrefix(order, limit) |->
        [kind |-> "flame", cs |-> DumpedPrefix(order, limit)[k]]]

\* The iteration orders of the flat_hash_map callstack_to_type_tree_.
StoreOrders == SetToSeqs(DOMAIN store)

\* main after BuildHistogram: a failed build is reported with return 1.
\* Otherwise nothing is dumped for --dump_unresolved_callstacks; for
\* --flamegraph, dump_fn is set to the DumpFlamegraph call but never
\* called; else a second dump_fn, local to the branch, calls Dump on
\* std::cout at once.  --out is read and not used.  main returns 0.
Report ==
    /\ phase = "building"
    /\ result # "running"
    /\ IF result = "error"
       THEN /\ Exit(1)
            /\ UNCHANGED stdout
       ELSE /\ IF dump_unresolved \/ flags.flamegraph
               THEN UNCHANGED stdout
               ELSE \E order \in StoreOrders :
                       stdout' = stdout \o Dump(order, flags.limit)
            /\ Exit(0)
    /\ UNCHANGED <<ord, resolved, recorded, only_records, dump_unresolved, profile, pc,
                   store, stats, result, flags, created>>

\* The process has exited.
Exited ==
    /\ phase = "exited"
    /\ UNCHANGED allvars

ToolNext == NotLocal \/ CreateBuilder \/ BuilderStep \/ Report \/ Exited

\* One thread, which never waits on anything.
ToolSpec == ToolInit /\ [][ToolNext]_allvars /\ WF_allvars(ToolNext)

-----------------------------------------------------------------------------
(* Properties                                                             *)

\* The state of main is typed; the exit status is one main's returns and
\* a failed QCHECK produce.
ToolTypeOK ==
    /\ phase \in {"start", "building", "exited"}
    /\ created \in {"none", "ok"} \cup CreateFailures
    /\ exit_code \in {-1, 0, 1, AbortStatus}
    /\ \A k \in DOMAIN stdout :
          stdout[k].kind \in {"unresolved", "tree", "flame"} /\ stdout[k].cs \in DOMAIN CallStacks

\* The number of entries a dump with flags.limit writes for the store.
DumpCount ==
    IF flags.limit < 0 \/ flags.limit > Cardinality(DOMAIN store)
    THEN Cardinality(DOMAIN store) ELSE flags.limit

Entries(kind, out) == SelectSeq(out, LAMBDA e : e.kind = kind)

\* The textual dump main writes after a successful build holds each stored
\* callstack at most once and exactly as many as --limit allows: all for
\* a negative limit, none for 0, and never more than the store holds
\* (TypeTreeStore::Dump, the i >= N return at its boundary).
DumpHonoursLimit ==
    phase = "exited" /\ exit_code = 0 /\ ~dump_unresolved /\ ~flags.flamegraph =>
        LET trees == Entries("tree", stdout)
        IN /\ Len(trees) = DumpCount
           /\ Cardinality({trees[k].cs : k \in DOMAIN trees}) = Len(trees)
           /\ \A k \in DOMAIN trees : trees[k].cs \in DOMAIN store

\* The process exits with 0 exactly when it ran in local mode with both
\* input paths, Create succeeded and BuildHistogram returned the store,
\* and then the loop has taken every site of the profile: a failure of
\* the flags, of any step of Create or of an Insert is never reported as
\* success.
ExitStatusMatches ==
    phase = "exited" =>
        /\ (exit_code = 0) <=> /\ flags.local /\ flags.binary /\ flags.profile
                               /\ created = "ok" /\ result = "ok"
        /\ exit_code = 0 => pc = Len(profile) + 1

\* Spec section 6: after a successful build (without
\* --dump_unresolved_callstacks), the store is dumped as a flame graph with
\* --flamegraph and as text otherwise, as many entries as --limit allows,
\* to the file --out names or to standard output.  main writes no file,
\* so the destination of a non-empty --out holds nothing.
OutputAsRequested ==
    phase = "exited" /\ exit_code = 0 /\ ~dump_unresolved =>
        LET dest == IF flags.out = "" THEN stdout ELSE << >>
        IN Len(Entries(IF flags.flamegraph THEN "flame" ELSE "tree", dest)) = DumpCount

=============================================================================
