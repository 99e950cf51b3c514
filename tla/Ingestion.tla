------------------------------ MODULE Ingestion -----------------------------
(***************************************************************************)
(* run_ingestion (src/aquant/data/ingestion.py): runs that fetch the whole *)
(* universe, store the calendar, store each symbol's snapshot, and append  *)
(* all their records to the manifest in one batch.  The snapshot store and *)
(* the manifest are used through what they promise, ContentStore and       *)
(* BatchLog; SnapshotStore and ManifestLog show that they keep it.         *)
(*                                                                         *)
(*    stored, acked  the snapshots, see ContentStore                       *)
(*    log, kept      the manifest, see BatchLog                            *)
(*    calendars      the calendars on record                               *)
(*    run            the ingestion runs: a run is started again by its     *)
(*                   operator after it failed or died                      *)
(***************************************************************************)
EXTENDS Naturals, Sequences, FiniteSets

CONSTANTS
    Runs,
    Universe,         \* the configured symbols, in order
    Fetches,          \* symbol -> the contents its source may return
    ClientVersion,    \* run -> version of the client library it records
    MaxTries,         \* bound: how often a run is started
    MaxSetbacks       \* bound: failed calls, crashes and power losses

VARIABLES stored, acked, log, kept, calendars, run, setbacks

ingestionVars == <<stored, acked, log, kept, calendars, run, setbacks>>

\* A snapshot is named for its symbol and content, a record for its snapshot; the
\* client version is part of the record but not of its id.
Snapshot(symbol, content) == <<symbol, content>>
Record(r, try, symbol, content) ==
    [id |-> Snapshot(symbol, content), body |-> ClientVersion[r], fetched |-> <<r, try>>]

Symbols == {Universe[i] : i \in DOMAIN Universe}

\* A configuration names at least one symbol.
ASSUME IngestionAssumption ==
    /\ Universe \in Seq(Symbols) /\ Universe # <<>>
    /\ MaxTries \in Nat /\ MaxSetbacks \in Nat

BatchFor(r, try, fetched) == {Record(r, try, s, fetched[s]) : s \in Symbols}
Fetchable == {f \in [Symbols -> UNION {Fetches[s] : s \in Symbols}] :
                 \A s \in Symbols : f[s] \in Fetches[s]}
AllBatches == {BatchFor(r, try, fetched) :
                  r \in Runs, try \in 1 .. MaxTries, fetched \in Fetchable}

Snapshots == INSTANCE ContentStore WITH
    Contents <- UNION {{Snapshot(s, x) : x \in Fetches[s]} : s \in Symbols}
Manifest == INSTANCE BatchLog WITH Batches <- AllBatches

RunAt(r, pc) == run[r].pc = pc
BatchOfRun(r) == BatchFor(r, run[r].try, run[r].fetched)
NewRecords(r) == Manifest!New(BatchOfRun(r))
Current(r) == LET s == Universe[run[r].next] IN Snapshot(s, run[r].fetched[s])

IngestionInit ==
    /\ stored = {} /\ acked = {} /\ log = {} /\ kept = {}
    /\ calendars = {}
    /\ run = [r \in Runs |-> [pc |-> "idle", try |-> 0, next |-> 1, fetched |-> <<>>,
                              new |-> {}]]
    /\ setbacks = 0

-----------------------------------------------------------------------------
(* One run *)

\* fetch_batch and _validate_batch cover the whole universe before anything is
\* written; a symbol that cannot be fetched or validated ends the run here.
Fetch(r) ==
    /\ run[r].pc \in {"idle", "failed", "done"} /\ run[r].try < MaxTries
    /\ \/ \E fetched \in Fetchable :
             run' = [run EXCEPT ![r] = [pc |-> "calendar", try |-> @.try + 1, next |-> 1,
                                        fetched |-> fetched, new |-> {}]]
       \/ run' = [run EXCEPT ![r].pc = "failed", ![r].try = @ + 1]
    /\ UNCHANGED <<stored, acked, log, kept, calendars, setbacks>>

\* The calendar is one for all runs of the same day.
WriteCalendar(r) ==
    /\ RunAt(r, "calendar")
    /\ calendars' = calendars \cup {"calendar"}
    /\ run' = [run EXCEPT ![r].pc = "snapshot"]
    /\ UNCHANGED <<stored, acked, log, kept, setbacks>>

\* RawSnapshotStore.write of the next symbol: published, then returned.
StoreSnapshot(r) ==
    /\ RunAt(r, "snapshot") /\ Snapshots!Store(Current(r))
    /\ run' = [run EXCEPT ![r].pc = "stored"]
    /\ UNCHANGED <<log, kept, calendars, setbacks>>
ReturnNothing(r) ==                       \* mutation: goes on without the store's answer
    /\ RunAt(r, "stored")
    /\ run' = [run EXCEPT ![r].next = @ + 1,
                          ![r].pc = IF run[r].next = Len(Universe) THEN "append" ELSE "snapshot"]
    /\ UNCHANGED <<stored, acked, log, kept, calendars, setbacks>>
ReturnSnapshot(r) ==
    /\ RunAt(r, "stored") /\ Snapshots!Acknowledge(Current(r))
    /\ run' = [run EXCEPT ![r].next = @ + 1,
                          ![r].pc = IF run[r].next = Len(Universe)
                                    THEN "append" ELSE "snapshot"]
    /\ UNCHANGED <<log, kept, calendars, setbacks>>

\* append_batch of all records: refused, published, returned.
AppendRefused(r) ==
    /\ RunAt(r, "append") /\ Manifest!Conflicts(BatchOfRun(r))
    /\ run' = [run EXCEPT ![r].pc = "failed"]
    /\ UNCHANGED <<stored, acked, log, kept, calendars, setbacks>>
AppendOneByOne(r) ==                      \* mutation: one append for each symbol
    /\ RunAt(r, "append")
    /\ \E record \in NewRecords(r) :
          /\ log' = log \cup {record}
          /\ run' = [run EXCEPT ![r].pc = IF NewRecords(r) = {record} THEN "appended" ELSE @,
                                ![r].new = @ \cup {record}]
    /\ UNCHANGED <<stored, acked, kept, calendars, setbacks>>
AppendDuplicates(r) ==                    \* mutation: appends records it knows
    /\ RunAt(r, "append") /\ ~Manifest!Conflicts(BatchOfRun(r))
    /\ log' = log \cup BatchOfRun(r)
    /\ run' = [run EXCEPT ![r].pc = "appended", ![r].new = NewRecords(r)]
    /\ UNCHANGED <<stored, acked, kept, calendars, setbacks>>
AppendBatch(r) ==
    /\ RunAt(r, "append") /\ Manifest!Publish(BatchOfRun(r))
    /\ run' = [run EXCEPT ![r].pc = "appended", ![r].new = NewRecords(r)]
    /\ UNCHANGED <<stored, acked, calendars, setbacks>>
ReturnAppended(r) ==
    /\ RunAt(r, "appended") /\ Manifest!Acknowledge(run[r].new)
    /\ run' = [run EXCEPT ![r].pc = "done"]
    /\ UNCHANGED <<stored, acked, calendars, setbacks>>

-----------------------------------------------------------------------------
(* Mishaps *)

\* A call of a store fails, before or after its effect, or the process dies.
Stop(r) ==
    /\ run[r].pc \notin {"idle", "failed", "done"} /\ setbacks < MaxSetbacks
    /\ run' = [run EXCEPT ![r].pc = "failed"] /\ setbacks' = setbacks + 1
    /\ UNCHANGED <<stored, acked, log, kept, calendars>>

IngestionPowerLoss ==
    /\ setbacks < MaxSetbacks /\ setbacks' = setbacks + 1
    /\ Snapshots!Lose /\ Manifest!LoseBatches
    /\ run' = [r \in Runs |-> [run[r] EXCEPT !.pc = "failed"]]
    /\ calendars' \in SUBSET calendars

IngestionNext ==
    \/ \E r \in Runs :
          \/ Fetch(r) \/ WriteCalendar(r) \/ StoreSnapshot(r) \/ ReturnSnapshot(r)
          \/ AppendRefused(r) \/ AppendBatch(r) \/ ReturnAppended(r) \/ Stop(r)
    \/ IngestionPowerLoss

IngestionSpec == IngestionInit /\ [][IngestionNext]_ingestionVars

-----------------------------------------------------------------------------
(* Properties *)

TypeOK ==
    /\ acked \subseteq stored /\ kept \subseteq log
    /\ \A b \in {log} \cup {run[r].new : r \in Runs} : b \subseteq UNION AllBatches
    /\ \A r \in Runs : run[r].next \in 1 .. Len(Universe) + 1 /\ run[r].try \in 0 .. MaxTries
    /\ setbacks \in 0 .. MaxSetbacks

\* Downstream takes paths from the manifest only and verifies what it finds
\* there.  Every record has its snapshot in store, and the store has answered for
\* it, so that no failure, crash or power loss leaves a record without a snapshot.
RecordsHaveSnapshots == TypeOK /\ Manifest!Ids(log) \subseteq acked

\* The manifest is the transaction boundary of a batch: a record is never there
\* without records of the whole universe that some one fetch returned, whichever
\* runs overlapped, failed or repeated it.
UniverseIsWhole ==
    \A r \in log : \E b \in AllBatches :
        r \in b /\ Manifest!Ids(b) \subseteq Manifest!Ids(log)

\* A record, once read by anybody, is never rewritten by a later fetch of the same
\* snapshot; only a power loss removes records, and none a run has reported.
FirstRecordStands ==
    [][ /\ log \subseteq log' \/ setbacks' > setbacks
        /\ kept \subseteq log'
        /\ \A r, s \in log' : r.id = s.id => r = s ]_ingestionVars

=============================================================================
