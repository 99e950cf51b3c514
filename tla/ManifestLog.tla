----------------------------- MODULE ManifestLog ----------------------------
(***************************************************************************)
(* ManifestWriter (src/aquant/data/manifest.py): processes that append     *)
(* batches to one JSON-lines manifest and read it, one step at a time.     *)
(* Under an exclusive file lock a writer reads the manifest, checks its    *)
(* batch against it, writes the old bytes and the new lines to a temporary *)
(* file, syncs it, renames it over the manifest and syncs the directory.   *)
(*                                                                         *)
(*    file     what the name shows: the lines, and whether they are synced *)
(*    older    what else a power loss may bring the name back to: the      *)
(*             files it showed since the directory was last synced         *)
(*    lock     the process holding the lock, or None                       *)
(*    proc     the call each process is in                                 *)
(*    appended the records calls have reported as appended                 *)
(*    mishaps  faults, crashes and power losses so far (MaxMishaps)        *)
(* Temporary files that crashes leave behind are never read and are left   *)
(* out.                                                                    *)
(***************************************************************************)
EXTENDS Naturals, Sequences, FiniteSets

CONSTANTS
    Writers, Readers,
    BatchOf,          \* writer -> the batch it appends, a sequence of records
    Calls,            \* bound: how many calls each process makes
    MaxMishaps,       \* bound: faults, crashes and power losses
    None              \* no process

Procs == Writers \cup Readers

VARIABLES file, older, lock, proc, appended, mishaps

vars == <<file, older, lock, proc, appended, mishaps>>

Records(lines) == {lines[i] : i \in DOMAIN lines}

\* A record carries the time of its fetch, so no two batches share a part of their
\* records.
ASSUME ManifestAssumption ==
    /\ None \notin Procs
    /\ \A w \in Writers : BatchOf[w] \in Seq(Records(BatchOf[w]))
    /\ \A v, w \in Writers :
          \/ Records(BatchOf[v]) = Records(BatchOf[w])
          \/ Records(BatchOf[v]) \cap Records(BatchOf[w]) = {}

Missing == [lines |-> <<>>, synced |-> TRUE]      \* no manifest reads as empty

\* A record is identified by its id; its identity is all but the fetch time.
SameRecord(r, s) == r.id = s.id /\ r.body = s.body

\* _parse_bytes: repeated lines are tolerated, contradicting ones are not.
Parses(lines) ==
    \A i, j \in DOMAIN lines : lines[i].id = lines[j].id => SameRecord(lines[i], lines[j])

Known(r, lines) == \E i \in DOMAIN lines : lines[i].id = r.id
Contradicts(r, lines) ==
    \E i \in DOMAIN lines : lines[i].id = r.id /\ ~SameRecord(r, lines[i])

\* The records of a batch that are not there yet, in its order: of the first n
\* records, and of all.
NewUpTo(batch, lines) ==
    LET upTo[n \in 0 .. Len(batch)] ==
            IF n = 0 THEN <<>>
            ELSE IF Known(batch[n], lines) THEN upTo[n-1] ELSE Append(upTo[n-1], batch[n])
    IN  upTo
NewLines(batch, lines) == NewUpTo(batch, lines)[Len(batch)]

Idle == [pc |-> "idle", calls |-> 0, read |-> <<>>, temp |-> Missing, result |-> "none"]

At(p, pc) == proc[p].pc = pc
Step(p, pc) == proc' = [proc EXCEPT ![p].pc = pc]
Fail(p) == proc' = [proc EXCEPT ![p].pc = "release", ![p].result = "failed"]
Succeed(p) == proc' = [proc EXCEPT ![p].pc = "release", ![p].result = "ok"]

Init ==
    /\ file = Missing /\ older = {} /\ lock = None
    /\ proc = [p \in Procs |-> Idle]
    /\ appended = {} /\ mishaps = 0

-----------------------------------------------------------------------------
(* append_batch and read_all *)

\* Before the lock: a batch that repeats an id is refused.
Call(p) ==
    /\ proc[p].pc \in {"idle", "returned"} /\ proc[p].calls < Calls[p]
    /\ LET started == [Idle EXCEPT !.calls = proc[p].calls + 1]
           repeats == p \in Writers /\ \E i, j \in DOMAIN BatchOf[p] :
                         i # j /\ BatchOf[p][i].id = BatchOf[p][j].id
       IN  proc' = [proc EXCEPT ![p] =
                       IF repeats
                       THEN [started EXCEPT !.pc = "returned", !.result = "failed"]
                       ELSE [started EXCEPT !.pc = "waiting"]]
    /\ UNCHANGED <<file, older, lock, appended, mishaps>>

\* _locked: flock.
LockShared(p) ==                          \* mutation: a shared lock
    /\ At(p, "waiting") /\ Step(p, "read")
    /\ lock' = p
    /\ UNCHANGED <<file, older, appended, mishaps>>
Lock(p) ==
    /\ At(p, "waiting") /\ lock = None
    /\ lock' = p /\ Step(p, "read")
    /\ UNCHANGED <<file, older, appended, mishaps>>

ReadManifest(p) ==
    /\ At(p, "read")
    /\ IF ~Parses(file.lines) THEN Fail(p)
       ELSE IF p \in Readers THEN Succeed(p)
       ELSE proc' = [proc EXCEPT ![p].pc = "check", ![p].read = file.lines]
    /\ UNCHANGED <<file, older, lock, appended, mishaps>>

\* The whole batch is checked before any of it is written.
Check(w) ==
    /\ At(w, "check")
    /\ LET lines == proc[w].read
       IN  \/ /\ \E i \in DOMAIN BatchOf[w] : Contradicts(BatchOf[w][i], lines)
              /\ Fail(w)
           \/ /\ \A i \in DOMAIN BatchOf[w] : ~Contradicts(BatchOf[w][i], lines)
              /\ IF NewLines(BatchOf[w], lines) = <<>> THEN Succeed(w) ELSE Step(w, "write")
    /\ UNCHANGED <<file, older, lock, appended, mishaps>>

\* _write_all to the temporary file: what was read, and the new lines.
Write(w) ==
    /\ At(w, "write")
    /\ proc' = [proc EXCEPT ![w].pc = "sync",
                  ![w].temp = [lines  |-> proc[w].read \o NewLines(BatchOf[w], proc[w].read),
                               synced |-> FALSE]]
    /\ UNCHANGED <<file, older, lock, appended, mishaps>>

SyncNothing(w) ==                         \* mutation: no fsync before the rename
    /\ At(w, "sync") /\ Step(w, "replace")
    /\ UNCHANGED <<file, older, lock, appended, mishaps>>
Sync(w) ==
    /\ At(w, "sync")
    /\ proc' = [proc EXCEPT ![w].pc = "replace", ![w].temp.synced = TRUE]
    /\ UNCHANGED <<file, older, lock, appended, mishaps>>

Replace(w) ==
    /\ At(w, "replace") /\ Step(w, "dirsync")
    /\ older' = older \cup {file}
    /\ file' = proc[w].temp
    /\ UNCHANGED <<lock, appended, mishaps>>

SyncDirectory(w) ==
    /\ At(w, "dirsync") /\ Succeed(w)
    /\ older' = {}
    /\ appended' = appended \cup Records(NewLines(BatchOf[w], proc[w].read))
    /\ UNCHANGED <<file, lock, mishaps>>

ReleaseOnSuccess(p) ==                    \* mutation: an error keeps the lock
    /\ At(p, "release") /\ Step(p, "returned")
    /\ lock' = IF proc[p].result = "ok" THEN None ELSE lock
    /\ UNCHANGED <<file, older, appended, mishaps>>
Release(p) ==
    /\ At(p, "release") /\ Step(p, "returned")
    /\ lock' = None
    /\ UNCHANGED <<file, older, appended, mishaps>>

-----------------------------------------------------------------------------
(* Mishaps *)

Mishap == mishaps < MaxMishaps /\ mishaps' = mishaps + 1

\* The system call a process is about to make under the lock fails.
Fault(p) ==
    /\ Mishap
    /\ proc[p].pc \in {"read", "write", "sync", "replace", "dirsync"} /\ Fail(p)
    /\ UNCHANGED <<file, older, lock, appended>>

\* The process dies; the kernel drops its lock.
Crash(p) ==
    /\ proc[p].pc \notin {"idle", "returned"} /\ Mishap
    /\ proc' = [proc EXCEPT ![p] = [Idle EXCEPT !.calls = proc[p].calls]]
    /\ lock' = IF lock = p THEN None ELSE lock
    /\ UNCHANGED <<file, older, appended>>

\* Power loss: the name shows one of the files it may have fallen back to, and
\* a file that was not synced shows any part of its lines.
Survivor(f) ==
    IF f.synced THEN {f}
    ELSE {[lines |-> SubSeq(f.lines, 1, n), synced |-> TRUE] : n \in 0 .. Len(f.lines)}
PowerLoss ==
    /\ Mishap
    /\ \E f \in older \cup {file} : file' \in Survivor(f)
    /\ older' = {} /\ lock' = None
    /\ proc' = [p \in Procs |-> [Idle EXCEPT !.calls = proc[p].calls]]
    /\ UNCHANGED appended

Running(p) == Lock(p) \/ ReadManifest(p) \/ Release(p)
Writing(w) == Check(w) \/ Write(w) \/ Sync(w) \/ Replace(w) \/ SyncDirectory(w)

Next ==
    \/ \E p \in Procs : Call(p) \/ Running(p) \/ Fault(p) \/ Crash(p)
    \/ \E w \in Writers : Writing(w)
    \/ PowerLoss

\* A process that has made its call is scheduled; calls and mishaps need not be.
Fairness == /\ \A p \in Procs : WF_vars(Running(p))
            /\ \A w \in Writers : WF_vars(Writing(w))

Spec == Init /\ [][Next]_vars /\ Fairness

-----------------------------------------------------------------------------
(* Properties *)

\* The manifest implements BatchLog: whatever processes interleave, fail, die or
\* lose power, it grows by whole batches, keeps the first form of a record, and
\* never loses what a call reported as appended.
Log == INSTANCE BatchLog WITH
    Batches <- {Records(BatchOf[w]) : w \in Writers},
    log     <- Records(file.lines),
    kept    <- appended
ImplementsBatchLog == Log!LogSpec

\* Nobody waits forever: a call that was made returns, unless its process dies,
\* however many of the calls before it failed or died inside the lock.
CallsReturn == \A p \in Procs : At(p, "waiting") ~> proc[p].pc \in {"returned", "idle"}

=============================================================================
