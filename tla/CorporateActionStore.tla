------------------------ MODULE CorporateActionStore ------------------------
(***************************************************************************)
(* Publication of corporate actions (data/corporate_actions.py) and the    *)
(* ingestion that calls it (data/corporate_action_ingestion.py).  A bundle *)
(* is a file named for its events; a record says which bundle covers which *)
(* days.  Publishing links the bundle into place without a lock, or takes  *)
(* the one it finds, then appends the record to the manifest under a lock. *)
(* The ingestion then loads the bundle back.  A longer coverage with no    *)
(* new events is a new record of an old bundle.                            *)
(*                                                                         *)
(*    actNames    bundle -> the names of its file: "target", temporary     *)
(*                names                                                    *)
(*    actDisk     bundle -> the names a power loss is sure to leave        *)
(*    actLines, actTail   the manifest, as in CalendarStore                *)
(*    actSynced   the manifest a power loss is sure to leave               *)
(*    actLock     the process holding the manifest lock, or None           *)
(*    actProc     the call each process is in                              *)
(*    actMishaps  faults, crashes, short writes, power losses (MaxMishaps) *)
(*    actAcked    records whose publication appended them and returned     *)
(*    actHasty    bundles a call took as published while not yet on disk   *)
(***************************************************************************)
EXTENDS Callers, Sequences, FiniteSets

CONSTANTS
    ActionWriters,
    ActionBundles,
    RecordOf          \* writer -> call -> the record [bundle, until] it publishes

VARIABLES
    actNames, actDisk, actLines, actTail, actSynced, actLock, actProc, actMishaps, actAcked,
    actHasty

actionFiles == <<actNames, actDisk, actHasty>>
actionManifest == <<actLines, actTail, actSynced>>
actionVars == <<actNames, actDisk, actLines, actTail, actSynced, actLock, actProc, actMishaps,
                actAcked, actHasty>>

ActionTemp(w) == <<"temp", w, actProc[w].call>>
ActionsPublished(b) == <<"target">> \in actNames[b]
Mine(w) == RecordOf[w][actProc[w].call]
ActionsRecorded == {actLines[i] : i \in DOMAIN actLines}

ActionAt(w, pc) == actProc[w].pc = pc
ActionStep(w, pc) == actProc' = [actProc EXCEPT ![w].pc = pc]
FinishAction(w, pc, result) == actProc' = [actProc EXCEPT ![w].pc = pc, ![w].result = result]

\* read_corporate_action_manifest: every line parses, no record appears twice.
ActionsReadable ==
    /\ actTail \in {"", "open"}
    /\ \A i, j \in DOMAIN actLines : actLines[i] = actLines[j] => i = j

\* CorporateActionSnapshotStore.verify: there, with one name.
ActionsVerify(b) == actNames[b] = {<<"target">>}

ActionInit ==
    /\ actNames = [b \in ActionBundles |-> {}] /\ actDisk = actNames
    /\ actLines = <<>> /\ actTail = "" /\ actSynced = <<actLines, actTail>>
    /\ actLock = None
    /\ actProc = [w \in ActionWriters |-> Idle]
    /\ actMishaps = 0 /\ actAcked = {} /\ actHasty = {}

-----------------------------------------------------------------------------
(* CorporateActionSnapshotStore.write *)

WriteActions(w) ==
    /\ actProc[w].pc \in {"idle", "returned"} /\ actProc[w].call < MaxCalls
    /\ actProc' = [actProc EXCEPT ![w] = [pc |-> "look", call |-> @.call + 1,
                                         result |-> "none"]]
    /\ UNCHANGED <<actionFiles, actionManifest, actLock, actMishaps, actAcked>>

\* A bundle under its name is taken as it is: the bytes are compared, the
\* number of its names is not, and nothing is synced.
LookForActions(w) ==
    /\ ActionAt(w, "look")
    /\ IF ActionsPublished(Mine(w).bundle)
       THEN /\ ActionStep(w, "lock")
            /\ actHasty' = IF <<"target">> \in actDisk[Mine(w).bundle] THEN actHasty
                        ELSE actHasty \cup {Mine(w).bundle}
       ELSE ActionStep(w, "link") /\ UNCHANGED actHasty
    /\ UNCHANGED <<actNames, actDisk, actionManifest, actLock, actMishaps, actAcked>>

\* The synced temporary file gets the bundle's name, unless another was faster.
LinkActions(w) ==
    /\ ActionAt(w, "link") /\ ActionStep(w, "sync")
    /\ actNames' = IF ActionsPublished(Mine(w).bundle) THEN actNames
                ELSE [actNames EXCEPT ![Mine(w).bundle] = @ \cup {<<"target">>, ActionTemp(w)}]
    /\ UNCHANGED <<actDisk, actHasty, actionManifest, actLock, actMishaps, actAcked>>

SyncDirectoryLate(w) ==                   \* mutation: leaves the sync to the kernel
    /\ ActionAt(w, "sync") /\ ActionStep(w, "unlink")
    /\ UNCHANGED <<actionFiles, actionManifest, actLock, actMishaps, actAcked>>
SyncDirectory(w) ==
    /\ ActionAt(w, "sync") /\ ActionStep(w, "unlink")
    /\ actDisk' = actNames
    /\ UNCHANGED <<actNames, actHasty, actionManifest, actLock, actMishaps, actAcked>>

\* The temporary name goes after the sync: a power loss may bring it back.
UnlinkActions(w) ==
    /\ ActionAt(w, "unlink") /\ ActionStep(w, "lock")
    /\ actNames' = [actNames EXCEPT ![Mine(w).bundle] = @ \ {ActionTemp(w)}]
    /\ UNCHANGED <<actDisk, actHasty, actionManifest, actLock, actMishaps, actAcked>>

-----------------------------------------------------------------------------
(* CorporateActionManifestWriter.append *)

LockActions(w) ==
    /\ ActionAt(w, "lock") /\ actLock = None
    /\ actLock' = w /\ ActionStep(w, "read")
    /\ UNCHANGED <<actionFiles, actionManifest, actMishaps, actAcked>>

ReadManifest(w) ==
    /\ ActionAt(w, "read")
    /\ \/ ~ActionsReadable /\ FinishAction(w, "release", "failed")
       \/ ActionsReadable /\ Mine(w) \in ActionsRecorded /\ FinishAction(w, "release", "found")
       \/ ActionsReadable /\ Mine(w) \notin ActionsRecorded /\ ActionStep(w, "append")
    /\ UNCHANGED <<actionFiles, actionManifest, actLock, actMishaps, actAcked>>

\* What the manifest holds after the bytes of a record: all of them, all but
\* the newline, or less.  A tail without newline runs into the new line.
Appended(r, left) ==
    IF actTail = "open" THEN /\ actTail' = "bad"
                          /\ actLines' = SubSeq(actLines, 1, Len(actLines) - 1)
    ELSE /\ actTail' = left
         /\ actLines' = IF left = "part" THEN actLines ELSE Append(actLines, r)

AppendLine(w) ==
    /\ ActionAt(w, "append") /\ ActionStep(w, "flush")
    /\ Appended(Mine(w), "")
    /\ UNCHANGED <<actionFiles, actSynced, actLock, actMishaps, actAcked>>

\* One os.write, whose count is not looked at: a full disk may cut it short.
ShortWrite(w) ==
    /\ ActionAt(w, "append") /\ ActionStep(w, "flush")
    /\ actMishaps < MaxMishaps /\ actMishaps' = actMishaps + 1
    /\ \E left \in {"part", "open"} : Appended(Mine(w), left)
    /\ UNCHANGED <<actionFiles, actSynced, actLock, actAcked>>

FlushNothing(w) ==                        \* mutation: answers before the fsync
    /\ ActionAt(w, "flush") /\ FinishAction(w, "release", "appended")
    /\ UNCHANGED <<actionFiles, actionManifest, actLock, actMishaps, actAcked>>
FlushManifest(w) ==
    /\ ActionAt(w, "flush") /\ FinishAction(w, "release", "appended")
    /\ actSynced' = <<actLines, actTail>>
    /\ UNCHANGED <<actionFiles, actLines, actTail, actLock, actMishaps, actAcked>>

ReleaseLock(w) ==
    /\ ActionAt(w, "release")
    /\ actLock' = None
    /\ IF actProc[w].result = "failed" THEN ActionStep(w, "returned") ELSE ActionStep(w, "load")
    /\ actAcked' = IF actProc[w].result = "appended" THEN actAcked \cup {Mine(w)}
                   ELSE actAcked
    /\ UNCHANGED <<actionFiles, actionManifest, actMishaps>>

\* run_corporate_action_ingestion: load_verified_corporate_actions of the record.
LoadBack(w) ==
    /\ ActionAt(w, "load")
    /\ FinishAction(w, "returned", IF ActionsVerify(Mine(w).bundle) THEN "ok" ELSE "unloadable")
    /\ UNCHANGED <<actionFiles, actionManifest, actLock, actMishaps, actAcked>>

-----------------------------------------------------------------------------
(* Mishaps *)

ActionMishap == actMishaps < MaxMishaps /\ actMishaps' = actMishaps + 1

\* A system call fails.  write removes its temporary name unless that is what
\* failed; append leaves the lock either way.
ActionFault(w) ==
    /\ ActionMishap
    /\ \/ /\ actProc[w].pc \in {"link", "sync", "unlink"} /\ FinishAction(w, "returned", "failed")
          /\ actNames' = IF ActionAt(w, "unlink") THEN actNames
                      ELSE [actNames EXCEPT ![Mine(w).bundle] = @ \ {ActionTemp(w)}]
       \/ /\ actProc[w].pc \in {"read", "append", "flush"} /\ FinishAction(w, "release", "failed")
          /\ UNCHANGED actNames
    /\ UNCHANGED <<actDisk, actHasty, actionManifest, actLock, actAcked>>

ActionCrash(w) ==
    /\ actProc[w].pc \notin {"idle", "returned"} /\ ActionMishap
    /\ actProc' = [actProc EXCEPT ![w] = [Idle EXCEPT !.call = actProc[w].call]]
    /\ actLock' = IF actLock = w THEN None ELSE actLock
    /\ UNCHANGED <<actionFiles, actionManifest, actAcked>>

\* Every process dies; a name changed since the last sync of the directory may
\* have either state, a line not synced may be gone or torn.
ActionPowerLoss ==
    /\ ActionMishap
    /\ \E kept \in [ActionBundles ->
                      SUBSET (UNION {actNames[b] \cup actDisk[b] : b \in ActionBundles})] :
          /\ \A b \in ActionBundles : /\ actNames[b] \cap actDisk[b] \subseteq kept[b]
                                /\ kept[b] \subseteq actNames[b] \cup actDisk[b]
          /\ actNames' = kept /\ actDisk' = kept
    /\ \/ UNCHANGED <<actLines, actTail>>
       \/ actLines' = actSynced[1] /\ actTail' = actSynced[2]
       \/ /\ actLines' = actSynced[1] /\ actTail' = "part"
          /\ actSynced[2] = "" /\ actSynced # <<actLines, actTail>>
    /\ actSynced' = <<actLines', actTail'>>
    /\ actProc' = [w \in ActionWriters |-> [Idle EXCEPT !.call = actProc[w].call]]
    /\ actLock' = None
    /\ UNCHANGED <<actAcked, actHasty>>

ActionNext ==
    \/ \E w \in ActionWriters :
        \/ WriteActions(w) \/ LookForActions(w) \/ LinkActions(w) \/ SyncDirectory(w)
        \/ UnlinkActions(w) \/ LockActions(w) \/ ReadManifest(w) \/ AppendLine(w)
        \/ ShortWrite(w) \/ FlushManifest(w) \/ ReleaseLock(w) \/ LoadBack(w) \/ ActionFault(w) \/ ActionCrash(w)
    \/ ActionPowerLoss

ActionSpec == ActionInit /\ [][ActionNext]_actionVars

-----------------------------------------------------------------------------
(* Properties *)

ActionTypeOK ==
    /\ DOMAIN actNames = ActionBundles /\ DOMAIN actDisk = ActionBundles
    /\ \A r \in ActionsRecorded : r.bundle \in ActionBundles
    /\ actTail \in {"", "part", "open", "bad"}
    /\ actLock \in ActionWriters \cup {None}
    /\ actMishaps \in 0 .. MaxMishaps /\ actHasty \subseteq ActionBundles

\* A record is appended only behind its bundle.  So whatever was interrupted, a
\* recorded bundle has its file, unless a power loss hit a bundle that one
\* call took as published before the call that linked it had synced the
\* directory.  And as long as nothing went wrong, it also loads, except while
\* the call that linked it is about to remove its temporary name.
RecordsHaveFiles ==
    \A r \in ActionsRecorded :
        /\ ActionsPublished(r.bundle) \/ r.bundle \in actHasty
        /\ actMishaps = 0 => \/ ActionsVerify(r.bundle)
                          \/ \E w \in ActionWriters : /\ actProc[w].pc \in {"sync", "unlink"}
                                                /\ ActionTemp(w) \in actNames[r.bundle]

\* The manifest never forgets in silence: a record whose append was reported is
\* there for every reader, or every reader and writer is refused.  A short
\* write, a crash and a power loss can cost the manifest, not one record of it.
ReportedOrRefused == \A r \in actAcked : r \in ActionsRecorded \/ ~ActionsReadable

RecordedActionsLoad == ActionTypeOK /\ RecordsHaveFiles /\ ReportedOrRefused

=============================================================================
