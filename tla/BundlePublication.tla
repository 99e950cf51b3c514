-------------------------- MODULE BundlePublication -------------------------
(***************************************************************************)
(* Publication of a bundle, a directory of files named for the run it      *)
(* holds.  Five functions share one protocol: under a lock of the run, a   *)
(* bundle that is there is compared with what would be written; else the   *)
(* files are written and synced in a hidden directory, which is renamed    *)
(* into place.  They differ in what else they sync and clean up:           *)
(*                                                                         *)
(*    "portfolio"   portfolio/export.py: syncs the directory before and    *)
(*                  the root after the rename, does not replace, compares  *)
(*                  the result, empties its directory after a failure      *)
(*    "backtest"    backtest/export.py: the same syncs, looks again before *)
(*                  the rename, removes its directory                      *)
(*    "report"      reporting/risk_report.py, research/report.py and       *)
(*                  research/week5.py: sync the files only                 *)
(*                                                                         *)
(*    exporter      which of the functions it is                           *)
(*    bundle        the bundle under its name, or Absent                   *)
(*    safe          a power loss leaves that name                          *)
(*    hidden        process -> the hidden directory of its call, or Absent *)
(*    runLock       the process holding the lock of the run, or None       *)
(*    export        the call each process is in                            *)
(*    accidents     faults, crashes and power losses so far (MaxMishaps)   *)
(*    powerLost     one of them was a power loss                           *)
(*    acknowledged  {"bundle"} once a call that published and synced       *)
(*                  returned                                               *)
(* A directory records the files it lists, those of them with their        *)
(* content on disk and those whose entry is on disk.                       *)
(***************************************************************************)
EXTENDS Callers

CONSTANTS
    Exporters,
    Files,            \* the files of the bundle
    Absent            \* no directory

VARIABLES exporter, bundle, safe, hidden, runLock, export, accidents, powerLost, acknowledged

bundleVars == <<exporter, bundle, safe, hidden, runLock, export, accidents, powerLost,
                acknowledged>>
storage == <<bundle, safe, hidden>>
history == <<accidents, powerLost, acknowledged>>

Styles == {"portfolio", "backtest", "report"}
Syncs == exporter # "report"

EmptyDirectory == [listed |-> {}, written |-> {}, kept |-> {}]
\* _verify_existing_bundle: exactly the expected files with the expected bytes.
Matches(d) == d.listed = Files /\ d.written = Files

ExportAt(w, pc) == export[w].pc = pc
ExportStep(w, pc) == export' = [export EXCEPT ![w].pc = pc]
FinishExport(w, result) == export' = [export EXCEPT ![w].pc = "cleanup", ![w].result = result]
\* What is found under the name decides: the same bundle, or a conflict.
Compare(w) == FinishExport(w, IF Matches(bundle) THEN "reused" ELSE "failed")

BundleInit ==
    /\ exporter \in Styles
    /\ bundle = Absent /\ safe = FALSE
    /\ hidden = [w \in Exporters |-> Absent]
    /\ runLock = None
    /\ export = [w \in Exporters |-> Idle]
    /\ accidents = 0 /\ powerLost = FALSE /\ acknowledged = {}

-----------------------------------------------------------------------------
(* One publication *)

Export(w) ==
    /\ export[w].pc \in {"idle", "returned"} /\ export[w].call < MaxCalls
    /\ export' = [export EXCEPT ![w] = [pc |-> "lock", call |-> @.call + 1,
                                       result |-> "none"]]
    /\ hidden' = [hidden EXCEPT ![w] = Absent]
    /\ UNCHANGED <<exporter, bundle, safe, runLock, history>>

LockRunShared(w) ==                       \* mutation: a shared lock
    /\ ExportAt(w, "lock") /\ ExportStep(w, "look") /\ runLock' = w
    /\ UNCHANGED <<exporter, storage, history>>
LockRun(w) ==
    /\ ExportAt(w, "lock") /\ runLock = None
    /\ ExportStep(w, "look") /\ runLock' = w
    /\ UNCHANGED <<exporter, storage, history>>

\* A bundle that matches is returned as it is; nothing is synced for it.
LookForBundle(w) ==
    /\ ExportAt(w, "look")
    /\ \/ bundle # Absent /\ Compare(w) /\ UNCHANGED hidden
       \/ /\ bundle = Absent /\ ExportStep(w, "write")
          /\ hidden' = [hidden EXCEPT ![w] = EmptyDirectory]
    /\ UNCHANGED <<exporter, bundle, safe, runLock, history>>

\* _write_bundle: one file, exclusively created, written and synced.
WriteFile(w, f) ==
    /\ ExportAt(w, "write") /\ f \notin hidden[w].listed
    /\ hidden' = [hidden EXCEPT ![w].listed = @ \cup {f}, ![w].written = @ \cup {f}]
    /\ UNCHANGED <<exporter, bundle, safe, runLock, export, history>>

SealUnsynced(w) ==                        \* mutation: does not sync the directory
    /\ ExportAt(w, "write") /\ hidden[w].listed = Files
    /\ ExportStep(w, "publish")
    /\ UNCHANGED <<exporter, storage, runLock, history>>
Seal(w) ==
    /\ ExportAt(w, "write") /\ hidden[w].listed = Files
    /\ ExportStep(w, "publish")
    /\ hidden' = IF Syncs THEN [hidden EXCEPT ![w].kept = Files] ELSE hidden
    /\ UNCHANGED <<exporter, bundle, safe, runLock, history>>

\* The rename.  A name taken meanwhile is compared, if the second look of
\* "backtest" or the exclusive rename of "portfolio" sees it; else an error.
Publish(w) ==
    /\ ExportAt(w, "publish")
    /\ \/ /\ bundle = Absent
          /\ bundle' = hidden[w] /\ safe' = FALSE
          /\ hidden' = [hidden EXCEPT ![w] = Absent]
          /\ IF Syncs THEN ExportStep(w, "root") ELSE FinishExport(w, "published")
       \/ /\ bundle # Absent
          /\ \/ exporter # "report" /\ Compare(w)
             \/ exporter # "portfolio" /\ FinishExport(w, "failed")
          /\ UNCHANGED storage
    /\ UNCHANGED <<exporter, runLock, history>>

SyncRootLate(w) ==                        \* mutation: leaves the sync to the kernel
    /\ ExportAt(w, "root")
    /\ FinishExport(w, "synced")
    /\ UNCHANGED <<exporter, storage, runLock, history>>
SyncRoot(w) ==
    /\ ExportAt(w, "root")
    /\ safe' = TRUE
    /\ FinishExport(w, IF exporter = "portfolio" /\ ~Matches(bundle)
                       THEN "failed" ELSE "synced")
    /\ UNCHANGED <<exporter, bundle, hidden, runLock, history>>

\* finally: _remove_owned_temporary or rmtree, then the lock.
CleanupOnSuccess(w) ==                    \* mutation: not in a finally
    /\ ExportAt(w, "cleanup") /\ ExportStep(w, "returned")
    /\ runLock' = None
    /\ acknowledged' = IF export[w].result = "synced" THEN {"bundle"} ELSE acknowledged
    /\ UNCHANGED <<exporter, storage, accidents, powerLost>>
CleanupExport(w) ==
    /\ ExportAt(w, "cleanup") /\ ExportStep(w, "returned")
    /\ hidden' = [hidden EXCEPT ![w] = IF @ # Absent /\ exporter = "portfolio"
                                   THEN EmptyDirectory ELSE Absent]
    /\ runLock' = None
    /\ acknowledged' = IF export[w].result = "synced" THEN {"bundle"} ELSE acknowledged
    /\ UNCHANGED <<exporter, bundle, safe, accidents, powerLost>>

-----------------------------------------------------------------------------
(* Mishaps *)

ExportMishap == accidents < MaxMishaps /\ accidents' = accidents + 1

\* A system call fails; in the cleanup only the removal does, the lock goes.
\* A write that fails may leave its file in the hidden directory.
ExportFault(w) ==
    /\ ExportMishap
    /\ \/ export[w].pc \in {"look", "publish", "root"} /\ FinishExport(w, "failed")
          /\ UNCHANGED <<hidden, runLock>>
       \/ ExportAt(w, "write") /\ FinishExport(w, "failed") /\ UNCHANGED runLock
          /\ \E f \in Files : hidden' = [hidden EXCEPT ![w].listed = @ \cup {f}]
       \/ /\ ExportAt(w, "cleanup") /\ hidden[w] # Absent
          /\ export' = [export EXCEPT ![w].pc = "returned", ![w].result = "failed"]
          /\ runLock' = None /\ UNCHANGED hidden
    /\ UNCHANGED <<exporter, bundle, safe, powerLost, acknowledged>>

ExportCrash(w) ==
    /\ export[w].pc \notin {"idle", "returned"} /\ ExportMishap
    /\ export' = [export EXCEPT ![w] = [Idle EXCEPT !.call = export[w].call]]
    /\ runLock' = IF runLock = w THEN None ELSE runLock
    /\ UNCHANGED <<exporter, storage, powerLost, acknowledged>>

\* A rename not synced may be undone, an entry not synced gone.
BundlePowerLoss ==
    /\ ExportMishap /\ powerLost' = TRUE
    /\ \/ ~safe /\ bundle' = Absent /\ safe' = FALSE
       \/ /\ bundle # Absent /\ safe' = TRUE
          /\ \E left \in SUBSET bundle.listed :
                /\ bundle.kept \subseteq left
                /\ bundle' = [listed |-> left, kept |-> left,
                              written |-> left \cap bundle.written]
    /\ hidden' = [w \in Exporters |-> Absent]
    /\ export' = [w \in Exporters |-> [Idle EXCEPT !.call = export[w].call]]
    /\ runLock' = None
    /\ UNCHANGED <<exporter, acknowledged>>

BundleNext ==
    \/ \E w \in Exporters :
        \/ Export(w) \/ LockRun(w) \/ LookForBundle(w) \/ (\E f \in Files : WriteFile(w, f))
        \/ Seal(w) \/ Publish(w) \/ SyncRoot(w) \/ CleanupExport(w) \/ ExportFault(w) \/ ExportCrash(w)
    \/ BundlePowerLoss

BundleSpec == BundleInit /\ [][BundleNext]_bundleVars

-----------------------------------------------------------------------------
(* Properties *)

Directories == [listed : SUBSET Files, written : SUBSET Files, kept : SUBSET Files]
BundleTypeOK ==
    /\ exporter \in Styles
    /\ bundle \in Directories \cup {Absent} /\ safe \in BOOLEAN
    /\ hidden \in [Exporters -> Directories \cup {Absent}]
    /\ runLock \in Exporters \cup {None}
    /\ accidents \in 0 .. MaxMishaps /\ powerLost \in BOOLEAN

\* Whoever looks, holding the lock or not, finds the bundle whole or not at all,
\* whichever call failed or died where.  Only the report publishers, which sync
\* no directory, may have theirs torn, and only by a power loss.
BundlesShownWhole ==
    /\ BundleTypeOK
    /\ bundle # Absent => Matches(bundle) \/ (powerLost /\ ~Syncs)

\* Publishing implements ContentStore: a bundle that a call published, synced
\* and returned for is there, whole, whatever happens afterwards.  Calls that
\* found the bundle, and the report publishers, promise nothing of the kind.
BundleStore == INSTANCE ContentStore WITH
    Contents <- {"bundle"}, acked <- acknowledged,
    stored   <- {c \in {"bundle"} : bundle # Absent /\ Matches(bundle)}
BundlesAreContentStore == BundleStore!StoreSpec

\* Publishers of one bundle never make each other fail: without a mishap every
\* call returns the bundle.  And one mishap leaves no file in a hidden directory
\* of a call that came back.
FailuresAreContained ==
    \A w \in Exporters :
        /\ export[w].result = "failed" => accidents > 0
        /\ ExportAt(w, "returned") /\ accidents < 2 => hidden[w] \in {Absent, EmptyDirectory}

=============================================================================
