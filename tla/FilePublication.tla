--------------------------- MODULE FilePublication ---------------------------
(***************************************************************************)
(* Publication of one file under a fixed name, by two functions that write *)
(* a hidden file, sync it and give it the name:                            *)
(*                                                                         *)
(*    "trust"   _publish_trust of gate_e/trust.py: writes until all is     *)
(*              written, links the hidden file to the name, which must be  *)
(*              free, then unlinks it                                      *)
(*    "index"   publish_superseded_index of backtest/index.py: returns an  *)
(*              equal file that is there, else writes once, whatever       *)
(*              becomes of it, and renames over the name                   *)
(*                                                                         *)
(*    target   the file under the name, or NoFile: what it says, whose     *)
(*             hidden file it was, whether its content is on disk, and     *)
(*             whether it has its hidden name, too                         *)
(*    disk     what the directory on disk has under the name               *)
(*    temp     publisher -> its hidden file: "none", "open", "synced" or   *)
(*             "short", synced as well, but not all of it                  *)
(*    proc     the call each publisher is in                               *)
(*    cut      whether a file that is not all there was ever renamed       *)
(*    acked    the contents a call wrote, synced and returned for          *)
(* No lock is taken.  An index lists the same runs whoever publishes it,   *)
(* in the order its caller gives, one order here.                          *)
(***************************************************************************)
EXTENDS Callers

CONSTANTS Publishers, Contents

VARIABLES style, wants, target, disk, temp, proc, mishaps, acked, cut

fileVars == <<style, wants, target, disk, temp, proc, mishaps, acked, cut>>

NoFile == [content |-> "none"]
At(w, pc) == proc[w].pc = pc
Step(w, pc) == proc' = [proc EXCEPT ![w].pc = pc]
Finish(w, answer) ==
    proc' = [proc EXCEPT ![w] = [@ EXCEPT !.pc = "cleanup", !.result = answer]]

\* st_nlink of the file under the name, which every reader requires to be one.
Reads(w) == target # NoFile /\ ~target.linked /\ target.content = wants[w]

FileInit ==
    /\ style \in {"trust", "index"}
    /\ wants \in [Publishers -> Contents]
    /\ style = "index" => \A v, w \in Publishers : wants[v] = wants[w]
    /\ target = NoFile /\ disk = NoFile
    /\ temp = [w \in Publishers |-> "none"]
    /\ proc = [w \in Publishers |-> Idle]
    /\ mishaps = 0 /\ acked = {} /\ cut = FALSE

-----------------------------------------------------------------------------
(* One publication *)

\* The index is returned if it is there; nothing is synced for it.
Call(w) ==
    /\ proc[w].pc \in {"idle", "returned"} /\ proc[w].call < MaxCalls
    /\ \/ /\ style = "index" /\ target # NoFile
          /\ proc' = [proc EXCEPT ![w] = [pc |-> "returned", call |-> @.call + 1,
                                          result |-> IF Reads(w) THEN "there" ELSE "conflict"]]
       \/ /\ style = "trust" \/ target = NoFile
          /\ proc' = [proc EXCEPT ![w] = [pc |-> "create", call |-> @.call + 1,
                                          result |-> "none"]]
    /\ UNCHANGED <<style, wants, target, disk, temp, mishaps, acked, cut>>

\* O_CREAT | O_EXCL under a random name: an earlier hidden file is another one.
Create(w) ==
    /\ At(w, "create")
    /\ temp' = [temp EXCEPT ![w] = "open"] /\ Step(w, "write")
    /\ UNCHANGED <<style, wants, target, disk, mishaps, acked, cut>>

WriteUnsynced(w) ==                       \* mutation: no fsync of the file
    /\ At(w, "write") /\ Step(w, "publish")
    /\ UNCHANGED <<style, wants, target, disk, temp, mishaps, acked, cut>>
Write(w) ==
    /\ At(w, "write") /\ Step(w, "publish")
    /\ temp' = [temp EXCEPT ![w] = "synced"]
    /\ UNCHANGED <<style, wants, target, disk, mishaps, acked, cut>>

\* The file of that publisher; what is torn says nothing a reader accepts.
FileOf(w, linked) == [content |-> IF temp[w] = "short" THEN "torn" ELSE wants[w], by |-> w,
                     whole |-> temp[w] # "open", linked |-> linked]
RemoveHidden(w) ==
    /\ temp' = [temp EXCEPT ![w] = "none"]
    /\ target' = IF temp[w] # "none" /\ target # NoFile /\ target.by = w
                 THEN [target EXCEPT !.linked = FALSE] ELSE target

LinkOver(w) ==                            \* mutation: the link replaces
    /\ style = "trust" /\ At(w, "publish")
    /\ target' = FileOf(w, TRUE) /\ Step(w, "unlink")
    /\ UNCHANGED <<style, wants, disk, temp, mishaps, acked, cut>>
Link(w) ==
    /\ style = "trust" /\ At(w, "publish")
    /\ \/ target # NoFile /\ Finish(w, "conflict") /\ UNCHANGED <<target, disk>>
       \/ /\ target = NoFile
          /\ target' = FileOf(w, TRUE) /\ Step(w, "unlink")
    /\ UNCHANGED <<style, wants, disk, temp, mishaps, acked, cut>>
Unlink(w) ==
    /\ At(w, "unlink") /\ Step(w, "sync")
    /\ RemoveHidden(w)
    /\ UNCHANGED <<style, wants, disk, mishaps, acked, cut>>

Replace(w) ==
    /\ style = "index" /\ At(w, "publish")
    /\ target' = FileOf(w, FALSE) /\ Step(w, "sync")
    /\ temp' = [temp EXCEPT ![w] = "none"]
    /\ cut' = (cut \/ temp[w] = "short")
    /\ UNCHANGED <<style, wants, disk, mishaps, acked>>

Sync(w) ==
    /\ At(w, "sync") /\ Step(w, "check")
    /\ disk' = target
    /\ UNCHANGED <<style, wants, target, temp, mishaps, acked, cut>>

\* The file is read back under its name.
Check(w) ==
    /\ At(w, "check")
    /\ Finish(w, IF Reads(w) THEN "written" ELSE "failed")
    /\ UNCHANGED <<style, wants, target, disk, temp, mishaps, acked, cut>>

\* finally: the hidden file is unlinked, if it is still there.
Cleanup(w) ==
    /\ At(w, "cleanup") /\ Step(w, "returned")
    /\ RemoveHidden(w)
    /\ acked' = IF proc[w].result = "written" THEN acked \cup {wants[w]} ELSE acked
    /\ UNCHANGED <<style, wants, disk, mishaps, cut>>

-----------------------------------------------------------------------------
(* Mishaps *)

Mishap == mishaps < MaxMishaps /\ mishaps' = mishaps + 1

\* os.write of the index says how much it wrote, and is not asked.
WriteShort(w) ==
    /\ Mishap /\ style = "index" /\ At(w, "write") /\ Step(w, "publish")
    /\ temp' = [temp EXCEPT ![w] = "short"]
    /\ UNCHANGED <<style, wants, target, disk, acked, cut>>

Fault(w) ==
    /\ Mishap /\ proc[w].pc \in {"create", "write", "publish", "unlink", "sync", "check"}
    /\ Finish(w, "failed")
    /\ UNCHANGED <<style, wants, target, disk, temp, acked, cut>>

\* The hidden file of a call that died is nobody's, but still a link.
Crash(w) ==
    /\ Mishap /\ proc[w].pc \notin {"idle", "returned"}
    /\ proc' = [proc EXCEPT ![w] = [Idle EXCEPT !.call = proc[w].call]]
    /\ temp' = [temp EXCEPT ![w] = "none"]
    /\ UNCHANGED <<style, wants, target, disk, acked, cut>>

\* The name has what it has or what it had when last synced; a content that was
\* not synced is torn; a hidden name may be gone, or still there if its unlink
\* was not synced.
PowerLoss ==
    /\ Mishap
    /\ \E f \in {target, disk}, linked \in BOOLEAN :
          /\ linked => f # NoFile /\ (f.linked \/ (style = "trust" /\ disk # target))
          /\ target' = IF f = NoFile THEN NoFile
                       ELSE [f EXCEPT !.linked = linked,
                                      !.content = IF f.whole THEN f.content ELSE "torn"]
    /\ disk' = target'
    /\ temp' = [w \in Publishers |-> "none"]
    /\ proc' = [w \in Publishers |-> [Idle EXCEPT !.call = proc[w].call]]
    /\ UNCHANGED <<style, wants, acked, cut>>

FileNext ==
    \/ \E w \in Publishers :
        \/ Call(w) \/ Create(w) \/ Write(w) \/ Link(w) \/ Unlink(w) \/ Replace(w)
        \/ Sync(w) \/ Check(w) \/ Cleanup(w) \/ WriteShort(w) \/ Fault(w) \/ Crash(w)
    \/ PowerLoss

FileSpec == FileInit /\ [][FileNext]_fileVars

-----------------------------------------------------------------------------
(* Properties *)

\* Publishers that race, fail and die anywhere leave under the name nothing or
\* one whole content, which no other ever replaces, and which stays, whatever
\* happens next, once a call that wrote it has returned.  Of the trust manifest
\* this holds without exception; of the index until one that is not all there
\* is renamed, which may replace a whole one another call has reported.
Store == INSTANCE ContentStore WITH
    stored <- IF target = NoFile THEN {} ELSE {target.content}
FilesAreContentStore ==
    Store!StoreInit /\ [][Store!StoreNext \/ (style = "index" /\ cut')]_(Store!storeVars)

\* What the design asks of the index, "atomic index publishing": at every moment
\* there is none, or one that lists the runs it was published for.
IndexIsPublishedAtomically ==
    style = "index" /\ target # NoFile => \E w \in Publishers : target.content = wants[w]

=============================================================================
