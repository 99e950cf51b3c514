---------------------------- MODULE CalendarStore ---------------------------
(***************************************************************************)
(* CalendarSnapshotStore (src/aquant/data/calendar_snapshot.py): calendars *)
(* stored by content beside a manifest of their records.  One file lock    *)
(* covers a whole write: read the manifest; a calendar recorded already is *)
(* verified and returned; otherwise its file is linked into place, the     *)
(* temporary name removed, the file verified and its record appended to    *)
(* the manifest in place, line by line.  Readers take no lock.             *)
(*                                                                         *)
(*    calNames    calendar -> the names its published file has: "target"   *)
(*                and the temporary names of the calls that linked it      *)
(*    calLines    the complete lines of the manifest                       *)
(*    calTail     what follows them: "" nothing; "part" a part of a line;  *)
(*                "open" a whole record without its newline; "bad" two     *)
(*                records run together                                     *)
(*    calLock     the process holding the lock, or None                    *)
(*    calProc     the call each process is in                              *)
(*    calMishaps  faults and crashes so far (MaxMishaps)                   *)
(* Power losses are left out.                                              *)
(***************************************************************************)
EXTENDS Callers, Sequences, FiniteSets

CONSTANTS
    CalendarWriters,
    Calendars,
    CalendarOf        \* writer -> the calendar it writes

VARIABLES calNames, calLines, calTail, calLock, calProc, calMishaps

calendarVars == <<calNames, calLines, calTail, calLock, calProc, calMishaps>>

CalendarTemp(w) == <<"temp", w, calProc[w].call>>
CalendarPublished(c) == "target" \in {n[1] : n \in calNames[c]}
MyNames(w) == calNames[CalendarOf[w]]

CalendarAt(w, pc) == calProc[w].pc = pc
CalendarStep(w, pc) == calProc' = [calProc EXCEPT ![w].pc = pc]
Fail(w) == calProc' = [calProc EXCEPT ![w].pc = "release", ![w].result = "failed"]
Succeed(w) == calProc' = [calProc EXCEPT ![w].pc = "release", ![w].result = "ok"]

\* _read_manifest_from: every line has to parse; a record whose newline is
\* missing still reads as a record.
CalendarsReadable == calTail \in {"", "open"}
CalendarsRecorded == {calLines[i] : i \in DOMAIN calLines}

\* _verify_file: there, with one name.
CalendarVerifies(c) == CalendarPublished(c) /\ Cardinality(calNames[c]) = 1

CalendarInit ==
    /\ calNames = [c \in Calendars |-> {}]
    /\ calLines = <<>> /\ calTail = ""
    /\ calLock = None
    /\ calProc = [w \in CalendarWriters |-> Idle]
    /\ calMishaps = 0

-----------------------------------------------------------------------------
(* write *)

WriteCalendar(w) ==
    /\ calProc[w].pc \in {"idle", "returned"} /\ calProc[w].call < MaxCalls
    /\ calProc' = [calProc EXCEPT ![w] = [pc |-> "waiting", call |-> @.call + 1,
                                         result |-> "none"]]
    /\ UNCHANGED <<calNames, calLines, calTail, calLock, calMishaps>>

LockCalendars(w) ==
    /\ CalendarAt(w, "waiting") /\ calLock = None
    /\ calLock' = w /\ CalendarStep(w, "read")
    /\ UNCHANGED <<calNames, calLines, calTail, calMishaps>>

\* The manifest decides between returning the first record and publishing.
ReadCalendars(w) ==
    /\ CalendarAt(w, "read")
    /\ \/ ~CalendarsReadable /\ Fail(w)
       \/ /\ CalendarsReadable /\ CalendarOf[w] \in CalendarsRecorded
          /\ IF /\ CalendarVerifies(CalendarOf[w])
                /\ Cardinality({i \in DOMAIN calLines : calLines[i] = CalendarOf[w]}) = 1
             THEN Succeed(w) ELSE Fail(w)
       \/ CalendarsReadable /\ CalendarOf[w] \notin CalendarsRecorded /\ CalendarStep(w, "link")
    /\ UNCHANGED <<calNames, calLines, calTail, calLock, calMishaps>>

\* _publish_file: link the synced temporary file; a name that is taken stays.
LinkCalendar(w) ==
    /\ CalendarAt(w, "link") /\ CalendarStep(w, "unlink")
    /\ calNames' = IF CalendarPublished(CalendarOf[w]) THEN calNames
                ELSE [calNames EXCEPT ![CalendarOf[w]] = {<<"target">>, CalendarTemp(w)}]
    /\ UNCHANGED <<calLines, calTail, calLock, calMishaps>>

UnlinkCalendar(w) ==
    /\ CalendarAt(w, "unlink") /\ CalendarStep(w, "verify")
    /\ calNames' = [calNames EXCEPT ![CalendarOf[w]] = @ \ {CalendarTemp(w)}]
    /\ UNCHANGED <<calLines, calTail, calLock, calMishaps>>

\* A name an earlier call left behind is not removed: it fails the write.
VerifyContentOnly(w) ==                   \* mutation: does not count the names
    /\ CalendarAt(w, "verify") /\ CalendarStep(w, "append")
    /\ UNCHANGED <<calNames, calLines, calTail, calLock, calMishaps>>
VerifyPublished(w) ==
    /\ CalendarAt(w, "verify")
    /\ IF CalendarVerifies(CalendarOf[w]) THEN CalendarStep(w, "append") ELSE Fail(w)
    /\ UNCHANGED <<calNames, calLines, calTail, calLock, calMishaps>>

\* _append_manifest: the line reaches the file in one write or in several; what
\* it is appended to may lack its newline.
Append1(w) ==
    /\ CalendarAt(w, "append")
    /\ \/ calTail = "" /\ calTail' = "part" /\ UNCHANGED calLines
       \/ calTail = "open" /\ calTail' = "bad"
          /\ calLines' = SubSeq(calLines, 1, Len(calLines) - 1)
    /\ CalendarStep(w, "part")
    /\ UNCHANGED <<calNames, calLock, calMishaps>>
Append2(w) ==
    /\ CalendarAt(w, "part")
    /\ \/ calTail = "part" /\ calTail' = "open" /\ calLines' = Append(calLines, CalendarOf[w])
       \/ calTail = "bad" /\ UNCHANGED <<calTail, calLines>>
    /\ CalendarStep(w, "open")
    /\ UNCHANGED <<calNames, calLock, calMishaps>>
Append3(w) ==
    /\ CalendarAt(w, "open")
    /\ calTail' = IF calTail = "open" THEN "" ELSE calTail
    /\ Succeed(w)
    /\ UNCHANGED <<calNames, calLines, calLock, calMishaps>>

Release(w) ==
    /\ CalendarAt(w, "release") /\ CalendarStep(w, "returned")
    /\ calLock' = None
    /\ UNCHANGED <<calNames, calLines, calTail, calMishaps>>

-----------------------------------------------------------------------------
(* Mishaps *)

CalendarMishap == calMishaps < MaxMishaps /\ calMishaps' = calMishaps + 1

\* A system call fails; the cleanup removes the temporary name if it can.
CalendarFault(w) ==
    /\ calProc[w].pc \in {"read", "link", "unlink", "verify", "append", "part", "open"}
    /\ CalendarMishap /\ Fail(w)
    /\ \/ UNCHANGED calNames
       \/ CalendarAt(w, "unlink")
          /\ calNames' = [calNames EXCEPT ![CalendarOf[w]] = @ \ {CalendarTemp(w)}]
    /\ UNCHANGED <<calLines, calTail, calLock>>

CalendarCrash(w) ==
    /\ calProc[w].pc \notin {"idle", "returned"} /\ CalendarMishap
    /\ calProc' = [calProc EXCEPT ![w] = [Idle EXCEPT !.call = calProc[w].call]]
    /\ calLock' = IF calLock = w THEN None ELSE calLock
    /\ UNCHANGED <<calNames, calLines, calTail>>

CalendarNext ==
    \E w \in CalendarWriters :
        \/ WriteCalendar(w) \/ LockCalendars(w) \/ ReadCalendars(w) \/ LinkCalendar(w)
        \/ UnlinkCalendar(w)
        \/ VerifyPublished(w) \/ Append1(w) \/ Append2(w) \/ Append3(w) \/ Release(w)
        \/ CalendarFault(w) \/ CalendarCrash(w)

CalendarSpec == CalendarInit /\ [][CalendarNext]_calendarVars

-----------------------------------------------------------------------------
(* Properties *)

CalendarTypeOK ==
    /\ DOMAIN calNames = Calendars
    /\ CalendarsRecorded \subseteq Calendars /\ calTail \in {"", "part", "open", "bad"}
    /\ calLock \in CalendarWriters \cup {None}
    /\ \A w \in CalendarWriters : calProc[w].call \in 0 .. MaxCalls
    /\ calMishaps \in 0 .. MaxMishaps

\* load_verified_calendar takes no lock.  Whatever writers are doing and wherever
\* they died, a calendar the manifest shows has its file in place under its one
\* name and is recorded there once, so loading it succeeds: concurrent and
\* retried writes of one calendar leave one record, the first.
RecordedCalendarsLoad ==
    /\ CalendarTypeOK
    /\ \A c \in CalendarsRecorded : CalendarVerifies(c)
    /\ \A i, j \in DOMAIN calLines : calLines[i] = calLines[j] => i = j

\* The claim that every file of the calendar store is published atomically:
\* when no write is under way, the manifest is made of whole records.
ManifestPublishedAtomically == calLock = None => calTail \in {"", "open"}

=============================================================================
