---------------------------- MODULE SnapshotStore ---------------------------
(***************************************************************************)
(* RawSnapshotStore (src/aquant/data/snapshot.py) on a POSIX file system:  *)
(* processes that write and verify snapshots in one directory, one system  *)
(* call at a time.  A writer fills a temporary file of its own, makes it   *)
(* durable and read-only, and publishes it by a hard link under the name   *)
(* of its content; a writer that finds the name taken verifies what is     *)
(* there, which may first have to remove the temporary names other writers *)
(* left on the same inode.                                                 *)
(*                                                                         *)
(*    dir      what the directory shows: name -> inode                     *)
(*    disk     what of it a power loss is sure to leave                    *)
(*    data     inode -> the content written so far, and whether it is on   *)
(*             disk; an inode is named for the temporary file it began as  *)
(*    proc     the call each process is in                                 *)
(*    accepted the contents some write has returned successfully for       *)
(*    mishaps  faults, crashes and power losses so far (MaxMishaps)        *)
(*    faulted  some system call failed                                     *)
(* The directory itself is on disk from the start: the mkdirs above it are *)
(* never synced, which is outside this module.                             *)
(***************************************************************************)
EXTENDS Naturals, FiniteSets

CONSTANTS
    Writers, Readers,
    Contents,
    ContentOf,        \* the content each process writes or verifies
    MaxCalls,         \* bound: calls each process makes
    MaxMishaps        \* bound: faults, crashes and power losses

Procs == Writers \cup Readers

ASSUME SnapshotAssumption ==
    /\ Writers \cap Readers = {}
    /\ \A p \in Procs : ContentOf[p] \in Contents
    /\ "torn" \notin Contents
    /\ MaxCalls \in Nat /\ MaxMishaps \in Nat

VARIABLES dir, disk, data, proc, accepted, mishaps, faulted

fsVars == <<dir, disk, data>>
vars == <<fsVars, proc, accepted, mishaps, faulted>>

Target(c)  == <<"target", c>>
Temp(w, n) == <<"temp", w, n>>
Temps      == {Temp(w, n) : w \in Writers, n \in 1 .. MaxCalls}
Names      == Temps \cup {Target(c) : c \in Contents}

NameOf(p)  == Target(ContentOf[p])
Nlink(i)   == Cardinality({n \in DOMAIN dir : dir[n] = i})
Without(d, n) == [m \in DOMAIN d \ {n} |-> d[m]]
With(d, n, i) == [m \in DOMAIN d \cup {n} |-> IF m = n THEN i ELSE d[m]]

Idle == [pc |-> "idle", call |-> 0, inode |-> <<>>, todo |-> {}, alias |-> <<>>,
         removed |-> FALSE, result |-> "none"]
At(p, pc) == proc[p].pc = pc
Step(p, pc) == proc' = [proc EXCEPT ![p].pc = pc]
Own(w)  == Temp(w, proc[w].call)

\* An error sends a writer to its cleanup and a reader out.
Fail(p) ==
    proc' = [proc EXCEPT ![p].pc = IF p \in Writers THEN "cleanup" ELSE "returned",
                         ![p].result = "failed"]

Init ==
    /\ dir = <<>> /\ disk = <<>>
    /\ data = [i \in Temps |-> [content |-> "torn", synced |-> FALSE]]
    /\ proc = [p \in Procs |-> Idle]
    /\ accepted = {} /\ mishaps = 0 /\ faulted = FALSE

-----------------------------------------------------------------------------
(* write, up to the publishing link *)

\* _create_temporary: a fresh name, so O_EXCL always succeeds.
Create(w) ==
    /\ proc[w].pc \in {"idle", "returned"} /\ proc[w].call < MaxCalls
    /\ LET n == proc[w].call + 1
       IN  /\ proc' = [proc EXCEPT ![w] = [Idle EXCEPT !.pc = "created", !.call = n]]
           /\ dir' = With(dir, Temp(w, n), Temp(w, n))
    /\ UNCHANGED <<disk, data, accepted, mishaps, faulted>>

\* _write_all.
Fill(w) ==
    /\ At(w, "created") /\ Step(w, "filled")
    /\ data' = [data EXCEPT ![Own(w)].content = ContentOf[w]]
    /\ UNCHANGED <<dir, disk, accepted, mishaps, faulted>>

\* fsync, fchmod and close of the temporary file.
SealUnsynced(w) ==                        \* mutation: forgets the file fsync
    /\ At(w, "filled") /\ Step(w, "sealed")
    /\ UNCHANGED <<fsVars, accepted, mishaps, faulted>>
Seal(w) ==
    /\ At(w, "filled") /\ Step(w, "sealed")
    /\ data' = [data EXCEPT ![Own(w)].synced = TRUE]
    /\ UNCHANGED <<dir, disk, accepted, mishaps, faulted>>

\* os.link: publishes, or finds the name taken, or finds its own file gone.
Link(w) ==
    /\ At(w, "sealed")
    /\ \/ Own(w) \notin DOMAIN dir /\ Fail(w) /\ UNCHANGED dir
       \/ /\ Own(w) \in DOMAIN dir /\ NameOf(w) \in DOMAIN dir
          /\ Step(w, "verify") /\ UNCHANGED dir
       \/ /\ Own(w) \in DOMAIN dir /\ NameOf(w) \notin DOMAIN dir
          /\ dir' = With(dir, NameOf(w), Own(w)) /\ Step(w, "dirsync")
    /\ UNCHANGED <<disk, data, accepted, mishaps, faulted>>

-----------------------------------------------------------------------------
(* _verify_existing: by a writer that found the name taken, or by a reader *)

Read(r) ==
    /\ proc[r].pc \in {"idle", "returned"} /\ proc[r].call < MaxCalls
    /\ proc' = [proc EXCEPT ![r] = [Idle EXCEPT !.pc = "verify", !.call = proc[r].call + 1]]
    /\ UNCHANGED <<fsVars, accepted, mishaps, faulted>>

\* The file is read through the open descriptor: hash, then accept.
Digest(p, i) ==
    IF data[i].content = ContentOf[p]
    THEN IF p \in Writers
         THEN proc' = [proc EXCEPT ![p].pc = "dirsync"]
         ELSE proc' = [proc EXCEPT ![p].pc = "returned", ![p].result = "ok"]
    ELSE Fail(p)

\* open and fstat: a single link is read at once, more links are looked into.
Open(p) ==
    /\ At(p, "verify")
    /\ \/ NameOf(p) \notin DOMAIN dir /\ Fail(p)
       \/ /\ NameOf(p) \in DOMAIN dir /\ Nlink(dir[NameOf(p)]) = 1
          /\ Digest(p, dir[NameOf(p)])
       \/ /\ NameOf(p) \in DOMAIN dir /\ Nlink(dir[NameOf(p)]) # 1
          /\ proc' = [proc EXCEPT ![p].pc = "recover", ![p].inode = dir[NameOf(p)],
                                  ![p].todo = DOMAIN dir \cap Temps]
    /\ UNCHANGED <<fsVars, accepted, mishaps, faulted>>

\* _recover_reserved_temporary_aliases: stat the listed names one after the
\* other; a name that is gone by now fails the whole call.
InspectLoosely(p, n) ==                   \* mutation: does not compare the inodes
    /\ At(p, "recover") /\ n \in proc[p].todo
    /\ IF n \in DOMAIN dir THEN proc' = [proc EXCEPT ![p].pc = "remove", ![p].alias = n,
                                                     ![p].todo = @ \ {n}]
                           ELSE Fail(p)
    /\ UNCHANGED <<fsVars, accepted, mishaps, faulted>>
Inspect(p, n) ==
    /\ At(p, "recover") /\ n \in proc[p].todo
    /\ IF n \notin DOMAIN dir THEN Fail(p)
       ELSE IF dir[n] = proc[p].inode
       THEN proc' = [proc EXCEPT ![p].pc = "remove", ![p].alias = n, ![p].todo = @ \ {n}]
       ELSE proc' = [proc EXCEPT ![p].todo = @ \ {n}]
    /\ UNCHANGED <<fsVars, accepted, mishaps, faulted>>

\* unlink of the name just inspected; the rest of the list is still to come.
Remove(p) ==
    /\ At(p, "remove")
    /\ IF proc[p].alias \in DOMAIN dir
       THEN /\ dir' = Without(dir, proc[p].alias)
            /\ proc' = [proc EXCEPT ![p].pc = "recover", ![p].alias = <<>>, ![p].removed = TRUE]
       ELSE Fail(p) /\ UNCHANGED dir
    /\ UNCHANGED <<disk, data, accepted, mishaps, faulted>>

\* fsync if anything was removed, fstat again, and read.
Recheck(p) ==
    /\ At(p, "recover") /\ proc[p].todo = {}
    /\ disk' = IF proc[p].removed THEN dir ELSE disk
    /\ IF Nlink(proc[p].inode) = 1 THEN Digest(p, proc[p].inode) ELSE Fail(p)
    /\ UNCHANGED <<dir, data, accepted, mishaps, faulted>>

-----------------------------------------------------------------------------
(* write, after the name is taken: directory fsync, then cleanup *)

Return(w) ==
    LET ok == proc[w].result # "failed"
    IN  /\ proc' = [proc EXCEPT ![w].pc = "returned",
                                ![w].result = IF ok THEN "ok" ELSE "failed"]
        /\ accepted' = IF ok THEN accepted \cup {ContentOf[w]} ELSE accepted

SkipSync(w) ==                            \* mutation: leaves the fsync to the cleanup
    /\ At(w, "dirsync") /\ Step(w, "cleanup")
    /\ UNCHANGED <<fsVars, accepted, mishaps, faulted>>
SyncDirectory(w) ==
    /\ At(w, "dirsync") /\ Step(w, "cleanup")
    /\ disk' = dir
    /\ UNCHANGED <<dir, data, accepted, mishaps, faulted>>

\* unlink of the own temporary name, which a recovery may have removed already.
CleanupLeaves(w) ==                       \* mutation: returns without the unlink
    /\ At(w, "cleanup")
    /\ Return(w)
    /\ UNCHANGED <<fsVars, mishaps, faulted>>
Cleanup(w) ==
    /\ At(w, "cleanup")
    /\ IF Own(w) \in DOMAIN dir
       THEN /\ dir' = Without(dir, Own(w)) /\ Step(w, "cleansync")
            /\ UNCHANGED accepted
       ELSE Return(w) /\ UNCHANGED dir
    /\ UNCHANGED <<disk, data, mishaps, faulted>>

CleanupSync(w) ==
    /\ At(w, "cleansync") /\ Return(w)
    /\ disk' = dir
    /\ UNCHANGED <<dir, data, mishaps, faulted>>

-----------------------------------------------------------------------------
(* Mishaps *)

Mishap == mishaps < MaxMishaps /\ mishaps' = mishaps + 1

\* The system call a process is about to make fails; the call goes on to its
\* cleanup, or ends there.
Fault(p) ==
    /\ Mishap /\ faulted' = TRUE
    /\ \/ /\ proc[p].pc \in {"created", "filled", "sealed", "verify", "recover", "remove",
                             "dirsync"}
          /\ Fail(p)
       \/ /\ proc[p].pc \in {"cleanup", "cleansync"}
          /\ proc' = [proc EXCEPT ![p].pc = "returned", ![p].result = "failed"]
    /\ UNCHANGED <<fsVars, accepted>>

\* The process dies: what it left in the directory stays.
Crash(p) ==
    /\ proc[p].pc \notin {"idle", "returned"} /\ Mishap
    /\ proc' = [proc EXCEPT ![p] = [Idle EXCEPT !.call = proc[p].call]]
    /\ UNCHANGED <<fsVars, accepted, faulted>>

\* The machine loses power: of every name changed since the last fsync either
\* state may be found, and a file never synced may hold anything.
PowerLoss ==
    /\ Mishap
    /\ \E kept \in SUBSET {n \in DOMAIN dir \cup DOMAIN disk :
                              \/ n \notin DOMAIN dir \/ n \notin DOMAIN disk
                              \/ dir[n] # disk[n]} :
          dir' = [n \in (DOMAIN disk \ kept) \cup (DOMAIN dir \cap kept) |->
                     IF n \in kept THEN dir[n] ELSE disk[n]]
    /\ disk' = dir'
    /\ data' = [i \in Temps |-> IF data[i].synced THEN data[i]
                                ELSE [data[i] EXCEPT !.content = "torn"]]
    /\ proc' = [p \in Procs |-> [Idle EXCEPT !.call = proc[p].call]]
    /\ UNCHANGED <<accepted, faulted>>

WriterStep(w) ==
    \/ Create(w) \/ Fill(w) \/ Seal(w) \/ Link(w)
    \/ SyncDirectory(w) \/ Cleanup(w) \/ CleanupSync(w)
VerifyStep(p) ==
    \/ Open(p) \/ (\E n \in Temps : Inspect(p, n)) \/ Remove(p) \/ Recheck(p)

Next ==
    \/ \E w \in Writers : WriterStep(w)
    \/ \E r \in Readers : Read(r)
    \/ \E p \in Procs : VerifyStep(p) \/ Fault(p) \/ Crash(p)
    \/ PowerLoss

Spec == Init /\ [][Next]_vars

-----------------------------------------------------------------------------
(* Properties *)

TypeOK ==
    /\ DOMAIN dir \subseteq Names /\ DOMAIN disk \subseteq Names
    /\ \A n \in DOMAIN dir : dir[n] \in Temps
    /\ \A n \in DOMAIN disk : disk[n] \in Temps
    /\ data \in [Temps -> [content : Contents \cup {"torn"}, synced : BOOLEAN]]
    /\ DOMAIN proc = Procs
    /\ \A p \in Procs : proc[p].todo \subseteq Temps /\ proc[p].call \in 0 .. MaxCalls
    /\ accepted \subseteq Contents /\ mishaps \in 0 .. MaxMishaps /\ faulted \in BOOLEAN

\* The store implements ContentStore: whatever processes interleave, die or
\* lose power, a snapshot name shows its whole content or is absent, and a
\* content some write returned for is never lost.
Store == INSTANCE ContentStore WITH
    stored <- {c \in Contents : /\ Target(c) \in DOMAIN dir
                                /\ data[dir[Target(c)]].content = c},
    acked  <- accepted
ImplementsContentStore == Store!StoreSpec

\* Readers insist on a single link.  From the moment a write of a content
\* returns, the published file has no other name, so verifying it succeeds,
\* even though its temporary names were removed by other processes.
OneNameAfterSuccess ==
    /\ TypeOK
    /\ \A w \in Writers : proc[w].result = "ok" => Nlink(dir[NameOf(w)]) = 1

\* Processes may disturb each other only over a snapshot that is already
\* there: a write that fails without any system call having failed finds its
\* content published by somebody else.
FailureFindsItPublished ==
    \A w \in Writers :
        proc[w].result = "failed" /\ ~faulted => NameOf(w) \in DOMAIN dir

=============================================================================
