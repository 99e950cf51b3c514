---------------------------- MODULE SnapshotProofs ---------------------------
(***************************************************************************)
(* Proofs, for any processes, contents and bounds, about the snapshot      *)
(* store: it implements ContentStore (SnapshotsAreKept), a write that      *)
(* succeeded leaves one name (SuccessLeavesOneName), and writes only fail  *)
(* over what is already there (FailuresFindItThere).                       *)
(*                                                                         *)
(* An inode is named for the temporary file it began as, so a temporary    *)
(* name shows itself, and a snapshot has one name exactly if its temporary *)
(* one is gone.  A recovery removes a name only if it shows the inode of   *)
(* the snapshot, so what a writer has not linked yet is safe from it       *)
(* (Private), and from there on the snapshot is there.                     *)
(***************************************************************************)
EXTENDS SnapshotStore, FiniteSetTheorems, TLAPS

Places == {"idle", "created", "filled", "sealed", "verify", "recover", "remove", "dirsync",
           "cleanup", "cleansync", "returned"}
OnlyWriters == {"created", "filled", "sealed", "dirsync", "cleanup", "cleansync"}
NotLinked == {"created", "filled", "sealed"}

States == [pc : Places, call : 0 .. MaxCalls, inode : Temps \cup {<<>>}, todo : SUBSET Temps,
           alias : Temps \cup {<<>>}, removed : BOOLEAN, result : {"none", "ok", "failed"}]
Files == [content : Contents \cup {"torn"}, synced : BOOLEAN]

TypeInv ==
    /\ data \in [Temps -> Files]
    /\ proc \in [Procs -> States]
    /\ accepted \subseteq Contents /\ mishaps \in 0 .. MaxMishaps /\ faulted \in BOOLEAN

Whole(i, c) == i \in Temps /\ data[i].content = c /\ data[i].synced

\* What a directory may show.
Shows(d) ==
    /\ DOMAIN d \subseteq Names
    /\ \A t \in Temps : t \in DOMAIN d => d[t] = t
    /\ \A c \in Contents : Target(c) \in DOMAIN d => Whole(d[Target(c)], c)

Tree ==
    /\ Shows(dir) /\ Shows(disk)
    /\ \A c \in Contents : Target(c) \in DOMAIN disk => Target(c) \in DOMAIN dir
    /\ \A c \in accepted : Target(c) \in DOMAIN disk

There(p) == NameOf(p) \in DOMAIN dir
Inode(p) == dir[NameOf(p)]
OneName(p) == There(p) /\ Inode(p) \notin DOMAIN dir

\* The temporary file of a writer before it is linked.
Private(p) ==
    /\ Own(p) \in DOMAIN dir
    /\ \A c \in Contents : Target(c) \in DOMAIN dir => dir[Target(c)] # Own(p)

\* Temporary files still to be created.
Unused(p) == {Temp(p, n) : n \in {k \in 1 .. MaxCalls : k > proc[p].call}}

Position(p) ==
    /\ proc[p].pc # "idle" => proc[p].call >= 1
    /\ proc[p].pc \in OnlyWriters => p \in Writers
    /\ p \in Writers => \A t \in Unused(p) : ~data[t].synced
    /\ proc[p].pc \in NotLinked => Private(p)
    /\ proc[p].pc \in {"created", "filled"} => ~data[Own(p)].synced
    /\ proc[p].pc \in {"filled", "sealed"} => data[Own(p)].content = ContentOf[p]
    /\ proc[p].pc = "sealed" => data[Own(p)].synced
    /\ proc[p].pc = "verify" /\ p \in Writers => There(p)
    /\ proc[p].pc \in {"recover", "remove"} => There(p) /\ proc[p].inode = Inode(p)
    /\ proc[p].pc = "remove" => proc[p].alias = proc[p].inode
    /\ proc[p].pc = "dirsync" => There(p) /\ (Inode(p) = Own(p) \/ OneName(p))
    /\ proc[p].pc \in {"cleanup", "cleansync"} /\ proc[p].result # "failed" =>
          /\ NameOf(p) \in DOMAIN disk /\ There(p)
          /\ Inode(p) = Own(p) \/ OneName(p)
    /\ proc[p].pc = "cleansync" /\ proc[p].result # "failed" => OneName(p)
    /\ p \in Writers /\ proc[p].result = "ok" => OneName(p)
    /\ p \in Writers /\ proc[p].result = "failed" /\ ~faulted => There(p)

Inv == TypeInv /\ Tree /\ \A p \in Procs : Position(p)

-----------------------------------------------------------------------------
(* Names and directories *)

LEMMA TargetsAreNoTemps == \A c : Target(c) \notin Temps
BY DEF Target, Temps, Temp

LEMMA TargetsDiffer == \A b, c : Target(b) = Target(c) => b = c
BY DEF Target

LEMMA TempsDiffer ==
    ASSUME NEW v, NEW w, NEW m, NEW n, Temp(v, m) = Temp(w, n)
    PROVE  v = w /\ m = n
BY DEF Temp

LEMMA TempNames == \A w \in Writers, n \in 1 .. MaxCalls : Temp(w, n) \in Temps
BY DEF Temps

LEMMA NamesAre ==
    /\ Temps \subseteq Names /\ \A c \in Contents : Target(c) \in Names
    /\ \A n \in Names : n \in Temps \/ \E c \in Contents : n = Target(c)
BY DEF Names

LEMMA WithoutRemoves ==
    ASSUME NEW d, NEW n
    PROVE  /\ DOMAIN Without(d, n) = DOMAIN d \ {n}
           /\ \A m \in DOMAIN d \ {n} : Without(d, n)[m] = d[m]
BY DEF Without

-----------------------------------------------------------------------------
(* Processes *)

LEMMA Facts ==
    ASSUME Inv, NEW p \in Procs
    PROVE  /\ proc \in [Procs -> States] /\ proc[p] \in States
           /\ proc[p].call \in 0 .. MaxCalls /\ proc[p].call \in Nat /\ proc[p].pc \in Places
           /\ proc[p].inode \in Temps \cup {<<>>} /\ proc[p].todo \subseteq Temps
           /\ ContentOf[p] \in Contents /\ mishaps \in 0 .. MaxMishaps
           /\ Position(p)
BY SnapshotAssumption DEF Inv, TypeInv, States

\* The names of a writer's temporary files, of this call and of later ones.
LEMMA OwnNames ==
    ASSUME Inv, NEW w \in Writers
    PROVE  /\ w \in Procs /\ Unused(w) \subseteq Temps
           /\ proc[w].pc # "idle" => Own(w) \in Temps
           /\ \A v \in Writers \ {w} : Own(w) # Own(v) /\ Own(w) \notin Unused(v)
                                       /\ Unused(w) \cap Unused(v) = {}
           /\ Own(w) \notin Unused(w)
<1>1. w \in Procs
  BY DEF Procs
<1>2. Unused(w) \subseteq Temps
  BY TempNames DEF Unused
<1>3. proc[w].pc # "idle" => Own(w) \in Temps
  BY <1>1, Facts, TempNames, SnapshotAssumption DEF Own, Position
<1>4. Own(w) \notin Unused(w)
  BY <1>1, Facts, TempsDiffer, SnapshotAssumption DEF Own, Unused
<1>5. ASSUME NEW v \in Writers \ {w}
      PROVE  /\ Own(w) # Own(v) /\ Own(w) \notin Unused(v)
             /\ Unused(w) \cap Unused(v) = {}
  BY TempsDiffer DEF Own, Unused
<1> QED BY <1>1, <1>2, <1>3, <1>4, <1>5

LEMMA Moved ==
    ASSUME proc \in [Procs -> States], NEW p \in Procs, NEW s \in States,
           proc' = [proc EXCEPT ![p] = s]
    PROVE  /\ proc' \in [Procs -> States] /\ proc'[p] = s
           /\ \A q \in Procs \ {p} : proc'[q] = proc[q]
OBVIOUS

\* A process moves on, or ends with a result.
LEMMA Stepped ==
    ASSUME proc \in [Procs -> States], NEW p \in Procs, NEW pc \in Places, Step(p, pc)
    PROVE  /\ proc' \in [Procs -> States] /\ proc'[p] = [proc[p] EXCEPT !.pc = pc]
           /\ \A q \in Procs \ {p} : proc'[q] = proc[q]
<1> DEFINE s == [proc[p] EXCEPT !.pc = pc]
<1>1. s \in States
  BY DEF States
<1>2. proc' = [proc EXCEPT ![p] = s]
  BY DEF Step
<1> HIDE DEF s
<1>3. /\ proc' \in [Procs -> States] /\ proc'[p] = s
      /\ \A q \in Procs \ {p} : proc'[q] = proc[q]
  BY <1>1, <1>2, Moved
<1> QED BY <1>3 DEF s

LEMMA Ended ==
    ASSUME proc \in [Procs -> States], NEW p \in Procs, NEW pc \in Places,
           NEW r \in {"ok", "failed"},
           proc' = [proc EXCEPT ![p].pc = pc, ![p].result = r]
    PROVE  /\ proc' \in [Procs -> States]
           /\ proc'[p] = [proc[p] EXCEPT !.pc = pc, !.result = r]
           /\ \A q \in Procs \ {p} : proc'[q] = proc[q]
<1> DEFINE s == [proc[p] EXCEPT !.pc = pc, !.result = r]
<1>1. s \in States
  BY DEF States
<1>2. proc' = [proc EXCEPT ![p] = s]
  OBVIOUS
<1> HIDE DEF s
<1>3. /\ proc' \in [Procs -> States] /\ proc'[p] = s
      /\ \A q \in Procs \ {p} : proc'[q] = proc[q]
  BY <1>1, <1>2, Moved
<1> QED BY <1>3 DEF s

\* A process that starts anew.
LEMMA IdleIsState == Idle \in States /\ Idle.pc = "idle" /\ Idle.result = "none"
BY SnapshotAssumption DEF Idle, States, Places

LEMMA FreshStates ==
    ASSUME NEW n \in 0 .. MaxCalls
    PROVE  /\ [Idle EXCEPT !.call = n] \in States
           /\ [Idle EXCEPT !.call = n].pc = "idle" /\ [Idle EXCEPT !.call = n].call = n
           /\ [Idle EXCEPT !.call = n].result = "none"
BY IdleIsState DEF States

\* A snapshot has one name exactly if its temporary one is gone.
LEMMA OneNameIsOneLink ==
    ASSUME Inv, NEW p \in Procs, There(p)
    PROVE  Nlink(Inode(p)) = 1 <=> OneName(p)
<1> DEFINE i == Inode(p)
           S == {n \in DOMAIN dir : dir[n] = i}
<1>1. /\ i \in Temps /\ data[i].content = ContentOf[p] /\ NameOf(p) \in S
      /\ NameOf(p) # i
  BY Facts, TargetsAreNoTemps DEF Inv, Tree, Shows, Whole, There, Inode, NameOf
<1>2. S \subseteq {NameOf(p), i}
  <2> SUFFICES ASSUME NEW n \in S, n # NameOf(p) PROVE n = i
    OBVIOUS
  <2>1. n \in DOMAIN dir /\ dir[n] = i /\ n \in Names
    BY DEF Inv, Tree, Shows
  <2>2. CASE n \in Temps
    BY <2>1, <2>2 DEF Inv, Tree, Shows
  <2>3. ASSUME NEW c \in Contents, n = Target(c) PROVE FALSE
    BY <1>1, <2>1, <2>3 DEF Inv, Tree, Shows, Whole, NameOf
  <2> QED BY <2>1, <2>2, <2>3, NamesAre
<1>3. i \in DOMAIN dir <=> i \in S
  BY <1>1 DEF Inv, Tree, Shows
<1>4. IsFiniteSet(S)
  <2>1. IsFiniteSet({NameOf(p)} \cup {i})
    BY FS_Singleton, FS_AddElement
  <2>2. S \in SUBSET ({NameOf(p)} \cup {i})
    BY <1>2
  <2> QED BY <2>1, <2>2, FS_Subset, Zenon
<1>5. Cardinality(S) = 1 <=> \E x : S = {x}
  BY <1>4, FS_Singleton, Zenon
<1>6. (\E x : S = {x}) <=> i \notin S
  BY <1>1, <1>2
<1>7. Nlink(Inode(p)) = Cardinality(S)
  BY DEF Nlink
<1> QED BY <1>3, <1>5, <1>6, <1>7 DEF OneName

-----------------------------------------------------------------------------
(* What a step leaves to the others *)

\* Nothing a process relies on is taken from the directory.
Steady ==
    /\ \A c \in Contents : Target(c) \in DOMAIN dir =>
          /\ Target(c) \in DOMAIN dir' /\ dir'[Target(c)] = dir[Target(c)]
          /\ dir[Target(c)] \notin DOMAIN dir => dir[Target(c)] \notin DOMAIN dir'
    /\ \A c \in Contents : Target(c) \in DOMAIN disk => Target(c) \in DOMAIN disk'
    /\ ~faulted' => ~faulted

LEMMA OthersStay ==
    ASSUME Inv, Steady, NEW q \in Procs, proc'[q] = proc[q],
           q \in Writers => \A t \in Temps \cap (Unused(q) \cup {Own(q)}) : data'[t] = data[t],
           proc[q].pc \in NotLinked => Private(q)'
    PROVE  Position(q)'
<1>1. /\ There(q) => There(q)' /\ Inode(q)' = Inode(q)
      /\ OneName(q) => OneName(q)'
      /\ NameOf(q) \in DOMAIN disk => NameOf(q) \in DOMAIN disk'
  BY Facts DEF Steady, There, Inode, OneName, NameOf
<1>2. Own(q)' = Own(q) /\ Unused(q)' = Unused(q)
  BY DEF Own, Unused
<1>3. q \in Writers => \A t \in Unused(q)' : ~data'[t].synced
  BY <1>2, Facts, OwnNames DEF Position
<1>4. proc[q].pc \in NotLinked => q \in Writers /\ data'[Own(q)] = data[Own(q)]
  BY Facts, OwnNames DEF Position, NotLinked, OnlyWriters
<1>5. /\ proc[q].pc \in {"created", "filled"} => ~data'[Own(q)].synced
      /\ proc[q].pc \in {"filled", "sealed"} => data'[Own(q)].content = ContentOf[q]
      /\ proc[q].pc = "sealed" => data'[Own(q)].synced
  BY <1>4, Facts DEF Position, NotLinked
<1>6. q \in Writers /\ proc[q].result = "failed" /\ ~faulted' => There(q)'
  BY <1>1, Facts DEF Position, Steady
<1> QED BY <1>1, <1>2, <1>3, <1>5, <1>6, Facts DEF Position

\* A step that changes no name: the directory may be synced, and a write may return.
LEMMA QuietStep ==
    ASSUME Inv, NEW p \in Procs,
           proc' \in [Procs -> States], \A q \in Procs \ {p} : proc'[q] = proc[q],
           UNCHANGED <<dir, data>>, disk' \in {disk, dir},
           \/ UNCHANGED accepted
           \/ accepted' = accepted \cup {ContentOf[p]} /\ NameOf(p) \in DOMAIN disk',
           mishaps' \in 0 .. MaxMishaps, faulted' \in BOOLEAN, ~faulted' => ~faulted,
           Position(p)'
    PROVE  Inv'
<1>1. Steady
  BY DEF Steady, Inv, Tree
<1>2. TypeInv'
  BY Facts DEF Inv, TypeInv
<1>3. Tree'
  <2>1. Shows(dir)' /\ Shows(disk)'
    BY DEF Inv, Tree, Shows, Whole
  <2>2. \A c \in accepted : Target(c) \in DOMAIN disk'
    BY DEF Inv, TypeInv, Tree
  <2> QED BY <2>1, <2>2 DEF Inv, Tree, NameOf
<1>4. ASSUME NEW q \in Procs \ {p} PROVE Position(q)'
  <2>1. Private(q) => Private(q)'
    BY DEF Private, Own
  <2> QED BY <1>1, <2>1, Facts, OthersStay DEF Position
<1> QED BY <1>2, <1>3, <1>4 DEF Inv

\* What has no effect on the directory leaves the claims about it.
LEMMA SameViews ==
    ASSUME NEW p \in Procs, UNCHANGED <<dir, data>>, proc'[p].call = proc[p].call
    PROVE  /\ Own(p)' = Own(p) /\ Unused(p)' = Unused(p)
           /\ Private(p)' <=> Private(p)
           /\ There(p)' <=> There(p)
           /\ Inode(p)' = Inode(p) /\ (OneName(p)' <=> OneName(p))
BY DEF Own, Unused, Private, There, Inode, OneName, NameOf

LEMMA FailKeeps ==
    ASSUME Inv, NEW p \in Procs, Fail(p), proc[p].pc # "idle",
           UNCHANGED <<dir, data, accepted>>, disk' \in {disk, dir},
           mishaps' \in 0 .. MaxMishaps, faulted' \in BOOLEAN, ~faulted' => ~faulted,
           p \in Writers => faulted' \/ There(p)
    PROVE  Inv'
<1> DEFINE pc == IF p \in Writers THEN "cleanup" ELSE "returned"
<1>1. /\ proc' \in [Procs -> States]
      /\ proc'[p].pc = pc /\ proc'[p].result = "failed" /\ proc'[p].call = proc[p].call
      /\ \A q \in Procs \ {p} : proc'[q] = proc[q]
  <2>1. pc \in Places /\ proc' = [proc EXCEPT ![p].pc = pc, ![p].result = "failed"]
    BY DEF Fail, Places
  <2>2. /\ proc' \in [Procs -> States]
        /\ proc'[p] = [proc[p] EXCEPT !.pc = pc, !.result = "failed"]
        /\ \A q \in Procs \ {p} : proc'[q] = proc[q]
    <3> HIDE DEF pc
    <3> QED BY <2>1, Facts, Ended
  <2> HIDE DEF pc
  <2> QED BY <2>2, Facts DEF States
<1>2. Position(p)'
  BY <1>1, Facts, SameViews DEF Position, OnlyWriters, NotLinked
<1> QED BY <1>1, <1>2, QuietStep

LEMMA InitInv == Init => Inv
<1> SUFFICES ASSUME Init PROVE Inv
  OBVIOUS
<1>1. TypeInv
  <2>1. Idle \in States
    BY IdleIsState
  <2>2. [content |-> "torn", synced |-> FALSE] \in Files
    BY DEF Files
  <2>3. data \in [Temps -> Files] /\ proc \in [Procs -> States]
    BY <2>1, <2>2 DEF Init
  <2>4. accepted \subseteq Contents /\ mishaps \in 0 .. MaxMishaps
    BY SnapshotAssumption DEF Init
  <2>5. faulted \in BOOLEAN
    BY DEF Init
  <2> QED BY <2>3, <2>4, <2>5 DEF TypeInv
<1>2. Tree
  BY DEF Init, Tree, Shows
<1>3. ASSUME NEW p \in Procs PROVE Position(p)
  <2>1. proc[p].pc = "idle" /\ proc[p].result = "none"
    BY DEF Init, Idle
  <2>2. p \in Writers => Unused(p) \subseteq Temps
    BY TempNames DEF Unused
  <2>3. \A t \in Temps : ~data[t].synced
    BY DEF Init
  <2> QED BY <2>1, <2>2, <2>3 DEF Position, OnlyWriters, NotLinked
<1> QED BY <1>1, <1>2, <1>3 DEF Inv

-----------------------------------------------------------------------------
(* Steps that change no name *)

\* A writer may do as it likes with the file it has not linked.
LEMMA OwnFileKeeps ==
    ASSUME Inv, NEW w \in Writers, proc[w].pc \in {"created", "filled"},
           NEW pc \in {"filled", "sealed"}, Step(w, pc),
           NEW f \in Files, data' = [data EXCEPT ![Own(w)] = f],
           f.content = ContentOf[w], f.synced <=> pc = "sealed",
           UNCHANGED <<dir, disk, accepted, mishaps, faulted>>
    PROVE  Inv'
<1>1. w \in Procs /\ Own(w) \in Temps /\ Private(w) /\ ~data[Own(w)].synced
  BY Facts, OwnNames DEF Position, NotLinked
<1>2. /\ proc' \in [Procs -> States] /\ proc'[w] = [proc[w] EXCEPT !.pc = pc]
      /\ \A q \in Procs \ {w} : proc'[q] = proc[q]
  <2>1. pc \in Places
    BY DEF Places
  <2> QED BY <1>1, <2>1, Facts, Stepped
<1>3. proc'[w].pc = pc /\ proc'[w].call = proc[w].call /\ proc'[w].result = proc[w].result
  BY <1>1, <1>2, Facts DEF States
<1>4. /\ data' \in [Temps -> Files] /\ data'[Own(w)] = f
      /\ \A t \in Temps \ {Own(w)} : data'[t] = data[t]
  BY <1>1 DEF Inv, TypeInv
<1>5. TypeInv'
  BY <1>2, <1>4 DEF Inv, TypeInv
<1>6. Tree' /\ Steady
  <2>1. ASSUME NEW i, NEW c, Whole(i, c) PROVE Whole(i, c)'
    BY <1>1, <1>4, <2>1 DEF Whole
  <2>2. Shows(dir)' /\ Shows(disk)'
    BY <2>1 DEF Inv, Tree, Shows
  <2> QED BY <2>2 DEF Inv, Tree, Steady
<1>7. Position(w)'
  <2>1. Own(w)' = Own(w) /\ Unused(w)' = Unused(w)
    BY <1>3 DEF Own, Unused
  <2>2. /\ Private(w)' <=> Private(w)
        /\ There(w)' <=> There(w)
        /\ Inode(w)' = Inode(w) /\ (OneName(w)' <=> OneName(w))
    BY <2>1 DEF Private, There, Inode, OneName, NameOf
  <2>3. \A t \in Unused(w) : data'[t] = data[t]
    BY <1>4, OwnNames
  <2> QED BY <1>1, <1>3, <1>4, <2>1, <2>2, <2>3, Facts DEF Position, NotLinked
<1>8. ASSUME NEW q \in Procs \ {w} PROVE Position(q)'
  <2>1. q \in Writers => \A t \in Temps \cap (Unused(q) \cup {Own(q)}) : data'[t] = data[t]
    BY <1>4, OwnNames
  <2>2. proc[q].pc \in NotLinked => Private(q)'
    BY <1>2, Facts DEF Position, Private, Own
  <2> QED BY <1>2, <1>6, <2>1, <2>2, OthersStay
<1> QED BY <1>5, <1>6, <1>7, <1>8 DEF Inv

LEMMA FillKeeps == ASSUME Inv, NEW w \in Writers, Fill(w) PROVE Inv'
<1> DEFINE f == [data[Own(w)] EXCEPT !.content = ContentOf[w]]
<1>1. w \in Procs /\ proc[w].pc = "created" /\ Own(w) \in Temps /\ ~data[Own(w)].synced
  BY Facts, OwnNames DEF Fill, At, Position
<1>2. /\ f \in Files /\ f.content = ContentOf[w] /\ ~f.synced
      /\ data' = [data EXCEPT ![Own(w)] = f]
  BY <1>1, Facts DEF Fill, Inv, TypeInv, Files
<1> HIDE DEF f
<1> QED BY <1>1, <1>2, OwnFileKeeps DEF Fill

LEMMA SealKeeps == ASSUME Inv, NEW w \in Writers, Seal(w) PROVE Inv'
<1> DEFINE f == [data[Own(w)] EXCEPT !.synced = TRUE]
<1>1. /\ w \in Procs /\ proc[w].pc = "filled" /\ Own(w) \in Temps
      /\ data[Own(w)].content = ContentOf[w]
  BY Facts, OwnNames DEF Seal, At, Position
<1>2. /\ f \in Files /\ f.content = ContentOf[w] /\ f.synced
      /\ data' = [data EXCEPT ![Own(w)] = f]
  BY <1>1, Facts DEF Seal, Inv, TypeInv, Files
<1> HIDE DEF f
<1> QED BY <1>1, <1>2, OwnFileKeeps DEF Seal

LEMMA ReadKeeps == ASSUME Inv, NEW r \in Readers, Read(r) PROVE Inv'
<1> DEFINE n == proc[r].call + 1
           s == [Idle EXCEPT !.pc = "verify", !.call = n]
<1>1. r \in Procs /\ r \notin Writers
  BY SnapshotAssumption DEF Procs
<1>2. s \in States /\ s.pc = "verify" /\ s.call >= 1 /\ s.result = "none"
  <2>1. proc[r].call + 1 \in 0 .. MaxCalls /\ proc[r].call + 1 >= 1
    BY <1>1, Facts, SnapshotAssumption DEF Read
  <2>2. "verify" \in Places
    BY DEF Places
  <2>3. n \in 0 .. MaxCalls /\ n >= 1
    BY <2>1
  <2>4. s \in States /\ s.pc = "verify" /\ s.call = n /\ s.result = "none"
    <3> HIDE DEF n
    <3> QED BY <2>2, <2>3, IdleIsState DEF States
  <2> QED BY <2>3, <2>4
<1>3. proc' = [proc EXCEPT ![r] = s]
  BY DEF Read
<1> HIDE DEF s
<1>4. /\ proc' \in [Procs -> States] /\ proc'[r] = s
      /\ \A q \in Procs \ {r} : proc'[q] = proc[q]
  BY <1>1, <1>2, <1>3, Facts, Moved
<1>5. Position(r)'
  BY <1>1, <1>2, <1>4 DEF Position, OnlyWriters, NotLinked
<1> QED BY <1>1, <1>4, <1>5, Facts, QuietStep DEF Read, fsVars, Inv, TypeInv

\* What a read finds: a writer goes on to the sync, a reader is done.
LEMMA DigestKeeps ==
    ASSUME Inv, NEW p \in Procs, proc[p].pc \in {"verify", "recover"}, NEW i, Digest(p, i),
           OneName(p), UNCHANGED <<dir, data, accepted, mishaps, faulted>>, disk' \in {disk, dir}
    PROVE  Inv'
<1>1. mishaps' \in 0 .. MaxMishaps /\ faulted' \in BOOLEAN /\ (~faulted' => ~faulted)
  BY DEF Inv, TypeInv
<1>2. CASE data[i].content # ContentOf[p]
  <2>1. Fail(p) /\ There(p)
    BY <1>2 DEF Digest, OneName
  <2> QED BY <1>1, <2>1, FailKeeps
<1>3. CASE data[i].content = ContentOf[p] /\ p \in Writers
  <2>1. Step(p, "dirsync") /\ "dirsync" \in Places
    BY <1>3 DEF Digest, Step, Places
  <2>2. /\ proc' \in [Procs -> States] /\ proc'[p] = [proc[p] EXCEPT !.pc = "dirsync"]
        /\ \A q \in Procs \ {p} : proc'[q] = proc[q]
    BY <2>1, Facts, Stepped
  <2>3. proc'[p].pc = "dirsync" /\ proc'[p].call = proc[p].call
        /\ proc'[p].result = proc[p].result
    BY <2>2, Facts DEF States
  <2>4. Position(p)'
    BY <1>1, <1>3, <2>3, Facts, SameViews DEF Position, NotLinked, OneName
  <2> QED BY <1>1, <2>2, <2>4, QuietStep
<1>4. CASE data[i].content = ContentOf[p] /\ p \notin Writers
  <2>1. /\ proc' = [proc EXCEPT ![p].pc = "returned", ![p].result = "ok"]
        /\ "returned" \in Places
    BY <1>4 DEF Digest, Places
  <2>2. /\ proc' \in [Procs -> States]
        /\ proc'[p] = [proc[p] EXCEPT !.pc = "returned", !.result = "ok"]
        /\ \A q \in Procs \ {p} : proc'[q] = proc[q]
    BY <2>1, Facts, Ended
  <2>3. proc'[p].pc = "returned" /\ proc'[p].call = proc[p].call
    BY <2>2, Facts DEF States
  <2>4. Position(p)'
    BY <1>4, <2>3, Facts DEF Position, OnlyWriters, NotLinked
  <2> QED BY <1>1, <2>2, <2>4, QuietStep
<1> QED BY <1>2, <1>3, <1>4

LEMMA OpenKeeps == ASSUME Inv, NEW p \in Procs, Open(p) PROVE Inv'
<1>1. /\ proc[p].pc = "verify" /\ UNCHANGED <<dir, disk, data, accepted, mishaps, faulted>>
      /\ mishaps' \in 0 .. MaxMishaps /\ faulted' \in BOOLEAN /\ (~faulted' => ~faulted)
      /\ p \in Writers => There(p)
  BY Facts DEF Open, At, Position, fsVars, Inv, TypeInv
<1>2. CASE NameOf(p) \notin DOMAIN dir /\ Fail(p)
  BY <1>1, <1>2, FailKeeps DEF There
<1>3. CASE /\ NameOf(p) \in DOMAIN dir /\ Nlink(dir[NameOf(p)]) = 1
           /\ Digest(p, dir[NameOf(p)])
  <2>1. OneName(p)
    BY <1>3, OneNameIsOneLink DEF There, Inode
  <2> QED BY <1>1, <1>3, <2>1, DigestKeeps
<1>4. CASE /\ NameOf(p) \in DOMAIN dir
           /\ proc' = [proc EXCEPT ![p].pc = "recover", ![p].inode = dir[NameOf(p)],
                                   ![p].todo = DOMAIN dir \cap Temps]
  <2> DEFINE s == [proc[p] EXCEPT !.pc = "recover", !.inode = Inode(p),
                                  !.todo = DOMAIN dir \cap Temps]
  <2>1. Inode(p) \in Temps
    BY <1>4, Facts DEF Inv, Tree, Shows, Whole, Inode, NameOf
  <2>2. /\ s \in States /\ s.pc = "recover" /\ s.inode = Inode(p) /\ s.call = proc[p].call
        /\ s.result = proc[p].result
    BY <2>1, Facts DEF States, Places
  <2>3. proc' = [proc EXCEPT ![p] = s]
    BY <1>4 DEF Inode
  <2> HIDE DEF s
  <2>4. /\ proc' \in [Procs -> States] /\ proc'[p] = s
        /\ \A q \in Procs \ {p} : proc'[q] = proc[q]
    BY <2>2, <2>3, Facts, Moved
  <2>5. There(p) /\ proc'[p].pc = "recover" /\ proc'[p].call = proc[p].call
        /\ proc'[p].inode = Inode(p) /\ proc'[p].result = proc[p].result
    BY <1>4, <2>2, <2>4 DEF There
  <2>6. /\ There(p)' /\ Inode(p)' = Inode(p) /\ Unused(p)' = Unused(p)
        /\ (OneName(p)' <=> OneName(p))
    BY <1>1, <2>5, SameViews
  <2>7. Position(p)'
    BY <1>1, <2>5, <2>6, Facts DEF Position, OnlyWriters, NotLinked
  <2> QED BY <1>1, <2>4, <2>7, QuietStep
<1> QED BY <1>2, <1>3, <1>4 DEF Open

LEMMA InspectKeeps ==
    ASSUME Inv, NEW p \in Procs, NEW n \in Temps, Inspect(p, n) PROVE Inv'
<1>1. /\ proc[p].pc = "recover" /\ UNCHANGED <<dir, disk, data, accepted, mishaps, faulted>>
      /\ mishaps' \in 0 .. MaxMishaps /\ faulted' \in BOOLEAN /\ (~faulted' => ~faulted)
      /\ There(p) /\ proc[p].inode = Inode(p)
  BY Facts DEF Inspect, At, Position, fsVars, Inv, TypeInv
<1>2. CASE n \notin DOMAIN dir
  BY <1>1, <1>2, FailKeeps DEF Inspect
<1>3. ASSUME NEW s \in States, proc' = [proc EXCEPT ![p] = s],
             s.pc \in {"recover", "remove"}, s.inode = proc[p].inode, s.call = proc[p].call,
             s.result = proc[p].result, s.pc = "remove" => s.alias = s.inode
      PROVE  Inv'
  <2>1. /\ proc' \in [Procs -> States] /\ proc'[p] = s
        /\ \A q \in Procs \ {p} : proc'[q] = proc[q]
    BY <1>3, Facts, Moved
  <2>2. Position(p)'
    BY <1>1, <1>3, <2>1, Facts, SameViews DEF Position, OnlyWriters, NotLinked
  <2> QED BY <1>1, <2>1, <2>2, QuietStep
<1>4. CASE n \in DOMAIN dir /\ dir[n] = proc[p].inode
  <2> DEFINE s == [proc[p] EXCEPT !.pc = "remove", !.alias = n, !.todo = @ \ {n}]
  <2>1. n = proc[p].inode
    BY <1>4 DEF Inv, Tree, Shows
  <2>2. /\ s \in States /\ s.pc = "remove" /\ s.inode = proc[p].inode /\ s.call = proc[p].call
        /\ s.result = proc[p].result /\ s.alias = n
    BY Facts DEF States, Places
  <2>3. proc' = [proc EXCEPT ![p] = s]
    BY <1>4 DEF Inspect
  <2> HIDE DEF s
  <2> QED BY <1>3, <2>1, <2>2, <2>3
<1>5. CASE n \in DOMAIN dir /\ dir[n] # proc[p].inode
  <2> DEFINE s == [proc[p] EXCEPT !.todo = @ \ {n}]
  <2>1. /\ s \in States /\ s.pc = "recover" /\ s.inode = proc[p].inode /\ s.call = proc[p].call
        /\ s.result = proc[p].result
    BY <1>1, Facts DEF States, Places
  <2>2. proc' = [proc EXCEPT ![p] = s]
    BY <1>5 DEF Inspect
  <2> HIDE DEF s
  <2> QED BY <1>3, <2>1, <2>2
<1> QED BY <1>2, <1>4, <1>5

LEMMA RecheckKeeps == ASSUME Inv, NEW p \in Procs, Recheck(p) PROVE Inv'
<1>1. /\ proc[p].pc = "recover" /\ UNCHANGED <<dir, data, accepted, mishaps, faulted>>
      /\ disk' \in {disk, dir} /\ There(p) /\ proc[p].inode = Inode(p)
      /\ mishaps' \in 0 .. MaxMishaps /\ faulted' \in BOOLEAN /\ (~faulted' => ~faulted)
  BY Facts DEF Recheck, At, Position, Inv, TypeInv
<1>2. CASE Nlink(proc[p].inode) = 1
  BY <1>1, <1>2, OneNameIsOneLink, DigestKeeps DEF Recheck
<1>3. CASE Nlink(proc[p].inode) # 1
  BY <1>1, <1>3, FailKeeps DEF Recheck
<1> QED BY <1>2, <1>3

LEMMA SyncDirectoryKeeps == ASSUME Inv, NEW w \in Writers, SyncDirectory(w) PROVE Inv'
<1>1. /\ w \in Procs /\ proc[w].pc = "dirsync" /\ disk' = dir
      /\ UNCHANGED <<dir, data, accepted, mishaps, faulted>>
      /\ mishaps' \in 0 .. MaxMishaps /\ faulted' \in BOOLEAN /\ (~faulted' => ~faulted)
      /\ There(w) /\ (Inode(w) = Own(w) \/ OneName(w))
  BY Facts DEF SyncDirectory, At, Position, Procs, Inv, TypeInv
<1>2. /\ proc' \in [Procs -> States] /\ proc'[w] = [proc[w] EXCEPT !.pc = "cleanup"]
      /\ \A q \in Procs \ {w} : proc'[q] = proc[q]
  BY <1>1, Facts, Stepped DEF SyncDirectory, Places
<1>3. /\ proc'[w].pc = "cleanup" /\ proc'[w].call = proc[w].call
      /\ proc'[w].result = proc[w].result
  BY <1>1, <1>2, Facts DEF States
<1>4. Position(w)'
  BY <1>1, <1>3, Facts, SameViews DEF Position, NotLinked, There, NameOf
<1> QED BY <1>1, <1>2, <1>4, QuietStep

\* A write returns: what it reports is on disk, under one name.
LEMMA ReturnKeeps ==
    ASSUME Inv, NEW w \in Writers, Return(w), proc[w].pc \in {"cleanup", "cleansync"},
           proc[w].result # "failed" => OneName(w),
           UNCHANGED <<dir, data, mishaps, faulted>>, disk' \in {disk, dir}
    PROVE  Inv'
<1> DEFINE r == IF proc[w].result # "failed" THEN "ok" ELSE "failed"
<1>1. /\ w \in Procs /\ "returned" \in Places
      /\ mishaps' \in 0 .. MaxMishaps /\ faulted' \in BOOLEAN /\ (~faulted' => ~faulted)
  BY DEF Procs, Places, Inv, TypeInv
<1>2. /\ proc' \in [Procs -> States]
      /\ proc'[w] = [proc[w] EXCEPT !.pc = "returned", !.result = r]
      /\ \A q \in Procs \ {w} : proc'[q] = proc[q]
  <2>1. r \in {"ok", "failed"} /\ proc' = [proc EXCEPT ![w].pc = "returned", ![w].result = r]
    BY DEF Return
  <2> HIDE DEF r
  <2> QED BY <1>1, <2>1, Facts, Ended
<1>3. proc'[w].pc = "returned" /\ proc'[w].call = proc[w].call /\ proc'[w].result = r
  BY <1>1, <1>2, Facts DEF States
<1>4. Position(w)'
  BY <1>1, <1>3, Facts, SameViews DEF Position, NotLinked, OnlyWriters
<1>5. \/ UNCHANGED accepted
      \/ accepted' = accepted \cup {ContentOf[w]} /\ NameOf(w) \in DOMAIN disk'
  <2>1. proc[w].result # "failed" => NameOf(w) \in DOMAIN disk'
    BY <1>1, Facts DEF Position, There
  <2> QED BY <2>1 DEF Return
<1> QED BY <1>1, <1>2, <1>4, <1>5, QuietStep

LEMMA CleanupSyncKeeps == ASSUME Inv, NEW w \in Writers, CleanupSync(w) PROVE Inv'
<1>1. w \in Procs /\ proc[w].pc = "cleansync"
  BY DEF CleanupSync, At, Procs
<1>2. proc[w].result # "failed" => OneName(w)
  BY <1>1, Facts DEF Position
<1> QED BY <1>1, <1>2, ReturnKeeps DEF CleanupSync

LEMMA MishapType == Inv /\ Mishap => mishaps' \in 0 .. MaxMishaps
BY SnapshotAssumption DEF Inv, TypeInv, Mishap

LEMMA FaultKeeps == ASSUME Inv, NEW p \in Procs, Fault(p) PROVE Inv'
<1>1. /\ UNCHANGED <<dir, disk, data, accepted>> /\ faulted' = TRUE
      /\ mishaps' \in 0 .. MaxMishaps
  BY MishapType DEF Fault, fsVars
<1>2. CASE proc[p].pc \in {"created", "filled", "sealed", "verify", "recover", "remove", "dirsync"}
           /\ Fail(p)
  BY <1>1, <1>2, FailKeeps
<1>3. CASE /\ proc[p].pc \in {"cleanup", "cleansync"}
           /\ proc' = [proc EXCEPT ![p].pc = "returned", ![p].result = "failed"]
  <2>1. /\ proc' \in [Procs -> States]
        /\ proc'[p] = [proc[p] EXCEPT !.pc = "returned", !.result = "failed"]
        /\ \A q \in Procs \ {p} : proc'[q] = proc[q]
    BY <1>3, Facts, Ended DEF Places
  <2>2. /\ proc'[p].pc = "returned" /\ proc'[p].call = proc[p].call
        /\ proc'[p].result = "failed"
    BY <2>1, Facts DEF States
  <2>3. Position(p)'
    BY <1>1, <1>3, <2>2, Facts, SameViews DEF Position, NotLinked, OnlyWriters
  <2> QED BY <1>1, <2>1, <2>3, QuietStep
<1> QED BY <1>2, <1>3 DEF Fault

LEMMA CrashKeeps == ASSUME Inv, NEW p \in Procs, Crash(p) PROVE Inv'
<1>1. /\ UNCHANGED <<dir, disk, data, accepted, faulted>> /\ mishaps' \in 0 .. MaxMishaps
      /\ faulted' \in BOOLEAN /\ (~faulted' => ~faulted)
  BY MishapType DEF Crash, fsVars, Inv, TypeInv
<1> DEFINE s == [Idle EXCEPT !.call = proc[p].call]
<1>2. s \in States /\ s.pc = "idle" /\ s.call = proc[p].call /\ s.result = "none"
  BY Facts, FreshStates
<1>3. proc' = [proc EXCEPT ![p] = s]
  BY DEF Crash
<1> HIDE DEF s
<1>4. /\ proc' \in [Procs -> States] /\ proc'[p] = s
      /\ \A q \in Procs \ {p} : proc'[q] = proc[q]
  BY <1>2, <1>3, Facts, Moved
<1>5. Position(p)'
  BY <1>1, <1>2, <1>4, Facts, SameViews DEF Position, NotLinked, OnlyWriters
<1> QED BY <1>1, <1>4, <1>5, QuietStep

-----------------------------------------------------------------------------
(* Steps that change names *)

LEMMA NamesStep ==
    ASSUME Inv, NEW p \in Procs,
           proc' \in [Procs -> States], \A q \in Procs \ {p} : proc'[q] = proc[q],
           UNCHANGED <<disk, data, accepted, mishaps, faulted>>, Steady, Shows(dir)',
           \A q \in Procs \ {p} : proc[q].pc \in NotLinked => Private(q)',
           Position(p)'
    PROVE  Inv'
<1>1. TypeInv'
  BY DEF Inv, TypeInv
<1>2. Tree'
  <2>1. Shows(disk)'
    BY DEF Inv, Tree, Shows, Whole
  <2> QED BY <2>1 DEF Inv, Tree, Steady
<1>3. ASSUME NEW q \in Procs \ {p} PROVE Position(q)'
  BY OthersStay
<1> QED BY <1>1, <1>2, <1>3 DEF Inv

\* What a target shows is a temporary file, and synced.
LEMMA TargetShows ==
    ASSUME Inv, NEW c \in Contents, Target(c) \in DOMAIN dir
    PROVE  dir[Target(c)] \in Temps /\ data[dir[Target(c)]].synced
BY DEF Inv, Tree, Shows, Whole

LEMMA CreateKeeps == ASSUME Inv, NEW w \in Writers, Create(w) PROVE Inv'
<1> DEFINE n == proc[w].call + 1
           t == Temp(w, n)
           s == [Idle EXCEPT !.pc = "created", !.call = n]
<1>1. w \in Procs /\ n \in 1 .. MaxCalls /\ n \in 0 .. MaxCalls /\ n > proc[w].call
  BY Facts, SnapshotAssumption DEF Procs, Create
<1>2. t \in Unused(w) /\ t \in Temps /\ ~data[t].synced
  <2>1. t \in Unused(w)
    BY <1>1 DEF Unused
  <2> QED BY <1>1, <2>1, Facts, OwnNames DEF Position
<1>3. /\ proc' = [proc EXCEPT ![w] = s] /\ dir' = With(dir, t, t)
      /\ UNCHANGED <<disk, data, accepted, mishaps, faulted>>
  BY DEF Create
<1>4. s \in States /\ s.pc = "created" /\ s.call = n /\ s.result = "none"
  <2> HIDE DEF n
  <2> QED BY <1>1, IdleIsState DEF States, Places
<1>5. Own(w)' = t /\ Unused(w)' \subseteq Unused(w)
  <2>1. proc'[w].call = n
    <3> HIDE DEF s
    <3> QED BY <1>1, <1>3, <1>4, Facts
  <2>2. Own(w)' = t
    BY <2>1 DEF Own
  <2>3. \A k \in Nat : k > n => k > proc[w].call
    BY <1>1, Facts
  <2> QED BY <2>1, <2>2, <2>3 DEF Unused
<1> HIDE DEF n, t, s
<1>6. /\ proc' \in [Procs -> States] /\ proc'[w] = s
      /\ \A q \in Procs \ {w} : proc'[q] = proc[q]
  BY <1>1, <1>3, <1>4, Facts, Moved
<1>7. /\ DOMAIN dir' = DOMAIN dir \cup {t} /\ dir'[t] = t
      /\ \A m \in DOMAIN dir : m # t => dir'[m] = dir[m]
  BY <1>3 DEF With
<1>8. ASSUME NEW c \in Contents
      PROVE  /\ Target(c) \in DOMAIN dir' <=> Target(c) \in DOMAIN dir
             /\ Target(c) \in DOMAIN dir =>
                   dir'[Target(c)] = dir[Target(c)] /\ dir[Target(c)] # t
  BY <1>2, <1>7, TargetsAreNoTemps, TargetShows
<1>9. Shows(dir)'
  <2>1. \A c \in Contents : Target(c) \in DOMAIN dir' => Whole(dir[Target(c)], c)'
    BY <1>3, <1>8 DEF Inv, Tree, Shows, Whole
  <2> QED BY <1>2, <1>7, <2>1, NamesAre DEF Inv, Tree, Shows
<1>10. Steady
  BY <1>3, <1>7, <1>8 DEF Steady
<1>11. Private(w)'
  BY <1>5, <1>7, <1>8 DEF Private
<1>12. ASSUME NEW q \in Procs \ {w}, proc[q].pc \in NotLinked PROVE Private(q)'
  <2>1. Own(q)' = Own(q) /\ Private(q)
    BY <1>6, <1>12, Facts DEF Own, Position
  <2> QED BY <1>7, <1>8, <2>1 DEF Private
<1>13. Position(w)'
  BY <1>1, <1>2, <1>3, <1>4, <1>5, <1>6, <1>11, Facts DEF Position, n
<1> QED BY <1>1, <1>3, <1>6, <1>9, <1>10, <1>12, <1>13, NamesStep

\* The link publishes a whole file, under a name that was free.
LEMMA LinkKeeps == ASSUME Inv, NEW w \in Writers, Link(w) PROVE Inv'
<1>1. /\ w \in Procs /\ proc[w].pc = "sealed" /\ Own(w) \in Temps /\ Own(w) \in DOMAIN dir
      /\ data[Own(w)].content = ContentOf[w] /\ data[Own(w)].synced
      /\ UNCHANGED <<disk, data, accepted, mishaps, faulted>>
      /\ mishaps' \in 0 .. MaxMishaps /\ faulted' \in BOOLEAN /\ (~faulted' => ~faulted)
  BY Facts, OwnNames DEF Link, At, Position, Private, NotLinked, Inv, TypeInv
<1>2. ASSUME NEW pc \in {"verify", "dirsync"}, Step(w, pc)
      PROVE  /\ proc' \in [Procs -> States] /\ proc'[w].pc = pc
             /\ proc'[w].call = proc[w].call /\ proc'[w].result = proc[w].result
             /\ \A q \in Procs \ {w} : proc'[q] = proc[q]
  <2>1. /\ proc' \in [Procs -> States] /\ proc'[w] = [proc[w] EXCEPT !.pc = pc]
        /\ \A q \in Procs \ {w} : proc'[q] = proc[q]
    BY <1>1, <1>2, Facts, Stepped, ZenonT(60) DEF Places
  <2> QED BY <1>1, <2>1, Facts DEF States
<1>3. CASE NameOf(w) \in DOMAIN dir /\ Step(w, "verify") /\ UNCHANGED dir
  <2>1. Position(w)'
    BY <1>1, <1>2, <1>3, Facts, SameViews DEF Position, NotLinked, OnlyWriters, There
  <2> QED BY <1>1, <1>2, <1>3, <2>1, QuietStep
<1>4. CASE /\ NameOf(w) \notin DOMAIN dir /\ dir' = With(dir, NameOf(w), Own(w))
           /\ Step(w, "dirsync")
  <2>1. /\ DOMAIN dir' = DOMAIN dir \cup {NameOf(w)} /\ dir'[NameOf(w)] = Own(w)
        /\ \A m \in DOMAIN dir : dir'[m] = dir[m]
    BY <1>4 DEF With
  <2>2. \A t \in Temps : t \in DOMAIN dir' <=> t \in DOMAIN dir
    BY <2>1, TargetsAreNoTemps DEF NameOf
  <2>3. \A c \in Contents : Target(c) \in DOMAIN dir' =>
            \/ c = ContentOf[w] /\ dir'[Target(c)] = Own(w)
            \/ Target(c) \in DOMAIN dir /\ dir'[Target(c)] = dir[Target(c)]
    BY <2>1, TargetsDiffer DEF NameOf
  <2>4. Shows(dir)'
    <3>1. \A c \in Contents : Target(c) \in DOMAIN dir' => Whole(dir[Target(c)], c)'
      BY <1>1, <2>3 DEF Inv, Tree, Shows, Whole
    <3>2. NameOf(w) \in Names
      BY <1>1, Facts, NamesAre DEF NameOf
    <3> QED BY <2>1, <2>2, <3>1, <3>2 DEF Inv, Tree, Shows
  <2>5. Steady
    BY <1>1, <2>1, <2>2, TargetShows DEF Steady
  <2>6. ASSUME NEW q \in Procs \ {w}, proc[q].pc \in NotLinked PROVE Private(q)'
    <3>1. Own(q)' = Own(q) /\ Private(q) /\ q \in Writers
      BY <1>2, <1>4, <2>6, Facts DEF Own, Position, NotLinked, OnlyWriters
    <3>2. Own(q) # Own(w)
      BY <3>1, OwnNames
    <3> QED BY <2>1, <2>3, <3>1, <3>2 DEF Private
  <2>7. Position(w)'
    <3>1. There(w)' /\ Inode(w)' = Own(w) /\ Own(w)' = Own(w) /\ Unused(w)' = Unused(w)
      BY <1>2, <1>4, <2>1 DEF There, Inode, Own, NameOf, Unused
    <3>2. OneName(w) => FALSE
      BY <1>4 DEF OneName, There
    <3> QED BY <1>1, <1>2, <1>4, <3>1, <3>2, Facts DEF Position, NotLinked, OnlyWriters
  <2> QED BY <1>1, <1>2, <1>4, <2>4, <2>5, <2>6, <2>7, NamesStep
<1> QED BY <1>1, <1>3, <1>4 DEF Link

\* A temporary name goes away that no writer needs any more.
LEMMA UnlinkSteady ==
    ASSUME Inv, NEW t \in Temps, dir' = Without(dir, t),
           UNCHANGED <<disk, data, faulted>>
    PROVE  /\ Steady /\ Shows(dir)'
           /\ \A c \in Contents : /\ Target(c) \in DOMAIN dir' <=> Target(c) \in DOMAIN dir
                                  /\ Target(c) \in DOMAIN dir => dir'[Target(c)] = dir[Target(c)]
           /\ DOMAIN dir' = DOMAIN dir \ {t}
           /\ \A q \in Procs : Private(q) /\ Own(q) # t /\ Own(q)' = Own(q) => Private(q)'
<1>1. /\ DOMAIN dir' = DOMAIN dir \ {t}
      /\ \A m \in DOMAIN dir \ {t} : dir'[m] = dir[m]
  BY WithoutRemoves
<1>2. \A c \in Contents : /\ Target(c) \in DOMAIN dir' <=> Target(c) \in DOMAIN dir
                          /\ Target(c) \in DOMAIN dir => dir'[Target(c)] = dir[Target(c)]
  BY <1>1, TargetsAreNoTemps
<1>3. Steady
  BY <1>1, <1>2 DEF Steady
<1>4. Shows(dir)'
  <2>1. \A c \in Contents : Target(c) \in DOMAIN dir' => Whole(dir[Target(c)], c)'
    BY <1>2 DEF Inv, Tree, Shows, Whole
  <2> QED BY <1>1, <2>1 DEF Inv, Tree, Shows
<1>5. \A q \in Procs : Private(q) /\ Own(q) # t /\ Own(q)' = Own(q) => Private(q)'
  BY <1>1, <1>2 DEF Private
<1> QED BY <1>1, <1>2, <1>3, <1>4, <1>5

LEMMA RemoveKeeps == ASSUME Inv, NEW p \in Procs, Remove(p) PROVE Inv'
<1>1. /\ proc[p].pc = "remove" /\ UNCHANGED <<disk, data, accepted, mishaps, faulted>>
      /\ mishaps' \in 0 .. MaxMishaps /\ faulted' \in BOOLEAN /\ (~faulted' => ~faulted)
      /\ There(p) /\ proc[p].inode = Inode(p) /\ proc[p].alias = Inode(p)
  BY Facts DEF Remove, At, Position, Inv, TypeInv
<1>2. Inode(p) \in Temps
  BY <1>1, Facts, TargetShows DEF There, Inode, NameOf
<1>3. CASE proc[p].alias \notin DOMAIN dir
  BY <1>1, <1>3, FailKeeps DEF Remove
<1>4. CASE proc[p].alias \in DOMAIN dir
  <2> DEFINE s == [proc[p] EXCEPT !.pc = "recover", !.alias = <<>>, !.removed = TRUE]
  <2>1. dir' = Without(dir, Inode(p)) /\ proc' = [proc EXCEPT ![p] = s]
    BY <1>1, <1>4 DEF Remove
  <2>2. /\ s \in States /\ s.pc = "recover" /\ s.inode = proc[p].inode /\ s.call = proc[p].call
        /\ s.result = proc[p].result
    BY Facts DEF States, Places
  <2> HIDE DEF s
  <2>3. /\ proc' \in [Procs -> States] /\ proc'[p] = s
        /\ \A q \in Procs \ {p} : proc'[q] = proc[q]
    BY <2>1, <2>2, Facts, Moved
  <2>4. There(p)' /\ Inode(p)' = Inode(p) /\ (OneName(p) => OneName(p)')
    BY <1>1, <1>2, <2>1, Facts, UnlinkSteady DEF There, Inode, NameOf, OneName
  <2>5. ASSUME NEW q \in Procs \ {p}, proc[q].pc \in NotLinked PROVE Private(q)'
    <3>1. Own(q)' = Own(q) /\ Private(q)
      BY <2>3, <2>5, Facts DEF Own, Position
    <3>2. Own(q) # Inode(p)
      BY <1>1, <3>1, Facts DEF Private, There, Inode, NameOf
    <3> QED BY <1>1, <1>2, <2>1, <3>1, <3>2, UnlinkSteady
  <2>6. Position(p)'
    <3>1. Unused(p)' = Unused(p)
      BY <2>2, <2>3 DEF Unused
    <3> QED BY <1>1, <2>2, <2>3, <2>4, <3>1, Facts DEF Position, NotLinked, OnlyWriters
  <2> QED BY <1>1, <1>2, <2>1, <2>3, <2>5, <2>6, UnlinkSteady, NamesStep
<1> QED BY <1>3, <1>4

LEMMA CleanupKeeps == ASSUME Inv, NEW w \in Writers, Cleanup(w) PROVE Inv'
<1>1. /\ w \in Procs /\ proc[w].pc = "cleanup" /\ Own(w) \in Temps
      /\ UNCHANGED <<disk, data, mishaps, faulted>>
      /\ proc[w].result # "failed" =>
            /\ NameOf(w) \in DOMAIN disk /\ There(w)
            /\ Inode(w) = Own(w) \/ OneName(w)
  BY Facts, OwnNames DEF Cleanup, At, Position
<1>2. CASE Own(w) \notin DOMAIN dir /\ Return(w) /\ UNCHANGED dir
  <2>1. proc[w].result # "failed" => OneName(w)
    BY <1>1, <1>2 DEF OneName
  <2> QED BY <1>1, <1>2, <2>1, ReturnKeeps
<1>3. CASE /\ Own(w) \in DOMAIN dir /\ dir' = Without(dir, Own(w)) /\ Step(w, "cleansync")
           /\ UNCHANGED accepted
  <2>1. /\ proc' \in [Procs -> States] /\ proc'[w] = [proc[w] EXCEPT !.pc = "cleansync"]
        /\ \A q \in Procs \ {w} : proc'[q] = proc[q]
    BY <1>1, <1>3, Facts, Stepped DEF Places
  <2>2. /\ proc'[w].pc = "cleansync" /\ proc'[w].call = proc[w].call
        /\ proc'[w].result = proc[w].result
    BY <1>1, <2>1, Facts DEF States
  <2>3. /\ There(w) => There(w)' /\ Inode(w)' = Inode(w)
        /\ There(w) /\ (Inode(w) = Own(w) \/ OneName(w)) => OneName(w)'
    BY <1>1, <1>3, Facts, UnlinkSteady DEF There, Inode, NameOf, OneName
  <2>4. ASSUME NEW q \in Procs \ {w}, proc[q].pc \in NotLinked PROVE Private(q)'
    <3>1. Own(q)' = Own(q) /\ Private(q) /\ q \in Writers
      BY <2>1, <2>4, Facts DEF Own, Position, NotLinked, OnlyWriters
    <3>2. Own(q) # Own(w)
      BY <3>1, OwnNames
    <3> QED BY <1>1, <1>3, <3>1, <3>2, UnlinkSteady
  <2>5. Position(w)'
    <3>1. Unused(w)' = Unused(w) /\ Own(w)' = Own(w)
      BY <2>2 DEF Unused, Own
    <3>2. NameOf(w)' = NameOf(w)
      BY DEF NameOf
    <3>3. OneName(w) => There(w)
      BY DEF OneName
    <3> QED BY <1>1, <2>2, <2>3, <3>1, <3>2, <3>3, Facts DEF Position, NotLinked, OnlyWriters
  <2> QED BY <1>1, <1>3, <2>1, <2>4, <2>5, UnlinkSteady, NamesStep
<1> QED BY <1>2, <1>3 DEF Cleanup

-----------------------------------------------------------------------------
(* Power loss *)

\* Each name shows what it showed or what was on disk, and a snapshot on disk stays.
LEMMA WhatIsLeft ==
    ASSUME Inv, PowerLoss
    PROVE  /\ disk' = dir'
           /\ \A n \in DOMAIN dir' : \/ n \in DOMAIN dir /\ dir'[n] = dir[n]
                                     \/ n \in DOMAIN disk /\ dir'[n] = disk[n]
           /\ \A c \in Contents : /\ Target(c) \in DOMAIN disk => Target(c) \in DOMAIN dir'
                                  /\ Target(c) \in DOMAIN dir' => Target(c) \in DOMAIN dir
           /\ UNCHANGED <<accepted, faulted>>
<1>1. PICK kept \in SUBSET {n \in DOMAIN dir \cup DOMAIN disk :
                              \/ n \notin DOMAIN dir \/ n \notin DOMAIN disk
                              \/ dir[n] # disk[n]} :
          dir' = [n \in (DOMAIN disk \ kept) \cup (DOMAIN dir \cap kept) |->
                     IF n \in kept THEN dir[n] ELSE disk[n]]
  BY DEF PowerLoss
<1>2. /\ DOMAIN dir' = (DOMAIN disk \ kept) \cup (DOMAIN dir \cap kept)
      /\ \A n \in DOMAIN dir' : dir'[n] = IF n \in kept THEN dir[n] ELSE disk[n]
  BY <1>1
<1>3. \A c \in Contents : Target(c) \in DOMAIN disk => Target(c) \in DOMAIN dir
  BY DEF Inv, Tree
<1> QED BY <1>2, <1>3 DEF PowerLoss

LEMMA PowerLossKeeps == ASSUME Inv, PowerLoss PROVE Inv'
<1>1. /\ data' \in [Temps -> Files]
      /\ \A t \in Temps : data'[t].synced = data[t].synced
      /\ \A t \in Temps : data[t].synced => data'[t] = data[t]
  <2>1. data' = [i \in Temps |-> IF data[i].synced THEN data[i]
                                 ELSE [data[i] EXCEPT !.content = "torn"]]
    BY DEF PowerLoss
  <2>2. ASSUME NEW i \in Temps
        PROVE  /\ data[i] \in Files /\ [data[i] EXCEPT !.content = "torn"] \in Files
               /\ [data[i] EXCEPT !.content = "torn"].synced = data[i].synced
    BY DEF Inv, TypeInv, Files
  <2> QED BY <2>1, <2>2
<1>2. /\ proc' \in [Procs -> States]
      /\ \A p \in Procs : /\ proc'[p].pc = "idle" /\ proc'[p].call = proc[p].call
                          /\ proc'[p].result = "none"
  <2>1. proc' = [p \in Procs |-> [Idle EXCEPT !.call = proc[p].call]]
    BY DEF PowerLoss
  <2>2. ASSUME NEW p \in Procs
        PROVE  /\ [Idle EXCEPT !.call = proc[p].call] \in States
               /\ [Idle EXCEPT !.call = proc[p].call].pc = "idle"
               /\ [Idle EXCEPT !.call = proc[p].call].call = proc[p].call
               /\ [Idle EXCEPT !.call = proc[p].call].result = "none"
    BY Facts, FreshStates
  <2> QED BY <2>1, <2>2
<1>3. TypeInv'
  BY <1>1, <1>2, WhatIsLeft, MishapType DEF PowerLoss, Inv, TypeInv
<1>4. Tree'
  <2>1. ASSUME NEW i, NEW c, Whole(i, c) PROVE Whole(i, c)'
    BY <1>1, <2>1 DEF Whole
  <2>2. \A c \in Contents : Target(c) \in DOMAIN dir' => Whole(dir[Target(c)], c)'
    BY <2>1, WhatIsLeft DEF Inv, Tree, Shows
  <2>3. DOMAIN dir' \subseteq Names /\ \A t \in Temps : t \in DOMAIN dir' => dir'[t] = t
    BY WhatIsLeft DEF Inv, Tree, Shows
  <2>4. Shows(dir)' /\ Shows(disk)'
    BY <2>2, <2>3, WhatIsLeft DEF Shows
  <2> QED BY <2>4, WhatIsLeft DEF Inv, TypeInv, Tree
<1>5. ASSUME NEW p \in Procs PROVE Position(p)'
  <2>1. p \in Writers => \A t \in Unused(p)' : ~data'[t].synced
    <3>1. Unused(p)' = Unused(p)
      BY <1>2 DEF Unused
    <3> QED BY <1>1, <3>1, Facts, OwnNames DEF Position
  <2> QED BY <1>2, <2>1 DEF Position, OnlyWriters, NotLinked
<1> QED BY <1>3, <1>4, <1>5 DEF Inv

LEMMA NextInv == Inv /\ [Next]_vars => Inv'
<1> SUFFICES ASSUME Inv, [Next]_vars PROVE Inv'
  OBVIOUS
<1>1. CASE UNCHANGED vars
  <2>1. TypeInv' /\ Tree'
    BY <1>1 DEF vars, fsVars, Inv, TypeInv, Tree, Shows, Whole
  <2>2. ASSUME NEW p \in Procs PROVE Position(p)'
    BY <1>1, Facts, SameViews DEF vars, fsVars, Position, NotLinked
  <2> QED BY <2>1, <2>2 DEF Inv
<1>2. ASSUME NEW w \in Writers, WriterStep(w) PROVE Inv'
  BY <1>2, CreateKeeps, FillKeeps, SealKeeps, LinkKeeps, SyncDirectoryKeeps, CleanupKeeps,
     CleanupSyncKeeps DEF WriterStep
<1>3. ASSUME NEW p \in Procs, VerifyStep(p) \/ Fault(p) \/ Crash(p) PROVE Inv'
  BY <1>3, OpenKeeps, InspectKeeps, RemoveKeeps, RecheckKeeps, FaultKeeps, CrashKeeps
     DEF VerifyStep
<1> QED BY <1>1, <1>2, <1>3, ReadKeeps, PowerLossKeeps DEF Next

-----------------------------------------------------------------------------
(* Steps as the steps of a content store *)

Stored == {c \in Contents : /\ Target(c) \in DOMAIN dir
                            /\ data[dir[Target(c)]].content = c}
Snapshots == {c \in Contents : Target(c) \in DOMAIN dir}

LEMMA StoredAre == (Inv => Stored = Snapshots) /\ (Inv' => Stored' = Snapshots')
<1>1. Inv => Stored = Snapshots
  BY DEF Inv, Tree, Shows, Whole, Stored, Snapshots
<1>2. Inv' => Stored' = Snapshots'
  BY DEF Inv, Tree, Shows, Whole, Stored, Snapshots
<1> QED BY <1>1, <1>2

LEMMA StepMaps == Inv /\ [Next]_vars => [Store!StoreNext]_(Store!storeVars)
<1> SUFFICES ASSUME Inv, [Next]_vars PROVE [Store!StoreNext]_(Store!storeVars)
  OBVIOUS
<1>1. Stored = Snapshots /\ Stored' = Snapshots'
  BY NextInv, StoredAre
<1>2. ASSUME Snapshots' = Snapshots, accepted' = accepted PROVE UNCHANGED Store!storeVars
  BY <1>1, <1>2 DEF Store!storeVars, Stored
<1>3. CASE UNCHANGED vars
  BY <1>2, <1>3 DEF vars, fsVars, Snapshots
<1>4. CASE PowerLoss
  <2>1. Snapshots' \subseteq Snapshots /\ accepted \subseteq Snapshots' /\ accepted' = accepted
    BY <1>4, WhatIsLeft DEF Snapshots, Inv, TypeInv, Tree
  <2>2. Store!Lose
    BY <1>1, <2>1 DEF Store!Lose, Stored
  <2> QED BY <2>2 DEF Store!StoreNext
<1>5. ASSUME NEW w \in Writers, Create(w) PROVE UNCHANGED Store!storeVars
  <2>1. \A c : Target(c) # Temp(w, proc[w].call + 1)
    BY DEF Target, Temp
  <2>2. DOMAIN dir' = DOMAIN dir \cup {Temp(w, proc[w].call + 1)} /\ accepted' = accepted
    BY <1>5 DEF Create, With
  <2>3. Snapshots' = Snapshots
    BY <2>1, <2>2 DEF Snapshots
  <2> QED BY <1>2, <2>2, <2>3
<1>6. ASSUME NEW w \in Writers, Link(w) PROVE [Store!StoreNext]_(Store!storeVars)
  <2>1. CASE UNCHANGED dir
    BY <1>2, <1>6, <2>1 DEF Link, Snapshots
  <2>2. CASE dir' = With(dir, NameOf(w), Own(w))
    <3>1. ContentOf[w] \in Contents /\ accepted' = accepted
      BY <1>6, Facts DEF Link, Procs
    <3>2. Snapshots' = Snapshots \cup {ContentOf[w]}
      BY <2>2, <3>1, TargetsDiffer DEF With, Snapshots, NameOf
    <3>3. Store!Store(ContentOf[w])
      BY <1>1, <3>1, <3>2 DEF Store!Store, Stored
    <3> QED BY <3>1, <3>3 DEF Store!StoreNext
  <2> QED BY <1>6, <2>1, <2>2 DEF Link
<1>7. ASSUME NEW w \in Writers, Return(w), Snapshots' = Snapshots,
             proc[w].result # "failed" => There(w)
      PROVE  [Store!StoreNext]_(Store!storeVars)
  <2>1. CASE proc[w].result = "failed"
    BY <1>2, <1>7, <2>1 DEF Return
  <2>2. CASE proc[w].result # "failed"
    <3>1. ContentOf[w] \in Contents /\ accepted' = accepted \cup {ContentOf[w]}
      BY <1>7, <2>2, Facts DEF Return, Procs
    <3>2. ContentOf[w] \in Snapshots
      BY <1>7, <2>2, <3>1 DEF There, NameOf, Snapshots
    <3>3. Store!Acknowledge(ContentOf[w])
      BY <1>1, <1>7, <3>1, <3>2 DEF Store!Acknowledge, Stored
    <3> QED BY <3>1, <3>3 DEF Store!StoreNext
  <2> QED BY <2>1, <2>2
<1>8. ASSUME NEW t \in Temps, dir' = Without(dir, t) PROVE Snapshots' = Snapshots
  <2>1. DOMAIN dir' = DOMAIN dir \ {t}
    BY <1>8, WithoutRemoves
  <2>2. \A c \in Contents : Target(c) \in DOMAIN dir' <=> Target(c) \in DOMAIN dir
    BY <2>1, TargetsAreNoTemps
  <2> QED BY <2>2 DEF Snapshots
<1>9. ASSUME NEW w \in Writers, Cleanup(w) \/ CleanupSync(w)
      PROVE  [Store!StoreNext]_(Store!storeVars)
  <2>1. /\ w \in Procs /\ proc[w].pc \in {"cleanup", "cleansync"} /\ Own(w) \in Temps
        /\ proc[w].result # "failed" => There(w)
    BY <1>9, Facts, OwnNames DEF Cleanup, CleanupSync, At, Position
  <2>2. Snapshots' = Snapshots
    <3>1. dir' = dir \/ dir' = Without(dir, Own(w))
      BY <1>9 DEF Cleanup, CleanupSync
    <3> QED BY <1>8, <2>1, <3>1 DEF Snapshots
  <2> QED BY <1>2, <1>7, <1>9, <2>1, <2>2 DEF Cleanup, CleanupSync
<1>10. ASSUME NEW p \in Procs, Remove(p) PROVE UNCHANGED Store!storeVars
  <2>1. proc[p].alias \in Temps
    <3>1. proc[p].alias = Inode(p) /\ There(p)
      BY <1>10, Facts DEF Remove, At, Position
    <3> QED BY <3>1, Facts, TargetShows DEF There, Inode, NameOf
  <2>2. dir' = dir \/ dir' = Without(dir, proc[p].alias)
    BY <1>10 DEF Remove
  <2>3. Snapshots' = Snapshots
    BY <1>8, <2>1, <2>2 DEF Snapshots
  <2> QED BY <1>2, <1>10, <2>3 DEF Remove
<1>11. ASSUME UNCHANGED <<dir, accepted>> PROVE UNCHANGED Store!storeVars
  BY <1>2, <1>11 DEF Snapshots
<1>12. ASSUME NEW w \in Writers, Fill(w) \/ Seal(w) \/ SyncDirectory(w)
       PROVE  UNCHANGED <<dir, accepted>>
  BY <1>12 DEF Fill, Seal, SyncDirectory
<1>13. ASSUME NEW r \in Readers, Read(r) PROVE UNCHANGED <<dir, accepted>>
  BY <1>13 DEF Read, fsVars
<1>14. ASSUME NEW p \in Procs,
              \/ Open(p) \/ (\E n \in Temps : Inspect(p, n)) \/ Recheck(p)
              \/ Fault(p) \/ Crash(p)
       PROVE  UNCHANGED <<dir, accepted>>
  BY <1>14 DEF Open, Inspect, Recheck, Fault, Crash, fsVars
<1>15. ASSUME NEW w \in Writers, WriterStep(w) PROVE [Store!StoreNext]_(Store!storeVars)
  BY <1>5, <1>6, <1>9, <1>11, <1>12, <1>15 DEF WriterStep
<1>16. ASSUME NEW p \in Procs, VerifyStep(p) \/ Fault(p) \/ Crash(p)
       PROVE  [Store!StoreNext]_(Store!storeVars)
  BY <1>10, <1>11, <1>14, <1>16 DEF VerifyStep
<1> QED BY <1>3, <1>4, <1>11, <1>13, <1>15, <1>16 DEF Next

-----------------------------------------------------------------------------
(* The theorems *)

LEMMA AlwaysInv == Spec => []Inv
BY InitInv, NextInv, PTL DEF Spec

\* A snapshot's name shows its whole content or nothing, and a content a write
\* returned for stays, whatever processes interleave, die or lose power.
THEOREM SnapshotsAreKept == Spec => ImplementsContentStore
<1>1. Init => Store!StoreInit
  BY DEF Init, Store!StoreInit
<1> QED BY <1>1, InitInv, NextInv, StepMaps, PTL
        DEF Spec, ImplementsContentStore, Store!StoreSpec

\* Readers insist on a single link: from the moment a write returns there is one.
THEOREM SuccessLeavesOneName == Spec => []OneNameAfterSuccess
<1>1. Inv => OneNameAfterSuccess
  <2> SUFFICES ASSUME Inv PROVE OneNameAfterSuccess
    OBVIOUS
  <2>1. TypeOK
    <3>1. /\ DOMAIN dir \subseteq Names /\ DOMAIN disk \subseteq Names
          /\ \A n \in DOMAIN dir : dir[n] \in Temps
          /\ \A n \in DOMAIN disk : disk[n] \in Temps
      BY NamesAre DEF Inv, Tree, Shows, Whole
    <3>2. /\ DOMAIN proc = Procs
          /\ \A p \in Procs : proc[p].todo \subseteq Temps /\ proc[p].call \in 0 .. MaxCalls
      BY Facts DEF Inv, TypeInv
    <3> QED BY <3>1, <3>2 DEF Inv, TypeInv, TypeOK, Files
  <2>2. ASSUME NEW w \in Writers, proc[w].result = "ok" PROVE Nlink(dir[NameOf(w)]) = 1
    <3>1. w \in Procs /\ OneName(w)
      BY <2>2, Facts DEF Procs, Position
    <3> QED BY <3>1, OneNameIsOneLink DEF OneName, Inode
  <2> QED BY <2>1, <2>2 DEF OneNameAfterSuccess
<1> QED BY <1>1, AlwaysInv, PTL

\* Writers never make each other fail but over a snapshot that is already there.
THEOREM FailuresFindItThere == Spec => []FailureFindsItPublished
<1>1. Inv => FailureFindsItPublished
  BY Facts DEF Inv, Procs, Position, There, FailureFindsItPublished
<1> QED BY <1>1, AlwaysInv, PTL

=============================================================================
