---------------------------- MODULE ManifestProofs ---------------------------
(***************************************************************************)
(* Proofs, for any processes, batches and bounds, that the manifest        *)
(* implements BatchLog (ManifestIsBatchLog), and of the safety of the      *)
(* ingestion runs that write it.                                           *)
(*                                                                         *)
(* The file a power loss may bring back is any that the name showed since  *)
(* the directory was last synced.  Each of them is synced, holds all that  *)
(* was reported as appended, and holds, of each batch it has a record of,  *)
(* a record of every id (Sound).  So what is left is in whole batches.     *)
(* The lock lets what a writer read be what the name shows until it        *)
(* replaces it (Position).                                                 *)
(*                                                                         *)
(* A run of ingestion that is under way has fetched the whole universe,    *)
(* and the store has answered for the snapshots it has passed (Underway);  *)
(* so a batch that reaches the manifest is whole and has its snapshots,    *)
(* and an id, which determines its content, has one record.                *)
(***************************************************************************)
EXTENDS ManifestLog, Ingestion, NaturalsInduction, WellFoundedInduction, TLAPS

AllRecords == UNION {Records(BatchOf[w]) : w \in Writers}
Batch(w) == Records(BatchOf[w])

Places == {"idle", "waiting", "read", "check", "write", "sync", "replace", "dirsync", "release",
           "returned"}
Held == Places \ {"idle", "waiting", "returned"}
OnlyWriters == {"check", "write", "sync", "replace", "dirsync"}

Content == [lines : Seq(AllRecords), synced : BOOLEAN]

States == [pc : Places, calls : Nat, read : Seq(AllRecords), temp : Content,
           result : {"none", "ok", "failed"}]

TypeInv ==
    /\ file \in Content /\ older \subseteq Content
    /\ proc \in [Procs -> States]

OneForm(records) == \A x, y \in records : x.id = y.id => x = y

\* A file the name may show.
Sound(f) ==
    /\ f.synced
    /\ appended \subseteq Records(f.lines) /\ Records(f.lines) \subseteq Records(file.lines)
    /\ \A w \in Writers : Batch(w) \cap Records(f.lines) # {} =>
          Log!Ids(Batch(w)) \subseteq Log!Ids(Records(f.lines))

Addition(w) == NewLines(BatchOf[w], proc[w].read)

Position(p) ==
    /\ proc[p].pc \in Held => lock = p
    /\ proc[p].pc \in OnlyWriters => p \in Writers /\ OneForm(Batch(p))
    /\ proc[p].pc \in {"waiting", "read"} /\ p \in Writers => OneForm(Batch(p))
    /\ proc[p].pc \in {"check", "write", "sync", "replace"} => proc[p].read = file.lines
    /\ proc[p].pc \in {"write", "sync", "replace"} =>
          \A x \in Batch(p) : ~Contradicts(x, proc[p].read)
    /\ proc[p].pc \in {"sync", "replace"} => proc[p].temp.lines = proc[p].read \o Addition(p)
    /\ proc[p].pc = "replace" => proc[p].temp.synced
    /\ proc[p].pc = "dirsync" => Records(Addition(p)) \subseteq Records(file.lines)

Inv ==
    /\ TypeInv /\ OneForm(Records(file.lines))
    /\ \A f \in older \cup {file} : Sound(f)
    /\ \A p \in Procs : Position(p)

-----------------------------------------------------------------------------
(* Sequences of records *)

LEMMA AppendRecords ==
    ASSUME NEW S, NEW x \in Seq(S), NEW r \in S
    PROVE  Append(x, r) \in Seq(S) /\ Records(Append(x, r)) = Records(x) \cup {r}
<1>1. /\ Len(x) \in Nat /\ DOMAIN x = 1 .. Len(x) /\ DOMAIN Append(x, r) = 1 .. Len(x) + 1
      /\ Append(x, r) \in Seq(S)
  OBVIOUS
<1>2. /\ Append(x, r)[Len(x) + 1] = r
      /\ \A i \in 1 .. Len(x) : Append(x, r)[i] = x[i]
  BY <1>1
<1>3. 1 .. Len(x) + 1 = (1 .. Len(x)) \cup {Len(x) + 1}
  BY <1>1
<1> QED BY <1>1, <1>2, <1>3 DEF Records

LEMMA ConcatRecords ==
    ASSUME NEW S, NEW x \in Seq(S), NEW y \in Seq(S)
    PROVE  x \o y \in Seq(S) /\ Records(x \o y) = Records(x) \cup Records(y)
<1> DEFINE z == x \o y
<1>1. /\ Len(x) \in Nat /\ DOMAIN x = 1 .. Len(x) /\ Len(y) \in Nat /\ DOMAIN y = 1 .. Len(y)
      /\ z \in Seq(S) /\ DOMAIN z = 1 .. Len(x) + Len(y)
  OBVIOUS
<1>2. /\ \A i \in 1 .. Len(x) : z[i] = x[i]
      /\ \A j \in 1 .. Len(y) : z[Len(x) + j] = y[j]
  BY <1>1
<1> HIDE DEF z
<1>3. \A i \in DOMAIN z : z[i] \in Records(x) \cup Records(y)
  <2> SUFFICES ASSUME NEW i \in 1 .. Len(x) + Len(y) PROVE z[i] \in Records(x) \cup Records(y)
    BY <1>1
  <2>1. CASE i \in 1 .. Len(x)
    BY <1>1, <1>2, <2>1 DEF Records
  <2>2. CASE i \notin 1 .. Len(x)
    <3>1. i - Len(x) \in 1 .. Len(y) /\ Len(x) + (i - Len(x)) = i
      BY <1>1, <2>2
    <3> QED BY <1>1, <1>2, <3>1 DEF Records
  <2> QED BY <2>1, <2>2
<1>4. \A i \in 1 .. Len(x) : x[i] \in Records(z)
  <2> SUFFICES ASSUME NEW i \in 1 .. Len(x) PROVE x[i] \in Records(z)
    OBVIOUS
  <2>1. i \in DOMAIN z
    BY <1>1
  <2> QED BY <1>2, <2>1 DEF Records
<1>5. \A j \in 1 .. Len(y) : y[j] \in Records(z)
  <2> SUFFICES ASSUME NEW j \in 1 .. Len(y) PROVE y[j] \in Records(z)
    OBVIOUS
  <2>1. Len(x) + j \in DOMAIN z
    BY <1>1
  <2> QED BY <1>2, <2>1 DEF Records
<1> QED BY <1>1, <1>3, <1>4, <1>5 DEF Records, z

LEMMA NatMin ==
    ASSUME NEW T, T \subseteq Nat, T # {}
    PROVE  \E m \in T : \A k \in T : m <= k
<1>1. PICK m \in T : \A k \in T : ~(<<k, m>> \in OpToRel(<, Nat))
  BY NatLessThanWellFounded, WFMin
<1>2. \A k \in T : ~(k < m)
  BY <1>1 DEF OpToRel
<1> QED BY <1>2

\* One step of NewUpTo.
Turn(x, r, lines) == IF Known(r, lines) THEN x ELSE Append(x, r)

\* The recursive function of NewUpTo exists and satisfies its equation.
LEMMA NewUpToDef ==
    ASSUME NEW batch, NEW lines, Len(batch) \in Nat
    PROVE  NewUpTo(batch, lines) =
              [n \in 0 .. Len(batch) |->
                 IF n = 0 THEN <<>> ELSE Turn(NewUpTo(batch, lines)[n-1], batch[n], lines)]
<1> DEFINE Body(f, n) ==
              [k \in 0 .. n |-> IF k = 0 THEN <<>> ELSE Turn(f[k-1], batch[k], lines)]
           T == {n \in Nat : ~\E f : f = Body(f, n)}
<1>1. \E f : f = Body(f, 0)
  <2> DEFINE g == [k \in 0 .. 0 |-> <<>>]
  <2>1. \A k \in 0 .. 0 : k = 0
    OBVIOUS
  <2>2. g = Body(g, 0)
    BY <2>1
  <2> QED BY <2>2
<1>2. ASSUME NEW n \in Nat, NEW f, f = Body(f, n)
      PROVE  \E g : g = Body(g, n + 1)
  <2> DEFINE g == [k \in 0 .. n + 1 |-> IF k = n + 1 THEN Turn(f[n], batch[n+1], lines) ELSE f[k]]
             h == Body(g, n + 1)
  <2>1. \A k \in 0 .. n : f[k] = IF k = 0 THEN <<>> ELSE Turn(f[k-1], batch[k], lines)
    <3> DEFINE b == Body(f, n)
    <3>1. \A k \in 0 .. n : b[k] = IF k = 0 THEN <<>> ELSE Turn(f[k-1], batch[k], lines)
      OBVIOUS
    <3> HIDE DEF b
    <3> QED BY <1>2, <3>1 DEF b
  <2>2. \A k \in 0 .. n + 1 : g[k] = h[k]
    <3> SUFFICES ASSUME NEW k \in 0 .. n + 1 PROVE g[k] = h[k]
      OBVIOUS
    <3>1. CASE k = n + 1
      <4>1. g[k] = Turn(f[n], batch[n+1], lines) /\ g[n] = f[n]
        BY <3>1
      <4>2. h[k] = Turn(g[n], batch[n+1], lines)
        BY <3>1
      <4> QED BY <4>1, <4>2
    <3>2. CASE k = 0
      BY <2>1, <3>2
    <3>3. CASE k \in 1 .. n
      <4>1. g[k] = f[k] /\ g[k-1] = f[k-1]
        BY <3>3
      <4>2. h[k] = Turn(g[k-1], batch[k], lines)
        BY <3>3
      <4> QED BY <2>1, <3>3, <4>1, <4>2
    <3> QED BY <3>1, <3>2, <3>3
  <2>3. g = h
    <3> g = [k \in 0 .. n + 1 |-> g[k]] /\ h = [k \in 0 .. n + 1 |-> h[k]]
      OBVIOUS
    <3> HIDE DEF g, h
    <3> QED BY <2>2
  <2> HIDE DEF g
  <2> QED BY <2>3
<1>3. T = {}
  <2> SUFFICES ASSUME T # {} PROVE FALSE
    OBVIOUS
  <2>1. T \subseteq Nat
    OBVIOUS
  <2>2. PICK m \in T : \A k \in T : m <= k
    <3> HIDE DEF T
    <3> QED BY <2>1, NatMin
  <2>3. m # 0
    BY <1>1, <2>2
  <2>4. m - 1 \in Nat /\ m - 1 \notin T
    <3>1. m \in Nat
      BY <2>2
    <3>2. m - 1 \in Nat /\ ~(m <= m - 1)
      BY <2>3, <3>1
    <3> HIDE DEF T
    <3> QED BY <2>2, <3>2
  <2>5. PICK f : f = Body(f, m - 1)
    BY <2>4
  <2>6. \E g : g = Body(g, m - 1 + 1)
    <3> HIDE DEF Body
    <3> QED BY <1>2, <2>4, <2>5
  <2>7. m - 1 + 1 = m
    BY <2>2
  <2> HIDE DEF Body
  <2> QED BY <2>2, <2>6, <2>7
<1>4. \E f : f = Body(f, Len(batch))
  <2> HIDE DEF Body
  <2> QED BY <1>3
<1>5. NewUpTo(batch, lines) = CHOOSE f : f = Body(f, Len(batch))
  BY DEF NewUpTo, Turn
<1>6. NewUpTo(batch, lines) = Body(NewUpTo(batch, lines), Len(batch))
  <2> HIDE DEF Body
  <2> QED BY <1>4, <1>5
<1> QED BY <1>6

\* The new lines of a batch are its records that are not there yet.
LEMMA NewLinesAre ==
    ASSUME NEW S, NEW batch \in Seq(S), NEW lines
    PROVE  /\ NewLines(batch, lines) \in Seq(S)
           /\ Records(NewLines(batch, lines)) = {r \in Records(batch) : ~Known(r, lines)}
<1> DEFINE f == NewUpTo(batch, lines)
           N == Len(batch)
           New(n) == {batch[i] : i \in {j \in 1 .. n : ~Known(batch[j], lines)}}
           Good(n) == f[n] \in Seq(S) /\ Records(f[n]) = New(n)
           T == {k \in 0 .. N : ~Good(k)}
<1>1. N \in Nat /\ DOMAIN batch = 1 .. N /\ \A i \in 1 .. N : batch[i] \in S
  OBVIOUS
<1>2. /\ f[0] = <<>>
      /\ \A k \in 1 .. N : f[k] = Turn(f[k-1], batch[k], lines)
  BY <1>1, NewUpToDef
<1> HIDE DEF f
<1>3. Good(0)
  <2>1. <<>> \in Seq(S) /\ Records(<<>>) = {}
    BY DEF Records
  <2>2. New(0) = {}
    OBVIOUS
  <2> QED BY <1>2, <2>1, <2>2
<1>4. ASSUME NEW k \in 1 .. N, Good(k - 1) PROVE Good(k)
  <2>1. batch[k] \in S /\ f[k] = Turn(f[k-1], batch[k], lines)
    BY <1>1, <1>2
  <2>2. 1 .. k = (1 .. k - 1) \cup {k}
    BY <1>1
  <2>3. CASE Known(batch[k], lines)
    <3>1. New(k) = New(k - 1)
      BY <2>2, <2>3
    <3> QED BY <1>4, <2>1, <2>3, <3>1 DEF Turn
  <2>4. CASE ~Known(batch[k], lines)
    <3>1. New(k) = New(k - 1) \cup {batch[k]}
      BY <2>2, <2>4
    <3>2. f[k] = Append(f[k-1], batch[k])
      BY <2>1, <2>4 DEF Turn
    <3>3. f[k-1] \in Seq(S) /\ Records(f[k-1]) = New(k - 1)
      BY <1>4
    <3> HIDE DEF New
    <3> QED BY <2>1, <3>1, <3>2, <3>3, AppendRecords
  <2> QED BY <2>3, <2>4
<1> HIDE DEF Good, N
<1>5. T = {}
  <2> SUFFICES ASSUME T # {} PROVE FALSE
    OBVIOUS
  <2>1. T \subseteq Nat
    BY <1>1
  <2>2. PICK m \in T : \A k \in T : m <= k
    <3> HIDE DEF T
    <3> QED BY <2>1, NatMin
  <2>3. m \in 0 .. N /\ ~Good(m)
    BY <2>2
  <2>4. m # 0
    BY <1>3, <2>3
  <2>5. m \in 1 .. N /\ m - 1 \in 0 .. N /\ ~(m <= m - 1)
    BY <1>1, <2>3, <2>4
  <2>6. Good(m - 1)
    BY <2>2, <2>5
  <2> QED BY <1>4, <2>3, <2>5, <2>6
<1>6. Good(N)
  BY <1>1, <1>5
<1>7. New(N) = {r \in Records(batch) : ~Known(r, lines)}
  BY <1>1 DEF Records
<1> QED BY <1>6, <1>7 DEF Good, NewLines, f, N

-----------------------------------------------------------------------------
(* Processes *)

LEMMA Facts ==
    ASSUME Inv, NEW p \in Procs
    PROVE  /\ proc \in [Procs -> States] /\ proc[p] \in States
           /\ proc[p].calls \in Nat /\ proc[p].read \in Seq(AllRecords)
           /\ proc[p].temp \in Content /\ file \in Content /\ older \subseteq Content
           /\ file.lines \in Seq(AllRecords)
           /\ Position(p)
BY DEF Inv, TypeInv, States, Content

\* What a batch adds to the lines read.
LEMMA Additions ==
    ASSUME NEW w \in Writers
    PROVE  /\ Addition(w) \in Seq(AllRecords)
           /\ Records(Addition(w)) = {x \in Batch(w) : ~Known(x, proc[w].read)}
           /\ Batch(w) \subseteq AllRecords
<1>1. BatchOf[w] \in Seq(Batch(w))
  BY ManifestAssumption DEF Batch
<1>2. /\ Addition(w) \in Seq(Batch(w))
      /\ Records(Addition(w)) = {x \in Batch(w) : ~Known(x, proc[w].read)}
  BY <1>1, NewLinesAre DEF Addition, Batch
<1>3. Batch(w) \subseteq AllRecords
  BY DEF Batch, AllRecords
<1>4. Addition(w) \in Seq(AllRecords)
  BY <1>2, <1>3
<1> QED BY <1>2, <1>3, <1>4

LEMMA Moved ==
    ASSUME proc \in [Procs -> States], NEW p \in Procs, NEW s \in States,
           proc' = [proc EXCEPT ![p] = s]
    PROVE  /\ proc' \in [Procs -> States] /\ proc'[p] = s
           /\ \A q \in Procs \ {p} : proc'[q] = proc[q]
OBVIOUS

LEMMA Stepped ==
    ASSUME proc \in [Procs -> States], NEW p \in Procs, NEW pc \in Places, Step(p, pc)
    PROVE  /\ proc' \in [Procs -> States] /\ proc'[p].pc = pc
           /\ proc'[p].read = proc[p].read /\ proc'[p].temp = proc[p].temp
           /\ \A q \in Procs \ {p} : proc'[q] = proc[q]
<1> DEFINE s == [proc[p] EXCEPT !.pc = pc]
<1>1. s \in States /\ s.pc = pc /\ s.read = proc[p].read /\ s.temp = proc[p].temp
  BY DEF States
<1>2. proc' = [proc EXCEPT ![p] = s]
  BY DEF Step
<1> HIDE DEF s
<1> QED BY <1>1, <1>2, Moved

LEMMA Ended ==
    ASSUME proc \in [Procs -> States], NEW p \in Procs, Fail(p) \/ Succeed(p)
    PROVE  /\ proc' \in [Procs -> States] /\ proc'[p].pc = "release"
           /\ \A q \in Procs \ {p} : proc'[q] = proc[q]
<1>1. PICK r \in {"ok", "failed"} :
          proc' = [proc EXCEPT ![p].pc = "release", ![p].result = r]
  BY DEF Fail, Succeed
<1> DEFINE s == [proc[p] EXCEPT !.pc = "release", !.result = r]
<1>2. proc[p] \in States /\ "release" \in Places
  BY DEF Places
<1>3. s \in States /\ s.pc = "release"
  BY <1>2 DEF States
<1>4. proc' = [proc EXCEPT ![p] = s]
  BY <1>1
<1> HIDE DEF s
<1> QED BY <1>3, <1>4, Moved

LEMMA HoldsLock ==
    ASSUME Inv, NEW p \in Procs, proc[p].pc \in Held
    PROVE  lock = p
BY DEF Inv, Position

\* A step of one process leaves the others where they are: it holds the lock, and
\* they do not, or it touches nothing they rely on.
LEMMA OthersStay ==
    ASSUME Inv, NEW p \in Procs, \A q \in Procs \ {p} : proc'[q] = proc[q],
           lock \in {p, None} \/ UNCHANGED <<file, lock>>
    PROVE  \A q \in Procs \ {p} : Position(q)'
<1> SUFFICES ASSUME NEW q \in Procs, q # p PROVE Position(q)'
  OBVIOUS
<1>1. proc'[q] = proc[q] /\ Position(q)
  BY DEF Inv
<1>2. CASE lock \in {p, None}
  <2>1. proc[q].pc \notin Held
    BY <1>1, <1>2, ManifestAssumption DEF Position
  <2>2. proc'[q].pc \notin Held \cup OnlyWriters \cup {"read"}
    BY <1>1, <2>1 DEF Held, OnlyWriters, Places
  <2>3. proc[q].pc = "waiting" /\ q \in Writers => OneForm(Batch(q))
    BY <1>1 DEF Position
  <2> QED BY <1>1, <2>2, <2>3 DEF Position, OnlyWriters, OneForm, Batch
<1>3. CASE UNCHANGED <<file, lock>>
  BY <1>1, <1>3 DEF Position, Addition
<1> QED BY <1>2, <1>3

\* A step that changes neither the file nor what was reported.
LEMMA QuietStep ==
    ASSUME Inv, NEW p \in Procs, proc' \in [Procs -> States],
           \A q \in Procs \ {p} : proc'[q] = proc[q],
           UNCHANGED <<file, older, appended>>,
           lock \in {p, None} \/ lock' = lock,
           Position(p)'
    PROVE  Inv'
<1>1. TypeInv' /\ OneForm(Records(file.lines))'
  BY DEF Inv, TypeInv
<1>2. \A f \in (older \cup {file})' : Sound(f)'
  BY DEF Inv, Sound
<1>3. \A q \in Procs : Position(q)'
  BY OthersStay
<1> QED BY <1>1, <1>2, <1>3 DEF Inv

LEMMA NothingSound == Missing \in Content /\ Missing.synced /\ Records(Missing.lines) = {}
<1>1. <<>> \in Seq(AllRecords) /\ Records(<<>>) = {}
  BY DEF Records
<1> QED BY <1>1 DEF Missing, Content

LEMMA IdleIsState ==
    ASSUME NEW n \in Nat
    PROVE  /\ [Idle EXCEPT !.calls = n] \in States /\ [Idle EXCEPT !.calls = n].pc = "idle"
           /\ [Idle EXCEPT !.calls = n, !.pc = "returned", !.result = "failed"] \in States
           /\ [Idle EXCEPT !.calls = n, !.pc = "returned", !.result = "failed"].pc = "returned"
           /\ [Idle EXCEPT !.calls = n, !.pc = "waiting"] \in States
           /\ [Idle EXCEPT !.calls = n, !.pc = "waiting"].pc = "waiting"
<1>1. <<>> \in Seq(AllRecords) /\ Missing \in Content
  BY NothingSound
<1>2. {"idle", "returned", "waiting"} \subseteq Places
  BY DEF Places
<1> HIDE DEF Missing
<1> QED BY <1>1, <1>2 DEF Idle, States

LEMMA InitInv == Init => Inv
<1> SUFFICES ASSUME Init PROVE Inv
  OBVIOUS
<1>1. file = Missing /\ older = {} /\ appended = {}
  BY DEF Init
<1>2. /\ Idle \in States /\ Idle.pc = "idle"
  <2>1. <<>> \in Seq(AllRecords) /\ Missing \in Content /\ "idle" \in Places
    BY NothingSound DEF Places
  <2> QED BY <2>1 DEF Idle, States
<1>3. proc = [p \in Procs |-> Idle]
  BY DEF Init
<1>4. TypeInv
  BY <1>1, <1>2, <1>3, NothingSound DEF TypeInv
<1>5. OneForm(Records(file.lines)) /\ Sound(file)
  BY <1>1, NothingSound DEF OneForm, Sound
<1>6. \A p \in Procs : Position(p)
  BY <1>2, <1>3 DEF Position, Held, OnlyWriters
<1> QED BY <1>1, <1>4, <1>5, <1>6 DEF Inv

-----------------------------------------------------------------------------
(* The steps that leave the file alone *)

LEMMA CallKeeps == ASSUME Inv, NEW p \in Procs, Call(p) PROVE Inv'
<1> DEFINE n == proc[p].calls + 1
           failed == [Idle EXCEPT !.calls = n, !.pc = "returned", !.result = "failed"]
           waiting == [Idle EXCEPT !.calls = n, !.pc = "waiting"]
           repeats == p \in Writers /\ \E i, j \in DOMAIN BatchOf[p] :
                         i # j /\ BatchOf[p][i].id = BatchOf[p][j].id
<1>1. n \in Nat
  BY Facts
<1>2. failed \in States /\ failed.pc = "returned" /\ waiting \in States /\ waiting.pc = "waiting"
  BY <1>1, IdleIsState
<1>3. proc' = [proc EXCEPT ![p] = IF repeats THEN failed ELSE waiting]
  BY DEF Call, Idle
<1>4. ~repeats /\ p \in Writers => OneForm(Batch(p))
  BY DEF OneForm, Batch, Records
<1> HIDE DEF failed, waiting, repeats, n
<1>5. UNCHANGED <<file, older, lock, appended>>
  BY DEF Call
<1>6. Position(p)'
  <2>1. proc'[p] = IF repeats THEN failed ELSE waiting
    BY <1>3, Facts
  <2> QED BY <1>2, <1>4, <2>1 DEF Position, Held, OnlyWriters
<1>7. (IF repeats THEN failed ELSE waiting) \in States
  BY <1>2
<1> QED BY <1>3, <1>5, <1>6, <1>7, Facts, Moved, QuietStep

LEMMA LockKeeps == ASSUME Inv, NEW p \in Procs, Lock(p) PROVE Inv'
<1>1. /\ proc[p].pc = "waiting" /\ lock = None /\ lock' = p /\ Step(p, "read")
      /\ "read" \in Places /\ UNCHANGED <<file, older, appended>>
  BY DEF Lock, At, Places
<1>2. Position(p)'
  BY <1>1, Stepped, Facts DEF Position, Held, OnlyWriters
<1> QED BY <1>1, <1>2, Stepped, Facts, QuietStep

LEMMA EndKeeps ==
    ASSUME Inv, NEW p \in Procs, lock = p, lock' = lock, Fail(p) \/ Succeed(p),
           UNCHANGED <<file, older, appended>>
    PROVE  Inv'
<1>1. Position(p)'
  BY Ended, Facts DEF Position, OnlyWriters
<1> QED BY <1>1, Ended, Facts, QuietStep

LEMMA ReadManifestKeeps == ASSUME Inv, NEW p \in Procs, ReadManifest(p) PROVE Inv'
<1>1. /\ proc[p].pc = "read" /\ lock = p /\ UNCHANGED <<file, older, lock, appended>>
      /\ p \in Writers => OneForm(Batch(p))
  BY HoldsLock, Facts DEF ReadManifest, At, Held, Places, Position
<1>2. CASE Fail(p) \/ Succeed(p)
  BY <1>1, <1>2, EndKeeps
<1>3. CASE /\ p \notin Readers
           /\ proc' = [proc EXCEPT ![p].pc = "check", ![p].read = file.lines]
  <2> DEFINE s == [proc[p] EXCEPT !.pc = "check", !.read = file.lines]
  <2>1. proc[p] \in States /\ "check" \in Places /\ file.lines \in Seq(AllRecords)
    BY Facts DEF Places
  <2>2. s \in States /\ s.pc = "check" /\ s.read = file.lines
    BY <2>1 DEF States
  <2>3. proc' = [proc EXCEPT ![p] = s]
    BY <1>3, Facts
  <2> HIDE DEF s
  <2>4. p \in Writers
    BY <1>3 DEF Procs
  <2>5. Position(p)'
    BY <1>1, <2>2, <2>3, <2>4, Moved, Facts DEF Position
  <2> QED BY <1>1, <2>2, <2>3, <2>5, Moved, Facts, QuietStep
<1> QED BY <1>2, <1>3 DEF ReadManifest

LEMMA WritersAreProcs == Writers \subseteq Procs
BY DEF Procs

LEMMA CheckKeeps == ASSUME Inv, NEW w \in Writers, Check(w) PROVE Inv'
<1>1. /\ proc[w].pc = "check" /\ lock = w /\ UNCHANGED <<file, older, lock, appended>>
      /\ w \in Procs
  BY HoldsLock, WritersAreProcs DEF Check, At, Held, Places
<1>2. CASE Fail(w) \/ Succeed(w)
  BY <1>1, <1>2, EndKeeps
<1>3. CASE /\ Step(w, "write")
           /\ \A i \in DOMAIN BatchOf[w] : ~Contradicts(BatchOf[w][i], proc[w].read)
  <2>1. \A x \in Batch(w) : ~Contradicts(x, proc[w].read)
    BY <1>3 DEF Batch, Records
  <2>2. "write" \in Places
    BY DEF Places
  <2>3. /\ proc' \in [Procs -> States] /\ proc'[w].pc = "write"
        /\ proc'[w].read = proc[w].read
        /\ \A q \in Procs \ {w} : proc'[q] = proc[q]
    BY <1>1, <1>3, <2>2, Stepped, Facts
  <2>4. Position(w)'
    BY <1>1, <2>1, <2>3, Facts DEF Position, OnlyWriters
  <2> QED BY <1>1, <2>3, <2>4, QuietStep
<1> QED BY <1>2, <1>3 DEF Check

LEMMA WriteKeeps == ASSUME Inv, NEW w \in Writers, Write(w) PROVE Inv'
<1>1. /\ proc[w].pc = "write" /\ lock = w /\ UNCHANGED <<file, older, lock, appended>>
      /\ w \in Procs
  BY HoldsLock, WritersAreProcs DEF Write, At, Held, Places
<1> DEFINE t == [lines |-> proc[w].read \o Addition(w), synced |-> FALSE]
           s == [proc[w] EXCEPT !.pc = "sync", !.temp = t]
<1>2. t \in Content /\ t.lines = proc[w].read \o Addition(w)
  <2>1. proc[w].read \in Seq(AllRecords) /\ Addition(w) \in Seq(AllRecords)
    BY <1>1, Facts, Additions
  <2>2. proc[w].read \o Addition(w) \in Seq(AllRecords)
    BY <2>1, ConcatRecords
  <2> QED BY <2>2 DEF Content
<1>3. proc' = [proc EXCEPT ![w] = s]
  BY <1>1, Facts DEF Write, Addition
<1> HIDE DEF t
<1>4. s \in States /\ s.pc = "sync" /\ s.read = proc[w].read /\ s.temp = t
  <2>1. proc[w] \in States /\ "sync" \in Places
    BY <1>1, Facts DEF Places
  <2> QED BY <1>2, <2>1 DEF States
<1> HIDE DEF s
<1>5. /\ proc' \in [Procs -> States] /\ proc'[w] = s
      /\ \A q \in Procs \ {w} : proc'[q] = proc[q]
  BY <1>1, <1>3, <1>4, Moved, Facts
<1>6. Addition(w)' = Addition(w)
  BY <1>4, <1>5 DEF Addition
<1>7. Position(w)'
  BY <1>1, <1>2, <1>4, <1>5, <1>6, Facts DEF Position, OnlyWriters
<1> QED BY <1>1, <1>5, <1>7, QuietStep

LEMMA SyncKeeps == ASSUME Inv, NEW w \in Writers, Sync(w) PROVE Inv'
<1>1. /\ proc[w].pc = "sync" /\ lock = w /\ UNCHANGED <<file, older, lock, appended>>
      /\ w \in Procs
  BY HoldsLock, WritersAreProcs DEF Sync, At, Held, Places
<1> DEFINE t == [proc[w].temp EXCEPT !.synced = TRUE]
           s == [proc[w] EXCEPT !.pc = "replace", !.temp = t]
<1>2. t \in Content /\ t.lines = proc[w].temp.lines /\ t.synced
  <2>1. proc[w].temp \in Content
    BY <1>1, Facts
  <2> QED BY <2>1 DEF Content
<1>3. proc' = [proc EXCEPT ![w] = s]
  BY <1>1, Facts DEF Sync
<1> HIDE DEF t
<1>4. s \in States /\ s.pc = "replace" /\ s.read = proc[w].read /\ s.temp = t
  <2>1. proc[w] \in States /\ "replace" \in Places
    BY <1>1, Facts DEF Places
  <2> QED BY <1>2, <2>1 DEF States
<1> HIDE DEF s
<1>5. /\ proc' \in [Procs -> States] /\ proc'[w] = s
      /\ \A q \in Procs \ {w} : proc'[q] = proc[q]
  BY <1>1, <1>3, <1>4, Moved, Facts
<1>6. Addition(w)' = Addition(w)
  BY <1>4, <1>5 DEF Addition
<1>7. Position(w)'
  BY <1>1, <1>2, <1>4, <1>5, <1>6, Facts DEF Position, OnlyWriters
<1> QED BY <1>1, <1>5, <1>7, QuietStep

LEMMA ReleaseKeeps == ASSUME Inv, NEW p \in Procs, Release(p) PROVE Inv'
<1>1. /\ lock = p /\ Step(p, "returned") /\ "returned" \in Places
      /\ UNCHANGED <<file, older, appended>>
  BY HoldsLock DEF Release, At, Held, Places
<1>2. Position(p)'
  BY <1>1, Stepped, Facts DEF Position, Held, OnlyWriters
<1> QED BY <1>1, <1>2, Stepped, Facts, QuietStep

LEMMA FaultKeeps == ASSUME Inv, NEW p \in Procs, Fault(p) PROVE Inv'
<1>1. lock = p
  BY HoldsLock DEF Fault, Held, Places
<1> QED BY <1>1, EndKeeps DEF Fault

LEMMA CrashKeeps == ASSUME Inv, NEW p \in Procs, Crash(p) PROVE Inv'
<1> DEFINE s == [Idle EXCEPT !.calls = proc[p].calls]
<1>1. s \in States /\ s.pc = "idle"
  BY IdleIsState, Facts
<1>2. /\ proc' = [proc EXCEPT ![p] = s] /\ UNCHANGED <<file, older, appended>>
      /\ lock \in {p, None} \/ lock' = lock
  BY DEF Crash
<1> HIDE DEF s
<1>3. Position(p)'
  BY <1>1, <1>2, Moved, Facts DEF Position, Held, OnlyWriters
<1> QED BY <1>1, <1>2, <1>3, Moved, Facts, QuietStep

-----------------------------------------------------------------------------
(* The steps that change the file or what was reported *)

LEMMA KnownById ==
    ASSUME NEW x, NEW lines
    PROVE  Known(x, lines) <=> x.id \in Log!Ids(Records(lines))
BY DEF Known, Log!Ids, Records

\* What a writer puts in the manifest's place.
LEMMA Replacement ==
    ASSUME Inv, NEW w \in Writers, Replace(w)
    PROVE  /\ file' \in Content /\ file'.synced /\ older' = older \cup {file}
           /\ Records(file'.lines) = Records(file.lines) \cup Log!New(Batch(w))
           /\ Records(Addition(w)) = Log!New(Batch(w))
           /\ OneForm(Batch(w)) /\ ~Log!Conflicts(Batch(w))
           /\ lock = w /\ w \in Procs /\ proc[w].pc = "replace"
           /\ UNCHANGED <<lock, appended>>
<1>1. /\ proc[w].pc = "replace" /\ lock = w /\ w \in Procs
      /\ file' = proc[w].temp /\ older' = older \cup {file} /\ UNCHANGED <<lock, appended>>
  BY HoldsLock, WritersAreProcs DEF Replace, At, Held, Places
<1>2. /\ OneForm(Batch(w)) /\ proc[w].read = file.lines
      /\ \A x \in Batch(w) : ~Contradicts(x, file.lines)
      /\ proc[w].temp.lines = file.lines \o Addition(w) /\ proc[w].temp.synced
  BY <1>1, Facts DEF Position, OnlyWriters
<1>3. Records(file'.lines) = Records(file.lines) \cup Records(Addition(w))
  BY <1>1, <1>2, Facts, Additions, ConcatRecords
<1>4. Records(Addition(w)) = Log!New(Batch(w))
  BY <1>2, Additions, KnownById DEF Log!New
<1>5. ~Log!Conflicts(Batch(w))
  <2> SUFFICES ASSUME NEW x \in Batch(w), NEW y \in Records(file.lines), x.id = y.id
               PROVE  x.body = y.body
    BY DEF Log!Conflicts
  <2>1. PICK i \in DOMAIN file.lines : y = file.lines[i]
    BY DEF Records
  <2> QED BY <1>2, <2>1 DEF Contradicts, SameRecord
<1> QED BY <1>1, <1>2, <1>3, <1>4, <1>5, Facts

LEMMA ReplaceKeeps == ASSUME Inv, NEW w \in Writers, Replace(w) PROVE Inv'
<1> DEFINE before == Records(file.lines)
           after == Records(file'.lines)
           new == Log!New(Batch(w))
<1>1. /\ after = before \cup new /\ new \subseteq Batch(w)
      /\ \A x \in new : x.id \notin Log!Ids(before)
      /\ \A x \in Batch(w) : x.id \in Log!Ids(before) \/ x \in new
  BY Replacement DEF Log!New
<1>2. Step(w, "dirsync") /\ "dirsync" \in Places /\ w \in Procs
  BY Replacement DEF Replace, Places
<1>3. TypeInv'
  BY <1>2, Replacement, Stepped, Facts DEF TypeInv
<1>4. OneForm(after)
  BY <1>1, Replacement DEF Inv, OneForm, Log!Ids
<1>5. ASSUME NEW f \in older \cup {file} PROVE Sound(f)'
  <2>1. Sound(f)
    BY DEF Inv
  <2> QED BY <1>1, <2>1, Replacement DEF Sound
<1>6. Sound(file)'
  <2>1. file'.synced /\ appended' \subseteq after
    BY <1>1, Replacement DEF Inv, Sound
  <2>2. ASSUME NEW v \in Writers, Batch(v) \cap after # {}
        PROVE  Log!Ids(Batch(v)) \subseteq Log!Ids(after)
    <3>1. Log!Ids(before) \subseteq Log!Ids(after)
      BY <1>1 DEF Log!Ids
    <3>2. CASE Batch(v) \cap before # {}
      <4>1. Log!Ids(Batch(v)) \subseteq Log!Ids(before)
        BY <3>2 DEF Inv, Sound
      <4> QED BY <3>1, <4>1
    <3>3. CASE Batch(v) \cap new # {}
      <4>1. Batch(v) = Batch(w)
        BY <1>1, <3>3, ManifestAssumption DEF Batch
      <4>2. \A x \in Batch(w) : x.id \in Log!Ids(after)
        BY <1>1, <3>1 DEF Log!Ids
      <4> QED BY <4>1, <4>2 DEF Log!Ids
    <3> QED BY <1>1, <2>2, <3>2, <3>3
  <2> QED BY <2>1, <2>2 DEF Sound, Batch
<1>7. Position(w)'
  <2>1. proc'[w].pc = "dirsync" /\ proc'[w].read = proc[w].read
    BY <1>2, Stepped, Facts
  <2>2. Addition(w)' = Addition(w)
    BY <2>1 DEF Addition
  <2>3. Records(Addition(w)) \subseteq after
    BY <1>1, Replacement
  <2> QED BY <2>1, <2>2, <2>3, Replacement DEF Position, OnlyWriters
<1>8. \A q \in Procs \ {w} : Position(q)'
  BY <1>2, Replacement, Stepped, Facts, OthersStay
<1> QED BY <1>3, <1>4, <1>5, <1>6, <1>7, <1>8, Replacement DEF Inv

\* Once the directory is synced the name can show nothing but the new file.
LEMMA SyncDirectoryKeeps == ASSUME Inv, NEW w \in Writers, SyncDirectory(w) PROVE Inv'
<1>1. /\ proc[w].pc = "dirsync" /\ lock = w /\ w \in Procs /\ Succeed(w)
      /\ older' = {} /\ UNCHANGED <<file, lock>>
      /\ appended' = appended \cup Records(Addition(w))
  BY HoldsLock, WritersAreProcs DEF SyncDirectory, At, Held, Places, Addition
<1>2. Records(Addition(w)) \subseteq Records(file.lines)
  BY <1>1, Facts DEF Position
<1>3. TypeInv' /\ OneForm(Records(file.lines))'
  BY <1>1, Ended, Facts DEF Inv, TypeInv
<1>4. Sound(file)'
  BY <1>1, <1>2 DEF Inv, Sound
<1>5. Position(w)'
  BY <1>1, Ended, Facts DEF Position, OnlyWriters
<1>6. \A q \in Procs \ {w} : Position(q)'
  BY <1>1, Ended, Facts, OthersStay
<1> QED BY <1>1, <1>3, <1>4, <1>5, <1>6 DEF Inv

\* A power loss brings back a sound file, whole.
LEMMA Survivors ==
    ASSUME Inv, PowerLoss
    PROVE  /\ file' \in older \cup {file} /\ Sound(file') /\ file' \in Content
           /\ older' = {} /\ appended' = appended
<1>1. PICK f \in older \cup {file} : file' \in Survivor(f)
  BY DEF PowerLoss
<1>2. Sound(f) /\ f \in Content
  BY DEF Inv, TypeInv
<1>3. file' = f
  BY <1>1, <1>2 DEF Sound, Survivor
<1> QED BY <1>2, <1>3 DEF PowerLoss

LEMMA PowerLossKeeps == ASSUME Inv, PowerLoss PROVE Inv'
<1>1. proc' \in [Procs -> States] /\ \A p \in Procs : proc'[p].pc = "idle"
  <2>1. \A p \in Procs : proc[p].calls \in Nat
    BY Facts
  <2>2. proc' = [p \in Procs |-> [Idle EXCEPT !.calls = proc[p].calls]]
    BY DEF PowerLoss
  <2> QED BY <2>1, <2>2, IdleIsState
<1>2. TypeInv'
  BY <1>1, Survivors DEF TypeInv
<1>3. OneForm(Records(file'.lines))
  BY Survivors DEF Inv, Sound, OneForm
<1>4. Sound(file)'
  BY Survivors DEF Sound
<1>5. \A p \in Procs : Position(p)'
  BY <1>1 DEF Position, Held, OnlyWriters
<1> QED BY <1>2, <1>3, <1>4, <1>5, Survivors DEF Inv

LEMMA NextInv == Inv /\ [Next]_vars => Inv'
<1> SUFFICES ASSUME Inv, [Next]_vars PROVE Inv'
  OBVIOUS
<1>1. CASE UNCHANGED vars
  <2>1. TypeInv' /\ OneForm(Records(file.lines))'
    BY <1>1 DEF vars, Inv, TypeInv
  <2>2. \A f \in (older \cup {file})' : Sound(f)'
    BY <1>1 DEF vars, Inv, Sound
  <2>3. \A p \in Procs : Position(p)'
    BY <1>1 DEF vars, Inv, Position, Addition
  <2> QED BY <2>1, <2>2, <2>3 DEF Inv
<1>2. CASE PowerLoss
  BY <1>2, PowerLossKeeps
<1>3. ASSUME NEW p \in Procs, Call(p) \/ Running(p) \/ Fault(p) \/ Crash(p) PROVE Inv'
  BY <1>3, CallKeeps, LockKeeps, ReadManifestKeeps, ReleaseKeeps, FaultKeeps, CrashKeeps
     DEF Running
<1>4. ASSUME NEW w \in Writers, Writing(w) PROVE Inv'
  BY <1>4, CheckKeeps, WriteKeeps, SyncKeeps, ReplaceKeeps, SyncDirectoryKeeps DEF Writing
<1> QED BY <1>1, <1>2, <1>3, <1>4 DEF Next

-----------------------------------------------------------------------------
(* The refinement *)

LEMMA StepMaps ==
    ASSUME Inv, [Next]_vars, ~PowerLoss
    PROVE  [Log!LogNext]_(Log!logVars)
<1>1. ASSUME UNCHANGED <<file, appended>> PROVE UNCHANGED Log!logVars
  BY <1>1 DEF Log!logVars
<1>2. CASE UNCHANGED vars
  BY <1>1, <1>2 DEF vars
<1>3. ASSUME NEW p \in Procs, Call(p) \/ Running(p) \/ Fault(p) \/ Crash(p)
      PROVE  UNCHANGED <<file, appended>>
  BY <1>3 DEF Call, Running, Lock, ReadManifest, Release, Fault, Crash
<1>4. ASSUME NEW w \in Writers, Check(w) \/ Write(w) \/ Sync(w)
      PROVE  UNCHANGED <<file, appended>>
  BY <1>4 DEF Check, Write, Sync
<1>5. ASSUME NEW w \in Writers, Replace(w) PROVE Log!LogNext
  <2>1. Log!Publish(Batch(w))
    BY <1>5, Replacement DEF Log!Publish
  <2> QED BY <2>1 DEF Log!LogNext, Batch
<1>6. ASSUME NEW w \in Writers, SyncDirectory(w) PROVE Log!LogNext
  <2>1. /\ proc[w].pc = "dirsync" /\ w \in Procs /\ file' = file
        /\ appended' = appended \cup Records(Addition(w))
    BY <1>6, WritersAreProcs DEF SyncDirectory, At, Addition
  <2>2. Records(Addition(w)) \subseteq Records(file.lines)
    BY <2>1, Facts DEF Position
  <2>3. Records(Addition(w)) \in SUBSET Batch(w)
    BY Additions
  <2>4. Log!Acknowledge(Records(Addition(w)))
    BY <2>1, <2>2 DEF Log!Acknowledge
  <2> QED BY <2>3, <2>4 DEF Log!LogNext, Batch
<1> QED BY <1>1, <1>2, <1>3, <1>4, <1>5, <1>6 DEF Next, Writing

\* What a power loss leaves is what is left of the log without the batches of
\* which nothing is left, and its ids are those of the others.
LEMMA PowerLossMaps == ASSUME Inv, PowerLoss PROVE Log!LoseBatches
<1> DEFINE before == Records(file.lines)
           left == Records(file'.lines)
           Batches == {Records(BatchOf[w]) : w \in Writers}
           lost == {b \in Batches : b \cap before # {} /\ b \cap left = {}}
           whole == {b \in Batches : b \cap left # {}}
<1>1. /\ left \subseteq before /\ appended \subseteq left /\ appended' = appended
      /\ \A b \in Batches : b \cap left # {} => Log!Ids(b) \subseteq Log!Ids(left)
  BY Survivors DEF Sound, Batch
<1>2. OneForm(before) /\ \A x \in before : \E b \in Batches : x \in b
  <2>1. file.lines \in Seq(AllRecords)
    BY DEF Inv, TypeInv, Content
  <2>2. \A i \in DOMAIN file.lines : file.lines[i] \in AllRecords
    BY <2>1
  <2> QED BY <2>2 DEF Inv, Records, AllRecords
<1> HIDE DEF Batches, before, left
<1>3. left = before \ UNION lost
  <2>1. ASSUME NEW x \in before, x \notin UNION lost PROVE x \in left
    <3>1. PICK b \in Batches : x \in b
      BY <1>2
    <3>2. b \cap left # {}
      BY <2>1, <3>1
    <3>3. x.id \in Log!Ids(left)
      BY <1>1, <3>1, <3>2 DEF Log!Ids
    <3>4. PICK y \in left : y.id = x.id
      BY <3>3 DEF Log!Ids
    <3> QED BY <1>1, <1>2, <3>4 DEF OneForm
  <2> QED BY <1>1, <2>1
<1>4. /\ lost \in SUBSET {b \in Batches : b \cap before # {}}
      /\ whole \in SUBSET {b \in Batches : Log!Ids(b) \subseteq Log!Ids(before)}
  BY <1>1 DEF Log!Ids
<1>5. Log!Ids(left) = Log!Ids(UNION whole)
  <2>1. \A x \in left : x \in UNION whole
    BY <1>1, <1>2
  <2>2. \A x \in UNION whole : x.id \in Log!Ids(left)
    BY <1>1 DEF Log!Ids
  <2> QED BY <2>1, <2>2 DEF Log!Ids
<1> QED BY <1>1, <1>3, <1>4, <1>5 DEF Log!LoseBatches, Batches, before, left

\* Whatever processes interleave, fail, die or lose power, the manifest grows by
\* whole batches, keeps the first form of a record, and never loses what a call
\* reported as appended.
THEOREM ManifestIsBatchLog == Spec => ImplementsBatchLog
<1>1. Init => Log!LogInit
  <2> SUFFICES ASSUME Init PROVE Records(file.lines) = {} /\ appended = {}
    BY DEF Log!LogInit
  <2> QED BY NothingSound DEF Init
<1>2. Inv /\ [Next]_vars => [Log!LogNext]_(Log!logVars)
  BY StepMaps, PowerLossMaps DEF Log!LogNext
<1>3. Spec => Init /\ [][Next]_vars
  BY DEF Spec
<1> QED BY <1>1, <1>2, <1>3, InitInv, NextInv, PTL DEF ImplementsBatchLog, Log!LogSpec

-----------------------------------------------------------------------------
(* Ingestion runs *)

RunPlaces == {"idle", "calendar", "snapshot", "stored", "append", "appended", "done", "failed"}
Working == {"calendar", "snapshot", "stored", "append", "appended"}

RunStates ==
    [pc : RunPlaces, try : 0 .. MaxTries, next : 1 .. Len(Universe) + 1,
     fetched : Fetchable \cup {<<>>}, new : SUBSET UNION AllBatches]

RunTypeInv ==
    /\ acked \subseteq stored /\ kept \subseteq log
    /\ log \subseteq UNION AllBatches
    /\ run \in [Runs -> RunStates]
    /\ setbacks \in 0 .. MaxSetbacks

\* A run that is under way has fetched the whole universe, and the snapshots of
\* the symbols it has passed are acknowledged.
Underway(r) ==
    run[r].pc \in Working =>
        /\ run[r].fetched \in Fetchable /\ run[r].try \in 1 .. MaxTries
        /\ run[r].pc = "calendar" => run[r].next = 1
        /\ run[r].pc \in {"snapshot", "stored"} => run[r].next \in 1 .. Len(Universe)
        /\ run[r].pc = "append" => run[r].next = Len(Universe) + 1
        /\ run[r].pc \in {"snapshot", "stored", "append"} =>
              \A i \in 1 .. run[r].next - 1 :
                  Snapshot(Universe[i], run[r].fetched[Universe[i]]) \in acked

IngestionInv ==
    /\ RunTypeInv
    /\ \A r \in Runs : Underway(r)
    /\ Manifest!Ids(log) \subseteq acked
    /\ UniverseIsWhole
    /\ OneForm(log)

-----------------------------------------------------------------------------
(* Batches of a universe *)

LEMMA UniverseFacts ==
    /\ Len(Universe) \in Nat /\ Len(Universe) >= 1
    /\ DOMAIN Universe = 1 .. Len(Universe)
    /\ \A i \in 1 .. Len(Universe) : Universe[i] \in Symbols
    /\ \A s \in Symbols : \E i \in 1 .. Len(Universe) : s = Universe[i]
<1>1. Universe \in Seq(Symbols) /\ Universe # <<>>
  BY IngestionAssumption
<1>2. Len(Universe) \in Nat /\ DOMAIN Universe = 1 .. Len(Universe) /\ Len(Universe) # 0
  BY <1>1
<1> QED BY <1>2 DEF Symbols

\* The ids of a batch are the snapshots of what was fetched, one for each symbol.
LEMMA BatchIds ==
    ASSUME NEW r \in Runs, NEW try \in 1 .. MaxTries, NEW fetched \in Fetchable
    PROVE  /\ BatchFor(r, try, fetched) \in AllBatches
           /\ Manifest!Ids(BatchFor(r, try, fetched))
                = {Snapshot(s, fetched[s]) : s \in Symbols}
           /\ OneForm(BatchFor(r, try, fetched))
<1>1. BatchFor(r, try, fetched) \in AllBatches
  BY DEF AllBatches
<1>2. Manifest!Ids(BatchFor(r, try, fetched)) = {Snapshot(s, fetched[s]) : s \in Symbols}
  <2>1. \A s \in Symbols : Record(r, try, s, fetched[s]).id = Snapshot(s, fetched[s])
    BY DEF Record
  <2>2. Manifest!Ids(BatchFor(r, try, fetched))
            = {x.id : x \in {Record(r, try, s, fetched[s]) : s \in Symbols}}
    BY DEF Manifest!Ids, BatchFor
  <2> HIDE DEF Record, Snapshot
  <2> QED BY <2>1, <2>2
<1>3. OneForm(BatchFor(r, try, fetched))
  <2> SUFFICES ASSUME NEW s \in Symbols, NEW t \in Symbols,
                      Snapshot(s, fetched[s]) = Snapshot(t, fetched[t])
               PROVE  s = t
    BY DEF OneForm, BatchFor, Record
  <2> QED BY DEF Snapshot
<1> QED BY <1>1, <1>2, <1>3

\* What a run at the append step would append.
LEMMA OwnBatch ==
    ASSUME IngestionInv, NEW r \in Runs, RunAt(r, "append")
    PROVE  /\ BatchOfRun(r) \in AllBatches /\ OneForm(BatchOfRun(r))
           /\ Manifest!Ids(BatchOfRun(r)) \subseteq acked
<1>1. /\ run[r].fetched \in Fetchable /\ run[r].try \in 1 .. MaxTries
      /\ run[r].next = Len(Universe) + 1
      /\ \A i \in 1 .. run[r].next - 1 :
            Snapshot(Universe[i], run[r].fetched[Universe[i]]) \in acked
  BY DEF IngestionInv, Underway, RunAt, Working
<1>2. \A s \in Symbols : Snapshot(s, run[r].fetched[s]) \in acked
  BY <1>1, UniverseFacts
<1> QED BY <1>1, <1>2, BatchIds DEF BatchOfRun

\* A published batch is whole, and brings no second form of a record.
LEMMA PublishKeeps ==
    ASSUME UniverseIsWhole, OneForm(log), log \subseteq UNION AllBatches,
           NEW b \in AllBatches, OneForm(b), log' = log \cup Manifest!New(b)
    PROVE  /\ UniverseIsWhole' /\ OneForm(log')
           /\ log' \subseteq UNION AllBatches
           /\ Manifest!Ids(log') = Manifest!Ids(log) \cup Manifest!Ids(b)
<1>1. /\ Manifest!New(b) \subseteq b
      /\ \A x \in b : x \in Manifest!New(b) \/ x.id \in Manifest!Ids(log)
      /\ \A x \in Manifest!New(b) : x.id \notin Manifest!Ids(log)
  BY DEF Manifest!New
<1>2. Manifest!Ids(log') = Manifest!Ids(log) \cup Manifest!Ids(b)
  BY <1>1 DEF Manifest!Ids
<1>3. OneForm(log')
  BY <1>1 DEF OneForm, Manifest!Ids
<1>4. UniverseIsWhole'
  <2> SUFFICES ASSUME NEW x \in log'
               PROVE  \E c \in AllBatches : x \in c /\ Manifest!Ids(c) \subseteq Manifest!Ids(log')
    BY DEF UniverseIsWhole
  <2>1. CASE x \in log
    BY <2>1, <1>2 DEF UniverseIsWhole
  <2>2. CASE x \in Manifest!New(b)
    BY <2>2, <1>1, <1>2
  <2> QED BY <2>1, <2>2
<1> QED BY <1>1, <1>2, <1>3, <1>4

\* What a power loss leaves is whole: a record that is left has its id in a batch
\* that is left, and the fetch it came from might have returned that batch.
LEMMA LossKeeps ==
    ASSUME IngestionInv, Manifest!LoseBatches
    PROVE  UniverseIsWhole'
<1>1. log' \subseteq log
  BY DEF Manifest!LoseBatches
<1>2. PICK whole \in SUBSET AllBatches : Manifest!Ids(log') = Manifest!Ids(UNION whole)
  BY DEF Manifest!LoseBatches
<1>3. SUFFICES ASSUME NEW x \in log'
               PROVE  \E c \in AllBatches : x \in c /\ Manifest!Ids(c) \subseteq Manifest!Ids(log')
  BY DEF UniverseIsWhole
<1>4. PICK r \in Runs, try \in 1 .. MaxTries, fetched \in Fetchable :
          x \in BatchFor(r, try, fetched)
  BY <1>1 DEF IngestionInv, RunTypeInv, AllBatches
<1>5. PICK s \in Symbols : x = Record(r, try, s, fetched[s])
  BY <1>4 DEF BatchFor
<1>6. x.id = Snapshot(s, fetched[s])
  BY <1>5 DEF Record
<1>7. PICK b \in whole : x.id \in Manifest!Ids(b)
  BY <1>2 DEF Manifest!Ids
<1>8. PICK q \in Runs, t \in 1 .. MaxTries, left \in Fetchable : b = BatchFor(q, t, left)
  BY DEF AllBatches
<1>9. PICK u \in Symbols : Snapshot(s, fetched[s]) = Snapshot(u, left[u])
  BY <1>6, <1>7, <1>8, BatchIds
<1>10. x = Record(r, try, s, left[s])
  BY <1>5, <1>9 DEF Snapshot
<1>11. x \in BatchFor(r, try, left)
  BY <1>10 DEF BatchFor
<1>12. Manifest!Ids(BatchFor(r, try, left)) = Manifest!Ids(b)
  BY <1>8, BatchIds
<1>13. Manifest!Ids(b) \subseteq Manifest!Ids(log')
  BY <1>2 DEF Manifest!Ids
<1> QED BY <1>11, <1>12, <1>13, BatchIds

-----------------------------------------------------------------------------
(* The steps of a run *)

LEMMA IngestionInitInv == IngestionInit => IngestionInv
<1> SUFFICES ASSUME IngestionInit PROVE IngestionInv
  OBVIOUS
<1>1. RunTypeInv
  <2>1. \A r \in Runs : run[r] \in RunStates
    BY IngestionAssumption, UniverseFacts DEF IngestionInit, RunStates, RunPlaces
  <2>2. run \in [Runs -> RunStates]
    BY <2>1 DEF IngestionInit
  <2> QED BY <2>2, IngestionAssumption DEF IngestionInit, RunTypeInv
<1>2. \A r \in Runs : Underway(r)
  BY DEF IngestionInit, Underway, Working
<1>3. Manifest!Ids(log) = {} /\ UniverseIsWhole /\ OneForm(log)
  BY DEF IngestionInit, Manifest!Ids, UniverseIsWhole, OneForm
<1> QED BY <1>1, <1>2, <1>3 DEF IngestionInv

\* What is acknowledged stays, so the other runs stay as far as they are.
LEMMA OtherRunsStay ==
    ASSUME IngestionInv, NEW r \in Runs, NEW state \in RunStates,
           run' = [run EXCEPT ![r] = state], acked \subseteq acked'
    PROVE  /\ run' \in [Runs -> RunStates] /\ run'[r] = state
           /\ \A q \in Runs \ {r} : Underway(q)'
<1>1. run \in [Runs -> RunStates]
  BY DEF IngestionInv, RunTypeInv
<1>2. run' \in [Runs -> RunStates] /\ run'[r] = state
  BY <1>1
<1>3. ASSUME NEW q \in Runs \ {r} PROVE Underway(q)'
  <2>1. run'[q] = run[q] /\ Underway(q)
    BY <1>1 DEF IngestionInv
  <2> QED BY <2>1 DEF Underway
<1> QED BY <1>2, <1>3

\* A step of one run that touches neither the manifest nor what was stored.
LEMMA QuietRunStep ==
    ASSUME IngestionInv, NEW r \in Runs, NEW state \in RunStates,
           run' = [run EXCEPT ![r] = state],
           acked \subseteq acked', stored \subseteq stored', acked' \subseteq stored',
           UNCHANGED <<log, kept>>, setbacks' \in 0 .. MaxSetbacks, Underway(r)'
    PROVE  IngestionInv'
<1>1. RunTypeInv'
  BY OtherRunsStay DEF IngestionInv, RunTypeInv
<1>2. \A q \in Runs : Underway(q)'
  BY OtherRunsStay
<1>3. Manifest!Ids(log)' = Manifest!Ids(log) /\ UniverseIsWhole' /\ OneForm(log')
  BY DEF IngestionInv, UniverseIsWhole, OneForm, Manifest!Ids
<1> QED BY <1>1, <1>2, <1>3 DEF IngestionInv

LEMMA RunsAreStates ==
    ASSUME IngestionInv, NEW r \in Runs
    PROVE  /\ run[r] \in RunStates /\ Underway(r) /\ run \in [Runs -> RunStates]
           /\ setbacks \in 0 .. MaxSetbacks /\ acked \subseteq stored
BY DEF IngestionInv, RunTypeInv

\* The fields of a run that a step has changed.
LEMMA TriedState ==
    ASSUME NEW s \in RunStates, NEW pc \in RunPlaces, NEW t \in 0 .. MaxTries
    PROVE  /\ [s EXCEPT !.pc = pc, !.try = t] \in RunStates
           /\ [s EXCEPT !.pc = pc, !.try = t].pc = pc
BY DEF RunStates

LEMMA MovedState ==
    ASSUME NEW s \in RunStates, NEW pc \in RunPlaces, NEW n \in 1 .. Len(Universe) + 1
    PROVE  /\ [s EXCEPT !.next = n, !.pc = pc] \in RunStates
           /\ [s EXCEPT !.next = n, !.pc = pc].next = n
           /\ [s EXCEPT !.next = n, !.pc = pc].pc = pc
           /\ [s EXCEPT !.next = n, !.pc = pc].fetched = s.fetched
           /\ [s EXCEPT !.next = n, !.pc = pc].try = s.try
BY DEF RunStates

LEMMA FetchKeeps == ASSUME IngestionInv, NEW r \in Runs, Fetch(r) PROVE IngestionInv'
<1>1. run[r].try + 1 \in 1 .. MaxTries
  BY RunsAreStates, IngestionAssumption DEF Fetch, RunStates
<1>2. ASSUME NEW fetched \in Fetchable,
             run' = [run EXCEPT ![r] = [pc |-> "calendar", try |-> run[r].try + 1, next |-> 1,
                                        fetched |-> fetched, new |-> {}]]
      PROVE  IngestionInv'
  <2> DEFINE state == [pc |-> "calendar", try |-> run[r].try + 1, next |-> 1,
                       fetched |-> fetched, new |-> {}]
  <2>1. state \in RunStates
    BY <1>1, UniverseFacts DEF RunStates, RunPlaces
  <2>2. run'[r] = state
    BY <1>2, RunsAreStates
  <2>3. Underway(r)'
    BY <2>2, <1>1 DEF Underway
  <2> HIDE DEF state
  <2> QED BY <1>2, <2>1, <2>3, QuietRunStep, RunsAreStates DEF Fetch, state
<1>3. ASSUME run' = [run EXCEPT ![r].pc = "failed", ![r].try = run[r].try + 1]
      PROVE  IngestionInv'
  <2> DEFINE state == [run[r] EXCEPT !.pc = "failed", !.try = run[r].try + 1]
  <2>0. "failed" \in RunPlaces /\ run[r].try + 1 \in 0 .. MaxTries
    BY <1>1 DEF RunPlaces
  <2>1. state \in RunStates /\ state.pc = "failed"
    BY <2>0, RunsAreStates, TriedState
  <2>2. run' = [run EXCEPT ![r] = state]
    BY <1>3, RunsAreStates
  <2> HIDE DEF state
  <2>3. Underway(r)'
    BY <2>1, <2>2, RunsAreStates DEF Underway, Working
  <2> QED BY <2>1, <2>2, <2>3, QuietRunStep, RunsAreStates DEF Fetch
<1> QED BY <1>2, <1>3, RunsAreStates DEF Fetch

LEMMA WriteCalendarKeeps == ASSUME IngestionInv, NEW r \in Runs, WriteCalendar(r) PROVE IngestionInv'
<1> DEFINE state == [run[r] EXCEPT !.pc = "snapshot"]
<1>1. state \in RunStates /\ state.pc = "snapshot" /\ state.next = run[r].next
      /\ state.fetched = run[r].fetched /\ state.try = run[r].try
  BY RunsAreStates DEF RunStates, RunPlaces
<1>2. run' = [run EXCEPT ![r] = state]
  BY RunsAreStates DEF WriteCalendar
<1> HIDE DEF state
<1>3. Underway(r)'
  <2>1. run'[r] = state
    BY <1>2, RunsAreStates
  <2>2. /\ state.fetched \in Fetchable /\ state.try \in 1 .. MaxTries /\ state.next = 1
    BY <1>1, RunsAreStates DEF WriteCalendar, RunAt, Underway, Working
  <2> QED BY <2>1, <2>2, <1>1, UniverseFacts DEF Underway
<1> QED BY <1>1, <1>2, <1>3, QuietRunStep, RunsAreStates DEF WriteCalendar

LEMMA StoreSnapshotKeeps == ASSUME IngestionInv, NEW r \in Runs, StoreSnapshot(r) PROVE IngestionInv'
<1> DEFINE state == [run[r] EXCEPT !.pc = "stored"]
<1>1. state \in RunStates /\ state.pc = "stored" /\ state.next = run[r].next
      /\ state.fetched = run[r].fetched /\ state.try = run[r].try
  BY RunsAreStates DEF RunStates, RunPlaces
<1>2. run' = [run EXCEPT ![r] = state]
  BY RunsAreStates DEF StoreSnapshot
<1>3. stored \subseteq stored' /\ acked' = acked
  BY DEF StoreSnapshot, Snapshots!Store
<1> HIDE DEF state
<1>4. Underway(r)'
  <2>1. run'[r] = state /\ run[r].pc = "snapshot"
    BY <1>2, RunsAreStates DEF StoreSnapshot, RunAt
  <2> QED BY <2>1, <1>1, <1>3, RunsAreStates DEF Underway, Working
<1> QED BY <1>1, <1>2, <1>3, <1>4, QuietRunStep, RunsAreStates DEF StoreSnapshot

LEMMA ReturnSnapshotKeeps == ASSUME IngestionInv, NEW r \in Runs, ReturnSnapshot(r) PROVE IngestionInv'
<1> DEFINE n == run[r].next
           pc == IF n = Len(Universe) THEN "append" ELSE "snapshot"
           state == [run[r] EXCEPT !.next = n + 1, !.pc = pc]
<1>1. run[r].pc = "stored" /\ n \in 1 .. Len(Universe)
  BY RunsAreStates DEF ReturnSnapshot, RunAt, Underway, Working
<1>2. state \in RunStates /\ state.next = n + 1
      /\ state.pc = pc /\ state.fetched = run[r].fetched
      /\ state.try = run[r].try
  <2>1. n + 1 \in 1 .. Len(Universe) + 1
    BY <1>1, UniverseFacts
  <2>2. pc \in RunPlaces
    BY DEF RunPlaces
  <2>3. run[r] \in RunStates
    BY RunsAreStates
  <2> HIDE DEF pc
  <2>4. \A s \in RunStates : \A m \in 1 .. Len(Universe) + 1 :
           /\ [s EXCEPT !.next = m, !.pc = pc] \in RunStates
           /\ [s EXCEPT !.next = m, !.pc = pc].next = m
           /\ [s EXCEPT !.next = m, !.pc = pc].pc = pc
           /\ [s EXCEPT !.next = m, !.pc = pc].fetched = s.fetched
           /\ [s EXCEPT !.next = m, !.pc = pc].try = s.try
    BY <2>2, MovedState
  <2> QED BY <2>1, <2>3, <2>4
<1>3. run' = [run EXCEPT ![r] = state]
  BY RunsAreStates DEF ReturnSnapshot
<1>4. /\ acked' = acked \cup {Current(r)} /\ acked' \subseteq stored /\ stored' = stored
  BY RunsAreStates DEF ReturnSnapshot, Snapshots!Acknowledge
<1>5. Current(r) = Snapshot(Universe[n], run[r].fetched[Universe[n]])
  BY DEF Current
<1> HIDE DEF state
<1>6. Underway(r)'
  <2>1. run'[r] = state
    BY <1>3, RunsAreStates
  <2>2. /\ state.fetched \in Fetchable /\ state.try \in 1 .. MaxTries
        /\ \A i \in 1 .. n - 1 : Snapshot(Universe[i], state.fetched[Universe[i]]) \in acked
    BY <1>1, <1>2, RunsAreStates DEF Underway, Working
  <2>3. \A i \in 1 .. state.next - 1 :
            Snapshot(Universe[i], state.fetched[Universe[i]]) \in acked'
    <3> SUFFICES ASSUME NEW i \in 1 .. n
                 PROVE  Snapshot(Universe[i], state.fetched[Universe[i]]) \in acked'
      BY <1>1, <1>2, UniverseFacts
    <3>1. i = n \/ i \in 1 .. n - 1
      BY <1>1
    <3> HIDE DEF n
    <3> QED BY <3>1, <2>2, <1>2, <1>4, <1>5
  <2>4. state.pc = "snapshot" => state.next \in 1 .. Len(Universe)
    BY <1>1, <1>2, UniverseFacts
  <2>5. state.pc = "append" => state.next = Len(Universe) + 1
    BY <1>1, <1>2, UniverseFacts
  <2>6. state.pc \in {"append", "snapshot"}
    BY <1>2
  <2> QED BY <2>1, <2>2, <2>3, <2>4, <2>5, <2>6 DEF Underway
<1> QED BY <1>2, <1>3, <1>4, <1>6, QuietRunStep, RunsAreStates DEF ReturnSnapshot

\* A run that ends, or has ended.
LEMMA RunEndKeeps ==
    ASSUME IngestionInv, NEW r \in Runs, NEW pc \in {"failed", "done"},
           run' = [run EXCEPT ![r].pc = pc], setbacks' \in 0 .. MaxSetbacks,
           UNCHANGED <<stored, acked, log>>, kept' \subseteq log
    PROVE  IngestionInv'
<1> DEFINE state == [run[r] EXCEPT !.pc = pc]
<1>1. state \in RunStates /\ state.pc = pc
  BY RunsAreStates DEF RunStates, RunPlaces
<1>2. run' = [run EXCEPT ![r] = state]
  BY RunsAreStates
<1> HIDE DEF state
<1>3. Underway(r)'
  BY <1>1, <1>2, RunsAreStates DEF Underway, Working
<1>4. RunTypeInv' /\ \A q \in Runs : Underway(q)'
  BY <1>1, <1>2, <1>3, OtherRunsStay DEF IngestionInv, RunTypeInv
<1>5. Manifest!Ids(log)' = Manifest!Ids(log) /\ UniverseIsWhole' /\ OneForm(log')
  BY DEF IngestionInv, UniverseIsWhole, OneForm, Manifest!Ids
<1> QED BY <1>4, <1>5 DEF IngestionInv

LEMMA AppendBatchKeeps == ASSUME IngestionInv, NEW r \in Runs, AppendBatch(r) PROVE IngestionInv'
<1> DEFINE state == [run[r] EXCEPT !.pc = "appended", !.new = NewRecords(r)]
<1>1. RunAt(r, "append") /\ log' = log \cup Manifest!New(BatchOfRun(r)) /\ kept' = kept
  BY DEF AppendBatch, Manifest!Publish
<1>2. /\ BatchOfRun(r) \in AllBatches /\ OneForm(BatchOfRun(r))
      /\ Manifest!Ids(BatchOfRun(r)) \subseteq acked
  BY <1>1, OwnBatch
<1>3. /\ UniverseIsWhole' /\ OneForm(log') /\ log' \subseteq UNION AllBatches
      /\ Manifest!Ids(log') = Manifest!Ids(log) \cup Manifest!Ids(BatchOfRun(r))
  BY <1>1, <1>2, PublishKeeps DEF IngestionInv, RunTypeInv
<1>4. NewRecords(r) \in SUBSET UNION AllBatches
  BY <1>2 DEF NewRecords, Manifest!New
<1>5. state \in RunStates /\ state.pc = "appended"
      /\ state.fetched = run[r].fetched /\ state.try = run[r].try
  BY <1>4, RunsAreStates DEF RunStates, RunPlaces
<1>6. run' = [run EXCEPT ![r] = state] /\ UNCHANGED <<stored, acked, setbacks>>
  BY RunsAreStates DEF AppendBatch
<1> HIDE DEF state
<1>7. Underway(r)'
  <2>1. run'[r] = state /\ run[r].fetched \in Fetchable /\ run[r].try \in 1 .. MaxTries
    BY <1>1, <1>6, RunsAreStates DEF Underway, Working, RunAt
  <2> QED BY <2>1, <1>5 DEF Underway
<1>8. RunTypeInv' /\ \A q \in Runs : Underway(q)'
  BY <1>1, <1>3, <1>5, <1>6, <1>7, OtherRunsStay DEF IngestionInv, RunTypeInv
<1>9. Manifest!Ids(log)' \subseteq acked'
  BY <1>2, <1>3, <1>6 DEF IngestionInv, Manifest!Ids
<1> QED BY <1>3, <1>8, <1>9 DEF IngestionInv

LEMMA ReturnAppendedKeeps == ASSUME IngestionInv, NEW r \in Runs, ReturnAppended(r) PROVE IngestionInv'
<1>1. kept' \subseteq log /\ log' = log
  BY DEF ReturnAppended, Manifest!Acknowledge, IngestionInv, RunTypeInv
<1> QED BY <1>1, RunEndKeeps, RunsAreStates DEF ReturnAppended

LEMMA StopKeeps == ASSUME IngestionInv, NEW r \in Runs, Stop(r) PROVE IngestionInv'
<1>1. setbacks' \in 0 .. MaxSetbacks
  BY RunsAreStates, IngestionAssumption DEF Stop
<1>2. kept' \subseteq log
  BY DEF Stop, IngestionInv, RunTypeInv
<1> QED BY <1>1, <1>2, RunEndKeeps DEF Stop

LEMMA IngestionLossKeeps == ASSUME IngestionInv, IngestionPowerLoss PROVE IngestionInv'
<1>1. /\ stored' \subseteq stored /\ acked \subseteq stored' /\ acked' = acked
      /\ log' \subseteq log /\ kept \subseteq log' /\ kept' = kept
  BY DEF IngestionPowerLoss, Snapshots!Lose, Manifest!LoseBatches
<1>2. \A r \in Runs : run'[r] \in RunStates /\ run'[r].pc = "failed"
  BY RunsAreStates DEF IngestionPowerLoss, RunStates, RunPlaces
<1>3. run' \in [Runs -> RunStates]
  BY <1>2 DEF IngestionPowerLoss
<1>4. setbacks' \in 0 .. MaxSetbacks
  BY IngestionAssumption DEF IngestionPowerLoss, IngestionInv, RunTypeInv
<1>5. RunTypeInv'
  BY <1>1, <1>3, <1>4 DEF IngestionInv, RunTypeInv
<1>6. \A r \in Runs : Underway(r)'
  BY <1>2 DEF Underway, Working
<1>7. Manifest!Ids(log)' \subseteq acked' /\ OneForm(log')
  BY <1>1 DEF IngestionInv, Manifest!Ids, OneForm
<1>8. UniverseIsWhole'
  BY LossKeeps DEF IngestionPowerLoss
<1> QED BY <1>5, <1>6, <1>7, <1>8 DEF IngestionInv

LEMMA IngestionNextInv == IngestionInv /\ [IngestionNext]_ingestionVars => IngestionInv'
<1> SUFFICES ASSUME IngestionInv, [IngestionNext]_ingestionVars PROVE IngestionInv'
  OBVIOUS
<1>1. CASE UNCHANGED ingestionVars
  <2>1. /\ RunTypeInv' /\ (\A r \in Runs : Underway(r)') /\ Manifest!Ids(log)' = Manifest!Ids(log)
        /\ UniverseIsWhole' /\ OneForm(log')
    BY <1>1 DEF ingestionVars, IngestionInv, RunTypeInv, Underway, UniverseIsWhole, OneForm, Manifest!Ids
  <2> QED BY <2>1, <1>1 DEF IngestionInv, ingestionVars
<1>2. CASE IngestionPowerLoss
  BY <1>2, IngestionLossKeeps
<1>3. ASSUME NEW r \in Runs, AppendRefused(r) PROVE IngestionInv'
  <2>1. kept' \subseteq log
    BY <1>3 DEF AppendRefused, IngestionInv, RunTypeInv
  <2> QED BY <1>3, <2>1, RunEndKeeps, RunsAreStates DEF AppendRefused
<1> QED BY <1>1, <1>2, <1>3, FetchKeeps, WriteCalendarKeeps, StoreSnapshotKeeps,
           ReturnSnapshotKeeps, AppendBatchKeeps, ReturnAppendedKeeps, StopKeeps DEF IngestionNext

-----------------------------------------------------------------------------
(* The theorems about runs *)

LEMMA InvImpliesRecords == IngestionInv => RecordsHaveSnapshots
<1> SUFFICES ASSUME IngestionInv PROVE TypeOK
  BY DEF IngestionInv, RecordsHaveSnapshots
<1>1. \A r \in Runs : /\ run[r].new \subseteq UNION AllBatches
                      /\ run[r].next \in 1 .. Len(Universe) + 1 /\ run[r].try \in 0 .. MaxTries
  BY RunsAreStates DEF RunStates
<1> QED BY <1>1 DEF IngestionInv, RunTypeInv, TypeOK

\* Whatever runs overlap, fail, die or lose power, every record has a snapshot the
\* store has answered for: run_ingestion appends after the last write returned.
THEOREM RecordsAlwaysHaveSnapshots == IngestionSpec => []RecordsHaveSnapshots
BY IngestionInitInv, IngestionNextInv, InvImpliesRecords, PTL DEF IngestionSpec

\* A record is never there without records of a whole universe.
THEOREM UniverseIsAlwaysWhole == IngestionSpec => []UniverseIsWhole
<1>1. IngestionInv => UniverseIsWhole
  BY DEF IngestionInv
<1> QED BY <1>1, IngestionInitInv, IngestionNextInv, PTL DEF IngestionSpec

\* The steps that write the manifest add to it, and only a power loss takes from it.
LEMMA StepsKeepRecords ==
    ASSUME IngestionInv, [IngestionNext]_ingestionVars
    PROVE  /\ log \subseteq log' \/ setbacks' > setbacks
           /\ kept \subseteq log'
<1>1. kept \subseteq log
  BY DEF IngestionInv, RunTypeInv
<1>2. CASE IngestionPowerLoss
  <2>1. setbacks' > setbacks
    BY <1>2, IngestionAssumption DEF IngestionPowerLoss, IngestionInv, RunTypeInv
  <2> QED BY <1>2, <2>1 DEF IngestionPowerLoss, Manifest!LoseBatches
<1>3. CASE UNCHANGED ingestionVars
  BY <1>1, <1>3 DEF ingestionVars
<1>4. ASSUME NEW r \in Runs,
             \/ Fetch(r) \/ WriteCalendar(r) \/ StoreSnapshot(r) \/ ReturnSnapshot(r)
             \/ AppendRefused(r) \/ AppendBatch(r) \/ ReturnAppended(r) \/ Stop(r)
      PROVE  log \subseteq log'
  BY <1>4 DEF Fetch, WriteCalendar, StoreSnapshot, ReturnSnapshot, AppendRefused, AppendBatch,
              ReturnAppended, Stop, Manifest!Publish, Manifest!Acknowledge
<1> QED BY <1>1, <1>2, <1>3, <1>4 DEF IngestionNext

\* A record is never rewritten, and none a run has reported is ever lost.
THEOREM FirstRecordsStand == IngestionSpec => FirstRecordStands
<1>1. IngestionInv /\ IngestionInv' /\ [IngestionNext]_ingestionVars =>
          [/\ log \subseteq log' \/ setbacks' > setbacks
           /\ kept \subseteq log'
           /\ \A r, s \in log' : r.id = s.id => r = s]_ingestionVars
  <2> SUFFICES ASSUME IngestionInv, IngestionInv', [IngestionNext]_ingestionVars
               PROVE  /\ log \subseteq log' \/ setbacks' > setbacks
                      /\ kept \subseteq log'
                      /\ \A r, s \in log' : r.id = s.id => r = s
    OBVIOUS
  <2>1. \A r, s \in log' : r.id = s.id => r = s
    BY DEF IngestionInv, OneForm
  <2> QED BY <2>1, StepsKeepRecords
<1> QED BY <1>1, IngestionInitInv, IngestionNextInv, PTL DEF IngestionSpec, FirstRecordStands

=============================================================================
