----------------------------- MODULE PartsProofs -----------------------------
(***************************************************************************)
(* Proofs about the parts that MCParts extends, for every value of their   *)
(* constants.                                                              *)
(*                                                                         *)
(* PlansAlwaysFollowDecisions: a chain of plans follows its decisions.     *)
(* The invariant is inductive once the history of decisions is known to be *)
(* a sequence of outputs with a latest one for each symbol (Inductive).  A *)
(* refused call changes nothing; a call without a previous state starts    *)
(* the history again (RestartStep); any other appends one decision, which  *)
(* is the latest on the symbols it names and leaves the latest on all      *)
(* others (ContinueStep).                                                  *)
(*                                                                         *)
(* FilesAreKept: the publication of one file implements ContentStore.  The *)
(* invariant (Inv) relates the name, the directory on disk and where each  *)
(* publisher is: what has the name is whole, because a publisher only gets *)
(* to "publish" with a synced hidden file; what the disk has under the     *)
(* name is what the name shows; and whoever will answer "written" has its  *)
(* content on disk.  A publisher of the index may put its file over        *)
(* another, but only one that lists the same runs.  The hidden file of the *)
(* index may be short; renaming such a one is the only step that leads out *)
(* of Inv (UncutNextInv), it is remembered (CutStays), and no promise is   *)
(* made about the index from there on.                                     *)
(*                                                                         *)
(* BundlesAlwaysWhole, FailuresStayContained and BundlesAreKept: what is   *)
(* shown of a bundle is whole, failures come from mishaps only, and        *)
(* publishing implements ContentStore.  The lock makes the holder the only *)
(* one that changes what is under the name: a publisher that found nothing *)
(* there finds nothing there when it renames (BundlePosition), so its      *)
(* directory is complete and synced and replaces none.  What is left of a  *)
(* call that came back is counted in accidents (Contained): one to leave a *)
(* directory, one to keep the cleanup from emptying it.                    *)
(*                                                                         *)
(* CalendarsAlwaysLoad: what the calendar manifest shows loads.  Readers   *)
(* take no lock, so this rests on what a writer does under it: between     *)
(* reading the manifest and the middle of its own line its calendar is not *)
(* recorded, and when it appends, the file has been seen under its one     *)
(* name (CalendarPosition).  A writer that found a name left behind by     *)
(* another cannot get that far, and a file with one name keeps it.         *)
(*                                                                         *)
(* ActionsAlwaysLoad: what the corporate-action manifest says is there.  A *)
(* record is only appended behind a bundle whose name is on disk, or which *)
(* a call took as published too early (Behind); no step takes either away  *)
(* (NamesStay).  A reported record was said by the manifest when it was    *)
(* synced, and what a short write or a power loss does to the manifest     *)
(* either keeps saying it or refuses every reader (Reported).  Without a   *)
(* mishap, a name besides a bundle's own is that of a call about to remove *)
(* it (Tidy).                                                              *)
(*                                                                         *)
(* BatchesStayConsistent: the results of a group are sound, their calls    *)
(* later than every failure of the group, because a failure drops the      *)
(* results so far (GroupGoesOn); those of the groups that are done stay    *)
(* sound, because no call is for their kind any more (GroupsDone).         *)
(***************************************************************************)
EXTENDS PlannerClient, FilePublication, BundlePublication, CalendarStore, CorporateActionStore,
        Fetch, FiniteSetTheorems, SequenceTheorems, WellFoundedInduction, TLAPS

-----------------------------------------------------------------------------
(* Chains of plans *)

\* Whoever was decided about was decided about last at some point: without it,
\* Max says nothing.  (That every finite set of numbers has a largest one is an
\* induction over data, so it is carried along as part of the invariant.)
LatestExists ==
    \A s \in Named : DecisionsOn(s) # {} =>
        \E m \in DecisionsOn(s) : \A k \in DecisionsOn(s) : m >= k

Inductive ==
    /\ decisions \in Seq(Outputs)
    /\ LatestExists
    /\ PlansFollowDecisions

\* The largest of a set of integers.
LEMMA MaxIs ==
    ASSUME NEW S \in SUBSET Int, NEW m \in S, \A k \in S : m >= k
    PROVE  Max(S) = m
<1>1. /\ Max(S) \in S /\ \A k \in S : Max(S) >= k
  BY DEF Max
<1>2. Max(S) \in Int /\ m \in Int
  BY <1>1
<1>3. Max(S) >= m /\ m >= Max(S)
  BY <1>1
<1> HIDE DEF Max
<1> QED BY <1>2, <1>3

\* A merged plan names what either side names, and takes the current value first.
LEMMA MergeValues ==
    ASSUME NEW prior, NEW current
    PROVE  /\ DOMAIN Merge(prior, current) = DOMAIN prior \cup DOMAIN current
           /\ \A s \in DOMAIN current : Merge(prior, current)[s] = current[s]
           /\ \A s \in DOMAIN prior \ DOMAIN current : Merge(prior, current)[s] = prior[s]
BY DEF Merge

\* What was not refused is within the limits.
LEMMA AcceptedWithinLimits ==
    ASSUME NEW day, NEW output, NEW previous,
           ~PlanRefused(day, output, previous, Eligible),
           plan' = PlanTargets(day, output, previous)
    PROVE  PlanWithinLimits'
<1>1. /\ DOMAIN output \cup DOMAIN previous.targets \subseteq Eligible
      /\ WithinLimits(Merge(previous.targets, output))
  BY DEF PlanRefused
<1>2. plan'.targets = Merge(previous.targets, output)
  BY DEF PlanTargets
<1>3. DOMAIN plan'.targets \subseteq Eligible
  <2>1. DOMAIN Merge(previous.targets, output) = DOMAIN previous.targets \cup DOMAIN output
    BY MergeValues
  <2> QED BY <1>1, <1>2, <2>1
<1>4. \A s \in DOMAIN plan'.targets : plan'.targets[s] \in 0 .. MaxSingle
  BY <1>1, <1>2, LimitsAssumption DEF WithinLimits, Weighable
<1>5. Gross(plan'.targets) <= MaxGross /\ Gross(plan'.targets) + MinCash <= 100
  BY <1>1, <1>2 DEF WithinLimits
<1> QED BY <1>3, <1>4, <1>5 DEF PlanWithinLimits

\* A plan made without a previous state holds its one decision.
LEMMA RestartStep ==
    ASSUME NEW output \in Outputs, NEW day,
           plan' = PlanTargets(day, output, NoPlan), decisions' = <<output>>
    PROVE  decisions' \in Seq(Outputs) /\ LatestExists' /\ TargetIsLatestDecision'
<1>1. decisions' \in Seq(Outputs) /\ DOMAIN decisions' = {1} /\ decisions'[1] = output
  OBVIOUS
<1>2. plan'.targets = Merge(NoPlan.targets, output) /\ DOMAIN NoPlan.targets = {}
  BY DEF PlanTargets, NoPlan
<1>3. DOMAIN plan'.targets = DOMAIN output
      /\ \A s \in DOMAIN output : plan'.targets[s] = output[s]
  <2>1. /\ DOMAIN Merge(NoPlan.targets, output) = DOMAIN NoPlan.targets \cup DOMAIN output
        /\ \A s \in DOMAIN output : Merge(NoPlan.targets, output)[s] = output[s]
    BY MergeValues
  <2> QED BY <1>2, <2>1
<1>4. \A s : DecisionsOn(s)' = IF s \in DOMAIN output THEN {1} ELSE {}
  BY <1>1 DEF DecisionsOn
<1>5. LatestExists'
  <2>1. \A s \in Named : DecisionsOn(s)' # {} =>
            \E m \in DecisionsOn(s)' : \A k \in DecisionsOn(s)' : m >= k
    BY <1>4
  <2> QED BY <2>1 DEF LatestExists
<1>6. ASSUME NEW s \in Named
      PROVE  /\ s \in DOMAIN plan'.targets <=> DecisionsOn(s)' # {}
             /\ DecisionsOn(s)' # {} =>
                   plan'.targets[s] = decisions'[Max(DecisionsOn(s)')][s]
  <2>1. Max({1}) = 1
    BY MaxIs
  <2> QED BY <1>1, <1>3, <1>4, <2>1
<1> QED BY <1>1, <1>5, <1>6 DEF TargetIsLatestDecision

\* A plan that continues another holds the new decision and, on the symbols it
\* leaves out, the latest of the earlier ones.
LEMMA ContinueStep ==
    ASSUME Inductive, NEW output \in Outputs, NEW day,
           plan' = PlanTargets(day, output, plan), decisions' = Append(decisions, output)
    PROVE  decisions' \in Seq(Outputs) /\ LatestExists' /\ TargetIsLatestDecision'
<1> DEFINE n == Len(decisions)
<1>1. decisions \in Seq(Outputs) /\ LatestExists /\ TargetIsLatestDecision
  BY DEF Inductive, PlansFollowDecisions
<1>2. /\ n \in Nat /\ DOMAIN decisions = 1 .. n
      /\ decisions' \in Seq(Outputs) /\ DOMAIN decisions' = 1 .. n + 1
      /\ decisions'[n + 1] = output
      /\ \A i \in 1 .. n : decisions'[i] = decisions[i]
  BY <1>1
<1> HIDE DEF n
<1>3. /\ DOMAIN plan'.targets = DOMAIN plan.targets \cup DOMAIN output
      /\ \A s \in DOMAIN output : plan'.targets[s] = output[s]
      /\ \A s \in DOMAIN plan.targets \ DOMAIN output : plan'.targets[s] = plan.targets[s]
  <2>1. plan'.targets = Merge(plan.targets, output)
    BY DEF PlanTargets
  <2>2. /\ DOMAIN Merge(plan.targets, output) = DOMAIN plan.targets \cup DOMAIN output
        /\ \A s \in DOMAIN output : Merge(plan.targets, output)[s] = output[s]
        /\ \A s \in DOMAIN plan.targets \ DOMAIN output :
              Merge(plan.targets, output)[s] = plan.targets[s]
    BY MergeValues
  <2> QED BY <2>1, <2>2
<1>4. \A s \in Named : DecisionsOn(s) \in SUBSET (1 .. n)
  BY <1>2 DEF DecisionsOn
\* A symbol decided about now was decided about now last.
<1>5. ASSUME NEW s \in Named, s \in DOMAIN output
      PROVE  /\ n + 1 \in DecisionsOn(s)' /\ DecisionsOn(s)' \in SUBSET Int
             /\ \A k \in DecisionsOn(s)' : n + 1 >= k
  <2>1. n + 1 \in DecisionsOn(s)' /\ DecisionsOn(s)' \subseteq 1 .. n + 1
    BY <1>2, <1>5 DEF DecisionsOn
  <2> QED BY <2>1, <1>2
<1>6. ASSUME NEW s \in Named, s \notin DOMAIN output
      PROVE  DecisionsOn(s)' = DecisionsOn(s)
  BY <1>2, <1>4, <1>6 DEF DecisionsOn
<1>7. LatestExists'
  <2>1. ASSUME NEW s \in Named, DecisionsOn(s)' # {}
        PROVE  \E m \in DecisionsOn(s)' : \A k \in DecisionsOn(s)' : m >= k
    <3>1. CASE s \in DOMAIN output
      BY <3>1, <1>5
    <3>2. CASE s \notin DOMAIN output
      <4>1. DecisionsOn(s)' = DecisionsOn(s)
        BY <3>2, <1>6
      <4> QED BY <4>1, <2>1, <1>1 DEF LatestExists
    <3> QED BY <3>1, <3>2
  <2> QED BY <2>1 DEF LatestExists
<1>8. ASSUME NEW s \in Named
      PROVE  /\ s \in DOMAIN plan'.targets <=> DecisionsOn(s)' # {}
             /\ DecisionsOn(s)' # {} =>
                   plan'.targets[s] = decisions'[Max(DecisionsOn(s)')][s]
  <2>1. CASE s \in DOMAIN output
    <3>1. Max(DecisionsOn(s)') = n + 1
      BY <2>1, <1>5, MaxIs
    <3>2. n + 1 \in DecisionsOn(s)'
      BY <2>1, <1>5
    <3> QED BY <1>2, <1>3, <2>1, <3>1, <3>2
  <2>2. CASE s \notin DOMAIN output
    <3>1. DecisionsOn(s)' = DecisionsOn(s)
      BY <1>6, <2>2
    <3>2. /\ s \in DOMAIN plan.targets <=> DecisionsOn(s) # {}
          /\ DecisionsOn(s) # {} => plan.targets[s] = decisions[Max(DecisionsOn(s))][s]
      BY <1>1 DEF TargetIsLatestDecision
    <3>3. DecisionsOn(s) # {} => Max(DecisionsOn(s)) \in 1 .. n
      <4>1. SUFFICES ASSUME DecisionsOn(s) # {} PROVE Max(DecisionsOn(s)) \in 1 .. n
        OBVIOUS
      <4>2. PICK m \in DecisionsOn(s) : \A k \in DecisionsOn(s) : m >= k
        BY <1>1, <4>1 DEF LatestExists
      <4>3. DecisionsOn(s) \in SUBSET Int /\ m \in 1 .. n
        BY <1>2, <1>4
      <4>4. Max(DecisionsOn(s)) = m
        BY <4>2, <4>3, MaxIs
      <4> QED BY <4>3, <4>4
    <3> QED BY <1>2, <1>3, <2>2, <3>1, <3>2, <3>3
  <2> QED BY <2>1, <2>2
<1> QED BY <1>2, <1>7, <1>8 DEF TargetIsLatestDecision

LEMMA InitInductive == Init => Inductive
<1> SUFFICES ASSUME Init PROVE Inductive
  OBVIOUS
<1>1. decisions = <<>> /\ plan = NoPlan /\ DOMAIN plan.targets = {} /\ plan.asOf = 0
  BY DEF Init, NoPlan
<1>2. \A s : DecisionsOn(s) = {}
  BY <1>1 DEF DecisionsOn
<1>3. TargetIsLatestDecision
  BY <1>1, <1>2 DEF TargetIsLatestDecision
<1>4. PlanWithinLimits
  BY <1>1 DEF PlanWithinLimits
<1>5. LatestExists
  BY <1>2 DEF LatestExists
<1> QED BY <1>1, <1>3, <1>4, <1>5 DEF Inductive, PlansFollowDecisions, Init

LEMMA NextInductive == Inductive /\ [Next]_vars => Inductive'
<1> SUFFICES ASSUME Inductive, [Next]_vars PROVE Inductive'
  OBVIOUS
<1>1. ASSUME NEW day \in Sessions, NEW output \in Outputs, NEW previous \in {plan, NoPlan},
             Decide(day, output, previous)
      PROVE  Inductive'
  <2>1. CASE PlanRefused(day, output, previous, Eligible)
    <3>1. reply' = "refused" /\ UNCHANGED <<plan, decisions>>
      BY <1>1, <2>1 DEF Decide
    <3> QED BY <3>1 DEF Inductive, PlansFollowDecisions, TargetIsLatestDecision,
                        PlanWithinLimits, DecisionsOn, LatestExists
  <2>2. CASE ~PlanRefused(day, output, previous, Eligible)
    <3>1. /\ plan' = PlanTargets(day, output, previous) /\ reply' = "planned"
          /\ decisions' = IF previous = NoPlan THEN <<output>> ELSE Append(decisions, output)
      BY <1>1, <2>2 DEF Decide
    <3>2. PlanWithinLimits'
      BY <2>2, <3>1, AcceptedWithinLimits
    <3>3. decisions' \in Seq(Outputs) /\ LatestExists' /\ TargetIsLatestDecision'
      <4>1. CASE previous = NoPlan
        BY <3>1, <4>1, RestartStep
      <4>2. CASE previous # NoPlan
        BY <3>1, <4>2, ContinueStep
      <4> QED BY <4>1, <4>2
    <3>4. plan'.asOf \in Sessions
      BY <3>1 DEF PlanTargets
    <3> QED BY <3>1, <3>2, <3>3, <3>4 DEF Inductive, PlansFollowDecisions
  <2> QED BY <2>1, <2>2
<1>2. CASE UNCHANGED vars
  BY <1>2 DEF vars, Inductive, PlansFollowDecisions, TargetIsLatestDecision,
              PlanWithinLimits, DecisionsOn, LatestExists
<1> QED BY <1>1, <1>2 DEF Next

\* plan_targets called in a chain: however many sessions say nothing about a
\* symbol, its target is what the last decision on it asked for, and the targets
\* in force respect every limit together.
THEOREM PlansAlwaysFollowDecisions == Spec => []PlansFollowDecisions
<1>1. Inductive => PlansFollowDecisions
  BY DEF Inductive
<1> QED BY <1>1, InitInductive, NextInductive, PTL DEF Spec

-----------------------------------------------------------------------------
(* One file under a fixed name *)

File == [content : Contents, by : Publishers, whole : {TRUE}, linked : BOOLEAN]
Places == {"idle", "create", "write", "publish", "unlink", "sync", "check", "cleanup",
           "returned"}
Results == {"none", "there", "conflict", "written", "failed"}
HiddenFiles == {"none", "open", "synced", "short"}
Calls == [pc : Places, call : Nat, result : Results]

TypeInv ==
    /\ style \in {"trust", "index"}
    /\ wants \in [Publishers -> Contents]
    /\ target \in File \cup {NoFile} /\ disk \in File \cup {NoFile}
    /\ temp \in [Publishers -> HiddenFiles]
    /\ proc \in [Publishers -> Calls]

\* The index lists the same runs whoever publishes it.
OneIndex ==
    style = "index" =>
        /\ \A v, w \in Publishers : wants[v] = wants[w]
        /\ target # NoFile => \A w \in Publishers : target.content = wants[w]

\* The disk has under the name what the name shows, and all that was acknowledged.
DiskShown ==
    /\ disk # NoFile => target # NoFile /\ disk.content = target.content
    /\ acked \subseteq IF disk = NoFile THEN {} ELSE {disk.content}

Placed(w) ==
    /\ proc[w].pc = "publish" => temp[w] \in {"synced", "short"}
    /\ temp[w] = "short" => style = "index"
    /\ proc[w].pc \in {"unlink", "sync"} => target # NoFile
    /\ proc[w].pc = "check" => disk # NoFile
    /\ proc[w].pc = "cleanup" /\ proc[w].result = "written" =>
          disk # NoFile /\ disk.content = wants[w]

\* All this, as long as no index that was cut short has been renamed.
Inv ==
    /\ TypeInv /\ OneIndex /\ DiskShown
    /\ \A w \in Publishers : Placed(w)
UncutInv == cut \in BOOLEAN /\ (cut => style = "index") /\ (cut \/ Inv)

Shown == IF target = NoFile THEN {} ELSE {target.content}

LEMMA FilesArePresent == \A f \in File : f # NoFile /\ f.whole /\ f.content \in Contents
<1>1. DOMAIN NoFile = {"content"}
  BY DEF NoFile
<1>2. \A f \in File : "whole" \in DOMAIN f
  BY DEF File
<1>3. \A f \in File : f.whole /\ f.content \in Contents
  BY DEF File
<1> QED BY <1>1, <1>2, <1>3

\* Where a call goes next; the others stay where they are.
LEMMA Stepped ==
    ASSUME TypeInv, NEW w \in Publishers, NEW pc \in Places, Step(w, pc)
    PROVE  /\ proc' \in [Publishers -> Calls] /\ proc'[w].pc = pc
           /\ \A v \in Publishers \ {w} : proc'[v] = proc[v]
<1>1. [proc[w] EXCEPT !.pc = pc] \in Calls /\ [proc[w] EXCEPT !.pc = pc].pc = pc
  BY DEF TypeInv, Calls
<1>2. proc' = [proc EXCEPT ![w] = [proc[w] EXCEPT !.pc = pc]]
  BY DEF Step, TypeInv
<1> QED BY <1>1, <1>2 DEF TypeInv

LEMMA Finished ==
    ASSUME TypeInv, NEW w \in Publishers, NEW r \in Results, Finish(w, r)
    PROVE  /\ proc' \in [Publishers -> Calls]
           /\ proc'[w].pc = "cleanup" /\ proc'[w].result = r
           /\ \A v \in Publishers \ {w} : proc'[v] = proc[v]
<1> DEFINE done == [proc[w] EXCEPT !.pc = "cleanup", !.result = r]
<1>1. "cleanup" \in Places
  BY DEF Places
<1>2. proc[w] \in [pc : Places, call : Nat, result : Results]
  BY DEF TypeInv, Calls
<1>3. done \in [pc : Places, call : Nat, result : Results]
  BY <1>1, <1>2
<1>4. done.pc = "cleanup" /\ done.result = r
  BY <1>2
<1>5. proc' = [proc EXCEPT ![w] = done]
  BY DEF Finish, TypeInv
<1> HIDE DEF done
<1> QED BY <1>3, <1>4, <1>5 DEF TypeInv, Calls

LEMMA Placing ==
    ASSUME TypeInv, NEW w \in Publishers, NEW c \in Calls, proc' = [proc EXCEPT ![w] = c]
    PROVE  /\ proc' \in [Publishers -> Calls] /\ proc'[w] = c
           /\ \A v \in Publishers \ {w} : proc'[v] = proc[v]
BY DEF TypeInv

LEMMA NamedIsFile ==
    ASSUME TypeInv, NEW w \in Publishers, NEW linked \in BOOLEAN, temp[w] = "synced"
    PROVE  FileOf(w, linked) \in File /\ FileOf(w, linked).content = wants[w]
BY DEF TypeInv, FileOf, File

\* Unlinking a hidden file leaves what is under the name its content.
LEMMA RemoveHiddenKeeps ==
    ASSUME TypeInv, NEW w \in Publishers, RemoveHidden(w)
    PROVE  /\ temp' \in [Publishers -> HiddenFiles] /\ temp'[w] = "none"
           /\ \A v \in Publishers \ {w} : temp'[v] = temp[v]
           /\ target' \in File \cup {NoFile}
           /\ target' = NoFile <=> target = NoFile
           /\ target # NoFile => target'.content = target.content
<1> temp' \in [Publishers -> HiddenFiles] /\ temp'[w] = "none"
  BY DEF TypeInv, RemoveHidden, HiddenFiles
<1>1. CASE target' = target
  BY <1>1 DEF TypeInv, RemoveHidden
<1>2. CASE target # NoFile /\ target' = [target EXCEPT !.linked = FALSE]
  <2>1. target \in File
    BY <1>2 DEF TypeInv
  <2>2. target' \in File /\ target'.content = target.content
    BY <1>2, <2>1 DEF File
  <2> QED BY <1>2, <2>2, FilesArePresent DEF TypeInv, RemoveHidden
<1> QED BY <1>1, <1>2 DEF RemoveHidden

LEMMA InitInv == FileInit => Inv
<1> SUFFICES ASSUME FileInit PROVE Inv
  OBVIOUS
<1>1. proc \in [Publishers -> Calls]
  BY DEF FileInit, Idle, Calls, Places, Results
<1>2. TypeInv
  BY <1>1 DEF FileInit, TypeInv, HiddenFiles
<1>3. OneIndex /\ DiskShown
  BY DEF FileInit, OneIndex, DiskShown
<1>4. \A w \in Publishers : Placed(w)
  BY DEF FileInit, Placed, Idle
<1> QED BY <1>2, <1>3, <1>4 DEF Inv

-----------------------------------------------------------------------------
(* What each step does to the invariant *)

LEMMA CallInv == ASSUME Inv, NEW w \in Publishers, Call(w) PROVE Inv'
<1>1. PICK c \in {[pc |-> "returned", call |-> proc[w].call + 1,
                   result |-> IF Reads(w) THEN "there" ELSE "conflict"],
                  [pc |-> "create", call |-> proc[w].call + 1, result |-> "none"]} :
        proc' = [proc EXCEPT ![w] = c]
  <2>1. proc[w] = [pc |-> proc[w].pc, call |-> proc[w].call, result |-> proc[w].result]
    BY DEF Inv, TypeInv, Calls
  <2> QED BY DEF Call, Inv, TypeInv
<1>2. c \in Calls /\ c.pc \in {"returned", "create"}
  <2>1. proc[w].call + 1 \in Nat
    BY DEF Inv, TypeInv, Calls
  <2> QED BY <1>1, <2>1 DEF Calls, Places, Results
<1>3. TypeInv'
  BY <1>1, <1>2, Placing DEF Inv, TypeInv, Call
<1>4. OneIndex' /\ DiskShown'
  BY DEF Inv, OneIndex, DiskShown, Call
<1>5. \A v \in Publishers : Placed(v)'
  BY <1>1, <1>2, Placing DEF Inv, Placed, Call
<1> QED BY <1>3, <1>4, <1>5 DEF Inv

LEMMA CreateInv == ASSUME Inv, NEW w \in Publishers, Create(w) PROVE Inv'
<1>1. Step(w, "write") /\ "write" \in Places /\ TypeInv
  BY DEF Create, Places, Inv
<1>2. TypeInv'
  BY <1>1, Stepped DEF TypeInv, Create, HiddenFiles
<1>3. OneIndex' /\ DiskShown'
  BY DEF Inv, OneIndex, DiskShown, Create
<1>4. \A v \in Publishers : Placed(v)'
  BY <1>1, Stepped DEF Inv, TypeInv, Placed, Create
<1> QED BY <1>2, <1>3, <1>4 DEF Inv

LEMMA WriteInv == ASSUME Inv, NEW w \in Publishers, Write(w) PROVE Inv'
<1>1. Step(w, "publish") /\ "publish" \in Places /\ TypeInv
  BY DEF Write, Places, Inv
<1>2. TypeInv'
  BY <1>1, Stepped DEF TypeInv, Write, HiddenFiles
<1>3. OneIndex' /\ DiskShown'
  BY DEF Inv, OneIndex, DiskShown, Write
<1>4. \A v \in Publishers : Placed(v)'
  BY <1>1, Stepped DEF Inv, TypeInv, Placed, Write
<1> QED BY <1>2, <1>3, <1>4 DEF Inv

\* A short hidden file is one of the index.
LEMMA WriteShortInv == ASSUME Inv, NEW w \in Publishers, WriteShort(w) PROVE Inv'
<1>1. Step(w, "publish") /\ "publish" \in Places /\ TypeInv
  BY DEF WriteShort, Places, Inv
<1>2. TypeInv'
  BY <1>1, Stepped DEF TypeInv, WriteShort, HiddenFiles
<1>3. OneIndex' /\ DiskShown'
  BY DEF Inv, OneIndex, DiskShown, WriteShort
<1>4. \A v \in Publishers : Placed(v)'
  BY <1>1, Stepped DEF Inv, TypeInv, Placed, WriteShort
<1> QED BY <1>2, <1>3, <1>4 DEF Inv

LEMMA LinkInv == ASSUME Inv, NEW w \in Publishers, Link(w) PROVE Inv'
<1> "conflict" \in Results /\ "unlink" \in Places /\ TypeInv
  BY DEF Results, Places, Inv
<1> temp[w] = "synced"
  BY DEF Inv, Placed, Link, At
<1>1. CASE target # NoFile /\ Finish(w, "conflict") /\ UNCHANGED <<target, disk>>
  <2>1. TypeInv'
    BY <1>1, Finished DEF TypeInv, Link
  <2>2. OneIndex' /\ DiskShown'
    BY <1>1 DEF Inv, OneIndex, DiskShown, Link
  <2>3. \A v \in Publishers : Placed(v)'
    BY <1>1, Finished DEF Inv, Placed, Link
  <2> QED BY <2>1, <2>2, <2>3 DEF Inv
<1>2. CASE target = NoFile /\ target' = FileOf(w, TRUE) /\ Step(w, "unlink")
  <2>1. target' \in File /\ target' # NoFile
    BY <1>2, NamedIsFile, FilesArePresent DEF Inv, Placed, Link, At
  <2>2. target'.content = wants[w]
    BY <1>2, NamedIsFile DEF Inv, Placed, Link, At
  <2>3. TypeInv'
    BY <1>2, <2>1, Stepped DEF TypeInv, Link
  <2>4. OneIndex' /\ DiskShown'
    BY <1>2, <2>1, <2>2 DEF Inv, OneIndex, DiskShown, Link
  <2>5. \A v \in Publishers : Placed(v)'
    BY <1>2, <2>1, Stepped DEF Inv, DiskShown, Placed, Link
  <2> QED BY <2>3, <2>4, <2>5 DEF Inv
<1> QED BY <1>1, <1>2 DEF Link

LEMMA UnlinkInv == ASSUME Inv, NEW w \in Publishers, Unlink(w) PROVE Inv'
<1>1. RemoveHidden(w) /\ Step(w, "sync") /\ "sync" \in Places /\ TypeInv
  BY DEF Unlink, Places, Inv
<1>2. TypeInv'
  BY <1>1, RemoveHiddenKeeps, Stepped DEF TypeInv, Unlink
<1>3. OneIndex' /\ DiskShown'
  BY <1>1, RemoveHiddenKeeps DEF Inv, OneIndex, DiskShown, Unlink
<1>4. \A v \in Publishers : Placed(v)'
  <2>1. ASSUME NEW v \in Publishers \ {w} PROVE Placed(v)'
    BY <1>1, <2>1, RemoveHiddenKeeps, Stepped DEF Inv, Placed, Unlink, At
  <2>2. Placed(w)'
    BY <1>1, RemoveHiddenKeeps, Stepped DEF Inv, Placed, Unlink, At
  <2> QED BY <2>1, <2>2
<1> QED BY <1>2, <1>3, <1>4 DEF Inv

LEMMA ReplaceInv == ASSUME Inv, NEW w \in Publishers, Replace(w), ~cut' PROVE Inv'
<1>1. /\ target' = FileOf(w, FALSE) /\ temp[w] = "synced" /\ style = "index"
      /\ Step(w, "sync") /\ "sync" \in Places /\ TypeInv
  BY DEF Inv, Placed, Replace, At, Places
<1>2. target' \in File /\ target' # NoFile /\ target'.content = wants[w]
  BY <1>1, NamedIsFile, FilesArePresent
<1>3. TypeInv'
  BY <1>1, <1>2, Stepped DEF TypeInv, Replace, HiddenFiles
<1>4. OneIndex' /\ DiskShown'
  BY <1>1, <1>2 DEF Inv, OneIndex, DiskShown, Replace
<1>5. \A v \in Publishers : Placed(v)'
  BY <1>1, <1>2, Stepped, ZenonT(60) DEF Inv, TypeInv, Placed, Replace
<1> QED BY <1>3, <1>4, <1>5 DEF Inv

LEMMA SyncInv == ASSUME Inv, NEW w \in Publishers, Sync(w) PROVE Inv'
<1>1. /\ disk' = target /\ target' = target /\ target # NoFile
      /\ Step(w, "check") /\ "check" \in Places /\ TypeInv
  BY DEF Inv, Placed, Sync, At, Places
<1>2. TypeInv'
  BY <1>1, Stepped DEF TypeInv, Sync
<1>3. disk # NoFile => disk'.content = disk.content
  BY <1>1 DEF Inv, DiskShown
<1>4. OneIndex' /\ DiskShown'
  BY <1>1, <1>3 DEF Inv, OneIndex, DiskShown, Sync
<1>5. \A v \in Publishers : Placed(v)'
  BY <1>1, <1>3, Stepped DEF Inv, Placed, Sync
<1> QED BY <1>2, <1>4, <1>5 DEF Inv

LEMMA CheckInv == ASSUME Inv, NEW w \in Publishers, Check(w) PROVE Inv'
<1>1. PICK r \in {"written", "failed"} : Finish(w, r) /\ (r = "written" => Reads(w))
  BY DEF Check
<1>2. r \in Results /\ TypeInv
  BY <1>1 DEF Results, Inv
<1>3. TypeInv'
  BY <1>1, <1>2, Finished DEF TypeInv, Check
<1>4. OneIndex' /\ DiskShown'
  BY DEF Inv, OneIndex, DiskShown, Check
<1>5. Reads(w) => disk # NoFile /\ disk.content = wants[w]
  BY DEF Inv, DiskShown, Placed, Check, At, Reads
<1>6. \A v \in Publishers : Placed(v)'
  BY <1>1, <1>2, <1>5, Finished DEF Inv, Placed, Check
<1> QED BY <1>3, <1>4, <1>6 DEF Inv

LEMMA CleanupInv == ASSUME Inv, NEW w \in Publishers, Cleanup(w) PROVE Inv'
<1>1. /\ RemoveHidden(w) /\ TypeInv /\ UNCHANGED <<style, wants, disk>>
      /\ Step(w, "returned") /\ "returned" \in Places
  BY DEF Cleanup, Inv, Places
<1>2. TypeInv'
  BY <1>1, RemoveHiddenKeeps, Stepped DEF TypeInv
<1>3. proc[w].result = "written" => disk # NoFile /\ disk.content = wants[w]
  BY DEF Inv, Placed, Cleanup, At
<1>4. OneIndex' /\ DiskShown'
  BY <1>1, <1>3, RemoveHiddenKeeps DEF Inv, OneIndex, DiskShown, Cleanup
<1>5. \A v \in Publishers : Placed(v)'
  <2>1. ASSUME NEW v \in Publishers \ {w} PROVE Placed(v)'
    BY <1>1, <2>1, RemoveHiddenKeeps, Stepped DEF Inv, Placed
  <2>2. Placed(w)'
    BY <1>1, RemoveHiddenKeeps, Stepped DEF Inv, Placed
  <2> QED BY <2>1, <2>2
<1> QED BY <1>2, <1>4, <1>5 DEF Inv

LEMMA FaultInv == ASSUME Inv, NEW w \in Publishers, Fault(w) PROVE Inv'
<1>1. Finish(w, "failed") /\ "failed" \in Results /\ TypeInv
  BY DEF Fault, Results, Inv
<1>2. TypeInv'
  BY <1>1, Finished DEF TypeInv, Fault
<1>3. OneIndex' /\ DiskShown'
  BY DEF Inv, OneIndex, DiskShown, Fault
<1>4. \A v \in Publishers : Placed(v)'
  BY <1>1, Finished DEF Inv, Placed, Fault
<1> QED BY <1>2, <1>3, <1>4 DEF Inv

LEMMA IdleIsCall == \A n \in Nat : [Idle EXCEPT !.call = n] \in Calls
                                   /\ [Idle EXCEPT !.call = n].pc = "idle"
  BY DEF Idle, Calls, Places, Results

LEMMA CrashInv == ASSUME Inv, NEW w \in Publishers, Crash(w) PROVE Inv'
<1>1. TypeInv /\ proc[w].call \in Nat
  BY DEF Inv, TypeInv, Calls
<1>2. PICK c \in Calls : proc' = [proc EXCEPT ![w] = c] /\ c.pc = "idle"
  <2>1. proc' = [proc EXCEPT ![w] = [Idle EXCEPT !.call = proc[w].call]]
    BY DEF Crash
  <2> QED BY <1>1, <2>1, IdleIsCall
<1>3. TypeInv'
  BY <1>1, <1>2, Placing DEF TypeInv, Crash, HiddenFiles
<1>4. OneIndex' /\ DiskShown'
  BY DEF Inv, OneIndex, DiskShown, Crash
<1>5. \A v \in Publishers : Placed(v)'
  <2>1. ASSUME NEW v \in Publishers, v # w PROVE Placed(v)'
    <3>1. proc'[v] = proc[v] /\ temp'[v] = temp[v]
      BY <1>1, <1>2, <2>1, Placing DEF TypeInv, Crash
    <3>2. Placed(v) /\ UNCHANGED <<style, target, disk, wants>>
      BY DEF Inv, Crash
    <3> QED BY <3>1, <3>2 DEF Placed
  <2>2. Placed(w)'
    <3>1. proc'[w].pc = "idle" /\ temp'[w] = "none"
      BY <1>1, <1>2, Placing DEF TypeInv, Crash
    <3> QED BY <3>1 DEF Placed
  <2> QED BY <2>1, <2>2
<1> QED BY <1>3, <1>4, <1>5 DEF Inv

\* The name keeps what it has or what the disk has; both are whole.
LEMMA PowerLossKeeps ==
    ASSUME Inv, PowerLoss
    PROVE  /\ target' \in File \cup {NoFile}
           /\ target' # NoFile => target # NoFile /\ target'.content = target.content
           /\ disk # NoFile => target' # NoFile /\ target'.content = disk.content
<1>1. PICK f \in {target, disk}, linked \in BOOLEAN :
        target' = IF f = NoFile THEN NoFile
                  ELSE [f EXCEPT !.linked = linked,
                                 !.content = IF f.whole THEN f.content ELSE "torn"]
  BY DEF PowerLoss
<1>2. CASE f = NoFile
  <2>1. target' = NoFile /\ disk = NoFile
    BY <1>1, <1>2 DEF Inv, DiskShown
  <2> QED BY <2>1
<1>3. CASE f # NoFile
  <2>1. f \in File
    BY <1>3 DEF Inv, TypeInv
  <2>2. target' \in File /\ target'.content = f.content
    BY <1>1, <1>3, <2>1 DEF File
  <2>3. target # NoFile /\ f.content = target.content
        /\ (disk # NoFile => f.content = disk.content)
    BY <1>3 DEF Inv, DiskShown
  <2> QED BY <2>2, <2>3, FilesArePresent
<1> QED BY <1>2, <1>3

LEMMA PowerLossInv == ASSUME Inv, PowerLoss PROVE Inv'
<1>1. disk' = target' /\ UNCHANGED <<style, wants, acked>>
  BY DEF PowerLoss
<1>2. \A w \in Publishers : proc'[w] \in Calls /\ proc'[w].pc = "idle"
  <2>1. \A w \in Publishers : proc[w].call \in Nat
    BY DEF Inv, TypeInv, Calls
  <2>2. \A w \in Publishers : proc'[w] = [Idle EXCEPT !.call = proc[w].call]
    BY DEF PowerLoss
  <2> QED BY <2>1, <2>2, IdleIsCall, ZenonT(60)
<1>3. TypeInv'
  <2>1. proc' \in [Publishers -> Calls] /\ temp' \in [Publishers -> HiddenFiles]
    BY <1>2 DEF PowerLoss, HiddenFiles
  <2> QED BY <1>1, <2>1, PowerLossKeeps DEF Inv, TypeInv
<1>4. OneIndex' /\ DiskShown'
  BY <1>1, PowerLossKeeps DEF Inv, OneIndex, DiskShown
<1>5. \A v \in Publishers : Placed(v)'
  <2>1. \A v \in Publishers : temp'[v] = "none"
    BY DEF PowerLoss
  <2> QED BY <1>2, <2>1 DEF Placed
<1> QED BY <1>3, <1>4, <1>5 DEF Inv

\* No step leads out of the invariant but the renaming of a short index.
LEMMA UncutNextInv == Inv /\ ~cut' /\ [FileNext]_fileVars => Inv'
<1> SUFFICES ASSUME Inv, ~cut', [FileNext]_fileVars PROVE Inv'
  OBVIOUS
<1>1. CASE UNCHANGED fileVars
  BY <1>1 DEF fileVars, Inv, TypeInv, OneIndex, DiskShown, Placed
<1>2. CASE PowerLoss
  BY <1>2, PowerLossInv
<1>3. ASSUME NEW w \in Publishers,
             \/ Call(w) \/ Create(w) \/ Write(w) \/ Link(w) \/ Unlink(w) \/ Replace(w)
             \/ Sync(w) \/ Check(w) \/ Cleanup(w) \/ WriteShort(w) \/ Fault(w) \/ Crash(w)
      PROVE  Inv'
  BY <1>3, CallInv, CreateInv, WriteInv, LinkInv, UnlinkInv, ReplaceInv, SyncInv, CheckInv,
     CleanupInv, WriteShortInv, FaultInv, CrashInv
<1> QED BY <1>1, <1>2, <1>3 DEF FileNext

\* Only the index is ever cut short, and what was cut short stays counted as such.
LEMMA CutStays ==
    ASSUME cut \in BOOLEAN, cut => style = "index", [FileNext]_fileVars
    PROVE  /\ cut' \in BOOLEAN /\ style' = style
           /\ cut => cut'
           /\ cut' => style' = "index"
<1>1. CASE UNCHANGED <<style, cut>>
  BY <1>1
<1>2. ASSUME NEW w \in Publishers, Replace(w)
      PROVE  style' = style /\ style = "index" /\ cut' = (cut \/ temp[w] = "short")
  BY <1>2 DEF Replace
<1>3. ASSUME NEW w \in Publishers,
             \/ Call(w) \/ Create(w) \/ Write(w) \/ Link(w) \/ Unlink(w)
             \/ Sync(w) \/ Check(w) \/ Cleanup(w) \/ WriteShort(w) \/ Fault(w) \/ Crash(w)
      PROVE  UNCHANGED <<style, cut>>
  BY <1>3 DEF Call, Create, Write, Link, Unlink, Sync, Check, Cleanup, WriteShort, Fault, Crash
<1>4. UNCHANGED fileVars \/ PowerLoss => UNCHANGED <<style, cut>>
  BY DEF fileVars, PowerLoss
<1> QED BY <1>1, <1>2, <1>3, <1>4 DEF FileNext

LEMMA NextInv == UncutInv /\ [FileNext]_fileVars => UncutInv'
BY CutStays, UncutNextInv DEF UncutInv

-----------------------------------------------------------------------------
(* The refinement *)

\* A step that leaves the content under the name and the acknowledged contents
\* alone is a stutter of the store.
LEMMA Stutter ==
    ASSUME acked' = acked, target' = NoFile <=> target = NoFile,
           target # NoFile => target'.content = target.content
    PROVE  UNCHANGED Store!storeVars
BY DEF Store!storeVars

LEMMA StepMaps ==
    ASSUME Inv, NEW w \in Publishers,
           \/ Call(w) \/ Create(w) \/ Write(w) \/ Link(w) \/ Unlink(w) \/ Replace(w)
           \/ Sync(w) \/ Check(w) \/ Cleanup(w) \/ WriteShort(w) \/ Fault(w) \/ Crash(w),
           ~cut'
    PROVE  [Store!StoreNext]_(Store!storeVars)
<1>1. CASE \/ Call(w) \/ Create(w) \/ Write(w) \/ Sync(w)
           \/ Check(w) \/ WriteShort(w) \/ Fault(w) \/ Crash(w)
  <2>1. UNCHANGED <<target, acked>>
    BY <1>1 DEF Call, Create, Write, Sync, Check, WriteShort, Fault, Crash
  <2> QED BY <2>1, Stutter
<1>2. CASE Link(w)
  <2>1. CASE UNCHANGED target
    BY <1>2, <2>1, Stutter DEF Link
  <2>2. CASE target = NoFile /\ target' = FileOf(w, TRUE)
    <3> temp[w] = "synced" /\ TypeInv
      BY <1>2 DEF Inv, Placed, Link, At
    <3>1. target' # NoFile /\ target'.content = wants[w] /\ wants[w] \in Contents
      BY <2>2, NamedIsFile, FilesArePresent DEF TypeInv
    <3>2. Store!Store(wants[w])
      BY <1>2, <2>2, <3>1 DEF Store!Store, Link
    <3> QED BY <3>1, <3>2 DEF Store!StoreNext
  <2> QED BY <1>2, <2>1, <2>2 DEF Link
<1>3. CASE Unlink(w)
  BY <1>3, RemoveHiddenKeeps, Stutter DEF Unlink, Inv
<1>4. CASE Replace(w)
  <2> temp[w] = "synced" /\ TypeInv
    BY <1>4 DEF Inv, Placed, Replace, At
  <2>1. /\ target' # NoFile /\ target'.content = wants[w] /\ wants[w] \in Contents
        /\ acked' = acked /\ style = "index"
    BY <1>4, NamedIsFile, FilesArePresent DEF TypeInv, Replace
  <2>2. target # NoFile => target.content = wants[w]
    BY <2>1 DEF Inv, OneIndex
  <2>3. Store!Store(wants[w])
    BY <2>1, <2>2 DEF Store!Store
  <2> QED BY <2>1, <2>3 DEF Store!StoreNext
<1>5. CASE Cleanup(w)
  <2>1. /\ target' = NoFile <=> target = NoFile
        /\ target # NoFile => target'.content = target.content
    BY <1>5, RemoveHiddenKeeps DEF Cleanup, Inv
  <2>2. CASE proc[w].result # "written"
    BY <1>5, <2>1, <2>2, Stutter DEF Cleanup
  <2>3. CASE proc[w].result = "written"
    <3>1. target # NoFile /\ target.content = wants[w] /\ wants[w] \in Contents
      BY <1>5, <2>3 DEF Inv, TypeInv, DiskShown, Placed, Cleanup, At
    <3>2. Store!Acknowledge(wants[w])
      BY <1>5, <2>1, <2>3, <3>1 DEF Store!Acknowledge, Cleanup
    <3> QED BY <3>1, <3>2 DEF Store!StoreNext
  <2> QED BY <2>2, <2>3
<1> QED BY <1>1, <1>2, <1>3, <1>4, <1>5

LEMMA PowerLossMaps == ASSUME Inv, PowerLoss PROVE Store!Lose
<1>1. acked' = acked
  BY DEF PowerLoss
<1>2. acked \subseteq IF target' = NoFile THEN {} ELSE {target'.content}
  BY PowerLossKeeps DEF Inv, DiskShown
<1> QED BY <1>1, <1>2, PowerLossKeeps DEF Store!Lose

\* Publishers of one name that race, fail and die anywhere, in any number, show
\* nothing or one whole content that no other replaces and that stays once a
\* call that wrote it has returned: the trust manifest always, the index until
\* the first time one that is not all there is renamed.
THEOREM FilesAreKept == FileSpec => FilesAreContentStore
<1>1. FileInit => Store!StoreInit /\ UncutInv
  BY InitInv DEF FileInit, Store!StoreInit, UncutInv
<1>2. UncutInv /\ [FileNext]_fileVars =>
        [Store!StoreNext \/ (style = "index" /\ cut')]_(Store!storeVars)
  <2> SUFFICES ASSUME UncutInv, [FileNext]_fileVars
               PROVE  [Store!StoreNext \/ (style = "index" /\ cut')]_(Store!storeVars)
    OBVIOUS
  <2>1. CASE UNCHANGED fileVars
    BY <2>1, Stutter DEF fileVars
  <2>2. CASE cut'
    BY <2>2, CutStays DEF UncutInv
  <2>3. CASE ~cut'
    <3> Inv
      BY <2>3, CutStays DEF UncutInv
    <3>1. CASE PowerLoss
      BY <3>1, PowerLossMaps DEF Store!StoreNext
    <3>2. ASSUME NEW w \in Publishers,
                 \/ Call(w) \/ Create(w) \/ Write(w) \/ Link(w) \/ Unlink(w) \/ Replace(w)
                 \/ Sync(w) \/ Check(w) \/ Cleanup(w) \/ WriteShort(w) \/ Fault(w) \/ Crash(w)
          PROVE  [Store!StoreNext]_(Store!storeVars)
      BY <2>3, <3>2, StepMaps
    <3> QED BY <2>1, <3>1, <3>2 DEF FileNext
  <2> QED BY <2>2, <2>3
<1> QED BY <1>1, <1>2, NextInv, PTL DEF FileSpec, FilesAreContentStore

-----------------------------------------------------------------------------
(* Bundles *)

\* What a caller of the module gives it.
BundleParameters ==
    /\ None \notin Exporters /\ Absent \notin Directories
    /\ MaxMishaps \in Nat

BundlePlaces == {"idle", "lock", "look", "write", "publish", "root", "cleanup", "returned"}
BundleHeld == {"look", "write", "publish", "root", "cleanup"}
BundleResults == {"none", "reused", "published", "synced", "failed"}
BundleCalls == [pc : BundlePlaces, call : Nat, result : BundleResults]

BundleTypeInv == BundleTypeOK /\ export \in [Exporters -> BundleCalls] /\ acknowledged \subseteq {"bundle"}

BundleShown ==
    /\ bundle # Absent =>
          IF Syncs THEN Matches(bundle) /\ bundle.kept = Files
          ELSE Matches(bundle) \/ powerLost
    /\ powerLost => accidents > 0
    /\ acknowledged # {} => safe /\ bundle # Absent /\ Syncs

BundlePosition(w) ==
    /\ export[w].pc \in BundleHeld => runLock = w
    /\ export[w].pc \in {"lock", "look", "root"} => hidden[w] = Absent
    /\ export[w].pc \in {"write", "publish"} => bundle = Absent /\ hidden[w] \in Directories
    /\ export[w].pc = "write" => hidden[w].listed = hidden[w].written
    /\ export[w].pc = "publish" => Matches(hidden[w]) /\ (Syncs => hidden[w].kept = Files)
    /\ export[w].pc = "root" => bundle # Absent /\ Syncs
    /\ export[w].pc = "cleanup" /\ export[w].result = "synced" =>
          safe /\ bundle # Absent /\ Syncs

Contained(w) ==
    /\ export[w].result = "failed" => accidents > 0
    /\ export[w].pc = "cleanup" /\ hidden[w] # Absent => accidents > 0
    /\ export[w].pc = "returned" => hidden[w] \in {Absent, EmptyDirectory} \/ accidents >= 2

BundleInv == BundleTypeInv /\ BundleShown /\ \A w \in Exporters : BundlePosition(w) /\ Contained(w)

-----------------------------------------------------------------------------
(* Publishers *)

LEMMA Facts ==
    ASSUME BundleInv, BundleParameters, NEW w \in Exporters
    PROVE  /\ export \in [Exporters -> BundleCalls] /\ export[w] \in BundleCalls /\ export[w].call \in Nat
           /\ accidents \in Nat /\ accidents \in 0 .. MaxMishaps /\ accidents >= accidents
           /\ runLock \in Exporters \cup {None}
           /\ hidden \in [Exporters -> Directories \cup {Absent}]
           /\ hidden[w] \in Directories \cup {Absent}
           /\ bundle \in Directories \cup {Absent}
           /\ BundlePosition(w) /\ Contained(w)
BY DEF BundleInv, BundleTypeInv, BundleTypeOK, BundleCalls, BundleParameters

LEMMA BundleMoved ==
    ASSUME export \in [Exporters -> BundleCalls], NEW w \in Exporters, NEW c \in BundleCalls,
           export' = [export EXCEPT ![w] = c]
    PROVE  /\ export' \in [Exporters -> BundleCalls] /\ export'[w] = c
           /\ \A v \in Exporters \ {w} : export'[v] = export[v]
OBVIOUS

LEMMA BundleStepped ==
    ASSUME export \in [Exporters -> BundleCalls], NEW w \in Exporters, NEW pc \in BundlePlaces, ExportStep(w, pc)
    PROVE  /\ export' \in [Exporters -> BundleCalls]
           /\ export'[w].pc = pc /\ export'[w].result = export[w].result
           /\ \A v \in Exporters \ {w} : export'[v] = export[v]
<1> DEFINE c == [export[w] EXCEPT !.pc = pc]
<1>1. c \in BundleCalls /\ c.pc = pc /\ c.result = export[w].result
  BY DEF BundleCalls
<1>2. export' = [export EXCEPT ![w] = c]
  BY DEF ExportStep
<1> HIDE DEF c
<1> QED BY <1>1, <1>2, BundleMoved

LEMMA ResultGiven ==
    ASSUME NEW c \in BundleCalls, NEW pc \in BundlePlaces, NEW r \in BundleResults
    PROVE  /\ [c EXCEPT !.pc = pc, !.result = r] \in BundleCalls
           /\ [c EXCEPT !.pc = pc, !.result = r].pc = pc
           /\ [c EXCEPT !.pc = pc, !.result = r].result = r
BY DEF BundleCalls

LEMMA BundleFinished ==
    ASSUME export \in [Exporters -> BundleCalls], NEW w \in Exporters, NEW r \in BundleResults,
           FinishExport(w, r)
    PROVE  /\ export' \in [Exporters -> BundleCalls]
           /\ export'[w].pc = "cleanup" /\ export'[w].result = r
           /\ \A v \in Exporters \ {w} : export'[v] = export[v]
<1> DEFINE c == [export[w] EXCEPT !.pc = "cleanup", !.result = r]
<1>1. "cleanup" \in BundlePlaces
  BY DEF BundlePlaces
<1>2. c \in BundleCalls /\ c.pc = "cleanup" /\ c.result = r
  <2>1. export[w] \in [pc : BundlePlaces, call : Nat, result : BundleResults]
    BY DEF BundleCalls
  <2>2. c \in [pc : BundlePlaces, call : Nat, result : BundleResults]
    BY <1>1, <2>1
  <2>3. c.pc = "cleanup" /\ c.result = r
    BY <2>1
  <2> QED BY <2>2, <2>3 DEF BundleCalls
<1>3. export' = [export EXCEPT ![w] = c]
  BY DEF FinishExport
<1> HIDE DEF c
<1> QED BY <1>2, <1>3, BundleMoved

LEMMA BundleHoldsLock ==
    ASSUME BundleInv, NEW w \in Exporters, export[w].pc \in BundleHeld
    PROVE  runLock = w
BY DEF BundleInv, BundlePosition

\* A step of one publisher leaves the others where they are: it holds the lock, and
\* they do not, or it touches nothing they rely on.
LEMMA BundleOthersStay ==
    ASSUME BundleInv, BundleParameters, NEW w \in Exporters,
           \A v \in Exporters \ {w} : export'[v] = export[v] /\ hidden'[v] = hidden[v],
           exporter' = exporter, accidents' \in Nat, accidents' >= accidents,
           runLock \in {w, None} \/ UNCHANGED <<bundle, safe, runLock>>
    PROVE  \A v \in Exporters \ {w} : BundlePosition(v)' /\ Contained(v)'
<1> SUFFICES ASSUME NEW v \in Exporters, v # w PROVE BundlePosition(v)' /\ Contained(v)'
  OBVIOUS
<1>1. export'[v] = export[v] /\ hidden'[v] = hidden[v] /\ BundlePosition(v) /\ Contained(v)
  BY DEF BundleInv
<1>2. Contained(v)'
  BY <1>1, Facts DEF Contained, EmptyDirectory
<1>3. CASE runLock \in {w, None}
  <2>1. export[v].pc \notin BundleHeld
    BY <1>1, <1>3 DEF BundlePosition, BundleParameters
  <2> QED BY <1>1, <1>2, <2>1 DEF BundlePosition, BundleHeld
<1>4. CASE UNCHANGED <<bundle, safe, runLock>>
  BY <1>1, <1>2, <1>4 DEF BundlePosition, Syncs, Matches
<1> QED BY <1>3, <1>4

\* A step that leaves what is under the name alone.
LEMMA QuietStep ==
    ASSUME BundleInv, BundleParameters, NEW w \in Exporters,
           export' \in [Exporters -> BundleCalls], \A v \in Exporters \ {w} : export'[v] = export[v],
           NEW d \in Directories \cup {Absent}, hidden' = [hidden EXCEPT ![w] = d],
           UNCHANGED <<exporter, bundle, safe, powerLost, acknowledged>>,
           accidents' \in 0 .. MaxMishaps, accidents' >= accidents,
           runLock \in {w, None} \/ runLock' = runLock, runLock' \in Exporters \cup {None},
           BundlePosition(w)', Contained(w)'
    PROVE  BundleInv'
<1>1. accidents' \in Nat /\ accidents \in Nat
  BY Facts DEF BundleParameters
<1>2. /\ hidden' \in [Exporters -> Directories \cup {Absent}]
      /\ \A v \in Exporters \ {w} : hidden'[v] = hidden[v]
  BY Facts
<1>3. BundleTypeInv'
  BY <1>2 DEF BundleInv, BundleTypeInv, BundleTypeOK, Directories
<1>4. BundleShown'
  BY <1>1 DEF BundleInv, BundleShown, Syncs, Matches
<1>5. \A v \in Exporters \ {w} : BundlePosition(v)' /\ Contained(v)'
  BY <1>1, <1>2, BundleOthersStay
<1> QED BY <1>3, <1>4, <1>5 DEF BundleInv

LEMMA CalmStep ==
    ASSUME BundleInv, BundleParameters, NEW w \in Exporters,
           export' \in [Exporters -> BundleCalls], \A v \in Exporters \ {w} : export'[v] = export[v],
           NEW d \in Directories \cup {Absent}, hidden' = [hidden EXCEPT ![w] = d],
           UNCHANGED <<exporter, bundle, safe, runLock, history>>,
           BundlePosition(w)', Contained(w)'
    PROVE  BundleInv'
<1>1. /\ accidents' \in 0 .. MaxMishaps /\ accidents' >= accidents
      /\ runLock' = runLock /\ runLock' \in Exporters \cup {None}
      /\ UNCHANGED <<exporter, bundle, safe, powerLost, acknowledged>>
  BY Facts DEF history
<1> QED BY <1>1, QuietStep

LEMMA BundleInitInv == ASSUME BundleParameters, BundleInit PROVE BundleInv
<1>1. accidents = 0 /\ powerLost = FALSE /\ acknowledged = {} /\ bundle = Absent /\ safe = FALSE
  BY DEF BundleInit
<1>2. \A w \in Exporters : export[w] = Idle
  BY DEF BundleInit
<1>3. Idle \in BundleCalls
  BY DEF Idle, BundleCalls, BundlePlaces, BundleResults
<1>4. export \in [Exporters -> BundleCalls]
  BY <1>3 DEF BundleInit
<1>5. accidents \in 0 .. MaxMishaps
  BY <1>1 DEF BundleParameters
<1>6. BundleTypeInv
  BY <1>1, <1>4, <1>5 DEF BundleInit, BundleTypeInv, BundleTypeOK
<1>7. BundleShown
  BY <1>1 DEF BundleShown
<1>8. \A w \in Exporters : BundlePosition(w) /\ Contained(w)
  <2>1. Idle.pc = "idle" /\ Idle.result = "none"
    BY DEF Idle
  <2> QED BY <1>2, <2>1 DEF BundlePosition, Contained, BundleHeld
<1> QED BY <1>6, <1>7, <1>8 DEF BundleInv

-----------------------------------------------------------------------------
(* The steps *)

\* The hidden directory a step leaves, when it leaves it.
LEMMA SameTemp ==
    ASSUME BundleInv, BundleParameters, NEW w \in Exporters
    PROVE  hidden = [hidden EXCEPT ![w] = hidden[w]] /\ hidden[w] \in Directories \cup {Absent}
BY Facts

LEMMA ExportKeeps == ASSUME BundleInv, BundleParameters, NEW w \in Exporters, Export(w) PROVE BundleInv'
<1> DEFINE c == [pc |-> "lock", call |-> export[w].call + 1, result |-> "none"]
<1>1. c \in BundleCalls /\ c.pc = "lock" /\ c.result = "none"
  BY Facts DEF BundleCalls, BundlePlaces, BundleResults
<1>2. export' = [export EXCEPT ![w] = c]
  BY Facts DEF Export
<1> HIDE DEF c
<1>3. /\ hidden' = [hidden EXCEPT ![w] = Absent] /\ hidden'[w] = Absent
      /\ UNCHANGED <<exporter, bundle, safe, runLock, history>>
  BY Facts DEF Export
<1>4. export'[w] = c /\ BundlePosition(w)' /\ Contained(w)'
  BY <1>1, <1>2, <1>3, BundleMoved, Facts DEF BundlePosition, Contained, BundleHeld
<1> QED BY <1>1, <1>2, <1>3, <1>4, BundleMoved, Facts, CalmStep

LEMMA LockRunKeeps == ASSUME BundleInv, BundleParameters, NEW w \in Exporters, LockRun(w) PROVE BundleInv'
<1>1. /\ export[w].pc = "lock" /\ runLock = None /\ runLock' = w
      /\ ExportStep(w, "look") /\ "look" \in BundlePlaces /\ UNCHANGED <<exporter, storage, history>>
  BY DEF LockRun, ExportAt, BundlePlaces
<1>2. BundlePosition(w)' /\ Contained(w)'
  BY <1>1, BundleStepped, Facts DEF BundlePosition, Contained, BundleHeld, storage, history
<1> QED BY <1>1, <1>2, BundleStepped, Facts, SameTemp, QuietStep DEF storage, history

\* Comparing finds the same bundle, if no power loss has torn it.
LEMMA Compared ==
    ASSUME BundleInv, BundleParameters, NEW w \in Exporters, Compare(w), bundle # Absent
    PROVE  \E r \in {"reused", "failed"} :
              /\ FinishExport(w, r) /\ r \in BundleResults
              /\ r = "failed" => accidents > 0
<1> DEFINE r == IF Matches(bundle) THEN "reused" ELSE "failed"
<1>1. FinishExport(w, r)
  BY DEF Compare
<1>2. ~Matches(bundle) => accidents > 0
  BY DEF BundleInv, BundleShown
<1> QED BY <1>1, <1>2 DEF BundleResults

LEMMA LookForBundleKeeps == ASSUME BundleInv, BundleParameters, NEW w \in Exporters, LookForBundle(w) PROVE BundleInv'
<1>1. /\ runLock = w /\ hidden[w] = Absent /\ UNCHANGED <<exporter, bundle, safe, runLock, history>>
      /\ runLock \in Exporters \cup {None}
  BY BundleHoldsLock, Facts DEF LookForBundle, ExportAt, BundleHeld, BundlePosition
<1>2. CASE bundle # Absent /\ Compare(w) /\ UNCHANGED hidden
  <2>1. PICK r \in {"reused", "failed"} :
            FinishExport(w, r) /\ r \in BundleResults /\ (r = "failed" => accidents > 0)
    BY <1>2, Compared
  <2>2. BundlePosition(w)' /\ Contained(w)'
    BY <1>1, <1>2, <2>1, BundleFinished, Facts DEF BundlePosition, Contained, BundleHeld,
       history
  <2> QED BY <1>1, <1>2, <2>1, <2>2, BundleFinished, Facts, SameTemp, QuietStep DEF history
<1>3. CASE /\ bundle = Absent /\ ExportStep(w, "write")
           /\ hidden' = [hidden EXCEPT ![w] = EmptyDirectory]
  <2>1. "write" \in BundlePlaces /\ EmptyDirectory \in Directories
        /\ EmptyDirectory.listed = EmptyDirectory.written
    BY DEF BundlePlaces, EmptyDirectory, Directories
  <2>2. hidden'[w] = EmptyDirectory
    BY <1>3, Facts
  <2>3. BundlePosition(w)' /\ Contained(w)'
    BY <1>1, <1>3, <2>1, <2>2, BundleStepped, Facts DEF BundlePosition, Contained,
       BundleHeld, history, Directories
  <2> QED BY <1>1, <1>3, <2>1, <2>3, BundleStepped, Facts, CalmStep
<1> QED BY <1>2, <1>3 DEF LookForBundle

LEMMA WriteFileKeeps ==
    ASSUME BundleInv, BundleParameters, NEW w \in Exporters, NEW f \in Files, WriteFile(w, f)
    PROVE  BundleInv'
<1> DEFINE d == [hidden[w] EXCEPT !.listed = @ \cup {f}, !.written = @ \cup {f}]
<1>1. /\ export[w].pc = "write" /\ runLock = w /\ bundle = Absent
      /\ hidden[w] \in Directories /\ hidden[w].listed = hidden[w].written
      /\ UNCHANGED <<exporter, bundle, safe, runLock, export, history>>
  BY BundleHoldsLock, Facts DEF WriteFile, ExportAt, BundleHeld, BundlePosition
<1>2. d \in Directories /\ d.listed = d.written
  BY <1>1 DEF Directories
<1>3. hidden' = [hidden EXCEPT ![w] = d]
  BY Facts DEF WriteFile
<1> HIDE DEF d
<1>4. hidden'[w] = d
  BY <1>3, Facts
<1>5. BundlePosition(w)' /\ Contained(w)'
  BY <1>1, <1>2, <1>4, Facts DEF BundlePosition, Contained, BundleHeld, history, Directories
<1> QED BY <1>1, <1>2, <1>3, <1>5, Facts, CalmStep

LEMMA SealKeeps == ASSUME BundleInv, BundleParameters, NEW w \in Exporters, Seal(w) PROVE BundleInv'
<1>1. /\ export[w].pc = "write" /\ runLock = w /\ bundle = Absent
      /\ hidden[w] \in Directories /\ Matches(hidden[w])
      /\ ExportStep(w, "publish") /\ "publish" \in BundlePlaces
      /\ UNCHANGED <<exporter, bundle, safe, runLock, history>>
  BY BundleHoldsLock, Facts DEF Seal, ExportAt, BundleHeld, BundlePosition, BundlePlaces,
     Matches
<1> DEFINE d == IF Syncs THEN [hidden[w] EXCEPT !.kept = Files] ELSE hidden[w]
<1>2. d \in Directories /\ Matches(d) /\ (Syncs => d.kept = Files)
  BY <1>1 DEF Directories, Matches
<1>3. hidden' = [hidden EXCEPT ![w] = d]
  BY Facts DEF Seal
<1> HIDE DEF d
<1>4. hidden'[w] = d
  BY <1>3, Facts
<1>5. BundlePosition(w)' /\ Contained(w)'
  BY <1>1, <1>2, <1>4, BundleStepped, Facts DEF BundlePosition, Contained, BundleHeld,
     history, Syncs
<1> QED BY <1>1, <1>2, <1>3, <1>5, BundleStepped, Facts, CalmStep

\* The rename shows a whole directory where there was none, and so nothing that was
\* acknowledged.
LEMMA PublishKeeps == ASSUME BundleInv, BundleParameters, NEW w \in Exporters, Publish(w) PROVE BundleInv'
<1>1. /\ export[w].pc = "publish" /\ runLock = w /\ bundle = Absent
      /\ hidden[w] \in Directories /\ Matches(hidden[w]) /\ (Syncs => hidden[w].kept = Files)
      /\ UNCHANGED <<exporter, runLock, history>>
  BY BundleHoldsLock, Facts DEF Publish, ExportAt, BundleHeld, BundlePosition
<1>2. /\ bundle' = hidden[w] /\ safe' = FALSE /\ hidden' = [hidden EXCEPT ![w] = Absent]
      /\ IF Syncs THEN ExportStep(w, "root") ELSE FinishExport(w, "published")
  BY <1>1 DEF Publish
<1>3. /\ export' \in [Exporters -> BundleCalls]
      /\ \A v \in Exporters \ {w} : export'[v] = export[v]
      /\ export'[w].pc = (IF Syncs THEN "root" ELSE "cleanup")
      /\ export'[w].result # "synced" \/ export'[w].pc = "root"
      /\ export'[w].result = "failed" => export[w].result = "failed"
  BY <1>2, BundleStepped, BundleFinished, Facts DEF BundlePlaces, BundleResults
<1>4. /\ hidden' \in [Exporters -> Directories \cup {Absent}] /\ hidden'[w] = Absent
      /\ \A v \in Exporters \ {w} : hidden'[v] = hidden[v]
  BY <1>2, Facts
<1>5. bundle' # Absent /\ bundle' \in Directories
  BY <1>1, <1>2 DEF BundleParameters
<1>6. BundleTypeInv'
  BY <1>1, <1>2, <1>3, <1>4, <1>5 DEF BundleInv, BundleTypeInv, BundleTypeOK, history,
     Directories
<1>7. BundleShown'
  BY <1>1, <1>2 DEF BundleInv, BundleShown, Syncs, Matches, history
<1>8. BundlePosition(w)' /\ Contained(w)'
  BY <1>1, <1>3, <1>4, <1>5, Facts DEF BundlePosition, Contained, BundleHeld, history, Syncs
<1>9. \A v \in Exporters \ {w} : BundlePosition(v)' /\ Contained(v)'
  BY <1>1, <1>3, <1>4, Facts, BundleOthersStay DEF history
<1> QED BY <1>6, <1>7, <1>8, <1>9 DEF BundleInv

LEMMA SyncRootKeeps == ASSUME BundleInv, BundleParameters, NEW w \in Exporters, SyncRoot(w) PROVE BundleInv'
<1>1. /\ export[w].pc = "root" /\ runLock = w /\ bundle # Absent /\ Syncs /\ hidden[w] = Absent
      /\ safe' = TRUE /\ UNCHANGED <<exporter, bundle, hidden, runLock, history>>
  BY BundleHoldsLock, Facts DEF SyncRoot, ExportAt, BundleHeld, BundlePosition
<1>2. Matches(bundle)
  BY <1>1 DEF BundleInv, BundleShown
<1>3. FinishExport(w, "synced") /\ "synced" \in BundleResults
  BY <1>2 DEF SyncRoot, BundleResults
<1>4. /\ export' \in [Exporters -> BundleCalls]
      /\ \A v \in Exporters \ {w} : export'[v] = export[v]
      /\ export'[w].pc = "cleanup" /\ export'[w].result = "synced"
  BY <1>3, BundleFinished, Facts
<1>5. BundleTypeInv'
  BY <1>1, <1>4 DEF BundleInv, BundleTypeInv, BundleTypeOK, history, Directories
<1>6. BundleShown'
  BY <1>1 DEF BundleInv, BundleShown, Syncs, Matches, history
<1>7. BundlePosition(w)' /\ Contained(w)'
  BY <1>1, <1>4, Facts DEF BundlePosition, Contained, BundleHeld, Syncs
<1>8. \A v \in Exporters \ {w} : BundlePosition(v)' /\ Contained(v)'
  <2>1. accidents' \in Nat /\ accidents' >= accidents /\ exporter' = exporter
        /\ \A v \in Exporters \ {w} : hidden'[v] = hidden[v]
    BY <1>1, Facts DEF history
  <2> QED BY <1>1, <1>4, <2>1, BundleOthersStay
<1> QED BY <1>5, <1>6, <1>7, <1>8 DEF BundleInv

\* Only a call whose root was synced acknowledges.
LEMMA CleanupExportKeeps == ASSUME BundleInv, BundleParameters, NEW w \in Exporters, CleanupExport(w) PROVE BundleInv'
<1>1. /\ export[w].pc = "cleanup" /\ runLock = w /\ ExportStep(w, "returned") /\ "returned" \in BundlePlaces
      /\ runLock' = None /\ UNCHANGED <<exporter, bundle, safe, accidents, powerLost>>
      /\ acknowledged' = IF export[w].result = "synced" THEN {"bundle"} ELSE acknowledged
  BY BundleHoldsLock DEF CleanupExport, ExportAt, BundleHeld, BundlePlaces
<1> DEFINE d == IF hidden[w] # Absent /\ exporter = "portfolio" THEN EmptyDirectory ELSE Absent
<1>2. d \in Directories \cup {Absent} /\ d \in {Absent, EmptyDirectory}
  BY DEF EmptyDirectory, Directories
<1>3. hidden' = [hidden EXCEPT ![w] = d]
  BY Facts DEF CleanupExport
<1> HIDE DEF d
<1>4. /\ hidden' \in [Exporters -> Directories \cup {Absent}] /\ hidden'[w] = d
      /\ \A v \in Exporters \ {w} : hidden'[v] = hidden[v]
  BY <1>2, <1>3, Facts
<1>5. BundleTypeInv'
  BY <1>1, <1>4, BundleStepped, Facts DEF BundleInv, BundleTypeInv, BundleTypeOK,
     Directories
<1>6. BundleShown'
  BY <1>1, Facts DEF BundleInv, BundleShown, Syncs, Matches, BundlePosition
<1>7. BundlePosition(w)' /\ Contained(w)'
  BY <1>1, <1>2, <1>4, BundleStepped, Facts DEF BundlePosition, Contained, BundleHeld,
     EmptyDirectory
<1>8. \A v \in Exporters \ {w} : BundlePosition(v)' /\ Contained(v)'
  BY <1>1, <1>4, BundleStepped, Facts, BundleOthersStay
<1> QED BY <1>5, <1>6, <1>7, <1>8 DEF BundleInv

-----------------------------------------------------------------------------
(* Mishaps *)

LEMMA MishapCounts ==
    ASSUME BundleInv, BundleParameters, ExportMishap
    PROVE  /\ accidents' \in 0 .. MaxMishaps /\ accidents' \in Nat
           /\ accidents' = accidents + 1 /\ accidents \in Nat
BY DEF BundleInv, BundleTypeInv, BundleTypeOK, BundleParameters, ExportMishap

LEMMA ExportFaultKeeps == ASSUME BundleInv, BundleParameters, NEW w \in Exporters, ExportFault(w) PROVE BundleInv'
<1>1. /\ export[w].pc \in BundleHeld /\ runLock = w /\ UNCHANGED <<exporter, bundle, safe, powerLost, acknowledged>>
      /\ accidents' \in 0 .. MaxMishaps /\ accidents' = accidents + 1 /\ accidents \in Nat
  <2>1. export[w].pc \in BundleHeld
    BY DEF ExportFault, ExportAt, BundleHeld
  <2> QED BY <2>1, BundleHoldsLock, MishapCounts DEF ExportFault
<1>2. ASSUME FinishExport(w, "failed"), NEW d \in Directories \cup {Absent},
             hidden' = [hidden EXCEPT ![w] = d], runLock' = runLock
      PROVE  BundleInv'
  <2>1. /\ export' \in [Exporters -> BundleCalls]
        /\ \A v \in Exporters \ {w} : export'[v] = export[v]
        /\ export'[w].pc = "cleanup" /\ export'[w].result = "failed"
    BY <1>2, BundleFinished, Facts DEF BundleResults
  <2>2. BundlePosition(w)' /\ Contained(w)'
    BY <1>1, <1>2, <2>1 DEF BundlePosition, Contained
  <2>3. runLock' \in Exporters \cup {None} /\ accidents' >= accidents
    BY <1>1, <1>2, Facts
  <2> QED BY <1>1, <1>2, <2>1, <2>2, <2>3, QuietStep
<1>3. CASE /\ export[w].pc \in {"look", "publish", "root"} /\ FinishExport(w, "failed")
           /\ UNCHANGED <<hidden, runLock>>
  BY <1>2, <1>3, SameTemp
<1>4. CASE /\ ExportAt(w, "write") /\ FinishExport(w, "failed") /\ UNCHANGED runLock
           /\ \E f \in Files : hidden' = [hidden EXCEPT ![w].listed = @ \cup {f}]
  <2>1. PICK f \in Files : hidden' = [hidden EXCEPT ![w].listed = @ \cup {f}]
    BY <1>4
  <2> DEFINE d == [hidden[w] EXCEPT !.listed = @ \cup {f}]
  <2>2. hidden[w] \in Directories
    BY <1>4, Facts DEF ExportAt, BundlePosition
  <2>3. d \in Directories
    BY <2>2 DEF Directories
  <2>4. hidden' = [hidden EXCEPT ![w] = d]
    BY <2>1, Facts
  <2> HIDE DEF d
  <2> QED BY <1>2, <1>4, <2>3, <2>4
<1>5. CASE /\ ExportAt(w, "cleanup") /\ hidden[w] # Absent
           /\ export' = [export EXCEPT ![w].pc = "returned", ![w].result = "failed"]
           /\ runLock' = None /\ UNCHANGED hidden
  <2> DEFINE c == [export[w] EXCEPT !.pc = "returned", !.result = "failed"]
  <2>1. c \in BundleCalls /\ c.pc = "returned" /\ c.result = "failed"
    BY ResultGiven, Facts, ZenonT(60) DEF BundlePlaces, BundleResults
  <2>2. export' = [export EXCEPT ![w] = c]
    BY <1>5, Facts
  <2> HIDE DEF c
  <2>3. accidents > 0
    BY <1>5, Facts DEF Contained, ExportAt
  <2>4. BundlePosition(w)' /\ Contained(w)'
    BY <1>1, <2>1, <2>2, <2>3, BundleMoved, Facts DEF BundlePosition, Contained, BundleHeld
  <2> QED BY <1>1, <1>5, <2>1, <2>2, <2>4, BundleMoved, Facts, SameTemp, QuietStep
<1> QED BY <1>3, <1>4, <1>5 DEF ExportFault

LEMMA BundleIdleIsCall ==
    ASSUME NEW n \in Nat
    PROVE  /\ [Idle EXCEPT !.call = n] \in BundleCalls
           /\ [Idle EXCEPT !.call = n].pc = "idle" /\ [Idle EXCEPT !.call = n].result = "none"
BY DEF Idle, BundleCalls, BundlePlaces, BundleResults

LEMMA ExportCrashKeeps == ASSUME BundleInv, BundleParameters, NEW w \in Exporters, ExportCrash(w) PROVE BundleInv'
<1> DEFINE c == [Idle EXCEPT !.call = export[w].call]
<1>1. c \in BundleCalls /\ c.pc = "idle" /\ c.result = "none"
  BY BundleIdleIsCall, Facts
<1>2. /\ export' = [export EXCEPT ![w] = c] /\ UNCHANGED <<exporter, storage, powerLost, acknowledged>>
      /\ accidents' \in 0 .. MaxMishaps /\ accidents' = accidents + 1 /\ accidents \in Nat
      /\ runLock' = IF runLock = w THEN None ELSE runLock
  BY MishapCounts DEF ExportCrash
<1> HIDE DEF c
<1>3. BundlePosition(w)' /\ Contained(w)'
  BY <1>1, <1>2, BundleMoved, Facts DEF BundlePosition, Contained, BundleHeld
<1>4. runLock \in Exporters \cup {None}
  BY DEF BundleInv, BundleTypeInv, BundleTypeOK
<1> QED BY <1>1, <1>2, <1>3, <1>4, BundleMoved, Facts, SameTemp, QuietStep, SMTT(30) DEF storage

\* What a power loss leaves under the name: nothing, if it was not synced; else a
\* directory that has the entries that were.
LEMMA LossKeeps ==
    ASSUME BundleInv, BundleParameters, BundlePowerLoss
    PROVE  /\ bundle' \in Directories \cup {Absent}
           /\ safe' \in BOOLEAN
           /\ bundle' # Absent =>
                 /\ bundle # Absent
                 /\ Syncs => Matches(bundle') /\ bundle'.kept = Files
                 /\ Matches(bundle') => Matches(bundle)
           /\ acknowledged # {} => bundle' # Absent /\ safe'
<1>1. CASE ~safe /\ bundle' = Absent /\ safe' = FALSE
  BY <1>1 DEF BundleInv, BundleShown
<1>2. ASSUME bundle # Absent, safe' = TRUE, NEW left \in SUBSET bundle.listed,
             bundle.kept \subseteq left,
             bundle' = [listed |-> left, kept |-> left, written |-> left \cap bundle.written]
      PROVE  /\ bundle' \in Directories /\ safe' \in BOOLEAN /\ bundle' # Absent
             /\ Syncs => Matches(bundle') /\ bundle'.kept = Files
             /\ Matches(bundle') => Matches(bundle)
  <2>1. bundle \in Directories
    BY <1>2 DEF BundleInv, BundleTypeInv, BundleTypeOK
  <2>2. bundle.listed \subseteq Files /\ bundle.written \subseteq Files
    BY <2>1 DEF Directories
  <2>3. bundle' \in Directories
    BY <1>2, <2>2 DEF Directories
  <2>4. bundle'.listed = left /\ bundle'.kept = left /\ bundle'.written = left \cap bundle.written
    BY <1>2
  <2>5. bundle' # Absent
    BY <2>3 DEF BundleParameters
  <2>6. Syncs => Matches(bundle) /\ bundle.kept = Files
    BY <1>2 DEF BundleInv, BundleShown
  <2>7. Syncs => Matches(bundle') /\ bundle'.kept = Files
    BY <1>2, <2>2, <2>4, <2>6 DEF Matches
  <2>8. Matches(bundle') => Matches(bundle)
    BY <1>2, <2>2, <2>4 DEF Matches
  <2> QED BY <1>2, <2>3, <2>5, <2>7, <2>8
<1> QED BY <1>1, <1>2 DEF BundlePowerLoss

LEMMA BundlePowerLossKeeps == ASSUME BundleInv, BundleParameters, BundlePowerLoss PROVE BundleInv'
<1>1. /\ accidents' \in 0 .. MaxMishaps /\ accidents' > 0 /\ powerLost' = TRUE
      /\ runLock' = None /\ UNCHANGED <<exporter, acknowledged>>
  BY MishapCounts DEF BundlePowerLoss
<1>2. /\ export' \in [Exporters -> BundleCalls]
      /\ \A w \in Exporters : export'[w].pc = "idle" /\ export'[w].result = "none"
  <2>1. \A w \in Exporters : export[w].call \in Nat
    BY Facts
  <2>2. export' = [w \in Exporters |-> [Idle EXCEPT !.call = export[w].call]]
    BY DEF BundlePowerLoss
  <2> QED BY <2>1, <2>2, BundleIdleIsCall
<1>3. hidden' \in [Exporters -> Directories \cup {Absent}]
  BY DEF BundlePowerLoss
<1>4. BundleTypeInv'
  BY <1>1, <1>2, <1>3, LossKeeps DEF BundleInv, BundleTypeInv, BundleTypeOK, Directories
<1>5. BundleShown'
  BY <1>1, LossKeeps DEF BundleInv, BundleShown, Syncs, Matches
<1>6. \A w \in Exporters : BundlePosition(w)' /\ Contained(w)'
  BY <1>2 DEF BundlePosition, Contained, BundleHeld
<1> QED BY <1>4, <1>5, <1>6 DEF BundleInv

LEMMA BundleNextInv == ASSUME BundleParameters, BundleInv, [BundleNext]_bundleVars PROVE BundleInv'
<1>1. CASE UNCHANGED bundleVars
  <2>1. BundleTypeInv'
    BY <1>1 DEF bundleVars, BundleInv, BundleTypeInv, BundleTypeOK, Directories
  <2>2. BundleShown'
    BY <1>1 DEF bundleVars, BundleInv, BundleShown, Syncs, Matches
  <2>3. \A w \in Exporters : BundlePosition(w)' /\ Contained(w)'
    BY <1>1 DEF bundleVars, BundleInv, BundlePosition, Contained, Syncs, Matches,
       EmptyDirectory, Directories
  <2> QED BY <2>1, <2>2, <2>3 DEF BundleInv
<1>2. CASE BundlePowerLoss
  BY <1>2, BundlePowerLossKeeps
<1>3. ASSUME NEW w \in Exporters,
             \/ Export(w) \/ LockRun(w) \/ LookForBundle(w) \/ (\E f \in Files : WriteFile(w, f)) \/ Seal(w)
             \/ Publish(w) \/ SyncRoot(w) \/ CleanupExport(w) \/ ExportFault(w) \/ ExportCrash(w)
      PROVE  BundleInv'
  BY <1>3, ExportKeeps, LockRunKeeps, LookForBundleKeeps, WriteFileKeeps, SealKeeps,
     PublishKeeps,
     SyncRootKeeps, CleanupExportKeeps, ExportFaultKeeps, ExportCrashKeeps
<1> QED BY <1>1, <1>2, <1>3 DEF BundleNext

-----------------------------------------------------------------------------
(* The theorems *)

\* Whoever looks finds the bundle whole or not at all; only the report publishers'
\* may be torn, and only by a power loss.
THEOREM BundlesAlwaysWhole == ASSUME BundleParameters PROVE BundleSpec => []BundlesShownWhole
<1>1. BundleInit => BundleInv
  BY BundleInitInv
<1>2. BundleInv /\ [BundleNext]_bundleVars => BundleInv'
  BY BundleNextInv
<1>3. BundleInv => BundlesShownWhole
  BY DEF BundleInv, BundleTypeInv, BundleShown, BundlesShownWhole
<1> QED BY <1>1, <1>2, <1>3, PTL DEF BundleSpec

\* Publishers of one bundle never make each other fail, and it takes two mishaps to
\* leave files in the hidden directory of a call that came back.
THEOREM FailuresStayContained == ASSUME BundleParameters PROVE BundleSpec => []FailuresAreContained
<1>1. BundleInit => BundleInv
  BY BundleInitInv
<1>2. BundleInv /\ [BundleNext]_bundleVars => BundleInv'
  BY BundleNextInv
<1>3. BundleInv => FailuresAreContained
  <2> SUFFICES ASSUME BundleInv, NEW w \in Exporters
               PROVE  /\ export[w].result = "failed" => accidents > 0
                      /\ ExportAt(w, "returned") /\ accidents < 2 => hidden[w] \in {Absent, EmptyDirectory}
    BY DEF FailuresAreContained
  <2> QED BY Facts DEF Contained, ExportAt
<1> QED BY <1>1, <1>2, <1>3, PTL DEF BundleSpec

\* A bundle that was published, synced and returned for is there, whole, from then on.
THEOREM BundlesAreKept == ASSUME BundleParameters PROVE BundleSpec => BundlesAreContentStore
<1>1. BundleInit => BundleInv
  BY BundleInitInv
<1>2. BundleInv /\ [BundleNext]_bundleVars => BundleInv'
  BY BundleNextInv
<1>3. BundleInit => BundleStore!StoreInit
  BY DEF BundleInit, BundleStore!StoreInit
<1>4. BundleInv /\ [BundleNext]_bundleVars => [BundleStore!StoreNext]_(BundleStore!storeVars)
  <2> SUFFICES ASSUME BundleInv, [BundleNext]_bundleVars PROVE [BundleStore!StoreNext]_(BundleStore!storeVars)
    OBVIOUS
  <2>1. ASSUME UNCHANGED <<bundle, acknowledged>> PROVE UNCHANGED BundleStore!storeVars
    BY <2>1 DEF BundleStore!storeVars, Matches
  <2>2. CASE UNCHANGED bundleVars
    BY <2>1, <2>2 DEF bundleVars
  <2>3. CASE BundlePowerLoss
    <3>1. acknowledged' = acknowledged
      BY <2>3 DEF BundlePowerLoss
    <3>2. bundle' # Absent /\ Matches(bundle') => bundle # Absent /\ Matches(bundle)
      BY <2>3, LossKeeps
    <3>3. acknowledged # {} => bundle' # Absent /\ Matches(bundle') /\ acknowledged = {"bundle"}
      BY <2>3, LossKeeps DEF BundleInv, BundleTypeInv, BundleShown
    <3>4. BundleStore!Lose
      BY <3>1, <3>2, <3>3 DEF BundleStore!Lose, Matches
    <3> QED BY <3>4 DEF BundleStore!StoreNext
  <2>4. ASSUME NEW w \in Exporters,
               \/ Export(w) \/ LockRun(w) \/ LookForBundle(w) \/ (\E f \in Files : WriteFile(w, f))
               \/ Seal(w) \/ SyncRoot(w) \/ ExportFault(w) \/ ExportCrash(w)
        PROVE  UNCHANGED <<bundle, acknowledged>>
    BY <2>4 DEF Export, LockRun, LookForBundle, WriteFile, Seal, SyncRoot, ExportFault,
       ExportCrash, storage, history
  <2>5. ASSUME NEW w \in Exporters, Publish(w)
        PROVE  [BundleStore!StoreNext]_(BundleStore!storeVars)
    <3>1. bundle = Absent /\ Matches(hidden[w]) /\ hidden[w] # Absent
      BY <2>5, Facts DEF Publish, ExportAt, BundlePosition, BundleParameters
    <3>2. bundle' = hidden[w] /\ acknowledged' = acknowledged
      BY <2>5, <3>1 DEF Publish, history
    <3>3. BundleStore!Store("bundle")
      BY <3>1, <3>2 DEF BundleStore!Store, Matches
    <3> QED BY <3>3 DEF BundleStore!StoreNext
  <2>6. ASSUME NEW w \in Exporters, CleanupExport(w)
        PROVE  [BundleStore!StoreNext]_(BundleStore!storeVars)
    <3>1. bundle' = bundle
      BY <2>6 DEF CleanupExport
    <3>2. CASE export[w].result # "synced"
      BY <2>1, <2>6, <3>1, <3>2 DEF CleanupExport
    <3>3. CASE export[w].result = "synced"
      <4>1. bundle # Absent /\ Matches(bundle)
        BY <2>6, <3>3, Facts DEF CleanupExport, ExportAt, BundlePosition, BundleInv,
           BundleShown
      <4>2. acknowledged \cup {"bundle"} = {"bundle"} /\ acknowledged' = {"bundle"}
        BY <2>6, <3>3 DEF CleanupExport, BundleInv, BundleTypeInv
      <4>3. BundleStore!Acknowledge("bundle")
        BY <3>1, <4>1, <4>2 DEF BundleStore!Acknowledge, Matches
      <4> QED BY <4>3 DEF BundleStore!StoreNext
    <3> QED BY <3>2, <3>3
  <2> QED BY <2>1, <2>2, <2>3, <2>4, <2>5, <2>6 DEF BundleNext, BundleStore!StoreNext
<1> QED BY <1>1, <1>2, <1>3, <1>4, PTL DEF BundleSpec, BundlesAreContentStore, BundleStore!StoreSpec

-----------------------------------------------------------------------------
(* Calendars *)

\* What a caller of the module gives it.
CalendarParameters ==
    /\ CalendarOf \in [CalendarWriters -> Calendars] /\ None \notin CalendarWriters
    /\ MaxCalls \in Nat /\ MaxMishaps \in Nat

CalendarPlaces == {"idle", "waiting", "read", "link", "unlink", "verify", "append", "part", "open",
           "release", "returned"}
CalendarHeld == CalendarPlaces \ {"idle", "waiting", "returned"}
Publishing == {"link", "unlink", "verify", "append", "part"}
States == [pc : CalendarPlaces, call : 0 .. MaxCalls, result : {"none", "ok", "failed"}]

\* A published file has its name, and at most one temporary name.
OneName == {<<"target">>}
Temps == {<<"temp", w, k>> : w \in CalendarWriters, k \in 0 .. MaxCalls}
NameSets == {{}, OneName} \cup {OneName \cup {t} : t \in Temps}

CalendarTypeInv ==
    /\ calNames \in [Calendars -> NameSets]
    /\ calLines \in Seq(Calendars) /\ calTail \in {"", "part", "open", "bad"}
    /\ calLock \in CalendarWriters \cup {None}
    /\ calProc \in [CalendarWriters -> States]
    /\ calMishaps \in 0 .. MaxMishaps

Loads ==
    /\ \A i \in DOMAIN calLines : calNames[calLines[i]] = OneName
    /\ \A i, j \in DOMAIN calLines : calLines[i] = calLines[j] => i = j

CalendarPosition(w) ==
    /\ calProc[w].pc \in CalendarHeld => calLock = w
    /\ calProc[w].pc \in Publishing => CalendarOf[w] \notin CalendarsRecorded
    /\ calProc[w].pc \in {"append", "part"} => MyNames(w) = OneName

CalendarInv == CalendarTypeInv /\ Loads /\ \A w \in CalendarWriters : CalendarPosition(w)

-----------------------------------------------------------------------------
(* Types *)

LEMMA WriterFacts ==
    ASSUME CalendarTypeInv, CalendarParameters, NEW w \in CalendarWriters
    PROVE  /\ calProc[w] \in States /\ calProc[w].call \in 0 .. MaxCalls
           /\ CalendarOf[w] \in Calendars /\ calNames[CalendarOf[w]] \in NameSets
BY DEF CalendarTypeInv, CalendarParameters, States

LEMMA LineFacts ==
    ASSUME calLines \in Seq(Calendars)
    PROVE  /\ Len(calLines) \in Nat /\ DOMAIN calLines = 1 .. Len(calLines)
           /\ \A i \in DOMAIN calLines : calLines[i] \in Calendars
OBVIOUS

LEMMA MishapType ==
    ASSUME calMishaps \in 0 .. MaxMishaps, CalendarParameters, CalendarMishap
    PROVE  calMishaps' \in 0 .. MaxMishaps
BY DEF CalendarParameters, CalendarMishap

-----------------------------------------------------------------------------
(* Names *)

LEMMA TempIsNoTarget == \A t \in Temps : t # <<"target">> /\ t[1] # "target"
BY DEF Temps

\* A file verifies exactly if it has its one name.
LEMMA VerifiesIsOneName ==
    ASSUME calNames \in [Calendars -> NameSets], NEW c \in Calendars
    PROVE  CalendarVerifies(c) <=> calNames[c] = OneName
<1>1. CASE calNames[c] = {}
  BY <1>1 DEF CalendarVerifies, CalendarPublished, OneName
<1>2. CASE calNames[c] = OneName
  <2>1. Cardinality(OneName) = 1
    BY FS_Singleton, Zenon DEF OneName
  <2>2. <<"target">> \in calNames[c] /\ <<"target">>[1] = "target"
    BY <1>2 DEF OneName
  <2> QED BY <1>2, <2>1, <2>2 DEF CalendarVerifies, CalendarPublished
<1>3. ASSUME NEW t \in Temps, calNames[c] = OneName \cup {t}
      PROVE  ~CalendarVerifies(c) /\ calNames[c] # OneName
  <2>1. t \notin OneName
    BY TempIsNoTarget DEF OneName
  <2>2. IsFiniteSet(OneName) /\ Cardinality(OneName) = 1
    BY FS_Singleton DEF OneName
  <2>3. Cardinality(OneName \cup {t}) = 2
    <3>1. Cardinality(OneName \cup {t}) = Cardinality(OneName) + 1
      BY <2>1, <2>2, FS_AddElement, Zenon
    <3> QED BY <2>2, <3>1
  <2> QED BY <1>3, <2>1, <2>3 DEF CalendarVerifies
<1> QED BY <1>1, <1>2, <1>3 DEF NameSets

\* Removing a temporary name keeps the other, and linking gives both.
LEMMA NamesAfter ==
    ASSUME CalendarTypeInv, CalendarParameters, NEW w \in CalendarWriters
    PROVE  /\ [calNames EXCEPT ![CalendarOf[w]] = @ \ {CalendarTemp(w)}] \in [Calendars -> NameSets]
           /\ [calNames EXCEPT ![CalendarOf[w]] = {<<"target">>, CalendarTemp(w)}]
                 \in [Calendars -> NameSets]
<1>1. CalendarTemp(w) \in Temps
  BY WriterFacts DEF Temps, CalendarTemp
<1>2. calNames[CalendarOf[w]] \in NameSets /\ CalendarOf[w] \in Calendars
  BY DEF CalendarTypeInv, CalendarParameters
<1> DEFINE t == CalendarTemp(w)
<1>3. t # <<"target">>
  BY <1>1, TempIsNoTarget
<1> HIDE DEF t
<1>4. ASSUME NEW old \in NameSets PROVE old \ {t} \in NameSets
  <2>1. CASE old \in {{}, OneName}
    BY <2>1, <1>3 DEF NameSets, OneName
  <2>2. ASSUME NEW u \in Temps, old = OneName \cup {u} PROVE old \ {t} \in NameSets
    <3>1. u = t => old \ {t} = OneName
      BY <2>2, <1>3 DEF OneName
    <3>2. u # t => old \ {t} = old
      BY <2>2, <1>3 DEF OneName
    <3> QED BY <3>1, <3>2 DEF NameSets
  <2> QED BY <2>1, <2>2 DEF NameSets
<1>5. {<<"target">>, t} \in NameSets
  <2>1. {<<"target">>, t} = OneName \cup {t}
    BY DEF OneName
  <2>2. t \in Temps
    BY <1>1 DEF t
  <2> QED BY <2>1, <2>2 DEF NameSets
<1> QED BY <1>2, <1>4, <1>5 DEF CalendarTypeInv, t

-----------------------------------------------------------------------------
(* Writers *)

LEMMA CalendarMoved ==
    ASSUME CalendarTypeInv, NEW w \in CalendarWriters, NEW s \in States, calProc' = [calProc EXCEPT ![w] = s]
    PROVE  /\ calProc' \in [CalendarWriters -> States] /\ calProc'[w] = s
           /\ \A v \in CalendarWriters \ {w} : calProc'[v] = calProc[v]
BY DEF CalendarTypeInv

LEMMA CalendarStepped ==
    ASSUME CalendarTypeInv, NEW w \in CalendarWriters, NEW pc \in CalendarPlaces, CalendarStep(w, pc)
    PROVE  /\ calProc' \in [CalendarWriters -> States] /\ calProc'[w].pc = pc
           /\ \A v \in CalendarWriters \ {w} : calProc'[v] = calProc[v]
<1>1. [calProc[w] EXCEPT !.pc = pc] \in States /\ [calProc[w] EXCEPT !.pc = pc].pc = pc
  BY DEF CalendarTypeInv, States
<1>2. calProc' = [calProc EXCEPT ![w] = [calProc[w] EXCEPT !.pc = pc]]
  BY DEF CalendarStep, CalendarTypeInv
<1> QED BY <1>1, <1>2, CalendarMoved

LEMMA Ended ==
    ASSUME CalendarTypeInv, NEW w \in CalendarWriters, Fail(w) \/ Succeed(w)
    PROVE  /\ calProc' \in [CalendarWriters -> States] /\ calProc'[w].pc = "release"
           /\ \A v \in CalendarWriters \ {w} : calProc'[v] = calProc[v]
<1>1. PICK r \in {"ok", "failed"} :
          calProc' = [calProc EXCEPT ![w].pc = "release", ![w].result = r]
  BY DEF Fail, Succeed
<1> DEFINE s == [calProc[w] EXCEPT !.pc = "release", !.result = r]
<1>2. calProc[w] \in States /\ "release" \in CalendarPlaces
  BY DEF CalendarTypeInv, CalendarPlaces
<1>3. s \in States /\ s.pc = "release"
  BY <1>2 DEF States
<1>4. calProc' = [calProc EXCEPT ![w] = s]
  BY <1>1 DEF CalendarTypeInv
<1> HIDE DEF s
<1> QED BY <1>3, <1>4, CalendarMoved

LEMMA RecordedFacts == ASSUME CalendarTypeInv PROVE CalendarsRecorded \subseteq Calendars
BY LineFacts DEF CalendarTypeInv, CalendarsRecorded

\* A step of one writer leaves the others where they are: either it holds the lock,
\* and they do not, or it touches nothing they rely on.
LEMMA CalendarOthersStay ==
    ASSUME CalendarInv, CalendarParameters, NEW w \in CalendarWriters, \A v \in CalendarWriters \ {w} : calProc'[v] = calProc[v],
           \/ calLock \in {w, None}
           \/ UNCHANGED <<calNames, calLines, calLock>>
    PROVE  \A v \in CalendarWriters \ {w} : CalendarPosition(v)'
<1> SUFFICES ASSUME NEW v \in CalendarWriters, v # w PROVE CalendarPosition(v)'
  OBVIOUS
<1>1. calProc'[v] = calProc[v] /\ CalendarPosition(v)
  BY DEF CalendarInv
<1>2. CASE calLock \in {w, None}
  <2>1. calProc[v].pc \notin CalendarHeld
    BY <1>1, <1>2 DEF CalendarPosition, CalendarParameters
  <2>2. Publishing \subseteq CalendarHeld /\ {"append", "part"} \subseteq Publishing
    BY DEF CalendarHeld, Publishing, CalendarPlaces
  <2> QED BY <1>1, <2>1, <2>2 DEF CalendarPosition
<1>3. CASE UNCHANGED <<calNames, calLines, calLock>>
  BY <1>1, <1>3 DEF CalendarPosition, CalendarsRecorded, MyNames
<1> QED BY <1>2, <1>3

LEMMA CalendarHoldsLock ==
    ASSUME CalendarInv, NEW w \in CalendarWriters, calProc[w].pc \in CalendarHeld
    PROVE  calLock = w
BY DEF CalendarInv, CalendarPosition

LEMMA CalendarInitInv == ASSUME CalendarParameters, CalendarInit PROVE CalendarInv
<1>0. calLines = <<>> /\ calMishaps = 0
  BY DEF CalendarInit
<1>1. CalendarTypeInv
  <2>1. calNames \in [Calendars -> NameSets]
    BY DEF CalendarInit, NameSets
  <2>2. Idle \in States
    BY DEF CalendarParameters, Idle, States, CalendarPlaces
  <2>3. calProc \in [CalendarWriters -> States]
    BY <2>2 DEF CalendarInit
  <2>4. calMishaps \in 0 .. MaxMishaps
    BY <1>0 DEF CalendarParameters
  <2>5. calLines \in Seq(Calendars)
    BY <1>0
  <2>6. calTail = "" /\ calLock = None
    BY DEF CalendarInit
  <2> QED BY <2>1, <2>3, <2>4, <2>5, <2>6 DEF CalendarTypeInv
<1>2. Loads
  <2>1. DOMAIN calLines = {}
    BY <1>0
  <2> QED BY <2>1 DEF Loads
<1>3. \A w \in CalendarWriters : CalendarPosition(w)
  BY DEF CalendarInit, Idle, CalendarPosition, CalendarHeld, Publishing, CalendarsRecorded
<1> QED BY <1>1, <1>2, <1>3 DEF CalendarInv

-----------------------------------------------------------------------------
(* The steps *)

\* A step that records nothing and leaves recorded files alone.
LEMMA StepKeeps ==
    ASSUME CalendarInv, CalendarParameters, NEW w \in CalendarWriters,
           calProc' \in [CalendarWriters -> States], \A v \in CalendarWriters \ {w} : calProc'[v] = calProc[v],
           calLock \in {w, None} \/ UNCHANGED <<calNames, calLines, calLock>>,
           calNames' \in [Calendars -> NameSets],
           \A c \in CalendarsRecorded : calNames'[c] = calNames[c],
           UNCHANGED calLines, calTail' \in {"", "part", "open", "bad"},
           calLock' \in CalendarWriters \cup {None}, calMishaps' \in 0 .. MaxMishaps,
           CalendarPosition(w)'
    PROVE  CalendarInv'
<1>1. CalendarTypeInv'
  BY DEF CalendarInv, CalendarTypeInv
<1>2. Loads'
  BY DEF CalendarInv, Loads, CalendarsRecorded
<1>3. \A v \in CalendarWriters : CalendarPosition(v)'
  BY CalendarOthersStay
<1> QED BY <1>1, <1>2, <1>3 DEF CalendarInv

LEMMA WriteCalendarKeeps == ASSUME CalendarInv, CalendarParameters, NEW w \in CalendarWriters, WriteCalendar(w) PROVE CalendarInv'
<1> DEFINE s == [pc |-> "waiting", call |-> calProc[w].call + 1, result |-> "none"]
<1>1. calProc[w].call + 1 \in 0 .. MaxCalls
  BY WriterFacts DEF CalendarInv, WriteCalendar, CalendarParameters
<1>2. s \in States /\ s.pc = "waiting"
  BY <1>1 DEF States, CalendarPlaces
<1>3. calProc' = [calProc EXCEPT ![w] = s]
  BY DEF WriteCalendar, CalendarInv, CalendarTypeInv
<1> HIDE DEF s
<1>4. CalendarPosition(w)'
  BY <1>2, <1>3, CalendarMoved DEF CalendarInv, CalendarPosition, CalendarHeld, Publishing
<1> QED BY <1>2, <1>3, <1>4, CalendarMoved, StepKeeps DEF WriteCalendar, CalendarInv, CalendarTypeInv

LEMMA LockCalendarsKeeps == ASSUME CalendarInv, CalendarParameters, NEW w \in CalendarWriters, LockCalendars(w) PROVE CalendarInv'
<1>1. CalendarStep(w, "read") /\ "read" \in CalendarPlaces
  BY DEF LockCalendars, CalendarPlaces
<1>2. CalendarPosition(w)'
  BY <1>1, CalendarStepped DEF LockCalendars, CalendarInv, CalendarPosition, CalendarHeld,
     Publishing
<1> QED BY <1>1, <1>2, CalendarStepped, StepKeeps DEF LockCalendars, CalendarInv, CalendarTypeInv

LEMMA ReadManifestKeeps == ASSUME CalendarInv, CalendarParameters, NEW w \in CalendarWriters, ReadCalendars(w) PROVE CalendarInv'
<1>1. calLock = w /\ UNCHANGED <<calNames, calLines, calTail, calLock, calMishaps>>
  BY CalendarHoldsLock DEF ReadCalendars, CalendarAt, CalendarHeld, CalendarPlaces
<1>2. CASE Fail(w) \/ Succeed(w)
  <2>1. CalendarPosition(w)'
    BY <1>1, <1>2, Ended DEF CalendarInv, CalendarPosition, Publishing
  <2> QED BY <1>1, <1>2, <2>1, Ended, StepKeeps DEF CalendarInv, CalendarTypeInv
<1>3. CASE CalendarStep(w, "link") /\ CalendarOf[w] \notin CalendarsRecorded
  <2>1. "link" \in CalendarPlaces
    BY DEF CalendarPlaces
  <2>2. CalendarPosition(w)'
    BY <1>1, <1>3, <2>1, CalendarStepped DEF CalendarInv, CalendarPosition,
       CalendarsRecorded
  <2> QED BY <1>1, <1>3, <2>1, <2>2, CalendarStepped, StepKeeps DEF CalendarInv, CalendarTypeInv
<1> QED BY <1>2, <1>3 DEF ReadCalendars

\* The names of a calendar that is not recorded change.
LEMMA LinkKeeps == ASSUME CalendarInv, CalendarParameters, NEW w \in CalendarWriters, LinkCalendar(w) PROVE CalendarInv'
<1>1. calLock = w /\ CalendarOf[w] \notin CalendarsRecorded
  BY CalendarHoldsLock DEF LinkCalendar, CalendarAt, CalendarInv, CalendarPosition,
     CalendarHeld, Publishing, CalendarPlaces
<1>2. calNames' \in [Calendars -> NameSets] /\ \A c \in CalendarsRecorded : calNames'[c] = calNames[c]
  <2>1. calNames' \in [Calendars -> NameSets]
    BY NamesAfter DEF LinkCalendar, CalendarInv, CalendarTypeInv
  <2>2. \A c \in Calendars : c # CalendarOf[w] => calNames'[c] = calNames[c]
    BY DEF LinkCalendar, CalendarInv, CalendarTypeInv
  <2> QED BY <1>1, <2>1, <2>2, RecordedFacts DEF CalendarInv
<1>3. CalendarStep(w, "unlink") /\ "unlink" \in CalendarPlaces /\ UNCHANGED <<calLines, calTail, calLock, calMishaps>>
  BY DEF LinkCalendar, CalendarPlaces
<1>4. CalendarPosition(w)'
  BY <1>1, <1>3, CalendarStepped DEF CalendarInv, CalendarPosition, CalendarsRecorded
<1> QED BY <1>1, <1>2, <1>3, <1>4, CalendarStepped, StepKeeps DEF CalendarInv, CalendarTypeInv

LEMMA UnlinkKeeps == ASSUME CalendarInv, CalendarParameters, NEW w \in CalendarWriters, UnlinkCalendar(w) PROVE CalendarInv'
<1>1. calLock = w /\ CalendarOf[w] \notin CalendarsRecorded
  BY CalendarHoldsLock DEF UnlinkCalendar, CalendarAt, CalendarInv, CalendarPosition,
     CalendarHeld, Publishing, CalendarPlaces
<1>2. calNames' \in [Calendars -> NameSets] /\ \A c \in CalendarsRecorded : calNames'[c] = calNames[c]
  <2>1. calNames' \in [Calendars -> NameSets]
    BY NamesAfter DEF UnlinkCalendar, CalendarInv, CalendarTypeInv
  <2>2. \A c \in Calendars : c # CalendarOf[w] => calNames'[c] = calNames[c]
    BY DEF UnlinkCalendar, CalendarInv, CalendarTypeInv
  <2> QED BY <1>1, <2>1, <2>2, RecordedFacts DEF CalendarInv
<1>3. CalendarStep(w, "verify") /\ "verify" \in CalendarPlaces /\ UNCHANGED <<calLines, calTail, calLock, calMishaps>>
  BY DEF UnlinkCalendar, CalendarPlaces
<1>4. CalendarPosition(w)'
  BY <1>1, <1>3, CalendarStepped DEF CalendarInv, CalendarPosition, CalendarsRecorded
<1> QED BY <1>1, <1>2, <1>3, <1>4, CalendarStepped, StepKeeps DEF CalendarInv, CalendarTypeInv

LEMMA VerifyKeeps == ASSUME CalendarInv, CalendarParameters, NEW w \in CalendarWriters, VerifyPublished(w) PROVE CalendarInv'
<1>1. /\ calLock = w /\ CalendarOf[w] \notin CalendarsRecorded
      /\ UNCHANGED <<calNames, calLines, calTail, calLock, calMishaps>>
  BY CalendarHoldsLock DEF VerifyPublished, CalendarAt, CalendarInv, CalendarPosition,
     CalendarHeld, Publishing, CalendarPlaces
<1>2. CASE Fail(w)
  <2>1. CalendarPosition(w)'
    BY <1>1, <1>2, Ended DEF CalendarInv, CalendarPosition, Publishing
  <2> QED BY <1>1, <1>2, <2>1, Ended, StepKeeps DEF CalendarInv, CalendarTypeInv
<1>3. CASE CalendarStep(w, "append") /\ CalendarVerifies(CalendarOf[w])
  <2>1. "append" \in CalendarPlaces /\ calNames[CalendarOf[w]] = OneName
    BY <1>3, VerifiesIsOneName DEF CalendarPlaces, CalendarParameters, CalendarInv,
       CalendarTypeInv
  <2>2. CalendarPosition(w)'
    BY <1>1, <1>3, <2>1, CalendarStepped DEF CalendarInv, CalendarPosition,
       CalendarsRecorded, MyNames
  <2> QED BY <1>1, <1>3, <2>1, <2>2, CalendarStepped, StepKeeps DEF CalendarInv, CalendarTypeInv
<1> QED BY <1>2, <1>3 DEF VerifyPublished

\* Running into the record before loses it, and no other.
LEMMA Append1Keeps == ASSUME CalendarInv, CalendarParameters, NEW w \in CalendarWriters, Append1(w) PROVE CalendarInv'
<1>1. /\ calLock = w /\ CalendarOf[w] \notin CalendarsRecorded /\ MyNames(w) = OneName
      /\ CalendarStep(w, "part") /\ "part" \in CalendarPlaces /\ UNCHANGED <<calNames, calLock, calMishaps>>
  BY CalendarHoldsLock DEF Append1, CalendarAt, CalendarInv, CalendarPosition,
     CalendarHeld, Publishing, CalendarPlaces
<1>2. /\ calLines' \in Seq(Calendars)
      /\ DOMAIN calLines' \subseteq DOMAIN calLines /\ \A i \in DOMAIN calLines' : calLines'[i] = calLines[i]
  <2>1. CASE UNCHANGED calLines
    BY <2>1 DEF CalendarInv, CalendarTypeInv
  <2>2. CASE calLines' = SubSeq(calLines, 1, Len(calLines) - 1)
    <3> DEFINE n == Len(calLines) - 1
    <3>1. calLines \in Seq(Calendars) /\ Len(calLines) \in Nat /\ DOMAIN calLines = 1 .. Len(calLines)
      BY LineFacts DEF CalendarInv, CalendarTypeInv
    <3>2. n \in Int /\ \A i \in 1 .. n : i \in 1 .. Len(calLines) /\ calLines[i] \in Calendars
      BY <3>1, LineFacts
    <3>3. /\ DOMAIN calLines' = 1 .. n /\ calLines' \in Seq(Calendars)
          /\ \A i \in 1 .. n : calLines'[i] = calLines[i]
      <4>1. n = -1 \/ n \in 0 .. Len(calLines)
        BY <3>1
      <4>2. CASE n = -1
        BY <2>2, <4>2, <3>1, <3>2
      <4>3. CASE n \in 0 .. Len(calLines)
        BY <2>2, <4>3, <3>1, <3>2
      <4> QED BY <4>1, <4>2, <4>3
    <3> QED BY <3>1, <3>2, <3>3
  <2> QED BY <2>1, <2>2 DEF Append1
<1>3. CalendarTypeInv'
  BY <1>1, <1>2, CalendarStepped DEF Append1, CalendarInv, CalendarTypeInv
<1>4. Loads'
  BY <1>1, <1>2 DEF CalendarInv, Loads
<1>5. CalendarPosition(w)'
  BY <1>1, <1>2, CalendarStepped DEF CalendarInv, CalendarPosition, CalendarsRecorded,
     MyNames
<1> QED BY <1>1, <1>3, <1>4, <1>5, CalendarStepped, CalendarOthersStay DEF CalendarInv

\* The record that becomes readable is of a file that verifies, and the only one.
LEMMA Append2Keeps == ASSUME CalendarInv, CalendarParameters, NEW w \in CalendarWriters, Append2(w) PROVE CalendarInv'
<1>1. /\ calLock = w /\ CalendarOf[w] \notin CalendarsRecorded /\ MyNames(w) = OneName
      /\ CalendarStep(w, "open") /\ "open" \in CalendarPlaces /\ UNCHANGED <<calNames, calLock, calMishaps>>
      /\ CalendarOf[w] \in Calendars
  BY CalendarHoldsLock DEF Append2, CalendarAt, CalendarInv, CalendarPosition,
     CalendarHeld, Publishing, CalendarPlaces, CalendarParameters
<1>2. calLines' \in Seq(Calendars) /\ calTail' \in {"open", "bad"}
  <2>1. CASE calTail' = "open" /\ calLines' = Append(calLines, CalendarOf[w])
    <3>1. calLines \in Seq(Calendars)
      BY DEF CalendarInv, CalendarTypeInv
    <3> QED BY <1>1, <2>1, <3>1
  <2>2. CASE calTail = "bad" /\ UNCHANGED <<calTail, calLines>>
    BY <2>2 DEF CalendarInv, CalendarTypeInv
  <2> QED BY <2>1, <2>2 DEF Append2
<1>3. CalendarTypeInv'
  BY <1>1, <1>2, CalendarStepped DEF CalendarInv, CalendarTypeInv
<1>4. Loads'
  <2>1. CASE calLines' = calLines
    BY <1>1, <2>1 DEF CalendarInv, Loads
  <2>2. CASE calLines' = Append(calLines, CalendarOf[w])
    <3>1. /\ DOMAIN calLines' = DOMAIN calLines \cup {Len(calLines) + 1}
          /\ Len(calLines) + 1 \notin DOMAIN calLines
          /\ calLines'[Len(calLines) + 1] = CalendarOf[w]
          /\ \A i \in DOMAIN calLines : calLines'[i] = calLines[i]
      <4>1. calLines \in Seq(Calendars) /\ CalendarOf[w] \in Calendars
        BY <1>1 DEF CalendarInv, CalendarTypeInv
      <4>2. /\ Len(calLines) \in Nat /\ DOMAIN calLines = 1 .. Len(calLines)
            /\ DOMAIN calLines' = 1 .. Len(calLines) + 1
        BY <2>2, <4>1
      <4>3. calLines'[Len(calLines) + 1] = CalendarOf[w]
            /\ \A i \in 1 .. Len(calLines) : calLines'[i] = calLines[i]
        BY <2>2, <4>1, <4>2
      <4> QED BY <4>2, <4>3
    <3>2. \A i \in DOMAIN calLines : calLines[i] # CalendarOf[w]
      BY <1>1 DEF CalendarsRecorded
    <3> QED BY <1>1, <3>1, <3>2 DEF CalendarInv, Loads, MyNames
  <2> QED BY <2>1, <2>2 DEF Append2
<1>5. CalendarPosition(w)'
  BY <1>1, CalendarStepped DEF CalendarInv, CalendarPosition, Publishing
<1> QED BY <1>1, <1>3, <1>4, <1>5, CalendarStepped, CalendarOthersStay DEF CalendarInv

LEMMA Append3Keeps == ASSUME CalendarInv, CalendarParameters, NEW w \in CalendarWriters, Append3(w) PROVE CalendarInv'
<1>1. /\ calLock = w /\ Succeed(w) /\ UNCHANGED <<calNames, calLines, calLock, calMishaps>>
      /\ calTail' \in {"", "part", "open", "bad"}
  BY CalendarHoldsLock DEF Append3, CalendarAt, CalendarHeld, CalendarPlaces, CalendarInv,
     CalendarTypeInv
<1>2. CalendarPosition(w)'
  BY <1>1, Ended DEF CalendarInv, CalendarPosition, Publishing
<1> QED BY <1>1, <1>2, Ended, StepKeeps DEF CalendarInv, CalendarTypeInv

LEMMA ReleaseKeeps == ASSUME CalendarInv, CalendarParameters, NEW w \in CalendarWriters, Release(w) PROVE CalendarInv'
<1>1. /\ calLock = w /\ CalendarStep(w, "returned") /\ "returned" \in CalendarPlaces
      /\ calLock' = None /\ UNCHANGED <<calNames, calLines, calTail, calMishaps>>
  BY CalendarHoldsLock DEF Release, CalendarAt, CalendarHeld, CalendarPlaces
<1>2. CalendarPosition(w)'
  BY <1>1, CalendarStepped DEF CalendarInv, CalendarPosition, CalendarHeld, Publishing
<1> QED BY <1>1, <1>2, CalendarStepped, StepKeeps DEF CalendarInv, CalendarTypeInv

LEMMA CalendarFaultKeeps == ASSUME CalendarInv, CalendarParameters, NEW w \in CalendarWriters, CalendarFault(w) PROVE CalendarInv'
<1>1. /\ calLock = w /\ Fail(w) /\ UNCHANGED <<calLines, calTail, calLock>>
      /\ calMishaps' \in 0 .. MaxMishaps
  <2>1. calProc[w].pc \in CalendarHeld
    BY DEF CalendarFault, CalendarHeld, CalendarPlaces
  <2> QED BY <2>1, CalendarHoldsLock, MishapType DEF CalendarFault, CalendarInv, CalendarTypeInv
<1>2. calNames' \in [Calendars -> NameSets] /\ \A c \in CalendarsRecorded : calNames'[c] = calNames[c]
  <2>1. CASE UNCHANGED calNames
    BY <2>1 DEF CalendarInv, CalendarTypeInv
  <2>2. CASE CalendarAt(w, "unlink") /\ calNames' = [calNames EXCEPT ![CalendarOf[w]] = @ \ {CalendarTemp(w)}]
    <3>1. CalendarOf[w] \notin CalendarsRecorded
      BY <2>2 DEF CalendarAt, CalendarInv, CalendarPosition, Publishing
    <3>2. calNames' \in [Calendars -> NameSets]
      BY <2>2, NamesAfter DEF CalendarInv, CalendarTypeInv
    <3>3. \A c \in Calendars : c # CalendarOf[w] => calNames'[c] = calNames[c]
      BY <2>2 DEF CalendarInv, CalendarTypeInv
    <3> QED BY <3>1, <3>2, <3>3, RecordedFacts DEF CalendarInv
  <2> QED BY <2>1, <2>2 DEF CalendarFault
<1>3. CalendarPosition(w)'
  BY <1>1, Ended DEF CalendarInv, CalendarPosition, Publishing
<1> QED BY <1>1, <1>2, <1>3, Ended, StepKeeps DEF CalendarInv, CalendarTypeInv

LEMMA CalendarCrashKeeps == ASSUME CalendarInv, CalendarParameters, NEW w \in CalendarWriters, CalendarCrash(w) PROVE CalendarInv'
<1> DEFINE s == [Idle EXCEPT !.call = calProc[w].call]
<1>1. s \in States /\ s.pc = "idle"
  BY DEF CalendarInv, CalendarTypeInv, Idle, States, CalendarPlaces
<1>2. calProc' = [calProc EXCEPT ![w] = s] /\ UNCHANGED <<calNames, calLines, calTail>>
      /\ calMishaps' \in 0 .. MaxMishaps
  BY MishapType DEF CalendarCrash, CalendarInv, CalendarTypeInv
<1> HIDE DEF s
<1>3. /\ calLock' \in CalendarWriters \cup {None}
      /\ calLock \in {w, None} \/ UNCHANGED <<calNames, calLines, calLock>>
  BY <1>2 DEF CalendarCrash, CalendarInv, CalendarTypeInv
<1>4. CalendarPosition(w)'
  BY <1>1, <1>2, CalendarMoved DEF CalendarInv, CalendarPosition, CalendarHeld, Publishing
<1> QED BY <1>1, <1>2, <1>3, <1>4, CalendarMoved, StepKeeps DEF CalendarInv, CalendarTypeInv

LEMMA CalendarNextInv == ASSUME CalendarParameters, CalendarInv, [CalendarNext]_calendarVars PROVE CalendarInv'
<1>1. CASE UNCHANGED calendarVars
  <2>1. CalendarTypeInv' /\ Loads'
    BY <1>1 DEF calendarVars, CalendarInv, CalendarTypeInv, Loads
  <2>2. \A w \in CalendarWriters : CalendarPosition(w)'
    BY <1>1 DEF calendarVars, CalendarInv, CalendarPosition, CalendarsRecorded, MyNames
  <2> QED BY <2>1, <2>2 DEF CalendarInv
<1>2. ASSUME NEW w \in CalendarWriters,
             \/ WriteCalendar(w) \/ LockCalendars(w) \/ ReadCalendars(w) \/ LinkCalendar(w) \/ UnlinkCalendar(w)
             \/ VerifyPublished(w) \/ Append1(w) \/ Append2(w) \/ Append3(w) \/ Release(w)
             \/ CalendarFault(w) \/ CalendarCrash(w)
      PROVE  CalendarInv'
  BY <1>2, WriteCalendarKeeps, LockCalendarsKeeps, ReadManifestKeeps, LinkKeeps,
     UnlinkKeeps, VerifyKeeps,
     Append1Keeps, Append2Keeps, Append3Keeps, ReleaseKeeps, CalendarFaultKeeps, CalendarCrashKeeps
<1> QED BY <1>1, <1>2 DEF CalendarNext

-----------------------------------------------------------------------------
(* The theorem *)

LEMMA InvImpliesLoad == ASSUME CalendarParameters, CalendarInv PROVE RecordedCalendarsLoad
<1>1. \A i \in DOMAIN calLines : calLines[i] \in Calendars
  BY LineFacts DEF CalendarInv, CalendarTypeInv
<1>2. CalendarTypeOK
  BY <1>1 DEF CalendarInv, CalendarTypeInv, CalendarTypeOK, CalendarsRecorded, States
<1>3. \A c \in CalendarsRecorded : CalendarVerifies(c)
  BY <1>1, VerifiesIsOneName DEF CalendarInv, CalendarTypeInv, Loads, CalendarsRecorded
<1> QED BY <1>2, <1>3 DEF CalendarInv, Loads, RecordedCalendarsLoad

\* Whatever writers overlap, fail or die, a calendar the manifest shows to a reader
\* without the lock has its file in place under one name, and one record.
THEOREM CalendarsAlwaysLoad == ASSUME CalendarParameters PROVE CalendarSpec => []RecordedCalendarsLoad
<1>1. CalendarInit => CalendarInv
  BY CalendarInitInv
<1>2. CalendarInv /\ [CalendarNext]_calendarVars => CalendarInv'
  BY CalendarNextInv
<1>3. CalendarInv => RecordedCalendarsLoad
  BY InvImpliesLoad
<1> QED BY <1>1, <1>2, <1>3, PTL DEF CalendarSpec

-----------------------------------------------------------------------------
(* Corporate actions *)

\* What a caller of the module gives it.
ActionParameters ==
    /\ None \notin ActionWriters /\ MaxCalls \in Nat /\ MaxMishaps \in Nat
    /\ \A w \in ActionWriters : \A k \in 1 .. MaxCalls : RecordOf[w][k].bundle \in ActionBundles

ActionPlaces == {"idle", "look", "link", "sync", "unlink", "lock", "read", "append", "flush",
                 "release", "load", "returned"}
ActionResults == {"none", "failed", "found", "appended", "ok", "unloadable"}
ActionStates == [pc : ActionPlaces, call : 0 .. MaxCalls, result : ActionResults]

Target == <<"target">>
ActionTemps == {<<"temp", w, k>> : w \in ActionWriters, k \in 0 .. MaxCalls}
ActionNames == {Target} \cup ActionTemps
Records == {RecordOf[w][k] : w \in ActionWriters, k \in 1 .. MaxCalls}
Whole == {"", "open"}
Torn == {"part", "bad"}
Tails == Whole \cup Torn

ActionTypeInv ==
    /\ actNames \in [ActionBundles -> SUBSET ActionNames]
    /\ actDisk \in [ActionBundles -> SUBSET ActionNames]
    /\ actLines \in Seq(Records) /\ actTail \in Tails
    /\ actSynced \in Seq(Records) \X Tails
    /\ actLock \in ActionWriters \cup {None}
    /\ actProc \in [ActionWriters -> ActionStates]
    /\ actMishaps \in 0 .. MaxMishaps /\ actHasty \subseteq ActionBundles

\* A bundle that a record may be appended behind: its name is there to stay, or a
\* call was hasty about it.
Behind(b) == (Target \in actNames[b] /\ Target \in actDisk[b]) \/ b \in actHasty

\* A manifest, its lines and what follows them, says a record or refuses its readers.
Says(lines, left, r) == (\E i \in DOMAIN lines : lines[i] = r) \/ left \in Torn
NoRepeats(lines) == \A i, j \in DOMAIN lines : lines[i] = lines[j] => i = j

\* Whatever the manifest says or a power loss may make it say has its bundle.
RecordsBehind ==
    /\ \A i \in DOMAIN actLines : Behind(actLines[i].bundle)
    /\ \A i \in DOMAIN actSynced[1] : Behind(actSynced[1][i].bundle)

\* Without a mishap a temporary name is that of a call about to remove it.
Tidy ==
    actMishaps = 0 =>
        /\ \A b \in actHasty : Target \in actNames[b]
        /\ \A b \in ActionBundles : \A n \in actNames[b] :
              \/ n = Target
              \/ \E w \in ActionWriters : /\ actProc[w].pc \in {"sync", "unlink"}
                                          /\ Mine(w).bundle = b /\ n = ActionTemp(w)

Reported ==
    /\ NoRepeats(actLines) /\ NoRepeats(actSynced[1])
    /\ \A r \in actAcked : Says(actLines, actTail, r) /\ Says(actSynced[1], actSynced[2], r)

ActionPosition(w) ==
    /\ actProc[w].pc # "idle" => actProc[w].call \in 1 .. MaxCalls
    /\ actProc[w].pc \in {"read", "append", "flush", "release"} => actLock = w
    /\ actProc[w].pc = "sync" => Target \in actNames[Mine(w).bundle]
    /\ actProc[w].pc \in {"unlink", "lock", "read", "append"} => Behind(Mine(w).bundle)
    /\ actProc[w].pc = "append" =>
          actTail \in Whole /\ \A i \in DOMAIN actLines : actLines[i] # Mine(w)
    /\ actProc[w].pc = "flush" => Says(actLines, actTail, Mine(w))
    /\ actProc[w].pc = "release" /\ actProc[w].result = "appended" =>
          /\ Says(actLines, actTail, Mine(w)) /\ Says(actSynced[1], actSynced[2], Mine(w))

ActionInv ==
    /\ ActionTypeInv /\ RecordsBehind /\ Tidy /\ Reported
    /\ \A w \in ActionWriters : ActionPosition(w)

-----------------------------------------------------------------------------
(* Writers of corporate actions *)

LEMMA ActionNamesDiffer == \A t \in ActionTemps : t # Target
<1>1. ASSUME NEW w \in ActionWriters, NEW k \in 0 .. MaxCalls
      PROVE  <<"temp", w, k>> # Target
  BY DEF Target
<1> QED BY <1>1 DEF ActionTemps

LEMMA ActionFacts ==
    ASSUME ActionInv, ActionParameters, NEW w \in ActionWriters
    PROVE  /\ actProc[w] \in ActionStates /\ actProc[w].call \in 0 .. MaxCalls
           /\ actProc[w].pc \in ActionPlaces /\ actProc[w].result \in ActionResults
           /\ ActionTemp(w) \in ActionTemps /\ ActionTemp(w) # Target
           /\ actProc[w].pc # "idle" => Mine(w) \in Records /\ Mine(w).bundle \in ActionBundles
           /\ ActionPosition(w)
<1>1. actProc[w] \in ActionStates
  BY DEF ActionInv, ActionTypeInv
<1>2. /\ actProc[w].call \in 0 .. MaxCalls /\ actProc[w].pc \in ActionPlaces
      /\ actProc[w].result \in ActionResults
  BY <1>1 DEF ActionStates
<1>3. ActionTemp(w) \in ActionTemps
  BY <1>2 DEF ActionTemp, ActionTemps
<1>4. ActionPosition(w)
  BY DEF ActionInv
<1>5. actProc[w].pc # "idle" => Mine(w) \in Records /\ Mine(w).bundle \in ActionBundles
  BY <1>4 DEF ActionPosition, Mine, Records, ActionParameters
<1> QED BY <1>1, <1>2, <1>3, <1>4, <1>5, ActionNamesDiffer

\* Records have their bundles among ActionBundles.
LEMMA RecordFacts ==
    ASSUME ActionParameters
    PROVE  \A r \in Records : r.bundle \in ActionBundles
BY DEF ActionParameters, Records

\* Where a call goes next.
LEMMA ActionMoved ==
    ASSUME ActionInv, NEW w \in ActionWriters, NEW s \in ActionStates,
           actProc' = [actProc EXCEPT ![w] = s]
    PROVE  /\ actProc' \in [ActionWriters -> ActionStates] /\ actProc'[w] = s
           /\ \A v \in ActionWriters \ {w} : actProc'[v] = actProc[v]
BY DEF ActionInv, ActionTypeInv

LEMMA ActionStepped ==
    ASSUME ActionInv, NEW w \in ActionWriters, NEW pc \in ActionPlaces, ActionStep(w, pc)
    PROVE  \E s \in ActionStates :
              /\ actProc' = [actProc EXCEPT ![w] = s]
              /\ s.pc = pc /\ s.call = actProc[w].call /\ s.result = actProc[w].result
<1> DEFINE s == [actProc[w] EXCEPT !.pc = pc]
<1>1. actProc[w] \in [pc : ActionPlaces, call : 0 .. MaxCalls, result : ActionResults]
  BY DEF ActionInv, ActionTypeInv, ActionStates
<1>2. /\ s \in [pc : ActionPlaces, call : 0 .. MaxCalls, result : ActionResults]
      /\ s.pc = pc /\ s.call = actProc[w].call /\ s.result = actProc[w].result
  BY <1>1
<1>3. actProc' = [actProc EXCEPT ![w] = s]
  BY DEF ActionStep, ActionInv, ActionTypeInv
<1> HIDE DEF s
<1> QED BY <1>2, <1>3 DEF ActionStates

LEMMA ActionFinished ==
    ASSUME ActionInv, NEW w \in ActionWriters, NEW pc \in ActionPlaces,
           NEW result \in ActionResults, FinishAction(w, pc, result)
    PROVE  \E s \in ActionStates :
              /\ actProc' = [actProc EXCEPT ![w] = s]
              /\ s.pc = pc /\ s.call = actProc[w].call /\ s.result = result
<1> DEFINE s == [actProc[w] EXCEPT !.pc = pc, !.result = result]
<1>1. actProc[w] \in [pc : ActionPlaces, call : 0 .. MaxCalls, result : ActionResults]
  BY DEF ActionInv, ActionTypeInv, ActionStates
<1>2. /\ s \in [pc : ActionPlaces, call : 0 .. MaxCalls, result : ActionResults]
      /\ s.pc = pc /\ s.call = actProc[w].call /\ s.result = result
  BY <1>1
<1>3. actProc' = [actProc EXCEPT ![w] = s]
  BY DEF FinishAction, ActionInv, ActionTypeInv
<1> HIDE DEF s
<1> QED BY <1>2, <1>3 DEF ActionStates

\* The name of a bundle stays, on disk too; so what was behind a record still is.
NamesStay ==
    /\ \A b \in ActionBundles : Target \in actNames[b] =>
          /\ Target \in actNames'[b]
          /\ Target \in actDisk[b] => Target \in actDisk'[b]
    /\ actHasty \subseteq actHasty'

LEMMA BehindStays ==
    ASSUME NamesStay, NEW b \in ActionBundles, Behind(b)
    PROVE  Behind(b)'
BY DEF NamesStay, Behind

LEMMA RecordsStayBehind ==
    ASSUME ActionInv, ActionParameters, NamesStay, UNCHANGED actionManifest
    PROVE  RecordsBehind'
<1>1. /\ actLines' = actLines /\ actSynced' = actSynced
      /\ actLines \in Seq(Records) /\ actSynced[1] \in Seq(Records)
  BY DEF actionManifest, ActionInv, ActionTypeInv
<1>2. RecordsBehind
  BY DEF ActionInv
<1>3. ASSUME NEW i \in DOMAIN actLines PROVE Behind(actLines[i].bundle)'
  <2>1. actLines[i] \in Records
    BY <1>1
  <2>2. actLines[i].bundle \in ActionBundles /\ Behind(actLines[i].bundle)
    BY <2>1, <1>2, RecordFacts DEF RecordsBehind
  <2>3. \/ Target \in actNames'[actLines[i].bundle] /\ Target \in actDisk'[actLines[i].bundle]
        \/ actLines[i].bundle \in actHasty'
    BY <2>2 DEF Behind, NamesStay
  <2> QED BY <1>1, <2>3 DEF Behind
<1>4. ASSUME NEW i \in DOMAIN actSynced[1] PROVE Behind(actSynced[1][i].bundle)'
  <2>1. actSynced[1][i] \in Records
    BY <1>1
  <2>2. actSynced[1][i].bundle \in ActionBundles /\ Behind(actSynced[1][i].bundle)
    BY <2>1, <1>2, RecordFacts DEF RecordsBehind
  <2>3. \/ Target \in actNames'[actSynced[1][i].bundle] /\ Target \in actDisk'[actSynced[1][i].bundle]
        \/ actSynced[1][i].bundle \in actHasty'
    BY <2>2 DEF Behind, NamesStay
  <2> QED BY <1>1, <2>3 DEF Behind
<1> QED BY <1>1, <1>3, <1>4 DEF RecordsBehind

LEMMA ReportedStay ==
    ASSUME ActionInv, UNCHANGED actionManifest, UNCHANGED actAcked
    PROVE  Reported'
BY DEF ActionInv, actionManifest, Reported, Says, NoRepeats

LEMMA TidyStays ==
    ASSUME ActionInv, NEW w \in ActionWriters, NEW s \in ActionStates,
           actProc' = [actProc EXCEPT ![w] = s],
           actMishaps' = actMishaps, actNames' = actNames,
           \A b \in actHasty' \ actHasty : Target \in actNames[b],
           actProc[w].pc \in {"sync", "unlink"} =>
              s.pc \in {"sync", "unlink"} /\ s.call = actProc[w].call
    PROVE  Tidy'
<1> SUFFICES ASSUME actMishaps' = 0 PROVE Tidy'
  BY DEF Tidy
<1>1. /\ actProc'[w] = s /\ \A v \in ActionWriters \ {w} : actProc'[v] = actProc[v]
  BY ActionMoved
<1>2. Tidy /\ actMishaps = 0
  BY DEF ActionInv
<1>3. \A b \in actHasty' : Target \in actNames'[b]
  BY <1>2 DEF Tidy
<1>4. ASSUME NEW b \in ActionBundles, NEW n \in actNames[b], n # Target
      PROVE  \E v \in ActionWriters : /\ actProc'[v].pc \in {"sync", "unlink"}
                                      /\ RecordOf[v][actProc'[v].call].bundle = b
                                      /\ n = <<"temp", v, actProc'[v].call>>
  <2>1. PICK v \in ActionWriters : /\ actProc[v].pc \in {"sync", "unlink"}
                                   /\ RecordOf[v][actProc[v].call].bundle = b
                                   /\ n = <<"temp", v, actProc[v].call>>
    BY <1>2, <1>4 DEF Tidy, Mine, ActionTemp
  <2>2. actProc'[v].pc \in {"sync", "unlink"} /\ actProc'[v].call = actProc[v].call
    BY <1>1, <2>1
  <2> QED BY <2>1, <2>2
<1> QED BY <1>3, <1>4 DEF Tidy, Mine, ActionTemp

\* Only the holder of the lock changes the manifest, and no one takes it from it.
Guarded(w) ==
    /\ actLock' = actLock \/ (actLock = None /\ actLock' = w) \/ actLock = w
    /\ UNCHANGED actionManifest \/ actLock = w

LEMMA ActionOthersStay ==
    ASSUME ActionInv, ActionParameters, NEW w \in ActionWriters,
           NEW v \in ActionWriters \ {w}, actProc'[v] = actProc[v], NamesStay, Guarded(w)
    PROVE  ActionPosition(v)'
<1>1. ActionPosition(v) /\ Mine(v)' = Mine(v) /\ v # None
  BY DEF ActionInv, Mine, ActionParameters
<1>2. actProc[v].pc # "idle" => Mine(v).bundle \in ActionBundles
  BY ActionFacts
<1>3. actProc[v].pc \in {"read", "append", "flush", "release"} =>
         actLock = v /\ actLock' = v /\ UNCHANGED actionManifest
  BY <1>1 DEF ActionPosition, Guarded
<1>4. actProc[v].pc = "sync" => Target \in actNames'[Mine(v).bundle]
  BY <1>1, <1>2 DEF ActionPosition, NamesStay
<1>5. actProc[v].pc \in {"unlink", "lock", "read", "append"} =>
         \/ Target \in actNames'[Mine(v).bundle] /\ Target \in actDisk'[Mine(v).bundle]
         \/ Mine(v).bundle \in actHasty'
  BY <1>1, <1>2 DEF ActionPosition, NamesStay, Behind
<1> QED BY <1>1, <1>3, <1>4, <1>5 DEF ActionPosition, Behind, Says, actionManifest

\* What is left to show of a step of one writer.
LEMMA ActionKeeps ==
    ASSUME ActionInv, ActionParameters, NEW w \in ActionWriters, NEW s \in ActionStates,
           actProc' = [actProc EXCEPT ![w] = s], NamesStay, Guarded(w),
           ActionTypeInv', RecordsBehind', Tidy', Reported', ActionPosition(w)'
    PROVE  ActionInv'
<1>1. \A v \in ActionWriters \ {w} : actProc'[v] = actProc[v]
  BY ActionMoved
<1>2. \A v \in ActionWriters \ {w} : ActionPosition(v)'
  BY <1>1, ActionOthersStay
<1> QED BY <1>2 DEF ActionInv

\* A step that touches neither files nor manifest.
LEMMA ActionQuietStep ==
    ASSUME ActionInv, ActionParameters, NEW w \in ActionWriters, NEW s \in ActionStates,
           actProc' = [actProc EXCEPT ![w] = s],
           UNCHANGED <<actionFiles, actionManifest, actMishaps, actAcked>>,
           actLock' \in ActionWriters \cup {None},
           actLock' = actLock \/ (actLock = None /\ actLock' = w) \/ actLock = w,
           actProc[w].pc \notin {"sync", "unlink"}, ActionPosition(w)'
    PROVE  ActionInv'
<1>1. NamesStay /\ Guarded(w)
  BY DEF NamesStay, Guarded, actionFiles
<1>2. actProc' \in [ActionWriters -> ActionStates]
  BY ActionMoved
<1>3. ActionTypeInv'
  BY <1>2 DEF ActionInv, ActionTypeInv, actionFiles, actionManifest
<1>4. RecordsBehind' /\ Reported'
  BY <1>1, RecordsStayBehind, ReportedStay
<1>5. Tidy'
  BY TidyStays DEF actionFiles
<1> QED BY <1>1, <1>3, <1>4, <1>5, ActionKeeps

-----------------------------------------------------------------------------
(* One lemma for each action *)

LEMMA WriteActionsKeeps ==
    ASSUME ActionInv, ActionParameters, NEW w \in ActionWriters, WriteActions(w)
    PROVE  ActionInv'
<1> DEFINE s == [pc |-> "look", call |-> actProc[w].call + 1, result |-> "none"]
<1>1. /\ actProc[w].pc \in {"idle", "returned"} /\ actProc[w].call < MaxCalls
      /\ UNCHANGED <<actionFiles, actionManifest, actLock, actMishaps, actAcked>>
  BY DEF WriteActions
<1>2. actProc' = [actProc EXCEPT ![w] = s]
  BY DEF WriteActions, ActionInv, ActionTypeInv
<1>3. s \in ActionStates /\ s.pc = "look" /\ s.call \in 1 .. MaxCalls
  <2>1. actProc[w].call + 1 \in 1 .. MaxCalls
    BY <1>1, ActionFacts DEF ActionParameters
  <2> QED BY <2>1 DEF ActionStates, ActionPlaces, ActionResults
<1> HIDE DEF s
<1>4. actProc'[w] = s
  BY <1>2, <1>3, ActionMoved
<1>5. ActionPosition(w)'
  BY <1>3, <1>4 DEF ActionPosition
<1>6. actLock' \in ActionWriters \cup {None}
  BY <1>1 DEF ActionInv, ActionTypeInv
<1> QED BY <1>1, <1>2, <1>3, <1>5, <1>6, ActionQuietStep

LEMMA LookForActionsKeeps ==
    ASSUME ActionInv, ActionParameters, NEW w \in ActionWriters, LookForActions(w)
    PROVE  ActionInv'
<1> DEFINE b == Mine(w).bundle
<1>1. /\ actProc[w].pc = "look" /\ b \in ActionBundles
      /\ UNCHANGED <<actNames, actDisk, actionManifest, actLock, actMishaps, actAcked>>
  BY ActionFacts DEF LookForActions, ActionAt
<1>2. CASE ~ActionsPublished(b)
  <2>1. ActionStep(w, "link") /\ UNCHANGED actHasty
    BY <1>2 DEF LookForActions
  <2>2. PICK s \in ActionStates : /\ actProc' = [actProc EXCEPT ![w] = s]
                                  /\ s.pc = "link" /\ s.call = actProc[w].call
    BY <2>1, ActionStepped DEF ActionPlaces
  <2>3. actProc'[w] = s
    BY <2>2, ActionMoved
  <2>4. ActionPosition(w)'
    BY <1>1, <2>2, <2>3, ActionFacts DEF ActionPosition
  <2>5. actLock' \in ActionWriters \cup {None}
    BY <1>1 DEF ActionInv, ActionTypeInv
  <2> QED BY <1>1, <2>1, <2>2, <2>4, <2>5, ActionQuietStep DEF actionFiles
<1>3. CASE ActionsPublished(b)
  <2>1. /\ ActionStep(w, "lock") /\ Target \in actNames[b]
        /\ actHasty' = IF Target \in actDisk[b] THEN actHasty ELSE actHasty \cup {b}
    BY <1>3 DEF LookForActions, ActionsPublished, Target
  <2>2. PICK s \in ActionStates : /\ actProc' = [actProc EXCEPT ![w] = s]
                                  /\ s.pc = "lock" /\ s.call = actProc[w].call
    BY <2>1, ActionStepped DEF ActionPlaces
  <2>3. actProc'[w] = s /\ actProc' \in [ActionWriters -> ActionStates]
    BY <2>2, ActionMoved
  <2>4. NamesStay /\ Guarded(w)
    BY <1>1, <2>1 DEF NamesStay, Guarded
  <2>5. ActionTypeInv'
    BY <1>1, <2>1, <2>3 DEF ActionInv, ActionTypeInv, actionManifest
  <2>6. RecordsBehind' /\ Reported'
    BY <1>1, <2>4, RecordsStayBehind, ReportedStay
  <2>7. Tidy'
    <3>1. \A x \in actHasty' \ actHasty : Target \in actNames[x]
      BY <2>1
    <3> QED BY <1>1, <2>2, <3>1, TidyStays
  <2>8. ActionPosition(w)'
    <3>1. Mine(w)' = Mine(w) /\ actProc'[w].call \in 1 .. MaxCalls
      BY <1>1, <2>2, <2>3, ActionFacts DEF Mine, ActionPosition
    <3>2. (Target \in actNames'[b] /\ Target \in actDisk'[b]) \/ b \in actHasty'
      BY <1>1, <2>1
    <3> QED BY <2>2, <2>3, <3>1, <3>2 DEF ActionPosition, Behind
  <2> QED BY <2>2, <2>4, <2>5, <2>6, <2>7, <2>8, ActionKeeps
<1> QED BY <1>2, <1>3

LEMMA LinkActionsKeeps ==
    ASSUME ActionInv, ActionParameters, NEW w \in ActionWriters, LinkActions(w)
    PROVE  ActionInv'
<1> DEFINE b == Mine(w).bundle
           t == ActionTemp(w)
<1>1. /\ actProc[w].pc = "link" /\ b \in ActionBundles /\ ActionStep(w, "sync")
      /\ actNames' = IF Target \in actNames[b] THEN actNames
                     ELSE [actNames EXCEPT ![b] = @ \cup {Target, t}]
      /\ UNCHANGED <<actDisk, actHasty, actionManifest, actLock, actMishaps, actAcked>>
  BY ActionFacts DEF LinkActions, ActionAt, ActionsPublished, Target
<1>2. PICK s \in ActionStates : /\ actProc' = [actProc EXCEPT ![w] = s]
                                /\ s.pc = "sync" /\ s.call = actProc[w].call
  BY <1>1, ActionStepped DEF ActionPlaces
<1>3. /\ actProc'[w] = s /\ actProc' \in [ActionWriters -> ActionStates]
      /\ \A v \in ActionWriters \ {w} : actProc'[v] = actProc[v]
  BY <1>2, ActionMoved
<1>4. /\ actNames \in [ActionBundles -> SUBSET ActionNames] /\ {Target, t} \subseteq ActionNames
      /\ t = <<"temp", w, actProc[w].call>> /\ b = RecordOf[w][actProc[w].call].bundle
  BY ActionFacts DEF ActionInv, ActionTypeInv, ActionNames, ActionTemp, Mine
<1> HIDE DEF b, t
<1>5. /\ actNames' \in [ActionBundles -> SUBSET ActionNames]
      /\ Target \in actNames'[b]
      /\ \A c \in ActionBundles : /\ actNames[c] \subseteq actNames'[c]
                                  /\ \A n \in actNames'[c] : \/ n \in actNames[c]
                                                             \/ n = Target
                                                             \/ n = t /\ c = b
  BY <1>1, <1>4
<1>6. NamesStay /\ Guarded(w)
  BY <1>1, <1>5 DEF NamesStay, Guarded
<1>7. ActionTypeInv'
  BY <1>1, <1>3, <1>5 DEF ActionInv, ActionTypeInv, actionManifest
<1>8. RecordsBehind' /\ Reported'
  BY <1>1, <1>6, RecordsStayBehind, ReportedStay
<1>9. Tidy'
  <2> SUFFICES ASSUME actMishaps' = 0 PROVE Tidy'
    BY DEF Tidy
  <2>1. Tidy /\ actMishaps = 0
    BY <1>1 DEF ActionInv
  <2>2. \A c \in actHasty' : Target \in actNames'[c]
    BY <1>1, <1>5, <2>1 DEF Tidy, ActionInv, ActionTypeInv
  <2>3. ASSUME NEW c \in ActionBundles, NEW n \in actNames'[c], n # Target
        PROVE  \E v \in ActionWriters : /\ actProc'[v].pc \in {"sync", "unlink"}
                                        /\ RecordOf[v][actProc'[v].call].bundle = c
                                        /\ n = <<"temp", v, actProc'[v].call>>
    <3>1. CASE n \in actNames[c]
      <4>1. PICK v \in ActionWriters : /\ actProc[v].pc \in {"sync", "unlink"}
                                       /\ RecordOf[v][actProc[v].call].bundle = c
                                       /\ n = <<"temp", v, actProc[v].call>>
        BY <2>1, <2>3, <3>1 DEF Tidy, Mine, ActionTemp
      <4>2. actProc'[v] = actProc[v]
        BY <1>1, <1>3, <4>1
      <4> QED BY <4>1, <4>2
    <3>2. CASE n = t /\ c = b
      <4>1. /\ actProc'[w].pc \in {"sync", "unlink"}
            /\ RecordOf[w][actProc'[w].call].bundle = c
            /\ n = <<"temp", w, actProc'[w].call>>
        BY <1>2, <1>3, <1>4, <3>2
      <4> QED BY <4>1
    <3> QED BY <1>5, <2>3, <3>1, <3>2
  <2> QED BY <2>2, <2>3 DEF Tidy, Mine, ActionTemp
<1>10. ActionPosition(w)'
  <2>1. actProc'[w].call \in 1 .. MaxCalls
    BY <1>1, <1>2, <1>3, ActionFacts DEF ActionPosition
  <2>2. Target \in actNames'[RecordOf[w][actProc'[w].call].bundle]
    BY <1>2, <1>3, <1>4, <1>5
  <2> QED BY <1>2, <1>3, <2>1, <2>2 DEF ActionPosition, Mine
<1> QED BY <1>2, <1>6, <1>7, <1>8, <1>9, <1>10, ActionKeeps

LEMMA SyncDirectoryKeeps ==
    ASSUME ActionInv, ActionParameters, NEW w \in ActionWriters, SyncDirectory(w)
    PROVE  ActionInv'
<1>1. /\ actProc[w].pc = "sync" /\ ActionStep(w, "unlink") /\ actDisk' = actNames
      /\ UNCHANGED <<actNames, actHasty, actionManifest, actLock, actMishaps, actAcked>>
  BY DEF SyncDirectory, ActionAt
<1>2. PICK s \in ActionStates : /\ actProc' = [actProc EXCEPT ![w] = s]
                                /\ s.pc = "unlink" /\ s.call = actProc[w].call
  BY <1>1, ActionStepped DEF ActionPlaces
<1>3. actProc'[w] = s /\ actProc' \in [ActionWriters -> ActionStates]
  BY <1>2, ActionMoved
<1>4. NamesStay /\ Guarded(w)
  BY <1>1 DEF NamesStay, Guarded
<1>5. ActionTypeInv'
  BY <1>1, <1>3 DEF ActionInv, ActionTypeInv, actionManifest
<1>6. RecordsBehind' /\ Reported'
  BY <1>1, <1>4, RecordsStayBehind, ReportedStay
<1>7. Tidy'
  BY <1>1, <1>2, TidyStays
<1>8. ActionPosition(w)'
  <2>1. Mine(w)' = Mine(w) /\ actProc'[w].call \in 1 .. MaxCalls
    BY <1>1, <1>2, <1>3, ActionFacts DEF Mine, ActionPosition
  <2>2. Target \in actNames'[Mine(w).bundle] /\ Target \in actDisk'[Mine(w).bundle]
    BY <1>1, ActionFacts DEF ActionPosition
  <2> QED BY <1>2, <1>3, <2>1, <2>2 DEF ActionPosition, Behind
<1> QED BY <1>2, <1>4, <1>5, <1>6, <1>7, <1>8, ActionKeeps

LEMMA UnlinkActionsKeeps ==
    ASSUME ActionInv, ActionParameters, NEW w \in ActionWriters, UnlinkActions(w)
    PROVE  ActionInv'
<1> DEFINE b == Mine(w).bundle
           t == ActionTemp(w)
<1>1. /\ actProc[w].pc = "unlink" /\ b \in ActionBundles /\ ActionStep(w, "lock")
      /\ actNames' = [actNames EXCEPT ![b] = @ \ {t}]
      /\ UNCHANGED <<actDisk, actHasty, actionManifest, actLock, actMishaps, actAcked>>
  BY ActionFacts DEF UnlinkActions, ActionAt
<1>2. PICK s \in ActionStates : /\ actProc' = [actProc EXCEPT ![w] = s]
                                /\ s.pc = "lock" /\ s.call = actProc[w].call
  BY <1>1, ActionStepped DEF ActionPlaces
<1>3. /\ actProc'[w] = s /\ actProc' \in [ActionWriters -> ActionStates]
      /\ \A v \in ActionWriters \ {w} : actProc'[v] = actProc[v]
  BY <1>2, ActionMoved
<1>4. /\ actNames \in [ActionBundles -> SUBSET ActionNames] /\ t # Target
      /\ t = <<"temp", w, actProc[w].call>> /\ b = RecordOf[w][actProc[w].call].bundle
  BY ActionFacts DEF ActionInv, ActionTypeInv, ActionTemp, Mine
<1> HIDE DEF b, t
<1>5. /\ actNames' \in [ActionBundles -> SUBSET ActionNames]
      /\ \A c \in ActionBundles : /\ actNames'[c] \subseteq actNames[c]
                                  /\ Target \in actNames[c] => Target \in actNames'[c]
                                  /\ c = b => t \notin actNames'[c]
  BY <1>1, <1>4
<1>6. NamesStay /\ Guarded(w)
  BY <1>1, <1>5 DEF NamesStay, Guarded
<1>7. ActionTypeInv'
  BY <1>1, <1>3, <1>5 DEF ActionInv, ActionTypeInv, actionManifest
<1>8. RecordsBehind' /\ Reported'
  BY <1>1, <1>6, RecordsStayBehind, ReportedStay
<1>9. Tidy'
  <2> SUFFICES ASSUME actMishaps' = 0 PROVE Tidy'
    BY DEF Tidy
  <2>1. Tidy /\ actMishaps = 0
    BY <1>1 DEF ActionInv
  <2>2. \A c \in actHasty' : Target \in actNames'[c]
    BY <1>1, <1>5, <2>1 DEF Tidy, ActionInv, ActionTypeInv
  <2>3. ASSUME NEW c \in ActionBundles, NEW n \in actNames'[c], n # Target
        PROVE  \E v \in ActionWriters : /\ actProc'[v].pc \in {"sync", "unlink"}
                                        /\ RecordOf[v][actProc'[v].call].bundle = c
                                        /\ n = <<"temp", v, actProc'[v].call>>
    <3>1. PICK v \in ActionWriters : /\ actProc[v].pc \in {"sync", "unlink"}
                                     /\ RecordOf[v][actProc[v].call].bundle = c
                                     /\ n = <<"temp", v, actProc[v].call>>
      BY <1>5, <2>1, <2>3 DEF Tidy, Mine, ActionTemp
    <3>2. v # w
      BY <1>4, <1>5, <2>3, <3>1
    <3>3. actProc'[v] = actProc[v]
      BY <1>3, <3>2
    <3> QED BY <3>1, <3>3
  <2> QED BY <2>2, <2>3 DEF Tidy, Mine, ActionTemp
<1>10. ActionPosition(w)'
  <2>1. /\ actProc'[w].call = actProc[w].call /\ actProc'[w].call \in 1 .. MaxCalls
    BY <1>1, <1>2, <1>3, ActionFacts DEF ActionPosition
  <2>2. Behind(b)
    BY <1>1, ActionFacts DEF ActionPosition, b
  <2>3. (Target \in actNames'[b] /\ Target \in actDisk'[b]) \/ b \in actHasty'
    BY <1>1, <1>5, <2>2 DEF Behind
  <2>4. b = RecordOf[w][actProc'[w].call].bundle
    BY <1>4, <2>1
  <2> QED BY <1>2, <1>3, <2>1, <2>3, <2>4 DEF ActionPosition, Behind, Mine
<1> QED BY <1>2, <1>6, <1>7, <1>8, <1>9, <1>10, ActionKeeps

LEMMA LockActionsKeeps ==
    ASSUME ActionInv, ActionParameters, NEW w \in ActionWriters, LockActions(w)
    PROVE  ActionInv'
<1>1. /\ actProc[w].pc = "lock" /\ actLock = None /\ actLock' = w /\ ActionStep(w, "read")
      /\ UNCHANGED <<actionFiles, actionManifest, actMishaps, actAcked>>
  BY DEF LockActions, ActionAt
<1>2. PICK s \in ActionStates : /\ actProc' = [actProc EXCEPT ![w] = s]
                                /\ s.pc = "read" /\ s.call = actProc[w].call
  BY <1>1, ActionStepped DEF ActionPlaces
<1>3. actProc'[w] = s
  BY <1>2, ActionMoved
<1>4. ActionPosition(w)'
  <2>1. Mine(w)' = Mine(w) /\ actProc'[w].call \in 1 .. MaxCalls /\ Behind(Mine(w).bundle)
    BY <1>1, <1>2, <1>3, ActionFacts DEF Mine, ActionPosition
  <2> QED BY <1>1, <1>2, <1>3, <2>1 DEF ActionPosition, Behind, actionFiles
<1> QED BY <1>1, <1>2, <1>4, ActionQuietStep

LEMMA ReadActionsKeeps ==
    ASSUME ActionInv, ActionParameters, NEW w \in ActionWriters, ReadManifest(w)
    PROVE  ActionInv'
<1>1. /\ actProc[w].pc = "read"
      /\ UNCHANGED <<actionFiles, actionManifest, actLock, actMishaps, actAcked>>
  BY DEF ReadManifest, ActionAt
<1>2. /\ actLock = w /\ actLock' = w /\ actProc[w].call \in 1 .. MaxCalls
      /\ Behind(Mine(w).bundle)
  BY <1>1, ActionFacts DEF ActionPosition
<1>3. CASE \E result \in {"failed", "found"} : FinishAction(w, "release", result)
  <2>1. PICK s \in ActionStates : /\ actProc' = [actProc EXCEPT ![w] = s]
                                  /\ s.pc = "release" /\ s.call = actProc[w].call
                                  /\ s.result # "appended"
    BY <1>3, ActionFinished DEF ActionPlaces, ActionResults
  <2>2. actProc'[w] = s
    BY <2>1, ActionMoved
  <2>3. ActionPosition(w)'
    BY <1>2, <2>1, <2>2 DEF ActionPosition
  <2> QED BY <1>1, <1>2, <2>1, <2>3, ActionQuietStep
<1>4. CASE ActionsReadable /\ Mine(w) \notin ActionsRecorded /\ ActionStep(w, "append")
  <2>1. PICK s \in ActionStates : /\ actProc' = [actProc EXCEPT ![w] = s]
                                  /\ s.pc = "append" /\ s.call = actProc[w].call
    BY <1>4, ActionStepped DEF ActionPlaces
  <2>2. actProc'[w] = s
    BY <2>1, ActionMoved
  <2>3. /\ Mine(w)' = Mine(w) /\ actTail' \in Whole
        /\ \A i \in DOMAIN actLines' : actLines'[i] # Mine(w)
    BY <1>1, <1>4, <2>1, <2>2 DEF Mine, ActionsReadable, ActionsRecorded, Whole, actionManifest
  <2>4. ActionPosition(w)'
    BY <1>1, <1>2, <2>1, <2>2, <2>3 DEF ActionPosition, Behind, actionFiles
  <2> QED BY <1>1, <1>2, <2>1, <2>4, ActionQuietStep
<1>5. \/ \E result \in {"failed", "found"} : FinishAction(w, "release", result)
      \/ ActionsReadable /\ Mine(w) \notin ActionsRecorded /\ ActionStep(w, "append")
  BY DEF ReadManifest
<1> QED BY <1>3, <1>4, <1>5

\* The lines of a manifest, one less or one more.
LEMMA LastLineGone ==
    ASSUME NEW R, NEW l \in Seq(R), NoRepeats(l)
    PROVE  LET m == SubSeq(l, 1, Len(l) - 1)
           IN  /\ m \in Seq(R) /\ NoRepeats(m)
               /\ \A i \in DOMAIN m : \E j \in DOMAIN l : l[j] = m[i]
<1> DEFINE n == Len(l)
           m == SubSeq(l, 1, n - 1)
<1>1. n \in Nat /\ DOMAIN l = 1 .. n
  OBVIOUS
<1>2. CASE n = 0
  <2>1. m = <<>>
    BY <1>2
  <2> QED BY <2>1 DEF NoRepeats
<1>3. CASE n # 0
  <2>1. m \in Seq(R) /\ DOMAIN m = 1 .. n - 1 /\ \A i \in 1 .. n - 1 : m[i] = l[i]
    BY <1>1, <1>3
  <2>2. \A i \in 1 .. n - 1 : i \in DOMAIN l
    BY <1>1
  <2> HIDE DEF m
  <2>3. NoRepeats(m)
    BY <2>1, <2>2 DEF NoRepeats
  <2> QED BY <2>1, <2>2, <2>3 DEF m
<1> QED BY <1>2, <1>3

LEMMA LineAdded ==
    ASSUME NEW R, NEW l \in Seq(R), NoRepeats(l), NEW r \in R, \A i \in DOMAIN l : l[i] # r
    PROVE  LET m == Append(l, r)
           IN  /\ m \in Seq(R) /\ NoRepeats(m)
               /\ \A i \in DOMAIN m : m[i] = r \/ \E j \in DOMAIN l : l[j] = m[i]
               /\ \E i \in DOMAIN m : m[i] = r
               /\ \A j \in DOMAIN l : \E i \in DOMAIN m : m[i] = l[j]
<1> DEFINE n == Len(l)
           m == Append(l, r)
<1>1. n \in Nat /\ DOMAIN l = 1 .. n
  OBVIOUS
<1>2. /\ m \in Seq(R) /\ DOMAIN m = 1 .. n + 1
      /\ m[n + 1] = r /\ \A i \in 1 .. n : m[i] = l[i]
  OBVIOUS
<1>3. /\ n + 1 \in DOMAIN m /\ \A i \in 1 .. n : i \in DOMAIN m
      /\ \A i \in DOMAIN m : i \in 1 .. n \/ i = n + 1
  BY <1>1, <1>2
<1> HIDE DEF m
<1>4. NoRepeats(m)
  BY <1>1, <1>2, <1>3 DEF NoRepeats
<1> QED BY <1>1, <1>2, <1>3, <1>4 DEF m

\* What the manifest holds after the bytes of a record, or a part of them.
LEMMA AppendedFacts ==
    ASSUME actLines \in Seq(Records), actTail \in Whole, NoRepeats(actLines),
           NEW r \in Records, \A i \in DOMAIN actLines : actLines[i] # r,
           \/ actTail' = "bad" /\ actLines' = SubSeq(actLines, 1, Len(actLines) - 1)
           \/ actTail' = "part" /\ actLines' = actLines
           \/ actTail' \in Whole /\ actLines' = Append(actLines, r)
    PROVE  /\ actLines' \in Seq(Records) /\ actTail' \in Tails /\ NoRepeats(actLines')
           /\ \A i \in DOMAIN actLines' :
                 actLines'[i] = r \/ \E j \in DOMAIN actLines : actLines[j] = actLines'[i]
           /\ Says(actLines', actTail', r)
           /\ \A x : Says(actLines, actTail, x) => Says(actLines', actTail', x)
<1>1. actTail \notin Torn
  BY DEF Whole, Torn
<1>2. CASE actTail' = "bad" /\ actLines' = SubSeq(actLines, 1, Len(actLines) - 1)
  <2>1. actTail' \in Torn /\ actTail' \in Tails
    BY <1>2 DEF Torn, Tails
  <2> QED BY <1>2, <2>1, LastLineGone DEF Says
<1>3. CASE actTail' = "part" /\ actLines' = actLines
  <2>1. actTail' \in Torn /\ actTail' \in Tails
    BY <1>3 DEF Torn, Tails
  <2> QED BY <1>3, <2>1 DEF Says
<1>4. CASE actTail' \in Whole /\ actLines' = Append(actLines, r)
  <2>1. actTail' \in Tails
    BY <1>4 DEF Tails
  <2> QED BY <1>1, <1>4, <2>1, LineAdded DEF Says
<1> QED BY <1>2, <1>3, <1>4

LEMMA AppendedCases ==
    ASSUME actTail \in Whole, NEW r, NEW left \in {"", "part", "open"}, Appended(r, left)
    PROVE  \/ actTail' = "bad" /\ actLines' = SubSeq(actLines, 1, Len(actLines) - 1)
           \/ actTail' = "part" /\ actLines' = actLines
           \/ actTail' \in Whole /\ actLines' = Append(actLines, r)
<1>1. CASE actTail = "open"
  BY <1>1 DEF Appended
<1>2. CASE actTail # "open" /\ left = "part"
  BY <1>2 DEF Appended
<1>3. CASE actTail # "open" /\ left # "part"
  <2>1. left \in Whole
    BY <1>3 DEF Whole
  <2> QED BY <1>3, <2>1 DEF Appended
<1> QED BY <1>1, <1>2, <1>3

\* AppendLine and ShortWrite: the holder of the lock appends its record.
LEMMA AppendingKeeps ==
    ASSUME ActionInv, ActionParameters, NEW w \in ActionWriters, actProc[w].pc = "append",
           ActionStep(w, "flush"), NEW left \in {"", "part", "open"}, Appended(Mine(w), left),
           UNCHANGED <<actionFiles, actSynced, actLock, actAcked>>,
           actMishaps' \in 0 .. MaxMishaps, actMishaps' = actMishaps \/ actMishaps' # 0
    PROVE  ActionInv'
<1>1. /\ actLock = w /\ actProc[w].call \in 1 .. MaxCalls /\ Behind(Mine(w).bundle)
      /\ actTail \in Whole /\ \A i \in DOMAIN actLines : actLines[i] # Mine(w)
      /\ Mine(w) \in Records /\ Mine(w).bundle \in ActionBundles
  BY ActionFacts DEF ActionPosition
<1>2. PICK s \in ActionStates : /\ actProc' = [actProc EXCEPT ![w] = s]
                                /\ s.pc = "flush" /\ s.call = actProc[w].call
  <2>1. "flush" \in ActionPlaces
    BY DEF ActionPlaces
  <2>2. \E s \in ActionStates :
           /\ actProc' = [actProc EXCEPT ![w] = s]
           /\ s.pc = "flush" /\ s.call = actProc[w].call /\ s.result = actProc[w].result
    BY <2>1, ActionStepped
  <2> QED BY <2>2
<1>3. actProc'[w] = s /\ actProc' \in [ActionWriters -> ActionStates] /\ Mine(w)' = Mine(w)
  BY <1>2, ActionMoved DEF Mine
<1>4. /\ actLines' \in Seq(Records) /\ actTail' \in Tails /\ NoRepeats(actLines')
      /\ \A i \in DOMAIN actLines' :
            actLines'[i] = Mine(w) \/ \E j \in DOMAIN actLines : actLines[j] = actLines'[i]
      /\ Says(actLines', actTail', Mine(w))
      /\ \A x : Says(actLines, actTail, x) => Says(actLines', actTail', x)
  <2>1. actLines \in Seq(Records) /\ NoRepeats(actLines)
    BY DEF ActionInv, ActionTypeInv, Reported
  <2> QED BY <1>1, <2>1, AppendedFacts, AppendedCases
<1>5. NamesStay /\ Guarded(w)
  BY <1>1 DEF NamesStay, Guarded, actionFiles
<1>6. ActionTypeInv'
  BY <1>3, <1>4 DEF ActionInv, ActionTypeInv, actionFiles
<1>7. RecordsBehind'
  <2>1. /\ \A j \in DOMAIN actLines : Behind(actLines[j].bundle)
        /\ \A j \in DOMAIN actSynced[1] : Behind(actSynced[1][j].bundle)
    BY DEF ActionInv, RecordsBehind
  <2>2. \A i \in DOMAIN actLines' : Behind(actLines'[i].bundle)
    BY <1>1, <1>4, <2>1
  <2> QED BY <2>1, <2>2 DEF RecordsBehind, Behind, actionFiles
<1>8. Reported'
  <2>1. Reported
    BY DEF ActionInv
  <2>2. \A r \in actAcked' : Says(actLines', actTail', r) /\ Says(actSynced'[1], actSynced'[2], r)
    BY <1>4, <2>1 DEF Reported
  <2>3. NoRepeats(actSynced'[1])
    BY <2>1 DEF Reported
  <2> QED BY <1>4, <2>2, <2>3 DEF Reported
<1>9. Tidy'
  <2>1. CASE actMishaps' # 0
    BY <2>1 DEF Tidy
  <2>2. CASE actMishaps' = actMishaps
    BY <1>2, <2>2, TidyStays DEF actionFiles
  <2> QED BY <2>1, <2>2
<1>10. ActionPosition(w)'
  BY <1>1, <1>2, <1>3, <1>4 DEF ActionPosition
<1> QED BY <1>2, <1>5, <1>6, <1>7, <1>8, <1>9, <1>10, ActionKeeps

LEMMA AppendLineKeeps ==
    ASSUME ActionInv, ActionParameters, NEW w \in ActionWriters, AppendLine(w)
    PROVE  ActionInv'
<1>1. actMishaps' = actMishaps /\ actMishaps \in 0 .. MaxMishaps
  BY DEF AppendLine, ActionInv, ActionTypeInv
<1> QED BY <1>1, AppendingKeeps DEF AppendLine, ActionAt

LEMMA ActionMishapCounts ==
    ASSUME ActionInv, ActionParameters, actMishaps < MaxMishaps, actMishaps' = actMishaps + 1
    PROVE  actMishaps' \in 0 .. MaxMishaps /\ actMishaps' # 0
BY DEF ActionInv, ActionTypeInv, ActionParameters

LEMMA ShortWriteKeeps ==
    ASSUME ActionInv, ActionParameters, NEW w \in ActionWriters, ShortWrite(w)
    PROVE  ActionInv'
<1>1. actMishaps' \in 0 .. MaxMishaps /\ actMishaps' # 0
  BY ActionMishapCounts DEF ShortWrite
<1>2. PICK left \in {"part", "open"} : Appended(Mine(w), left)
  BY DEF ShortWrite
<1> QED BY <1>1, <1>2, AppendingKeeps DEF ShortWrite, ActionAt

LEMMA FlushManifestKeeps ==
    ASSUME ActionInv, ActionParameters, NEW w \in ActionWriters, FlushManifest(w)
    PROVE  ActionInv'
<1>1. /\ actProc[w].pc = "flush" /\ FinishAction(w, "release", "appended")
      /\ actSynced' = <<actLines, actTail>>
      /\ UNCHANGED <<actionFiles, actLines, actTail, actLock, actMishaps, actAcked>>
  BY DEF FlushManifest, ActionAt
<1>2. /\ actLock = w /\ actProc[w].call \in 1 .. MaxCalls /\ Says(actLines, actTail, Mine(w))
  BY <1>1, ActionFacts DEF ActionPosition
<1>3. PICK s \in ActionStates : /\ actProc' = [actProc EXCEPT ![w] = s]
                                /\ s.pc = "release" /\ s.call = actProc[w].call
  BY <1>1, ActionFinished DEF ActionPlaces, ActionResults
<1>4. actProc'[w] = s /\ actProc' \in [ActionWriters -> ActionStates] /\ Mine(w)' = Mine(w)
  BY <1>3, ActionMoved DEF Mine
<1>5. actSynced'[1] = actLines /\ actSynced'[2] = actTail
  BY <1>1
<1>6. NamesStay /\ Guarded(w)
  BY <1>1, <1>2 DEF NamesStay, Guarded, actionFiles
<1>7. ActionTypeInv'
  BY <1>1, <1>4 DEF ActionInv, ActionTypeInv, actionFiles
<1>8. RecordsBehind'
  BY <1>1, <1>5 DEF ActionInv, RecordsBehind, Behind, actionFiles
<1>9. Reported'
  BY <1>1, <1>5 DEF ActionInv, Reported
<1>10. Tidy'
  BY <1>1, <1>3, TidyStays DEF actionFiles
<1>11. ActionPosition(w)'
  BY <1>1, <1>2, <1>3, <1>4, <1>5 DEF ActionPosition
<1> QED BY <1>3, <1>6, <1>7, <1>8, <1>9, <1>10, <1>11, ActionKeeps

LEMMA ReleaseLockKeeps ==
    ASSUME ActionInv, ActionParameters, NEW w \in ActionWriters, ReleaseLock(w)
    PROVE  ActionInv'
<1>1. /\ actProc[w].pc = "release" /\ actLock' = None
      /\ ActionStep(w, "returned") \/ ActionStep(w, "load")
      /\ actAcked' = IF actProc[w].result = "appended" THEN actAcked \cup {Mine(w)} ELSE actAcked
      /\ UNCHANGED <<actionFiles, actionManifest, actMishaps>>
  BY DEF ReleaseLock, ActionAt
<1>2. /\ actLock = w /\ actProc[w].call \in 1 .. MaxCalls
      /\ actProc[w].result = "appended" =>
            Says(actLines, actTail, Mine(w)) /\ Says(actSynced[1], actSynced[2], Mine(w))
  BY <1>1, ActionFacts DEF ActionPosition
<1>3. PICK s \in ActionStates : /\ actProc' = [actProc EXCEPT ![w] = s]
                                /\ s.pc \in {"returned", "load"} /\ s.call = actProc[w].call
  BY <1>1, ActionStepped DEF ActionPlaces
<1>4. actProc'[w] = s /\ actProc' \in [ActionWriters -> ActionStates]
  BY <1>3, ActionMoved
<1>5. NamesStay /\ Guarded(w)
  BY <1>1, <1>2 DEF NamesStay, Guarded, actionFiles
<1>6. ActionTypeInv'
  BY <1>1, <1>4 DEF ActionInv, ActionTypeInv, actionFiles, actionManifest
<1>7. RecordsBehind'
  BY <1>1, <1>5, RecordsStayBehind
<1>8. Reported'
  BY <1>1, <1>2 DEF ActionInv, Reported, actionManifest
<1>9. Tidy'
  BY <1>1, <1>3, TidyStays DEF actionFiles
<1>10. ActionPosition(w)'
  BY <1>2, <1>3, <1>4 DEF ActionPosition
<1> QED BY <1>3, <1>5, <1>6, <1>7, <1>8, <1>9, <1>10, ActionKeeps

LEMMA LoadBackKeeps ==
    ASSUME ActionInv, ActionParameters, NEW w \in ActionWriters, LoadBack(w)
    PROVE  ActionInv'
<1>1. /\ actProc[w].pc = "load"
      /\ \E result \in ActionResults : FinishAction(w, "returned", result)
      /\ UNCHANGED <<actionFiles, actionManifest, actLock, actMishaps, actAcked>>
  BY DEF LoadBack, ActionAt, ActionResults
<1>2. PICK s \in ActionStates : /\ actProc' = [actProc EXCEPT ![w] = s]
                                /\ s.pc = "returned" /\ s.call = actProc[w].call
  BY <1>1, ActionFinished DEF ActionPlaces
<1>3. actProc'[w] = s
  BY <1>2, ActionMoved
<1>4. ActionPosition(w)' /\ actLock' \in ActionWriters \cup {None}
  BY <1>1, <1>2, <1>3, ActionFacts DEF ActionPosition, ActionInv, ActionTypeInv
<1> QED BY <1>1, <1>2, <1>4, ActionQuietStep

LEMMA ActionFaultKeeps ==
    ASSUME ActionInv, ActionParameters, NEW w \in ActionWriters, ActionFault(w)
    PROVE  ActionInv'
<1> DEFINE b == Mine(w).bundle
           t == ActionTemp(w)
<1>1. /\ actMishaps' \in 0 .. MaxMishaps /\ actMishaps' # 0
      /\ UNCHANGED <<actDisk, actHasty, actionManifest, actLock, actAcked>>
  BY ActionMishapCounts DEF ActionFault, ActionMishap
<1>2. Tidy'
  BY <1>1 DEF Tidy
<1>3. /\ actNames \in [ActionBundles -> SUBSET ActionNames]
      /\ actProc[w].pc # "idle" => b \in ActionBundles /\ actProc[w].call \in 1 .. MaxCalls
      /\ t # Target
  BY ActionFacts DEF ActionInv, ActionTypeInv, ActionPosition
<1>4. ASSUME NEW s \in ActionStates, actProc' = [actProc EXCEPT ![w] = s],
             s.pc \in {"returned", "release"}, s.result # "appended", s.call = actProc[w].call,
             actProc[w].pc # "idle", s.pc = "release" => actLock = w,
             actNames' = actNames \/ actNames' = [actNames EXCEPT ![b] = @ \ {t}]
      PROVE  ActionInv'
  <2>1. actProc'[w] = s /\ actProc' \in [ActionWriters -> ActionStates]
    BY <1>4, ActionMoved
  <2>2. b \in ActionBundles /\ actProc[w].call \in 1 .. MaxCalls
    BY <1>3, <1>4
  <2> HIDE DEF b, t
  <2>3. /\ actNames' \in [ActionBundles -> SUBSET ActionNames]
        /\ \A c \in ActionBundles : Target \in actNames[c] => Target \in actNames'[c]
    BY <1>3, <1>4, <2>2
  <2>4. NamesStay /\ Guarded(w)
    BY <1>1, <2>3 DEF NamesStay, Guarded
  <2>5. ActionTypeInv'
    BY <1>1, <2>1, <2>3 DEF ActionInv, ActionTypeInv, actionManifest
  <2>6. RecordsBehind' /\ Reported'
    BY <1>1, <2>4, RecordsStayBehind, ReportedStay
  <2>7. ActionPosition(w)'
    BY <1>1, <1>4, <2>1, <2>2 DEF ActionPosition
  <2> QED BY <1>2, <1>4, <2>4, <2>5, <2>6, <2>7, ActionKeeps
<1>5. CASE /\ actProc[w].pc \in {"link", "sync", "unlink"}
           /\ FinishAction(w, "returned", "failed")
           /\ actNames' = IF ActionAt(w, "unlink") THEN actNames
                          ELSE [actNames EXCEPT ![b] = @ \ {t}]
  <2>1. "returned" \in ActionPlaces /\ "failed" \in ActionResults
    BY DEF ActionPlaces, ActionResults
  <2>2. PICK s \in ActionStates :
           /\ actProc' = [actProc EXCEPT ![w] = s]
           /\ s.pc = "returned" /\ s.call = actProc[w].call /\ s.result = "failed"
    BY <1>5, <2>1, ActionFinished
  <2> HIDE DEF b, t
  <2> QED BY <1>4, <1>5, <2>2
<1>6. CASE /\ actProc[w].pc \in {"read", "append", "flush"}
           /\ FinishAction(w, "release", "failed") /\ UNCHANGED actNames
  <2>1. "release" \in ActionPlaces /\ "failed" \in ActionResults
    BY DEF ActionPlaces, ActionResults
  <2>2. PICK s \in ActionStates :
           /\ actProc' = [actProc EXCEPT ![w] = s]
           /\ s.pc = "release" /\ s.call = actProc[w].call /\ s.result = "failed"
    BY <1>6, <2>1, ActionFinished
  <2>3. actLock = w
    BY <1>6, ActionFacts DEF ActionPosition
  <2> HIDE DEF b, t
  <2> QED BY <1>4, <1>6, <2>2, <2>3
<1> QED BY <1>5, <1>6 DEF ActionFault

\* A process that starts again is in a call no more, and remembers how many it made.
LEMMA StartedAgain ==
    ASSUME ActionInv, ActionParameters, NEW w \in ActionWriters
    PROVE  LET s == [Idle EXCEPT !.call = actProc[w].call]
           IN  s \in ActionStates /\ s.pc = "idle" /\ s.call = actProc[w].call
<1>1. [Idle EXCEPT !.call = actProc[w].call] =
         [pc |-> "idle", call |-> actProc[w].call, result |-> "none"]
  BY DEF Idle
<1>2. actProc[w].call \in 0 .. MaxCalls
  BY ActionFacts
<1> QED BY <1>1, <1>2 DEF ActionStates, ActionPlaces, ActionResults

LEMMA ActionCrashKeeps ==
    ASSUME ActionInv, ActionParameters, NEW w \in ActionWriters, ActionCrash(w)
    PROVE  ActionInv'
<1> DEFINE s == [Idle EXCEPT !.call = actProc[w].call]
<1>1. /\ actMishaps' \in 0 .. MaxMishaps /\ actMishaps' # 0
      /\ actLock' = IF actLock = w THEN None ELSE actLock
      /\ UNCHANGED <<actionFiles, actionManifest, actAcked>>
  BY ActionMishapCounts DEF ActionCrash, ActionMishap
<1>2. s \in ActionStates /\ s.pc = "idle" /\ actProc' = [actProc EXCEPT ![w] = s]
  BY StartedAgain DEF ActionCrash
<1> HIDE DEF s
<1>3. actProc'[w] = s /\ actProc' \in [ActionWriters -> ActionStates]
  BY <1>2, ActionMoved
<1>4. NamesStay /\ Guarded(w)
  BY <1>1 DEF NamesStay, Guarded, actionFiles
<1>5. ActionTypeInv'
  BY <1>1, <1>3 DEF ActionInv, ActionTypeInv, actionManifest, actionFiles
<1>6. RecordsBehind' /\ Reported' /\ Tidy'
  BY <1>1, <1>4, RecordsStayBehind, ReportedStay DEF Tidy
<1>7. ActionPosition(w)'
  BY <1>2, <1>3 DEF ActionPosition
<1> QED BY <1>2, <1>4, <1>5, <1>6, <1>7, ActionKeeps

LEMMA ActionPowerLossKeeps ==
    ASSUME ActionInv, ActionParameters, ActionPowerLoss
    PROVE  ActionInv'
<1>1. /\ actMishaps' \in 0 .. MaxMishaps /\ actMishaps' # 0
      /\ actLock' = None /\ actAcked' = actAcked /\ actHasty' = actHasty
      /\ actProc' = [w \in ActionWriters |-> [Idle EXCEPT !.call = actProc[w].call]]
      /\ actSynced' = <<actLines', actTail'>>
  BY ActionMishapCounts DEF ActionPowerLoss, ActionMishap
<1>2. PICK kept \in [ActionBundles ->
                       SUBSET (UNION {actNames[b] \cup actDisk[b] : b \in ActionBundles})] :
         /\ \A b \in ActionBundles : /\ actNames[b] \cap actDisk[b] \subseteq kept[b]
                                     /\ kept[b] \subseteq actNames[b] \cup actDisk[b]
         /\ actNames' = kept /\ actDisk' = kept
  BY DEF ActionPowerLoss
<1>3. /\ actNames' \in [ActionBundles -> SUBSET ActionNames]
      /\ actDisk' \in [ActionBundles -> SUBSET ActionNames]
      /\ \A b \in ActionBundles : Target \in actNames[b] /\ Target \in actDisk[b] =>
            Target \in actNames'[b] /\ Target \in actDisk'[b]
  BY <1>2 DEF ActionInv, ActionTypeInv
<1>4. \/ actLines' = actLines /\ actTail' = actTail
      \/ actLines' = actSynced[1] /\ actTail' \in {actSynced[2], "part"}
  BY DEF ActionPowerLoss
<1>5. /\ actLines \in Seq(Records) /\ actTail \in Tails
      /\ actSynced[1] \in Seq(Records) /\ actSynced[2] \in Tails
      /\ actLock' \in ActionWriters \cup {None} /\ actHasty \subseteq ActionBundles
      /\ "part" \in Tails /\ "part" \in Torn
  BY <1>1 DEF ActionInv, ActionTypeInv, Tails, Torn
<1>6. /\ actLines' \in Seq(Records) /\ actTail' \in Tails
      /\ actSynced'[1] = actLines' /\ actSynced'[2] = actTail'
  BY <1>1, <1>4, <1>5
<1>7. \A w \in ActionWriters : actProc'[w] \in ActionStates /\ actProc'[w].pc = "idle"
  BY <1>1, StartedAgain
<1>8. ActionTypeInv'
  <2>1. actProc' \in [ActionWriters -> ActionStates]
    BY <1>1, <1>7
  <2>2. actSynced' \in Seq(Records) \X Tails
    BY <1>1, <1>6
  <2> QED BY <1>1, <1>3, <1>5, <1>6, <2>1, <2>2 DEF ActionTypeInv
<1>9. RecordsBehind'
  <2>1. ASSUME NEW r \in Records, Behind(r.bundle)
        PROVE  \/ Target \in actNames'[r.bundle] /\ Target \in actDisk'[r.bundle]
               \/ r.bundle \in actHasty'
    BY <1>1, <1>3, <2>1, RecordFacts DEF Behind
  <2>2. /\ \A i \in DOMAIN actLines : actLines[i] \in Records /\ Behind(actLines[i].bundle)
        /\ \A i \in DOMAIN actSynced[1] :
              actSynced[1][i] \in Records /\ Behind(actSynced[1][i].bundle)
    BY <1>5 DEF ActionInv, RecordsBehind
  <2>3. \A i \in DOMAIN actLines' : actLines'[i] \in Records /\ Behind(actLines'[i].bundle)
    BY <1>4, <2>2
  <2> QED BY <1>6, <2>1, <2>3 DEF RecordsBehind, Behind
<1>10. Reported'
  <2>1. /\ NoRepeats(actLines) /\ NoRepeats(actSynced[1])
        /\ \A r \in actAcked :
              Says(actLines, actTail, r) /\ Says(actSynced[1], actSynced[2], r)
    BY DEF ActionInv, Reported
  <2>2. NoRepeats(actLines') /\ \A r \in actAcked : Says(actLines', actTail', r)
    BY <1>4, <1>5, <2>1 DEF Says
  <2> QED BY <1>1, <1>6, <2>2 DEF Reported
<1>11. Tidy'
  BY <1>1 DEF Tidy
<1>12. \A w \in ActionWriters : ActionPosition(w)'
  BY <1>7 DEF ActionPosition
<1> QED BY <1>8, <1>9, <1>10, <1>11, <1>12 DEF ActionInv

-----------------------------------------------------------------------------
(* Every behaviour of the store of corporate actions *)

LEMMA NoLines == \A l : l = <<>> => DOMAIN l = {}
OBVIOUS

LEMMA ActionInitCounts ==
    ASSUME ActionParameters, actMishaps = 0
    PROVE  actMishaps \in 0 .. MaxMishaps
BY DEF ActionParameters

LEMMA ActionInitInv ==
    ASSUME ActionParameters, ActionInit
    PROVE  ActionInv
<1>1. /\ actNames = [b \in ActionBundles |-> {}] /\ actDisk = actNames
      /\ actLines = <<>> /\ actTail = "" /\ actSynced = <<actLines, actTail>>
      /\ actLock = None /\ actProc = [w \in ActionWriters |-> Idle]
      /\ actMishaps = 0 /\ actAcked = {} /\ actHasty = {}
  BY DEF ActionInit
<1>2. actSynced[1] = <<>> /\ actSynced[2] = ""
  BY <1>1
<1>3. Idle \in ActionStates /\ Idle.pc = "idle"
  BY DEF Idle, ActionStates, ActionPlaces, ActionResults, ActionParameters
<1>4. "" \in Tails
  BY DEF Tails, Whole
<1>5. ActionTypeInv
  <2>1. actNames \in [ActionBundles -> SUBSET ActionNames] /\ actDisk = actNames
    BY <1>1
  <2>2. actLines \in Seq(Records) /\ actTail \in Tails /\ actSynced \in Seq(Records) \X Tails
    <3>1. <<>> \in Seq(Records)
      OBVIOUS
    <3> QED BY <1>1, <1>4, <3>1
  <2>3. actProc \in [ActionWriters -> ActionStates]
    BY <1>1, <1>3
  <2>4. actMishaps \in 0 .. MaxMishaps
    BY <1>1, ActionInitCounts
  <2> QED BY <1>1, <2>1, <2>2, <2>3, <2>4 DEF ActionTypeInv
<1>6. RecordsBehind /\ Reported
  <2>1. DOMAIN actLines = {} /\ DOMAIN actSynced[1] = {}
    BY <1>1, <1>2, NoLines
  <2>2. RecordsBehind
    BY <2>1 DEF RecordsBehind
  <2>3. Reported
    BY <1>1, <2>1 DEF Reported, NoRepeats
  <2> QED BY <2>2, <2>3
<1>7. Tidy
  BY <1>1 DEF Tidy
<1>8. \A w \in ActionWriters : ActionPosition(w)
  BY <1>1, <1>3 DEF ActionPosition
<1> QED BY <1>5, <1>6, <1>7, <1>8 DEF ActionInv

LEMMA ActionStays ==
    ASSUME ActionInv, UNCHANGED actionVars
    PROVE  ActionInv'
<1>1. UNCHANGED <<actNames, actDisk, actLines, actTail, actSynced, actLock, actProc, actMishaps,
                  actAcked, actHasty>>
  BY DEF actionVars
<1>2. ActionTypeInv' /\ RecordsBehind' /\ Reported'
  BY <1>1 DEF ActionInv, ActionTypeInv, RecordsBehind, Reported, Behind
<1>3. Tidy'
  BY <1>1 DEF ActionInv, Tidy, Mine, ActionTemp
<1>4. \A w \in ActionWriters : ActionPosition(w)'
  BY <1>1 DEF ActionInv, ActionPosition, Mine, Behind
<1> QED BY <1>2, <1>3, <1>4 DEF ActionInv

LEMMA ActionNextInv ==
    ASSUME ActionParameters, ActionInv, [ActionNext]_actionVars
    PROVE  ActionInv'
<1>1. ASSUME NEW w \in ActionWriters,
             \/ WriteActions(w) \/ LookForActions(w) \/ LinkActions(w) \/ SyncDirectory(w)
             \/ UnlinkActions(w)
      PROVE  ActionInv'
  BY <1>1, WriteActionsKeeps, LookForActionsKeeps, LinkActionsKeeps, SyncDirectoryKeeps,
     UnlinkActionsKeeps
<1>2. ASSUME NEW w \in ActionWriters,
             LockActions(w) \/ ReadManifest(w) \/ AppendLine(w) \/ ShortWrite(w)
      PROVE  ActionInv'
  BY <1>2, LockActionsKeeps, ReadActionsKeeps, AppendLineKeeps, ShortWriteKeeps
<1>6. ASSUME NEW w \in ActionWriters, FlushManifest(w) \/ ReleaseLock(w) \/ LoadBack(w)
      PROVE  ActionInv'
  BY <1>6, FlushManifestKeeps, ReleaseLockKeeps, LoadBackKeeps
<1>3. ASSUME NEW w \in ActionWriters, ActionFault(w) \/ ActionCrash(w)
      PROVE  ActionInv'
  BY <1>3, ActionFaultKeeps, ActionCrashKeeps
<1>4. CASE ActionPowerLoss
  BY <1>4, ActionPowerLossKeeps
<1>5. CASE UNCHANGED actionVars
  BY <1>5, ActionStays
<1> QED BY <1>1, <1>2, <1>3, <1>4, <1>5, <1>6 DEF ActionNext

\* The invariant is what the property says of records, files and readers.
LEMMA ActionsAreRecorded ==
    ASSUME ActionParameters, ActionInv
    PROVE  RecordedActionsLoad
<1>1. /\ actNames \in [ActionBundles -> SUBSET ActionNames]
      /\ actDisk \in [ActionBundles -> SUBSET ActionNames]
      /\ actLines \in Seq(Records) /\ actTail \in Tails
      /\ RecordsBehind /\ Tidy /\ Reported
  BY DEF ActionInv, ActionTypeInv
<1>2. ASSUME NEW r \in ActionsRecorded PROVE r \in Records /\ Behind(r.bundle)
  BY <1>1, <1>2 DEF ActionsRecorded, RecordsBehind
<1>3. ActionTypeOK
  <2>1. actTail \in {"", "part", "open", "bad"}
    BY <1>1 DEF Tails, Whole, Torn
  <2>2. \A r \in ActionsRecorded : r.bundle \in ActionBundles
    BY <1>2, RecordFacts
  <2>3. /\ actLock \in ActionWriters \cup {None} /\ actMishaps \in 0 .. MaxMishaps
        /\ actHasty \subseteq ActionBundles
    BY DEF ActionInv, ActionTypeInv
  <2> QED BY <1>1, <2>1, <2>2, <2>3 DEF ActionTypeOK
<1>4. RecordsHaveFiles
  <2>1. ASSUME NEW r \in ActionsRecorded
        PROVE  ActionsPublished(r.bundle) \/ r.bundle \in actHasty
    BY <1>2 DEF Behind, ActionsPublished, Target
  <2>2. ASSUME NEW r \in ActionsRecorded, actMishaps = 0
        PROVE  \/ ActionsVerify(r.bundle)
               \/ \E w \in ActionWriters : /\ actProc[w].pc \in {"sync", "unlink"}
                                           /\ ActionTemp(w) \in actNames[r.bundle]
    <3>1. Target \in actNames[r.bundle] /\ r.bundle \in ActionBundles
      BY <1>1, <1>2, <2>2, RecordFacts DEF Behind, Tidy
    <3>2. CASE \A n \in actNames[r.bundle] : n = Target
      <4>1. actNames[r.bundle] = {Target}
        BY <3>1, <3>2
      <4> QED BY <4>1 DEF ActionsVerify, Target
    <3>3. CASE \E n \in actNames[r.bundle] : n # Target
      BY <1>1, <2>2, <3>1, <3>3 DEF Tidy
    <3> QED BY <3>2, <3>3
  <2> QED BY <2>1, <2>2 DEF RecordsHaveFiles
<1>5. ReportedOrRefused
  <2>1. ASSUME NEW r \in actAcked PROVE r \in ActionsRecorded \/ ~ActionsReadable
    <3>1. Says(actLines, actTail, r)
      BY <1>1 DEF Reported
    <3> QED BY <3>1 DEF Says, ActionsRecorded, ActionsReadable, Torn
  <2> QED BY <2>1 DEF ReportedOrRefused
<1> QED BY <1>3, <1>4, <1>5 DEF RecordedActionsLoad

\* CorporateActionSnapshotStore.write and CorporateActionManifestWriter.append: a
\* record is behind its bundle, and loads if nothing went wrong; no record whose
\* append was reported is forgotten in silence.
THEOREM ActionsAlwaysLoad ==
    ASSUME ActionParameters
    PROVE  ActionSpec => []RecordedActionsLoad
<1>1. ActionInit => ActionInv
  BY ActionInitInv
<1>2. ActionInv /\ [ActionNext]_actionVars => ActionInv'
  BY ActionNextInv
<1>3. ActionInv => RecordedActionsLoad
  BY ActionsAreRecorded
<1> QED BY <1>1, <1>2, <1>3, PTL DEF ActionSpec

-----------------------------------------------------------------------------
(* Fetches *)

\* Instruments are of the kinds fetch_batch knows (is_supported_instrument_identity).
FetchParameters == IsFiniteSet(Instruments) /\ KindOf \in [Instruments -> {"etf", "stock"}]

BarProviders == {"eastmoney", "sina"}
Fetched == [instrument : Instruments, provider : BarProviders, call : Nat]
Logged == [instrument : Instruments, provider : {"eastmoney", "sina", "cninfo"}, ok : BOOLEAN]

FetchTypeInv ==
    /\ what \in {"bars", "actions"} /\ request \in Seq(Instruments)
    /\ what = "actions" => Len(request) = 1
    /\ group \in 1 .. 3 /\ provider \in BarProviders
    /\ results \subseteq Fetched /\ bySymbol \subseteq Fetched
    /\ attempts \in Seq(Logged)

\* FailedAt and Backed, of a log.
Failures(log, k, from) ==
    {c \in DOMAIN log : KindOf[log[c].instrument] = k /\ log[c].provider = from /\ ~log[c].ok}
Sound(log, r) ==
    /\ r.call \in DOMAIN log /\ log[r.call] = Attempt(r.instrument, r.provider, TRUE)
    /\ \A from \in BarProviders : \A c \in Failures(log, KindOf[r.instrument], from) : c < r.call
    /\ r.provider = "sina" => Failures(log, KindOf[r.instrument], "eastmoney") # {}

GroupDone(k, g) == (k = "etf" /\ g > 1) \/ (k = "stock" /\ g > 2)

\* The results of the group: from its provider, which the other one made way for.
GroupGoesOn ==
    /\ \A r \in results : /\ group <= 2 /\ KindOf[r.instrument] = Groups[group]
                          /\ r.provider = provider /\ Sound(attempts, r)
    /\ provider = "sina" =>
          group <= 2 /\ Failures(attempts, Groups[group], "eastmoney") # {}
    /\ group <= 2 /\ Members(group) = {} => results = {} /\ provider = "eastmoney"
    /\ group <= 2 /\ Members(group) # {} => Missing # {}

\* The results of the groups that are done: all of them, each from one provider.
GroupsDone ==
    /\ \A r \in bySymbol : Sound(attempts, r) /\ GroupDone(KindOf[r.instrument], group)
    /\ \A q, r \in bySymbol :
          KindOf[q.instrument] = KindOf[r.instrument] => q.provider = r.provider
    /\ \A p \in DOMAIN request :
          GroupDone(KindOf[request[p]], group) => \E r \in bySymbol : r.instrument = request[p]

FetchInv ==
    /\ FetchTypeInv /\ BatchesAreConsistent
    /\ what = "bars" /\ fetchReply = "pending" => GroupGoesOn /\ GroupsDone

-----------------------------------------------------------------------------
(* Logs and groups *)

LEMMA KindFacts ==
    ASSUME FetchParameters, NEW i \in Instruments
    PROVE  KindOf[i] \in {"etf", "stock"}
BY DEF FetchParameters

LEMMA GroupFacts ==
    /\ Groups[1] = "etf" /\ Groups[2] = "stock" /\ Len(Groups) = 2
    /\ \A k \in {"etf", "stock"} : \A g \in {1, 2} :
          /\ ~GroupDone(Groups[g], g) /\ GroupDone(Groups[g], g + 1)
          /\ GroupDone(k, g) => GroupDone(k, g + 1) /\ k # Groups[g]
          /\ GroupDone(k, g + 1) => GroupDone(k, g) \/ k = Groups[g]
          /\ GroupDone(k, 3)
<1>1. Groups[1] = "etf" /\ Groups[2] = "stock" /\ Len(Groups) = 2
  BY DEF Groups
<1> QED BY <1>1 DEF GroupDone

\* Of a set of positions there is a first one.
LEMMA FirstMissing ==
    ASSUME NEW T, T \subseteq Nat, T # {}
    PROVE  Min(T) \in T
<1>1. PICK m \in T : \A k \in T : ~(<<k, m>> \in OpToRel(<, Nat))
  BY NatLessThanWellFounded, WFMin
<1>2. \A k \in T : ~(k < m)
  BY <1>1 DEF OpToRel
<1>3. \A k \in T : m <= k
  BY <1>2
<1> QED BY <1>3 DEF Min

LEMMA AttemptLogged ==
    ASSUME NEW log \in Seq(Logged), NEW a \in Logged
    PROVE  /\ Append(log, a) \in Seq(Logged) /\ Len(log) \in Nat
           /\ DOMAIN log = 1 .. Len(log) /\ DOMAIN Append(log, a) = 1 .. Len(log) + 1
           /\ \A j \in 1 .. Len(log) : Append(log, a)[j] = log[j]
           /\ Append(log, a)[Len(log) + 1] = a /\ Last(Append(log, a)) = a
BY DEF Last

LEMMA FailuresLogged ==
    ASSUME NEW log \in Seq(Logged), NEW a \in Logged, NEW k, NEW from
    PROVE  /\ Failures(log, k, from) \subseteq Failures(Append(log, a), k, from)
           /\ Failures(log, k, from) \subseteq 1 .. Len(log)
           /\ a.ok \/ KindOf[a.instrument] # k \/ a.provider # from =>
                 Failures(Append(log, a), k, from) = Failures(log, k, from)
           /\ ~a.ok /\ KindOf[a.instrument] = k /\ a.provider = from =>
                 Failures(Append(log, a), k, from) # {}
<1> DEFINE n == Len(log)
           more == Append(log, a)
<1>1. /\ n \in Nat /\ DOMAIN log = 1 .. n /\ DOMAIN more = 1 .. n + 1
      /\ \A j \in 1 .. n : more[j] = log[j]
      /\ more[n + 1] = a
  BY AttemptLogged
<1> HIDE DEF n, more
<1>2. /\ \A j \in 1 .. n : j \in 1 .. n + 1
      /\ \A j \in 1 .. n + 1 : j \in 1 .. n \/ j = n + 1
      /\ n + 1 \in 1 .. n + 1
  BY <1>1
<1>3. /\ Failures(log, k, from) \subseteq Failures(more, k, from)
      /\ Failures(log, k, from) \subseteq 1 .. n
  BY <1>1, <1>2 DEF Failures
<1>4. ASSUME a.ok \/ KindOf[a.instrument] # k \/ a.provider # from
      PROVE  Failures(more, k, from) = Failures(log, k, from)
  BY <1>1, <1>2, <1>4 DEF Failures
<1>5. ASSUME ~a.ok, KindOf[a.instrument] = k, a.provider = from
      PROVE  Failures(more, k, from) # {}
  <2>1. n + 1 \in Failures(more, k, from)
    BY <1>1, <1>2, <1>5 DEF Failures
  <2> QED BY <2>1
<1> QED BY <1>3, <1>4, <1>5 DEF n, more

\* A result stays sound as long as no call for its kind fails.
LEMMA SoundStays ==
    ASSUME NEW log \in Seq(Logged), NEW a \in Logged, NEW r \in Fetched, Sound(log, r),
           a.ok \/ KindOf[a.instrument] # KindOf[r.instrument]
    PROVE  Sound(Append(log, a), r)
<1>1. /\ r.call \in 1 .. Len(log) /\ r.call \in DOMAIN Append(log, a)
      /\ Append(log, a)[r.call] = log[r.call]
  <2>1. /\ Len(log) \in Nat /\ DOMAIN log = 1 .. Len(log)
        /\ DOMAIN Append(log, a) = 1 .. Len(log) + 1
        /\ \A j \in 1 .. Len(log) : Append(log, a)[j] = log[j]
    BY AttemptLogged
  <2>2. r.call \in DOMAIN log
    BY DEF Sound
  <2> QED BY <2>1, <2>2
<1>2. \A from \in BarProviders :
         Failures(Append(log, a), KindOf[r.instrument], from)
            = Failures(log, KindOf[r.instrument], from)
  BY FailuresLogged
<1>3. "eastmoney" \in BarProviders
  BY DEF BarProviders
<1> QED BY <1>1, <1>2, <1>3 DEF Sound

LEMMA SoundAtFirst ==
    ASSUME NEW log \in Seq(Logged), NEW i \in Instruments, NEW from \in BarProviders,
           from = "sina" => Failures(log, KindOf[i], "eastmoney") # {}
    PROVE  LET a == Attempt(i, from, TRUE)
               r == [instrument |-> i, provider |-> from, call |-> Len(log) + 1]
           IN  a \in Logged /\ r \in Fetched /\ Sound(Append(log, a), r)
<1> DEFINE a == Attempt(i, from, TRUE)
           r == [instrument |-> i, provider |-> from, call |-> Len(log) + 1]
           k == KindOf[i]
<1>1. a \in Logged /\ a.ok
  BY DEF Attempt, Logged, BarProviders
<1> HIDE DEF a
<1>2. /\ Len(log) \in Nat /\ Len(log) + 1 \in DOMAIN Append(log, a)
      /\ Append(log, a)[Len(log) + 1] = a
  <2>1. /\ Len(log) \in Nat /\ DOMAIN Append(log, a) = 1 .. Len(log) + 1
        /\ Append(log, a)[Len(log) + 1] = a
    BY <1>1, AttemptLogged
  <2> QED BY <2>1
<1>3. r \in Fetched /\ r.instrument = i /\ r.provider = from /\ r.call = Len(log) + 1
  BY <1>2 DEF Fetched
<1> HIDE DEF r
<1>4. \A f \in BarProviders : /\ Failures(Append(log, a), k, f) = Failures(log, k, f)
                              /\ Failures(log, k, f) \subseteq 1 .. Len(log)
  BY <1>1, FailuresLogged
<1>5. \A f \in BarProviders : \A x \in Failures(Append(log, a), k, f) : x < Len(log) + 1
  BY <1>2, <1>4
<1>6. "eastmoney" \in BarProviders
  BY DEF BarProviders
<1>7. Append(log, a)[Len(log) + 1] = Attempt(i, from, TRUE)
  BY <1>2 DEF a
<1>8. Sound(Append(log, a), r)
  BY <1>2, <1>3, <1>4, <1>5, <1>6, <1>7 DEF Sound
<1> QED BY <1>1, <1>3, <1>8 DEF r, a

\* The property, of a said to a request and its log.
Vouched(log, asked, r) ==
    /\ log[r.call] = Attempt(r.instrument, r.provider, TRUE)
    /\ \A from \in BarProviders : \A c \in Failures(log, KindOf[r.instrument], from) : c < r.call
    /\ r.provider = "sina" /\ asked = "bars" => Failures(log, KindOf[r.instrument], "eastmoney") # {}
Given(log, asked, requested, given) ==
    /\ Len(given) = Len(requested)
    /\ \A i \in DOMAIN given : given[i].instrument = requested[i] /\ Vouched(log, asked, given[i])
    /\ \A i, j \in DOMAIN given :
          KindOf[requested[i]] = KindOf[requested[j]] => given[i].provider = given[j].provider
Refusal(log, said) ==
    /\ said = "source_group_failed" =>
          \E g \in ToSet(Groups) :
             Failures(log, g, "eastmoney") # {} /\ Failures(log, g, "sina") # {}
    /\ ~Last(log).ok

LEMMA ConsistentMeans ==
    /\ BatchesAreConsistent <=>
          /\ fetchReply = "returned" => Given(attempts, what, request, answer)
          /\ fetchReply \notin {"pending", "returned"} => Refusal(attempts, fetchReply)
    /\ BatchesAreConsistent' <=>
          /\ fetchReply' = "returned" => Given(attempts', what', request', answer')
          /\ fetchReply' \notin {"pending", "returned"} => Refusal(attempts', fetchReply')
<1>1. BatchesAreConsistent <=>
          /\ fetchReply = "returned" => Given(attempts, what, request, answer)
          /\ fetchReply \notin {"pending", "returned"} => Refusal(attempts, fetchReply)
  BY ZenonT(60) DEF BatchesAreConsistent, Backed, FailedAt, Given, Vouched, Refusal, Failures, BarProviders
<1>2. BatchesAreConsistent' <=>
          /\ fetchReply' = "returned" => Given(attempts', what', request', answer')
          /\ fetchReply' \notin {"pending", "returned"} => Refusal(attempts', fetchReply')
  BY ZenonT(60) DEF BatchesAreConsistent, Backed, FailedAt, Given, Vouched, Refusal, Failures, BarProviders
<1> QED BY <1>1, <1>2

-----------------------------------------------------------------------------
(* One lemma for each action *)

LEMMA FetchingFacts ==
    ASSUME FetchParameters, FetchInv, Fetching
    PROVE  /\ what = "bars" /\ fetchReply = "pending" /\ group \in {1, 2}
           /\ GroupGoesOn /\ GroupsDone
           /\ attempts \in Seq(Logged) /\ Len(attempts) \in Nat
           /\ provider \in BarProviders /\ request \in Seq(Instruments)
           /\ DOMAIN request \subseteq Nat /\ \A p \in DOMAIN request : request[p] \in Instruments
           /\ results \subseteq Fetched /\ bySymbol \subseteq Fetched
           /\ \A r \in Fetched : r.instrument \in Instruments
           /\ \A i \in Instruments : KindOf[i] \in {"etf", "stock"}
<1>1. /\ what = "bars" /\ fetchReply = "pending" /\ FetchTypeInv
  BY DEF Fetching, FetchInv
<1>2. group \in {1, 2}
  BY <1>1, GroupFacts DEF Fetching, FetchTypeInv
<1>3. /\ attempts \in Seq(Logged) /\ provider \in BarProviders /\ request \in Seq(Instruments)
      /\ results \subseteq Fetched /\ bySymbol \subseteq Fetched
  BY <1>1 DEF FetchTypeInv
<1>4. DOMAIN request \subseteq Nat /\ \A p \in DOMAIN request : request[p] \in Instruments
  BY <1>3
<1>5. \A r \in Fetched : r.instrument \in Instruments
  BY DEF Fetched
<1>6. Len(attempts) \in Nat
  BY <1>3
<1> QED BY <1>1, <1>2, <1>3, <1>4, <1>5, <1>6, KindFacts DEF FetchInv

\* The instrument called is one of the group, and has no result yet.
LEMMA CalledFacts ==
    ASSUME FetchParameters, FetchInv, Fetching, Members(group) # {}
    PROVE  Called \in Instruments /\ KindOf[Called] = Groups[group]
<1>1. Missing # {} /\ Missing \subseteq Members(group) /\ Members(group) \subseteq DOMAIN request
  BY FetchingFacts DEF GroupGoesOn, Missing, Members
<1>2. Missing \subseteq Nat
  BY <1>1, FetchingFacts
<1>3. Min(Missing) \in Members(group)
  BY <1>1, <1>2, FirstMissing
<1> QED BY <1>3, FetchingFacts DEF Called, Members

LEMMA PendingIsConsistent ==
    ASSUME fetchReply' = "pending"
    PROVE  BatchesAreConsistent'
BY DEF BatchesAreConsistent

LEMMA GroupStarts ==
    ASSUME results' = {}, provider' = "eastmoney"
    PROVE  GroupGoesOn'
BY DEF GroupGoesOn, Missing

LEMMA SkipEmptyGroupKeeps ==
    ASSUME FetchParameters, FetchInv, SkipEmptyGroup
    PROVE  FetchInv'
<1>1. /\ Fetching /\ Members(group) = {} /\ group' = group + 1
      /\ UNCHANGED <<what, request, provider, results, bySymbol, attempts, fetchReply, answer>>
  BY DEF SkipEmptyGroup
<1>2. /\ fetchReply = "pending" /\ group \in {1, 2} /\ GroupGoesOn /\ GroupsDone
      /\ bySymbol \subseteq Fetched /\ \A r \in Fetched : r.instrument \in Instruments
      /\ \A p \in DOMAIN request : request[p] \in Instruments
      /\ \A i \in Instruments : KindOf[i] \in {"etf", "stock"}
  BY <1>1, FetchingFacts
<1>3. results' = {} /\ provider' = "eastmoney"
  BY <1>1, <1>2 DEF GroupGoesOn
<1>4. FetchTypeInv'
  <2>1. group' \in 1 .. 3
    BY <1>1, <1>2
  <2> QED BY <1>1, <2>1 DEF FetchInv, FetchTypeInv
<1>5. GroupsDone'
  <2>1. \A r \in bySymbol : Sound(attempts, r) /\ GroupDone(KindOf[r.instrument], group + 1)
    BY <1>2, GroupFacts DEF GroupsDone
  <2>2. ASSUME NEW p \in DOMAIN request, GroupDone(KindOf[request[p]], group + 1)
        PROVE  \E r \in bySymbol : r.instrument = request[p]
    <3>1. KindOf[request[p]] # Groups[group]
      BY <1>1 DEF Members
    <3>2. GroupDone(KindOf[request[p]], group)
      BY <1>2, <2>2, <3>1, GroupFacts
    <3> QED BY <1>2, <3>2 DEF GroupsDone
  <2> QED BY <1>1, <1>2, <2>1, <2>2 DEF GroupsDone
<1> QED BY <1>1, <1>2, <1>3, <1>4, <1>5, GroupStarts, PendingIsConsistent DEF FetchInv

LEMMA CallSucceedsKeeps ==
    ASSUME FetchParameters, FetchInv, CallSucceeds
    PROVE  FetchInv'
<1> DEFINE a == Attempt(Called, provider, TRUE)
           last == \A p \in Missing : request[p] = Called
<1>1. /\ Fetching /\ Members(group) # {} /\ attempts' = Append(attempts, a)
      /\ what' = what /\ request' = request /\ fetchReply' = fetchReply /\ answer' = answer
      /\ \/ /\ ~last /\ results' = results \cup {Result}
            /\ group' = group /\ provider' = provider /\ bySymbol' = bySymbol
         \/ /\ last /\ bySymbol' = bySymbol \cup results \cup {Result}
            /\ group' = group + 1 /\ provider' = "eastmoney" /\ results' = {}
  BY DEF CallSucceeds
<1>2. /\ fetchReply = "pending" /\ group \in {1, 2} /\ GroupGoesOn /\ GroupsDone
      /\ attempts \in Seq(Logged) /\ provider \in BarProviders
      /\ results \subseteq Fetched /\ bySymbol \subseteq Fetched
      /\ \A r \in Fetched : r.instrument \in Instruments
      /\ \A p \in DOMAIN request : request[p] \in Instruments
      /\ \A i \in Instruments : KindOf[i] \in {"etf", "stock"}
  BY <1>1, FetchingFacts
<1>3. Called \in Instruments /\ KindOf[Called] = Groups[group]
  BY <1>1, CalledFacts
<1>4. /\ a \in Logged /\ a.ok /\ Result \in Fetched /\ Sound(attempts', Result)
      /\ Result.instrument = Called /\ Result.provider = provider
  <2>1. provider = "sina" => Failures(attempts, KindOf[Called], "eastmoney") # {}
    BY <1>2, <1>3 DEF GroupGoesOn
  <2>2. a \in Logged /\ Result \in Fetched /\ Sound(Append(attempts, a), Result)
    BY <1>2, <1>3, <2>1, SoundAtFirst DEF Result
  <2>3. a.ok /\ Result.instrument = Called /\ Result.provider = provider
    BY DEF Attempt, Result
  <2> QED BY <1>1, <2>2, <2>3
<1> HIDE DEF a, last
<1>5. /\ \A r \in results \cup bySymbol : Sound(attempts', r)
      /\ \A k : Failures(attempts, k, "eastmoney") \subseteq Failures(attempts', k, "eastmoney")
      /\ attempts' \in Seq(Logged)
  <2>1. \A r \in results \cup bySymbol : r \in Fetched /\ Sound(attempts, r)
    BY <1>2 DEF GroupGoesOn, GroupsDone
  <2> QED BY <1>1, <1>2, <1>4, <2>1, SoundStays, FailuresLogged, AttemptLogged
<1>6. CASE ~last
  <2>1. results' = results \cup {Result} /\ group' = group /\ provider' = provider /\ bySymbol' = bySymbol
    BY <1>1, <1>6
  <2>2. FetchTypeInv'
    BY <1>1, <1>4, <1>5, <2>1 DEF FetchInv, FetchTypeInv
  <2>3. GroupGoesOn'
    <3>1. \A r \in results' : /\ group <= 2 /\ KindOf[r.instrument] = Groups[group]
                              /\ r.provider = provider /\ Sound(attempts', r)
      BY <1>2, <1>3, <1>4, <1>5, <2>1 DEF GroupGoesOn
    <3>2. provider = "sina" => Failures(attempts', Groups[group], "eastmoney") # {}
      BY <1>2, <1>5 DEF GroupGoesOn
    <3>3. Members(group)' = Members(group)
      BY <1>1, <2>1 DEF Members
    <3>4. Missing' # {}
      <4>1. PICK p \in Missing : request[p] # Called
        BY <1>6 DEF last
      <4>2. p \in Members(group) /\ \A r \in results' : r.instrument # request[p]
        BY <1>4, <2>1, <4>1 DEF Missing
      <4> QED BY <1>1, <3>3, <4>2 DEF Missing
    <3> QED BY <1>1, <1>2, <2>1, <3>1, <3>2, <3>3, <3>4 DEF GroupGoesOn
  <2>4. GroupsDone'
    BY <1>1, <1>2, <1>5, <2>1 DEF GroupsDone
  <2> QED BY <1>1, <1>2, <2>2, <2>3, <2>4, PendingIsConsistent DEF FetchInv
<1>7. CASE last
  <2>1. /\ bySymbol' = bySymbol \cup results \cup {Result}
        /\ group' = group + 1 /\ provider' = "eastmoney" /\ results' = {}
    BY <1>1, <1>7
  <2>2. FetchTypeInv'
    <3>1. group' \in 1 .. 3 /\ provider' \in BarProviders
      BY <1>2, <2>1 DEF BarProviders
    <3>2. results' \subseteq Fetched /\ bySymbol' \subseteq Fetched
      BY <1>2, <1>4, <2>1
    <3> QED BY <1>1, <1>5, <3>1, <3>2 DEF FetchInv, FetchTypeInv
  <2> DEFINE new == results \cup {Result}
  <2>3. /\ \A r \in new : /\ KindOf[r.instrument] = Groups[group] /\ r.provider = provider
                          /\ Sound(attempts', r) /\ ~GroupDone(KindOf[r.instrument], group)
                          /\ GroupDone(KindOf[r.instrument], group + 1)
        /\ \A r \in bySymbol : /\ GroupDone(KindOf[r.instrument], group)
                               /\ GroupDone(KindOf[r.instrument], group + 1)
                               /\ Sound(attempts', r)
        /\ bySymbol' = bySymbol \cup new
    <3>1. \A r \in new : /\ KindOf[r.instrument] = Groups[group] /\ r.provider = provider
                         /\ Sound(attempts', r)
      BY <1>2, <1>3, <1>4, <1>5 DEF GroupGoesOn
    <3>2. ~GroupDone(Groups[group], group) /\ GroupDone(Groups[group], group + 1)
      BY <1>2, GroupFacts
    <3>3. \A r \in bySymbol : GroupDone(KindOf[r.instrument], group) /\ Sound(attempts', r)
      BY <1>2, <1>5 DEF GroupsDone
    <3>4. \A r \in bySymbol : GroupDone(KindOf[r.instrument], group + 1)
      BY <1>2, <3>3, GroupFacts
    <3>5. bySymbol' = bySymbol \cup new
      BY <2>1
    <3> HIDE DEF new
    <3> QED BY <3>1, <3>2, <3>3, <3>4, <3>5
  <2>4. ASSUME NEW p \in DOMAIN request, GroupDone(KindOf[request[p]], group + 1)
        PROVE  \E r \in bySymbol \cup new : r.instrument = request[p]
    <3>1. CASE GroupDone(KindOf[request[p]], group)
      BY <1>2, <3>1 DEF GroupsDone
    <3>2. CASE ~GroupDone(KindOf[request[p]], group)
      <4>1. KindOf[request[p]] = Groups[group]
        BY <1>2, <2>4, <3>2, GroupFacts
      <4>2. p \in Members(group)
        BY <4>1 DEF Members
      <4>3. CASE p \in Missing
        BY <1>4, <1>7, <4>3 DEF last
      <4>4. CASE p \notin Missing
        BY <4>2, <4>4 DEF Missing
      <4> QED BY <4>3, <4>4
    <3> QED BY <3>1, <3>2
  <2> HIDE DEF new
  <2>5. ASSUME NEW q \in bySymbol', NEW r \in bySymbol',
               KindOf[q.instrument] = KindOf[r.instrument]
        PROVE  q.provider = r.provider
    <3>1. CASE q \in bySymbol /\ r \in bySymbol
      BY <1>2, <2>5, <3>1 DEF GroupsDone
    <3>2. CASE q \in new /\ r \in new
      BY <2>3, <3>2
    <3>3. (q \in bySymbol /\ r \in bySymbol) \/ (q \in new /\ r \in new)
      BY <2>3, <2>5
    <3> QED BY <3>1, <3>2, <3>3
  <2>6. GroupsDone'
    <3>1. \A r \in bySymbol' : Sound(attempts', r) /\ GroupDone(KindOf[r.instrument], group')
      BY <2>1, <2>3
    <3>2. \A p \in DOMAIN request' : GroupDone(KindOf[request'[p]], group') =>
             \E r \in bySymbol' : r.instrument = request'[p]
      BY <1>1, <2>1, <2>3, <2>4
    <3> QED BY <2>5, <3>1, <3>2 DEF GroupsDone
  <2> QED BY <1>1, <1>2, <2>1, <2>2, <2>6, GroupStarts, PendingIsConsistent DEF FetchInv
<1> QED BY <1>6, <1>7

LEMMA CallFailsKeeps ==
    ASSUME FetchParameters, FetchInv, CallFails
    PROVE  FetchInv'
<1> DEFINE a == Attempt(Called, provider, FALSE)
<1>1. /\ Fetching /\ Members(group) # {} /\ attempts' = Append(attempts, a) /\ results' = {}
      /\ what' = what /\ request' = request /\ group' = group /\ bySymbol' = bySymbol
      /\ answer' = answer
      /\ \/ provider = "eastmoney" /\ provider' = "sina" /\ fetchReply' = fetchReply
         \/ provider = "sina" /\ fetchReply' = "source_group_failed" /\ provider' = provider
  BY DEF CallFails
<1>2. /\ what = "bars" /\ fetchReply = "pending" /\ group \in {1, 2}
      /\ GroupGoesOn /\ GroupsDone
      /\ attempts \in Seq(Logged) /\ provider \in BarProviders
      /\ bySymbol \subseteq Fetched /\ \A r \in Fetched : r.instrument \in Instruments
  BY <1>1, FetchingFacts
<1>3. Called \in Instruments /\ KindOf[Called] = Groups[group]
  BY <1>1, CalledFacts
<1>4. /\ a \in Logged /\ ~a.ok /\ a.instrument = Called /\ a.provider = provider
  BY <1>2, <1>3 DEF Attempt, Logged, BarProviders
<1> HIDE DEF a
<1>5. /\ attempts' \in Seq(Logged) /\ Last(attempts') = a
      /\ \A k, from : Failures(attempts, k, from) \subseteq Failures(attempts', k, from)
      /\ Failures(attempts', Groups[group], provider) # {}
  BY <1>1, <1>2, <1>3, <1>4, AttemptLogged, FailuresLogged
<1>6. FetchTypeInv'
  <2>1. provider' \in BarProviders
    BY <1>1, <1>2 DEF BarProviders
  <2> QED BY <1>1, <1>5, <2>1 DEF FetchInv, FetchTypeInv
<1>7. GroupsDone'
  <2>1. ASSUME NEW r \in bySymbol PROVE Sound(attempts', r)
    <3>1. KindOf[r.instrument] # Groups[group]
      <4>1. GroupDone(KindOf[r.instrument], group) /\ ~GroupDone(Groups[group], group)
        BY <1>2, GroupFacts DEF GroupsDone
      <4> QED BY <4>1
    <3>2. r \in Fetched /\ Sound(attempts, r)
      BY <1>2 DEF GroupsDone
    <3> QED BY <1>1, <1>2, <1>3, <1>4, <3>1, <3>2, SoundStays
  <2> QED BY <1>1, <1>2, <2>1 DEF GroupsDone
<1>8. CASE provider = "eastmoney"
  <2>1. provider' = "sina" /\ fetchReply' = "pending"
    BY <1>1, <1>2, <1>8
  <2>2. Members(group)' = Members(group) /\ Missing' = Members(group)
    BY <1>1 DEF Members, Missing
  <2>3. GroupGoesOn'
    BY <1>1, <1>2, <1>5, <1>8, <2>1, <2>2 DEF GroupGoesOn
  <2> QED BY <1>6, <1>7, <2>1, <2>3, PendingIsConsistent DEF FetchInv
<1>9. CASE provider = "sina"
  <2>1. fetchReply' = "source_group_failed"
    BY <1>1, <1>9
  <2>2. /\ Failures(attempts', Groups[group], "eastmoney") # {}
        /\ Failures(attempts', Groups[group], "sina") # {}
    BY <1>2, <1>5, <1>9 DEF GroupGoesOn
  <2>3. Groups[group] \in ToSet(Groups)
    BY <1>2, GroupFacts DEF ToSet, Groups
  <2>4. BatchesAreConsistent'
    BY <1>4, <1>5, <2>1, <2>2, <2>3, ConsistentMeans DEF Refusal
  <2> QED BY <1>6, <2>1, <2>4 DEF FetchInv
<1> QED BY <1>1, <1>8, <1>9

LEMMA ReturnKeeps ==
    ASSUME FetchParameters, FetchInv, Return
    PROVE  FetchInv'
<1>1. /\ what = "bars" /\ fetchReply = "pending" /\ group > 2 /\ fetchReply' = "returned"
      /\ answer' = [p \in DOMAIN request |-> CHOOSE r \in bySymbol : r.instrument = request[p]]
      /\ UNCHANGED <<what, request, group, provider, results, bySymbol, attempts>>
  BY GroupFacts DEF Return
<1>2. /\ GroupsDone /\ group = 3 /\ request \in Seq(Instruments)
  BY <1>1 DEF FetchInv, FetchTypeInv
<1>3. ASSUME NEW p \in DOMAIN request
      PROVE  answer'[p] \in bySymbol /\ answer'[p].instrument = request[p]
  <2>1. KindOf[request[p]] \in {"etf", "stock"}
    <3>1. request[p] \in Instruments
      BY <1>2
    <3> QED BY <3>1, KindFacts
  <2>2. GroupDone(KindOf[request[p]], group)
    BY <1>2, <2>1, GroupFacts
  <2>3. \E r \in bySymbol : r.instrument = request[p]
    BY <1>2, <2>2 DEF GroupsDone
  <2> QED BY <1>1, <2>3
<1>4. DOMAIN answer' = DOMAIN request /\ Len(answer') = Len(request)
  <2>1. DOMAIN answer' = DOMAIN request
    BY <1>1
  <2>2. Len(request) \in Nat /\ DOMAIN request = 1 .. Len(request)
    BY <1>2
  <2> QED BY <2>1, <2>2
<1>5. \A r \in bySymbol : Vouched(attempts, what, r)
  BY <1>2 DEF GroupsDone, Sound, Vouched
<1>6. \A i, j \in DOMAIN request :
         KindOf[request[i]] = KindOf[request[j]] => answer'[i].provider = answer'[j].provider
  BY <1>2, <1>3 DEF GroupsDone
<1>7. BatchesAreConsistent'
  <2>1. Given(attempts, what, request, answer')
    BY <1>3, <1>4, <1>5, <1>6 DEF Given
  <2> QED BY <1>1, <2>1, ConsistentMeans
<1>8. FetchTypeInv'
  BY <1>1 DEF FetchInv, FetchTypeInv
<1> QED BY <1>1, <1>7, <1>8 DEF FetchInv

LEMMA OneAsked ==
    ASSUME FetchInv, what = "actions"
    PROVE  /\ request \in Seq(Instruments) /\ Len(request) = 1 /\ request[1] \in Instruments
           /\ DOMAIN request = {1}
<1>1. request \in Seq(Instruments) /\ Len(request) = 1
  BY DEF FetchInv, FetchTypeInv
<1> QED BY <1>1

LEMMA FetchActionsKeeps ==
    ASSUME FetchParameters, FetchInv, FetchActions
    PROVE  FetchInv'
<1> DEFINE i == request[1]
           bad == Attempt(i, ActionsFrom, FALSE)
           good == Attempt(i, ActionsFrom, TRUE)
           r == [instrument |-> i, provider |-> ActionsFrom, call |-> 1]
<1>1. /\ what = "actions" /\ fetchReply = "pending"
      /\ UNCHANGED <<what, request, group, provider, results, bySymbol>>
      /\ \/ attempts' = <<bad>> /\ fetchReply' = "corporate_action_source_failed"
         \/ attempts' = <<good, bad>> /\ fetchReply' = "corporate_action_source_failed"
         \/ attempts' = <<good>> /\ fetchReply' = "returned" /\ answer' = <<r>>
  BY DEF FetchActions
<1>2. request \in Seq(Instruments) /\ Len(request) = 1 /\ i \in Instruments
  BY <1>1, OneAsked
<1>3. ActionsFrom \in {"cninfo", "sina"}
  BY DEF ActionsFrom
<1>4. bad \in Logged /\ good \in Logged /\ ~bad.ok /\ good.ok
  BY <1>2, <1>3 DEF Attempt, Logged
<1>5. r.instrument = i /\ r.provider = ActionsFrom /\ r.call = 1
  OBVIOUS
<1>6. good = Attempt(r.instrument, r.provider, TRUE)
  BY <1>5
<1> HIDE DEF i, bad, good, r
<1>7. FetchTypeInv'
  <2>1. <<bad>> \in Seq(Logged) /\ <<good, bad>> \in Seq(Logged) /\ <<good>> \in Seq(Logged)
    BY <1>4
  <2>2. attempts' \in Seq(Logged)
    BY <1>1, <2>1
  <2> QED BY <1>1, <2>2 DEF FetchInv, FetchTypeInv
<1>8. CASE fetchReply' = "corporate_action_source_failed"
  <2>1. Last(attempts') = bad
    <3>1. Last(<<bad>>) = bad /\ Last(<<good, bad>>) = bad
      BY DEF Last
    <3> QED BY <1>1, <1>8, <3>1
  <2>2. BatchesAreConsistent'
    BY <1>4, <1>8, <2>1, ConsistentMeans DEF Refusal
  <2> QED BY <1>1, <1>7, <2>2 DEF FetchInv
<1>9. CASE attempts' = <<good>> /\ fetchReply' = "returned" /\ answer' = <<r>>
  <2>1. /\ Len(answer') = 1 /\ DOMAIN answer' = {1} /\ answer'[1] = r
        /\ DOMAIN attempts' = {1} /\ attempts'[1] = good
    BY <1>9
  <2>2. \A k, from : Failures(attempts', k, from) = {}
    BY <1>4, <2>1 DEF Failures
  <2>3. Vouched(attempts', what', r)
    <3>1. attempts'[r.call] = Attempt(r.instrument, r.provider, TRUE)
      BY <1>5, <1>6, <2>1
    <3>2. what' # "bars"
      BY <1>1
    <3> QED BY <2>2, <3>1, <3>2 DEF Vouched
  <2>4. BatchesAreConsistent'
    <3>1. r.instrument = request'[1] /\ Len(request') = 1
      BY <1>1, <1>2, <1>5 DEF i
    <3>2. Given(attempts', what', request', answer')
      BY <2>1, <2>3, <3>1 DEF Given
    <3> QED BY <1>9, <3>2, ConsistentMeans
  <2> QED BY <1>1, <1>7, <2>4 DEF FetchInv
<1> QED BY <1>1, <1>8, <1>9

-----------------------------------------------------------------------------
(* Every behaviour of the client *)

LEMMA FetchInitInv ==
    ASSUME FetchParameters, FetchInit
    PROVE  FetchInv
<1>1. /\ what \in {"bars", "actions"}
      /\ what = "actions" => Len(request) = 1
      /\ group = 1 /\ provider = "eastmoney" /\ results = {} /\ bySymbol = {}
      /\ attempts = <<>> /\ fetchReply = "pending"
  BY DEF FetchInit
<1>2. request \in Seq(Instruments)
  <2>1. Cardinality(Instruments) \in Nat
    BY FS_CardinalityType DEF FetchParameters
  <2>2. PICK n \in 0 .. Cardinality(Instruments) : request \in [1 .. n -> Instruments]
    BY DEF FetchInit, SeqOf
  <2>3. n \in Nat
    BY <2>1, <2>2
  <2> QED BY <2>2, <2>3
<1>3. FetchTypeInv
  BY <1>1, <1>2 DEF FetchTypeInv, BarProviders
<1>4. GroupGoesOn
  BY <1>1 DEF GroupGoesOn, Missing
<1>5. GroupsDone
  BY <1>1 DEF GroupsDone, GroupDone
<1>6. BatchesAreConsistent
  BY <1>1 DEF BatchesAreConsistent
<1> QED BY <1>3, <1>4, <1>5, <1>6 DEF FetchInv

LEMMA FetchNextInv ==
    ASSUME FetchParameters, FetchInv, [FetchNext]_fetchVars
    PROVE  FetchInv'
<1>1. CASE FetchNext
  BY <1>1, SkipEmptyGroupKeeps, CallSucceedsKeeps, CallFailsKeeps, ReturnKeeps,
     FetchActionsKeeps DEF FetchNext
<1>2. CASE UNCHANGED fetchVars
  <2>1. UNCHANGED <<what, request, group, provider, results, bySymbol, attempts, fetchReply,
                    answer>>
    BY <1>2 DEF fetchVars
  <2>2. FetchTypeInv'
    BY <2>1 DEF FetchInv, FetchTypeInv
  <2>3. GroupGoesOn => GroupGoesOn'
    BY <2>1 DEF GroupGoesOn, Missing, Members
  <2>4. GroupsDone => GroupsDone'
    BY <2>1 DEF GroupsDone
  <2>5. BatchesAreConsistent'
    BY <2>1, ConsistentMeans DEF FetchInv
  <2> QED BY <2>1, <2>2, <2>3, <2>4, <2>5 DEF FetchInv
<1> QED BY <1>1, <1>2

\* AkshareClient.fetch_batch and fetch_corporate_actions: a batch that is returned
\* holds each instrument asked for, in order, each group from one provider, from
\* calls after the group's last failure; one that is refused shows why.
THEOREM BatchesStayConsistent ==
    ASSUME FetchParameters
    PROVE  FetchSpec => []BatchesAreConsistent
<1>1. FetchInit => FetchInv
  BY FetchInitInv
<1>2. FetchInv /\ [FetchNext]_fetchVars => FetchInv'
  BY FetchNextInv
<1>3. FetchInv => BatchesAreConsistent
  BY DEF FetchInv
<1> QED BY <1>1, <1>2, <1>3, PTL DEF FetchSpec

=============================================================================
