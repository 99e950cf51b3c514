----------------------------- MODULE GateEProofs -----------------------------
(***************************************************************************)
(* Proof, for any number of mishaps and commits, that what Gate E reports  *)
(* is true: EvidenceAlwaysTrue and ReplaysAreApproved.                     *)
(*                                                                         *)
(* The invariant (Inv) rests on one idea: no object ever comes back.  What *)
(* replaces an object has a number of its own, so a guard that finds the   *)
(* object it remembers knows that nothing happened in between, although it *)
(* looked at two moments only.  Hence what is known of a run is mostly     *)
(* conditional: IF the runtime is still the one of the guard, THEN the     *)
(* workspace was made by it alone (Working).  The audit makes the          *)
(* condition true, the evidence states the rest, and what it is about      *)
(* cannot change once it is there (EvidenceStands).  About the replay the  *)
(* invariant says, stage by stage, which parts of the approval are already *)
(* known to hold (Replaying): commits are only added, so they keep         *)
(* holding.                                                                *)
(***************************************************************************)
EXTENDS GateE, SequenceTheorems, TLAPS

Early == {"idle", "closure", "trust A", "roots", "wheel", "guard layout", "layout"}
Laid == {"guard install", "install"}
Installed == {"guard inputs", "set aside", "copy", "verify inputs"}
Filled == {"guard run", "run"}
Ran == {"recheck run", "guard reverse", "reverse", "recheck reverse", "audit"}
Reported == {"guard result", "finished"}
Over == {"cleanup", "returned"}
Guarded == {"roots", "wheel", "guard layout", "layout"} \cup Laid \cup Installed \cup Filled
           \cup Ran \cup {"evidence"} \cup Reported
Places == {"idle", "closure", "trust A"} \cup Guarded \cup Over
Results == {"none", "ok", "failed", "crashed"}

Trusts == [commit : Nat, runtime : Contents, sealed : Contents, artifact : Artifacts,
           review : Evidences]
Approvals == [anchor : Nat, trust : Trusts, review : Evidences \cup {Absent}]
Files == [trust : Trusts \cup {Absent}, review : Evidences \cup {Absent},
          approval : Approvals \cup {Absent}]
Runs == [pc : Places, result : Results, commit : Nat, runtime : Things \cup {Absent},
         python : Things \cup {Absent}, sealed : Contents \cup {Absent},
         tree : Things \cup {Absent}, inputs : Things \cup {Absent},
         anchor : Nat, approval : Nat, trust : Trusts \cup {Absent},
         review : Evidences \cup {Absent}, before : Workspaces \cup {Absent}]

TypeInv ==
    /\ world \in [Objects -> Things]
    /\ repo \in [commits : Seq(Files), work : Files]
    /\ space \in [Candidates -> Workspaces \cup {Absent}]
    /\ run \in [Candidates -> Runs]
    /\ mishaps \in Nat
    /\ tempRoot \in BOOLEAN

\* What evidence is about is as it says.
Truth(c) ==
    LET e == space[c].evidence IN
    /\ e.artifact = space[c].artifact
    /\ e.artifact.code = e.sealed /\ e.packages = Version(e.sealed)
    /\ e.artifact.runtimes = {e.runtime}
    /\ e.artifact.inputs = 0

\* The runtime is the one the run began with.
Steady(c) == world["runtime"] = run[c].runtime

\* What a run has done so far was done by the objects it will compare.
Working(c) ==
    /\ run[c].pc \in Early => space[c] = Absent
    /\ run[c].pc \notin Early \cup Over => space[c] \in Workspaces
    /\ run[c].pc \in Guarded =>
          run[c].runtime \in Things /\ run[c].runtime.id <= mishaps
    /\ run[c].pc \in Laid \cup Installed \cup Filled /\ Steady(c) =>
          space[c].madeBy = {run[c].runtime.content}
    /\ run[c].pc \in Installed \cup Filled \cup Ran \cup {"evidence"} =>
          /\ run[c].tree = [content |-> run[c].sealed, id |-> 0]
          /\ run[c].sealed \in Contents /\ space[c].venv \in Things
    /\ run[c].pc \in {"verify inputs"} \cup Filled \cup Ran => space[c].inputs \in Things
    /\ run[c].pc \in Ran \cup {"evidence"} => space[c].artifact \in Artifacts
    /\ run[c].pc \in Ran =>
          /\ Steady(c) => space[c].artifact.runtimes = {run[c].runtime.content}
          /\ space[c].venv = run[c].tree => space[c].artifact.code = run[c].sealed
    /\ run[c].pc = "evidence" =>
          /\ space[c].artifact.runtimes = {run[c].runtime.content}
          /\ space[c].artifact.code = run[c].sealed
          /\ space[c].artifact.inputs = 0
    /\ HasEvidence(c) => run[c].pc \in Reported \cup Over
    /\ HasEvidence(c) \/ run[c].pc \in Reported => Truth(c)

\* B got past the closure, past the trust of A, or to the end, and has not failed.
Verified == run["B"].pc \in Over /\ run["B"].result = "ok"
Closed == run["B"].pc \in {"trust A"} \cup Guarded \/ Verified
Trusted == run["B"].pc \in Guarded \/ Verified

\* What a replay relies on, as far as it got.
Begun ==
    run["B"].pc = "closure" \/ Closed =>
        /\ run["B"].anchor \in 1 .. HeadCommit /\ run["B"].approval \in 1 .. HeadCommit
        /\ run["B"].before \in Workspaces /\ HasEvidence("A")
        /\ space["A"].evidence = run["B"].before.evidence
Approved ==
    Closed =>
        LET anchored == repo.commits[run["B"].anchor]
            approval == repo.commits[run["B"].approval].approval
        IN
        /\ run["B"].anchor < run["B"].approval /\ approval # Absent
        /\ approval.anchor = run["B"].anchor /\ approval.trust = anchored.trust
        /\ approval.review = anchored.review
        /\ run["B"].trust = anchored.trust /\ run["B"].review = anchored.review
Matched ==
    /\ Trusted =>
          /\ run["B"].review = run["B"].before.evidence
          /\ TrustOf(space["A"].evidence, run["B"].review) = run["B"].trust
    /\ Verified =>
          /\ TrustOf(space["B"].evidence, run["B"].review) = run["B"].trust
          /\ Truth("B")
          /\ run["B"].pc = "returned" => ~tempRoot
Replaying == Begun /\ Approved /\ Matched

\* Numbers are given out in order.
Numbered == \A x \in Objects : world[x].id <= mishaps

Inv == TypeInv /\ Numbered /\ Replaying /\ \A c \in Candidates : Working(c)

-----------------------------------------------------------------------------
(* What the pieces of a step do *)

LEMMA PlacesAreDistinct ==
    /\ Early \subseteq Places /\ Over \subseteq Places /\ Guarded \subseteq Places
    /\ "A" \in Candidates /\ "B" \in Candidates /\ "runtime" \in Objects
    /\ "sealed" \in Objects /\ "release" \in Objects
BY DEF Early, Over, Guarded, Places, Laid, Installed, Filled, Ran, Reported, Candidates, Objects

\* The fields of a run other than where it is.
SameMemory(r, s) ==
    /\ r.commit = s.commit /\ r.runtime = s.runtime /\ r.python = s.python
    /\ r.sealed = s.sealed /\ r.tree = s.tree /\ r.inputs = s.inputs
    /\ r.anchor = s.anchor /\ r.approval = s.approval /\ r.trust = s.trust
    /\ r.review = s.review /\ r.before = s.before

LEMMA PlacedRun ==
    ASSUME NEW r \in Runs, NEW pc \in Places
    PROVE  /\ [r EXCEPT !.pc = pc] \in Runs
           /\ [r EXCEPT !.pc = pc].pc = pc /\ [r EXCEPT !.pc = pc].result = r.result
           /\ SameMemory([r EXCEPT !.pc = pc], r)
BY DEF Runs, SameMemory

LEMMA Moved ==
    ASSUME TypeInv, NEW c \in Candidates, NEW r \in Runs, run' = [run EXCEPT ![c] = r]
    PROVE  /\ run' \in [Candidates -> Runs] /\ run'[c] = r
           /\ \A d \in Candidates \ {c} : run'[d] = run[d]
BY DEF TypeInv

LEMMA WentTo ==
    ASSUME TypeInv, NEW c \in Candidates, NEW pc \in Places, Goto(c, pc)
    PROVE  /\ run' \in [Candidates -> Runs]
           /\ run'[c].pc = pc /\ run'[c].result = run[c].result
           /\ SameMemory(run'[c], run[c])
           /\ \A d \in Candidates \ {c} : run'[d] = run[d]
<1> DEFINE r == [run[c] EXCEPT !.pc = pc]
<1>1. run[c] \in Runs /\ "none" \in Results
  BY DEF TypeInv, Results
<1>2. r \in Runs /\ r.pc = pc /\ r.result = run[c].result /\ SameMemory(r, run[c])
  BY <1>1, PlacedRun
<1>3. run' = [run EXCEPT ![c] = r]
  BY DEF Goto
<1> HIDE DEF r
<1> QED BY <1>2, <1>3, Moved

LEMMA EndedAs ==
    ASSUME TypeInv, NEW c \in Candidates, NEW pc \in Places, NEW result \in Results,
           run' = [run EXCEPT ![c].pc = pc, ![c].result = result]
    PROVE  /\ run' \in [Candidates -> Runs]
           /\ run'[c].pc = pc /\ run'[c].result = result
           /\ SameMemory(run'[c], run[c])
           /\ \A d \in Candidates \ {c} : run'[d] = run[d]
<1> DEFINE r == [run[c] EXCEPT !.pc = pc, !.result = result]
<1>1. run[c] \in Runs
  BY DEF TypeInv
<1>2. r \in Runs /\ r.pc = pc /\ r.result = result /\ SameMemory(r, run[c])
  BY <1>1 DEF Runs, SameMemory
<1>3. run' = [run EXCEPT ![c] = r]
  OBVIOUS
<1> HIDE DEF r
<1> QED BY <1>2, <1>3, Moved

LEMMA Failed ==
    ASSUME TypeInv, NEW c \in Candidates, Fail(c)
    PROVE  /\ run' \in [Candidates -> Runs]
           /\ run'[c].pc \in Over /\ run'[c].result = "failed"
           /\ SameMemory(run'[c], run[c])
           /\ \A d \in Candidates \ {c} : run'[d] = run[d]
<1>1. "failed" \in Results /\ "returned" \in Places /\ "cleanup" \in Places
      /\ "returned" \in Over /\ "cleanup" \in Over
  BY DEF Results, Over, Places
<1>2. CASE c = "A"
  <2>1. run' = [run EXCEPT ![c].pc = "returned", ![c].result = "failed"]
    BY <1>2 DEF Fail
  <2> QED BY <1>1, <2>1, EndedAs
<1>3. CASE c # "A"
  <2>1. run' = [run EXCEPT ![c].pc = "cleanup", ![c].result = "failed"]
    BY <1>3 DEF Fail
  <2> QED BY <1>1, <2>1, EndedAs
<1> QED BY <1>2, <1>3

LEMMA Updated ==
    ASSUME TypeInv, NEW c \in Candidates, NEW s \in Workspaces, space' = [space EXCEPT ![c] = s]
    PROVE  /\ space' \in [Candidates -> Workspaces \cup {Absent}] /\ space'[c] = s
           /\ \A d \in Candidates \ {c} : space'[d] = space[d]
BY DEF TypeInv

LEMMA PlacesAreApart ==
    /\ \A pc \in Over : pc \notin Guarded /\ pc \notin {"closure", "trust A"}
    /\ "trust A" \notin Guarded /\ "closure" \notin Guarded /\ "idle" \notin Guarded
BY DEF Over, Guarded, Laid, Installed, Filled, Ran, Reported

-----------------------------------------------------------------------------
(* A candidate's own step *)

\* The other candidate, if what it looks at is as before.
LEMMA OthersStay ==
    ASSUME Inv, NEW d \in Candidates, run'[d] = run[d], space'[d] = space[d],
           world'["runtime"] = world["runtime"], mishaps' \in Nat, mishaps' >= mishaps
    PROVE  Working(d)'
<1>1. Working(d) /\ mishaps \in Nat
  BY DEF Inv, TypeInv
<1>2. run[d].runtime \in Things /\ run[d].runtime.id <= mishaps =>
          run[d].runtime \in Things /\ run[d].runtime.id <= mishaps'
  BY <1>1 DEF Things
<1> QED BY <1>1, <1>2 DEF Working, Steady, HasEvidence, Truth

\* What evidence is about cannot change once it is there.
EvidenceStands(c) ==
    /\ HasEvidence(c) => HasEvidence(c)'
    /\ HasEvidence(c) \/ run[c].pc \in Over =>
          space'[c].evidence = space[c].evidence /\ space'[c].artifact = space[c].artifact

\* A step of c: it goes on, it ends without success, or stays where it was.
Continues(c) ==
    /\ UNCHANGED <<repo, tempRoot>>
    /\ \A d \in Candidates \ {c} : run'[d] = run[d] /\ space'[d] = space[d]
    /\ run'[c].anchor = run[c].anchor /\ run'[c].approval = run[c].approval
    /\ run'[c].trust = run[c].trust /\ run'[c].review = run[c].review
    /\ run'[c].before = run[c].before
    /\ \/ run[c].pc \in Guarded /\ run'[c].pc \in Guarded
       \/ run'[c].pc \in Over /\ run'[c].result \in {"failed", "crashed"}
       \/ run'[c].pc = run[c].pc /\ run'[c].result = run[c].result
    /\ EvidenceStands(c)

LEMMA ReplayContinues ==
    ASSUME Inv, NEW c \in Candidates, Continues(c)
    PROVE  Replaying'
<1>1. /\ Closed' => Closed
      /\ run'["B"].pc = "closure" => run["B"].pc = "closure"
      /\ Trusted' => Trusted
      /\ Verified' => Verified /\ run'["B"].pc = run["B"].pc
  <2>1. CASE c = "A"
    <3>1. run'["B"] = run["B"]
      BY <2>1 DEF Continues, Candidates
    <3> QED BY <3>1 DEF Closed, Trusted, Verified
  <2>2. CASE c = "B"
    <3>1. CASE run["B"].pc \in Guarded /\ run'["B"].pc \in Guarded
      BY <3>1, PlacesAreApart DEF Closed, Trusted, Verified
    <3>2. CASE run'["B"].pc \in Over /\ run'["B"].result \in {"failed", "crashed"}
      BY <3>2, PlacesAreApart DEF Closed, Trusted, Verified
    <3>3. CASE run'["B"].pc = run["B"].pc /\ run'["B"].result = run["B"].result
      BY <3>3 DEF Closed, Trusted, Verified
    <3> QED BY <2>2, <3>1, <3>2, <3>3 DEF Continues
  <2> QED BY <2>1, <2>2 DEF Candidates
<1>2. /\ run'["B"].anchor = run["B"].anchor /\ run'["B"].approval = run["B"].approval
      /\ run'["B"].trust = run["B"].trust /\ run'["B"].review = run["B"].review
      /\ run'["B"].before = run["B"].before
      /\ repo' = repo /\ tempRoot' = tempRoot
  BY DEF Continues, Candidates
<1>3. HasEvidence("A") => HasEvidence("A")' /\ space'["A"].evidence = space["A"].evidence
  BY DEF Continues, Candidates, EvidenceStands, HasEvidence
<1>4. run["B"].pc \in Over =>
          /\ space'["B"].evidence = space["B"].evidence
          /\ space'["B"].artifact = space["B"].artifact
  BY DEF Continues, Candidates, EvidenceStands
<1>5. Begun'
  BY <1>1, <1>2, <1>3 DEF Inv, Replaying, Begun, HeadCommit
<1>6. Approved'
  BY <1>1, <1>2 DEF Inv, Replaying, Approved
<1>7. Matched'
  <2>1. Closed \/ run["B"].pc = "closure" => HasEvidence("A")
    BY DEF Inv, Replaying, Begun
  <2>2. Trusted => Closed
    BY DEF Trusted, Closed
  <2> QED BY <1>1, <1>2, <1>3, <1>4, <2>1, <2>2
          DEF Inv, Replaying, Matched, TrustOf, Truth, Verified
<1> QED BY <1>5, <1>6, <1>7 DEF Replaying

LEMMA CandidateSteps ==
    ASSUME Inv, NEW c \in Candidates, Continues(c), world' = world,
           run' \in [Candidates -> Runs], space' \in [Candidates -> Workspaces \cup {Absent}],
           mishaps' \in Nat, mishaps' >= mishaps, Working(c)'
    PROVE  Inv'
<1>1. TypeInv'
  BY DEF Inv, TypeInv, Continues
<1>2. Numbered'
  BY DEF Inv, Numbered, TypeInv, Things
<1>3. ASSUME NEW d \in Candidates PROVE Working(d)'
  <2>1. CASE d = c
    BY <2>1
  <2>2. CASE d # c
    BY <2>2, OthersStay DEF Continues
  <2> QED BY <2>1, <2>2
<1> QED BY <1>1, <1>2, <1>3, ReplayContinues DEF Inv

\* A step that goes on and leaves the workspace alone.
LEMMA GoesOn ==
    ASSUME Inv, NEW c \in Candidates, run[c].pc \in Guarded, run'[c].pc \in Guarded,
           run' \in [Candidates -> Runs], \A d \in Candidates \ {c} : run'[d] = run[d],
           run'[c].anchor = run[c].anchor, run'[c].approval = run[c].approval,
           run'[c].trust = run[c].trust, run'[c].review = run[c].review,
           run'[c].before = run[c].before,
           space' = space, Outside, UNCHANGED tempRoot, Working(c)'
    PROVE  Inv'
<1>1. Continues(c)
  BY DEF Continues, EvidenceStands, Outside, HasEvidence
<1>2. space' \in [Candidates -> Workspaces \cup {Absent}] /\ mishaps' \in Nat
      /\ mishaps' >= mishaps /\ world' = world
  BY DEF Inv, TypeInv, Outside
<1> QED BY <1>1, <1>2, CandidateSteps

\* A run that ends without success has nothing to keep but what its evidence says.
LEMMA EndsBadly ==
    ASSUME Inv, NEW c \in Candidates, run'[c].pc \in Over,
           run'[c].result \in {"failed", "crashed"}, SameMemory(run'[c], run[c]),
           run' \in [Candidates -> Runs], \A d \in Candidates \ {c} : run'[d] = run[d],
           space' \in [Candidates -> Workspaces \cup {Absent}],
           \A d \in Candidates \ {c} : space'[d] = space[d],
           EvidenceStands(c), HasEvidence(c)' => HasEvidence(c),
           UNCHANGED <<world, repo, tempRoot>>, mishaps' \in Nat, mishaps' >= mishaps
    PROVE  Inv'
<1>1. Continues(c)
  BY DEF Continues, SameMemory
<1>2. Working(c)'
  <2>1. run'[c].pc \notin Early \cup Laid \cup Installed \cup Filled \cup Ran \cup Reported
        /\ run'[c].pc # "evidence" /\ run'[c].pc \notin Guarded
        /\ run'[c].pc # "verify inputs"
    BY DEF Over, Early, Guarded, Laid, Installed, Filled, Ran, Reported
  <2>2. HasEvidence(c)' => Truth(c)'
    BY ZenonT(60) DEF Inv, Working, EvidenceStands, Truth
  <2> QED BY <2>1, <2>2 DEF Working
<1> QED BY <1>1, <1>2, CandidateSteps

LEMMA FailsQuietly ==
    ASSUME Inv, NEW c \in Candidates, Fail(c), space' = space, Outside, UNCHANGED tempRoot
    PROVE  Inv'
<1>1. EvidenceStands(c) /\ (HasEvidence(c)' => HasEvidence(c))
  BY DEF EvidenceStands, HasEvidence
<1>2. TypeInv /\ space \in [Candidates -> Workspaces \cup {Absent}] /\ mishaps \in Nat
  BY DEF Inv, TypeInv
<1> QED BY <1>1, <1>2, Failed, EndsBadly DEF Outside

-----------------------------------------------------------------------------
(* Stages 1 to 3 *)

\* Where a candidate is, among the stages told apart by Working.
LEMMA Stages ==
    /\ "roots" \in Guarded \cap Early /\ "wheel" \in Guarded \cap Early
    /\ "guard layout" \in Guarded \cap Early /\ "layout" \in Guarded \cap Early
    /\ "guard install" \in Guarded \cap Laid /\ "install" \in Guarded \cap Laid
    /\ \A pc \in Installed \cup Filled \cup Ran \cup Reported \cup {"evidence"} :
          pc \in Guarded /\ pc \notin Early \cup Laid \cup Over
    /\ \A pc \in Early : pc \notin Laid \cup Installed \cup Filled \cup Ran \cup Reported
                              \cup {"evidence", "verify inputs"} \cup Over
    /\ \A pc \in Laid : pc \notin Early \cup Installed \cup Filled \cup Ran \cup Reported
                              \cup {"evidence", "verify inputs"} \cup Over
BY DEF Early, Over, Guarded, Laid, Installed, Filled, Ran, Reported

\* Early on there is no workspace and nothing to know.
LEMMA StartsOn ==
    ASSUME Inv, NEW c \in Candidates, run[c].pc \in Guarded \cap Early,
           run'[c].pc \in Guarded \cap Early, space' = space, UNCHANGED <<world, mishaps>>,
           run'[c].runtime = run[c].runtime
    PROVE  Working(c)'
<1>1. space[c] = Absent /\ run[c].runtime \in Things /\ run[c].runtime.id <= mishaps
  BY DEF Inv, Working
<1> QED BY <1>1, Stages DEF Working, HasEvidence

LEMMA VerifyTrustRootsKeeps ==
    ASSUME Inv, NEW c \in Candidates, VerifyTrustRoots(c), UNCHANGED tempRoot PROVE Inv'
<1>1. TypeInv /\ run[c].pc = "roots" /\ space' = space /\ Outside /\ "wheel" \in Places
  BY DEF Inv, VerifyTrustRoots, At, Places, Guarded
<1>2. CASE Goto(c, "wheel")
  <2>1. /\ run' \in [Candidates -> Runs] /\ run'[c].pc = "wheel"
        /\ SameMemory(run'[c], run[c])
        /\ \A d \in Candidates \ {c} : run'[d] = run[d]
    BY <1>1, <1>2, WentTo
  <2>2. Working(c)'
    BY <1>1, <2>1, StartsOn, Stages DEF Outside, SameMemory
  <2> QED BY <1>1, <2>1, <2>2, GoesOn, Stages DEF SameMemory
<1>3. CASE Fail(c)
  BY <1>1, <1>3, FailsQuietly
<1> QED BY <1>2, <1>3 DEF VerifyTrustRoots

LEMMA VerifyWheelKeeps ==
    ASSUME Inv, NEW c \in Candidates, VerifyWheel(c), UNCHANGED tempRoot PROVE Inv'
<1> DEFINE r == [run[c] EXCEPT !.pc = "guard layout", !.sealed = Content("sealed")]
<1>1. TypeInv /\ run[c].pc = "wheel" /\ space' = space /\ Outside
      /\ "guard layout" \in Places
  BY DEF Inv, VerifyWheel, At, Places, Guarded
<1>2. run[c] \in Runs /\ Content("sealed") \in Contents
  BY <1>1 DEF TypeInv, Content, Things, Objects
<1>3. /\ r \in Runs /\ r.pc = "guard layout" /\ r.runtime = run[c].runtime
      /\ r.anchor = run[c].anchor /\ r.approval = run[c].approval
      /\ r.trust = run[c].trust /\ r.review = run[c].review /\ r.before = run[c].before
  BY <1>1, <1>2 DEF Runs
<1>4. run' = [run EXCEPT ![c] = r]
  BY DEF VerifyWheel
<1> HIDE DEF r
<1>5. Working(c)'
  BY <1>1, <1>3, <1>4, Moved, StartsOn, Stages DEF Outside
<1> QED BY <1>1, <1>3, <1>4, <1>5, Moved, GoesOn, Stages, ZenonT(60)

\* Between two places of one stage everything known stays known.
LEMMA CarriesOn ==
    ASSUME Inv, NEW c \in Candidates, space' = space, UNCHANGED <<world, mishaps>>,
           SameMemory(run'[c], run[c]), run'[c].pc # "verify inputs",
           \/ run[c].pc \in Laid /\ run'[c].pc \in Laid
           \/ run[c].pc \in Installed /\ run'[c].pc \in Installed
           \/ run[c].pc \in Filled /\ run'[c].pc \in Filled
           \/ run[c].pc \in Ran /\ run'[c].pc \in Ran
           \/ run[c].pc \in Reported /\ run'[c].pc \in Reported
    PROVE  Working(c)' /\ run[c].pc \in Guarded /\ run'[c].pc \in Guarded
<1>1. Working(c)
  BY DEF Inv
<1>2. /\ Truth(c)' <=> Truth(c)
      /\ HasEvidence(c)' <=> HasEvidence(c)
      /\ Steady(c)' <=> Steady(c)
  BY DEF Truth, HasEvidence, Steady, SameMemory
<1>3. CASE run[c].pc \in Laid /\ run'[c].pc \in Laid
  BY <1>1, <1>2, <1>3, Stages DEF Working, SameMemory, Laid, Guarded
<1>4. CASE run[c].pc \in Installed /\ run'[c].pc \in Installed
  BY <1>1, <1>2, <1>4, Stages DEF Working, SameMemory, Filled, Ran, Installed, Reported, Over
<1>5. CASE run[c].pc \in Filled /\ run'[c].pc \in Filled
  BY <1>1, <1>2, <1>5, Stages DEF Working, SameMemory, Filled, Ran, Installed, Reported, Over
<1>6. CASE run[c].pc \in Ran /\ run'[c].pc \in Ran
  BY <1>1, <1>2, <1>6, Stages DEF Working, SameMemory, Filled, Ran, Installed, Reported, Over
<1>7. CASE run[c].pc \in Reported /\ run'[c].pc \in Reported
  BY <1>1, <1>2, <1>7, Stages DEF Working, SameMemory, Filled, Ran, Installed, Reported, Over
<1> QED BY <1>3, <1>4, <1>5, <1>6, <1>7

LEMMA CheckRuntimeKeeps ==
    ASSUME Inv, NEW c \in Candidates, UNCHANGED tempRoot, NEW before, NEW next,
           CheckRuntime(c, before, next),
           <<before, next>> \in {<<"guard layout", "layout">>, <<"guard install", "install">>,
                                 <<"guard inputs", "set aside">>,
                                 <<"guard result", "finished">>}
    PROVE  Inv'
<1>1. TypeInv /\ run[c].pc = before /\ space' = space /\ Outside /\ UNCHANGED <<world, mishaps>>
  BY DEF Inv, CheckRuntime, At, Outside
<1>2. next \in Places
  BY DEF Places, Guarded, Laid, Installed, Reported
<1>3. CASE Goto(c, next)
  <2>1. /\ run' \in [Candidates -> Runs] /\ run'[c].pc = next
        /\ SameMemory(run'[c], run[c])
        /\ \A d \in Candidates \ {c} : run'[d] = run[d]
    BY <1>1, <1>2, <1>3, WentTo
  <2>2. Working(c)' /\ run[c].pc \in Guarded /\ run'[c].pc \in Guarded
    <3>1. CASE before = "guard layout" /\ next = "layout"
      BY <1>1, <2>1, <3>1, StartsOn, Stages, ZenonT(60) DEF SameMemory
    <3>2. CASE before # "guard layout"
      <4>1. \/ before \in Laid /\ next \in Laid
            \/ before \in Installed /\ next \in Installed
            \/ before \in Reported /\ next \in Reported
        BY <3>2 DEF Laid, Installed, Reported
      <4>2. next # "verify inputs"
        OBVIOUS
      <4> QED BY <1>1, <2>1, <4>1, <4>2, CarriesOn
    <3> QED BY <3>1, <3>2
  <2> QED BY <1>1, <2>1, <2>2, GoesOn DEF SameMemory
<1>4. CASE Fail(c)
  BY <1>1, <1>4, FailsQuietly
<1> QED BY <1>3, <1>4 DEF CheckRuntime

\* A step that goes on and changes the workspace before there is evidence in it.
LEMMA Works ==
    ASSUME Inv, NEW c \in Candidates, run[c].pc \in Guarded, ~HasEvidence(c),
           run'[c].pc \in Guarded,
           run' \in [Candidates -> Runs], \A d \in Candidates \ {c} : run'[d] = run[d],
           SameMemory(run'[c], run[c]) \/ SameMemory(run'[c], [run[c] EXCEPT !.tree = run'[c].tree]),
           space' \in [Candidates -> Workspaces \cup {Absent}],
           \A d \in Candidates \ {c} : space'[d] = space[d],
           Outside, UNCHANGED tempRoot, Working(c)'
    PROVE  Inv'
<1>1. run[c].pc \notin Over
  BY PlacesAreApart
<1>2. EvidenceStands(c)
  BY <1>1 DEF EvidenceStands
<1>3. run[c] \in Runs
  BY DEF Inv, TypeInv
<1>4. /\ run'[c].anchor = run[c].anchor /\ run'[c].approval = run[c].approval
      /\ run'[c].trust = run[c].trust /\ run'[c].review = run[c].review
      /\ run'[c].before = run[c].before
  BY <1>3 DEF SameMemory, Runs
<1>5. Continues(c)
  BY <1>2, <1>4 DEF Continues, Outside
<1> QED BY <1>5, CandidateSteps DEF Outside, Inv, TypeInv

LEMMA FreshIsWorkspace ==
    ASSUME NEW runtime \in Contents
    PROVE  /\ FreshWorkspace(runtime) \in Workspaces
           /\ FreshWorkspace(runtime).madeBy = {runtime}
           /\ FreshWorkspace(runtime).evidence = Absent
BY DEF FreshWorkspace, Workspaces

LEMMA MakeLayoutKeeps ==
    ASSUME Inv, NEW c \in Candidates, MakeLayout(c), UNCHANGED tempRoot PROVE Inv'
<1>1. TypeInv /\ run[c].pc = "layout" /\ Outside /\ UNCHANGED <<world, mishaps>>
      /\ "guard install" \in Places /\ Working(c) /\ run[c].pc \in Guarded
  BY Stages DEF Inv, MakeLayout, At, Places, Guarded, Laid, Outside
<1>2. CASE space[c] = Absent
  <2> DEFINE s == FreshWorkspace(Content("runtime"))
  <2>1. s \in Workspaces /\ s.madeBy = {Content("runtime")} /\ s.evidence = Absent
    BY <1>1, FreshIsWorkspace DEF TypeInv, Content, Things, Objects
  <2>2. space' = [space EXCEPT ![c] = s] /\ Goto(c, "guard install")
    BY <1>2 DEF MakeLayout
  <2> HIDE DEF s
  <2>3. /\ run' \in [Candidates -> Runs] /\ run'[c].pc = "guard install"
        /\ SameMemory(run'[c], run[c])
        /\ \A d \in Candidates \ {c} : run'[d] = run[d]
    BY <1>1, <2>2, WentTo
  <2>4. /\ space' \in [Candidates -> Workspaces \cup {Absent}] /\ space'[c] = s
        /\ \A d \in Candidates \ {c} : space'[d] = space[d]
    BY <1>1, <2>1, <2>2, Updated
  <2>5. ~HasEvidence(c) /\ ~HasEvidence(c)'
    BY <1>2, <2>1, <2>4 DEF HasEvidence
  <2>6. run[c].runtime \in Things /\ run[c].runtime.id <= mishaps
    BY <1>1, Stages DEF Working
  <2>7. Steady(c)' => space'[c].madeBy = {run'[c].runtime.content}
    BY <1>1, <2>1, <2>4 DEF Steady, Content
  <2>8. Working(c)'
    BY <1>1, <2>1, <2>3, <2>4, <2>5, <2>6, <2>7, Stages DEF Working, SameMemory
  <2> QED BY <1>1, <2>3, <2>4, <2>5, <2>8, Works, Stages
<1>3. CASE space[c] # Absent
  <2>1. Fail(c) /\ space' = space
    BY <1>3 DEF MakeLayout
  <2> QED BY <1>1, <2>1, FailsQuietly
<1> QED BY <1>2, <1>3

LEMMA NoEvidenceYet ==
    ASSUME Inv, NEW c \in Candidates,
           run[c].pc \in Laid \cup Installed \cup Filled \cup Ran \cup {"evidence"}
    PROVE  /\ ~HasEvidence(c) /\ run[c].pc \in Guarded /\ space[c] \in Workspaces
           /\ run[c].runtime \in Things /\ run[c].runtime.id <= mishaps
           /\ Absent \notin Workspaces
<1>1. run[c].pc \notin Reported \cup Over \cup Early
  BY DEF Laid, Installed, Filled, Ran, Reported, Over, Early
<1> QED BY <1>1, Stages, AbsentAssumption DEF Inv, Working, Guarded

LEMMA InstallKeeps ==
    ASSUME Inv, NEW c \in Candidates, Install(c), UNCHANGED tempRoot PROVE Inv'
<1>1. TypeInv /\ run[c].pc = "install" /\ Outside /\ UNCHANGED <<world, mishaps>>
      /\ "guard inputs" \in Places /\ Working(c) /\ "install" \in Laid
      /\ "guard inputs" \in Installed
  BY DEF Inv, Install, At, Places, Guarded, Laid, Installed, Outside
<1>2. /\ ~HasEvidence(c) /\ run[c].pc \in Guarded /\ space[c] \in Workspaces
      /\ run[c].runtime \in Things /\ run[c].runtime.id <= mishaps
  BY <1>1, NoEvidenceYet
<1>3. CASE Content("sealed") = run[c].sealed
  <2> DEFINE tree == [content |-> Content("sealed"), id |-> 0]
             s == [space[c] EXCEPT !.venv = tree, !.madeBy = @ \cup {Content("runtime")}]
             r == [run[c] EXCEPT !.pc = "guard inputs", !.tree = tree]
  <2>1. space' = [space EXCEPT ![c] = s] /\ run' = [run EXCEPT ![c] = r]
    BY <1>3 DEF Install
  <2>2. /\ Content("runtime") \in Contents /\ Content("sealed") \in Contents
        /\ run[c] \in Runs /\ tree \in Things
    BY <1>1 DEF TypeInv, Content, Things, Objects, Contents
  <2>3. tree.content = Content("sealed") /\ tree.id = 0
    OBVIOUS
  <2> HIDE DEF tree
  <2>4. /\ s \in Workspaces /\ s.venv = tree /\ s.evidence = space[c].evidence
        /\ s.madeBy = space[c].madeBy \cup {Content("runtime")}
    BY <1>2, <2>2 DEF Workspaces
  <2>5. /\ r \in Runs /\ r.pc = "guard inputs" /\ r.tree = tree
        /\ SameMemory(r, [run[c] EXCEPT !.tree = r.tree])
        /\ r.runtime = run[c].runtime /\ r.sealed = run[c].sealed
    BY <1>1, <2>2 DEF Runs, SameMemory
  <2> HIDE DEF s, r
  <2>6. /\ space' \in [Candidates -> Workspaces \cup {Absent}] /\ space'[c] = s
        /\ \A d \in Candidates \ {c} : space'[d] = space[d]
    BY <1>1, <2>1, <2>4, Updated
  <2>7. /\ run' \in [Candidates -> Runs] /\ run'[c] = r
        /\ \A d \in Candidates \ {c} : run'[d] = run[d]
    BY <1>1, <2>1, <2>5, Moved
  <2>8. ~HasEvidence(c)'
    BY <1>2, <2>4, <2>6, AbsentAssumption DEF HasEvidence
  <2>9. Steady(c)' => space'[c].madeBy = {run'[c].runtime.content}
    BY <1>1, <2>4, <2>5, <2>6, <2>7 DEF Working, Steady, Content
  <2>10. r.tree = [content |-> r.sealed, id |-> 0] /\ r.sealed \in Contents
    BY <1>3, <2>2, <2>5 DEF tree
  <2>11. Working(c)'
    BY <1>1, <1>2, <2>2, <2>4, <2>5, <2>6, <2>7, <2>8, <2>9, <2>10, Stages
       DEF Working, Installed, Filled, Ran, Reported, Over
  <2> QED BY <1>1, <1>2, <2>5, <2>6, <2>7, <2>11, Works, Stages
<1>4. CASE Content("sealed") # run[c].sealed
  <2>1. Fail(c) /\ space' = space
    BY <1>4 DEF Install
  <2> QED BY <1>1, <2>1, FailsQuietly
<1> QED BY <1>3, <1>4

-----------------------------------------------------------------------------
(* Stage 4 *)

\* A field that no evidence speaks of.
LEMMA ProjectSet ==
    ASSUME TypeInv, NEW c \in Candidates, space[c] \in Workspaces,
           NEW p \in {"scaffold", "aside", "staged"}, Update(c, "project", p)
    PROVE  /\ space' \in [Candidates -> Workspaces \cup {Absent}]
           /\ space'[c] \in Workspaces
           /\ space'[c].madeBy = space[c].madeBy /\ space'[c].venv = space[c].venv
           /\ space'[c].inputs = space[c].inputs /\ space'[c].artifact = space[c].artifact
           /\ space'[c].evidence = space[c].evidence
           /\ \A d \in Candidates \ {c} : space'[d] = space[d]
<1> DEFINE s == [space[c] EXCEPT !.project = p]
<1>1. space' = [space EXCEPT ![c] = s]
  BY DEF Update
<1>2. /\ s \in Workspaces /\ s.madeBy = space[c].madeBy /\ s.venv = space[c].venv
      /\ s.inputs = space[c].inputs /\ s.artifact = space[c].artifact
      /\ s.evidence = space[c].evidence
  BY DEF Workspaces
<1> HIDE DEF s
<1> QED BY <1>1, <1>2, Updated

LEMMA SetScaffoldAsideKeeps ==
    ASSUME Inv, NEW c \in Candidates, SetScaffoldAside(c), UNCHANGED tempRoot PROVE Inv'
<1>1. TypeInv /\ run[c].pc = "set aside" /\ Outside /\ UNCHANGED <<world, mishaps>>
      /\ "copy" \in Places /\ Working(c) /\ "set aside" \in Installed /\ "copy" \in Installed
      /\ Goto(c, "copy") /\ Update(c, "project", "aside")
  BY DEF Inv, SetScaffoldAside, At, Places, Guarded, Installed, Outside
<1>2. /\ ~HasEvidence(c) /\ run[c].pc \in Guarded /\ space[c] \in Workspaces
      /\ run[c].runtime \in Things /\ run[c].runtime.id <= mishaps
  BY <1>1, NoEvidenceYet
<1>3. /\ space' \in [Candidates -> Workspaces \cup {Absent}]
      /\ space'[c] \in Workspaces
      /\ space'[c].madeBy = space[c].madeBy /\ space'[c].venv = space[c].venv
      /\ space'[c].evidence = space[c].evidence
      /\ \A d \in Candidates \ {c} : space'[d] = space[d]
  BY <1>1, <1>2, ProjectSet
<1>4. /\ run' \in [Candidates -> Runs] /\ run'[c].pc = "copy"
      /\ SameMemory(run'[c], run[c])
      /\ \A d \in Candidates \ {c} : run'[d] = run[d]
  BY <1>1, WentTo
<1>5. ~HasEvidence(c)'
  BY <1>2, <1>3, AbsentAssumption DEF HasEvidence
<1>6. Working(c)'
  BY <1>1, <1>2, <1>3, <1>4, <1>5, Stages
     DEF Working, Steady, SameMemory, Installed, Filled, Ran, Reported, Over
<1> QED BY <1>1, <1>2, <1>3, <1>4, <1>6, Works, Stages

LEMMA PublishStagedRootKeeps ==
    ASSUME Inv, NEW c \in Candidates, PublishStagedRoot(c), UNCHANGED tempRoot PROVE Inv'
<1>1. TypeInv /\ run[c].pc = "copy" /\ Outside /\ UNCHANGED <<world, mishaps>>
      /\ "verify inputs" \in Places /\ Working(c) /\ "copy" \in Installed
      /\ "verify inputs" \in Installed
  BY DEF Inv, PublishStagedRoot, At, Places, Guarded, Installed, Outside
<1>2. /\ ~HasEvidence(c) /\ run[c].pc \in Guarded /\ space[c] \in Workspaces
      /\ run[c].runtime \in Things /\ run[c].runtime.id <= mishaps
  BY <1>1, NoEvidenceYet
<1>3. CASE Content("release") = 0
  <2> DEFINE copies == [content |-> 0, id |-> 0]
             s == [space[c] EXCEPT !.project = "staged", !.inputs = copies]
  <2>1. space' = [space EXCEPT ![c] = s] /\ Goto(c, "verify inputs")
    BY <1>3 DEF PublishStagedRoot
  <2>2. copies \in Things
    BY DEF Things, Contents
  <2> HIDE DEF copies
  <2>3. /\ s \in Workspaces /\ s.venv = space[c].venv /\ s.evidence = space[c].evidence
        /\ s.madeBy = space[c].madeBy /\ s.inputs = copies
    BY <1>2, <2>2 DEF Workspaces
  <2> HIDE DEF s
  <2>4. /\ space' \in [Candidates -> Workspaces \cup {Absent}] /\ space'[c] = s
        /\ \A d \in Candidates \ {c} : space'[d] = space[d]
    BY <1>1, <2>1, <2>3, Updated
  <2>5. /\ run' \in [Candidates -> Runs] /\ run'[c].pc = "verify inputs"
        /\ SameMemory(run'[c], run[c])
        /\ \A d \in Candidates \ {c} : run'[d] = run[d]
    BY <1>1, <2>1, WentTo
  <2>6. ~HasEvidence(c)'
    BY <1>2, <2>3, <2>4, AbsentAssumption DEF HasEvidence
  <2>7. Working(c)'
    BY <1>1, <1>2, <2>2, <2>3, <2>4, <2>5, <2>6, Stages
       DEF Working, Steady, SameMemory, Installed, Filled, Ran, Reported, Over
  <2> QED BY <1>1, <1>2, <2>4, <2>3, <2>5, <2>7, Works, Stages
<1>4. CASE Content("release") # 0
  <2>1. Fail(c) /\ Update(c, "project", "scaffold")
    BY <1>4 DEF PublishStagedRoot
  <2>2. /\ space' \in [Candidates -> Workspaces \cup {Absent}]
        /\ space'[c] \in Workspaces
        /\ space'[c].evidence = space[c].evidence /\ space'[c].artifact = space[c].artifact
        /\ \A d \in Candidates \ {c} : space'[d] = space[d]
    BY <1>1, <1>2, <2>1, ProjectSet
  <2>3. EvidenceStands(c) /\ (HasEvidence(c)' => HasEvidence(c))
    BY <1>2, <2>2, AbsentAssumption DEF HasEvidence, EvidenceStands
  <2>4. mishaps' \in Nat /\ mishaps' >= mishaps /\ UNCHANGED <<world, repo, tempRoot>>
    <3>1. mishaps \in Nat /\ mishaps' = mishaps
      BY <1>1 DEF TypeInv
    <3>2. mishaps' \in Nat /\ mishaps' >= mishaps
      BY <3>1
    <3>3. UNCHANGED <<world, repo>> /\ tempRoot' = tempRoot
      BY <1>1 DEF Outside
    <3> QED BY <3>2, <3>3
  <2>5. /\ run' \in [Candidates -> Runs]
        /\ run'[c].pc \in Over /\ run'[c].result = "failed"
        /\ SameMemory(run'[c], run[c])
        /\ \A d \in Candidates \ {c} : run'[d] = run[d]
    BY <1>1, <2>1, Failed
  <2> QED BY <2>2, <2>3, <2>4, <2>5, EndsBadly
<1> QED BY <1>3, <1>4

LEMMA VerifyInputsKeeps ==
    ASSUME Inv, NEW c \in Candidates, VerifyInputs(c), UNCHANGED tempRoot PROVE Inv'
<1>1. TypeInv /\ run[c].pc = "verify inputs" /\ space' = space /\ Outside
      /\ UNCHANGED <<world, mishaps>> /\ "guard run" \in Places /\ Working(c)
      /\ "verify inputs" \in Installed /\ "guard run" \in Filled
  BY DEF Inv, VerifyInputs, At, Places, Guarded, Installed, Filled, Outside
<1>2. /\ ~HasEvidence(c) /\ run[c].pc \in Guarded /\ space[c] \in Workspaces
      /\ run[c].runtime \in Things /\ run[c].runtime.id <= mishaps
  BY <1>1, NoEvidenceYet
<1>3. CASE StagedInputsVerify(c)
  <2> DEFINE r == [run[c] EXCEPT !.pc = "guard run", !.inputs = space[c].inputs]
  <2>1. run' = [run EXCEPT ![c] = r]
    BY <1>3 DEF VerifyInputs
  <2>2. run[c] \in Runs /\ space[c].inputs \in Things
    BY <1>1 DEF TypeInv, Working
  <2>3. /\ r \in Runs /\ r.pc = "guard run" /\ r.tree = run[c].tree
        /\ r.runtime = run[c].runtime /\ r.sealed = run[c].sealed
        /\ r.anchor = run[c].anchor /\ r.approval = run[c].approval
        /\ r.trust = run[c].trust /\ r.review = run[c].review /\ r.before = run[c].before
    BY <1>1, <2>2 DEF Runs
  <2> HIDE DEF r
  <2>4. /\ run' \in [Candidates -> Runs] /\ run'[c] = r
        /\ \A d \in Candidates \ {c} : run'[d] = run[d]
    BY <1>1, <2>1, <2>3, Moved
  <2>5. ~HasEvidence(c)'
    BY <1>1, <1>2 DEF HasEvidence
  <2>6. Working(c)'
    BY <1>1, <1>2, <2>2, <2>3, <2>4, <2>5, Stages
       DEF Working, Steady, Installed, Filled, Ran, Reported, Over
  <2> QED BY <1>1, <1>2, <2>3, <2>4, <2>6, GoesOn, Stages
<1>4. CASE ~StagedInputsVerify(c)
  <2>1. Fail(c)
    BY <1>4 DEF VerifyInputs
  <2> QED BY <1>1, <2>1, FailsQuietly
<1> QED BY <1>3, <1>4

-----------------------------------------------------------------------------
(* Stages 5 and 6 *)

LEMMA GuardCommandKeeps ==
    ASSUME Inv, NEW c \in Candidates, NEW command \in Commands, GuardCommand(c, command),
           UNCHANGED tempRoot
    PROVE  Inv'
<1>1. TypeInv /\ run[c].pc = GuardOf(command) /\ space' = space /\ Outside
      /\ UNCHANGED <<world, mishaps>> /\ Working(c)
  BY DEF Inv, GuardCommand, At, Outside
<1>2. /\ command \in Places /\ run[c].pc # "verify inputs" /\ command # "verify inputs"
      /\ \/ run[c].pc \in Filled /\ command \in Filled
         \/ run[c].pc \in Ran /\ command \in Ran
  BY <1>1 DEF Commands, GuardOf, Places, Guarded, Filled, Ran
<1>3. /\ ~HasEvidence(c) /\ run[c].pc \in Guarded /\ space[c] \in Workspaces
      /\ run[c].runtime \in Things /\ run[c].runtime.id <= mishaps
  BY <1>2, NoEvidenceYet
<1>4. CASE SameObject(space[c].venv, run[c].tree)
  <2> DEFINE r == [run[c] EXCEPT !.pc = command, !.python = world["runtime"]]
  <2>1. run' = [run EXCEPT ![c] = r]
    BY <1>4 DEF GuardCommand
  <2>2. run[c] \in Runs /\ world["runtime"] \in Things
    BY <1>1 DEF TypeInv, Objects
  <2>3. /\ r \in Runs /\ r.pc = command /\ r.tree = run[c].tree
        /\ r.runtime = run[c].runtime /\ r.sealed = run[c].sealed
        /\ r.anchor = run[c].anchor /\ r.approval = run[c].approval
        /\ r.trust = run[c].trust /\ r.review = run[c].review /\ r.before = run[c].before
    BY <1>2, <2>2 DEF Runs
  <2> HIDE DEF r
  <2>4. /\ run' \in [Candidates -> Runs] /\ run'[c] = r
        /\ \A d \in Candidates \ {c} : run'[d] = run[d]
    BY <1>1, <2>1, <2>3, Moved
  <2>5. ~HasEvidence(c)'
    BY <1>1, <1>3 DEF HasEvidence
  <2>6. Working(c)'
    BY <1>1, <1>2, <1>3, <2>2, <2>3, <2>4, <2>5, Stages
       DEF Working, Steady, Installed, Filled, Ran, Reported, Over
  <2> QED BY <1>1, <1>2, <1>3, <2>3, <2>4, <2>6, GoesOn, Stages
<1>5. CASE ~SameObject(space[c].venv, run[c].tree)
  <2>1. Fail(c)
    BY <1>5 DEF GuardCommand
  <2> QED BY <1>1, <2>1, FailsQuietly
<1> QED BY <1>4, <1>5

LEMMA RunPortfolioKeeps ==
    ASSUME Inv, NEW c \in Candidates, RunPortfolio(c), UNCHANGED tempRoot PROVE Inv'
<1>1. TypeInv /\ run[c].pc = "run" /\ Outside /\ UNCHANGED <<world, mishaps>>
      /\ "recheck run" \in Places /\ Working(c) /\ "run" \in Filled /\ "recheck run" \in Ran
      /\ Goto(c, "recheck run")
  BY DEF Inv, RunPortfolio, At, Places, Guarded, Filled, Ran, Outside
<1>2. /\ ~HasEvidence(c) /\ run[c].pc \in Guarded /\ space[c] \in Workspaces
      /\ run[c].runtime \in Things /\ run[c].runtime.id <= mishaps
  BY <1>1, NoEvidenceYet
<1>3. PICK seed \in {0, HashSeed(c)} :
          Update(c, "artifact",
                 [code |-> space[c].venv.content,
                  runtimes |-> space[c].madeBy \cup {Content("runtime")},
                  inputs |-> space[c].inputs.content, seed |-> seed])
  BY DEF RunPortfolio
<1> DEFINE artifact == [code |-> space[c].venv.content,
                        runtimes |-> space[c].madeBy \cup {Content("runtime")},
                        inputs |-> space[c].inputs.content, seed |-> seed]
           s == [space[c] EXCEPT !.artifact = artifact]
<1>4. /\ space[c].venv \in Things /\ space[c].inputs \in Things
      /\ run[c].tree = [content |-> run[c].sealed, id |-> 0] /\ run[c].sealed \in Contents
  BY <1>1 DEF Working
<1>5. /\ artifact \in Artifacts /\ artifact.code = space[c].venv.content
      /\ artifact.runtimes = space[c].madeBy \cup {Content("runtime")}
  <2>1. Content("runtime") \in Contents /\ space[c].madeBy \in SUBSET Contents /\ seed \in Nat
    <3>1. Content("runtime") \in Contents
      BY <1>1 DEF TypeInv, Content, Things, Objects
    <3>2. space[c].madeBy \in SUBSET Contents
      BY <1>2 DEF Workspaces
    <3>3. seed \in Nat
      BY <1>3 DEF HashSeed
    <3> QED BY <3>1, <3>2, <3>3
  <2>2. space[c].venv.content \in Contents /\ space[c].inputs.content \in Contents
    BY <1>4 DEF Things
  <2>3. space[c].madeBy \cup {Content("runtime")} \in SUBSET Contents
    BY <2>1
  <2> QED BY <2>1, <2>2, <2>3 DEF Artifacts
<1>6. space' = [space EXCEPT ![c] = s]
  BY <1>3 DEF Update
<1> HIDE DEF artifact
<1>7. /\ s \in Workspaces /\ s.venv = space[c].venv /\ s.evidence = space[c].evidence
      /\ s.inputs = space[c].inputs /\ s.artifact = artifact
  BY <1>2, <1>5 DEF Workspaces
<1> HIDE DEF s
<1>8. /\ space' \in [Candidates -> Workspaces \cup {Absent}] /\ space'[c] = s
      /\ \A d \in Candidates \ {c} : space'[d] = space[d]
  BY <1>1, <1>6, <1>7, Updated
<1>9. /\ run' \in [Candidates -> Runs] /\ run'[c].pc = "recheck run"
      /\ SameMemory(run'[c], run[c])
      /\ \A d \in Candidates \ {c} : run'[d] = run[d]
  BY <1>1, WentTo
<1>10. ~HasEvidence(c)'
  BY <1>2, <1>7, <1>8, AbsentAssumption DEF HasEvidence
<1>11. Steady(c)' => space'[c].artifact.runtimes = {run'[c].runtime.content}
  BY <1>1, <1>5, <1>7, <1>8, <1>9 DEF Working, Steady, Content, SameMemory
<1>12. space'[c].venv = run'[c].tree => space'[c].artifact.code = run'[c].sealed
  <2>1. run[c].tree.content = run[c].sealed
    BY <1>4
  <2>2. /\ space'[c].venv = space[c].venv /\ space'[c].artifact.code = space[c].venv.content
        /\ run'[c].tree = run[c].tree /\ run'[c].sealed = run[c].sealed
    BY <1>5, <1>7, <1>8, <1>9 DEF SameMemory
  <2> QED BY <2>1, <2>2
<1>13. Working(c)'
  BY <1>1, <1>2, <1>4, <1>5, <1>7, <1>8, <1>9, <1>10, <1>11, <1>12, Stages
     DEF Working, SameMemory, Installed, Filled, Ran, Reported, Over
<1> QED BY <1>1, <1>2, <1>7, <1>8, <1>9, <1>13, Works, Stages

LEMMA ReverseCandidateKeeps ==
    ASSUME Inv, NEW c \in Candidates, ReverseCandidate(c), UNCHANGED tempRoot PROVE Inv'
<1>1. TypeInv /\ run[c].pc = "reverse" /\ space' = space /\ Outside
      /\ UNCHANGED <<world, mishaps>> /\ "recheck reverse" \in Places
      /\ "reverse" \in Ran /\ "recheck reverse" \in Ran
  BY DEF Inv, ReverseCandidate, At, Places, Guarded, Ran, Outside
<1>2. CASE Goto(c, "recheck reverse")
  <2>1. /\ run' \in [Candidates -> Runs] /\ run'[c].pc = "recheck reverse"
        /\ SameMemory(run'[c], run[c])
        /\ \A d \in Candidates \ {c} : run'[d] = run[d]
    BY <1>1, <1>2, WentTo
  <2>2. Working(c)' /\ run[c].pc \in Guarded /\ run'[c].pc \in Guarded
    BY <1>1, <2>1, CarriesOn
  <2> QED BY <1>1, <2>1, <2>2, GoesOn DEF SameMemory
<1>3. CASE Fail(c)
  BY <1>1, <1>3, FailsQuietly
<1> QED BY <1>2, <1>3 DEF ReverseCandidate

LEMMA RecheckKeeps ==
    ASSUME Inv, NEW c \in Candidates, NEW command \in Commands, Recheck(c, command),
           UNCHANGED tempRoot
    PROVE  Inv'
<1> DEFINE next == IF command = "run" THEN "guard reverse" ELSE "audit"
<1>1. TypeInv /\ run[c].pc = RecheckOf(command) /\ space' = space /\ Outside
      /\ UNCHANGED <<world, mishaps>>
  BY DEF Inv, Recheck, At, Outside
<1>2. RecheckOf(command) \in Ran /\ next \in Ran /\ next \in Places /\ next # "verify inputs"
  BY DEF Commands, RecheckOf, Ran, Places, Guarded
<1>3. Goto(c, next) \/ Fail(c)
  BY DEF Recheck
<1> HIDE DEF next
<1>4. CASE Goto(c, next)
  <2>1. /\ run' \in [Candidates -> Runs] /\ run'[c].pc = next
        /\ SameMemory(run'[c], run[c])
        /\ \A d \in Candidates \ {c} : run'[d] = run[d]
    BY <1>1, <1>2, <1>4, WentTo
  <2>2. Working(c)' /\ run[c].pc \in Guarded /\ run'[c].pc \in Guarded
    BY <1>1, <1>2, <2>1, CarriesOn
  <2> QED BY <1>1, <2>1, <2>2, GoesOn DEF SameMemory
<1>5. CASE Fail(c)
  BY <1>1, <1>5, FailsQuietly
<1> QED BY <1>3, <1>4, <1>5

-----------------------------------------------------------------------------
(* Stage 7 *)

LEMMA AuditCandidateKeeps ==
    ASSUME Inv, NEW c \in Candidates, AuditCandidate(c), UNCHANGED tempRoot PROVE Inv'
<1>1. TypeInv /\ run[c].pc = "audit" /\ space' = space /\ Outside
      /\ UNCHANGED <<world, mishaps>> /\ "evidence" \in Places /\ "audit" \in Ran /\ Working(c)
  BY DEF Inv, AuditCandidate, At, Places, Guarded, Ran, Outside
<1>2. /\ ~HasEvidence(c) /\ run[c].pc \in Guarded /\ space[c] \in Workspaces
      /\ run[c].runtime \in Things /\ run[c].runtime.id <= mishaps
  BY <1>1, NoEvidenceYet
<1>3. CASE /\ SameObject(world["runtime"], run[c].runtime)
           /\ space[c].artifact.inputs = 0
           /\ SameObject(space[c].venv, run[c].tree)
           /\ Goto(c, "evidence")
  <2>1. /\ run' \in [Candidates -> Runs] /\ run'[c].pc = "evidence"
        /\ SameMemory(run'[c], run[c])
        /\ \A d \in Candidates \ {c} : run'[d] = run[d]
    BY <1>1, <1>3, WentTo
  <2>2. /\ space[c].artifact.runtimes = {run[c].runtime.content}
        /\ space[c].artifact.code = run[c].sealed
        /\ space[c].artifact.inputs = 0
    BY <1>1, <1>3 DEF Working, Steady, SameObject
  <2>3. ~HasEvidence(c)'
    BY <1>1, <1>2 DEF HasEvidence
  <2>4. Working(c)'
    BY <1>1, <1>2, <2>1, <2>2, <2>3, Stages
       DEF Working, SameMemory, Installed, Filled, Ran, Reported, Over
  <2> QED BY <1>1, <1>2, <2>1, <2>4, GoesOn, Stages DEF SameMemory
<1>4. CASE Fail(c)
  BY <1>1, <1>4, FailsQuietly
<1> QED BY <1>3, <1>4 DEF AuditCandidate

LEMMA WriteEvidenceKeeps ==
    ASSUME Inv, NEW c \in Candidates, WriteEvidence(c), UNCHANGED tempRoot PROVE Inv'
<1>1. TypeInv /\ run[c].pc = "evidence" /\ Outside
      /\ UNCHANGED <<world, mishaps>> /\ "guard result" \in Places /\ Working(c)
      /\ "guard result" \in Reported
  BY DEF Inv, WriteEvidence, At, Places, Guarded, Reported, Outside
<1>2. /\ ~HasEvidence(c) /\ run[c].pc \in Guarded /\ space[c] \in Workspaces
      /\ run[c].runtime \in Things /\ run[c].runtime.id <= mishaps
  BY <1>1, NoEvidenceYet
<1>3. CASE space[c].evidence = Absent
  <2> DEFINE e == [commit |-> run[c].commit, runtime |-> run[c].runtime.content,
                   sealed |-> run[c].sealed, packages |-> Version(run[c].tree.content),
                   artifact |-> space[c].artifact]
             s == [space[c] EXCEPT !.evidence = e]
  <2>1. space' = [space EXCEPT ![c] = s] /\ Goto(c, "guard result")
    BY <1>3 DEF WriteEvidence, Update
  <2>2. /\ run[c].tree = [content |-> run[c].sealed, id |-> 0] /\ run[c].sealed \in Contents
        /\ space[c].artifact \in Artifacts
        /\ space[c].artifact.runtimes = {run[c].runtime.content}
        /\ space[c].artifact.code = run[c].sealed
        /\ space[c].artifact.inputs = 0
    BY <1>1 DEF Working
  <2>3. run[c].tree.content = run[c].sealed /\ run[c].runtime.content \in Contents
        /\ run[c].commit \in Nat
    <3>1. run[c].tree.content = run[c].sealed
      BY <2>2
    <3>2. run[c].runtime.content \in Contents
      BY <1>2 DEF Things
    <3>3. run[c].commit \in Nat
      BY <1>1 DEF TypeInv, Runs
    <3> QED BY <3>1, <3>2, <3>3
  <2>10. Version(run[c].sealed) \in Nat
    BY <2>2 DEF Version, Contents
  <2>4. /\ e \in Evidences /\ e.artifact = space[c].artifact /\ e.sealed = run[c].sealed
        /\ e.packages = Version(run[c].sealed) /\ e.runtime = run[c].runtime.content
    BY <2>2, <2>3, <2>10 DEF Evidences
  <2> HIDE DEF e
  <2>5. s \in Workspaces /\ s.evidence = e /\ s.artifact = space[c].artifact
    BY <1>2, <2>4 DEF Workspaces
  <2> HIDE DEF s
  <2>6. /\ space' \in [Candidates -> Workspaces \cup {Absent}] /\ space'[c] = s
        /\ \A d \in Candidates \ {c} : space'[d] = space[d]
    BY <1>1, <2>1, <2>5, Updated
  <2>7. /\ run' \in [Candidates -> Runs] /\ run'[c].pc = "guard result"
        /\ SameMemory(run'[c], run[c])
        /\ \A d \in Candidates \ {c} : run'[d] = run[d]
    BY <1>1, <2>1, WentTo
  <2>8. Truth(c)'
    BY <2>2, <2>4, <2>5, <2>6 DEF Truth
  <2>9. Working(c)'
    BY <1>1, <1>2, <2>5, <2>6, <2>7, <2>8, Stages
       DEF Working, SameMemory, Installed, Filled, Ran, Reported, Over
  <2> QED BY <1>1, <1>2, <2>5, <2>6, <2>7, <2>9, Works, Stages
<1>4. CASE space[c].evidence # Absent
  <2>1. Fail(c) /\ space' = space
    BY <1>4 DEF WriteEvidence
  <2> QED BY <1>1, <2>1, FailsQuietly
<1> QED BY <1>3, <1>4

-----------------------------------------------------------------------------
(* Mishaps *)

LEMMA MishapCounts ==
    ASSUME Inv, Mishap
    PROVE  mishaps \in Nat /\ mishaps' = mishaps + 1 /\ mishaps' \in Nat /\ mishaps' >= mishaps
BY DEF Inv, TypeInv, Mishap

\* What takes an object's place is another object, with the next number.
LEMMA OtherIsNew ==
    ASSUME Inv, NEW x \in Things, NEW other \in Others(x)
    PROVE  other \in Things /\ other.id = mishaps + 1
<1>1. mishaps + 1 \in Nat
  BY DEF Inv, TypeInv
<1> QED BY <1>1 DEF Others, Things

LEMMA VenvReplaced ==
    ASSUME Inv, NEW c \in Candidates, ReplaceInWorkspace(c, "venv"), UNCHANGED tempRoot
    PROVE  Inv'
<1>0. PICK other \in Others(space[c].venv) : Update(c, "venv", other)
  BY DEF ReplaceInWorkspace
<1> DEFINE s == [space[c] EXCEPT !.venv = other]
<1>1. TypeInv /\ Working(c) /\ space[c] \in Workspaces /\ space[c].venv \in Things
      /\ UNCHANGED <<world, repo, run>> /\ mishaps \in Nat
  BY DEF Inv, ReplaceInWorkspace, TypeInv, Workspaces
<1>2. mishaps' = mishaps + 1 /\ mishaps' \in Nat /\ mishaps' >= mishaps
  BY MishapCounts DEF ReplaceInWorkspace
<1>3. other \in Things /\ other.id = mishaps + 1
  BY <1>1, OtherIsNew
<1>4. space' = [space EXCEPT ![c] = s]
  BY <1>0 DEF Update
<1>5. /\ s \in Workspaces /\ s.venv = other /\ s.madeBy = space[c].madeBy
      /\ s.inputs = space[c].inputs /\ s.artifact = space[c].artifact
      /\ s.evidence = space[c].evidence
  BY <1>1, <1>3 DEF Workspaces
<1> HIDE DEF s
<1>6. /\ space' \in [Candidates -> Workspaces \cup {Absent}] /\ space'[c] = s
      /\ \A d \in Candidates \ {c} : space'[d] = space[d]
  BY <1>1, <1>4, <1>5, Updated
<1>7. Continues(c)
  BY <1>1, <1>5, <1>6, AbsentAssumption DEF Continues, EvidenceStands, HasEvidence
<1>8. space'[c].venv # [content |-> run[c].sealed, id |-> 0]
  <2>1. space'[c].venv.id # 0
    BY <1>1, <1>3, <1>5, <1>6
  <2> QED BY <2>1
<1>9. space[c] # Absent
  BY <1>1, AbsentAssumption
<1>10. run[c].runtime \in Things /\ run[c].runtime.id <= mishaps =>
          run[c].runtime \in Things /\ run[c].runtime.id <= mishaps'
  BY <1>1, <1>2 DEF Things
<1>11. Working(c)'
  BY <1>1, <1>3, <1>5, <1>6, <1>8, <1>9, <1>10, Stages, AbsentAssumption
     DEF Working, Steady, Truth, HasEvidence
<1> QED BY <1>1, <1>2, <1>6, <1>7, <1>11, CandidateSteps DEF TypeInv

LEMMA InputsReplaced ==
    ASSUME Inv, NEW c \in Candidates, ReplaceInWorkspace(c, "inputs"), UNCHANGED tempRoot
    PROVE  Inv'
<1>0. PICK other \in Others(space[c].inputs) : Update(c, "inputs", other)
  BY DEF ReplaceInWorkspace
<1> DEFINE s == [space[c] EXCEPT !.inputs = other]
<1>1. TypeInv /\ Working(c) /\ space[c] \in Workspaces /\ space[c].inputs \in Things
      /\ UNCHANGED <<world, repo, run>> /\ mishaps \in Nat
  BY DEF Inv, ReplaceInWorkspace, TypeInv, Workspaces
<1>2. mishaps' = mishaps + 1 /\ mishaps' \in Nat /\ mishaps' >= mishaps
  BY MishapCounts DEF ReplaceInWorkspace
<1>3. other \in Things
  BY <1>1, OtherIsNew
<1>4. space' = [space EXCEPT ![c] = s]
  BY <1>0 DEF Update
<1>5. /\ s \in Workspaces /\ s.venv = space[c].venv /\ s.madeBy = space[c].madeBy
      /\ s.inputs = other /\ s.artifact = space[c].artifact
      /\ s.evidence = space[c].evidence
  BY <1>1, <1>3 DEF Workspaces
<1> HIDE DEF s
<1>6. /\ space' \in [Candidates -> Workspaces \cup {Absent}] /\ space'[c] = s
      /\ \A d \in Candidates \ {c} : space'[d] = space[d]
  BY <1>1, <1>4, <1>5, Updated
<1>7. Continues(c)
  BY <1>1, <1>5, <1>6, AbsentAssumption DEF Continues, EvidenceStands, HasEvidence
<1>8. space[c] # Absent
  BY <1>1, AbsentAssumption
<1>9. run[c].runtime \in Things /\ run[c].runtime.id <= mishaps =>
          run[c].runtime \in Things /\ run[c].runtime.id <= mishaps'
  BY <1>1, <1>2 DEF Things
<1>10. Working(c)'
  BY <1>1, <1>3, <1>5, <1>6, <1>8, <1>9, Stages, AbsentAssumption
     DEF Working, Steady, Truth, HasEvidence
<1> QED BY <1>1, <1>2, <1>6, <1>7, <1>10, CandidateSteps DEF TypeInv

LEMMA FaultKeeps ==
    ASSUME Inv, NEW c \in Candidates, Fault(c), UNCHANGED tempRoot PROVE Inv'
<1>1. TypeInv /\ Fail(c) /\ run[c].pc \notin Over /\ UNCHANGED <<world, repo, tempRoot>>
  BY DEF Inv, Fault, Running, Over
<1>2. mishaps' \in Nat /\ mishaps' >= mishaps
  BY MishapCounts DEF Fault
<1>3. /\ run' \in [Candidates -> Runs]
      /\ run'[c].pc \in Over /\ run'[c].result = "failed"
      /\ SameMemory(run'[c], run[c])
      /\ \A d \in Candidates \ {c} : run'[d] = run[d]
  BY <1>1, Failed
<1>4. /\ space' \in [Candidates -> Workspaces \cup {Absent}]
      /\ \A d \in Candidates \ {c} : space'[d] = space[d]
      /\ EvidenceStands(c) /\ (HasEvidence(c)' => HasEvidence(c))
  <2>1. CASE At(c, "copy")
    <3>1. PICK left \in {"scaffold", "aside"} : Update(c, "project", left)
      BY <2>1 DEF Fault
    <3>2. run[c].pc \in Installed
      BY <2>1 DEF At, Installed
    <3>3. ~HasEvidence(c) /\ space[c] \in Workspaces
      BY <3>2, NoEvidenceYet
    <3>4. left \in {"scaffold", "aside", "staged"}
      OBVIOUS
    <3>5. /\ space' \in [Candidates -> Workspaces \cup {Absent}]
          /\ space'[c] \in Workspaces
          /\ space'[c].evidence = space[c].evidence /\ space'[c].artifact = space[c].artifact
          /\ \A d \in Candidates \ {c} : space'[d] = space[d]
      BY <1>1, <3>1, <3>3, <3>4, ProjectSet
    <3> QED BY <3>3, <3>5, AbsentAssumption DEF HasEvidence, EvidenceStands
  <2>2. CASE ~At(c, "copy")
    <3>1. space' = space
      BY <2>2 DEF Fault
    <3> QED BY <1>1, <3>1 DEF TypeInv, HasEvidence, EvidenceStands
  <2> QED BY <2>1, <2>2
<1> QED BY <1>1, <1>2, <1>3, <1>4, EndsBadly

LEMMA CrashKeeps ==
    ASSUME Inv, NEW c \in Candidates, Crash(c), UNCHANGED tempRoot PROVE Inv'
<1>1. TypeInv /\ UNCHANGED <<world, repo, tempRoot>> /\ space' = space
      /\ run' = [run EXCEPT ![c].pc = "returned", ![c].result = "crashed"]
      /\ "returned" \in Places /\ "crashed" \in Results /\ "returned" \in Over
  BY DEF Inv, Crash, Places, Results, Over
<1>2. mishaps' \in Nat /\ mishaps' >= mishaps
  BY MishapCounts DEF Crash
<1>3. /\ run' \in [Candidates -> Runs]
      /\ run'[c].pc = "returned" /\ run'[c].result = "crashed"
      /\ SameMemory(run'[c], run[c])
      /\ \A d \in Candidates \ {c} : run'[d] = run[d]
  BY <1>1, EndedAs
<1>4. /\ space' \in [Candidates -> Workspaces \cup {Absent}]
      /\ EvidenceStands(c) /\ (HasEvidence(c)' => HasEvidence(c))
  BY <1>1 DEF TypeInv, HasEvidence, EvidenceStands
<1> QED BY <1>1, <1>2, <1>3, <1>4, EndsBadly

LEMMA CandidateKeeps ==
    ASSUME Inv, NEW c \in Candidates, CandidateNext(c), UNCHANGED tempRoot PROVE Inv'
<1>1. CASE \/ CheckRuntime(c, "guard layout", "layout")
           \/ CheckRuntime(c, "guard install", "install")
           \/ CheckRuntime(c, "guard inputs", "set aside")
           \/ CheckRuntime(c, "guard result", "finished")
  BY <1>1, CheckRuntimeKeeps
<1>2. CASE \E command \in Commands : GuardCommand(c, command) \/ Recheck(c, command)
  BY <1>2, GuardCommandKeeps, RecheckKeeps
<1>3. CASE \E field \in {"venv", "inputs"} : ReplaceInWorkspace(c, field)
  <2>1. PICK field \in {"venv", "inputs"} : ReplaceInWorkspace(c, field)
    BY <1>3
  <2>2. CASE field = "venv"
    BY <2>1, <2>2, VenvReplaced
  <2>3. CASE field = "inputs"
    BY <2>1, <2>3, InputsReplaced
  <2> QED BY <2>2, <2>3
<1>4. CASE \/ VerifyTrustRoots(c) \/ VerifyWheel(c) \/ MakeLayout(c) \/ Install(c)
           \/ SetScaffoldAside(c) \/ PublishStagedRoot(c) \/ VerifyInputs(c)
  BY <1>4, VerifyTrustRootsKeeps, VerifyWheelKeeps, MakeLayoutKeeps, InstallKeeps,
     SetScaffoldAsideKeeps, PublishStagedRootKeeps, VerifyInputsKeeps
<1>5. CASE \/ RunPortfolio(c) \/ ReverseCandidate(c) \/ AuditCandidate(c) \/ WriteEvidence(c)
           \/ Fault(c) \/ Crash(c)
  BY <1>5, RunPortfolioKeeps, ReverseCandidateKeeps, AuditCandidateKeeps, WriteEvidenceKeeps,
     FaultKeeps, CrashKeeps
<1> QED BY <1>1, <1>2, <1>3, <1>4, <1>5 DEF CandidateNext

\* A replay does not look at the world once it has compared.
LEMMA ReplayStays ==
    ASSUME Inv, run'["B"] = run["B"], space' = space, repo'.commits = repo.commits,
           tempRoot' = tempRoot
    PROVE  Replaying'
<1>1. Begun' /\ Approved'
  BY DEF Inv, Replaying, Begun, Approved, Closed, Verified, HasEvidence, HeadCommit
<1>2. Matched'
  BY DEF Inv, Replaying, Matched, Trusted, Verified, TrustOf, Truth
<1> QED BY <1>1, <1>2 DEF Replaying

LEMMA ReplaceKeeps ==
    ASSUME Inv, NEW x \in Objects, Replace(x), UNCHANGED tempRoot PROVE Inv'
<1>0. PICK other \in Others(world[x]) : world' = [world EXCEPT ![x] = other]
  BY DEF Replace
<1>1. TypeInv /\ UNCHANGED <<repo, space, run, tempRoot>> /\ world' = [world EXCEPT ![x] = other]
      /\ world[x] \in Things
  BY <1>0 DEF Inv, Replace, TypeInv
<1>2. mishaps \in Nat /\ mishaps' = mishaps + 1 /\ mishaps' \in Nat /\ mishaps' >= mishaps
  BY MishapCounts DEF Replace
<1>3. other \in Things /\ other.id = mishaps'
  BY <1>1, <1>2, OtherIsNew
<1>4. TypeInv' /\ world'[x] = other /\ \A y \in Objects \ {x} : world'[y] = world[y]
  BY <1>1, <1>2, <1>3 DEF TypeInv
<1>5. Numbered'
  <2> SUFFICES ASSUME NEW y \in Objects PROVE world'[y].id <= mishaps'
    BY DEF Numbered
  <2>1. world[y].id \in Nat /\ world[y].id <= mishaps
    BY <1>1 DEF Inv, Numbered, TypeInv, Things
  <2>2. CASE y = x
    BY <1>2, <1>3, <1>4, <2>2
  <2>3. CASE y # x
    <3>1. world'[y].id = world[y].id
      BY <1>4, <2>3
    <3> QED BY <1>2, <2>1, <3>1
  <2> QED BY <2>2, <2>3
<1>6. ASSUME NEW c \in Candidates PROVE Working(c)'
  <2>1. Working(c)
    BY DEF Inv
  <2>2. run[c].runtime \in Things /\ run[c].runtime.id <= mishaps =>
            /\ run[c].runtime.id <= mishaps'
            /\ world'["runtime"] # run[c].runtime \/ world'["runtime"] = world["runtime"]
    <3>1. CASE x = "runtime"
      <4> SUFFICES ASSUME run[c].runtime \in Things, run[c].runtime.id <= mishaps
                   PROVE  run[c].runtime.id <= mishaps' /\ other # run[c].runtime
        BY <1>4, <3>1
      <4>1. run[c].runtime.id \in Nat
        BY DEF Things
      <4>2. run[c].runtime.id <= mishaps' /\ other.id # run[c].runtime.id
        BY <1>2, <1>3, <4>1
      <4> QED BY <4>2
    <3>2. CASE x # "runtime"
      <4>1. world'["runtime"] = world["runtime"]
        BY <1>4, <3>2 DEF Objects
      <4>2. run[c].runtime \in Things /\ run[c].runtime.id <= mishaps =>
                run[c].runtime.id <= mishaps'
        BY <1>2 DEF Things
      <4> QED BY <4>1, <4>2
    <3> QED BY <3>1, <3>2
  <2>3. run[c].pc \in Laid \cup Installed \cup Filled \cup Ran =>
            run[c].runtime \in Things /\ run[c].runtime.id <= mishaps
    BY <2>1 DEF Working, Guarded
  <2> QED BY <1>1, <2>1, <2>2, <2>3 DEF Working, Steady, HasEvidence, Truth
<1> QED BY <1>1, <1>4, <1>5, <1>6, ReplayStays DEF Inv

-----------------------------------------------------------------------------
(* Candidate A begins and finishes *)

LEMMA HeadIsNumber == ASSUME TypeInv PROVE HeadCommit \in Nat /\ 1 \in Nat
BY DEF TypeInv, HeadCommit

LEMMA NoRunIsRun == NoRun \in Runs
<1>1. "idle" \in Places /\ "none" \in Results /\ 0 \in Nat
  BY DEF Places, Results
<1> QED BY <1>1 DEF NoRun, Runs

LEMMA BeginAKeeps == ASSUME Inv, BeginA PROVE Inv'
<1> DEFINE r == [NoRun EXCEPT !.pc = "roots", !.commit = HeadCommit,
                              !.runtime = world["runtime"]]
<1>1. TypeInv /\ space["A"] = Absent /\ UNCHANGED <<world, repo, space, mishaps, tempRoot>>
      /\ "A" \in Candidates /\ "B" \in Candidates
  BY DEF Inv, BeginA, Candidates
<1>2. HeadCommit \in Nat /\ world["runtime"] \in Things /\ "roots" \in Places
  BY <1>1, HeadIsNumber DEF TypeInv, Objects, Places, Guarded
<1>3. r \in Runs /\ r.pc = "roots" /\ r.runtime = world["runtime"]
  BY <1>2, NoRunIsRun DEF Runs
<1>4. run' = [run EXCEPT !["A"] = r]
  BY DEF BeginA
<1> HIDE DEF r
<1>5. /\ run' \in [Candidates -> Runs] /\ run'["A"] = r
      /\ run'["B"] = run["B"]
  BY <1>1, <1>3, <1>4, Moved
<1>6. TypeInv' /\ Numbered'
  BY <1>1, <1>5 DEF TypeInv, Numbered, Inv
<1>7. Working("A")'
  <2>1. world["runtime"].id <= mishaps
    BY DEF Inv, Numbered, Objects
  <2> QED BY <1>1, <1>2, <1>3, <1>5, <2>1, Stages DEF Working, HasEvidence
<1>8. Working("B")'
  BY <1>1, <1>5 DEF Inv, Working, Steady, Truth, HasEvidence
<1>9. Replaying'
  BY <1>1, <1>5, ReplayStays
<1> QED BY <1>6, <1>7, <1>8, <1>9 DEF Inv, Candidates

LEMMA FinishAKeeps == ASSUME Inv, FinishA PROVE Inv'
<1>1. TypeInv /\ run["A"].pc = "finished" /\ UNCHANGED <<world, repo, space, mishaps, tempRoot>>
      /\ "A" \in Candidates /\ "B" \in Candidates /\ "returned" \in Places /\ "ok" \in Results
      /\ run' = [run EXCEPT !["A"].pc = "returned", !["A"].result = "ok"]
  BY DEF Inv, FinishA, At, Candidates, Places, Over, Results
<1>2. /\ run' \in [Candidates -> Runs] /\ run'["A"].pc = "returned" /\ run'["B"] = run["B"]
  BY <1>1, EndedAs
<1>3. TypeInv' /\ Numbered'
  BY <1>1, <1>2 DEF TypeInv, Numbered, Inv
<1>4. Working("A")'
  BY <1>1, <1>2
     DEF Inv, Working, Truth, HasEvidence, Early, Over, Guarded, Laid, Installed, Filled, Ran,
         Reported
<1>5. Working("B")'
  BY <1>1, <1>2 DEF Inv, Working, Steady, Truth, HasEvidence
<1>6. Replaying'
  BY <1>1, <1>2, ReplayStays
<1> QED BY <1>3, <1>4, <1>5, <1>6 DEF Inv, Candidates

-----------------------------------------------------------------------------
(* Review, trust, approval *)

\* People write files and commit them; the candidates do not move.
LEMMA FilesWritten ==
    ASSUME Inv, UNCHANGED <<world, space, run, tempRoot>>, repo' \in [commits : Seq(Files), work : Files],
           repo'.commits = repo.commits, mishaps' \in Nat, mishaps' >= mishaps
    PROVE  Inv'
<1>1. TypeInv'
  BY DEF Inv, TypeInv
<1>2. Numbered'
  BY DEF Inv, TypeInv, Numbered, Things
<1>3. \A c \in Candidates : Working(c)'
  BY OthersStay
<1> QED BY <1>1, <1>2, <1>3, ReplayStays DEF Inv

LEMMA Written ==
    ASSUME Inv, NEW file \in {"trust", "review", "approval"}, NEW content,
           Write(file, content), mishaps' \in Nat, mishaps' >= mishaps,
           content \in IF file = "trust" THEN Trusts \cup {Absent}
                       ELSE IF file = "review" THEN Evidences \cup {Absent}
                       ELSE Approvals \cup {Absent}
    PROVE  Inv'
<1> DEFINE w == [repo.work EXCEPT ![file] = content]
<1>1. repo \in [commits : Seq(Files), work : Files]
  BY DEF Inv, TypeInv
<1>2. w \in Files
  <2>1. repo.work \in Files
    BY <1>1
  <2>2. CASE file = "trust"
    BY <2>1, <2>2 DEF Files
  <2>3. CASE file = "review"
    BY <2>1, <2>3 DEF Files
  <2>4. CASE file = "approval"
    BY <2>1, <2>4 DEF Files
  <2> QED BY <2>2, <2>3, <2>4
<1>3. repo' = [repo EXCEPT !.work = w]
  BY DEF Write
<1> HIDE DEF w
<1>4. repo' \in [commits : Seq(Files), work : Files] /\ repo'.commits = repo.commits
  BY <1>1, <1>2, <1>3
<1> QED BY <1>4, FilesWritten DEF Write

LEMMA MishapsStay ==
    ASSUME Inv, UNCHANGED mishaps PROVE mishaps' \in Nat /\ mishaps' >= mishaps
<1>1. mishaps \in Nat
  BY DEF Inv, TypeInv
<1> QED BY <1>1

LEMMA EvidenceType ==
    ASSUME Inv, NEW c \in Candidates, HasEvidence(c)
    PROVE  space[c] \in Workspaces /\ space[c].evidence \in Evidences
BY DEF Inv, TypeInv, HasEvidence, Workspaces

LEMMA WriteReviewKeeps == ASSUME Inv, WriteReview PROVE Inv'
<1>1. space["A"].evidence \in Evidences
  BY EvidenceType DEF WriteReview, Candidates
<1>2. EarlierReview \in Evidences
  BY <1>1 DEF EarlierReview, Evidences
<1>3. CASE Write("review", space["A"].evidence) /\ UNCHANGED mishaps
  BY <1>1, <1>3, MishapsStay, Written
<1>4. CASE Write("review", EarlierReview) /\ Mishap
  BY <1>2, <1>4, MishapCounts, Written
<1> QED BY <1>3, <1>4 DEF WriteReview

LEMMA BuildTrustKeeps == ASSUME Inv, BuildTrust PROVE Inv'
<1>1. space["A"].evidence \in Evidences /\ repo.work.review = space["A"].evidence
  BY EvidenceType DEF BuildTrust, Candidates
<1>2. TrustOf(space["A"].evidence, repo.work.review) \in Trusts
  BY <1>1 DEF TrustOf, Evidences, Trusts
<1>3. Write("trust", TrustOf(space["A"].evidence, repo.work.review)) /\ UNCHANGED mishaps
  BY DEF BuildTrust
<1> QED BY <1>2, <1>3, MishapsStay, Written

LEMMA WriteApprovalKeeps == ASSUME Inv, WriteApproval PROVE Inv'
<1>1. PICK anchor \in 1 .. HeadCommit :
          /\ repo.commits[anchor].trust # Absent
          /\ Write("approval", [anchor |-> anchor,
                                trust |-> repo.commits[anchor].trust,
                                review |-> repo.commits[anchor].review])
  BY DEF WriteApproval
<1>2. repo.commits[anchor] \in Files /\ anchor \in Nat
  BY DEF Inv, TypeInv, HeadCommit
<1>3. [anchor |-> anchor, trust |-> repo.commits[anchor].trust,
       review |-> repo.commits[anchor].review] \in Approvals
  BY <1>1, <1>2 DEF Files, Approvals
<1>4. UNCHANGED mishaps
  BY DEF WriteApproval
<1> QED BY <1>1, <1>3, <1>4, MishapsStay, Written

LEMMA DiscardKeeps == ASSUME Inv, Discard PROVE Inv'
<1>1. PICK file \in DOMAIN NoFiles : Write(file, Absent)
  BY DEF Discard
<1>2. file \in {"trust", "review", "approval"}
  BY DEF NoFiles
<1>3. mishaps' \in Nat /\ mishaps' >= mishaps
  BY MishapCounts DEF Discard
<1> QED BY <1>1, <1>2, <1>3, Written

\* A commit is added; those that are there stay as they are.
LEMMA CommitKeeps == ASSUME Inv, Commit PROVE Inv'
<1>1. TypeInv /\ UNCHANGED <<world, space, run, mishaps, tempRoot>>
      /\ repo \in [commits : Seq(Files), work : Files]
      /\ repo' = [repo EXCEPT !.commits = Append(@, repo.work)]
  BY DEF Inv, Commit, TypeInv
<1>2. /\ repo' \in [commits : Seq(Files), work : Files]
      /\ repo'.commits = Append(repo.commits, repo.work)
  BY <1>1, AppendProperties
<1>3. /\ Len(repo'.commits) = HeadCommit + 1 /\ HeadCommit \in Nat
      /\ \A i \in 1 .. HeadCommit : repo'.commits[i] = repo.commits[i]
  BY <1>1, <1>2, AppendProperties DEF HeadCommit
<1>4. TypeInv' /\ Numbered' /\ \A c \in Candidates : Working(c)'
  <2>1. TypeInv' /\ Numbered'
    BY <1>1, <1>2 DEF Inv, TypeInv, Numbered
  <2>2. mishaps' \in Nat /\ mishaps' >= mishaps
    BY <1>1, MishapsStay
  <2> QED BY <1>1, <2>1, <2>2, OthersStay
<1>5. Begun'
  <2>1. \A i \in 1 .. HeadCommit : i \in 1 .. HeadCommit'
    BY <1>3 DEF HeadCommit
  <2>2. (run["B"].pc = "closure" \/ Closed)' => run["B"].pc = "closure" \/ Closed
    BY <1>1 DEF Closed, Verified
  <2> QED BY <1>1, <2>1, <2>2 DEF Inv, Replaying, Begun, HasEvidence
<1>6. Approved' /\ Matched'
  <2>1. Closed' => Closed /\ run["B"].anchor \in 1 .. HeadCommit
                          /\ run["B"].approval \in 1 .. HeadCommit
    BY <1>1 DEF Inv, Replaying, Begun, Closed, Verified
  <2>2. Approved'
    BY <1>1, <1>3, <2>1 DEF Inv, Replaying, Approved
  <2>3. Matched'
    BY <1>1 DEF Inv, Replaying, Matched, Trusted, Verified, TrustOf, Truth
  <2> QED BY <2>2, <2>3
<1> QED BY <1>4, <1>5, <1>6 DEF Inv, Replaying

-----------------------------------------------------------------------------
(* Replay B *)

\* In a step of the replay A's workspace, and what A is, stay.
LEMMA AStays ==
    ASSUME Inv, run' \in [Candidates -> Runs], run'["A"] = run["A"], space' = space,
           UNCHANGED <<world, repo>>, mishaps' \in Nat, mishaps' >= mishaps,
           tempRoot' \in BOOLEAN, Working("B")', Replaying'
    PROVE  Inv'
<1>1. TypeInv' /\ Numbered'
  <2>1. TypeInv'
    BY DEF Inv, TypeInv
  <2>2. Numbered'
    BY DEF Inv, TypeInv, Numbered, Things
  <2> QED BY <2>1, <2>2
<1>2. Working("A")'
  BY OthersStay DEF Candidates
<1> QED BY <1>1, <1>2 DEF Inv, Candidates

LEMMA BeginBKeeps ==
    ASSUME Inv, NEW a \in 1 .. HeadCommit, NEW p \in 1 .. HeadCommit, BeginB(a, p) PROVE Inv'
<1> DEFINE r == [NoRun EXCEPT !.pc = "closure",
                     !.commit = space["A"].evidence.commit, !.before = space["A"],
                     !.anchor = a, !.approval = p]
<1>1. /\ TypeInv /\ UNCHANGED <<world, repo, space, mishaps>> /\ tempRoot' \in BOOLEAN
      /\ space["B"] = Absent /\ HasEvidence("A")
      /\ "A" \in Candidates /\ "B" \in Candidates
      /\ mishaps' \in Nat /\ mishaps' >= mishaps
  BY MishapsStay DEF Inv, BeginB, Candidates
<1>2. /\ space["A"] \in Workspaces /\ space["A"].evidence.commit \in Nat
      /\ a \in Nat /\ p \in Nat /\ "closure" \in Places
  <2>1. space["A"] \in Workspaces /\ space["A"].evidence \in Evidences
    BY <1>1, EvidenceType
  <2>2. space["A"].evidence.commit \in Nat
    BY <2>1 DEF Evidences
  <2>3. a \in Nat /\ p \in Nat
    BY <1>1, HeadIsNumber
  <2> QED BY <2>1, <2>2, <2>3 DEF Places
<1>3. /\ r \in Runs /\ r.pc = "closure" /\ r.before = space["A"] /\ r.result = "none"
      /\ r.anchor = a /\ r.approval = p
  BY <1>2, NoRunIsRun DEF Runs, NoRun
<1>4. run' = [run EXCEPT !["B"] = r]
  BY DEF BeginB
<1> HIDE DEF r
<1>5. run' \in [Candidates -> Runs] /\ run'["B"] = r /\ run'["A"] = run["A"]
  BY <1>1, <1>3, <1>4, Moved
<1>6. Working("B")'
  BY <1>1, <1>3, <1>5, Stages, PlacesAreApart
     DEF Working, HasEvidence, Early, Over, Laid, Installed, Filled, Ran, Reported
<1>7. ~Closed' /\ ~Trusted' /\ ~Verified'
  BY <1>3, <1>5, PlacesAreApart DEF Closed, Trusted, Verified
<1>8. Replaying'
  BY <1>1, <1>2, <1>3, <1>5, <1>7 DEF Replaying, Begun, Approved, Matched, HasEvidence, HeadCommit
<1> QED BY <1>1, <1>5, <1>6, <1>8, AStays DEF TypeInv

\* B fails, in a step of its own.
LEMMA ReplayFails ==
    ASSUME Inv, Fail("B"), space' = space, Outside, UNCHANGED tempRoot
    PROVE  Inv'
BY FailsQuietly DEF Candidates

LEMMA VerifyClosureKeeps == ASSUME Inv, VerifyClosure PROVE Inv'
<1> DEFINE a == run["B"].anchor
           p == run["B"].approval
<1>1. /\ TypeInv /\ run["B"].pc = "closure" /\ space' = space
      /\ UNCHANGED <<world, repo, mishaps>> /\ Outside
      /\ "A" \in Candidates /\ "B" \in Candidates /\ "trust A" \in Places
      /\ mishaps' \in Nat /\ mishaps' >= mishaps
  BY MishapsStay DEF Inv, VerifyClosure, Outside, Candidates, At, Places
<1>2. CASE Closure(a, p)
  <2> DEFINE r == [run["B"] EXCEPT !.pc = "trust A", !.trust = repo.commits[a].trust,
                                   !.review = repo.commits[a].review]
  <2>1. run' = [run EXCEPT !["B"] = r] /\ tempRoot' = TRUE
    BY <1>2 DEF VerifyClosure
  <2>2. Begun /\ a \in 1 .. HeadCommit /\ p \in 1 .. HeadCommit
    BY <1>1 DEF Inv, Replaying, Begun
  <2>3. repo.commits[a] \in Files /\ run["B"] \in Runs
    <3>1. repo.commits \in Seq(Files) /\ a \in 1 .. Len(repo.commits)
      BY <1>1, <2>2 DEF TypeInv, HeadCommit
    <3>2. run["B"] \in Runs
      BY <1>1 DEF TypeInv
    <3> HIDE DEF a
    <3>3. repo.commits[a] \in Files
      BY <3>1
    <3> QED BY <3>2, <3>3
  <2>4. /\ r \in Runs /\ r.pc = "trust A" /\ r.trust = repo.commits[a].trust
        /\ r.review = repo.commits[a].review
        /\ r.anchor = a /\ r.approval = p /\ r.before = run["B"].before
    BY <1>1, <2>3, ZenonT(60) DEF Runs, Files
  <2> HIDE DEF r
  <2>5. run' \in [Candidates -> Runs] /\ run'["B"] = r /\ run'["A"] = run["A"]
    BY <1>1, <2>1, <2>4, Moved
  <2>6. "trust A" \in Early /\ "closure" \in Early
    BY DEF Early
  <2>7. Working("B")'
    <3>1. space["B"] = Absent
      BY <1>1, <2>6 DEF Inv, Working
    <3> QED BY <1>1, <2>4, <2>5, <2>6, <3>1, Stages, PlacesAreApart DEF Working, HasEvidence
  <2>8. Begun'
    BY <1>1, <2>2, <2>4, <2>5 DEF Begun, HasEvidence, HeadCommit
  <2>9. Approved'
    <3>1. /\ a < p /\ repo.commits[p].approval # Absent
          /\ repo.commits[p].approval.anchor = a
          /\ repo.commits[p].approval.trust = repo.commits[a].trust
          /\ repo.commits[p].approval.review = repo.commits[a].review
      BY <1>2 DEF Closure
    <3> QED BY <1>1, <2>4, <2>5, <3>1 DEF Approved
  <2>10. ~Trusted' /\ ~Verified'
    BY <2>4, <2>5, PlacesAreApart DEF Trusted, Verified
  <2>11. Replaying'
    BY <2>8, <2>9, <2>10 DEF Replaying, Matched
  <2> QED BY <1>1, <2>1, <2>5, <2>7, <2>11, AStays
<1>3. CASE ~Closure(a, p)
  <2>1. Fail("B") /\ UNCHANGED tempRoot
    BY <1>3 DEF VerifyClosure
  <2> QED BY <1>1, <2>1, ReplayFails
<1> QED BY <1>2, <1>3

LEMMA VerifyTrustOfAKeeps == ASSUME Inv, VerifyTrustOfA PROVE Inv'
<1>1. /\ TypeInv /\ run["B"].pc = "trust A" /\ space' = space /\ UNCHANGED tempRoot
      /\ UNCHANGED <<world, repo, mishaps>> /\ Outside
      /\ "A" \in Candidates /\ "B" \in Candidates /\ "roots" \in Places
      /\ mishaps' \in Nat /\ mishaps' >= mishaps
  BY MishapsStay DEF Inv, VerifyTrustOfA, Outside, Candidates, At, Places, Guarded
<1>2. CASE TrustHolds("A") /\ Content("runtime") = run["B"].before.evidence.runtime
  <2> DEFINE r == [run["B"] EXCEPT !.pc = "roots", !.runtime = world["runtime"]]
  <2>1. run' = [run EXCEPT !["B"] = r]
    BY <1>2 DEF VerifyTrustOfA
  <2>2. run["B"] \in Runs /\ world["runtime"] \in Things /\ world["runtime"].id <= mishaps
    BY <1>1 DEF TypeInv, Objects, Inv, Numbered
  <2>3. /\ r \in Runs /\ r.pc = "roots" /\ r.runtime = world["runtime"]
        /\ r.trust = run["B"].trust /\ r.review = run["B"].review
        /\ r.anchor = run["B"].anchor /\ r.approval = run["B"].approval
        /\ r.before = run["B"].before
    BY <1>1, <2>2 DEF Runs
  <2> HIDE DEF r
  <2>4. run' \in [Candidates -> Runs] /\ run'["B"] = r /\ run'["A"] = run["A"]
    BY <1>1, <2>1, <2>3, Moved
  <2>5. Closed /\ Begun /\ Approved
    BY <1>1 DEF Closed, Inv, Replaying
  <2>6. Working("B")'
    <3>1. space["B"] = Absent
      BY <1>1 DEF Inv, Working, Early
    <3> QED BY <1>1, <2>2, <2>3, <2>4, <3>1, Stages DEF Working, HasEvidence
  <2>7. Begun' /\ Approved'
    BY <1>1, <2>3, <2>4, <2>5 DEF Begun, Approved, HasEvidence, HeadCommit
  <2>8. ~Verified'
    BY <2>3, <2>4, Stages, PlacesAreApart DEF Verified
  <2>9. /\ run["B"].review = run["B"].before.evidence
        /\ TrustOf(space["A"].evidence, run["B"].review) = run["B"].trust
    BY <1>2 DEF TrustHolds
  <2>10. Replaying'
    BY <1>1, <2>3, <2>4, <2>7, <2>8, <2>9 DEF Replaying, Matched, TrustOf
  <2> QED BY <1>1, <2>4, <2>6, <2>10, AStays DEF TypeInv
<1>3. CASE Fail("B")
  BY <1>1, <1>3, ReplayFails
<1> QED BY <1>2, <1>3 DEF VerifyTrustOfA

LEMMA CompareCandidatesKeeps == ASSUME Inv, CompareCandidates PROVE Inv'
<1>1. /\ TypeInv /\ run["B"].pc = "finished" /\ space' = space /\ UNCHANGED tempRoot
      /\ UNCHANGED <<world, repo, mishaps>> /\ Outside
      /\ "A" \in Candidates /\ "B" \in Candidates /\ "cleanup" \in Places /\ "ok" \in Results
      /\ "finished" \in Reported /\ "finished" \in Guarded
      /\ mishaps' \in Nat /\ mishaps' >= mishaps
  BY MishapsStay DEF Inv, CompareCandidates, Outside, Candidates, At, Places, Over, Results,
                     Guarded, Reported
<1>2. CASE /\ TrustHolds("B")
           /\ run' = [run EXCEPT !["B"].pc = "cleanup", !["B"].result = "ok"]
  <2>1. /\ run' \in [Candidates -> Runs] /\ run'["B"].pc = "cleanup"
        /\ SameMemory(run'["B"], run["B"]) /\ run'["A"] = run["A"]
    BY <1>1, <1>2, EndedAs
  <2>2. Closed /\ Trusted /\ Begun /\ Approved /\ Matched /\ Truth("B")
    BY <1>1 DEF Closed, Trusted, Inv, Replaying, Working
  <2>3. Working("B")'
    BY <1>1, <2>1, <2>2
       DEF Working, HasEvidence, Truth, Early, Over, Guarded, Laid, Installed, Filled, Ran,
           Reported
  <2>4. TrustOf(space["B"].evidence, run["B"].review) = run["B"].trust
    BY <1>2 DEF TrustHolds
  <2>5. Begun' /\ Approved'
    BY <1>1, <2>1, <2>2 DEF Begun, Approved, HasEvidence, HeadCommit, SameMemory
  <2>6. Matched'
    BY <1>1, <2>1, <2>2, <2>4 DEF Matched, TrustOf, Truth, SameMemory
  <2> QED BY <1>1, <2>1, <2>3, <2>5, <2>6, AStays DEF Replaying, TypeInv
<1>3. CASE Fail("B")
  BY <1>1, <1>3, ReplayFails
<1> QED BY <1>2, <1>3 DEF CompareCandidates

\* Whichever way it ends, a replay that is over knows what it knew.
LEMMA ReplayEnds ==
    ASSUME Inv, run["B"].pc = "cleanup", NEW result \in Results,
           run' = [run EXCEPT !["B"].pc = "returned", !["B"].result = result],
           result = "ok" => run["B"].result = "ok" /\ tempRoot' = FALSE,
           tempRoot' \in BOOLEAN, space' = space, UNCHANGED <<world, repo>>,
           mishaps' \in Nat, mishaps' >= mishaps
    PROVE  Inv'
<1>1. TypeInv /\ "returned" \in Places /\ "B" \in Candidates /\ "A" \in Candidates
      /\ "cleanup" \in Over /\ "returned" \in Over
  BY DEF Inv, Places, Over, Candidates
<1>2. /\ run' \in [Candidates -> Runs] /\ run'["B"].pc = "returned"
      /\ run'["B"].result = result
      /\ SameMemory(run'["B"], run["B"]) /\ run'["A"] = run["A"]
  BY <1>1, EndedAs
<1>3. Working("B")'
  BY <1>1, <1>2
     DEF Inv, Working, HasEvidence, Truth, Early, Over, Guarded, Laid, Installed, Filled, Ran,
         Reported
<1>4. /\ Verified' => Verified /\ ~tempRoot'
      /\ Closed' => Verified'
      /\ Trusted' => Verified'
  BY <1>1, <1>2, PlacesAreApart DEF Verified, Closed, Trusted
<1>5. Verified => Closed /\ Trusted
  BY DEF Verified, Closed, Trusted
<1>6. Begun' /\ Approved'
  BY <1>2, <1>4, <1>5 DEF Inv, Replaying, Begun, Approved, HasEvidence, HeadCommit, SameMemory
<1>7. Matched'
  BY <1>2, <1>4, <1>5 DEF Inv, Replaying, Matched, TrustOf, Truth, SameMemory
<1> QED BY <1>2, <1>3, <1>6, <1>7, AStays DEF Replaying

LEMMA CleanupAfterBKeeps == ASSUME Inv, CleanupAfterB PROVE Inv'
<1> DEFINE result == IF space["A"] = run["B"].before THEN run["B"].result ELSE "failed"
<1>1. /\ run["B"].pc = "cleanup" /\ tempRoot' = FALSE /\ space' = space
      /\ UNCHANGED <<world, repo>>
      /\ run' = [run EXCEPT !["B"].pc = "returned", !["B"].result = result]
  BY DEF CleanupAfterB, At, Outside
<1>2. mishaps' \in Nat /\ mishaps' >= mishaps
  BY MishapsStay DEF CleanupAfterB, Outside
<1>3. result \in Results /\ (result = "ok" => run["B"].result = "ok")
  <2>1. run["B"].result \in Results
    BY DEF Inv, TypeInv, Runs, Candidates
  <2> QED BY <2>1 DEF Results
<1> HIDE DEF result
<1> QED BY <1>1, <1>2, <1>3, ReplayEnds

LEMMA CleanupFaultKeeps == ASSUME Inv, CleanupFault PROVE Inv'
<1>1. /\ run["B"].pc = "cleanup" /\ space' = space
      /\ UNCHANGED <<world, repo>> /\ tempRoot' \in BOOLEAN
      /\ run' = [run EXCEPT !["B"].pc = "returned", !["B"].result = "failed"]
  BY DEF CleanupFault, At, Inv, TypeInv
<1>2. mishaps' \in Nat /\ mishaps' >= mishaps
  BY MishapCounts DEF CleanupFault
<1>3. "failed" \in Results /\ "failed" # "ok"
  BY DEF Results
<1> QED BY <1>1, <1>2, <1>3, ReplayEnds

-----------------------------------------------------------------------------
(* The theorems *)

LEMMA InitInv == Init => Inv
<1> SUFFICES ASSUME Init PROVE Inv
  OBVIOUS
<1>1. /\ world = [x \in Objects |-> [content |-> 0, id |-> 0]] /\ mishaps = 0
      /\ space = [c \in Candidates |-> Absent] /\ run = [c \in Candidates |-> NoRun]
      /\ repo = [commits |-> <<NoFiles>>, work |-> NoFiles] /\ tempRoot = FALSE
  BY DEF Init, CandidateInit
<1>2. TypeInv
  <2>1. [content |-> 0, id |-> 0] \in Things
    BY DEF Things, Contents
  <2>2. NoFiles \in Files
    BY DEF NoFiles, Files
  <2>3. <<NoFiles>> \in Seq(Files)
    BY <2>2
  <2>4. repo \in [commits : Seq(Files), work : Files]
    BY <1>1, <2>2, <2>3
  <2>5. world \in [Objects -> Things]
    BY <1>1, <2>1
  <2>6. run \in [Candidates -> Runs]
    BY <1>1, NoRunIsRun
  <2> QED BY <1>1, <2>4, <2>5, <2>6 DEF TypeInv
<1>3. Numbered
  BY <1>1 DEF Numbered
<1>4. NoRun.pc = "idle" /\ \A c \in Candidates : run[c].pc = "idle" /\ space[c] = Absent
  BY <1>1 DEF NoRun
<1>5. \A c \in Candidates : Working(c)
  BY <1>4, Stages, PlacesAreApart DEF Working, HasEvidence, Early, Over
<1>6. run["B"].pc = "idle"
  BY <1>4 DEF Candidates
<1>7. Replaying
  BY <1>6, PlacesAreApart DEF Replaying, Begun, Approved, Matched, Closed, Trusted, Verified, Over
<1> QED BY <1>2, <1>3, <1>5, <1>7 DEF Inv

LEMMA NextInv == Inv /\ [Next]_vars => Inv'
<1> SUFFICES ASSUME Inv, [Next]_vars PROVE Inv'
  OBVIOUS
<1>1. CASE UNCHANGED vars
  <2>1. UNCHANGED <<world, space, run, tempRoot>> /\ repo' = repo /\ mishaps' = mishaps
    BY <1>1 DEF vars
  <2>2. mishaps' \in Nat /\ mishaps' >= mishaps
    BY <2>1, MishapsStay
  <2>3. repo' \in [commits : Seq(Files), work : Files]
    BY <2>1 DEF Inv, TypeInv
  <2> QED BY <2>1, <2>2, <2>3, FilesWritten
<1>2. CASE BeginA \/ FinishA
  BY <1>2, BeginAKeeps, FinishAKeeps
<1>3. CASE WriteReview \/ BuildTrust \/ WriteApproval \/ Discard \/ Commit
  BY <1>3, WriteReviewKeeps, BuildTrustKeeps, WriteApprovalKeeps, DiscardKeeps, CommitKeeps
<1>4. CASE \E a, p \in 1 .. HeadCommit : BeginB(a, p)
  BY <1>4, BeginBKeeps
<1>5. CASE VerifyClosure \/ VerifyTrustOfA \/ CompareCandidates \/ CleanupAfterB \/ CleanupFault
  BY <1>5, VerifyClosureKeeps, VerifyTrustOfAKeeps, CompareCandidatesKeeps, CleanupAfterBKeeps,
     CleanupFaultKeeps
<1>6. CASE UNCHANGED tempRoot /\ \E c \in Candidates : CandidateNext(c)
  BY <1>6, CandidateKeeps
<1>7. CASE UNCHANGED tempRoot /\ \E x \in Objects : Replace(x)
  BY <1>7, ReplaceKeeps
<1> QED BY <1>1, <1>2, <1>3, <1>4, <1>5, <1>6, <1>7 DEF Next

\* The state of Gate E has its type: workspaces, runs, evidence and repository
\* are what the operators of GateE and GateECandidate take them to be.
THEOREM GateEIsTyped == Spec => []TypeInv
<1>1. Inv => TypeInv
  BY DEF Inv
<1> QED BY <1>1, InitInv, NextInv, PTL DEF Spec

\* _write_candidate_evidence: whatever is replaced and restored between any two
\* steps of a candidate, and wherever it fails or dies, evidence names the wheel
\* and the one runtime that made its artifact, from the inputs of the release.
THEOREM EvidenceAlwaysTrue == Spec => []EvidenceIsOfWhatRan
<1>1. Inv => EvidenceIsOfWhatRan
  BY DEF Inv, Working, Truth, EvidenceIsOfWhatRan
<1> QED BY <1>1, InitInv, NextInv, PTL DEF Spec

\* replay_environment_b: "verified" is only said of an artifact that an anchor
\* and a later commit approved by name, and that both candidates made equal.
THEOREM ReplaysAreApproved == Spec => []VerifiedReplayIsApproved
<1>1. Inv => VerifiedReplayIsApproved
  <2> SUFFICES ASSUME Inv, run["B"].pc = "returned", run["B"].result = "ok"
               PROVE  VerifiedReplayIsApproved
    BY DEF VerifiedReplayIsApproved, At
  <2>1. Verified /\ Closed /\ Trusted
    BY DEF Verified, Closed, Trusted, Over
  <2>2. Begun /\ Approved /\ Matched
    BY DEF Inv, Replaying
  <2>3. Truth("A") /\ Truth("B")
    BY <2>1, <2>2 DEF Matched, Begun, Inv, Working, Candidates
  <2>4. ASSUME NEW c \in Candidates
        PROVE  /\ space[c].evidence.commit = run["B"].trust.commit
               /\ space[c].artifact = run["B"].trust.artifact
               /\ space[c].artifact.code = run["B"].trust.sealed
               /\ space[c].artifact.runtimes = {run["B"].trust.runtime}
    <3>1. TrustOf(space[c].evidence, run["B"].review) = run["B"].trust /\ Truth(c)
      BY <2>1, <2>2, <2>3 DEF Matched, Candidates
    <3> QED BY <3>1 DEF TrustOf, Truth
  <2>5. ~tempRoot /\ run["B"].review = run["B"].before.evidence
    BY <2>1, <2>2 DEF Matched
  <2> QED BY <2>1, <2>2, <2>4, <2>5 DEF Approved, VerifiedReplayIsApproved
<1> QED BY <1>1, InitInv, NextInv, PTL DEF Spec

=============================================================================
