------------------------------- MODULE GateE --------------------------------
(***************************************************************************)
(* Gate E as a whole (gate_e/replay.py, gate_e/trust.py): a run of         *)
(* candidate A, a human review of its evidence, a trust blob built from    *)
(* both and committed (the anchor), a later commit that approves the       *)
(* anchor, and a replay B that succeeds only if it repeats what was        *)
(* approved.  People write and commit the files of the repository, in any  *)
(* order, and now and then the wrong ones, which counts as a mishap.       *)
(*                                                                         *)
(*    repo.commits   the files of each commit, a line of history           *)
(*    repo.work      the files of the working tree                         *)
(*    tempRoot       the temporary directory of B's last call is there     *)
(***************************************************************************)
EXTENDS GateECandidate

CONSTANT MaxCommits   \* bound: commits of the repository

VARIABLE tempRoot

vars == <<world, repo, space, run, mishaps, tempRoot>>

HeadCommit == Len(repo.commits)
NoFiles == [trust |-> Absent, review |-> Absent, approval |-> Absent]

Init ==
    /\ CandidateInit
    /\ repo = [commits |-> <<NoFiles>>, work |-> NoFiles]
    /\ tempRoot = FALSE

-----------------------------------------------------------------------------
(* Candidate A *)

\* create_gate_e_replay and run_candidate_a: a workspace that is not there, the
\* commit at HEAD, and the runtime as it is now.
BeginA ==
    /\ run["A"].pc \in {"idle", "returned"} /\ space["A"] = Absent
    /\ run' = [run EXCEPT !["A"] = [NoRun EXCEPT !.pc = "roots", !.commit = HeadCommit,
                                                 !.runtime = world["runtime"]]]
    /\ UNCHANGED <<world, repo, space, mishaps, tempRoot>>

FinishA ==
    /\ At("A", "finished")
    /\ run' = [run EXCEPT !["A"].pc = "returned", !["A"].result = "ok"]
    /\ UNCHANGED <<world, repo, space, mishaps, tempRoot>>

-----------------------------------------------------------------------------
(* Review, trust and approval *)

\* A trust blob names the evidence's contents and the review it was built with.
TrustOf(evidence, review) ==
    [commit |-> evidence.commit, runtime |-> evidence.runtime,
     sealed |-> evidence.sealed, artifact |-> evidence.artifact, review |-> review]

\* The review of an earlier candidate; it binds another evidence.
EarlierReview == [space["A"].evidence EXCEPT !.commit = 0]

Write(file, content) ==
    /\ repo' = [repo EXCEPT !.work[file] = content]
    /\ UNCHANGED <<world, space, run, tempRoot>>

WriteReview ==
    /\ HasEvidence("A") /\ HeadCommit < MaxCommits
    /\ \/ Write("review", space["A"].evidence) /\ UNCHANGED mishaps
       \/ Write("review", EarlierReview) /\ Mishap

\* build_trust_from_candidate, and its output saved: the evidence audited again,
\* the review's bindings its own.
BuildTrust ==
    /\ HasEvidence("A") /\ HeadCommit < MaxCommits
    /\ repo.work.review # Absent
    /\ ReAudit("A") /\ repo.work.review = space["A"].evidence
    /\ Write("trust", TrustOf(space["A"].evidence, repo.work.review)) /\ UNCHANGED mishaps

\* A person names a commit and the blobs found in it.
WriteApproval ==
    /\ HeadCommit < MaxCommits /\ UNCHANGED mishaps
    /\ \E anchor \in 1 .. HeadCommit :
          /\ repo.commits[anchor].trust # Absent
          /\ Write("approval", [anchor |-> anchor,
                                trust |-> repo.commits[anchor].trust,
                                review |-> repo.commits[anchor].review])

Discard ==
    /\ HeadCommit < MaxCommits /\ Mishap
    /\ \E file \in DOMAIN NoFiles : repo.work[file] # Absent /\ Write(file, Absent)

Commit ==
    /\ HeadCommit < MaxCommits /\ repo.work # repo.commits[HeadCommit]
    /\ repo' = [repo EXCEPT !.commits = Append(@, repo.work)]
    /\ UNCHANGED <<world, space, run, mishaps, tempRoot>>

-----------------------------------------------------------------------------
(* Replay B *)

\* replay_environment_b: a workspace B that is not there, A's evidence loaded
\* and A's workspace remembered.  What an earlier call left of its temporary
\* directory has another name, and nobody looks at it.
BeginB(anchor, approval) ==
    /\ run["B"].pc \in {"idle", "returned"} /\ space["B"] = Absent
    /\ HasEvidence("A") /\ anchor # approval
    /\ run' = [run EXCEPT !["B"] = [NoRun EXCEPT !.pc = "closure",
           !.commit = space["A"].evidence.commit, !.before = space["A"],
           !.anchor = anchor, !.approval = approval]]
    /\ tempRoot' = FALSE
    /\ UNCHANGED <<world, repo, space, mishaps>>

\* _verify_git_approval_closure: the anchor comes before the approval; both, HEAD
\* and the working tree have the same trust blob and review, and HEAD and the
\* working tree the approval; review and approval bind A and each other.
ClosureWithoutApproval(a, p) ==           \* mutation: the approval is not read
    LET anchored == repo.commits[a]
        e == run["B"].before.evidence
    IN
    /\ a < p /\ anchored.trust # Absent /\ anchored.review # Absent
    /\ \A tree \in {repo.commits[p], repo.commits[HeadCommit], repo.work} :
          tree.trust = anchored.trust /\ tree.review = anchored.review
    /\ anchored.review.commit = e.commit /\ anchored.review.artifact = e.artifact
Closure(a, p) ==
    LET anchored == repo.commits[a]
        approval == repo.commits[p].approval
        e == run["B"].before.evidence
    IN
    /\ a < p /\ anchored.trust # Absent /\ anchored.review # Absent /\ approval # Absent
    /\ \A tree \in {repo.commits[p], repo.commits[HeadCommit], repo.work} :
          /\ tree.trust = anchored.trust /\ tree.review = anchored.review
          /\ tree.approval = approval
    /\ anchored.review.commit = e.commit /\ anchored.review.artifact = e.artifact
    /\ approval.anchor = a
    /\ approval.trust = anchored.trust /\ approval.review = anchored.review

\* The anchored blobs go into temporary files, read instead of the working tree's.
VerifyClosure ==
    LET a == run["B"].anchor IN
    /\ At("B", "closure")
    /\ IF Closure(a, run["B"].approval)
       THEN /\ run' = [run EXCEPT !["B"].pc = "trust A",
                           !["B"].trust = repo.commits[a].trust,
                           !["B"].review = repo.commits[a].review]
            /\ tempRoot' = TRUE
       ELSE Fail("B") /\ UNCHANGED tempRoot
    /\ UNCHANGED space /\ Outside

\* verify_gate_e_trust: what is there now is what the blob says, with a review
\* that binds A's evidence.
TrustHolds(c) ==
    /\ ReAudit(c)
    /\ TrustOf(space[c].evidence, run["B"].review) = run["B"].trust
    /\ run["B"].review = run["B"].before.evidence

\* _verify_candidate_trust_evidence for A, then the runtime, which must be A's.
VerifyTrustOfA ==
    /\ At("B", "trust A")
    /\ IF TrustHolds("A") /\ Content("runtime") = run["B"].before.evidence.runtime
       THEN run' = [run EXCEPT !["B"].pc = "roots", !["B"].runtime = world["runtime"]]
       ELSE Fail("B")
    /\ UNCHANGED <<space, tempRoot>> /\ Outside

\* B's evidence against the same trust, and the two candidates compared.
CompareCandidates ==
    LET a == run["B"].before.evidence
        b == space["B"].evidence
    IN
    /\ At("B", "finished")
    /\ IF /\ b.runtime = a.runtime /\ TrustHolds("B")
          /\ b.packages = a.packages
          /\ space["B"].artifact = space["A"].artifact
       THEN run' = [run EXCEPT !["B"].pc = "cleanup", !["B"].result = "ok"]
       ELSE Fail("B")
    /\ UNCHANGED <<space, tempRoot>> /\ Outside

\* The finally: the temporary files go, and A's workspace must be as it was.
CleanupAfterB ==
    /\ At("B", "cleanup")
    /\ tempRoot' = FALSE
    /\ run' = [run EXCEPT !["B"].pc = "returned",
                          !["B"].result = IF space["A"] = run["B"].before THEN @ ELSE "failed"]
    /\ UNCHANGED space /\ Outside

\* A file that is not the one written stops the removal, and is an error.
CleanupFault ==
    /\ At("B", "cleanup") /\ Mishap
    /\ run' = [run EXCEPT !["B"].pc = "returned", !["B"].result = "failed"]
    /\ UNCHANGED <<world, repo, space, tempRoot>>

-----------------------------------------------------------------------------

Next ==
    \/ BeginA \/ FinishA
    \/ WriteReview \/ BuildTrust \/ WriteApproval \/ Discard \/ Commit
    \/ \E a, p \in 1 .. HeadCommit : BeginB(a, p)
    \/ VerifyClosure \/ VerifyTrustOfA \/ CompareCandidates \/ CleanupAfterB
    \/ CleanupFault
    \/ UNCHANGED tempRoot /\ \E c \in Candidates : CandidateNext(c)
    \/ UNCHANGED tempRoot /\ \E x \in Objects : Replace(x)

Spec == Init /\ [][Next]_vars

-----------------------------------------------------------------------------

\* A replay that says "verified" was approved for what it repeats: an anchor and
\* a later commit name the same trust blob, the blob describes the wheel and the
\* runtime that made both artifacts, which are equal, and nobody touched A's
\* workspace in the meantime.
VerifiedReplayIsApproved ==
    At("B", "returned") /\ run["B"].result = "ok" =>
        LET b == run["B"]
            anchored == repo.commits[b.anchor]
            approval == repo.commits[b.approval].approval
        IN
        /\ b.anchor < b.approval /\ approval # Absent
        /\ approval.anchor = b.anchor /\ approval.trust = anchored.trust
        /\ approval.review = anchored.review /\ anchored.review = b.before.evidence
        /\ \A c \in Candidates :
              /\ space[c].evidence.commit = anchored.trust.commit
              /\ space[c].artifact = anchored.trust.artifact
              /\ space[c].artifact.code = anchored.trust.sealed
              /\ space[c].artifact.runtimes = {anchored.trust.runtime}
        /\ ~tempRoot

=============================================================================
