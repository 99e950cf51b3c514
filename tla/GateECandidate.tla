--------------------------- MODULE GateECandidate ---------------------------
(***************************************************************************)
(* Gate E runs the released portfolio in a workspace of its own: candidate *)
(* "A" first, later "B", which repeats it (gate_e/replay.py, gate_e/       *)
(* environment.py, gate_e/inputs.py).  A run has seven stages; it trusts   *)
(* nothing to stay as it was, so it compares, before and after, either the *)
(* identity of an object (what replaces it, or is restored, has another)   *)
(* or its content:                                                         *)
(*                                                                         *)
(*    world   object -> [content, id]                                      *)
(*            "runtime"   Python and uv            (by identity)           *)
(*            "sealed"    wheel and wheelhouse     (by content)            *)
(*            "release"   config, lock and inputs  (by content; 0 is the   *)
(*                        content the configuration module pins)           *)
(*    repo    the repository: its commits, and the working tree            *)
(*    space   candidate -> its workspace, or Absent                        *)
(*    run     candidate -> the run it is in                                *)
(*    mishaps replacements, faults and crashes so far (MaxMishaps)         *)
(*                                                                         *)
(* An artifact remembers what it was really made with, which no code can   *)
(* read from it: that is what the evidence about it is compared with.      *)
(***************************************************************************)
EXTENDS Naturals, Sequences

CONSTANTS
    Absent,
    MaxMishaps        \* bound: see mishaps

VARIABLES world, repo, space, run, mishaps

Candidates == {"A", "B"}
Objects == {"runtime", "sealed", "release"}
Content(x) == world[x].content
HashSeed(c) == IF c = "A" THEN 101 ELSE 909

\* Contents are 0, what was there at first, 1, something else that says it is of
\* the same version (an edited file, a rebuilt wheel), and 2, another version.
Contents == {0, 1, 2}
Version(content) == content \div 2
Things == [content : Contents, id : Nat]
Artifacts == [code : Contents, runtimes : SUBSET Contents, inputs : Contents, seed : Nat]
Evidences == [commit : Nat, runtime : Contents, sealed : Contents, packages : Nat,
              artifact : Artifacts]
Workspaces ==
    [madeBy : SUBSET Contents, venv : Things \cup {Absent},
     project : {"scaffold", "aside", "staged"}, inputs : Things \cup {Absent},
     artifact : Artifacts \cup {Absent}, evidence : Evidences \cup {Absent}]

ASSUME AbsentAssumption == Absent \notin Workspaces

\* The directories of a fresh workspace, with a venv made by a runtime.
FreshWorkspace(runtime) ==
    [madeBy |-> {runtime}, venv |-> Absent, project |-> "scaffold", inputs |-> Absent,
     artifact |-> Absent, evidence |-> Absent]

\* What a run holds in memory; a B run also holds what its approval rests on.
NoRun == [pc |-> "idle", result |-> "none", commit |-> 0, runtime |-> Absent,
          python |-> Absent, sealed |-> Absent, tree |-> Absent, inputs |-> Absent,
          anchor |-> 0, approval |-> 0, trust |-> Absent, review |-> Absent,
          before |-> Absent]

At(c, pc) == run[c].pc = pc
Goto(c, pc) == run' = [run EXCEPT ![c].pc = pc]
\* A Gate E error ends a run; B's has a finally.
Fail(c) == run' = [run EXCEPT ![c].pc = IF c = "A" THEN "returned" ELSE "cleanup",
                              ![c].result = "failed"]
Update(c, field, value) == space' = [space EXCEPT ![c][field] = value]

\* verify_runtime_execution_guard and verify_environment_execution_guard: the
\* same object, not only the same bytes.
SameBytes(object, guard) ==               \* mutation: compares what is read
    object.content = guard.content
SameObject(object, guard) == object = guard

\* What happens to none of the candidates' own variables.
Outside == UNCHANGED <<world, repo, mishaps>>

-----------------------------------------------------------------------------
(* Stages 1 to 3: trust roots, wheels, environment *)

\* _require_candidate_a_repository: nothing uncommitted, nothing committed since
\* the run began, no trust file.
CleanForA(c) ==
    /\ Len(repo.commits) = run[c].commit
    /\ repo.work = repo.commits[Len(repo.commits)]
    /\ repo.work.trust = Absent

VerifyTrustRoots(c) ==
    /\ At(c, "roots")
    /\ IF Content("release") = 0 /\ (c = "A" => CleanForA(c))
       THEN Goto(c, "wheel") ELSE Fail(c)
    /\ UNCHANGED space /\ Outside

VerifyWheel(c) ==
    /\ At(c, "wheel")
    /\ run' = [run EXCEPT ![c].pc = "guard layout", ![c].sealed = Content("sealed")]
    /\ UNCHANGED space /\ Outside

\* The runtime is looked at before and after what it runs.
CheckRuntime(c, before, next) ==
    /\ At(c, before)
    /\ IF SameObject(world["runtime"], run[c].runtime) THEN Goto(c, next) ELSE Fail(c)
    /\ UNCHANGED space /\ Outside

\* make_environment_layout: the workspace must not exist.
MakeLayout(c) ==
    /\ At(c, "layout")
    /\ IF space[c] = Absent
       THEN /\ space' = [space EXCEPT ![c] = FreshWorkspace(Content("runtime"))]
            /\ Goto(c, "guard install")
       ELSE Fail(c) /\ UNCHANGED space
    /\ Outside

\* install_gate_e_environment: checks the wheels, installs, checks them again,
\* takes away write permission and records the tree.
Install(c) ==
    /\ At(c, "install")
    /\ IF Content("sealed") = run[c].sealed
       THEN LET tree == [content |-> Content("sealed"), id |-> 0] IN
            /\ space' = [space EXCEPT ![c].venv = tree, ![c].madeBy = @ \cup {Content("runtime")}]
            /\ run' = [run EXCEPT ![c].pc = "guard inputs", ![c].tree = tree]
       ELSE Fail(c) /\ UNCHANGED space
    /\ Outside

-----------------------------------------------------------------------------
(* Stage 4: inputs.  The empty project is set aside, the release's inputs are
   copied into a staging directory which is renamed in its place. *)

SetScaffoldAside(c) ==
    /\ At(c, "set aside") /\ Goto(c, "copy")
    /\ Update(c, "project", "aside") /\ Outside

\* A copy of anything but the release fails, and the scaffold is put back.
PublishStagedRoot(c) ==
    /\ At(c, "copy")
    /\ IF Content("release") = 0
       THEN /\ space' = [space EXCEPT ![c].project = "staged",
                                      ![c].inputs = [content |-> 0, id |-> 0]]
            /\ Goto(c, "verify inputs")
       ELSE Update(c, "project", "scaffold") /\ Fail(c)
    /\ Outside

\* _verify_staged_inputs: the copies and their sources have the pinned content.
StagedInputsVerify(c) ==
    /\ space[c].inputs # Absent
    /\ space[c].inputs.content = 0 /\ Content("release") = 0

\* The config is copied, everything verified, and the copies' state recorded.
VerifyInputs(c) ==
    /\ At(c, "verify inputs")
    /\ IF StagedInputsVerify(c)
       THEN run' = [run EXCEPT ![c].pc = "guard run", ![c].inputs = space[c].inputs]
       ELSE Fail(c)
    /\ UNCHANGED space /\ Outside

-----------------------------------------------------------------------------
(* Stages 5 and 6: the portfolio is run, then verified from its artifact.
   run_sandboxed_with_environment_guard takes a guard of the venv's Python and
   compares the venv before the command, and both after it. *)

Commands == {"run", "reverse"}
GuardOf(command) == IF command = "run" THEN "guard run" ELSE "guard reverse"
RecheckOf(command) == IF command = "run" THEN "recheck run" ELSE "recheck reverse"

GuardCommand(c, command) ==
    /\ At(c, GuardOf(command))
    /\ IF SameObject(space[c].venv, run[c].tree)
       THEN run' = [run EXCEPT ![c].pc = command, ![c].python = world["runtime"]]
       ELSE Fail(c)
    /\ UNCHANGED space /\ Outside

\* What the portfolio writes may depend on the hash seed: it should not.
RunPortfolio(c) ==
    /\ At(c, "run") /\ Goto(c, "recheck run")
    /\ \E seed \in {0, HashSeed(c)} :
          Update(c, "artifact",
                 [code |-> space[c].venv.content,
                  runtimes |-> space[c].madeBy \cup {Content("runtime")},
                  inputs |-> space[c].inputs.content, seed |-> seed])
    /\ Outside

\* Verification repeats the run from the inputs; other inputs give another run.
ReverseCandidate(c) ==
    /\ At(c, "reverse")
    /\ IF space[c].inputs.content = space[c].artifact.inputs
       THEN Goto(c, "recheck reverse") ELSE Fail(c)
    /\ UNCHANGED space /\ Outside

\* The inputs are verified again after each command: same content, same state.
Recheck(c, command) ==
    /\ At(c, RecheckOf(command))
    /\ IF /\ SameObject(world["runtime"], run[c].python)
          /\ SameObject(space[c].venv, run[c].tree)
          /\ StagedInputsVerify(c) /\ SameObject(space[c].inputs, run[c].inputs)
       THEN Goto(c, IF command = "run" THEN "guard reverse" ELSE "audit") ELSE Fail(c)
    /\ UNCHANGED space /\ Outside

-----------------------------------------------------------------------------
(* Stage 7: audit and evidence *)

\* _candidate_payload, from what the audit has seen: of the packages installed,
\* their names and versions.
Evidence(c, commit, artifact) ==
    [commit |-> commit, runtime |-> Content("runtime"), sealed |-> Content("sealed"),
     packages |-> Version(space[c].venv.content), artifact |-> artifact]

\* Everything once more, with the objects of the run.  The evidence is made from
\* what is read here, and written in a step of its own.
AuditCandidate(c) ==
    /\ At(c, "audit")
    /\ IF /\ SameObject(world["runtime"], run[c].runtime)
          /\ space[c].artifact.inputs = 0 /\ StagedInputsVerify(c)
          /\ SameObject(space[c].inputs, run[c].inputs)
          /\ Content("sealed") = run[c].sealed
          /\ SameObject(space[c].venv, run[c].tree)
       THEN Goto(c, "evidence") ELSE Fail(c)
    /\ UNCHANGED space /\ Outside

\* _write_candidate_evidence, once; the runtime is looked at again only after it.
WriteEvidence(c) ==
    /\ At(c, "evidence")
    /\ IF space[c].evidence = Absent
       THEN /\ Goto(c, "guard result")
            /\ Update(c, "evidence",
                   [commit |-> run[c].commit, runtime |-> run[c].runtime.content,
                    sealed |-> run[c].sealed, packages |-> Version(run[c].tree.content),
                    artifact |-> space[c].artifact])
       ELSE Fail(c) /\ UNCHANGED space
    /\ Outside

-----------------------------------------------------------------------------
(* Evidence read back *)

HasEvidence(c) == space[c] # Absent /\ space[c].evidence # Absent

\* _audit_verified_candidate: all that the evidence says is derived again from
\* what is there now, and must be the same; the tree that was installed is not
\* known any more, so other code of the same version passes.
ReAudit(c) ==
    LET e == space[c].evidence IN
    /\ Content("release") = 0 /\ StagedInputsVerify(c)
    /\ space[c].artifact.inputs = 0
    /\ Evidence(c, e.commit, space[c].artifact) = e

-----------------------------------------------------------------------------
(* Mishaps *)

Mishap == mishaps < MaxMishaps /\ mishaps' = mishaps + 1
Others(object) == [content : Contents \ {object.content}, id : {mishaps + 1}]

\* An upgrade, a rebuild, a restore: another object takes an object's name.
Replace(x) ==
    /\ Mishap
    /\ \E other \in Others(world[x]) : world' = [world EXCEPT ![x] = other]
    /\ UNCHANGED <<repo, space, run>>

ReplaceInWorkspace(c, field) ==
    /\ space[c] # Absent /\ space[c][field] # Absent /\ Mishap
    /\ \E other \in Others(space[c][field]) : Update(c, field, other)
    /\ UNCHANGED <<world, repo, run>>

Running(c) == run[c].pc \notin {"idle", "returned", "cleanup"}

\* A step fails: no error is passed over.  Inputs not published yet leave the
\* scaffold in its place; evidence may be written and still be reported missing.
Fault(c) ==
    /\ Running(c) /\ Mishap /\ Fail(c)
    /\ IF At(c, "copy")
       THEN \E left \in {"scaffold", "aside"} : Update(c, "project", left)
       ELSE UNCHANGED space
    /\ UNCHANGED <<world, repo>>

\* The process dies, wherever it is.
Crash(c) ==
    /\ run[c].pc \notin {"idle", "returned"} /\ Mishap
    /\ run' = [run EXCEPT ![c].pc = "returned", ![c].result = "crashed"]
    /\ UNCHANGED <<world, repo, space>>

-----------------------------------------------------------------------------

CandidateInit ==
    /\ world = [x \in Objects |-> [content |-> 0, id |-> 0]]
    /\ space = [c \in Candidates |-> Absent]
    /\ run = [c \in Candidates |-> NoRun]
    /\ mishaps = 0

CandidateNext(c) ==
    \/ VerifyTrustRoots(c) \/ VerifyWheel(c)
    \/ CheckRuntime(c, "guard layout", "layout") \/ MakeLayout(c)
    \/ CheckRuntime(c, "guard install", "install") \/ Install(c)
    \/ CheckRuntime(c, "guard inputs", "set aside")
    \/ CheckRuntime(c, "guard result", "finished")
    \/ SetScaffoldAside(c) \/ PublishStagedRoot(c) \/ VerifyInputs(c)
    \/ \E command \in Commands : GuardCommand(c, command) \/ Recheck(c, command)
    \/ RunPortfolio(c) \/ ReverseCandidate(c) \/ AuditCandidate(c) \/ WriteEvidence(c)
    \/ \E field \in {"venv", "inputs"} : ReplaceInWorkspace(c, field)
    \/ Fault(c) \/ Crash(c)

-----------------------------------------------------------------------------

\* Evidence tells the truth about its artifact: the code that ran was the wheel
\* named, the only runtimes that had a hand in it were the one named, and the
\* inputs were the release's, whatever was replaced or restored meanwhile and
\* whether or not the run that wrote it succeeded.
EvidenceIsOfWhatRan ==
    \A c \in Candidates : HasEvidence(c) =>
        LET e == space[c].evidence IN
        /\ e.artifact = space[c].artifact
        /\ e.artifact.code = e.sealed /\ e.packages = Version(e.sealed)
        /\ e.artifact.runtimes = {e.runtime}
        /\ e.artifact.inputs = 0

=============================================================================
