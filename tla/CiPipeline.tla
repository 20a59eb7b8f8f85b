----------------------------- MODULE CiPipeline -----------------------------
(***************************************************************************)
(* .github/workflows/rt-control-ci.yml and tools/quality_gate.sh: the      *)
(* three gates put together.  A CI run executes the workflow its commit    *)
(* brings along, so the repository gate, which judges that workflow, is    *)
(* itself started (or not) by it.  The same gate also runs alone, from the *)
(* pre-commit hook, on a worktree that is edited meanwhile.                *)
(*                                                                         *)
(* A step is a line of a job's run texts: the command it executes, which   *)
(* of the required commands' names its text contains (a comment, an echo   *)
(* or "colcon test-result" contains one and executes another, or nothing), *)
(* its `if:` ("always", "pull_request" or "never"), and whether a failure  *)
(* is tolerated (`|| true`, continue-on-error).  The jobs' containers are  *)
(* fresh checkouts; GitHub's runner and the commands other than the gates  *)
(* are external and may fail.                                              *)
(*                                                                         *)
(* An operator that stands just before another one and is used nowhere is  *)
(* a mutated form of it: a bug the properties are shown to catch.          *)
(***************************************************************************)
EXTENDS DiffLegacy, RepositoryGate, PrContractGate

CONSTANTS
  Commits,     \* what may be pushed: [worktree, roots, kind, body]
  Worktrees,   \* where the hook may run: [worktree, index]
  Edits,       \* what may be edited meanwhile: <<path, content>>, or <<path>> to remove it
  MaxEdits     \* how often (bound)

StepType ==
  [run : STRING, text : SUBSET (GovernanceCommands \cup BuildCommands),
   when : {"always", "pull_request", "never"}, tolerated : BOOLEAN]
IsWorkflow(doc) == \A j \in DOMAIN doc.jobs : doc.jobs[j].steps \in Seq(StepType)

ASSUME CommitsAssumption ==
  /\ \A c \in Commits \cup Worktrees : IsWorktree(c.worktree)
  /\ \A c \in Commits :
       /\ c.roots \in Roots /\ c.kind \in {"pull_request", "push"} /\ c.body \in Seq(Lines)
       /\ Workflow \in DOMAIN c.worktree => IsWorkflow(c.worktree[Workflow].doc)
  /\ \A w \in Worktrees : w.index \subseteq DOMAIN Traits
  /\ \A e \in Edits : e[1] \in DOMAIN Traits
  /\ MaxEdits \in Nat

VARIABLES
  event,    \* what started this run: [kind, body]; kind is "local" for the hook
  jobs,     \* job -> "waiting", "running", "success", "failure", "skipped" or "cancelled"
  next,     \* job -> the step it is at
  hook,     \* pre-commit in the governance job: "idle", "gate", "checks"
  ran,      \* what was executed: <<job, command, whether it succeeded>>
  edits     \* how many edits were made

ciVars == <<event, jobs, next, hook, ran, edits>>
vars == <<diffVars, gateVars, ciVars>>

Ended == {"success", "failure", "skipped", "cancelled"}

TypeOK ==
  /\ DiffTypeOK /\ GateTypeOK
  /\ event.kind \in {"local", "pull_request", "push"}
  /\ \A j \in DOMAIN jobs : jobs[j] \in {"waiting", "running"} \cup Ended
  /\ DOMAIN next = DOMAIN jobs
  /\ hook \in {"idle", "gate", "checks"}
  /\ \A r \in ran : r[1] \in DOMAIN jobs /\ r[3] \in BOOLEAN
  /\ edits \in 0..MaxEdits

-----------------------------------------------------------------------------
\* The workflow is the one of the checked out commit.
Document == worktree[Workflow].doc
Jobs == Document.jobs

\* GitHub starts a run for a workflow it can read and whose events name this one.
Triggers ==
  /\ Workflow \in DOMAIN worktree
  /\ worktree[Workflow].flaws \cap {"syntax", "nul", "not utf-8"} = {}
  /\ event.kind \in Document.on
  /\ \A j \in DOMAIN Jobs : Jobs[j].needs \subseteq DOMAIN Jobs

InitCi(c) ==
  /\ event = [kind |-> c.kind, body |-> c.body]
  /\ worktree = c.worktree /\ index = DOMAIN c.worktree
  /\ DiffInit(c.roots) /\ GateInit
  /\ Triggers
  /\ jobs = [j \in DOMAIN Jobs |-> "waiting"]
  /\ next = [j \in DOMAIN Jobs |-> 1]

InitLocal(w) ==
  /\ event = [kind |-> "local", body |-> NoBody]
  /\ worktree = w.worktree /\ index = w.index
  /\ DiffInit(CHOOSE r \in Roots : TRUE) /\ GateInit
  /\ jobs = <<>> /\ next = <<>>

Init ==
  /\ \/ \E c \in Commits : InitCi(c)
     \/ \E w \in Worktrees : InitLocal(w)
  /\ hook = "idle" /\ ran = {} /\ edits = 0

-----------------------------------------------------------------------------
(* Jobs.                                                                   *)

Needs(j) == Jobs[j].needs
Steps(j) == Jobs[j].steps
Active(j) == jobs[j] = "running" /\ next[j] <= Len(Steps(j))
ConditionHolds(step) ==
  step.when = "always" \/ (step.when = "pull_request" /\ event.kind = "pull_request")
Due(j, command) ==
  Active(j) /\ Steps(j)[next[j]].run = command /\ ConditionHolds(Steps(j)[next[j]])

StartJob(j) ==
  /\ jobs[j] = "waiting" /\ \A n \in Needs(j) : jobs[n] = "success"
  /\ jobs' = [jobs EXCEPT ![j] = "running"]
  /\ UNCHANGED <<diffVars, gateVars, event, next, hook, ran, edits>>

SkipJob(j) ==
  /\ jobs[j] = "waiting" /\ \E n \in Needs(j) : jobs[n] \in Ended \ {"success"}
  /\ jobs' = [jobs EXCEPT ![j] = "skipped"]
  /\ UNCHANGED <<diffVars, gateVars, event, next, hook, ran, edits>>

PassOver(j) ==
  /\ Active(j) /\ ~ConditionHolds(Steps(j)[next[j]])
  /\ next' = [next EXCEPT ![j] = @ + 1]
  /\ UNCHANGED <<diffVars, gateVars, event, jobs, hook, ran, edits>>

FinishJob(j) ==
  /\ jobs[j] = "running" /\ next[j] > Len(Steps(j))
  /\ jobs' = [jobs EXCEPT ![j] = "success"]
  /\ UNCHANGED <<diffVars, gateVars, event, next, hook, ran, edits>>

\* timeout-minutes, whatever the job is doing.
TimeOut(j) ==
  /\ jobs[j] = "running"
  /\ jobs' = [jobs EXCEPT ![j] = "cancelled"]
  /\ UNCHANGED <<diffVars, gateVars, event, next, hook, ran, edits>>

\* cancel-in-progress: a newer push of the same ref ends the run.
CancelRun ==
  /\ \E j \in DOMAIN jobs : jobs[j] \notin Ended
  /\ jobs' = [j \in DOMAIN jobs |-> IF jobs[j] \in Ended THEN jobs[j] ELSE "cancelled"]
  /\ UNCHANGED <<diffVars, gateVars, event, next, hook, ran, edits>>

\* A command ends: the job goes on to its next step, or fails.
Complete(j, ok) ==
  /\ ran' = ran \cup {<<j, Steps(j)[next[j]].run, ok>>}
  /\ IF ok \/ Steps(j)[next[j]].tolerated
       THEN next' = [next EXCEPT ![j] = @ + 1] /\ UNCHANGED jobs
       ELSE jobs' = [jobs EXCEPT ![j] = "failure"] /\ UNCHANGED next
  /\ UNCHANGED <<event, edits>>

Gates == {"pre-commit", "pr_contract_gate", "diff_legacy"}
RunCommand(j) ==
  /\ \E command \in {Steps(j)[i].run : i \in 1..Len(Steps(j))} \ Gates : Due(j, command)
  /\ \E ok \in BOOLEAN : Complete(j, ok)
  /\ UNCHANGED <<diffVars, gateVars, hook>>

-----------------------------------------------------------------------------
(* pre-commit, tools/quality_gate.sh and the repository gate.              *)

\* Whether pre-commit finds its configuration, and runs the quality gate from it.
Configured == Hooks \in DOMAIN worktree /\ "syntax" \notin worktree[Hooks].flaws
RunsQualityGate ==
  LET all == GateHooks(worktree[Hooks].doc)
  IN  \E i \in 1..Len(all) : "entry" \notin all[i].deviations

RunHooks(j) ==
  /\ Due(j, "pre-commit") /\ hook = "idle"
  /\ \/ /\ Configured /\ RunsQualityGate
        /\ hook' = "gate" /\ GateStart
        /\ UNCHANGED <<event, jobs, next, ran, edits>>
     \/ /\ Configured /\ ~RunsQualityGate
        /\ Complete(j, TRUE) /\ UNCHANGED <<gateVars, hook>>
     \/ \* no configuration, or a command or a Python module quality_gate.sh needs is missing
        /\ Complete(j, FALSE) /\ UNCHANGED <<gateVars, hook>>
  /\ UNCHANGED diffVars

RunRepositoryGate(j) ==
  /\ Due(j, "pre-commit") /\ hook = "gate"
  /\ ListFiles \/ GitFails \/ GateStep
  /\ UNCHANGED <<diffVars, ciVars>>

\* set -e: a failing gate ends the script, a passing one is followed by bash -n,
\* shellcheck, the unit tests with their coverage, and the two policy scripts.
GateEnded(j) ==
  /\ Due(j, "pre-commit") /\ hook = "gate" /\ gate = "done"
  /\ IF status = "0" THEN hook' = "checks" /\ UNCHANGED <<event, jobs, next, ran, edits>>
                     ELSE hook' = "idle" /\ Complete(j, FALSE)
  /\ UNCHANGED <<diffVars, gateVars>>

OtherChecks(j) ==
  /\ Due(j, "pre-commit") /\ hook = "checks"
  /\ hook' = "idle" /\ \E ok \in BOOLEAN : Complete(j, ok)
  /\ UNCHANGED <<diffVars, gateVars>>

-----------------------------------------------------------------------------
(* The pull request contract and the migration gate.                       *)

\* The event carries the pull request's text as it was when the run was started.
EventBody == IF event.kind = "pull_request" THEN event.body ELSE NoBody
CheckContract(j) ==
  /\ Due(j, "pr_contract_gate")
  /\ Complete(j, validate_event(EventBody) = {})
  /\ UNCHANGED <<diffVars, gateVars, hook>>

RunDiffLegacy(j) ==
  /\ Due(j, "diff_legacy") /\ DiffNext
  /\ UNCHANGED <<gateVars, ciVars>>

DiffEnded(j) ==
  /\ Due(j, "diff_legacy") /\ exit # "running"
  /\ Complete(j, exit = "0")
  /\ UNCHANGED <<diffVars, gateVars, hook>>

-----------------------------------------------------------------------------
(* The hook of a developer, and the edits made while it runs.              *)

LocalGate ==
  /\ event.kind = "local"
  /\ GateStart \/ ListFiles \/ GitFails \/ GateStep
  /\ UNCHANGED <<diffVars, ciVars>>

EditFile ==
  /\ event.kind = "local" /\ edits < MaxEdits
  /\ \E e \in Edits :
       LET kept == DOMAIN worktree \ {e[1]}
           new  == IF Len(e) = 1 THEN [p \in kept |-> worktree[p]]
                   ELSE [p \in kept \cup {e[1]} |-> IF p = e[1] THEN e[2] ELSE worktree[p]]
       IN  new # worktree /\ worktree' = new /\ Edit(e[1])
  /\ edits' = edits + 1
  /\ UNCHANGED <<diffVars, event, jobs, next, hook, ran>>

-----------------------------------------------------------------------------
Concluded == IF event.kind = "local" THEN gate = "done"
             ELSE \A j \in DOMAIN jobs : jobs[j] \in Ended
Rest == Concluded /\ UNCHANGED vars

JobStep(j) ==
  \/ StartJob(j) \/ SkipJob(j) \/ PassOver(j) \/ FinishJob(j) \/ RunCommand(j)
  \/ RunHooks(j) \/ RunRepositoryGate(j) \/ GateEnded(j) \/ OtherChecks(j)
  \/ CheckContract(j) \/ RunDiffLegacy(j) \/ DiffEnded(j) \/ TimeOut(j)

Next == \/ \E j \in DOMAIN jobs : JobStep(j)
        \/ LocalGate \/ EditFile \/ CancelRun \/ Rest

Spec == Init /\ [][Next]_vars

-----------------------------------------------------------------------------
Green == event.kind # "local" /\ \A j \in DOMAIN jobs : jobs[j] = "success"

Required == {"governance"} \X GovernanceCommands \cup {"build"} \X BuildCommands
StepsOf(j) == {Steps(j)[i] : i \in 1..Len(Steps(j))}
\* The step executes the command in this run, and its failure is the job's.
Executes(step, command) == step.run = command /\ ConditionHolds(step) /\ ~step.tolerated

\* check_ci_workflow_policy() judges the workflow that runs it.  When it passed and the run
\* is green, every required gate is named in its job and has passed, the migration gate
\* on every profile, unless no step of the job executes it outright, because of an `if:`,
\* a tolerated failure, or because it is only mentioned: all that the policy does not see.
\* (A workflow without the pre-commit step is green and judged by nobody.)
GreenRanEveryGate ==
  Green /\ status = "0" =>
    /\ {"governance", "build"} \subseteq DOMAIN jobs
    /\ \A r \in Required :
         /\ \E step \in StepsOf(r[1]) : r[2] \in step.text
         /\ (\E step \in StepsOf(r[1]) : Executes(step, r[2])) => <<r[1], r[2], TRUE>> \in ran
    /\ <<"build", "diff_legacy", TRUE>> \in ran => NothingDiffers(roots)

\* The policy's docstring: it is to "prevent removal [...] of the required CI gates".  When
\* the repository gate of a CI run passed, each required gate is executed by some step.
RequiredGatesKept ==
  event.kind # "local" /\ status = "0" =>
    \A r \in Required : \E step \in StepsOf(r[1]) : step.run = r[2]

\* pr_contract_gate.py searches the text with patterns.  As long as every comment lies
\* between two headings and holds nothing but plain lines (no box, either), its verdict is
\* what a reader of the rendered text would say: all boxes checked, every section there,
\* and something said under the two that ask for it.
ContractVerdict ==
  \A r \in ran : r[2] = "pr_contract_gate" /\ CommentsInPlace(EventBody) =>
                   (r[3] <=> ContractKept(EventBody))

=============================================================================
