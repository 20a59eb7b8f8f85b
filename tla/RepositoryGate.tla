--------------------------- MODULE RepositoryGate ---------------------------
(***************************************************************************)
(* tools/repository_gate.py: list the repository's files, check each one,  *)
(* then check the policies of the files that could be read.  It runs from  *)
(* the pre-commit hook on a worktree somebody may be editing, and in CI.   *)
(*                                                                         *)
(* A path stands for its traits (what its prefix, its parts and its suffix *)
(* make the checks do) and a text for its flaws (what the patterns and     *)
(* parsers find in it); the files a policy reads also carry a document.    *)
(*                                                                         *)
(* An operator that stands just before another one and is used nowhere is  *)
(* a mutated form of it: a bug the properties are shown to catch.          *)
(***************************************************************************)
EXTENDS Naturals, Sequences, SequencesExt, FiniteSets

CONSTANTS
  Paths,     \* the paths, in sorted order
  Traits     \* path -> its traits

ASSUME PathsAssumption ==
  Paths \in Seq(STRING) /\ DOMAIN Traits = {Paths[i] : i \in 1..Len(Paths)}

Has(path, trait) == trait \in Traits[path]

-----------------------------------------------------------------------------
(* The checks of one file.                                                 *)

check_path(p) == Traits[p] \cap {"generated", "retired", "root ledger"}

check_interface_path(p) ==
  IF Has(p, "interface") /\ Has(p, "implementation") THEN {"implementation"} ELSE {}

\* _read_text(): meshes, and whatever holds a NUL, are no text.
Binary(p, c) == Has(p, "mesh") \/ "nul" \in c.flaws
Undecodable(c) == "not utf-8" \in c.flaws

check_text(p, c) ==
  (IF Has(p, "patch") THEN {} ELSE c.flaws \cap {"trailing whitespace"})
    \cup (c.flaws \cap {"no newline", "conflict marker", "secret"})

BadSyntax(p, c) == "syntax" \in c.flaws /\ Has(p, "structured")
_check_syntax(p, c) == IF BadSyntax(p, c) THEN {"syntax"} ELSE {}

\* The shared -> feature -> bringup direction of package dependencies.
check_manifest_dependencies(p, c) ==
  IF BadSyntax(p, c) THEN {"invalid manifest"}
  ELSE (IF Has(p, "shared") THEN c.flaws \cap {"depends on domain"} ELSE {})
         \cup (IF Has(p, "feature") THEN c.flaws \cap {"depends on bringup"} ELSE {})

check_robot_description_xml(p, c) ==
  IF BadSyntax(p, c) THEN {"invalid description"} ELSE c.flaws \cap {"domain token"}

TextFindings(p, c) ==
  check_text(p, c) \cup _check_syntax(p, c)
    \cup (IF Has(p, "manifest") THEN check_manifest_dependencies(p, c) ELSE {})
    \cup (IF Has(p, "description") THEN check_robot_description_xml(p, c) ELSE {})

-----------------------------------------------------------------------------
(* The policies.  Last(s) is the value that counts when a key or a Docker  *)
(* instruction is given more than once.                                    *)

Pinned(values) == values # <<>> /\ Last(values) = "full sha"

\* deps.repos is a mapping of names to versions, versions.env a list of assignments.
check_dependency_pins(deps, versions) ==
  IF "syntax" \in deps.flaws THEN {"deps invalid"}
  ELSE (IF deps.doc = {} THEN {"deps empty"} ELSE deps.doc \ {"full sha"})
         \cup (IF Pinned(versions.doc) THEN {} ELSE {"IGH_COMMIT"})

\* "deviations" are the settings of the service that are not the approved ones.
check_compose_policy(c) ==
  CASE "syntax" \in c.flaws -> {"compose invalid"}
    [] "syntax" \notin c.flaws /\ ~c.doc.service -> {"no rt-control service"}
    [] OTHER -> c.doc.deviations

\* A Dockerfile's document is the sequence of its instructions; the last one counts.
Instructions(doc, name) == {i \in 1..Len(doc) : doc[i].name = name}
FirstApproved(doc, name) ==
  Instructions(doc, name) # {} /\ doc[Min(Instructions(doc, name))].approved
LastApproved(doc, name) ==
  Instructions(doc, name) # {} /\ doc[Max(Instructions(doc, name))].approved
check_dockerfile_policy(c) ==
  {name \in {"ENTRYPOINT", "CMD"} : ~LastApproved(c.doc, name)}

BuildCommands      == {"colcon build", "colcon test", "check_urdf", "diff_legacy"}
GovernanceCommands == {"pre-commit", "pr_contract_gate"}

\* The run texts of a job's steps, joined: what can be found in them is what one of them
\* contains, be it a command, a comment or a part of another word.
_step_commands(job) == UNION {job.steps[i].text : i \in 1..Len(job.steps)}

check_ci_workflow_policy_jobs_only(c) ==
  IF "governance" \in DOMAIN c.doc.jobs /\ "build" \in DOMAIN c.doc.jobs THEN {} ELSE {"jobs"}
check_ci_workflow_policy(c) ==
  LET jobs == c.doc.jobs
  IN  IF "syntax" \in c.flaws THEN {"workflow invalid"}
      ELSE (IF {"pull_request", "push"} \subseteq c.doc.on THEN {} ELSE {"on"})
             \cup (IF c.doc.readOnly THEN {} ELSE {"permissions"})
             \cup (IF ~{"governance", "build"} \subseteq DOMAIN jobs THEN {"jobs"}
                   ELSE (IF "governance" \in jobs["build"].needs THEN {} ELSE {"needs"})
                          \cup (GovernanceCommands \ _step_commands(jobs["governance"]))
                          \cup (BuildCommands \ _step_commands(jobs["build"])))

\* The first robot-quality-gate hook of a local repository is the one that is judged.
GateHooks(repos) ==
  SelectSeq(FlattenSeq([i \in 1..Len(repos) |-> IF repos[i].local THEN repos[i].hooks ELSE <<>>]),
            LAMBDA h : h.id = "robot-quality-gate")
check_precommit_policy(c) ==
  CASE "syntax" \in c.flaws -> {"hooks invalid"}
    [] "syntax" \notin c.flaws /\ GateHooks(c.doc) = <<>> -> {"no gate hook"}
    [] OTHER -> GateHooks(c.doc)[1].deviations

\* A policy is only checked when its file is among the texts that were read, and the
\* pins only when both files are.
Deps == "deps.repos"
Env == "versions.env"
Compose == "docker/compose.yaml"
Dockerfile == "docker/rt-control/Dockerfile"
Workflow == ".github/workflows/rt-control-ci.yml"
Hooks == ".pre-commit-config.yaml"

\* None of them lies among the meshes.
ASSUME PolicyAssumption ==
  \A p \in {Deps, Env, Compose, Dockerfile, Workflow, Hooks} \cap DOMAIN Traits : ~Has(p, "mesh")

PolicyFindings(texts) ==
  LET read == DOMAIN texts
  IN  (IF {Deps, Env} \subseteq read THEN check_dependency_pins(texts[Deps], texts[Env]) ELSE {})
        \cup (IF Compose \in read THEN check_compose_policy(texts[Compose]) ELSE {})
        \cup (IF Dockerfile \in read THEN check_dockerfile_policy(texts[Dockerfile]) ELSE {})
        \cup (IF Workflow \in read THEN check_ci_workflow_policy(texts[Workflow]) ELSE {})
        \cup (IF Hooks \in read THEN check_precommit_policy(texts[Hooks]) ELSE {})

-----------------------------------------------------------------------------
(* What a worktree can hold.  Only files with a parser can have a syntax   *)
(* error, and only manifests and descriptions the wrong dependencies.      *)

FlawsOf(p) ==
  {"trailing whitespace", "no newline", "conflict marker", "secret", "nul", "not utf-8"}
    \cup (IF Has(p, "structured") THEN {"syntax"} ELSE {})
    \cup (IF {"manifest", "shared"} \subseteq Traits[p] THEN {"depends on domain"} ELSE {})
    \cup (IF {"manifest", "feature"} \subseteq Traits[p] THEN {"depends on bringup"} ELSE {})
    \cup (IF Has(p, "description") THEN {"domain token"} ELSE {})

IsWorktree(w) ==
  /\ DOMAIN w \subseteq DOMAIN Traits
  /\ \A p \in DOMAIN w : w[p].flaws \subseteq FlawsOf(p)
  /\ Dockerfile \in DOMAIN w => w[Dockerfile].doc \in Seq([name : STRING, approved : BOOLEAN])

-----------------------------------------------------------------------------
(* collect_findings() and main().                                          *)

VARIABLES
  worktree,   \* path -> content, for the files that exist
  index,      \* the paths git tracks, whether they are in the worktree or not
  gate,       \* "idle", "listing", "files", "reading" or "done"
  files,      \* the listed files that are left, to be taken in the order of Paths
  findings, texts,
  status,     \* the exit status, once done
  touched     \* the files edited since the listing (history)

gateVars == <<worktree, index, gate, files, findings, texts, status, touched>>

EmptyTexts == [p \in {} |-> {}]

GateTypeOK ==
  /\ IsWorktree(worktree) /\ index \cup files \cup touched \subseteq DOMAIN Traits
  /\ gate \in {"idle", "listing", "files", "reading", "done"}
  /\ DOMAIN texts \subseteq DOMAIN Traits
  /\ (gate = "reading" => files # {})
  /\ status \in {"running", "0", "1", "2"}

GateInit ==
  /\ IsWorktree(worktree) /\ index \subseteq DOMAIN Traits
  /\ gate = "idle" /\ files = {} /\ findings = {} /\ texts = EmptyTexts
  /\ status = "running" /\ touched = {}

GateStart ==
  /\ gate = "idle" /\ gate' = "listing"
  /\ UNCHANGED <<worktree, index, files, findings, texts, status, touched>>

\* _repository_files(): git lists what is tracked, there or not, and what is there, or fails.
Listed == index \cup DOMAIN worktree
ListFiles ==
  /\ gate = "listing"
  /\ files' = Listed
  /\ findings' = {<<p, "missing">> :
                    p \in {p \in DOMAIN Traits \ Listed : Has(p, "required")}}
  /\ gate' = "files" /\ touched' = {}
  /\ UNCHANGED <<worktree, index, texts, status>>

GitFails ==
  /\ gate = "listing"
  /\ gate' = "done" /\ status' = "2"
  /\ UNCHANGED <<worktree, index, files, findings, texts, touched>>

\* The list is sorted.
IsNext(p) == \E i \in 1..Len(Paths) : Paths[i] = p /\ \A j \in 1..i - 1 : Paths[j] \notin files

\* The checks of the next path, up to is_file(): a listed file that is not there is passed
\* over.
NextFile ==
  /\ gate = "files"
  /\ \E p \in files :
       /\ IsNext(p)
       /\ findings' = findings \cup
            {<<p, f>> : f \in check_path(p) \cup check_interface_path(p)}
       /\ IF p \in DOMAIN worktree
            THEN gate' = "reading" /\ UNCHANGED files
            ELSE files' = files \ {p} /\ UNCHANGED gate
  /\ UNCHANGED <<worktree, index, texts, status, touched>>

\* read_bytes() and the checks of the text; the file may have gone since is_file().
ReadFile ==
  /\ gate = "reading"
  /\ \E p \in files \cap DOMAIN worktree :
       LET c == worktree[p]
       IN  /\ IsNext(p)
           /\ \/ /\ Binary(p, c)
                 /\ UNCHANGED <<findings, texts>>
              \/ /\ ~Binary(p, c) /\ Undecodable(c)
                 /\ findings' = findings \cup {<<p, "not utf-8">>}
                 /\ UNCHANGED texts
              \/ /\ ~Binary(p, c) /\ ~Undecodable(c)
                 /\ findings' = findings \cup {<<p, f>> : f \in TextFindings(p, c)}
                 /\ texts' = [q \in DOMAIN texts \cup {p} |-> IF q = p THEN c ELSE texts[q]]
           /\ files' = files \ {p}
  /\ gate' = "files"
  /\ UNCHANGED <<worktree, index, status, touched>>

ReadFails ==
  /\ gate = "reading" /\ \E p \in files \ DOMAIN worktree : IsNext(p)
  /\ gate' = "done" /\ status' = "2"
  /\ UNCHANGED <<worktree, index, files, findings, texts, touched>>

CheckPolicies ==
  /\ gate = "files" /\ files = {}
  /\ LET all == findings \cup {<<"policy", f>> : f \in PolicyFindings(texts)}
     IN  findings' = all /\ status' = IF all = {} THEN "0" ELSE "1"
  /\ gate' = "done"
  /\ UNCHANGED <<worktree, index, files, texts, touched>>

GateStep == NextFile \/ ReadFile \/ ReadFails \/ CheckPolicies

\* Somebody edits, creates or removes a file of a worktree while the gate runs.
Edit(p) ==
  /\ gate \notin {"idle", "done"}
  /\ IsWorktree(worktree')
  /\ \A q \in DOMAIN Traits \ {p} :
       /\ q \in DOMAIN worktree' <=> q \in DOMAIN worktree
       /\ q \in DOMAIN worktree => worktree'[q] = worktree[q]
  /\ touched' = touched \cup {p}
  /\ UNCHANGED <<index, gate, files, findings, texts, status>>

\* The gate by itself, on any worktree, under any edits.
GateNext ==
  GateStart \/ ListFiles \/ GitFails \/ GateStep \/ \E p \in DOMAIN Traits : Edit(p)
GateSpec == GateInit /\ [][GateNext]_gateVars

-----------------------------------------------------------------------------
(* What a passing gate promises.                                           *)

Clean(p, c) ==
  /\ Traits[p] \cap {"generated", "retired", "root ledger"} = {}
  /\ ~{"interface", "implementation"} \subseteq Traits[p]
  /\ \/ Binary(p, c)
     \/ c.flaws \subseteq (IF Has(p, "patch") THEN {"trailing whitespace"} ELSE {})

\* What Docker makes of the image: an instruction holds unless a later one replaces it.
ImageStartsGate(doc) ==
  \A name \in {"ENTRYPOINT", "CMD"} :
    \E i \in 1..Len(doc) : /\ doc[i] = [name |-> name, approved |-> TRUE]
                           /\ \A j \in i + 1..Len(doc) : doc[j].name # name

\* The service deviates in nothing, and neither does the first hook of the gate's name.
ServiceApproved(doc) == doc.service /\ doc.deviations = {}
HookApproved(doc) == GateHooks(doc) # <<>> /\ GateHooks(doc)[1].deviations = {}

\* What the policies do not see.
Unjudged(p) == p \in touched \/ p \notin DOMAIN worktree \/ Binary(p, worktree[p])

\* collect_findings() on a worktree that is edited while it runs: the gate passes only if
\* no required file was missing from the list, and of the files that stood unchanged since
\* then, none is where it must not be or has a flaw in its text, the image starts through
\* the approved commands, the service and the hook are as approved, and the dependencies
\* are pinned.  An edit can hide itself, never the flaw of another file.
StandingFlawReported ==
  status = "0" =>
    /\ \A p \in DOMAIN worktree \ touched : Clean(p, worktree[p])
    /\ \A p \in DOMAIN Traits : Has(p, "required") => p \in DOMAIN worktree \cup touched \cup index
    /\ Unjudged(Dockerfile) \/ ImageStartsGate(worktree[Dockerfile].doc)
    /\ Unjudged(Compose) \/ ServiceApproved(worktree[Compose].doc)
    /\ Unjudged(Hooks) \/ HookApproved(worktree[Hooks].doc)
    /\ \/ Unjudged(Deps) \/ Unjudged(Env)
       \/ /\ worktree[Deps].doc = {"full sha"}
          /\ worktree[Env].doc # <<>> /\ Last(worktree[Env].doc) = "full sha"

=============================================================================
