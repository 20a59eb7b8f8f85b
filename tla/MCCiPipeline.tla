---------------------------- MODULE MCCiPipeline ----------------------------
(***************************************************************************)
(* One good commit and its variations, one at a time: a flaw in a file, a  *)
(* file that is missing or extra, another workflow or hook, another        *)
(* Dockerfile, other pins, another pull request text, other profiles.      *)
(***************************************************************************)
EXTENDS CiPipeline

With(f, k, v) == (k :> v) @@ f
Drop(f, k) == [x \in DOMAIN f \ {k} |-> f[x]]
DropAt(s, i) == SubSeq(s, 1, i - 1) \o SubSeq(s, i + 1, Len(s))
SwapAt(s, i) == [s EXCEPT ![i] = s[i + 1], ![i + 1] = s[i]]

-----------------------------------------------------------------------------
(* Profiles.                                                               *)

MCAxisProfiles ==
  <<[axis |-> "right_joint1", legacy |-> "joint1.yaml", target |-> "zeroerr_j1.yaml", ti5 |-> FALSE],
    [axis |-> "right_joint2", legacy |-> "joint2.yaml", target |-> "ti5_j2.yaml", ti5 |-> TRUE]>>

Sdo(object, value) == Map(<<Item("index", Hex(object)), Item("value", value)>>)
LegacySdos == <<Sdo(<<6, 0, 6, 0>>, Dec(<<8>>)), Sdo(<<6, 0, 8, 1>>, Null("~"))>>
LegacyProfile == Map(<<Item("vendor_id", Dec(<<3, 4>>)), Item("auto_state_transitions", Bool("true")),
                       Item("sdo", List(LegacySdos))>>)
LegacyLimits ==
  Map(<<Item("joints", Map(<<Item("turn", Map(<<Item("direction", Dec(<<1>>))>>)),
                             Item("updown", Map(<<Item("direction", Integer(TRUE, 10, <<1>>))>>))>>))>>)

Profiles(first, second, limits) ==
  [legacyFound |-> TRUE, targetFound |-> TRUE,
   legacy |-> [f \in {"joint1.yaml", "joint2.yaml", "joint_limits.yaml"} |->
                 Tree(CASE f = "joint1.yaml" -> first [] f = "joint2.yaml" -> second
                        [] OTHER -> limits)],
   target |-> [f \in {"zeroerr_j1.yaml", "ti5_j2.yaml", "xmc_updown_sw511.yaml", "joint_limits.yaml"} |->
                 Tree(CASE f = "zeroerr_j1.yaml" -> MigratedProfile(first, FALSE)
                        [] f = "ti5_j2.yaml" -> MigratedProfile(second, TRUE)
                        [] f = "xmc_updown_sw511.yaml" -> XMC_UPDOWN_SW511_PROFILE
                        [] OTHER -> Merged(limits, XMC_UPDOWN_LIMITS))]]
BaseRoots == Profiles(LegacyProfile, LegacyProfile, LegacyLimits)

\* Other legacy profiles, migrated as they should be.
OtherProfiles ==
  {Map(DropAt(LegacyProfile.items, i)) : i \in 1..3} \cup
  {Map(Append(LegacyProfile.items, Item("rpdo", List(<<Sdo(<<1, 6, 0, 1>>, Float(".nan"))>>)))),
   Map(<<Item("sdo", List(<<>>))>>)}

\* Other spellings and other contents of a tree that is a mapping.
Revised(root) ==
  {Map(Reverse(root.items))}
    \cup {Map(DropAt(root.items, i)) : i \in 1..Len(root.items)}
    \cup {Map(Append(root.items, Item(k, v))) :
            k \in {"extra"}, v \in {List(<<>>), Map(<<>>), Str("false"), List(<<Map(<<>>)>>)}}
    \cup {Map([root.items EXCEPT ![i].value = v]) :
            i \in 1..Len(root.items), v \in {Str("false"), Bool("False"), Hex(<<2, 2>>), Null("")}}
    \cup UNION {{Map([root.items EXCEPT ![i] = Item("sdo", List(v))]) :
                   v \in {LegacySdos, Reverse(root.items[i].value.items)}
                           \cup {DropAt(root.items[i].value.items, n) :
                                   n \in 1..Len(root.items[i].value.items)}} :
                  i \in {i \in 1..Len(root.items) : root.items[i].key = Named("sdo")}}

\* A key that reads like a path, a key given twice, and a name that begins with sdo, in
\* the legacy profiles (and then carried over, or lost) and in the target.
Flattened(root) ==
  LET m == flatten_node(root)
  IN  Map(FoldSet(LAMBDA p, items : Append(items, Joined(p, m[p])), <<>>, DOMAIN m))
Twice(root, i) == Map(Append(root.items, root.items[i]))
MCLongerNames == {"sdo_timeout"}
Timed(root) == Map(Append(root.items, Item("sdo_timeout", Dec(<<5>>))))
OddRoots ==
  LET b == BaseRoots
      odd(root) == {Flattened(root), Twice(root, 1), Timed(root),
                    Map(<<Item("vendor_id", Dec(<<9>>))>> \o root.items)}
  IN  {Profiles(p, LegacyProfile, LegacyLimits) : p \in {Timed(LegacyProfile), Twice(LegacyProfile, 3)}}
        \cup {Profiles(LegacyProfile, Timed(LegacyProfile), LegacyLimits)}
        \cup {[b EXCEPT !.legacy["joint2.yaml"] = Tree(Timed(LegacyProfile))]}
        \cup {[b EXCEPT !.legacy[f] = Tree(Flattened(b.legacy[f].root))] : f \in DOMAIN b.legacy}
        \cup UNION {{[b EXCEPT !.target[f] = Tree(r)] : r \in odd(b.target[f].root)} :
                      f \in DOMAIN b.target}

MCRoots ==
  LET b == BaseRoots
      bad == {Unread(how) : how \in {"missing", "invalid", "empty", "undecodable"}}
               \cup {Tree(Str("text"))}
  IN  {b, [b EXCEPT !.legacyFound = FALSE], [b EXCEPT !.targetFound = FALSE]} \cup OddRoots
        \cup {Profiles(p, LegacyProfile, LegacyLimits) : p \in OtherProfiles}
        \cup {Profiles(LegacyProfile, p, LegacyLimits) : p \in OtherProfiles}
        \cup {[b EXCEPT !.legacy[f] = d] : f \in DOMAIN b.legacy, d \in bad}
        \cup {[b EXCEPT !.target[f] = d] : f \in DOMAIN b.target, d \in bad}
        \cup UNION {{[b EXCEPT !.target[f] = Tree(r)] : r \in Revised(b.target[f].root)} :
                      f \in DOMAIN b.target}

-----------------------------------------------------------------------------
(* Files.                                                                  *)

README == "README.md"
Ledger == "PROGRESS.md"
Mesh == "src/description/robot_description/meshes/base.stl"
Description == "src/description/robot_description/urdf/robot.urdf.xacro"
SharedManifest == "src/description/robot_description/package.xml"
Implementation == "src/interfaces/robot_interfaces/src/helper.cpp"
FeatureManifest == "src/rt_control/plc_node/package.xml"
Retired == "src/rt_control/rt_watchdog/package.xml"
Patch == "patches/upstream.patch"
Generated == "build/report.txt"

MCPaths == <<Workflow, Hooks, Ledger, README, Generated, Deps, Compose, Dockerfile, Patch, Mesh,
             SharedManifest, Description, Implementation, FeatureManifest, Retired, Env>>

MCTraits ==
  [p \in {MCPaths[i] : i \in 1..Len(MCPaths)} |->
     CASE p \in {Workflow, Hooks} -> {"required", "structured"}
       [] p \in {Deps, Compose}   -> {"structured"}
       [] p = README              -> {"required"}
       [] p = Ledger              -> {"root ledger"}
       [] p = Generated           -> {"generated"}
       [] p = Patch               -> {"patch"}
       [] p = Mesh                -> {"mesh"}
       [] p = SharedManifest      -> {"structured", "manifest", "shared"}
       [] p = Description         -> {"structured", "description"}
       [] p = Implementation      -> {"interface", "implementation"}
       [] p = FeatureManifest     -> {"structured", "manifest", "feature"}
       [] p = Retired             -> {"structured", "manifest", "feature", "retired"}
       [] OTHER                   -> {}]

Step(command) ==
  [run |-> command, text |-> {command} \cap (GovernanceCommands \cup BuildCommands),
   when |-> "always", tolerated |-> FALSE]
ContractStep == [Step("pr_contract_gate") EXCEPT !.when = "pull_request"]
\* A line that contains the name of a command and executes something else, or nothing.
Mention(command) == [Step(command) EXCEPT !.run = "other"]
BaseWorkflow ==
  [on |-> {"pull_request", "push"}, readOnly |-> TRUE,
   jobs |-> [governance |-> [needs |-> {}, steps |-> <<Step("install"), Step("pre-commit"), ContractStep>>],
             build |-> [needs |-> {"governance"},
                        steps |-> <<Step("colcon build"), Step("colcon test"),
                                    \* colcon test-result --verbose
                                    Mention("colcon test"),
                                    Step("check_urdf"), Step("diff_legacy")>>]]]

Content(flaws, doc) == [flaws |-> flaws, doc |-> doc]
Gated(deviations) == [id |-> "robot-quality-gate", deviations |-> deviations]
Approved(name) == [name |-> name, approved |-> TRUE]
BaseDoc(p) ==
  CASE p = Workflow   -> BaseWorkflow
    [] p = Hooks      -> <<[local |-> TRUE, hooks |-> <<Gated({})>>]>>
    [] p = Deps       -> {"full sha"}
    [] p = Env        -> <<"full sha">>
    [] p = Compose    -> [service |-> TRUE, deviations |-> {}]
    [] p = Dockerfile -> <<Approved("ENTRYPOINT"), Approved("CMD")>>
    [] OTHER          -> {}

BasePaths == {MCPaths[i] : i \in 1..Len(MCPaths)} \ {Ledger, Generated, Implementation, Retired}
BaseTree == [p \in BasePaths |-> Content({}, BaseDoc(p))]

\* Flaws, alone and together.
FlawSets(p) == {{f} : f \in FlawsOf(p)} \cup {{"nul", "secret"}, {"not utf-8", "secret"}}

\* Workflows: a step dropped, moved, made conditional, tolerated, or reduced to a mention,
\* a command started through another path, a job or an edge dropped.
StepEdits(job) ==
  LET s == job.steps
  IN  {[job EXCEPT !.steps = t] :
         t \in {DropAt(s, i) : i \in 1..Len(s)} \cup {SwapAt(s, i) : i \in 1..Len(s) - 1}
                 \cup {[s EXCEPT ![i].when = w] : i \in 1..Len(s), w \in {"always", "never"}}
                 \cup {[s EXCEPT ![i].tolerated = TRUE] : i \in 1..Len(s)}
                 \cup {[s EXCEPT ![i] = Mention(@.run)] : i \in {i \in 1..Len(s) : s[i].run \in s[i].text}}
                 \cup {[s EXCEPT ![i].text = {}] : i \in 1..Len(s)}}
Workflows ==
  LET b == BaseWorkflow
      edited == UNION {{[b EXCEPT !.jobs[j] = e] : e \in StepEdits(b.jobs[j])} : j \in DOMAIN b.jobs}
      unneeded(d) == [d EXCEPT !.jobs["build"].needs = {}]
      unguarded == [b EXCEPT !.jobs["governance"].steps = <<Step("install"), ContractStep>>]
  IN  edited \cup {unneeded(d) : d \in edited \cup {b}}
        \cup {[unguarded EXCEPT !.jobs["build"] = e] : e \in StepEdits(b.jobs["build"])}
        \cup {[b EXCEPT !.on = on] : on \in {{"push"}, {"pull_request"}}}
        \cup {[b EXCEPT !.readOnly = FALSE]}
        \cup {[b EXCEPT !.jobs = Drop(@, "build")], [unneeded(b) EXCEPT !.jobs = Drop(@, "governance")]}

HookDocs ==
  LET other == [id |-> "other", deviations |-> {}]
      local(hooks) == [local |-> TRUE, hooks |-> hooks]
      remote(hooks) == [local |-> FALSE, hooks |-> hooks]
      gates == {Gated(d) : d \in SUBSET {"entry", "always_run"}}
  IN  {<<>>, <<remote(<<Gated({})>>)>>, <<local(<<other>>)>>}
        \cup {<<local(<<g>>)>> : g \in gates} \cup {<<local(<<other, g>>)>> : g \in gates}
        \cup {<<local(<<other>>), local(<<g, Gated({})>>)>> : g \in gates}

Dockerfiles ==
  SeqOf([name : {"ENTRYPOINT", "CMD"}, approved : BOOLEAN], 3)

DocsOf(p) ==
  CASE p = Workflow   -> Workflows
    [] p = Hooks      -> HookDocs
    [] p = Deps       -> SUBSET {"full sha", "branch", "no version"}
    [] p = Env        -> SeqOf({"full sha", "tag"}, 2)
    [] p = Compose    -> [service : {TRUE}, deviations : {{"privileged"}, {"cap_add", "command"}}]
                           \cup {[service |-> FALSE, deviations |-> {}]}
    [] p = Dockerfile -> Dockerfiles
    [] OTHER          -> {}

MCTrees ==
  {BaseTree}
    \cup {Drop(BaseTree, p) : p \in BasePaths}
    \cup {With(BaseTree, p, Content({}, {})) : p \in {Ledger, Generated, Implementation, Retired}}
    \cup UNION {{With(BaseTree, p, Content(f, BaseDoc(p))) : f \in FlawSets(p)} : p \in BasePaths}
    \cup UNION {{With(BaseTree, p, Content({}, d)) : d \in DocsOf(p)} : p \in BasePaths}

-----------------------------------------------------------------------------
(* Pull requests.                                                          *)

MCRequiredSections == {"scope", "evidence", "risks"}
MCFilledSections == {"evidence", "risks"}
MCRequiredGates == {"tests", "hygiene"}

Template ==
  <<Line("marker"), Heading("scope"), Line("comment"), Box("tests", TRUE),
    Heading("evidence"), Line("comment"), Line("text"),
    Heading("risks"), Line("open"), Line("text"), Line("close"), Line("text"),
    Heading("confirm"), Box("hygiene", TRUE)>>

Inserted(s, i, line) == SubSeq(s, 1, i) \o <<line>> \o SubSeq(s, i + 1, Len(s))
MCBodies ==
  LET t == Template
      lines == {Line(k) : k \in {"open", "close", "comment", "text", "blank"}}
                 \cup {Heading("evidence"), Heading("other"), Box("tests", FALSE)}
  IN  {t, NoBody} \cup {DropAt(t, i) : i \in 1..Len(t)}
        \cup {[t EXCEPT ![i] = line] : i \in 1..Len(t), line \in lines}
        \cup UNION {{Inserted(Inserted(t, i, Line("open")), j, Line("close")) :
                       j \in i + 1..Len(t) + 1} : i \in 0..Len(t)}

-----------------------------------------------------------------------------
Pushed(w, r, kind, body) == [worktree |-> w, roots |-> r, kind |-> kind, body |-> body]
MCCommits ==
  {Pushed(w, BaseRoots, "pull_request", Template) : w \in MCTrees}
    \cup {Pushed(With(BaseTree, Workflow, Content({}, d)), BaseRoots, "push", NoBody) : d \in Workflows}
    \cup {Pushed(BaseTree, r, "push", NoBody) : r \in MCRoots}
    \cup {Pushed(BaseTree, BaseRoots, "pull_request", b) : b \in MCBodies}

\* What a single deleted line makes of a commit.
Shortened ==
  LET b == BaseWorkflow
  IN  UNION {{[b EXCEPT !.jobs[j].steps = DropAt(@, i)] : i \in 1..Len(b.jobs[j].steps)} :
               j \in DOMAIN b.jobs}
MCShortened ==
  {Pushed(With(BaseTree, Workflow, Content({}, d)), BaseRoots, "push", NoBody) : d \in Shortened}

\* A worktree with a flaw in one file, while others are edited or removed; the tracked
\* files need not be there.
MCWorktrees ==
  LET flawed == {With(BaseTree, p, Content(f, BaseDoc(p))) :
                   p \in {Hooks, Patch, FeatureManifest}, f \in {{"trailing whitespace"}, {"syntax"}}}
                 \ {With(BaseTree, Patch, Content({"syntax"}, {}))}
      trees == flawed \cup {BaseTree, Drop(BaseTree, README), With(BaseTree, Dockerfile,
                                                Content({}, Append(BaseDoc(Dockerfile),
                                                  [name |-> "CMD", approved |-> FALSE])))}
  IN  [worktree : trees, index : {BasePaths, BasePaths \ {README}}]
MCEdits ==
  {<<Deps>>, <<Deps, Content({}, {"branch"})>>, <<Deps, Content({}, {"full sha"})>>,
   <<Patch, Content({"secret"}, {})>>, <<README>>, <<Env, Content({}, <<"tag">>)>>}
=============================================================================
