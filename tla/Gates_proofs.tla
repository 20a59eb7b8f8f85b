---------------------------- MODULE Gates_proofs ----------------------------
(***************************************************************************)
(* Proofs about the gates: the repository gate on a worktree that is       *)
(* edited while it runs, the contract of a pull request, the verdict of    *)
(* the migration gate, and the CI run that puts them together.             *)
(***************************************************************************)
EXTENDS CiPipeline, WellFoundedInduction, SequenceTheorems, TLAPS

-----------------------------------------------------------------------------
(* Least and greatest elements.                                            *)

\* A set of numbers that is not empty has a least element, and Min is one.
LEMMA MinIsLeast ==
  ASSUME NEW S \in SUBSET Nat, S # {}
  PROVE  Min(S) \in S /\ \A y \in S : Min(S) <= y
<1>. DEFINE R == {ss \in Nat \X Nat : ss[1] < ss[2]}
<1>1. IsWellFoundedOn(R, Nat)
  BY NatLessThanWellFounded DEF OpToRel
<1>2. \E x \in S : \A y \in S : ~(<<y, x>> \in R)
  <2>. HIDE DEF R
  <2>. QED  BY <1>1, WFMin
<1>3. PICK x \in S : \A y \in S : <<y, x>> \notin R
  BY <1>2
<1>4. ASSUME NEW y \in S
      PROVE  x <= y
  <2>1. <<y, x>> \in Nat \X Nat /\ <<y, x>>[1] = y /\ <<y, x>>[2] = x
    OBVIOUS
  <2>2. ~(y < x)
    BY <1>3, <2>1
  <2>. QED  BY <2>2
<1>. QED
  BY <1>4 DEF Min

\* The same from above, for a set of numbers with a bound.
LEMMA MaxIsGreatest ==
  ASSUME NEW n \in Nat, NEW S \in SUBSET (1..n), S # {}
  PROVE  Max(S) \in S /\ \A y \in S : Max(S) >= y
<1>. DEFINE T == {n - x : x \in S}
<1>1. \A x \in S : x \in Nat /\ n - x \in Nat /\ n - x \in T
  OBVIOUS
<1>2. T \in SUBSET Nat /\ T # {}
  BY <1>1
<1>3. \A y \in S : Min(T) <= n - y
  BY <1>1, <1>2, MinIsLeast
<1>4. PICK x \in S : Min(T) = n - x
  BY <1>2, MinIsLeast
<1>5. \A y \in S : x >= y
  <2>. HIDE DEF T
  <2>. QED  BY <1>1, <1>3, <1>4
<1>. QED
  BY <1>5 DEF Max

-----------------------------------------------------------------------------
(* The repository gate.                                                    *)

Reported(p, f) == {<<p, x>> : x \in f} \subseteq findings

PathReported(p) == Reported(p, check_path(p) \cup check_interface_path(p))

\* The gate is through with p, and with the content c: what the checks of its path and
\* text find is reported, and a text waits for the policies.
Judged(p, c) ==
  /\ PathReported(p)
  /\ \/ Binary(p, c)
     \/ Undecodable(c) /\ <<p, "not utf-8">> \in findings
     \/ /\ ~Undecodable(c) /\ Reported(p, TextFindings(p, c))
        /\ p \in DOMAIN texts /\ texts[p] = c

\* While files are left: each one that stood unchanged since the listing is still to come
\* or judged as it is, and a required file that was not listed is reported.
Progress ==
  /\ \A p \in DOMAIN worktree \ touched : p \in files \/ Judged(p, worktree[p])
  /\ \A p \in DOMAIN Traits :
       Has(p, "required") =>
         p \in DOMAIN worktree \cup touched \cup index \/ <<p, "missing">> \in findings

\* What a verdict of 0 was given for.
Passed == Progress /\ files = {} /\ findings = {} /\ PolicyFindings(texts) = {}

GateInv ==
  /\ IsWorktree(worktree) /\ index \subseteq DOMAIN Traits
  /\ files \subseteq DOMAIN Traits /\ touched \subseteq DOMAIN Traits
  /\ DOMAIN texts \subseteq DOMAIN Traits
  /\ gate \in {"idle", "listing", "files", "reading", "done"}
  /\ status \in {"running", "0", "1", "2"}
  /\ gate = "reading" => files # {} /\ \A p \in files : IsNext(p) => PathReported(p)
  /\ gate \in {"files", "reading"} => Progress
  /\ status = "0" => gate = "done" /\ Passed

\* Only one file is next.
LEMMA NextIsUnique ==
  ASSUME NEW p \in files, NEW q \in files, IsNext(p), IsNext(q)
  PROVE  p = q
<1>1. PICK i \in 1..Len(Paths) : Paths[i] = p /\ \A j \in 1..i - 1 : Paths[j] \notin files
  BY DEF IsNext
<1>2. PICK k \in 1..Len(Paths) : Paths[k] = q /\ \A j \in 1..k - 1 : Paths[j] \notin files
  BY DEF IsNext
<1>3. ~(i < k) /\ ~(k < i)
  BY <1>1, <1>2, PathsAssumption
<1>. QED
  BY <1>1, <1>2, <1>3, PathsAssumption

\* A text without findings has none of the flaws a text of this path can have, up to what
\* a patch may have.
LEMMA NoFindingsMeansClean ==
  ASSUME NEW p \in DOMAIN Traits, NEW c, c.flaws \subseteq FlawsOf(p),
         check_path(p) = {}, check_interface_path(p) = {},
         Binary(p, c) \/ (~Undecodable(c) /\ TextFindings(p, c) = {})
  PROVE  Clean(p, c)
<1>1. Traits[p] \cap {"generated", "retired", "root ledger"} = {}
  BY DEF check_path
<1>2. ~{"interface", "implementation"} \subseteq Traits[p]
  BY DEF check_interface_path, Has
<1>3. CASE Binary(p, c)
  BY <1>1, <1>2, <1>3 DEF Clean
<1>4. CASE ~Binary(p, c) /\ ~Undecodable(c) /\ TextFindings(p, c) = {}
  <2>1. check_text(p, c) = {} /\ _check_syntax(p, c) = {}
    BY <1>4 DEF TextFindings
  <2>2. "syntax" \notin c.flaws
    BY <2>1 DEF _check_syntax, BadSyntax, FlawsOf, Has
  <2>3. c.flaws \cap {"no newline", "conflict marker", "secret", "nul", "not utf-8"} = {}
    BY <1>4, <2>1 DEF check_text, Binary, Undecodable
  <2>4. Has(p, "patch") \/ "trailing whitespace" \notin c.flaws
    BY <2>1 DEF check_text
  <2>5. "depends on domain" \notin c.flaws /\ "depends on bringup" \notin c.flaws
    <3>1. Has(p, "manifest") => check_manifest_dependencies(p, c) = {}
      BY <1>4 DEF TextFindings
    <3>. QED  BY <2>2, <3>1 DEF check_manifest_dependencies, BadSyntax, FlawsOf, Has
  <2>6. "domain token" \notin c.flaws
    <3>1. Has(p, "description") => check_robot_description_xml(p, c) = {}
      BY <1>4 DEF TextFindings
    <3>. QED  BY <2>2, <3>1 DEF check_robot_description_xml, BadSyntax, FlawsOf, Has
  <2>7. c.flaws \subseteq (IF Has(p, "patch") THEN {"trailing whitespace"} ELSE {})
    BY <2>2, <2>3, <2>4, <2>5, <2>6 DEF FlawsOf
  <2>. QED  BY <1>1, <1>2, <2>7 DEF Clean
<1>. QED
  BY <1>3, <1>4

\* entrypoints[-1] and commands[-1] are the instructions Docker goes by.
LEMMA LastInstructionHolds ==
  ASSUME NEW c, c.doc \in Seq([name : STRING, approved : BOOLEAN]),
         check_dockerfile_policy(c) = {}
  PROVE  ImageStartsGate(c.doc)
<1>1. SUFFICES ASSUME NEW name \in {"ENTRYPOINT", "CMD"}
               PROVE  \E i \in 1..Len(c.doc) :
                        /\ c.doc[i] = [name |-> name, approved |-> TRUE]
                        /\ \A j \in i + 1..Len(c.doc) : c.doc[j].name # name
  BY DEF ImageStartsGate
<1>. DEFINE S == Instructions(c.doc, name)
            i == Max(S)
<1>2. LastApproved(c.doc, name)
  BY DEF check_dockerfile_policy
<1>3. S # {} /\ c.doc[i].approved
  BY <1>2 DEF LastApproved
<1>4. Len(c.doc) \in Nat /\ S \in SUBSET (1..Len(c.doc))
  BY DEF Instructions
<1>5. i \in S /\ \A y \in S : i >= y
  <2>. HIDE DEF S
  <2>. QED  BY <1>3, <1>4, MaxIsGreatest
<1>6. i \in 1..Len(c.doc) /\ c.doc[i].name = name
  BY <1>5 DEF Instructions
<1>7. \A j \in i + 1..Len(c.doc) : c.doc[j].name # name
  <2>1. SUFFICES ASSUME NEW j \in i + 1..Len(c.doc), c.doc[j].name = name
                 PROVE  FALSE
    OBVIOUS
  <2>2. j \in 1..Len(c.doc) /\ ~(i >= j)
    <3>. HIDE DEF i
    <3>. QED  BY <1>4, <1>6, <2>1
  <2>3. j \in S
    BY <2>1, <2>2 DEF Instructions
  <2>. QED  BY <1>5, <2>2, <2>3
<1>8. c.doc[i] = [name |-> name, approved |-> TRUE]
  <2>. HIDE DEF i
  <2>1. \A k \in 1..Len(c.doc) : c.doc[k] \in [name : STRING, approved : BOOLEAN]
    BY ElementOfSeq
  <2>. QED  BY <1>3, <1>6, <2>1
<1>. HIDE DEF i
<1>. QED
  BY <1>6, <1>7, <1>8

-----------------------------------------------------------------------------
(* A verdict of 0 is only given when everything was judged.                *)

\* CheckPolicies without a finding: what was judged is clean, and the policies were
\* applied to what still stands.
LEMMA PassIsSound ==
  ASSUME IsWorktree(worktree), Passed
  PROVE  /\ \A p \in DOMAIN worktree \ touched : Clean(p, worktree[p])
         /\ \A p \in DOMAIN Traits :
              Has(p, "required") => p \in DOMAIN worktree \cup touched \cup index
         /\ Unjudged(Dockerfile) \/ ImageStartsGate(worktree[Dockerfile].doc)
         /\ Unjudged(Compose) \/ ServiceApproved(worktree[Compose].doc)
         /\ Unjudged(Hooks) \/ HookApproved(worktree[Hooks].doc)
         /\ \/ Unjudged(Deps) \/ Unjudged(Env)
            \/ /\ worktree[Deps].doc = {"full sha"}
               /\ worktree[Env].doc # <<>> /\ Last(worktree[Env].doc) = "full sha"
<1>. USE DEF Passed
<1>1. \A p, f : Reported(p, f) => f = {}
  BY DEF Reported
<1>2. ASSUME NEW p \in DOMAIN worktree \ touched
      PROVE  /\ check_path(p) = {} /\ check_interface_path(p) = {}
             /\ \/ Binary(p, worktree[p])
                \/ /\ TextFindings(p, worktree[p]) = {}
                   /\ p \in DOMAIN texts /\ texts[p] = worktree[p]
  <2>1. Judged(p, worktree[p])
    BY DEF Progress
  <2>2. check_path(p) \cup check_interface_path(p) = {}
    BY <1>1, <2>1 DEF Judged, PathReported
  <2>. QED  BY <1>1, <2>1, <2>2 DEF Judged
<1>3. ASSUME NEW p \in DOMAIN worktree \ touched
      PROVE  Clean(p, worktree[p])
  <2>1. Binary(p, worktree[p]) \/ ~Undecodable(worktree[p])
    BY DEF Progress, Judged
  <2>2. p \in DOMAIN Traits /\ worktree[p].flaws \subseteq FlawsOf(p)
    BY DEF IsWorktree
  <2>. QED  BY <1>2, <2>1, <2>2, NoFindingsMeansClean
<1>4. \A p : ~Unjudged(p) => p \in DOMAIN texts /\ texts[p] = worktree[p]
  BY <1>2 DEF Unjudged
<1>5. ASSUME ~Unjudged(Dockerfile)
      PROVE  ImageStartsGate(worktree[Dockerfile].doc)
  <2>1. check_dockerfile_policy(worktree[Dockerfile]) = {}
    BY <1>4, <1>5 DEF PolicyFindings
  <2>2. worktree[Dockerfile].doc \in Seq([name : STRING, approved : BOOLEAN])
    BY <1>5 DEF IsWorktree, Unjudged
  <2>. QED  BY <2>1, <2>2, LastInstructionHolds
<1>6. ASSUME ~Unjudged(Deps), ~Unjudged(Env)
      PROVE  /\ worktree[Deps].doc = {"full sha"}
             /\ worktree[Env].doc # <<>> /\ Last(worktree[Env].doc) = "full sha"
  <2>1. check_dependency_pins(worktree[Deps], worktree[Env]) = {}
    BY <1>4, <1>6 DEF PolicyFindings
  <2>. QED  BY <2>1 DEF check_dependency_pins, Pinned
<1>7. ASSUME ~Unjudged(Compose)
      PROVE  ServiceApproved(worktree[Compose].doc)
  <2>1. check_compose_policy(worktree[Compose]) = {}
    BY <1>4, <1>7 DEF PolicyFindings
  <2>. QED  BY <2>1 DEF check_compose_policy, ServiceApproved
<1>8. ASSUME ~Unjudged(Hooks)
      PROVE  HookApproved(worktree[Hooks].doc)
  <2>1. check_precommit_policy(worktree[Hooks]) = {}
    BY <1>4, <1>8 DEF PolicyFindings
  <2>. QED  BY <2>1 DEF check_precommit_policy, HookApproved
<1>. QED
  BY <1>3, <1>5, <1>6, <1>7, <1>8 DEF Progress

\* What the checks rely on is kept by every step of the gate and by every edit.
LEMMA GateInvStep ==
  ASSUME GateInv, [GateNext]_gateVars
  PROVE  GateInv'
<1>. USE DEF GateInv
<1>1. CASE GateStart
  BY <1>1 DEF GateStart
<1>2. CASE ListFiles
  <2>1. /\ IsWorktree(worktree)' /\ files' \subseteq DOMAIN Traits
        /\ status' # "0"
    BY <1>2 DEF ListFiles, Listed, IsWorktree
  <2>2. Progress'
    <3>1. \A p \in DOMAIN worktree' : p \in files'
      BY <1>2 DEF ListFiles, Listed
    <3>2. ASSUME NEW p \in DOMAIN Traits, Has(p, "required")
          PROVE  p \in (DOMAIN worktree \cup touched \cup index)' \/ <<p, "missing">> \in findings'
      BY <1>2, <3>2 DEF ListFiles, Listed
    <3>. QED  BY <3>1, <3>2 DEF Progress
  <2>. QED  BY <1>2, <2>1, <2>2 DEF ListFiles
<1>3. CASE GitFails
  BY <1>3 DEF GitFails
<1>4. CASE NextFile
  <2>1. PICK p \in files :
          /\ IsNext(p)
          /\ findings' = findings \cup {<<p, f>> : f \in check_path(p) \cup check_interface_path(p)}
          /\ IF p \in DOMAIN worktree
               THEN gate' = "reading" /\ UNCHANGED files
               ELSE files' = files \ {p} /\ UNCHANGED gate
    BY <1>4 DEF NextFile
  <2>2. /\ gate = "files" /\ UNCHANGED <<worktree, index, texts, status, touched>>
        /\ findings \subseteq findings'
    BY <1>4, <2>1 DEF NextFile
  <2>3. Progress'
    <3>1. \A q, c : Judged(q, c) => Judged(q, c)'
      BY <2>2 DEF Judged, PathReported, Reported
    <3>. QED  BY <2>1, <2>2, <3>1 DEF Progress
  <2>4. ASSUME gate' = "reading"
        PROVE  files' # {} /\ \A q \in files' : IsNext(q)' => PathReported(q)'
    <3>1. files' = files /\ \A q : IsNext(q)' <=> IsNext(q)
      BY <2>1, <2>2, <2>4 DEF IsNext
    <3>2. \A q \in files : IsNext(q) => q = p
      BY <2>1, NextIsUnique
    <3>3. PathReported(p)'
      BY <2>1 DEF PathReported, Reported
    <3>. QED  BY <2>1, <3>1, <3>2, <3>3
  <2>. QED  BY <2>1, <2>2, <2>3, <2>4
<1>5. CASE ReadFile
  <2>1. PICK p \in files \cap DOMAIN worktree :
          /\ IsNext(p) /\ files' = files \ {p}
          /\ \/ /\ Binary(p, worktree[p])
                /\ UNCHANGED <<findings, texts>>
             \/ /\ ~Binary(p, worktree[p]) /\ Undecodable(worktree[p])
                /\ findings' = findings \cup {<<p, "not utf-8">>}
                /\ UNCHANGED texts
             \/ /\ ~Binary(p, worktree[p]) /\ ~Undecodable(worktree[p])
                /\ findings' = findings \cup {<<p, f>> : f \in TextFindings(p, worktree[p])}
                /\ texts' = [q \in DOMAIN texts \cup {p} |->
                               IF q = p THEN worktree[p] ELSE texts[q]]
    BY <1>5 DEF ReadFile
  <2>2. /\ gate = "reading" /\ gate' = "files" /\ findings \subseteq findings'
        /\ UNCHANGED <<worktree, index, status, touched>>
    BY <1>5, <2>1 DEF ReadFile
  <2>3. DOMAIN texts' \subseteq DOMAIN Traits
    BY <2>1 DEF IsWorktree
  <2>4. Judged(p, worktree[p])'
    <3>1. PathReported(p)'
      BY <2>1, <2>2 DEF PathReported, Reported
    <3>. QED  BY <2>1, <2>2, <3>1 DEF Judged, Reported
  <2>5. ASSUME NEW q, NEW c, q # p, Judged(q, c)
        PROVE  Judged(q, c)'
    BY <2>1, <2>2, <2>5 DEF Judged, PathReported, Reported
  <2>6. Progress'
    BY <2>1, <2>2, <2>4, <2>5 DEF Progress
  <2>. QED  BY <2>1, <2>2, <2>3, <2>6
<1>6. CASE ReadFails
  BY <1>6 DEF ReadFails
<1>7. CASE CheckPolicies
  <2>1. CASE findings = {} /\ PolicyFindings(texts) = {}
    <3>1. Progress /\ files = {}
      BY <1>7 DEF CheckPolicies
    <3>2. UNCHANGED <<worktree, index, files, texts, touched>> /\ gate' = "done" /\ status' = "0"
      BY <1>7, <2>1 DEF CheckPolicies
    <3>3. Passed'
      <4>1. findings' = {}
        BY <1>7, <2>1 DEF CheckPolicies
      <4>. QED  BY <2>1, <3>1, <3>2, <4>1 DEF Passed, Progress, Judged, PathReported, Reported
    <3>. QED  BY <3>2, <3>3
  <2>2. CASE ~(findings = {} /\ PolicyFindings(texts) = {})
    <3>1. status' = "1"
      BY <1>7, <2>2 DEF CheckPolicies
    <3>. QED  BY <1>7, <3>1 DEF CheckPolicies
  <2>. QED  BY <2>1, <2>2
<1>8. ASSUME NEW p \in DOMAIN Traits, Edit(p)
      PROVE  GateInv'
  <2>1. /\ UNCHANGED <<index, gate, files, findings, texts, status>>
        /\ IsWorktree(worktree') /\ touched' = touched \cup {p} /\ status # "0"
        /\ \A q \in DOMAIN Traits \ {p} :
             /\ q \in DOMAIN worktree' <=> q \in DOMAIN worktree
             /\ q \in DOMAIN worktree => worktree'[q] = worktree[q]
    BY <1>8 DEF Edit
  <2>2. \A q, c : Judged(q, c)' <=> Judged(q, c)
    BY <2>1 DEF Judged, PathReported, Reported
  <2>3. \A q : (IsNext(q)' <=> IsNext(q)) /\ (PathReported(q)' <=> PathReported(q))
    BY <2>1 DEF IsNext, PathReported, Reported
  <2>4. Progress => Progress'
    <3>1. ASSUME Progress, NEW q \in DOMAIN worktree' \ touched'
          PROVE  q \in files' \/ Judged(q, worktree[q])'
      <4>1. q \in DOMAIN Traits \ {p} /\ q \in DOMAIN worktree \ touched /\ worktree'[q] = worktree[q]
        BY <2>1 DEF IsWorktree
      <4>. QED  BY <2>1, <2>2, <3>1, <4>1 DEF Progress
    <3>2. ASSUME Progress, NEW q \in DOMAIN Traits, Has(q, "required")
          PROVE  q \in (DOMAIN worktree \cup touched \cup index)' \/ <<q, "missing">> \in findings'
      BY <2>1, <3>2 DEF Progress
    <3>. QED  BY <3>1, <3>2 DEF Progress
  <2>. QED  BY <2>1, <2>3, <2>4
<1>9. CASE UNCHANGED gateVars
  <2>1. \A q, c : (Judged(q, c)' <=> Judged(q, c))
    BY <1>9 DEF gateVars, Judged, PathReported, Reported
  <2>2. \A q : (IsNext(q)' <=> IsNext(q)) /\ (PathReported(q)' <=> PathReported(q))
    BY <1>9 DEF gateVars, IsNext, PathReported, Reported
  <2>3. Progress' <=> Progress
    BY <1>9, <2>1 DEF gateVars, Progress
  <2>. QED  BY <1>9, <2>2, <2>3 DEF gateVars, Passed
<1>. QED
  BY <1>1, <1>2, <1>3, <1>4, <1>5, <1>6, <1>7, <1>8, <1>9 DEF GateNext, GateStep

\* It holds from the start.
LEMMA GateInvHolds == GateSpec => []GateInv
<1>1. GateInit => GateInv
  BY DEF GateInit, GateInv, EmptyTexts
<1>2. GateInv /\ [GateNext]_gateVars => GateInv'
  BY GateInvStep
<1>. QED
  BY <1>1, <1>2, PTL DEF GateSpec

\* collect_findings() on any worktree and under any edits of it: the gate passes only if no
\* required file was missing and no file that stood unchanged since the listing breaks a
\* rule or a policy of the image and the pins.
THEOREM StandingFlawsAreReported == GateSpec => []StandingFlawReported
<1>1. GateInv => StandingFlawReported
  BY PassIsSound DEF GateInv, StandingFlawReported
<1>. QED
  BY <1>1, GateInvHolds, PTL

-----------------------------------------------------------------------------
(* The contract of a pull request.                                         *)

\* A section: the lines between the first heading h and the next heading.
IsSection(body, h, first, last) ==
  /\ first \in 1..Len(body) - 1 /\ last \in first..Len(body)
  /\ body[first] = Heading(h) /\ \A j \in 1..first - 1 : body[j] # Heading(h)
  /\ \A j \in first + 1..last : body[j].kind # "heading"
  /\ last < Len(body) => body[last + 1].kind = "heading"

\* The section as a text of its own.
IsTextOf(lines, body, first, last) ==
  Len(lines) = last - first /\ \A i \in 1..last - first : lines[i] = body[first + i]

\* _section_body() returns the section.
LEMMA SectionFound ==
  ASSUME NEW body \in Seq(Lines), NEW h, HasSection(body, h)
  PROVE  \E first, last \in Nat :
           IsSection(body, h, first, last) /\ IsTextOf(_section_body(body, h), body, first, last)
<1>. DEFINE Hs == {i \in 1..Len(body) - 1 : body[i] = Heading(h)}
            first == Min(Hs)
            later == {j \in first + 1..Len(body) : body[j].kind = "heading"}
            last == IF later = {} THEN Len(body) ELSE Min(later) - 1
<1>1. Len(body) \in Nat /\ Hs \in SUBSET Nat /\ Hs # {}
  BY DEF HasSection
<1>2. first \in Hs /\ \A y \in Hs : first <= y
  <2>. HIDE DEF Hs
  <2>. QED  BY <1>1, MinIsLeast
<1>3. first \in 1..Len(body) - 1 /\ body[first] = Heading(h)
  BY <1>2
<1>4. \A j \in 1..first - 1 : body[j] # Heading(h)
  <2>1. SUFFICES ASSUME NEW j \in 1..first - 1, body[j] = Heading(h)
                 PROVE  FALSE
    OBVIOUS
  <2>2. j \in 1..Len(body) - 1 /\ ~(first <= j)
    <3>. HIDE DEF first
    <3>. QED  BY <1>1, <1>3
  <2>3. j \in Hs
    BY <2>1, <2>2
  <2>. QED  BY <1>2, <2>2, <2>3
<1>. HIDE DEF first
<1>5. last \in first..Len(body)
      /\ (\A j \in first + 1..last : body[j].kind # "heading")
      /\ (last < Len(body) => body[last + 1].kind = "heading")
  <2>1. CASE later = {}
    BY <1>1, <1>3, <2>1
  <2>2. CASE later # {}
    <3>1. later \in SUBSET Nat
      BY <1>1, <1>3
    <3>2. Min(later) \in later /\ \A y \in later : Min(later) <= y
      <4>. HIDE DEF later
      <4>. QED  BY <2>2, <3>1, MinIsLeast
    <3>. DEFINE m == Min(later)
    <3>3. m \in first + 1..Len(body) /\ body[m].kind = "heading"
      BY <3>2
    <3>4. \A j \in first + 1..m - 1 : body[j].kind # "heading"
      <4>1. \A j \in first + 1..Len(body) : body[j].kind = "heading" => m <= j
        BY <3>2
      <4>. HIDE DEF m
      <4>. QED  BY <1>1, <1>3, <3>3, <4>1
    <3>5. last = m - 1
      BY <2>2
    <3>. HIDE DEF m, last
    <3>6. last + 1 = m
      BY <1>1, <1>3, <3>3, <3>5
    <3>. QED  BY <1>1, <1>3, <3>3, <3>4, <3>5, <3>6
  <2>. QED  BY <2>1, <2>2
<1>6. _section_body(body, h) = SubSeq(body, first + 1, last)
  BY DEF _section_body, first
<1>. HIDE DEF last
<1>7. \A i \in first + 1..last : body[i] \in Lines
  BY <1>1, <1>3, <1>5, ElementOfSeq
<1>8. /\ Len(SubSeq(body, first + 1, last)) = IF first + 1 <= last THEN last - (first + 1) + 1 ELSE 0
      /\ \A i \in 1..last - (first + 1) + 1 :
           SubSeq(body, first + 1, last)[i] = body[first + 1 + i - 1]
  BY <1>1, <1>3, <1>5, <1>7, SubSeqProperties
<1>9. /\ Len(_section_body(body, h)) = last - first
      /\ \A i \in 1..last - first : _section_body(body, h)[i] = body[first + i]
  <2>1. last - (first + 1) + 1 = last - first /\ (~(first + 1 <= last) => last - first = 0)
    BY <1>1, <1>3, <1>5
  <2>2. \A i \in 1..last - first : first + 1 + i - 1 = first + i
    BY <1>1, <1>3, <1>5
  <2>. QED  BY <1>6, <1>8, <2>1, <2>2
<1>10. IsSection(body, h, first, last)
  BY <1>3, <1>4, <1>5 DEF IsSection
<1>11. first \in Nat /\ last \in Nat
  BY <1>1, <1>3, <1>5
<1>. QED
  BY <1>9, <1>10, <1>11 DEF IsTextOf

\* With the comments in place, a comment that is opened before a heading is closed before it.
LEMMA HeadingInView ==
  ASSUME NEW body \in Seq(Lines), CommentsInPlace(body),
         NEW i \in 1..Len(body), body[i].kind = "heading"
  PROVE  ~Hidden(body, i)
<1>1. SUFFICES ASSUME NEW o \in 1..i, body[o].kind = "open", \A j \in o..i : ~Closes(body[j])
               PROVE  FALSE
  BY DEF Hidden
<1>2. PICK c \in o + 1..Len(body) : Spans(body, o, c)
  BY <1>1 DEF CommentsInPlace
<1>3. i # o /\ ~(c <= i)
  BY <1>1, <1>2 DEF Spans, Closes
<1>4. i \in o + 1..c - 1
  BY <1>1, <1>2, <1>3
<1>. QED
  BY <1>2, <1>4 DEF Spans

\* A box is always in view: it closes whatever comment it stands in.
LEMMA BoxInView ==
  ASSUME NEW body \in Seq(Lines), NEW i \in 1..Len(body), body[i].kind = "item"
  PROVE  ~Hidden(body, i)
  BY DEF Hidden, Closes

\* A comment that touches a section lies in it as a whole.
LEMMA CommentStaysInSection ==
  ASSUME NEW body \in Seq(Lines), NEW h, NEW first \in Nat, NEW last \in Nat,
         IsSection(body, h, first, last),
         NEW o \in 1..Len(body), NEW c \in o + 1..Len(body), Spans(body, o, c),
         NEW j \in first + 1..last, o <= j, j <= c
  PROVE  first < o /\ c <= last
<1>1. body[first].kind = "heading" /\ first \in 1..Len(body) /\ last <= Len(body)
  BY DEF IsSection, Heading
<1>2. first # o /\ first \notin o + 1..c - 1
  BY <1>1 DEF Spans
<1>3. first < o
  BY <1>1, <1>2
<1>4. ASSUME last < c
      PROVE  FALSE
  <2>1. body[last + 1].kind = "heading" /\ last + 1 \in o + 1..c
    BY <1>1, <1>4 DEF IsSection
  <2>. QED  BY <2>1 DEF Spans
<1>. QED
  BY <1>1, <1>3, <1>4

\* _visible_text() of a section finds something exactly when a reader does.
LEMMA VisibleIsSeen ==
  ASSUME NEW body \in Seq(Lines), CommentsInPlace(body),
         NEW h, NEW first \in Nat, NEW last \in Nat, IsSection(body, h, first, last),
         NEW lines, IsTextOf(lines, body, first, last)
  PROVE  _visible_text(lines) <=>
           \E j \in first + 1..Len(body) :
             ~Hidden(body, j) /\ \A k \in first + 1..j : body[k].kind # "heading"
<1>. USE DEF IsTextOf
<1>0. /\ first \in 1..Len(body) - 1 /\ last \in first..Len(body)
      /\ \A j \in first + 1..last : body[j].kind # "heading"
      /\ last < Len(body) => body[last + 1].kind = "heading"
      /\ \A j \in first + 1..last : body[j] \in Lines /\ j - first \in 1..last - first
                                     /\ lines[j - first] = body[j]
  <2>1. \A j \in 1..Len(body) : body[j] \in Lines
    BY ElementOfSeq
  <2>2. /\ first \in 1..Len(body) - 1 /\ last \in first..Len(body)
        /\ \A j \in first + 1..last : body[j].kind # "heading"
        /\ last < Len(body) => body[last + 1].kind = "heading"
    BY DEF IsSection
  <2>3. ASSUME NEW j \in first + 1..last
        PROVE  body[j] \in Lines /\ j - first \in 1..last - first /\ lines[j - first] = body[j]
    <3>1. j \in 1..Len(body) /\ j - first \in 1..last - first /\ first + (j - first) = j
      BY <2>2
    <3>. QED  BY <2>1, <3>1
  <2>. QED  BY <2>2, <2>3
<1>1. ASSUME NEW o \in 1..Len(body), NEW c \in o + 1..Len(body), Spans(body, o, c),
             NEW j \in first + 1..last, o <= j, j <= c
      PROVE  Commented(lines, j - first)
  <2>1. first < o /\ c <= last
    BY <1>1, CommentStaysInSection
  <2>2. o - first \in 1..j - first /\ c - first \in j - first..Len(lines)
    BY <1>0, <1>1, <2>1
  <2>3. lines[o - first] = body[o] /\ lines[c - first] = body[c]
    BY <1>0, <1>1, <2>1
  <2>4. ASSUME NEW k \in o - first..(c - first) - 1
        PROVE  ~Closes(lines[k])
    <3>1. k \in 1..last - first /\ lines[k] = body[first + k] /\ first + k \in o..c - 1
      BY <1>0, <2>1
    <3>2. first + k = o \/ first + k \in o + 1..c - 1
      BY <3>1
    <3>. QED  BY <1>1, <3>1, <3>2 DEF Spans, Closes
  <2>5. lines[o - first].kind = "open" /\ Closes(lines[c - first])
    BY <1>1, <2>3 DEF Spans, Closes
  <2>. QED  BY <2>2, <2>4, <2>5 DEF Commented
<1>2. ASSUME NEW i \in 1..Len(lines),
             \/ lines[i].kind = "item"
             \/ lines[i].kind \notin {"blank", "comment", "marker"} /\ ~Commented(lines, i)
      PROVE  \E j \in first + 1..Len(body) :
               ~Hidden(body, j) /\ \A k \in first + 1..j : body[k].kind # "heading"
  <2>. DEFINE j == first + i
  <2>1. j \in first + 1..last /\ j \in 1..Len(body) /\ body[j] = lines[i] /\ i = j - first
    BY <1>0
  <2>2. \A k \in first + 1..j : body[k].kind # "heading"
    BY <1>0, <2>1
  <2>3. CASE lines[i].kind = "item"
    BY <2>1, <2>2, <2>3, <1>0, BoxInView
  <2>4. CASE lines[i].kind \notin {"blank", "comment", "marker"} /\ ~Commented(lines, i)
    <3>. HIDE DEF j
    <3>0. ~Commented(lines, j - first) /\ j \in Nat
      BY <2>1, <2>4
    <3>1. body[j].kind # "open"
      <4>1. SUFFICES ASSUME body[j].kind = "open" PROVE FALSE
        OBVIOUS
      <4>2. PICK c \in j + 1..Len(body) : Spans(body, j, c)
        BY <2>1, <4>1 DEF CommentsInPlace
      <4>3. j <= j /\ j <= c
        BY <3>0, <4>2
      <4>. QED  BY <1>1, <2>1, <3>0, <4>2, <4>3
    <3>2. body[j].kind # "close"
      <4>1. SUFFICES ASSUME body[j].kind = "close" PROVE FALSE
        OBVIOUS
      <4>2. PICK o \in 1..j - 1 : Spans(body, o, j)
        BY <2>1, <4>1 DEF CommentsInPlace
      <4>3. o \in 1..Len(body) /\ j \in o + 1..Len(body) /\ o <= j
        BY <1>0, <2>1
      <4>4. j <= j
        BY <3>0
      <4>. QED  BY <1>1, <2>1, <3>0, <4>2, <4>3, <4>4
    <3>3. ASSUME NEW o \in 1..j, body[o].kind = "open", \A k \in o..j : ~Closes(body[k])
          PROVE  FALSE
      <4>1. o \in 1..Len(body) /\ o <= j
        BY <1>0, <2>1
      <4>2. PICK c \in o + 1..Len(body) : Spans(body, o, c)
        BY <3>3, <4>1 DEF CommentsInPlace
      <4>3. ASSUME ~(j <= c)
            PROVE  FALSE
        <5>1. c \in o..j
          BY <3>0, <4>1, <4>3
        <5>2. Closes(body[c])
          BY <4>2 DEF Spans, Closes
        <5>. QED  BY <3>3, <5>1, <5>2
      <4>. QED  BY <1>1, <2>1, <3>0, <4>1, <4>2, <4>3
    <3>4. ~Hidden(body, j)
      BY <2>1, <2>4, <3>1, <3>2, <3>3 DEF Hidden
    <3>. QED  BY <1>0, <2>1, <2>2, <3>4
  <2>. QED  BY <1>2, <2>3, <2>4
<1>3. ASSUME NEW j \in first + 1..Len(body), ~Hidden(body, j),
             \A k \in first + 1..j : body[k].kind # "heading"
      PROVE  _visible_text(lines)
  <2>1. j \in first + 1..last
    BY <1>0, <1>3
  <2>. DEFINE i == j - first
  <2>2. i \in 1..Len(lines) /\ lines[i] = body[j] /\ body[j] \in Lines /\ j \in 1..Len(body)
    BY <1>0, <2>1
  <2>3. body[j].kind \in {"item", "text"}
    BY <1>3, <2>2 DEF Hidden, Lines
  <2>4. ASSUME body[j].kind = "text", Commented(lines, i)
        PROVE  FALSE
    <3>1. PICK o \in 1..i, c \in i..Len(lines) :
            /\ lines[o].kind = "open" /\ Closes(lines[c])
            /\ \A k \in o..c - 1 : ~Closes(lines[k])
      BY <2>4 DEF Commented
    <3>2. c # i
      BY <2>2, <2>4, <3>1 DEF Closes
    <3>3. ASSUME NEW k \in first + o..j
          PROVE  ~Closes(body[k])
      <4>1. k \in first + 1..last /\ k - first \in o..c - 1
        BY <2>1, <3>2
      <4>2. lines[k - first] = body[k]
        BY <1>0, <4>1
      <4>. QED  BY <3>1, <4>1, <4>2
    <3>4. first + o \in 1..j /\ body[first + o].kind = "open"
      <4>1. o \in 1..last - first /\ first + o \in 1..j
        BY <2>1
      <4>. QED  BY <3>1, <4>1
    <3>. QED  BY <1>3, <3>3, <3>4 DEF Hidden
  <2>. QED  BY <2>2, <2>3, <2>4 DEF _visible_text
<1>. QED
  BY <1>2, <1>3 DEF _visible_text

\* pr_contract_gate.py on any text whose comments are closed and hold only plain lines, no
\* heading and no box: it passes exactly the pull requests whose contract a reader of the
\* rendered text finds kept.
THEOREM VerdictIsReaders ==
  ASSUME NEW body \in Seq(Lines), CommentsInPlace(body)
  PROVE  validate_event(body) = {} <=> ContractKept(body)
<1>1. CASE body = NoBody
  <2>1. validate_event(body) # {}
    BY <1>1 DEF validate_event
  <2>2. 1..Len(body) = {}
    BY <1>1 DEF NoBody
  <2>3. ~ContractKept(body)
    BY <2>2 DEF ContractKept
  <2>. QED  BY <2>1, <2>3
<1>2. CASE body # NoBody
  <2>. DEFINE A == \E i \in 1..Len(body) : body[i].kind = "marker"
              B == \A h \in RequiredSections : HasSection(body, h)
              C == \A g \in RequiredGates : \E i \in 1..Len(body) : body[i] = Box(g, TRUE)
              D == \A h \in FilledSections :
                     HasSection(body, h) => _visible_text(_section_body(body, h))
  <2>1. validate_event(body) = {} <=> A /\ B /\ C /\ D
    <3>1. validate_event(body) = validate_body(body)
      BY <1>2 DEF validate_event
    <3>. QED  BY <3>1 DEF validate_body
  <2>2. C <=> \A g \in RequiredGates :
                \E i \in 1..Len(body) : body[i] = Box(g, TRUE) /\ ~Hidden(body, i)
    BY BoxInView DEF Box
  <2>. DEFINE Sees(h) ==
         \E i \in 1..Len(body) - 1 :
           /\ body[i] = Heading(h) /\ ~Hidden(body, i)
           /\ \A j \in 1..i - 1 : body[j] # Heading(h)
           /\ h \in FilledSections =>
                \E j \in i + 1..Len(body) :
                  ~Hidden(body, j) /\ \A k \in i + 1..j : body[k].kind # "heading"
  <2>3. ASSUME NEW h, HasSection(body, h)
        PROVE  Sees(h) <=> (h \in FilledSections => _visible_text(_section_body(body, h)))
    <3>1. PICK first \in Nat, last \in Nat :
            IsSection(body, h, first, last) /\ IsTextOf(_section_body(body, h), body, first, last)
      BY <2>3, SectionFound
    <3>2. _visible_text(_section_body(body, h)) <=>
            \E j \in first + 1..Len(body) :
              ~Hidden(body, j) /\ \A k \in first + 1..j : body[k].kind # "heading"
      BY <3>1, VisibleIsSeen
    <3>3. /\ first \in 1..Len(body) - 1 /\ body[first] = Heading(h)
          /\ \A j \in 1..first - 1 : body[j] # Heading(h)
      BY <3>1 DEF IsSection
    <3>4. ~Hidden(body, first)
      BY <3>3, HeadingInView DEF Heading
    <3>5. ASSUME NEW i \in 1..Len(body) - 1, body[i] = Heading(h),
                 \A j \in 1..i - 1 : body[j] # Heading(h)
          PROVE  i = first
      <4>1. ~(i < first) /\ ~(first < i)
        BY <3>3, <3>5
      <4>. QED  BY <3>3, <4>1
    <3>. QED  BY <3>2, <3>3, <3>4, <3>5
  <2>4. \A h : Sees(h) => HasSection(body, h)
    BY DEF HasSection
  <2>5. ContractKept(body) <=> A /\ C /\ \A h \in RequiredSections : Sees(h)
    BY <2>2 DEF ContractKept
  <2>. HIDE DEF A, C, Sees
  <2>6. B /\ D <=> \A h \in RequiredSections : Sees(h)
    BY <2>3, <2>4, ContractAssumption
  <2>. QED  BY <2>1, <2>5, <2>6
<1>. QED
  BY <1>1, <1>2

-----------------------------------------------------------------------------
(* The verdict of the migration gate.                                      *)

\* compare_configuration() and main(): the gate passes exactly when both checkouts were
\* found, every file could be read, and no comparison, of all of them, found a difference.
ExitIsVerdict == exit # "running" => (exit = "0" <=> NothingDiffers(roots))

\* Up to now every comparison found its files, and the differences are what they found.
DiffInv ==
  /\ DiffTypeOK
  /\ \A i \in 1..position : Readable(roots, Comparisons[i])
  /\ differences = {} <=> \A i \in 1..position : Differing(roots, Comparisons[i]) = {}
  /\ ExitIsVerdict

LEMMA ComparisonsType == Len(Comparisons) \in Nat
BY ProfilesAssumption DEF Comparisons

\* One comparison or the verdict keeps it.
LEMMA DiffInvStep ==
  ASSUME DiffInv, [DiffNext]_diffVars
  PROVE  DiffInv'
<1>. USE ComparisonsType DEF NothingDiffers
<1>1. CASE ResolveRoots
  BY <1>1 DEF ResolveRoots, DiffInv, DiffTypeOK, ExitIsVerdict
<1>2. CASE Compare
  <2>. DEFINE c == Comparisons[position + 1]
              bad == {i \in 1..Len(FilesOf(roots, c)) :
                        Refused(FilesOf(roots, c)[i]) \/ Escapes(FilesOf(roots, c)[i])}
  <2>1. /\ exit = "running" /\ Resolved(roots) /\ position < Len(Comparisons)
        /\ roots' = roots
        /\ IF ~Readable(roots, c)
             THEN /\ exit' = IF Refused(FilesOf(roots, c)[Min(bad)]) THEN "2" ELSE "1"
                  /\ UNCHANGED <<position, differences>>
             ELSE /\ differences' = differences \cup {<<c.axis, p>> : p \in Differing(roots, c)}
                  /\ position' = position + 1
                  /\ UNCHANGED exit
    BY <1>2 DEF Compare
  <2>2. bad = {} <=> Readable(roots, c)
    BY DEF Readable
  <2>3. position \in Nat /\ position + 1 \in 1..Len(Comparisons)
    BY <2>1 DEF DiffInv, DiffTypeOK
  <2>. HIDE DEF bad
  <2>4. CASE bad # {}
    <3>1. exit' \in {"1", "2"} /\ UNCHANGED <<position, differences>>
      BY <2>1, <2>2, <2>4
    <3>. QED  BY <2>1, <2>2, <2>3, <2>4, <3>1 DEF DiffInv, DiffTypeOK, ExitIsVerdict
  <2>5. CASE bad = {}
    <3>1. /\ differences' = differences \cup {<<c.axis, p>> : p \in Differing(roots, c)}
          /\ position' = position + 1 /\ exit' = "running"
      BY <2>1, <2>2, <2>5
    <3>2. Readable(roots, c)
      BY <2>2, <2>5
    <3>3. DiffTypeOK'
      BY <2>1, <2>3, <3>1 DEF DiffInv, DiffTypeOK
    <3>4. 1..position' = 1..position \cup {position + 1}
      BY <2>3, <3>1
    <3>5. \A i \in 1..position' : Readable(roots', Comparisons[i])
      BY <2>1, <3>2, <3>4 DEF DiffInv
    <3>6. differences' = {} <=> differences = {} /\ Differing(roots, c) = {}
      BY <3>1
    <3>7. differences' = {} <=> \A i \in 1..position' : Differing(roots', Comparisons[i]) = {}
      BY <2>1, <3>4, <3>6 DEF DiffInv
    <3>. QED  BY <3>1, <3>3, <3>5, <3>7 DEF DiffInv, ExitIsVerdict
  <2>. QED  BY <2>4, <2>5
<1>3. CASE Finish
  BY <1>3 DEF Finish, DiffInv, DiffTypeOK, ExitIsVerdict
<1>4. CASE UNCHANGED diffVars
  BY <1>4 DEF diffVars, DiffInv, DiffTypeOK, ExitIsVerdict
<1>. QED
  BY <1>1, <1>2, <1>3, <1>4 DEF DiffNext

\* Steps of paths, as flatten_node() makes them.
PathSteps == [key : STRING] \cup [at : Nat]

\* prepend_sync_tolerance() on any flat map: each start-up SDO is found one place further
\* down with the value it had, everything else where it was, and no two entries collide or
\* get lost, except under the paths of the new SDO, which are the new entries.
THEOREM SdosMoveDown ==
  ASSUME NEW profile, DOMAIN profile \subseteq Seq(PathSteps), NEW type
  PROVE  LET new    == flatten_node(Map(<<Item("sdo", SyncTolerance(type))>>))
             result == prepend_sync_tolerance(profile, type)
         IN  /\ DOMAIN result = DOMAIN new \cup {Moved(p, 1) : p \in DOMAIN profile}
             /\ \A p \in DOMAIN new : result[p] = new[p]
             /\ \A p \in DOMAIN profile :
                  Moved(p, 1) \notin DOMAIN new => result[Moved(p, 1)] = profile[p]
             /\ \A p, q \in DOMAIN profile : Moved(p, 1) = Moved(q, 1) => p = q
<1>. DEFINE new   == flatten_node(Map(<<Item("sdo", SyncTolerance(type))>>))
            shift == [q \in {Moved(p, 1) : p \in DOMAIN profile} |-> profile[Moved(q, -1)]]
<1>1. ASSUME NEW p \in Seq(PathSteps)
      PROVE  Moved(Moved(p, 1), -1) = p
  <2>1. CASE ~IsSdo(p)
    BY <2>1 DEF Moved
  <2>2. CASE IsSdo(p)
    <3>1. 2 \in 1..Len(p) /\ p[2] \in PathSteps /\ "at" \in DOMAIN p[2]
      BY <2>2 DEF IsSdo
    <3>2. PICK k \in Nat : p[2] = [at |-> k]
      BY <3>1 DEF PathSteps
    <3>3. p[2].at = k /\ [at |-> k + 1].at = k + 1 /\ k + 1 + (-1) = k
      BY <3>2
    <3>. DEFINE m == [p EXCEPT ![2] = [at |-> k + 1]]
    <3>4. Moved(p, 1) = m
      BY <2>2, <3>3 DEF Moved, At
    <3>5. /\ m \in Seq(PathSteps) /\ Len(m) = Len(p) /\ m[2] = [at |-> k + 1]
          /\ \A i \in 1..Len(p) : i # 2 => m[i] = p[i]
      <4>1. [at |-> k + 1] \in PathSteps
        BY DEF PathSteps
      <4>. QED  BY <3>1, <4>1
    <3>. HIDE DEF m
    <3>6. IsSdo(m)
      BY <2>2, <3>1, <3>5 DEF IsSdo
    <3>7. Moved(m, -1) = [m EXCEPT ![2] = [at |-> k]]
      BY <3>3, <3>5, <3>6 DEF Moved, At
    <3>8. [m EXCEPT ![2] = [at |-> k]] = p
      <4>1. [at |-> k] \in PathSteps
        BY DEF PathSteps
      <4>. QED  BY <3>1, <3>2, <3>5, <4>1
    <3>. QED  BY <3>4, <3>7, <3>8
  <2>. QED  BY <2>1, <2>2
<1>2. prepend_sync_tolerance(profile, type) = Updated(shift, new)
  BY DEF prepend_sync_tolerance
<1>3. /\ DOMAIN Updated(shift, new) = DOMAIN new \cup DOMAIN shift
      /\ \A p \in DOMAIN new : Updated(shift, new)[p] = new[p]
      /\ \A p \in DOMAIN shift \ DOMAIN new : Updated(shift, new)[p] = shift[p]
  BY DEF Updated
<1>4. \A p \in DOMAIN profile : shift[Moved(p, 1)] = profile[p]
  BY <1>1
<1>5. \A p, q \in DOMAIN profile : Moved(p, 1) = Moved(q, 1) => p = q
  BY <1>1
<1>6. DOMAIN shift = {Moved(p, 1) : p \in DOMAIN profile}
  OBVIOUS
<1>. HIDE DEF new, shift
<1>7. /\ DOMAIN prepend_sync_tolerance(profile, type)
           = DOMAIN new \cup {Moved(p, 1) : p \in DOMAIN profile}
      /\ \A p \in DOMAIN new : prepend_sync_tolerance(profile, type)[p] = new[p]
      /\ \A p \in DOMAIN profile :
           Moved(p, 1) \notin DOMAIN new =>
             prepend_sync_tolerance(profile, type)[Moved(p, 1)] = profile[p]
  BY <1>2, <1>3, <1>4, <1>6
<1>. QED
  BY <1>5, <1>7 DEF new

-----------------------------------------------------------------------------
(* The CI run.                                                             *)

\* What started a run stays, and so does the commit it was started for.
RunInv ==
  /\ event.kind \in {"local", "pull_request", "push"} /\ event.body \in Seq(Lines)
  /\ event.kind = "local" => DOMAIN jobs = {}
  /\ event.kind # "local" =>
       touched = {} /\ Triggers /\ IsWorkflow(Document) /\ DOMAIN jobs = DOMAIN Jobs

JobsInv ==
  /\ DOMAIN next = DOMAIN jobs
  /\ \A j \in DOMAIN jobs : jobs[j] \in {"waiting", "running"} \cup Ended
  /\ hook \in {"idle", "gate", "checks"} /\ edits \in 0..MaxEdits

\* A job has executed with success every step it is past, but for those whose `if:` did not
\* hold or whose failure is tolerated, and a successful one is past them all.
StepsTaken ==
  \A j \in DOMAIN jobs :
    /\ next[j] \in 1..Len(Steps(j)) + 1
    /\ jobs[j] = "success" => next[j] = Len(Steps(j)) + 1
    /\ \A i \in 1..next[j] - 1 :
         ConditionHolds(Steps(j)[i]) /\ ~Steps(j)[i].tolerated
           => <<j, Steps(j)[i].run, TRUE>> \in ran

\* What is recorded of the gates is what they said.
RanInv ==
  \A r \in ran :
    /\ r[1] \in DOMAIN jobs /\ r[3] \in BOOLEAN
    /\ r[2] = "diff_legacy" /\ r[3] => exit = "0"
    /\ r[2] = "pr_contract_gate" => (r[3] <=> validate_event(EventBody) = {})

CiInv == GateInv /\ DiffInv /\ RunInv /\ JobsInv /\ StepsTaken /\ RanInv

\* What a command's end says of its success.
Verdict(command, ok) ==
  /\ command = "diff_legacy" => (ok => exit = "0")
  /\ command = "pr_contract_gate" => (ok <=> validate_event(EventBody) = {})

\* The steps of a job's gates are steps of the gates; nothing else touches their state.
LEMMA GatesOfJobs ==
  ASSUME NEW j, JobStep(j)
  PROVE  /\ [GateNext]_gateVars /\ [DiffNext]_diffVars
         /\ UNCHANGED <<event, worktree, edits>> /\ touched' \in {touched, {}}
<1>1. CASE StartJob(j) \/ SkipJob(j) \/ PassOver(j) \/ FinishJob(j) \/ TimeOut(j)
  BY <1>1 DEF StartJob, SkipJob, PassOver, FinishJob, TimeOut, gateVars
<1>2. CASE RunCommand(j) \/ GateEnded(j) \/ OtherChecks(j) \/ CheckContract(j) \/ DiffEnded(j)
  BY <1>2 DEF RunCommand, GateEnded, OtherChecks, CheckContract, DiffEnded, Complete, gateVars
<1>3. CASE RunHooks(j)
  BY <1>3 DEF RunHooks, Complete, GateNext, GateStart, gateVars
<1>4. CASE RunRepositoryGate(j)
  BY <1>4 DEF RunRepositoryGate, ciVars, GateNext, ListFiles, GitFails, GateStep, NextFile,
              ReadFile, ReadFails, CheckPolicies
<1>5. CASE RunDiffLegacy(j)
  BY <1>5 DEF RunDiffLegacy, ciVars, gateVars
<1>. QED
  BY <1>1, <1>2, <1>3, <1>4, <1>5 DEF JobStep

\* What a job's step does to the job: nothing, another state, the next step without
\* executing this one, or the end of a command.
Standstill == UNCHANGED <<jobs, next, ran>>
Moves(j, s) ==
  /\ jobs' = [jobs EXCEPT ![j] = s] /\ UNCHANGED <<next, ran>>
  /\ s = "success" => next[j] > Len(Steps(j))
Ends(j, ok) ==
  Active(j) /\ Complete(j, ok) /\ Verdict(Steps(j)[next[j]].run, ok) /\ UNCHANGED diffVars

LEMMA EffectOfJobStep ==
  ASSUME NEW j, JobStep(j), JobsInv
  PROVE  /\ hook' \in {"idle", "gate", "checks"}
         /\ \/ Standstill
            \/ \E s \in {"running"} \cup Ended : Moves(j, s)
            \/ PassOver(j)
            \/ \E ok \in BOOLEAN : Ends(j, ok)
<1>. USE DEF JobsInv
<1>1. CASE StartJob(j) \/ SkipJob(j) \/ FinishJob(j) \/ TimeOut(j)
  BY <1>1 DEF StartJob, SkipJob, FinishJob, TimeOut, Moves, Ended
<1>2. CASE PassOver(j)
  BY <1>2 DEF PassOver
<1>3. CASE RunCommand(j)
  BY <1>3 DEF RunCommand, Due, Gates, Ends, Verdict
<1>4. CASE RunHooks(j)
  BY <1>4 DEF RunHooks, Due, Ends, Verdict, Standstill
<1>5. CASE GateEnded(j)
  BY <1>5 DEF GateEnded, Due, Ends, Verdict, Standstill
<1>6. CASE OtherChecks(j)
  BY <1>6 DEF OtherChecks, Due, Ends, Verdict
<1>7. CASE CheckContract(j)
  BY <1>7 DEF CheckContract, Due, Ends, Verdict
<1>8. CASE DiffEnded(j)
  BY <1>8 DEF DiffEnded, Due, Ends, Verdict
<1>9. CASE RunRepositoryGate(j) \/ RunDiffLegacy(j)
  BY <1>9 DEF RunRepositoryGate, RunDiffLegacy, ciVars, Standstill
<1>. QED
  BY <1>1, <1>2, <1>3, <1>4, <1>5, <1>6, <1>7, <1>8, <1>9 DEF JobStep

\* Steps and conditions are those of the commit.
LEMMA SameWorkflow ==
  ASSUME UNCHANGED <<event, worktree>>
  PROVE  /\ Triggers' = Triggers /\ Document' = Document /\ Jobs' = Jobs /\ EventBody' = EventBody
         /\ \A j : Steps(j)' = Steps(j)
         /\ \A step : ConditionHolds(step)' = ConditionHolds(step)
BY DEF Triggers, Document, Jobs, EventBody, Steps, ConditionHolds

\* Every job has a number of steps, whatever workflow the commit brings.
LEMMA StepsType ==
  ASSUME RunInv, NEW j \in DOMAIN jobs
  PROVE  Len(Steps(j)) \in Nat
<1>1. IsWorkflow(Document) /\ j \in DOMAIN Jobs
  BY DEF RunInv
<1>2. Steps(j) \in Seq(StepType)
  BY <1>1 DEF IsWorkflow, Steps, Jobs
<1>. QED
  BY <1>2

\* A job's step keeps what is known of every job.
LEMMA JobStepKeeps ==
  ASSUME CiInv, NEW j \in DOMAIN jobs, JobStep(j)
  PROVE  CiInv'
<1>1. /\ [GateNext]_gateVars /\ [DiffNext]_diffVars
      /\ UNCHANGED <<event, worktree, edits>> /\ touched' \in {touched, {}}
  BY GatesOfJobs
<1>2. /\ Triggers' = Triggers /\ Document' = Document /\ Jobs' = Jobs /\ EventBody' = EventBody
      /\ \A k : Steps(k)' = Steps(k)
      /\ \A step : ConditionHolds(step)' = ConditionHolds(step)
  BY <1>1, SameWorkflow
<1>3. GateInv' /\ DiffInv'
  BY <1>1, GateInvStep, DiffInvStep DEF CiInv
<1>4. /\ event.kind # "local" /\ DOMAIN jobs = DOMAIN Jobs
      /\ \A k \in DOMAIN jobs : Len(Steps(k)) \in Nat
  BY StepsType DEF CiInv, RunInv, GateInv
<1>5. exit = "0" => exit' = "0"
  BY <1>1 DEF DiffNext, ResolveRoots, Compare, Finish, diffVars
<1>6. hook' \in {"idle", "gate", "checks"}
  BY EffectOfJobStep DEF CiInv
<1>7. ASSUME DOMAIN jobs' = DOMAIN jobs
      PROVE  RunInv'
  BY <1>1, <1>2, <1>4, <1>7 DEF CiInv, RunInv
<1>8. CASE Standstill
  <2>1. JobsInv' /\ StepsTaken'
    BY <1>1, <1>2, <1>6, <1>8 DEF CiInv, Standstill, JobsInv, StepsTaken
  <2>2. RanInv'
    BY <1>2, <1>5, <1>8 DEF CiInv, Standstill, RanInv
  <2>. QED  BY <1>3, <1>7, <1>8, <2>1, <2>2 DEF CiInv, Standstill
<1>9. ASSUME NEW s \in {"running"} \cup Ended, Moves(j, s)
      PROVE  CiInv'
  <2>1. /\ jobs' = [jobs EXCEPT ![j] = s] /\ UNCHANGED <<next, ran>>
        /\ s = "success" => next[j] > Len(Steps(j))
    BY <1>9 DEF Moves
  <2>2. /\ DOMAIN jobs' = DOMAIN jobs /\ jobs'[j] = s
        /\ \A k \in DOMAIN jobs \ {j} : jobs'[k] = jobs[k]
    BY <2>1
  <2>3. JobsInv'
    BY <1>1, <1>6, <2>1, <2>2 DEF CiInv, JobsInv
  <2>4. s = "success" => next[j] = Len(Steps(j)) + 1
    <3>1. next[j] \in 1..Len(Steps(j)) + 1
      BY DEF CiInv, StepsTaken
    <3>. QED  BY <1>4, <2>1, <3>1
  <2>5. StepsTaken'
    BY <1>2, <2>1, <2>2, <2>4 DEF CiInv, StepsTaken
  <2>6. RanInv'
    BY <1>2, <1>5, <2>1, <2>2 DEF CiInv, RanInv
  <2>. QED  BY <1>3, <1>7, <2>2, <2>3, <2>5, <2>6 DEF CiInv
<1>10. ASSUME Active(j), next' = [next EXCEPT ![j] = @ + 1], UNCHANGED jobs, ran \subseteq ran',
              \/ ~ConditionHolds(Steps(j)[next[j]]) \/ Steps(j)[next[j]].tolerated
              \/ <<j, Steps(j)[next[j]].run, TRUE>> \in ran'
       PROVE  JobsInv' /\ StepsTaken'
  <2>1. /\ next[j] \in Nat /\ next[j] >= 1 /\ next[j] <= Len(Steps(j)) /\ jobs[j] = "running"
    <3>1. next[j] \in 1..Len(Steps(j)) + 1
      BY DEF CiInv, StepsTaken
    <3>. QED  BY <1>4, <1>10, <3>1 DEF Active
  <2>2. /\ DOMAIN next' = DOMAIN next /\ next'[j] = next[j] + 1
        /\ \A k \in DOMAIN jobs \ {j} : next'[k] = next[k]
    BY <1>10 DEF CiInv, JobsInv
  <2>3. JobsInv'
    BY <1>1, <1>6, <1>10, <2>2 DEF CiInv, JobsInv
  <2>4. next'[j] \in 1..Len(Steps(j)) + 1 /\ 1..next'[j] - 1 = 1..next[j] - 1 \cup {next[j]}
    BY <1>4, <2>1, <2>2
  <2>5. \A i \in 1..next'[j] - 1 :
          ConditionHolds(Steps(j)[i]) /\ ~Steps(j)[i].tolerated
            => <<j, Steps(j)[i].run, TRUE>> \in ran'
    BY <1>10, <2>4 DEF CiInv, StepsTaken
  <2>6. StepsTaken'
    BY <1>2, <1>10, <2>1, <2>2, <2>4, <2>5 DEF CiInv, StepsTaken
  <2>. QED  BY <2>3, <2>6
<1>11. CASE PassOver(j)
  <2>1. /\ Active(j) /\ ~ConditionHolds(Steps(j)[next[j]])
        /\ next' = [next EXCEPT ![j] = @ + 1] /\ UNCHANGED <<jobs, ran>>
    BY <1>11 DEF PassOver
  <2>2. RanInv'
    BY <1>2, <1>5, <2>1 DEF CiInv, RanInv
  <2>. QED  BY <1>3, <1>7, <1>10, <2>1, <2>2 DEF CiInv
<1>12. ASSUME NEW ok \in BOOLEAN, Ends(j, ok)
       PROVE  CiInv'
  <2>. DEFINE command == Steps(j)[next[j]].run
  <2>1. /\ Active(j) /\ Verdict(command, ok)
        /\ ran' = ran \cup {<<j, command, ok>>}
        /\ IF ok \/ Steps(j)[next[j]].tolerated
             THEN next' = [next EXCEPT ![j] = @ + 1] /\ UNCHANGED jobs
             ELSE jobs' = [jobs EXCEPT ![j] = "failure"] /\ UNCHANGED next
    BY <1>12 DEF Ends, Complete
  <2>2. DOMAIN jobs' = DOMAIN jobs
    BY <2>1
  <2>3. RanInv'
    <3>1. ASSUME NEW r \in ran'
          PROVE  /\ r[1] \in DOMAIN jobs /\ r[3] \in BOOLEAN
                 /\ r[2] = "diff_legacy" /\ r[3] => exit = "0"
                 /\ r[2] = "pr_contract_gate" => (r[3] <=> validate_event(EventBody) = {})
      <4>1. CASE r \in ran
        BY <4>1 DEF CiInv, RanInv
      <4>2. CASE r = <<j, command, ok>>
        BY <2>1, <4>2 DEF Verdict
      <4>. QED  BY <2>1, <4>1, <4>2
    <3>. QED  BY <1>2, <1>5, <2>2, <3>1 DEF RanInv
  <2>4. CASE ok \/ Steps(j)[next[j]].tolerated
    <3>1. /\ next' = [next EXCEPT ![j] = @ + 1] /\ UNCHANGED jobs /\ ran \subseteq ran'
          /\ Steps(j)[next[j]].tolerated \/ <<j, command, TRUE>> \in ran'
      BY <2>1, <2>4
    <3>2. JobsInv' /\ StepsTaken'
      BY <1>10, <2>1, <3>1
    <3>. QED  BY <1>3, <1>7, <2>2, <2>3, <3>2 DEF CiInv
  <2>5. CASE ~(ok \/ Steps(j)[next[j]].tolerated)
    <3>1. jobs' = [jobs EXCEPT ![j] = "failure"] /\ UNCHANGED next /\ ran \subseteq ran'
      BY <2>1, <2>5
    <3>2. jobs'[j] = "failure" /\ \A k \in DOMAIN jobs \ {j} : jobs'[k] = jobs[k]
      BY <3>1
    <3>3. JobsInv'
      BY <1>1, <1>6, <2>2, <3>1, <3>2 DEF CiInv, JobsInv, Ended
    <3>4. StepsTaken'
      BY <1>2, <2>2, <3>1, <3>2 DEF CiInv, StepsTaken
    <3>. QED  BY <1>3, <1>7, <2>2, <2>3, <3>3, <3>4 DEF CiInv
  <2>. QED  BY <2>4, <2>5
<1>. QED
  <2>1. JobsInv
    BY DEF CiInv
  <2>. QED  BY <1>8, <1>9, <1>11, <1>12, <2>1, EffectOfJobStep

\* The local hook, edits of the worktree and a cancelled run keep it, too.
LEMMA CiInvStep ==
  ASSUME CiInv, [Next]_vars
  PROVE  CiInv'
<1>1. ASSUME NEW j \in DOMAIN jobs, JobStep(j)
      PROVE  CiInv'
  BY <1>1, JobStepKeeps
<1>2. CASE LocalGate
  <2>1. /\ event.kind = "local" /\ UNCHANGED <<diffVars, ciVars>> /\ [GateNext]_gateVars
    BY <1>2 DEF LocalGate, GateNext
  <2>2. GateInv' /\ DiffInv'
    BY <2>1, GateInvStep, DiffInvStep DEF CiInv
  <2>3. DOMAIN jobs = {} /\ DOMAIN jobs' = {}
    BY <2>1 DEF CiInv, RunInv, ciVars
  <2>4. RunInv' /\ JobsInv' /\ StepsTaken' /\ RanInv'
    BY <2>1, <2>3 DEF CiInv, RunInv, JobsInv, StepsTaken, RanInv, ciVars
  <2>. QED  BY <2>2, <2>4 DEF CiInv
<1>3. CASE EditFile
  <2>1. /\ event.kind = "local" /\ edits < MaxEdits /\ edits' = edits + 1
        /\ UNCHANGED <<diffVars, event, jobs, next, hook, ran>>
        /\ \E e \in Edits : Edit(e[1])
    BY <1>3 DEF EditFile
  <2>2. [GateNext]_gateVars
    BY <2>1, CommitsAssumption DEF GateNext
  <2>3. GateInv' /\ DiffInv'
    BY <2>1, <2>2, GateInvStep, DiffInvStep DEF CiInv
  <2>4. DOMAIN jobs = {} /\ DOMAIN jobs' = {}
    BY <2>1 DEF CiInv, RunInv
  <2>5. RunInv' /\ StepsTaken' /\ RanInv'
    BY <2>1, <2>4 DEF CiInv, RunInv, StepsTaken, RanInv
  <2>6. JobsInv'
    BY <2>1, <2>4, CommitsAssumption DEF CiInv, JobsInv
  <2>. QED  BY <2>3, <2>5, <2>6 DEF CiInv
<1>4. CASE CancelRun
  <2>1. /\ jobs' = [j \in DOMAIN jobs |-> IF jobs[j] \in Ended THEN jobs[j] ELSE "cancelled"]
        /\ UNCHANGED <<diffVars, gateVars, event, next, hook, ran, edits>>
    BY <1>4 DEF CancelRun
  <2>2. /\ UNCHANGED <<event, worktree, touched>>
        /\ [GateNext]_gateVars /\ [DiffNext]_diffVars
    BY <2>1 DEF gateVars
  <2>3. GateInv' /\ DiffInv'
    BY <2>2, GateInvStep, DiffInvStep DEF CiInv
  <2>4. /\ DOMAIN jobs' = DOMAIN jobs
        /\ \A j \in DOMAIN jobs : jobs'[j] \in Ended /\ (jobs'[j] = "success" => jobs[j] = "success")
    BY <2>1 DEF Ended
  <2>5. /\ Triggers' = Triggers /\ Document' = Document /\ Jobs' = Jobs /\ EventBody' = EventBody
        /\ \A k : Steps(k)' = Steps(k)
        /\ \A step : ConditionHolds(step)' = ConditionHolds(step)
    BY <2>2, SameWorkflow
  <2>6. RunInv' /\ JobsInv'
    BY <2>1, <2>2, <2>4, <2>5 DEF CiInv, RunInv, JobsInv
  <2>7. StepsTaken'
    BY <2>1, <2>4, <2>5 DEF CiInv, StepsTaken
  <2>8. RanInv'
    BY <2>1, <2>4, <2>5 DEF CiInv, RanInv, diffVars
  <2>. QED  BY <2>3, <2>6, <2>7, <2>8 DEF CiInv
<1>5. CASE UNCHANGED vars
  <2>1. /\ UNCHANGED <<event, worktree, touched>> /\ UNCHANGED <<jobs, next, hook, ran, edits, exit>>
        /\ [GateNext]_gateVars /\ [DiffNext]_diffVars
    BY <1>5 DEF vars, gateVars, ciVars, diffVars
  <2>2. GateInv' /\ DiffInv'
    BY <2>1, GateInvStep, DiffInvStep DEF CiInv
  <2>3. /\ Triggers' = Triggers /\ Document' = Document /\ Jobs' = Jobs /\ EventBody' = EventBody
        /\ \A k : Steps(k)' = Steps(k)
        /\ \A step : ConditionHolds(step)' = ConditionHolds(step)
    BY <2>1, SameWorkflow
  <2>4. RunInv' /\ JobsInv'
    BY <2>1, <2>3 DEF CiInv, RunInv, JobsInv
  <2>5. StepsTaken' /\ RanInv'
    BY <2>1, <2>3 DEF CiInv, StepsTaken, RanInv
  <2>. QED  BY <2>2, <2>4, <2>5 DEF CiInv
<1>. QED
  BY <1>1, <1>2, <1>3, <1>4, <1>5 DEF Next, Rest

\* Every run, of CI or of the hook, starts there.
LEMMA CiInvInit == Init => CiInv
<1>. SUFFICES ASSUME Init PROVE CiInv
  OBVIOUS
<1>1. GateInit /\ hook = "idle" /\ ran = {} /\ edits = 0 /\ \E r \in Roots : DiffInit(r)
  BY CommitsAssumption, ProfilesAssumption DEF Init, InitCi, InitLocal
<1>2. GateInv
  BY <1>1 DEF GateInit, GateInv, EmptyTexts
<1>3. DiffInv
  BY <1>1, ProfilesAssumption, ComparisonsType DEF DiffInit, DiffInv, DiffTypeOK, ExitIsVerdict
<1>4. CASE \E c \in Commits : InitCi(c)
  <2>1. PICK c \in Commits : InitCi(c)
    BY <1>4
  <2>2. /\ event = [kind |-> c.kind, body |-> c.body] /\ worktree = c.worktree /\ Triggers
        /\ touched = {}
        /\ jobs = [j \in DOMAIN Jobs |-> "waiting"] /\ next = [j \in DOMAIN Jobs |-> 1]
    BY <1>1, <2>1 DEF InitCi, GateInit
  <2>3. RunInv
    <3>1. IsWorkflow(Document)
      BY <2>2, CommitsAssumption DEF Triggers, Document
    <3>. QED  BY <2>2, <3>1, CommitsAssumption DEF RunInv
  <2>4. JobsInv /\ RanInv
    BY <1>1, <2>2, CommitsAssumption DEF JobsInv, RanInv
  <2>5. StepsTaken
    <3>1. \A j \in DOMAIN jobs : Len(Steps(j)) \in Nat
      BY <1>2, <2>3, StepsType DEF GateInv
    <3>. QED  BY <2>2, <3>1 DEF StepsTaken
  <2>. QED  BY <1>2, <1>3, <2>3, <2>4, <2>5 DEF CiInv
<1>5. CASE \E w \in Worktrees : InitLocal(w)
  <2>1. event = [kind |-> "local", body |-> NoBody] /\ jobs = <<>> /\ next = <<>>
    BY <1>5 DEF InitLocal
  <2>2. DOMAIN jobs = {} /\ DOMAIN next = {}
    BY <2>1
  <2>3. RunInv /\ JobsInv /\ StepsTaken /\ RanInv
    BY <1>1, <2>1, <2>2, CommitsAssumption DEF RunInv, JobsInv, StepsTaken, RanInv, NoBody
  <2>. QED  BY <1>2, <1>3, <2>3 DEF CiInv
<1>. QED
  BY <1>4, <1>5 DEF Init

LEMMA CiInvHolds == Spec => []CiInv
<1>1. CiInv /\ [Next]_vars => CiInv'
  BY CiInvStep
<1>. QED
  BY <1>1, CiInvInit, PTL DEF Spec

\* rt-control-ci.yml and quality_gate.sh start the repository gate and stop it; they do not
\* interfere with it.  Whatever the gate by itself promises, it promises within a CI run.
THEOREM PipelineRunsGate == Spec => GateSpec
<1>1. Init => GateInit
  BY DEF Init, InitCi, InitLocal
<1>2. [Next]_vars => [GateNext]_gateVars
  <2>1. ASSUME NEW j \in DOMAIN jobs, JobStep(j)
        PROVE  [GateNext]_gateVars
    BY <2>1, GatesOfJobs
  <2>2. ASSUME LocalGate
        PROVE  [GateNext]_gateVars
    BY <2>2 DEF LocalGate, GateNext
  <2>3. ASSUME EditFile
        PROVE  [GateNext]_gateVars
    <3>1. \E e \in Edits : Edit(e[1])
      BY <2>3 DEF EditFile
    <3>. QED  BY <3>1, CommitsAssumption DEF GateNext
  <2>4. CancelRun \/ Rest \/ UNCHANGED vars => [GateNext]_gateVars
    BY DEF CancelRun, Rest, vars
  <2>. QED  BY <2>1, <2>2, <2>3, <2>4 DEF Next
<1>. QED
  BY <1>1, <1>2, PTL DEF Spec, GateSpec

\* Whatever commit is pushed and whatever text the pull request has, every variable of the
\* run and of its three gates keeps its type.
THEOREM PipelineTyped == Spec => []TypeOK
<1>1. CiInv => TypeOK
  BY DEF CiInv, TypeOK, GateInv, GateTypeOK, DiffInv, RunInv, JobsInv, RanInv
<1>. QED
  BY <1>1, CiInvHolds, PTL

\* diff_legacy.py passes exactly when both checkouts were found, every file was read and no
\* comparison found a difference: none is left out, and no later one makes up for it.
THEOREM MigrationVerdict == Spec => []ExitIsVerdict
<1>1. CiInv => ExitIsVerdict
  BY DEF CiInv, DiffInv
<1>. QED
  BY <1>1, CiInvHolds, PTL

\* pr_contract_gate.py in a CI run: its recorded verdict is the reader's, whatever the text
\* of the pull request, as long as its comments hold only plain lines.
THEOREM RecordedVerdictIsReaders == Spec => []ContractVerdict
<1>1. CiInv => ContractVerdict
  <2>. SUFFICES ASSUME CiInv, NEW r \in ran, r[2] = "pr_contract_gate", CommentsInPlace(EventBody)
                PROVE  r[3] <=> ContractKept(EventBody)
    BY DEF ContractVerdict
  <2>1. EventBody \in Seq(Lines)
    BY DEF CiInv, RunInv, EventBody, NoBody
  <2>2. validate_event(EventBody) = {} <=> ContractKept(EventBody)
    BY <2>1, VerdictIsReaders
  <2>. QED  BY <2>2 DEF CiInv, RanInv
<1>. QED
  BY <1>1, CiInvHolds, PTL

\* The repository gate of a CI run judges the workflow that runs it.
LEMMA WorkflowJudged ==
  ASSUME CiInv, event.kind # "local", status = "0"
  PROVE  /\ {"governance", "build"} \subseteq DOMAIN Jobs
         /\ GovernanceCommands \subseteq _step_commands(Jobs["governance"])
         /\ BuildCommands \subseteq _step_commands(Jobs["build"])
<1>1. /\ Workflow \in DOMAIN worktree \ touched /\ IsWorktree(worktree) /\ Passed
      /\ worktree[Workflow].flaws \cap {"syntax", "nul", "not utf-8"} = {}
  BY DEF CiInv, GateInv, RunInv, Triggers
<1>2. ~Binary(Workflow, worktree[Workflow]) /\ ~Undecodable(worktree[Workflow])
  <2>1. Workflow \in DOMAIN Traits
    BY <1>1 DEF IsWorktree
  <2>. QED  BY <1>1, <2>1, PolicyAssumption DEF Binary, Undecodable
<1>3. Workflow \in DOMAIN texts /\ texts[Workflow] = worktree[Workflow]
  <2>1. Judged(Workflow, worktree[Workflow])
    BY <1>1 DEF Passed, Progress
  <2>. QED  BY <1>2, <2>1 DEF Judged
<1>4. check_ci_workflow_policy(worktree[Workflow]) = {}
  BY <1>1, <1>3 DEF Passed, PolicyFindings
<1>. QED
  BY <1>1, <1>4 DEF check_ci_workflow_policy, Jobs, Document

\* What the workflow policy of repository_gate.py is good for: whatever workflow a commit
\* brings, in a green run whose repository gate passed every required command is named in
\* its job, and has succeeded if a step executes it outright; if the migration gate has,
\* no comparison of the commit's profiles found a difference.
THEOREM GreenMeansGated == Spec => []GreenRanEveryGate
<1>1. CiInv => GreenRanEveryGate
  <2>. SUFFICES ASSUME CiInv, Green, status = "0"
                PROVE  /\ {"governance", "build"} \subseteq DOMAIN jobs
                       /\ \A r \in Required :
                            /\ \E step \in StepsOf(r[1]) : r[2] \in step.text
                            /\ (\E step \in StepsOf(r[1]) : Executes(step, r[2]))
                                 => <<r[1], r[2], TRUE>> \in ran
                       /\ <<"build", "diff_legacy", TRUE>> \in ran => NothingDiffers(roots)
    BY DEF GreenRanEveryGate
  <2>1. /\ event.kind # "local" /\ DOMAIN jobs = DOMAIN Jobs
        /\ \A j \in DOMAIN jobs : jobs[j] = "success" /\ Len(Steps(j)) \in Nat
    BY StepsType DEF CiInv, GateInv, RunInv, Green
  <2>2. /\ {"governance", "build"} \subseteq DOMAIN jobs
        /\ GovernanceCommands \subseteq _step_commands(Jobs["governance"])
        /\ BuildCommands \subseteq _step_commands(Jobs["build"])
    BY <2>1, WorkflowJudged
  <2>3. ASSUME NEW j \in DOMAIN jobs, NEW command, NEW step \in StepsOf(j), Executes(step, command)
        PROVE  <<j, command, TRUE>> \in ran
    <3>1. PICK i \in 1..Len(Steps(j)) : Steps(j)[i] = step
      BY DEF StepsOf
    <3>2. step.run = command /\ ConditionHolds(step) /\ ~step.tolerated
      BY <2>3 DEF Executes
    <3>3. next[j] = Len(Steps(j)) + 1
      BY <2>1 DEF CiInv, StepsTaken
    <3>4. i \in 1..next[j] - 1
      BY <2>1, <3>3
    <3>. QED  BY <3>1, <3>2, <3>4 DEF CiInv, StepsTaken
  <2>4. ASSUME NEW j \in DOMAIN jobs, NEW command \in _step_commands(Jobs[j])
        PROVE  \E step \in StepsOf(j) : command \in step.text
    BY DEF _step_commands, StepsOf, Steps
  <2>5. ASSUME NEW r \in Required
        PROVE  /\ \E step \in StepsOf(r[1]) : r[2] \in step.text
               /\ (\E step \in StepsOf(r[1]) : Executes(step, r[2])) => <<r[1], r[2], TRUE>> \in ran
    <3>1. r[1] \in DOMAIN jobs /\ r[2] \in _step_commands(Jobs[r[1]])
      BY <2>2 DEF Required
    <3>. QED  BY <2>3, <2>4, <3>1
  <2>6. ASSUME <<"build", "diff_legacy", TRUE>> \in ran
        PROVE  NothingDiffers(roots)
    <3>1. exit = "0"
      BY <2>6 DEF CiInv, RanInv
    <3>. QED  BY <3>1 DEF CiInv, DiffInv, ExitIsVerdict
  <2>. QED  BY <2>2, <2>5, <2>6
<1>. QED
  BY <1>1, CiInvHolds, PTL

=============================================================================
