--------------------------- MODULE PrContractGate ---------------------------
(***************************************************************************)
(* tools/pr_contract_gate.py: a pull request must keep the contract        *)
(* template's marker and sections, check every gate, and state its         *)
(* evidence and its risks.  A body is a sequence of lines:                 *)
(*   marker        the contract marker, itself a comment                   *)
(*   heading h     "## h"                                                  *)
(*   item g        "- [x] <!-- gate:g --> ...", or with the box unchecked  *)
(*   open, close   a line that only opens or only closes a comment         *)
(*   comment       a line that is one comment                              *)
(*   text, blank                                                           *)
(*                                                                         *)
(* An operator that stands just before another one and is used nowhere is  *)
(* a mutated form of it: a bug the properties are shown to catch.          *)
(***************************************************************************)
EXTENDS Naturals, Sequences, FiniteSetsExt

CONSTANTS
  RequiredSections,  \* REQUIRED_SECTIONS
  FilledSections,    \* those that must say something: the evidence and the risks
  RequiredGates      \* REQUIRED_GATES

ASSUME ContractAssumption == FilledSections \subseteq RequiredSections

Lines ==
  [kind : {"marker", "heading", "item", "open", "close", "comment", "text", "blank"},
   name : STRING, checked : BOOLEAN]
Line(kind)      == [kind |-> kind, name |-> "", checked |-> FALSE]
Heading(h)      == [kind |-> "heading", name |-> h, checked |-> FALSE]
Box(g, checked) == [kind |-> "item", name |-> g, checked |-> checked]

\* _section_body(): from the first such heading, which a line must follow, to the next
\* heading of any name; whether a heading stands in a comment is not looked at.
HasSection(body, h) == \E i \in 1..Len(body) - 1 : body[i] = Heading(h)
SectionToEnd(body, h) ==
  SubSeq(body, Min({i \in 1..Len(body) - 1 : body[i] = Heading(h)}) + 1, Len(body))
_section_body(body, h) ==
  LET first == Min({i \in 1..Len(body) - 1 : body[i] = Heading(h)})
      later == {j \in first + 1..Len(body) : body[j].kind = "heading"}
  IN  SubSeq(body, first + 1, IF later = {} THEN Len(body) ELSE Min(later) - 1)

\* A comment runs from a line that opens one to the next line with a "-->".
Closes(line) == line.kind \in {"close", "comment", "marker", "item"}
Commented(lines, i) ==
  \E o \in 1..i, c \in i..Len(lines) :
    /\ lines[o].kind = "open" /\ Closes(lines[c])
    /\ \A j \in o..c - 1 : ~Closes(lines[j])

\* _visible_text(): something is left when the closed comments are cut out.  An opening
\* that is not closed within the same text stays, and so does what follows it.
_visible_text(lines) ==
  \E i \in 1..Len(lines) :
    \/ lines[i].kind = "item"
    \/ lines[i].kind \notin {"blank", "comment", "marker"} /\ ~Commented(lines, i)

validate_body(body) ==
  (IF \E i \in 1..Len(body) : body[i].kind = "marker" THEN {} ELSE {<<"marker", "">>})
    \cup {<<"section", h>> : h \in {h \in RequiredSections : ~HasSection(body, h)}}
    \cup {<<"gate", g>> : g \in {g \in RequiredGates :
                                   \A i \in 1..Len(body) : body[i] # Box(g, TRUE)}}
    \cup {<<"empty", h>> : h \in {h \in FilledSections :
                                    /\ HasSection(body, h)
                                    /\ ~_visible_text(_section_body(body, h))}}

\* validate_event(): a payload without a body is refused, too.
NoBody == <<>>
validate_event(body) == IF body = NoBody THEN {<<"body", "">>} ELSE validate_body(body)

-----------------------------------------------------------------------------
(* What a reader sees: comments are hidden, and an open one hides the rest.*)

Hidden(body, i) ==
  \/ body[i].kind \in {"blank", "comment", "marker", "open", "close"}
  \/ \E o \in 1..i : body[o].kind = "open" /\ \A j \in o..i : ~Closes(body[j])

\* The template's comments: each is closed and holds only text and blank lines, so that it
\* lies between two headings and hides no box.
Spans(body, o, c) ==
  /\ body[o].kind = "open" /\ body[c].kind = "close"
  /\ \A j \in o + 1..c - 1 : body[j].kind \in {"text", "blank"}
CommentsInPlace(body) ==
  \A i \in 1..Len(body) :
    /\ body[i].kind = "open" => \E c \in i + 1..Len(body) : Spans(body, i, c)
    /\ body[i].kind = "close" => \E o \in 1..i - 1 : Spans(body, o, i)

\* The contract as the reader finds it: the required headings in view, every box of the
\* list checked in view, and words under the first heading that asks for them.
ContractKept(body) ==
  /\ \E i \in 1..Len(body) : body[i].kind = "marker"
  /\ \A g \in RequiredGates : \E i \in 1..Len(body) : body[i] = Box(g, TRUE) /\ ~Hidden(body, i)
  /\ \A h \in RequiredSections : \E i \in 1..Len(body) - 1 :
       /\ body[i] = Heading(h) /\ ~Hidden(body, i)
       /\ \A j \in 1..i - 1 : body[j] # Heading(h)
       /\ h \in FilledSections =>
            \E j \in i + 1..Len(body) :
              ~Hidden(body, j) /\ \A k \in i + 1..j : body[k].kind # "heading"

=============================================================================
