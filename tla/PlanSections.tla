---------------------------- MODULE PlanSections ----------------------------
(***************************************************************************)
(* One campaign plan (ai_generated_campaign_plan/orchestrator.py): the     *)
(* sections, made by coroutines of one gather around one model client, the *)
(* timeline made from two of them, and the bill.  A model call blocks the  *)
(* event loop; a search awaits, and lets the other sections go on.         *)
(***************************************************************************)
EXTENDS Naturals, FiniteSets

CONSTANT MaxTokens   \* bound: what one model call uses

ASSUME SectionsAssumption == MaxTokens \in Nat \ {0}

Section == {"overview", "landscape", "timeline", "budget", "community", "contact"}
Half == {"events", "media"}   \* the two halves of the community section

VARIABLES
  text,      \* a section: not there, as it should be, or a text of failure
  half,      \* the coroutines of the community section
  client,    \* usage of the model client since the last reset
  tracked,   \* usage the cost tracker has
  sectionsSpent,     \* usage there was
  document       \* "cleaning", "sections", "whole", "assembled" or "failed"

sectionsVars == <<text, half, client, tracked, sectionsSpent, document>>

SectionsTypeOK ==
  /\ text \in [Section -> {"none", "good", "failed"}]
  /\ half \in [Half -> {"none", "searches", "good", "failed"}]
  /\ client \in Nat /\ tracked \in Nat /\ sectionsSpent \in Nat
  /\ document \in {"cleaning", "sections", "whole", "assembled", "failed"}
  /\ sectionsSpent = tracked + client

SectionsInit ==
  /\ text = [s \in Section |-> "none"] /\ half = [h \in Half |-> "none"]
  /\ client = 0 /\ tracked = 0 /\ sectionsSpent = 0 /\ document = "cleaning"

(* Calls that use n tokens: they stay with the client, ...                 *)
Owes(n) == client' = client + n /\ sectionsSpent' = sectionsSpent + n /\ UNCHANGED tracked

(* Variant for the mutation run: the usage is not reset.                   *)
BillsAgain(n) == client' = client + n /\ sectionsSpent' = sectionsSpent + n /\ tracked' = tracked + client + n

(* ... or _track_llm_usage takes what the client has, and resets it.       *)
Bills(n) == client' = 0 /\ sectionsSpent' = sectionsSpent + n /\ tracked' = tracked + client + n

(* clean_campaign_info: without it there is no plan.                       *)
Clean ==
  /\ document = "cleaning" /\ \E n \in 0 .. MaxTokens : Owes(n)
  /\ document' \in {"sections", "failed"}
  /\ UNCHANGED <<text, half>>

(* Sections 1 and 4 call no model, 2 and 6 do.  A section that raises is   *)
(* replaced by a text and is not billed: the next one is billed for it.    *)
(* Section 6 catches its own errors, refused dates too, and is billed.     *)
WriteSection(s) ==
  /\ document = "sections" /\ s \in {"overview", "landscape", "budget", "contact"} /\ text[s] = "none"
  /\ \E n \in 0 .. (IF s \in {"landscape", "contact"} THEN MaxTokens ELSE 0), good \in BOOLEAN :
       /\ IF good \/ s = "contact" THEN Bills(n) ELSE Owes(n)
       /\ text' = [text EXCEPT ![s] = IF good THEN "good" ELSE "failed"]
  /\ UNCHANGED <<half, document>>

(* Both halves of section 5 start: the events ask the model's own search,  *)
(* and only when that fails the model for terms to search with; the media  *)
(* search.                                                                 *)
StartHalf(h) ==
  /\ document = "sections" /\ half[h] = "none"
  /\ \E n \in 0 .. MaxTokens :
       \/ h = "events" /\ half' = [half EXCEPT ![h] = "good"] /\ Owes(n)
       \/ half' = [half EXCEPT ![h] = "searches"] /\ Owes(IF h = "media" THEN 0 ELSE n)
  /\ UNCHANGED <<text, document>>

(* The searches are back, errors as texts: the model chooses from them.    *)
EndHalf(h) ==
  /\ half[h] = "searches"
  /\ \E n \in 0 .. MaxTokens : Owes(n)
  /\ half' \in {[half EXCEPT ![h] = g] : g \in {"good", "failed"}}
  /\ UNCHANGED <<text, document>>

JoinHalves ==
  /\ text["community"] = "none" /\ \A h \in Half : half[h] \in {"good", "failed"}
  /\ Bills(0)
  /\ text' = [text EXCEPT !["community"] = "good"]
  /\ UNCHANGED <<half, document>>

(* Variant: the timeline starts when it has what it reads.                 *)
GatherRead == text["community"] # "none" /\ text["contact"] # "none"

(* gather: all five.                                                       *)
Gathered == \A s \in Section \ {"timeline"} : text[s] # "none"

(* Variant: a timeline that failed is not billed.                          *)
WriteTimelineUnbilled ==
  /\ document = "sections" /\ Gathered
  /\ \E n \in 0 .. MaxTokens, g \in {"good", "failed"} :
       /\ IF g = "good" THEN Bills(n) ELSE Owes(n)
       /\ text' = [text EXCEPT !["timeline"] = g]
  /\ document' = "whole"
  /\ UNCHANGED half

(* Section 3 catches its own errors.                                       *)
WriteTimeline ==
  /\ document = "sections" /\ Gathered /\ \E n \in 0 .. MaxTokens : Bills(n)
  /\ text' \in {[text EXCEPT !["timeline"] = g] : g \in {"good", "failed"}}
  /\ document' = "whole"
  /\ UNCHANGED half

Assemble ==
  /\ document = "whole" /\ document' = "assembled"
  /\ UNCHANGED <<text, half, client, tracked, sectionsSpent>>

SectionsNext ==
  \/ Clean \/ JoinHalves \/ WriteTimeline \/ Assemble
  \/ \E s \in Section : WriteSection(s)
  \/ \E h \in Half : StartHalf(h) \/ EndHalf(h)

SectionsSpec == SectionsInit /\ [][SectionsNext]_sectionsVars

-----------------------------------------------------------------------------
(* Properties                                                              *)

(* A plan is billed for all it used, once: whichever sections failed and   *)
(* in whatever order they ended, though they share the client's counter.   *)
AllBilled == document \in {"whole", "assembled"} => tracked = sectionsSpent /\ client = 0

(* The timeline, and then the document, are made of six sections that are  *)
(* final: none is missing and none is still being written.                 *)
DocumentWhole ==
  document \in {"whole", "assembled"} =>
    /\ \A s \in Section : text[s] # "none"
    /\ \A h \in Half : half[h] \in {"good", "failed"}

(* A document is made of final sections and billed for all of them.        *)
SectionsInv == SectionsTypeOK /\ AllBilled /\ DocumentWhole
=============================================================================
