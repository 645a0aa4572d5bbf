----------------------------- MODULE IssueRules -----------------------------
(***************************************************************************)
(* The issues of a resident's message (serve/classify): what the rules of  *)
(* classification_rules.py make of the model's answer                      *)
(* (smart_classifier.py), what the validator, with rules of its own, says  *)
(* of that (validator.py), and the counts of residents and mentions that   *)
(* the report is made from (smart_aggregator.py).                          *)
(*                                                                         *)
(* A text is the set of patterns it matches; an issue is its category, its *)
(* stance, whether it is the cause of others, and its place in the answer  *)
(* of the model, or 0 if a rule added it.                                  *)
(***************************************************************************)
EXTENDS Integers, Sequences, FiniteSets

CONSTANTS
  PhoneNumber,  \* the numbers residents have
  MessageText,  \* texts, as sets of patterns
  IssueAnswer,  \* answers of the model, as sets of issues
  MaxSurveyed   \* bound: messages of a survey

IssueCategory == {"roads", "zoning", "taxes", "budget", "transit", "utilities", "police", "business"}
Stance == {"negative", "requesting", "positive", "neutral"}
Issue == [category : IssueCategory, stance : Stance, root : BOOLEAN, nth : Nat]
IssueOf(category, stance, root) == [category |-> category, stance |-> stance, root |-> root, nth |-> 0]

ASSUME RulesAssumption ==
  MaxSurveyed \in Nat \ {0} /\ \A answer \in IssueAnswer : answer \subseteq Issue /\ IsFiniteSet(answer)

VARIABLE surveyed   \* the messages that are classified

(* A number with or without the leading 1, or a contact without digits.    *)
NoNumber == ""
ContactNumber == [number : PhoneNumber, one : BOOLEAN] \cup {[number |-> NoNumber, one |-> FALSE]}

RulesTypeOK ==
  \A k \in DOMAIN surveyed :
    /\ surveyed[k].contact \in ContactNumber /\ surveyed[k].text \in MessageText
    /\ surveyed[k].uncategorized \in BOOLEAN
    /\ surveyed[k].issues \subseteq Issue

RulesInit == surveyed = <<>>
-----------------------------------------------------------------------------
ShouldBeUncategorized(text) == "federal" \in text

Required(pattern) ==
  CASE pattern = "truck"        -> {IssueOf("roads", "negative", FALSE), IssueOf("zoning", "negative", TRUE)}
    [] pattern = "property_tax" -> {IssueOf("taxes", "negative", FALSE)}
    [] pattern = "ebike"        -> {IssueOf("transit", "neutral", FALSE)}
    [] pattern = "water_bill"   -> {IssueOf("utilities", "negative", FALSE)}

RequiredCategories(text) ==
  UNION {Required(p) : p \in text \cap {"truck", "property_tax", "ebike", "water_bill"}}

CategoriesToAvoid(text) == IF "property_tax" \in text THEN {"budget"} ELSE {}

(* The rule looks at e-bikes only when it is asked about transit.          *)
ShouldAddPolice(text, category) ==
  category # "transit" \/ "ebike" \notin text \/ "enforcement" \in text

CategoriesOf(issues) == {i.category : i \in issues}

Unmet(issues, text) == {i \in RequiredCategories(text) : i.category \notin CategoriesOf(issues)}

(* Variant: nothing is required of a message of which the model says       *)
(* nothing.                                                                *)
RulesOnAnswers(issues, text) ==
  {i \in issues \cup (IF issues = {} THEN {} ELSE Unmet(issues, text)) : i.category \notin CategoriesToAvoid(text)}

(* What is required is added, what is to be avoided is taken out, and so   *)
(* is police where the rule says so; the rule is asked about police only.  *)
ApplyRules(issues, text) ==
  {i \in issues \cup Unmet(issues, text) :
     /\ i.category \notin CategoriesToAvoid(text)
     /\ i.category = "police" => ShouldAddPolice(text, i.category)}

Refine(issues, text) ==
  IF "permit" \in text /\ "business" \in CategoriesOf(issues) /\ "zoning" \notin CategoriesOf(issues)
  THEN issues \cup {IssueOf("zoning", "negative", TRUE)}
  ELSE issues

(* A call of the model that fails leaves no issues; the rules go on.       *)
ClassifyMessage ==
  /\ Len(surveyed) < MaxSurveyed
  /\ \E contact \in ContactNumber, text \in MessageText, answer \in IssueAnswer \cup {{}} :
       surveyed' = Append(surveyed,
         [contact |-> contact, text |-> text,
          uncategorized |-> ShouldBeUncategorized(text),
          issues |-> IF ShouldBeUncategorized(text) THEN {}
                     ELSE Refine(ApplyRules(answer, text), text)])

RulesNext == ClassifyMessage

RulesSpec == RulesInit /\ [][RulesNext]_surveyed
-----------------------------------------------------------------------------
(* The validator's view of a message: errors and warnings.                 *)
RuleErrors(text, categories) ==
  (IF "property_tax" \in text /\ "budget" \in categories /\ "taxes" \notin categories
   THEN {"general_tax"} ELSE {})
  \cup (IF "ebike" \in text /\ "police" \in categories /\ "enforcement" \notin text
        THEN {"ebike_police"} ELSE {})

UncategorizedErrors(message) ==
  (IF ShouldBeUncategorized(message.text) /\ ~message.uncategorized THEN {"missed_uncategorized"} ELSE {})
  \cup (IF message.uncategorized /\ message.issues # {} THEN {"uncategorized_with_issues"} ELSE {})

CompletenessErrors(text, categories) ==
  (IF CategoriesOf(RequiredCategories(text)) \subseteq categories THEN {} ELSE {"missing_required"})
  \cup (IF CategoriesToAvoid(text) \cap categories = {} THEN {} ELSE {"avoided_used"})

Validate(message) ==
  LET categories == CategoriesOf(message.issues)
  IN RuleErrors(message.text, categories) \cup UncategorizedErrors(message)
       \cup CompletenessErrors(message.text, categories)
-----------------------------------------------------------------------------
(* Variant: the leading 1 stays.                                           *)
AsWritten(contact) == IF contact.one THEN "1" \o contact.number ELSE contact.number

NormalizePhone(contact) == contact.number

(* The issues of the messages that count: <<message, issue>>.              *)
IssuePlaces ==
  UNION {{k} \X surveyed[k].issues : k \in {j \in DOMAIN surveyed : ~surveyed[j].uncategorized}}
IssueAt(x) == x[2]

(* Mentions of an issue by somebody with a number.                         *)
MentionsOf(category) ==
  {x \in IssuePlaces : IssueAt(x).category = category /\ NormalizePhone(surveyed[x[1]].contact) # NoNumber}

PhoneAt(x) == NormalizePhone(surveyed[x[1]].contact)
RespondentsOf(category) == {PhoneAt(x) : x \in MentionsOf(category)}

(* Variant: praise hides a complaint of the same resident.                 *)
MildestStance(stances) ==
  IF "positive" \in stances THEN "positive"
  ELSE IF "requesting" \in stances THEN "requesting"
  ELSE IF "negative" \in stances THEN "negative" ELSE "neutral"

StrongestStance(stances) ==
  IF "negative" \in stances THEN "negative"
  ELSE IF "requesting" \in stances THEN "requesting"
  ELSE IF "positive" \in stances THEN "positive" ELSE "neutral"

StanceOf(phone, category) ==
  StrongestStance({IssueAt(x).stance : x \in {y \in MentionsOf(category) : PhoneAt(y) = phone}})

(* What _analyze_issues says of a category.                                *)
InsightOf(category) ==
  [unique |-> Cardinality(RespondentsOf(category)),
   total |-> Cardinality(MentionsOf(category)),
   residents |-> [s \in Stance |-> Cardinality({p \in RespondentsOf(category) : StanceOf(p, category) = s})],
   mentions |-> [s \in Stance |-> Cardinality({x \in MentionsOf(category) : IssueAt(x).stance = s})]]

(* Variant: the messages are counted, not the mentions.                    *)
HierarchicalOnce(category) == Cardinality({x[1] : x \in {y \in IssuePlaces : IssueAt(y).category = category}})

HierarchicalCount(category) == Cardinality({x \in IssuePlaces : IssueAt(x).category = category})
-----------------------------------------------------------------------------
(* Classifier and validator, which read the rules apart, agree: whatever   *)
(* the model answers or fails to, a categorized message has the required   *)
(* categories, none to avoid and no general tax, except for police on      *)
(* e-bikes, and one that is set aside has no issues.                       *)
RulesObeyed ==
  \A k \in DOMAIN surveyed :
    Validate(surveyed[k]) \subseteq (IF surveyed[k].uncategorized THEN {"missing_required"} ELSE {"ebike_police"})

Mentioned == {IssueAt(x).category : x \in IssuePlaces}

(* The report counts people: each resident with a number once per issue,   *)
(* however the number is written and however often they mention it, as a   *)
(* complaint if any of the mentions is one.                                *)
PeopleCounted ==
  \A c \in Mentioned :
    LET insight == InsightOf(c)
        people == {surveyed[x[1]].contact.number : x \in {y \in IssuePlaces : IssueAt(y).category = c}} \ {NoNumber}
        complaining == {surveyed[x[1]].contact.number :
                          x \in {y \in IssuePlaces : IssueAt(y).category = c /\ IssueAt(y).stance = "negative"}} \ {NoNumber}
    IN /\ insight.unique = Cardinality(people)
       /\ insight.residents["negative"] = Cardinality(complaining)

(* The two counts of mentions differ by those without a number only: the   *)
(* categories of the report and its issues are of the same messages.       *)
CountsAgree ==
  \A c \in Mentioned :
    LET total == Cardinality(MentionsOf(c))
    IN /\ total <= HierarchicalCount(c)
       /\ (\A k \in DOMAIN surveyed : surveyed[k].contact.number # NoNumber) => total = HierarchicalCount(c)

RulesInv == RulesTypeOK /\ RulesObeyed /\ PeopleCounted /\ CountsAgree
=============================================================================
