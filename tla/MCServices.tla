------------------------------ MODULE MCServices ------------------------------
(***************************************************************************)
(* An instance for TLC of the programs around the runs: the broker's       *)
(* tickets and browser, the ClickUp bot, the LLM clients, the campaign     *)
(* plan, the matchers and their files, and the poll analysis.  They share  *)
(* nothing, so each behaviour is one of theirs while the others rest.      *)
(***************************************************************************)
EXTENDS ScopeTickets, BrowserPool, ClickUpBot, LlmClient, ThinkingBudget,
        PlanSchedule, PlanSections, PartitionCache, StateRuns, MatchService,
        UnmatchedUsers, PollAnalysis, MessageDiscovery, ResultFiles, IssueRules, ClassifyRuns

VARIABLE part   \* the program that runs

Program == {"tickets", "browser", "bot", "llm", "budget", "schedule", "sections",
            "cache", "states", "service", "users", "polls", "discovery", "files",
            "rules", "classify"}

servicesVars ==
  <<part, ticketVars, browserVars, botVars, llmVars, budgetVars, scheduleVars,
    sectionsVars, cacheVars, stateVars, matchVars, usersVars, pollVars, discoveryVars, filesVars,
    surveyed, classifyVars>>

(* The values that are asked for.                                          *)
Budgets == {-1, 0, 1, 128, 512, 24577, 32769}
Days == {-1, 1, 4, 53}
StateOf == [p \in Position |-> IF p = 2 THEN "hi" ELSE "de"]

Texts == {{"property_tax"}, {"truck"}, {"ebike"}, {"ebike", "enforcement"}, {"permit"},
          {"water_bill", "property_tax"}, {"federal", "property_tax"}}
Said(n, category, stance) == [IssueOf(category, stance, FALSE) EXCEPT !.nth = n]
Answers ==
  {{Said(1, "budget", "negative")}, {Said(1, "police", "requesting")}, {Said(1, "business", "positive")},
   {Said(1, "taxes", "positive"), Said(2, "budget", "negative")},
   {Said(1, "zoning", "positive"), Said(2, "zoning", "negative"), Said(3, "zoning", "negative")}}
TextOf(form, words, fate) == [form |-> form, words |-> words, fate |-> fate]
SourceTexts ==
  {TextOf("tax", "tax", "kept"), TextOf("tax, too", "tax", "feedback"), TextOf("no, tax", "tax", "thanks"),
   TextOf("roads", "roads", "kept"), TextOf("stop", "stop", "stop"), TextOf("", "", "nothing"),
   TextOf("", "", "blank"), TextOf("sent", "sent", "skipped")}

(* Phones are interchangeable, so p is the first; three rows are of one    *)
(* phone, which says something with each.                                  *)
SmallSource(rows) ==
  /\ rows # <<>> => rows[1].phone = "p"
  /\ Len(rows) = 3 => \A i \in 1 .. 3 : rows[i].phone = "p" /\ rows[i].text.fate \in {"kept", "feedback", "thanks"}

(* The same of a poll, whose rows are numbered in the order of the files.  *)
SmallPoll ==
  /\ 2 \in DOMAIN pollRow => 1 \in DOMAIN pollRow
  /\ 1 \in DOMAIN pollRow => pollRow[1].phone = "p"

(* Rows that are seen alike are interchangeable: the first has at least as *)
(* many pieces.                                                            *)
SmallRows ==
  /\ rawKind[1] # rawKind[2] => <<rawKind[1], rawKind[2]>> \in
       {<<"plain", "dropped">>, <<"plain", "absent">>, <<"dropped", "absent">>}
  /\ rawKind[1] = rawKind[2] => \A i \in 1 .. MaxParts : <<2, i>> \in atoms => <<1, i>> \in atoms

(* The first number of a survey is p.                                      *)
SmallSurvey == surveyed # <<>> => surveyed[1].contact.number \in {"", "p"}

(* Calls share no more than the counters of their generation: one thread   *)
(* uses every method, the others the first.                                *)
SmallCalls == \A t \in Caller : t > 1 => llmCalls[t].method = "content"

(* S3 is read where the vectors are loaded only, so the uploads that came  *)
(* before are made there.                                                  *)
SmallUploads == objects' # objects => request.at = "load"

(* A program that rests has one initial state.                             *)
Unasked ==
  /\ part # "budget" => clientModel = "FLASH" /\ clientBudget = NotGiven
  /\ part # "cache" => ddhq = {}
  /\ part # "service" => objects = [s \in ServedState |-> 0]
  /\ part # "polls" => column = {} /\ pollRow = [r \in {} |-> 0]
  /\ part # "discovery" => rawKind = [m \in RawMessage |-> "absent"]
  /\ part # "schedule" => campaign = [today |-> 400, primary |-> NoDate, election |-> 401]
  /\ part # "classify" => sourceRows = <<>>

ServicesInit ==
  /\ part \in Program
  /\ Unasked
  /\ TicketsInit /\ BrowserInit /\ BotInit /\ LlmInit /\ BudgetInit /\ ScheduleInit
  /\ SectionsInit /\ CacheInit /\ StatesInit /\ MatchInit /\ UsersInit /\ PollInit
  /\ DiscoveryInit /\ FilesInit /\ RulesInit /\ ClassifyInit
  /\ SmallSource(sourceRows) /\ SmallPoll /\ SmallRows

(* Tokens are interchangeable, and so are requests that have not begun: the*)
(* first of them is used.                                                  *)
FirstFree(free, left) == \A s \in free \ left, r \in free : s <= r

ServicesNext ==
  /\ UNCHANGED part
  /\ IF part = "tickets"
     THEN /\ TicketsNext
          /\ FirstFree(Token \ minted, Token \ minted')
          /\ FirstFree({r \in BrokerRequest : calls[r].at = "none"}, {r \in BrokerRequest : calls'[r].at = "none"})
     ELSE UNCHANGED ticketVars
  /\ IF part = "browser" THEN BrowserNext ELSE UNCHANGED browserVars
  /\ IF part = "bot" THEN BotNext ELSE UNCHANGED botVars
  /\ IF part = "llm" THEN LlmNext /\ SmallCalls' ELSE UNCHANGED llmVars
  /\ IF part = "budget" THEN BudgetNext ELSE UNCHANGED budgetVars
  /\ IF part = "schedule" THEN ScheduleNext ELSE UNCHANGED scheduleVars
  /\ IF part = "sections" THEN SectionsNext ELSE UNCHANGED sectionsVars
  /\ IF part = "cache" THEN CacheNext ELSE UNCHANGED cacheVars
  /\ IF part = "states" THEN StatesNext ELSE UNCHANGED stateVars
  /\ IF part = "service" THEN MatchNext /\ SmallUploads ELSE UNCHANGED matchVars
  /\ IF part = "users" THEN UsersNext ELSE UNCHANGED usersVars
  /\ IF part = "polls" THEN PollNext ELSE UNCHANGED pollVars
  /\ IF part = "discovery" THEN DiscoveryNext /\ SmallRows' ELSE UNCHANGED discoveryVars
  /\ IF part = "files" THEN FilesNext ELSE UNCHANGED filesVars
  /\ IF part = "rules" THEN RulesNext /\ SmallSurvey' ELSE UNCHANGED surveyed
  /\ IF part = "classify" THEN ClassifyNext ELSE UNCHANGED classifyVars

ServicesSpec == ServicesInit /\ [][ServicesNext]_servicesVars
-----------------------------------------------------------------------------
(* The clients of the models are sound: calls, traces, prompts, budgets.   *)
ClientsInv == LlmInv /\ SentInRange

(* A survey comes out whole, explored or classified, and so do its files;  *)
(* asked of the program that runs.                                         *)
SurveyInv ==
  CASE part = "discovery" -> DiscoveryInv
    [] part = "files"     -> FilesInv
    [] part = "rules"     -> RulesInv
    [] part = "classify"  -> ClassifyInv
    [] OTHER              -> TRUE

(* What no step of a program may undo: a browser that shuts down admits    *)
(* nobody, a search keeps what it found, and a whole file stays.           *)
ServicesForward == NoneAdmitted /\ RecentKept /\ FileFinal
=============================================================================
