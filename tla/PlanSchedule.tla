---------------------------- MODULE PlanSchedule ----------------------------
(***************************************************************************)
(* The dates of a campaign plan (ai_generated_campaign_plan): the windows  *)
(* of the voter contact plan (sections/six_voter_contact_plan.py), written *)
(* by the model as text without a year, and the tasks that are read back   *)
(* from the text (task_system/structured_task_extractor.py).               *)
(*                                                                         *)
(* A date is a number of days; year y has the days y * YearDays to         *)
(* (y + 1) * YearDays - 1.                                                 *)
(***************************************************************************)
EXTENDS Integers, FiniteSets

CONSTANTS
  Today,      \* the days a plan may be asked for
  DaysAhead,      \* how far from it primary and election may be
  MaxPlanTasks    \* bound: lines of the plan that are looked at

ASSUME ScheduleAssumption ==
  Today \subseteq Nat /\ DaysAhead \subseteq Int /\ MaxPlanTasks \in Nat

YearDays == 365
YearOf(d) == d \div YearDays
InYear(d, y) == (y * YearDays) + (d % YearDays)
NoDate == -1

VARIABLES
  campaign,   \* today, primary_date (or NoDate) and election_date
  voterPlan,       \* the section: not written, refused, or its windows
  lines,      \* its lines: the day that is meant and how it is written
  planTasks       \* the tasks made of them

scheduleVars == <<campaign, voterPlan, lines, planTasks>>

Form == {"month_day", "full", "unreadable"}
FlowType == {"text", "robocall", "events", "education"}

ScheduleInit ==
  /\ campaign \in UNION {
       {[today |-> t, primary |-> p, election |-> t + e] :
          e \in DaysAhead, p \in {NoDate} \cup {t + a : a \in DaysAhead}} : t \in Today}
  /\ voterPlan = [status |-> "none", windows |-> <<>>]
  /\ lines = {} /\ planTasks = {}

-----------------------------------------------------------------------------
(* _calculate_phase_1_dates, _calculate_general_only_dates: 49 days before *)
(* the vote, or three days from now; from now on when that is too late.    *)

(* Variant for the mutation run: a window that ends before it starts.      *)
FromTodayUnchecked(today, vote) ==
  IF vote - today > 52 THEN <<vote - 49, vote>> ELSE <<today + 3, vote>>

FromToday(today, vote) ==
  LET first == IF vote - today > 52 THEN vote - 49 ELSE today + 3
      start == IF first >= vote THEN today ELSE first
  IN <<IF start > vote THEN vote ELSE start, vote>>

(* _calculate_phase_2_dates: 49 days, but after the primary.               *)
AfterPrimary(primary, election) ==
  LET first == IF primary + 1 > election - 49 THEN primary + 1 ELSE election - 49
      start == IF first >= election THEN primary + 1 ELSE first
  IN <<IF start > election THEN election ELSE start, election>>

(* generate_section: past votes and a primary that is not before the       *)
(* election are refused, in a text that becomes the section.               *)
Refused ==
  \/ campaign.election < campaign.today
  \/ /\ campaign.primary # NoDate
     /\ campaign.primary < campaign.today \/ campaign.primary >= campaign.election

Windows ==
  IF campaign.primary = NoDate
  THEN <<FromToday(campaign.today, campaign.election)>>
  ELSE <<FromToday(campaign.today, campaign.primary),
         AfterPrimary(campaign.primary, campaign.election)>>

WritePlan ==
  /\ voterPlan.status = "none"
  /\ voterPlan' = IF Refused THEN [voterPlan EXCEPT !.status = "refused"]
                        ELSE [status |-> "written", windows |-> Windows]
  /\ UNCHANGED <<campaign, lines, planTasks>>

(* The model writes a line: a day of a window, at one of its ends or in    *)
(* the middle, with the month and the day as it is told to, with a year,   *)
(* or in a way that is not read (February 29 is one: without a year it is  *)
(* a day of 1900).                                                         *)
WriteLine ==
  /\ voterPlan.status = "written" /\ Cardinality(lines) < MaxPlanTasks
  /\ \E w \in {voterPlan.windows[i] : i \in DOMAIN voterPlan.windows}, f \in Form, flow \in FlowType :
       \E d \in {w[1], (w[1] + w[2]) \div 2, w[2]} :
         lines' = lines \cup {[day |-> d, form |-> f, flow |-> flow]}
  /\ UNCHANGED <<campaign, voterPlan, planTasks>>

-----------------------------------------------------------------------------
(* extract_tasks_from_sections                                             *)

(* _parse_campaign_date: without a year it is the election's, and so it is *)
(* for a date more than 30 days ago.                                       *)
Parsed(line) ==
  CASE line.form = "unreadable" -> campaign.election - 30
    [] line.form = "month_day" -> InYear(line.day, YearOf(campaign.election))
    [] line.form = "full" ->
         IF line.day < campaign.today - 30 THEN InYear(line.day, YearOf(campaign.election))
                                           ELSE line.day

(* Variant: counted from 0.                                                *)
WeekOfZero(days) == days \div 7

(* _calculate_week_number, for days until the election.                    *)
WeekOf(days) == IF days < 0 THEN 1 ELSE days \div 7 + 1

(* Variant: of every date.                                                 *)
DeadlineOfAny(days, flow) == IF flow = "events" THEN NoDate ELSE days

(* _calculate_deadline: none for a date after the election, nor for an     *)
(* event.                                                                  *)
DeadlineOf(days, flow) == IF days < 0 \/ flow = "events" THEN NoDate ELSE days

TaskOf(line) ==
  LET days == campaign.election - Parsed(line)
  IN [line |-> line, date |-> Parsed(line), week |-> WeekOf(days),
      deadline |-> DeadlineOf(days, line.flow)]

(* A line whose task cannot be built (week is at least 1) is left out.     *)
ExtractTasks ==
  /\ voterPlan.status = "written" /\ lines # {} /\ planTasks = {}
  /\ planTasks' = {t \in {TaskOf(l) : l \in lines} : t.week >= 1}
  /\ voterPlan' = [voterPlan EXCEPT !.status = "extracted"]
  /\ UNCHANGED <<campaign, lines>>

ScheduleNext == WritePlan \/ WriteLine \/ ExtractTasks

ScheduleSpec == ScheduleInit /\ [][ScheduleNext]_scheduleVars

-----------------------------------------------------------------------------
(* Properties                                                              *)

ScheduleTypeOK ==
  /\ voterPlan.status \in {"none", "refused", "written", "extracted"}
  /\ \A l \in lines : l.day \in Nat /\ l.form \in Form /\ l.flow \in FlowType
  /\ \A t \in planTasks : t.line \in lines /\ t.week \in Nat \ {0} /\ t.deadline \in Nat \cup {NoDate}

(* Every window of a plan is one: it starts today or later, ends on a vote *)
(* that is not over, is at most 49 days long, and the second one starts    *)
(* after the first has ended - for votes of any distance, today's too.     *)
WindowsSound ==
  LET w == voterPlan.windows IN
  /\ \A i \in DOMAIN w : campaign.today <= w[i][1] /\ w[i][1] <= w[i][2] /\ w[i][2] - w[i][1] <= 49
  /\ Cardinality(DOMAIN w) = 2 => w[1][2] < w[2][1] /\ w[1][2] = campaign.primary
  /\ w # <<>> => w[Cardinality(DOMAIN w)][2] = campaign.election

(* In a campaign within one year no date that can be read is lost or moved *)
(* on the way through the text, every line of a plan becomes a task, and   *)
(* week and deadline count the same days.                                  *)
DatesKept ==
  /\ voterPlan.status = "extracted" => Cardinality(planTasks) = Cardinality(lines)
  /\ \A t \in planTasks :
       /\ YearOf(campaign.today) = YearOf(campaign.election) /\ t.line.form # "unreadable"
            => t.date = t.line.day
       /\ t.deadline # NoDate => t.week = t.deadline \div 7 + 1

(* Windows and tasks of a plan have sound dates.                           *)
ScheduleInv == ScheduleTypeOK /\ WindowsSound /\ DatesKept
=============================================================================
