---------------------------- MODULE PollAnalysis ----------------------------
(***************************************************************************)
(* The analysis of poll responses (serve/v1_pipeline): a task loads the    *)
(* CSV files of a campaign, one per poll unless a column says otherwise,   *)
(* has the messages clustered, joins the clusters with the messages by     *)
(* phone number, uploads the responses and sends one completion event per  *)
(* file.  A task may stop anywhere and be run again.                       *)
(***************************************************************************)
EXTENDS Integers, FiniteSets

CONSTANTS
  Poll,          \* the files: a file's name is its poll
  PollRow,       \* row numbers, in the order the files are concatenated
  Phone,
  MinRespondents, TopN,
  MaxPollTasks   \* bound: tasks for the campaign

ASSUME PollAssumption ==
  /\ PollRow \subseteq Nat /\ IsFiniteSet(PollRow) /\ IsFiniteSet(Phone)
  /\ {MinRespondents, TopN, MaxPollTasks} \subseteq Nat

VARIABLES
  pollRow,   \* each row: its file, phone, and poll_id column; "" is no value
  column,    \* files that have a poll_id column
  stage,     \* where the task is
  atomic,    \* clustering results: <<row, cluster>>, 0 is opt-out, -1 is noise
  json,      \* the local JSON file of this task
  responses, \* the responses object
  pollEvents,\* events: poll, task, total and issues
  errors,    \* the orchestrator's errors
  exits      \* exit codes of the tasks so far

pollVars == <<pollRow, column, stage, atomic, json, responses, pollEvents, errors, exits>>

Cluster == {-1, 0, 1, 2}
NoStage == [at |-> "none", task |-> 0, told |-> {}]

Rows == DOMAIN pollRow

PollTypeOK ==
  /\ Rows \subseteq PollRow /\ column \subseteq Poll
  /\ pollRow \in [Rows -> [file : Poll, phone : Phone, poll : Poll \cup {""}]]
  /\ stage.at \in {"none", "load", "cluster", "merge", "upload", "send", "save"}
  /\ stage.told \subseteq Poll /\ (stage.at # "none" => stage.task = Cardinality(DOMAIN exits) + 1)
  /\ atomic \subseteq PollRow \X Cluster
  /\ json \in {"none", "rows"} /\ responses \in {"none", "rows", "empty"}
  /\ \A e \in pollEvents : e.poll \in Poll /\ e.total \in 0 .. Cardinality(Phone)
  /\ \A t \in DOMAIN exits : exits[t] \in {0, 1, 137}

PollInit ==
  /\ column \in SUBSET Poll
  /\ \E rows \in SUBSET PollRow : pollRow \in [rows -> [file : Poll, phone : Phone, poll : Poll \cup {""}]]
  /\ \A r \in Rows : /\ pollRow[r].poll # "" => pollRow[r].file \in column
                     /\ \A q, x \in Rows : r < q /\ q < x /\ pollRow[q].file # pollRow[r].file =>
                                             pollRow[x].file # pollRow[r].file
  /\ stage = NoStage /\ atomic = {} /\ json = "none" /\ responses = "none" /\ pollEvents = {}
  /\ errors = FALSE /\ exits = [t \in {} |-> 0]

StageAt(place) == stage' = [stage EXCEPT !.at = place]
Exit(code) == /\ stage' = NoStage /\ json' = "none" /\ atomic' = {} /\ errors' = FALSE
              /\ exits' = [t \in DOMAIN exits \cup {stage.task} |-> IF t = stage.task THEN code ELSE exits[t]]
Tasks == Cardinality(DOMAIN exits)

StartPollTask ==
  /\ stage = NoStage /\ Tasks < MaxPollTasks
  /\ stage' = [at |-> "load", task |-> Tasks + 1, told |-> {}]
  /\ UNCHANGED <<pollRow, column, atomic, json, responses, pollEvents, errors, exits>>

Loaded == {pollRow[r].file : r \in Rows}
HasColumn == Loaded \cap column # {}
First == IF Rows = {} THEN 0 ELSE CHOOSE r \in Rows : \A q \in Rows : r <= q

(* The poll of a row: its column; without one, the first file's name, and  *)
(* the campaign's ("") if some other file has the column.                  *)
PollOf(r) ==
  IF pollRow[r].poll # "" THEN pollRow[r].poll
  ELSE IF HasColumn THEN "" ELSE pollRow[First].file

(* No file with rows is an empty analysis, all files are completed.  A     *)
(* file without the two required columns is an exception.                  *)
LoadMessages ==
  /\ stage.at = "load" /\ UNCHANGED <<pollRow, column, responses, pollEvents>>
  /\ \/ StageAt(IF Rows = {} THEN "upload" ELSE "cluster") /\ UNCHANGED <<atomic, json, errors, exits>>
     \/ Exit(1)

(* The adapter's answer: each message is dropped, an opt-out, or split in  *)
(* one or two atomic messages with their clusters; any exception in it is  *)
(* an answer without results.  The stage itself may fail before that, and  *)
(* the task goes on.                                                       *)
Split == {{}, {0}, {1}, {-1}, {1, 2}}

ClusterMessages ==
  /\ stage.at = "cluster" /\ StageAt("merge") /\ UNCHANGED <<pollRow, column, json, responses, pollEvents, exits>>
  /\ \/ \E split \in [Rows -> Split] :
          atomic' = {a \in Rows \X Cluster : a[2] \in split[a[1]]} /\ UNCHANGED errors
     \/ \E failed \in BOOLEAN : atomic' = {} /\ errors' = failed

(* phone_map: the last message of a phone.                                 *)
MessageOf(phone) == CHOOSE r \in Rows : pollRow[r].phone = phone
                                       /\ \A q \in Rows : pollRow[q].phone = phone => q <= r

(* The records: an atomic message with the message phone_map has for its   *)
(* phone.                                                                  *)
RecordsOf(poll) == {a \in atomic : PollOf(MessageOf(pollRow[a[1]].phone)) = poll}

(* No file without records; a failed export is a warning.                  *)
Merge ==
  /\ stage.at = "merge" /\ StageAt("upload")
  /\ json' \in (IF atomic = {} THEN {"none"} ELSE {"none", "rows"})
  /\ UNCHANGED <<pollRow, column, atomic, responses, pollEvents, errors, exits>>

(* Variant: an upload that fails is a warning.                             *)
UploadResponsesWarns ==
  /\ stage.at = "upload" /\ StageAt("send") /\ responses' \in {responses, IF json = "rows" THEN "rows" ELSE "empty"}
  /\ UNCHANGED <<pollRow, column, atomic, json, pollEvents, errors, exits>>

(* The responses object is replaced, by an empty list if there is no file. *)
UploadResponses ==
  /\ stage.at = "upload" /\ UNCHANGED <<pollRow, column, pollEvents>>
  /\ \/ StageAt("send") /\ responses' = (IF json = "rows" THEN "rows" ELSE "empty")
        /\ UNCHANGED <<atomic, json, errors, exits>>
     \/ UNCHANGED responses /\ Exit(1)

(* Variant for the mutation run: the respondents of all records.           *)
RespondentsOfAll(poll) == {pollRow[a[1]].phone : a \in RecordsOf(poll)}

Respondents(poll) == {pollRow[a[1]].phone : a \in {b \in RecordsOf(poll) : b[2] # 0}}

(* Phones of a cluster, and the clusters that are published: those with    *)
(* enough phones, at most TopN, none with fewer phones than one left out.  *)
PhonesOf(poll, c) == {pollRow[a[1]].phone : a \in {b \in RecordsOf(poll) : b[2] = c}}

Issues(poll) ==
  LET Count(c) == Cardinality(PhonesOf(poll, c))
      enough == {c \in {1, 2} : Count(c) > 0 /\ Count(c) >= MinRespondents} IN
  {s \in SUBSET enough : /\ Cardinality(s) = (IF Cardinality(enough) < TopN THEN Cardinality(enough) ELSE TopN)
                         /\ \A c \in s, d \in enough \ s : Count(c) >= Count(d)}

(* Variant: files that were skipped because they are empty are not told.   *)
PollFilesLoaded == Loaded

(* Variant: the polls that rows have as well.                              *)
PollFilesAndRows == Poll \cup {PollOf(r) : r \in Rows}

PollFiles == Poll

(* One event per file, one after the other; it may be sent and the call    *)
(* fail, which ends the task.                                              *)
SendEvent(poll) ==
  /\ stage.at = "send" /\ poll \in PollFiles \ stage.told
  /\ UNCHANGED <<pollRow, column, responses>>
  /\ \E issues \in Issues(poll) :
       LET event == [poll |-> poll, task |-> stage.task, total |-> Cardinality(Respondents(poll)),
                     counted |-> Respondents(poll), issues |-> issues] IN
       \/ /\ pollEvents' = pollEvents \cup {event}
          /\ stage' = [stage EXCEPT !.told = @ \cup {poll}]
          /\ UNCHANGED <<atomic, json, errors, exits>>
       \/ pollEvents' \in {pollEvents, pollEvents \cup {event}} /\ Exit(1)

(* The events are saved to a file; then the exit code.                     *)
SaveEvents ==
  /\ stage.at = "send" /\ stage.told = PollFiles
  /\ \E saved \in BOOLEAN : Exit(IF saved /\ ~errors THEN 0 ELSE 1)
  /\ UNCHANGED <<pollRow, column, responses, pollEvents>>

Stop == /\ stage # NoStage /\ Exit(137)
        /\ UNCHANGED <<pollRow, column, responses, pollEvents>>

PollNext ==
  \/ StartPollTask \/ LoadMessages \/ ClusterMessages \/ Merge \/ UploadResponses
  \/ \E p \in Poll \cup {""} : SendEvent(p)
  \/ SaveEvents \/ Stop

PollSpec == PollInit /\ [][PollNext]_pollVars

-----------------------------------------------------------------------------
(* Properties                                                              *)

(* A task that ends well has sent an event for every file, empty ones too. *)
EveryPollTold ==
  \A t \in DOMAIN exits : exits[t] = 0 => \A p \in Poll : \E e \in pollEvents : e.task = t /\ e.poll = p

(* Nobody is counted in a poll who did not write in it or who only opted   *)
(* out, although the records are joined by phone numbers.                  *)
CountedWroteIn ==
  \A e \in pollEvents : \A n \in e.counted :
    /\ \E r \in Rows : pollRow[r].phone = n /\ PollOf(r) = e.poll
    /\ stage.at = "send" /\ e.task = stage.task =>
         \E a \in atomic : pollRow[a[1]].phone = n /\ a[2] # 0

(* gp-api can fetch the responses of whatever event it has.                *)
ResponsesThere == pollEvents # {} => responses # "none"

(* What gp-api is told of the polls of a run is complete and true.         *)
PollInv == PollTypeOK /\ EveryPollTold /\ CountedWroteIn /\ ResponsesThere
=============================================================================
