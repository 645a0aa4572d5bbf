---------------------------- MODULE ClassifyRuns ----------------------------
(***************************************************************************)
(* The classification pipeline (serve/classify/run_pipeline.py): a run     *)
(* loads the rows of a source, cleans them of what says nothing or was     *)
(* said before, has every message that is left classified in a task of its *)
(* own, and writes a table, a JSON file and three reports, over those of   *)
(* the run before.  The cleaner's memory is an object of the process; a    *)
(* process may run the pipeline again, fail, or be killed at any step.     *)
(*                                                                         *)
(* A text is what the cleaner tells apart: its normalized form, its words  *)
(* and its fate.                                                           *)
(***************************************************************************)
EXTENDS Integers, Sequences, FiniteSets, SequencesExt

CONSTANTS
  Sender,       \* phone numbers
  SourceText,   \* texts: form, words and fate
  MaxSource,    \* bound: rows of the source
  MaxClassifyRuns   \* bound: runs

VARIABLES
  sourceRows,  \* the rows of the files, in the order they are read
  cleaner,     \* its memory: what was seen, and the last words of a sender
  classifyAt,  \* the run, the step it is at, and the row or file that is next there
  loadedRows,  \* the rows that were loaded, in the order of their numbers
  cleanedRows, \* the rows that were kept
  classified,  \* the messages with their classifications, in order
  exported,    \* per file: the run that wrote it, and whether it is whole
  lastEnd      \* how the last run ended

classifyVars == <<sourceRows, cleaner, classifyAt, loadedRows, cleanedRows, classified, exported, lastEnd>>

(* What becomes of a text on its own: its row is not loaded; it is empty,  *)
(* or is so when it is cleaned; it asks to stop, or does with something to *)
(* say; it has no substance; it is kept.                                   *)
Fate == {"skipped", "blank", "nothing", "stop", "feedback", "thanks", "kept"}
Words(row) == row.text.words
NoWords == ""
LastWords == {t.words : t \in SourceText} \cup {NoWords}

(* Texts of one form have the same words, and who says something has some: *)
(* the words are those of the normalized form.                             *)
ASSUME ClassifyAssumption ==
  /\ {MaxSource, MaxClassifyRuns} \subseteq Nat \ {0}
  /\ SourceText \subseteq [form : STRING, words : STRING, fate : Fate]
  /\ \A t, u \in SourceText : t.form = u.form => t.words = u.words
  /\ \A t \in SourceText : t.fate \in {"feedback", "kept"} => t.words # NoWords

File == <<"csv", "json", "insights", "processing", "cleaning">>
NoMemory == [seen |-> {}, last |-> [p \in Sender |-> NoWords]]
Unwritten == [run |-> 0, whole |-> TRUE]
RunStep == {"rest", "load", "clean", "classify", "export", "end"}

ClassifyTypeOK ==
  /\ Len(sourceRows) <= MaxSource
  /\ Range(sourceRows) \subseteq [phone : Sender, text : SourceText]
  /\ cleaner.last \in [Sender -> LastWords]
  /\ classifyAt.step \in RunStep
  /\ classifyAt.next \in IF classifyAt.step = "export" THEN DOMAIN File ELSE Nat \ {0}
  /\ loadedRows \cup Range(cleanedRows) \subseteq DOMAIN sourceRows
  /\ Range(classified) \subseteq [row : DOMAIN sourceRows, failed : BOOLEAN]
  /\ exported \in [DOMAIN File -> [run : 0 .. MaxClassifyRuns, whole : BOOLEAN]]
  /\ lastEnd \in {"none", "success", "failed", "killed"}

ClassifyInit ==
  /\ sourceRows \in SeqOf([phone : Sender, text : SourceText], MaxSource)
  /\ cleaner = NoMemory
  /\ classifyAt = [run |-> 0, step |-> "rest", next |-> 1]
  /\ loadedRows = {} /\ cleanedRows = <<>> /\ classified = <<>>
  /\ exported = [f \in DOMAIN File |-> Unwritten] /\ lastEnd = "none"

AtStep(step) == classifyAt' = [classifyAt EXCEPT !.step = step, !.next = 1]

FailRun ==
  /\ AtStep("rest") /\ lastEnd' = "failed"
  /\ loadedRows' = {} /\ cleanedRows' = <<>> /\ classified' = <<>>
-----------------------------------------------------------------------------
(* A new process has a new cleaner.                                        *)
StartRun(fresh) ==
  /\ classifyAt.step = "rest" /\ classifyAt.run < MaxClassifyRuns
  /\ classifyAt' = [run |-> classifyAt.run + 1, step |-> "load", next |-> 1]
  /\ cleaner' = IF fresh THEN NoMemory ELSE cleaner
  /\ UNCHANGED <<sourceRows, loadedRows, cleanedRows, classified, exported, lastEnd>>

(* Rows that are invalid or not inbound are left out; a file that cannot   *)
(* be read ends the run.                                                   *)
LoadSource ==
  /\ classifyAt.step = "load"
  /\ \/ /\ loadedRows' = {i \in DOMAIN sourceRows : sourceRows[i].text.fate # "skipped"}
        /\ AtStep("clean") /\ UNCHANGED <<cleanedRows, classified, lastEnd>>
     \/ FailRun
  /\ UNCHANGED <<sourceRows, cleaner, exported>>

(* A message repeats one of its sender: in the same form as any before, or *)
(* in the words (nine tenths of them) of the last that was no repetition.  *)
Repeats(memory, row) ==
  \/ <<row.phone, row.text.form>> \in memory.seen
  \/ Words(row) # NoWords /\ memory.last[row.phone] = Words(row)

(* Variant: only forms are remembered.                                     *)
RememberForms(memory, row) ==
  [memory EXCEPT !.seen = @ \cup {<<row.phone, row.text.form>>}]

Remember(memory, row) ==
  [seen |-> memory.seen \cup {<<row.phone, row.text.form>>},
   last |-> IF Repeats(memory, row) THEN memory.last
            ELSE [memory.last EXCEPT ![row.phone] = Words(row)]]

(* Variant: the memory of the run before is not cleared.                   *)
KeptMemory == cleaner

ClearedMemory == NoMemory

(* A share of no rows at all is a division by zero.                        *)
CleanNothing ==
  /\ classifyAt.step = "clean" /\ loadedRows = {}
  /\ cleaner' = ClearedMemory /\ FailRun
  /\ UNCHANGED <<sourceRows, exported>>

(* clean_messages clears the memory and takes the rows that were loaded in *)
(* their order; for clean_message an empty row is none, and a repetition   *)
(* is taken out before it is asked what it says.                           *)
CleanMessage ==
  LET i == classifyAt.next
      row == sourceRows[i]
      memory == IF i = 1 THEN ClearedMemory ELSE cleaner IN
  /\ classifyAt.step = "clean" /\ loadedRows # {}
  /\ IF i \notin loadedRows \/ row.text.fate = "blank"
     THEN cleaner' = memory /\ UNCHANGED cleanedRows
     ELSE /\ cleaner' = Remember(memory, row)
          /\ cleanedRows' = IF ~Repeats(memory, row) /\ row.text.fate \in {"feedback", "kept"}
                            THEN Append(cleanedRows, i) ELSE cleanedRows
  /\ IF i = Len(sourceRows) THEN AtStep("classify") ELSE classifyAt' = [classifyAt EXCEPT !.next = i + 1]
  /\ UNCHANGED <<sourceRows, loadedRows, classified, exported, lastEnd>>

(* Variant: a message whose classification failed is left out.             *)
SuccessesOnly(failing) ==
  [n \in 1 .. Len(SelectSeq(cleanedRows, LAMBDA i : i \notin failing)) |->
     [row |-> SelectSeq(cleanedRows, LAMBDA i : i \notin failing)[n], failed |-> FALSE]]

(* Every message comes back in its place, with its classification or with  *)
(* one that says what failed.                                              *)
Classifications(failing) ==
  [n \in DOMAIN cleanedRows |-> [row |-> cleanedRows[n], failed |-> cleanedRows[n] \in failing]]

(* The success rate of no messages is a division by zero.                  *)
ClassifyMessages ==
  /\ classifyAt.step = "classify"
  /\ IF cleanedRows = <<>> THEN FailRun
     ELSE /\ \E failing \in SUBSET Range(cleanedRows) : classified' = Classifications(failing)
          /\ AtStep("export") /\ UNCHANGED <<loadedRows, cleanedRows, lastEnd>>
  /\ UNCHANGED <<sourceRows, cleaner, exported>>

Written(whole) ==
  exported' = [exported EXCEPT ![classifyAt.next] = [run |-> classifyAt.run, whole |-> whole]]

(* The files are written one after the other, each over its predecessor.   *)
ExportFile ==
  /\ classifyAt.step = "export" /\ Written(TRUE)
  /\ IF classifyAt.next = Len(File) THEN AtStep("end")
     ELSE classifyAt' = [classifyAt EXCEPT !.next = @ + 1]
  /\ UNCHANGED <<sourceRows, cleaner, loadedRows, cleanedRows, classified, lastEnd>>

(* Variant: a failed export is logged, and the run goes on.                *)
SkipExport ==
  /\ classifyAt.step = "export" /\ Written(FALSE)
  /\ IF classifyAt.next = Len(File) THEN AtStep("end")
     ELSE classifyAt' = [classifyAt EXCEPT !.next = @ + 1]
  /\ UNCHANGED <<sourceRows, cleaner, loadedRows, cleanedRows, classified, lastEnd>>

FailExport ==
  /\ classifyAt.step = "export"
  /\ Written(FALSE) \/ UNCHANGED exported
  /\ FailRun
  /\ UNCHANGED <<sourceRows, cleaner>>

EndRun ==
  /\ classifyAt.step = "end" /\ AtStep("rest") /\ lastEnd' = "success"
  /\ loadedRows' = {} /\ cleanedRows' = <<>> /\ classified' = <<>>
  /\ UNCHANGED <<sourceRows, cleaner, exported>>

KillRun ==
  /\ classifyAt.step # "rest" /\ AtStep("rest") /\ lastEnd' = "killed" /\ cleaner' = NoMemory
  /\ \/ classifyAt.step = "export" /\ Written(FALSE)
     \/ UNCHANGED exported
  /\ loadedRows' = {} /\ cleanedRows' = <<>> /\ classified' = <<>>
  /\ UNCHANGED sourceRows

ClassifyNext ==
  \/ \E fresh \in BOOLEAN : StartRun(fresh)
  \/ LoadSource \/ CleanNothing \/ CleanMessage \/ ClassifyMessages
  \/ ExportFile \/ FailExport \/ EndRun \/ KillRun

ClassifySpec == ClassifyInit /\ [][ClassifyNext]_classifyVars
-----------------------------------------------------------------------------
Cleaned == classifyAt.step \in {"classify", "export", "end"}

(* Nothing a resident said is lost, in this run or in one after it: what   *)
(* is worth keeping is kept, unless the same phone had said it before in   *)
(* rows of the same run.                                                   *)
NothingSaidLost ==
  Cleaned =>
    \A i \in loadedRows :
      sourceRows[i].text.fate \in {"feedback", "kept"} /\ i \notin Range(cleanedRows) =>
        \E j \in loadedRows :
          j < i /\ sourceRows[j].phone = sourceRows[i].phone /\ Words(sourceRows[j]) = Words(sourceRows[i])

(* No resident is heard twice in a row: of two messages of a phone that    *)
(* are kept, the forms differ, and so do the words unless it said          *)
(* something else in between.                                              *)
HeardOnce ==
  Cleaned =>
    \A i, j \in Range(cleanedRows) :
      i < j /\ sourceRows[i].phone = sourceRows[j].phone =>
        /\ sourceRows[i].text.form # sourceRows[j].text.form
        /\ Words(sourceRows[i]) = Words(sourceRows[j]) =>
             \E k \in loadedRows :
               i < k /\ k < j /\ sourceRows[k].phone = sourceRows[i].phone
                 /\ Words(sourceRows[k]) # Words(sourceRows[i])

(* Every message that is kept reaches the files, whatever fails in its     *)
(* classification, and in the order of the source.                         *)
AllClassified ==
  classifyAt.step \in {"export", "end"} => [n \in DOMAIN classified |-> classified[n].row] = cleanedRows

(* A run that succeeds leaves five whole files of its own, and a run that  *)
(* does not leaves whole files of earlier runs behind those it wrote.      *)
FilesOfOneRun ==
  /\ classifyAt.step = "rest" /\ lastEnd = "success" =>
       \A f \in DOMAIN File : exported[f] = [run |-> classifyAt.run, whole |-> TRUE]
  /\ \A f, g \in DOMAIN File : f < g =>
       exported[g].run <= exported[f].run /\ (~exported[f].whole => exported[g].run < exported[f].run)

ClassifyInv == ClassifyTypeOK /\ NothingSaidLost /\ HeardOnce /\ AllClassified /\ FilesOfOneRun
=============================================================================
