--------------------------- MODULE UnmatchedUsers ---------------------------
(***************************************************************************)
(* The three programs of bronze_data/batch_process, run by hand one after  *)
(* the other: the export of unmatched users, their assessment by the model *)
(* and the match against the vector stores.  They only share files, whose  *)
(* names carry the time they were written: each program takes the newest   *)
(* it finds.  Any of them may stop anywhere, with a file half written.     *)
(***************************************************************************)
EXTENDS Integers, FiniteSets

CONSTANTS
  User,        \* row numbers of the users there are, 1 .. n
  BatchSize,   \* rows of a batch
  MaxRuns,     \* bound: assessments
  MaxOthers    \* bound: exports and matches

ASSUME UsersAssumption == User \subseteq Nat \ {0} /\ {BatchSize, MaxRuns, MaxOthers} \subseteq Nat \ {0}

VARIABLES
  exports,    \* motivated_unmatched_users_<t>: the rows, and whether it is whole
  complete,   \* preprocessing_full_dataset_<t>: each row's category
  accepted,   \* ..._accepted
  rejected,   \* ..._rejected
  matches,    \* unmatched_users_l2_matches_<t>: each row's outcome
  program     \* the program that runs: which, its rows, what it has of them

usersVars == <<exports, complete, accepted, rejected, matches, program>>

Category == {"Matchable", "Unmatchable", "Questionable"}
MatchOutcome == {"matched", "NOT_MATCHED", "ERROR"}

NoProgram == [name |-> "none", rows |-> {}, made |-> <<>>, source |-> ""]
NoRows == [row \in {} |-> "none"]

UsersTypeOK ==
  /\ \A t \in DOMAIN exports : exports[t].rows \subseteq User
  /\ \A f \in {complete, accepted, rejected} : DOMAIN f \subseteq 1 .. MaxRuns
  /\ \A t \in DOMAIN accepted : \A u \in DOMAIN accepted[t].rows : accepted[t].rows[u] = "Matchable"
  /\ \A t \in DOMAIN matches : \A u \in DOMAIN matches[t].rows : matches[t].rows[u] \in MatchOutcome
  /\ program.rows \subseteq User /\ DOMAIN program.made \subseteq program.rows

Empty == [t \in {} |-> 0]

UsersInit ==
  /\ exports = Empty /\ complete = Empty /\ accepted = Empty /\ rejected = Empty /\ matches = Empty
  /\ program = NoProgram

Newest(files) == CHOOSE t \in DOMAIN files : \A other \in DOMAIN files : other <= t
Add(files, t, whole, rows) == [x \in DOMAIN files \cup {t} |->
                                 IF x = t THEN [whole |-> whole, rows |-> rows] ELSE files[x]]
NextRun(files) == IF files = Empty THEN 1 ELSE Newest(files) + 1

(* The query of users with a state and an office and no match, to a file.  *)
Export ==
  /\ program = NoProgram /\ NextRun(exports) <= MaxOthers
  /\ \E found \in (SUBSET User) \ {{}}, whole \in BOOLEAN : exports' = Add(exports, NextRun(exports), whole, found)
  /\ UNCHANGED <<complete, accepted, rejected, matches, program>>

(* main of preprocessing: a file that cannot be read ends it.              *)
StartAssessment ==
  /\ program = NoProgram /\ exports # Empty /\ NextRun(complete) <= MaxRuns
  /\ exports[Newest(exports)].whole
  /\ program' = [NoProgram EXCEPT !.name = "assess", !.rows = exports[Newest(exports)].rows, !.made = NoRows]
  /\ UNCHANGED <<exports, complete, accepted, rejected, matches>>

(* The rows of a batch in any order, after all rows of the batches before. *)
InBatch(u) ==
  /\ u \in program.rows \ DOMAIN program.made
  /\ LET Place(v) == Cardinality({w \in program.rows : w < v}) IN
     \A v \in program.rows \ DOMAIN program.made : Place(u) \div BatchSize <= Place(v) \div BatchSize

Made(u, what) == [x \in DOMAIN program.made \cup {u} |-> IF x = u THEN what ELSE program.made[x]]

(* The model's verdict; five failed attempts, or an exception of the task, *)
(* make the row Questionable.                                              *)
AssessUser(u) ==
  /\ program.name = "assess" /\ InBatch(u)
  /\ \E c \in Category : program' = [program EXCEPT !.made = Made(u, c)]
  /\ UNCHANGED <<exports, complete, accepted, rejected, matches>>

AssessedAs(c) == [u \in {v \in program.rows : program.made[v] = c} |-> c]

(* Variant for the mutation run: accepted is all that was not rejected.    *)
AcceptedAll == [u \in {v \in program.rows : program.made[v] # "Unmatchable"} |-> program.made[u]]

AcceptedRows == AssessedAs("Matchable")

Assessed == program.name = "assess" /\ DOMAIN program.made = program.rows

(* Variant: the filtered files first.                                      *)
SaveAssessmentSplit(whole) ==
  /\ Assessed /\ program' = [program EXCEPT !.name = "complete"]
  /\ accepted' = IF AcceptedRows = NoRows THEN accepted ELSE Add(accepted, NextRun(complete), whole, AcceptedRows)
  /\ UNCHANGED <<exports, complete, rejected, matches>>

(* The complete file, then the accepted and the rejected rows if there are *)
(* any; half a file if the program stops in between.                       *)
SaveAssessment(whole) ==
  /\ Assessed
  /\ complete' = Add(complete, NextRun(complete), whole, program.made)
  /\ program' = IF whole THEN [program EXCEPT !.name = "complete"] ELSE NoProgram
  /\ UNCHANGED <<exports, accepted, rejected, matches>>

SaveAccepted(whole) ==
  /\ program.name = "complete" /\ UNCHANGED <<exports, complete, rejected, matches>>
  /\ IF AcceptedRows = NoRows
     THEN whole /\ UNCHANGED accepted /\ program' = [program EXCEPT !.name = "accepted"]
     ELSE /\ accepted' = Add(accepted, Newest(complete), whole, AcceptedRows)
          /\ program' = IF whole THEN [program EXCEPT !.name = "accepted"] ELSE NoProgram

SaveRejected(whole) ==
  /\ program.name = "accepted" /\ program' = NoProgram
  /\ rejected' = IF AssessedAs("Unmatchable") = NoRows THEN rejected
                 ELSE Add(rejected, Newest(complete), whole, AssessedAs("Unmatchable"))
  /\ UNCHANGED <<exports, complete, accepted, matches>>

(* Variant: the complete file is taken as it is.                           *)
SourceUnfiltered ==
  IF accepted # Empty THEN [file |-> accepted[Newest(accepted)], name |-> "accepted"]
  ELSE IF complete # Empty THEN [file |-> complete[Newest(complete)], name |-> "complete"]
  ELSE [file |-> exports[Newest(exports)], name |-> "raw"]

(* _load_unmatched_user_data: the newest accepted file of any assessment,  *)
(* else the matchable rows of the newest complete file, else all users.    *)
Source ==
  IF accepted # Empty THEN [file |-> accepted[Newest(accepted)], name |-> "accepted"]
  ELSE IF complete # Empty
  THEN LET c == complete[Newest(complete)] IN
       [file |-> [c EXCEPT !.rows = [u \in {v \in DOMAIN c.rows : c.rows[v] = "Matchable"} |-> "Matchable"]],
        name |-> "complete"]
  ELSE [file |-> exports[Newest(exports)], name |-> "raw"]

StartMatching ==
  /\ program = NoProgram /\ exports # Empty /\ NextRun(matches) <= MaxOthers
  /\ Source.file.whole
  /\ LET rows == IF Source.name = "raw" THEN Source.file.rows ELSE DOMAIN Source.file.rows IN
     rows # {} /\ program' = [NoProgram EXCEPT !.name = "match", !.rows = rows, !.made = NoRows, !.source = Source.name]
  /\ UNCHANGED <<exports, complete, accepted, rejected, matches>>

(* process_user_record: no state or no vector store gives no matches, and  *)
(* an exception gives an error row.                                        *)
MatchUser(u) ==
  /\ program.name = "match" /\ InBatch(u)
  /\ \E o \in MatchOutcome : program' = [program EXCEPT !.made = Made(u, o)]
  /\ UNCHANGED <<exports, complete, accepted, rejected, matches>>

SaveMatches(whole) ==
  /\ program.name = "match" /\ DOMAIN program.made = program.rows
  /\ matches' = Add(matches, NextRun(matches), whole, program.made) /\ program' = NoProgram
  /\ UNCHANGED <<exports, complete, accepted, rejected>>

StopProgram == program # NoProgram /\ program' = NoProgram
               /\ UNCHANGED <<exports, complete, accepted, rejected, matches>>

UsersNext ==
  \/ Export \/ StartAssessment \/ StartMatching \/ StopProgram
  \/ \E u \in User : AssessUser(u) \/ MatchUser(u)
  \/ \E whole \in BOOLEAN : \/ SaveAssessment(whole) \/ SaveAccepted(whole)
                            \/ SaveRejected(whole) \/ SaveMatches(whole)

UsersSpec == UsersInit /\ [][UsersNext]_usersVars

-----------------------------------------------------------------------------
(* Properties                                                              *)

(* Whatever program stopped where: an accepted or rejected file is of an   *)
(* assessment that is saved in full, and has its rows of that category.    *)
SplitOfComplete ==
  \A f \in {<<accepted, "Matchable">>, <<rejected, "Unmatchable">>} : \A t \in DOMAIN f[1] :
    /\ t \in DOMAIN complete /\ complete[t].whole
    /\ f[1][t].rows = [u \in {v \in DOMAIN complete[t].rows : complete[t].rows[v] = f[2]} |-> f[2]]

(* A user whom every assessment judged unmatchable costs no match, once    *)
(* there is an assessment.                                                 *)
RejectedNotMatched ==
  program.name = "match" /\ program.source # "raw" =>
    \A u \in program.rows : \E t \in DOMAIN complete :
      u \in DOMAIN complete[t].rows /\ complete[t].rows[u] = "Matchable"

(* What three programs hand each other by files is of one assessment.      *)
UsersInv == UsersTypeOK /\ SplitOfComplete /\ RejectedNotMatched
=============================================================================
