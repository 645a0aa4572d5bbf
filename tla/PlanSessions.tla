---------------------------- MODULE PlanSessions ----------------------------
(***************************************************************************)
(* The campaign plan API (ai_generated_campaign_plan/api): a session's     *)
(* background generation, the progress the browser streams, the PDF and    *)
(* JSON files (pdf_storage.py, json_storage.py), the hourly cleanups and a *)
(* restart.  One event loop runs it all and the model calls block it, so a *)
(* step of the generation lasts until it awaits: a stream sees nothing of  *)
(* the progress that is set and overwritten in between.                    *)
(***************************************************************************)
EXTENDS Integers, FiniteSets

CONSTANTS
  Session,    \* sessions that are started
  MaxAge,     \* 24 hours
  MaxHours,   \* bound: the clock
  MaxCrashes  \* bound: restarts of the service

ASSUME SessionsAssumption ==
  IsFiniteSet(Session) /\ {MaxAge, MaxHours, MaxCrashes} \subseteq Nat

VARIABLES
  memory,     \* progress_store
  gen,        \* where generate_campaign_plan_background awaits
  artifacts,       \* the four files of a session
  stream,     \* the browser's event stream
  hour, crashes

sessionsVars == <<memory, gen, artifacts, stream, hour, crashes>>

Never == -1
NoSession == [progress |-> 0, status |-> "absent", expires |-> Never]
NoArtifact == [at |-> Never, whole |-> FALSE]
Whole(t) == [at |-> t, whole |-> TRUE]
Broken(t) == [at |-> t, whole |-> FALSE]
File == {"pdf", "pdf_meta", "json", "json_meta"}
Closed == [open |-> FALSE, last |-> Never, end |-> "none"]

SessionsTypeOK ==
  /\ memory \in [Session -> [progress : 0 .. 100, expires : {Never} \cup Nat,
                             status : {"absent", "processing", "completed", "error"}]]
  /\ gen \in [Session -> {"none", "community", "timeline", "tasks", "over"}]
  /\ artifacts \in [Session -> [File -> [at : {Never} \cup Nat, whole : BOOLEAN]]]
  /\ stream \in [Session -> [open : BOOLEAN, last : -1 .. 100,
                             end : {"none", "completed", "error", "not_found"}]]
  /\ \A s \in Session : gen[s] \in {"community", "timeline", "tasks"} =>
                          memory[s].status = "processing" /\ memory[s].expires = Never

SessionsInit ==
  /\ memory = [s \in Session |-> NoSession] /\ gen = [s \in Session |-> "none"]
  /\ artifacts = [s \in Session |-> [f \in File |-> NoArtifact]]
  /\ stream = [s \in Session |-> Closed] /\ hour = 0 /\ crashes = 0

OnDisk(s, f) == artifacts[s][f] # NoArtifact

-----------------------------------------------------------------------------
(* generate_campaign_plan_background                                       *)

(* ProgressTracker.update: other entries of the session are kept.          *)
Progress(s, p, st) == memory' = [memory EXCEPT ![s].progress = p, ![s].status = st]

(* Variants: the error is only logged; the generation goes on after it.    *)
PlanFailsSilently(s) == gen' = [gen EXCEPT ![s] = "over"] /\ UNCHANGED memory
PlanFailsOn(s) == Progress(s, 0, "error") /\ gen' = [gen EXCEPT ![s] = "community"]

PlanFails(s) == Progress(s, 0, "error") /\ gen' = [gen EXCEPT ![s] = "over"]

(* 10 to 65 per cent: the data are cleaned, which may fail, sections 1, 2  *)
(* and 4 are made, and section 5 awaits its searches.  A section that      *)
(* fails is a text that says so.                                           *)
StartPlan(s) ==
  /\ gen[s] = "none" /\ memory[s] = NoSession
  /\ \/ Progress(s, 65, "processing") /\ gen' = [gen EXCEPT ![s] = "community"]
     \/ PlanFails(s)
  /\ UNCHANGED <<artifacts, stream, hour, crashes>>

(* 75 and 85: section 6, and section 3, which has 5 and 6 and awaits its   *)
(* own search.                                                             *)
CommunityDone(s) ==
  /\ gen[s] = "community"
  /\ Progress(s, 85, "processing") /\ gen' = [gen EXCEPT ![s] = "timeline"]
  /\ UNCHANGED <<artifacts, stream, hour, crashes>>

(* save_pdf: file, then metadata.                                          *)
SavedPdf(d) == [d EXCEPT !["pdf"] = Whole(hour), !["pdf_meta"] = Whole(hour)]

(* save_json and expires_at.  The PDF is there, or the check fails.        *)
Completes(s, d) ==
  /\ artifacts' = [artifacts EXCEPT ![s] = [d EXCEPT !["json"] = Whole(hour), !["json_meta"] = Whole(hour)]]
  /\ memory' = [memory EXCEPT ![s] = IF d["pdf"] = NoArtifact
         THEN [progress |-> 0, status |-> "error", expires |-> hour + MaxAge]
         ELSE [progress |-> 100, status |-> "completed", expires |-> hour + MaxAge]]
  /\ gen' = [gen EXCEPT ![s] = "over"]

(* A write fails: what is on disk by then stays there.                     *)
SaveFails(s, file, meta, d) ==
  /\ \/ artifacts' = [artifacts EXCEPT ![s] = [d EXCEPT ![file] = Broken(hour)]]
     \/ artifacts' = [artifacts EXCEPT ![s] = [d EXCEPT ![file] = Whole(hour), ![meta] = Broken(hour)]]
  /\ PlanFails(s)

(* Variant for the mutation run: the PDF is written in a thread, and the   *)
(* loop goes on at 98 per cent.                                            *)
TimelineDoneAsync(s) ==
  \/ /\ gen[s] = "timeline" /\ memory[s].progress = 85
     /\ Progress(s, 98, "processing") /\ UNCHANGED <<gen, artifacts, stream, hour, crashes>>
  \/ /\ gen[s] = "timeline" /\ memory[s].progress = 98
     /\ Progress(s, 96, "processing") /\ gen' = [gen EXCEPT ![s] = "tasks"]
     /\ artifacts' = [artifacts EXCEPT ![s] = SavedPdf(@)]
     /\ UNCHANGED <<stream, hour, crashes>>

(* 95, 98, then the PDF is saved, then 96: the tasks await the templates,  *)
(* or fail before they do, and the plan goes on without.  Up to here an    *)
(* error ends the generation.                                              *)
TimelineDone(s) ==
  /\ gen[s] = "timeline"
  /\ \/ PlanFails(s) /\ UNCHANGED artifacts
     \/ SaveFails(s, "pdf", "pdf_meta", artifacts[s])
     \/ /\ Progress(s, 96, "processing") /\ gen' = [gen EXCEPT ![s] = "tasks"]
        /\ artifacts' = [artifacts EXCEPT ![s] = SavedPdf(@)]
     \/ Completes(s, SavedPdf(artifacts[s]))
     \/ SaveFails(s, "json", "json_meta", SavedPdf(artifacts[s]))
  /\ UNCHANGED <<stream, hour, crashes>>

(* Tasks or not, the JSON is saved, and both files are looked for.         *)
TasksDone(s) ==
  /\ gen[s] = "tasks"
  /\ Completes(s, artifacts[s]) \/ SaveFails(s, "json", "json_meta", artifacts[s])
  /\ UNCHANGED <<stream, hour, crashes>>

-----------------------------------------------------------------------------
(* progress_stream                                                         *)

OpenStream(s) ==
  /\ ~stream[s].open /\ (gen[s] # "none" \/ \E f \in File : OnDisk(s, f))
  /\ stream' = [stream EXCEPT ![s] = [open |-> TRUE, last |-> Never, end |-> "none"]]
  /\ UNCHANGED <<memory, gen, artifacts, hour, crashes>>

Closes(s, p, why) == [open |-> FALSE, last |-> p, end |-> why]

(* Variant: the first file is enough.                                      *)
OneReady(s) == OnDisk(s, "pdf") \/ OnDisk(s, "json")

(* What is taken for a finished plan of before a restart.                  *)
BothReady(s) == OnDisk(s, "pdf") /\ OnDisk(s, "json")

(* Every half second: the progress, if it is another one; the end, once    *)
(* there is one; and without an entry the files decide.                    *)
StreamLooks(s) ==
  /\ stream[s].open
  /\ LET m == memory[s] IN
     stream' = [stream EXCEPT ![s] =
       IF m.status = "absent"
       THEN IF BothReady(s) THEN Closes(s, 100, "completed") ELSE Closes(s, @.last, "not_found")
       ELSE IF m.status \in {"completed", "error"} THEN Closes(s, m.progress, m.status)
       ELSE [@ EXCEPT !.last = m.progress]]
  /\ UNCHANGED <<memory, gen, artifacts, hour, crashes>>

-----------------------------------------------------------------------------
(* Time, cleanups, restarts                                                *)

(* A generation is over within the hour.                                   *)
HourPasses ==
  /\ hour < MaxHours /\ \A s \in Session : gen[s] \notin {"community", "timeline", "tasks"}
  /\ hour' = hour + 1
  /\ UNCHANGED <<memory, gen, artifacts, stream, crashes>>

(* cleanup_expired_sessions: what has expires_at.                          *)
CleanSessions ==
  /\ memory' = [s \in Session |-> IF memory[s].expires # Never /\ hour > memory[s].expires
                                  THEN NoSession ELSE memory[s]]
  /\ UNCHANGED <<gen, artifacts, stream, hour, crashes>>

(* Variant: a day that is not over counts as one.                          *)
OldArtifactEarly(f) == f # NoArtifact /\ f.at <= hour - MaxAge
OldArtifact(f) == f # NoArtifact /\ f.at < hour - MaxAge

(* cleanup_old_files: by the metadata, when they can be read; a file       *)
(* without metadata by its own time.                                       *)
Cleaned(d, file, meta) ==
  IF (d[meta].whole /\ OldArtifact(d[meta])) \/ (d[meta] = NoArtifact /\ OldArtifact(d[file]))
  THEN [d EXCEPT ![file] = NoArtifact, ![meta] = NoArtifact] ELSE d

CleanFiles(file, meta) ==
  /\ artifacts' = [s \in Session |-> Cleaned(artifacts[s], file, meta)]
  /\ UNCHANGED <<memory, gen, stream, hour, crashes>>

(* The service stops, perhaps while a file is written, and starts again:   *)
(* sessions, generations and streams are gone, the files are not.          *)
Restart ==
  /\ crashes < MaxCrashes /\ crashes' = crashes + 1
  /\ memory' = [s \in Session |-> NoSession]
  /\ gen' = [s \in Session |-> IF gen[s] = "none" THEN "none" ELSE "over"]
  /\ stream' = [s \in Session |-> Closed]
  /\ \/ UNCHANGED artifacts
     \/ \E s \in Session : /\ gen[s] = "timeline"
                           /\ \/ artifacts' = [artifacts EXCEPT ![s]["pdf"] = Broken(hour)]
                              \/ artifacts' = [artifacts EXCEPT ![s]["pdf"] = Whole(hour), ![s]["pdf_meta"] = Broken(hour)]
     \/ \E s \in Session : /\ gen[s] = "tasks"
                           /\ \/ artifacts' = [artifacts EXCEPT ![s]["json"] = Broken(hour)]
                              \/ artifacts' = [artifacts EXCEPT ![s]["json"] = Whole(hour), ![s]["json_meta"] = Broken(hour)]
  /\ UNCHANGED hour

Generates(s) == StartPlan(s) \/ CommunityDone(s) \/ TimelineDone(s) \/ TasksDone(s)

SessionsNext ==
  \/ \E s \in Session : Generates(s) \/ OpenStream(s) \/ StreamLooks(s)
  \/ HourPasses \/ CleanSessions \/ CleanFiles("pdf", "pdf_meta") \/ CleanFiles("json", "json_meta")
  \/ Restart

(* Every await of a generation ends, and a stream looks again and again.   *)
SessionsSpec ==
  /\ SessionsInit /\ [][SessionsNext]_sessionsVars
  /\ \A s \in Session : /\ WF_sessionsVars(CommunityDone(s) \/ TimelineDone(s) \/ TasksDone(s))
                        /\ WF_sessionsVars(StreamLooks(s))

-----------------------------------------------------------------------------
(* Properties                                                              *)

(* As long as a session says "completed" and its day is not over, both     *)
(* files are there, whole, whatever the cleanups have done.                *)
CompletedServed ==
  \A s \in Session :
    memory[s].status = "completed" /\ hour <= memory[s].expires =>
      /\ artifacts[s]["pdf"].whole /\ artifacts[s]["json"].whole
      /\ artifacts[s]["pdf_meta"].whole /\ artifacts[s]["json_meta"].whole

(* The bar does not run back: what a stream shows never decreases, but to  *)
(* an error, although the generation sets 98, 96 and 98 again.             *)
ProgressForward ==
  [][\A s \in Session :
       stream[s].open /\ crashes' = crashes /\ stream'[s].end # "error" =>
         stream'[s].last >= stream[s].last]_sessionsVars

(* A stream says "completed" only to a browser that may have both files,   *)
(* before a restart and after it.                                          *)
CompletedHasBoth ==
  [][\A s \in Session :
       stream'[s].end = "completed" /\ stream[s].end # "completed" /\ hour <= MaxAge =>
         OnDisk(s, "pdf") /\ OnDisk(s, "json")]_sessionsVars

(* Whatever fails, the browser is not left waiting.                        *)
StreamsEnd == \A s \in Session : stream[s].open ~> ~stream[s].open

(* A completed session can be served.                                      *)
SessionsInv == SessionsTypeOK /\ CompletedServed
=============================================================================
