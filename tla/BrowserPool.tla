---------------------------- MODULE BrowserPool ----------------------------
(***************************************************************************)
(* The warm browser of one broker instance (broker/browser_fetcher.py) and *)
(* the endpoint that uses it (endpoints/http_fetch.py): fetches that share *)
(* a semaphore, the temporary files of downloads on their way from the     *)
(* fetch to the end of the response, the verdict of the route handler,     *)
(* which runs beside the fetch, and aclose, which drains and shuts down.   *)
(***************************************************************************)
EXTENDS Integers, Sequences, FiniteSets

CONSTANTS
  FetchRequest,          \* requests that can be in progress at the same time, numbered
  MaxConcurrent   \* permits of the semaphore

ASSUME BrowserAssumption == MaxConcurrent \in Nat \ {0} /\ FetchRequest \subseteq Nat \ {0}

VARIABLES
  fetches,   \* the requests
  line,      \* who waits for a permit, in order; aclose is Closer
  permits,   \* free permits
  closer,    \* aclose: where it is, and the permits it holds
  drained,   \* FALSE after aclose gave up waiting
  savedFiles       \* the requests whose temporary file exists

browserVars == <<fetches, line, permits, closer, drained, savedFiles>>

Closer == 0
Inside == {"render", "save", "body", "context"}
NoFetch == [at |-> "off", blocked |-> FALSE, late |-> FALSE, result |-> "none"]

BrowserTypeOK ==
  /\ fetches \in [FetchRequest -> [at : {"off", "wait", "answer", "stream"} \cup Inside,
                            blocked : BOOLEAN, late : BOOLEAN,
                            result : {"none", "page", "file"}]]
  /\ line \in Seq(FetchRequest \cup {Closer})
  /\ permits \in 0 .. MaxConcurrent
  /\ closer \in [at : {"off", "drain", "close", "closed"}, got : 0 .. MaxConcurrent]
  /\ drained \in BOOLEAN
  /\ savedFiles \in SUBSET FetchRequest

BrowserInit ==
  /\ fetches = [f \in FetchRequest |-> NoFetch]
  /\ line = <<>> /\ permits = MaxConcurrent
  /\ closer = [at |-> "off", got |-> 0]
  /\ drained = TRUE /\ savedFiles = {}

Closing == closer.at # "off"
Usable == closer.at # "closed"
GoTo(f, a) == fetches' = [fetches EXCEPT ![f].at = a]

-----------------------------------------------------------------------------
(* The semaphore and aclose                                                *)

(* fetch: 503 while closing; a free permit is taken at once when nobody    *)
(* waits.                                                                  *)
ArriveFetch(f) ==
  /\ fetches[f].at = "off" /\ ~Closing
  /\ IF permits > 0 /\ line = <<>>
     THEN GoTo(f, "render") /\ permits' = permits - 1 /\ UNCHANGED line
     ELSE GoTo(f, "wait") /\ line' = Append(line, f) /\ UNCHANGED permits
  /\ UNCHANGED <<closer, drained, savedFiles>>

(* Variant for the mutation run: no second look at _closing.               *)
AdmitAnyway(f) ==
  /\ permits > 0 /\ line # <<>> /\ Head(line) = f
  /\ line' = Tail(line)
  /\ GoTo(f, "render") /\ permits' = permits - 1
  /\ UNCHANGED <<closer, drained, savedFiles>>

(* The first in line gets the permit and looks at _closing again.          *)
Admit(f) ==
  /\ permits > 0 /\ line # <<>> /\ Head(line) = f
  /\ line' = Tail(line)
  /\ IF Closing
     THEN fetches' = [fetches EXCEPT ![f] = NoFetch] /\ UNCHANGED permits
     ELSE GoTo(f, "render") /\ permits' = permits - 1
  /\ UNCHANGED <<closer, drained, savedFiles>>

(* Variant: one permit is enough.                                          *)
AcquiredOne == [at |-> "close", got |-> closer.got + 1]

Acquired == IF closer.got + 1 = MaxConcurrent
            THEN [at |-> "close", got |-> MaxConcurrent]
            ELSE [at |-> "drain", got |-> closer.got + 1]

StartClose ==
  /\ closer.at = "off"
  /\ closer' = [closer EXCEPT !.at = "drain"]
  /\ UNCHANGED <<fetches, line, permits, drained, savedFiles>>

(* Each permit is waited for by itself, behind the fetches in line.        *)
Drain ==
  /\ closer.at = "drain"
  /\ \/ /\ permits > 0 /\ (line # <<>> => Head(line) = Closer)
        /\ permits' = permits - 1 /\ closer' = Acquired
        /\ line' = IF line = <<>> THEN line ELSE Tail(line)
     \/ /\ permits = 0 \/ line # <<>>
        /\ \A i \in DOMAIN line : line[i] # Closer
        /\ line' = Append(line, Closer) /\ UNCHANGED <<permits, closer>>
  /\ UNCHANGED <<fetches, drained, savedFiles>>

Without(s, i) == [j \in 1 .. Len(s) - 1 |-> IF j < i THEN s[j] ELSE s[j + 1]]

(* Variant: the acquires have no timeout.                                  *)
GiveUpNever == FALSE /\ UNCHANGED browserVars

GiveUp ==
  /\ closer.at = "drain"
  /\ \E i \in DOMAIN line : line[i] = Closer /\ line' = Without(line, i)
  /\ closer' = [closer EXCEPT !.at = "close"]
  /\ drained' = FALSE
  /\ UNCHANGED <<fetches, permits, savedFiles>>

(* The browser goes, whatever its close raises, and the permits come back. *)
CloseBrowser ==
  /\ closer.at = "close"
  /\ closer' = [at |-> "closed", got |-> 0]
  /\ permits' = permits + closer.got
  /\ UNCHANGED <<fetches, line, drained, savedFiles>>

-----------------------------------------------------------------------------
(* _fetch_impl                                                             *)

(* The route handler aborts a navigation, at any await of the fetch.       *)
BlockNavigation(f) ==
  /\ fetches[f].at \in Inside /\ ~fetches[f].blocked
  /\ fetches' = [fetches EXCEPT ![f].blocked = TRUE,
                                ![f].late = fetches[f].at = "context"]
  /\ UNCHANGED <<line, permits, closer, drained, savedFiles>>

(* Anything up to the first byte can raise, of the browser or of a check.  *)
FailFetch(f) ==
  /\ fetches[f].at \in {"render", "body"} /\ GoTo(f, "context")
  /\ UNCHANGED <<line, permits, closer, drained, savedFiles>>

StartSave(f) ==
  /\ fetches[f].at = "render" /\ Usable /\ ~fetches[f].blocked
  /\ GoTo(f, "save") /\ savedFiles' = savedFiles \cup {f}
  /\ UNCHANGED <<line, permits, closer, drained>>

StartBody(f) ==
  /\ fetches[f].at = "render" /\ Usable /\ GoTo(f, "body")
  /\ UNCHANGED <<line, permits, closer, drained, savedFiles>>

Leave(f, r) == fetches' = [fetches EXCEPT ![f].at = "context", ![f].result = r]

(* Variant: no look at the tracker once the download is on disk.           *)
SavedUnchecked(f) ==
  /\ fetches[f].at = "save"
  /\ \/ Usable /\ Leave(f, "file") /\ UNCHANGED savedFiles
     \/ Leave(f, "none") /\ savedFiles' = savedFiles \ {f}
  /\ UNCHANGED <<line, permits, closer, drained>>

(* Variant: the blocked download is not unlinked.                          *)
SavedLeft(f) ==
  /\ fetches[f].at = "save"
  /\ \/ Usable /\ ~fetches[f].blocked /\ Leave(f, "file") /\ UNCHANGED savedFiles
     \/ fetches[f].blocked /\ Leave(f, "none") /\ UNCHANGED savedFiles
     \/ Leave(f, "none") /\ savedFiles' = savedFiles \ {f}
  /\ UNCHANGED <<line, permits, closer, drained>>

(* save_as and its size: the file is handed on, or unlinked because it is  *)
(* too large, could not be saved or the navigation was aborted meanwhile.  *)
(* An unlink that fails is logged, and counts as done here.                *)
Saved(f) ==
  /\ fetches[f].at = "save"
  /\ \/ Usable /\ ~fetches[f].blocked /\ Leave(f, "file") /\ UNCHANGED savedFiles
     \/ Leave(f, "none") /\ savedFiles' = savedFiles \ {f}
  /\ UNCHANGED <<line, permits, closer, drained>>

BodyRead(f) ==
  /\ fetches[f].at = "body" /\ Usable /\ ~fetches[f].blocked
  /\ Leave(f, "page")
  /\ UNCHANGED <<line, permits, closer, drained, savedFiles>>

(* Variant: the permit is released by the fetch and by its caller.         *)
LeaveContextTwice(f) ==
  /\ fetches[f].at = "context"
  /\ permits' = permits + 2
  /\ IF fetches[f].result = "none"
     THEN fetches' = [fetches EXCEPT ![f] = NoFetch] ELSE GoTo(f, "answer")
  /\ UNCHANGED <<line, closer, drained, savedFiles>>

(* The context is closed, whatever that raises, then the permit released.  *)
LeaveContext(f) ==
  /\ fetches[f].at = "context"
  /\ permits' = permits + 1
  /\ IF fetches[f].result = "none"
     THEN fetches' = [fetches EXCEPT ![f] = NoFetch] ELSE GoTo(f, "answer")
  /\ UNCHANGED <<line, closer, drained, savedFiles>>

-----------------------------------------------------------------------------
(* The endpoint: the final address is checked again, then the file is      *)
(* streamed and unlinked by the background task.                           *)
AnswerFetch(f) ==
  /\ fetches[f].at = "answer"
  /\ \/ GoTo(f, "stream") /\ UNCHANGED savedFiles
     \/ fetches' = [fetches EXCEPT ![f] = NoFetch] /\ savedFiles' = savedFiles \ {f}
  /\ UNCHANGED <<line, permits, closer, drained>>

EndStream(f) ==
  /\ fetches[f].at = "stream"
  /\ fetches' = [fetches EXCEPT ![f] = NoFetch]
  /\ savedFiles' = savedFiles \ {f}
  /\ UNCHANGED <<line, permits, closer, drained>>

-----------------------------------------------------------------------------
CloserNext == Drain \/ GiveUp \/ CloseBrowser

BrowserNext ==
  \/ StartClose \/ CloserNext
  \/ \E f \in FetchRequest :
       \/ ArriveFetch(f) \/ Admit(f) \/ BlockNavigation(f) \/ FailFetch(f)
       \/ StartSave(f) \/ StartBody(f) \/ Saved(f) \/ BodyRead(f)
       \/ LeaveContext(f) \/ AnswerFetch(f) \/ EndStream(f)

(* The timeout of each acquire runs in aclose itself, so aclose goes on    *)
(* even beside a fetch that never ends.                                    *)
BrowserSpec == BrowserInit /\ [][BrowserNext]_browserVars /\ WF_browserVars(CloserNext)

-----------------------------------------------------------------------------
(* Properties                                                              *)

(* aclose takes the browser from under a fetch only when it gave up        *)
(* waiting; and no permit is lost or doubled between fetches that end in   *)
(* any way, fetches turned away and aclose.                                *)
BrowserShared ==
  /\ closer.at = "closed" /\ drained => \A f \in FetchRequest : fetches[f].at \notin Inside
  /\ permits + closer.got + Cardinality({f \in FetchRequest : fetches[f].at \in Inside})
       = MaxConcurrent

(* A temporary file always has a request in progress that will remove it.  *)
FilesOwned ==
  \A f \in savedFiles :
    \/ fetches[f].at = "save"
    \/ fetches[f].at \in {"context", "answer", "stream"} /\ fetches[f].result = "file"

(* Content captured after the main navigation was aborted is never         *)
(* answered.                                                               *)
NothingBlockedAnswered ==
  \A f \in FetchRequest :
    fetches[f].result # "none" /\ fetches[f].blocked => fetches[f].late

(* Once aclose runs, no fetch starts to use the browser, those that waited *)
(* in line before it included.                                             *)
NoneAdmitted ==
  [][Closing => \A f \in FetchRequest : fetches'[f].at = "render" => fetches[f].at = "render"]_browserVars

(* A shutdown ends, whatever the fetches do.                               *)
ShutdownEnds == Closing ~> closer.at = "closed"

(* The browser of the broker is sound: permits, temporary files and answers*)
(* survive every way out of a fetch.                                       *)
BrowserInv ==
  /\ BrowserTypeOK
  /\ BrowserShared
  /\ FilesOwned
  /\ NothingBlockedAnswered
=============================================================================
