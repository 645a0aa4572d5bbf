--------------------------- MODULE ManifestPinning ---------------------------
(***************************************************************************)
(* Which versions of an experiment's files a run reads.  The dispatch      *)
(* Lambda routes it (pmf_engine/control_plane/manifest_loader.py), through *)
(* one cache per kind of file, each with its own age; the versions it saw  *)
(* travel as pins in the job row and the container's environment           *)
(* (dispatch_handler.py); and the broker serves the run from them, and     *)
(* from its own cache of the index (broker/endpoints/                      *)
(* experiment_manifest.py), however much later the task starts.  The       *)
(* publisher, in another repository, uploads new versions meanwhile.       *)
(***************************************************************************)
EXTENDS Integers

CONSTANTS
  Run,
  Published,   \* the files the publisher uploads
  TTL,         \* DEFAULT_TTL_SECONDS and _INDEX_TTL, in ticks
  MaxVersion,  \* bound on the versions of a file
  MaxClock     \* bound on time.monotonic()

(* One attachment and one qa file stand for all of theirs.                 *)
File == {"manifest", "instruction", "attachment", "qa"}
Optional == {"attachment", "qa"}

ASSUME PublishedAssumption == Published \subseteq File
ASSUME BoundAssumption == TTL \in Nat /\ MaxVersion \in Nat /\ MaxClock \in Nat

VARIABLES
  store,     \* the newest version of each file in the bucket, 0 if none
  put,       \* when each version was put
  index,     \* index.json: "entry" if it has one, and what the entry lists
  clock,
  indexCache, pinCache,   \* the Lambda's caches
  pc, cur, entry, pins,   \* its invocation: next call, run, index entry, result
  reading,     \* of each run
  saw,       \* the versions that routed it
  pinned,       \* the versions its row and its environment pin, 0 for no pin
  brokerIndex,            \* the broker's _INDEX_CACHE
  got        \* the versions the broker served

bucketVars == <<store, put, index, clock>>
lambdaVars == <<indexCache, pinCache, pc, cur, entry, pins>>
readerVars == <<reading, saw, pinned, brokerIndex, got>>
pinningVars == <<bucketVars, lambdaVars, readerVars>>

Version == 0 .. MaxVersion
Lists == SUBSET ({"entry"} \cup Optional)
Never == -1
Nobody == -1
Cached(value) == [value : value, at : {Never} \cup 0 .. MaxClock]
NoPins == [f \in File |-> 0]

PinningTypeOK ==
  /\ store \in [File -> Version]
  /\ put \in [File -> [1 .. MaxVersion -> 0 .. MaxClock]]
  /\ index \in Lists /\ clock \in 0 .. MaxClock
  /\ indexCache \in Cached(Lists)
  /\ pinCache \in [File -> Cached(Version)]
  /\ pc \in File \cup {"idle", "enqueue"}
  /\ cur \in Run \cup {Nobody} /\ entry \in Lists /\ pins \in [File -> Version]
  /\ reading \in [Run -> {"waiting", "queued", "running", "failed"}]
  /\ saw \in [Run -> [File -> Version]] /\ pinned \in [Run -> [File -> Version]]
  /\ brokerIndex \in Cached(Lists)
  /\ got \in [Run -> [File -> Version]]

PinningInit ==
  /\ store = NoPins /\ index = {} /\ clock = 0
  /\ put = [f \in File |-> [v \in 1 .. MaxVersion |-> 0]]
  /\ indexCache = [value |-> {}, at |-> Never]
  /\ pinCache = [f \in File |-> [value |-> 0, at |-> Never]]
  /\ pc = "idle" /\ cur = Nobody /\ entry = {} /\ pins = NoPins
  /\ reading = [r \in Run |-> "waiting"]
  /\ saw = [r \in Run |-> NoPins] /\ pinned = [r \in Run |-> NoPins]
  /\ brokerIndex = [value |-> {}, at |-> Never]
  /\ got = [r \in Run |-> NoPins]

(* Variant for the mutation run: a tick late.                              *)
HitOneMore(c) == c.at # Never /\ clock - c.at <= TTL

Hit(c) == c.at # Never /\ clock - c.at < TTL

-----------------------------------------------------------------------------
(* The bucket                                                              *)

Publish(f) ==
  /\ f \in Published /\ store[f] < MaxVersion
  /\ store' = [store EXCEPT ![f] = @ + 1]
  /\ put' = [put EXCEPT ![f][store[f] + 1] = clock]
  /\ UNCHANGED <<index, clock, lambdaVars, readerVars>>

(* An entry comes after its files; an experiment is removed from the index *)
(* only, its files stay.                                                   *)
PublishIndex(lists) ==
  /\ lists # index
  /\ \A f \in lists \cap Optional : store[f] > 0
  /\ lists # {} => "entry" \in lists /\ store["manifest"] > 0
  /\ index' = lists
  /\ UNCHANGED <<store, put, clock, lambdaVars, readerVars>>

Tick ==
  /\ clock < MaxClock /\ clock' = clock + 1
  /\ UNCHANGED <<store, put, index, lambdaVars, readerVars>>

-----------------------------------------------------------------------------
(* routing_for.  A cache entry carries the time before its GET; read and   *)
(* time are one step here, which makes an entry live as long as it can.    *)

(* _load_index and _find_index_entry: an unknown experiment ends here.     *)
LoadIndex(r) ==
  /\ pc = "idle" /\ reading[r] = "waiting"
  /\ \/ Hit(indexCache) /\ UNCHANGED indexCache
     \/ ~Hit(indexCache) /\ indexCache' = [value |-> index, at |-> clock]
  /\ entry' = indexCache'.value
  /\ \/ "entry" \in entry' /\ pc' = "manifest" /\ cur' = r
     \/ "entry" \notin entry' /\ UNCHANGED <<pc, cur>>
  /\ pins' = NoPins
  /\ UNCHANGED <<bucketVars, pinCache, readerVars>>

After(f) ==
  CASE f = "manifest" -> "instruction" [] f = "instruction" -> "attachment"
    [] f = "attachment" -> "qa" [] f = "qa" -> "enqueue"

(* What a GET or HEAD finds: a version, or none for a missing object or    *)
(* one the index entry does not list.                                      *)
Found(f) == IF f \in Optional \ entry THEN 0 ELSE store[f]

Pin(f, v) ==
  /\ pins' = [pins EXCEPT ![f] = v]
  /\ pc' = After(f)

(* Variant: a hit renews the entry.                                        *)
FromCacheRenewed(f) ==
  /\ pc = f /\ Hit(pinCache[f])
  /\ f = "qa" => f \in entry
  /\ Pin(f, pinCache[f].value)
  /\ pinCache' = [pinCache EXCEPT ![f].at = clock]
  /\ UNCHANGED <<bucketVars, indexCache, cur, entry, readerVars>>

(* The answer comes from the cache whatever the entry lists now.           *)
FromCache(f) ==
  /\ pc = f /\ Hit(pinCache[f])
  /\ f = "qa" => f \in entry
  /\ Pin(f, pinCache[f].value)
  /\ UNCHANGED <<bucketVars, indexCache, pinCache, cur, entry, readerVars>>

(* _fetch_manifest, _fetch_instruction_version_id, _fetch_version_ids.  A  *)
(* missing manifest is malformed (see Abort); a missing instruction is no  *)
(* pin and is not cached; the empty map of an attachment that is missing   *)
(* or not listed is cached like any other.                                 *)
Fetch(f) ==
  /\ pc = f /\ ~Hit(pinCache[f])
  /\ f = "qa" => f \in entry
  /\ f = "manifest" => Found(f) > 0
  /\ Pin(f, Found(f))
  /\ pinCache' = IF f = "instruction" /\ Found(f) = 0 THEN pinCache
                 ELSE [pinCache EXCEPT ![f] = [value |-> Found(f), at |-> clock]]
  /\ UNCHANGED <<bucketVars, indexCache, cur, entry, readerVars>>

(* No qa_manifest_key: no pins, and the cache is not looked at.            *)
NoQa ==
  /\ pc = "qa" /\ "qa" \notin entry
  /\ Pin("qa", 0)
  /\ UNCHANGED <<bucketVars, indexCache, pinCache, cur, entry, readerVars>>

(* Variants: the pin is missing instead of empty; only the manifest's one  *)
(* is passed on.                                                           *)
JobPinsMissing(p) == [f \in File \ {"qa"} |-> p[f]]
JobPinsManifestOnly(p) ==
  [f \in File |-> IF f = "manifest" THEN p[f] ELSE 0]

(* The routing dict of the handler, which the scheduler gives launch_run   *)
(* as the experiment: it has no qa_version_ids.                            *)
JobPins(p) == [f \in File |-> IF f = "qa" THEN 0 ELSE p[f]]

Enqueue ==
  /\ pc = "enqueue"
  /\ reading' = [reading EXCEPT ![cur] = "queued"]
  /\ saw' = [saw EXCEPT ![cur] = pins]
  /\ pinned' = [pinned EXCEPT ![cur] = JobPins(pins)]
  /\ pc' = "idle" /\ cur' = Nobody /\ entry' = {} /\ pins' = NoPins
  /\ UNCHANGED <<bucketVars, indexCache, pinCache, brokerIndex, got>>

(* A call fails, or the invocation dies; SQS delivers the message again.   *)
Abort ==
  /\ pc # "idle"
  /\ pc' = "idle" /\ cur' = Nobody /\ entry' = {} /\ pins' = NoPins
  /\ UNCHANGED <<bucketVars, indexCache, pinCache, readerVars>>

-----------------------------------------------------------------------------
(* experiment_manifest.  The fetches run in parallel; a pinned one cannot  *)
(* change, so they are one step.                                           *)

(* _fetch_index_json, with its stale and its empty fallback.               *)
BrokerIndex(lists) ==
  \/ Hit(brokerIndex) /\ lists = brokerIndex.value /\ UNCHANGED brokerIndex
  \/ /\ ~Hit(brokerIndex)
     /\ lists = index /\ brokerIndex' = [value |-> index, at |-> clock]
  \/ /\ ~Hit(brokerIndex)
     /\ lists = brokerIndex.value /\ UNCHANGED brokerIndex

(* _fetch_object_cached of each spec: its pin, or else the latest.         *)
Served(r, lists) ==
  [f \in File |-> IF f \in Optional \ lists THEN 0
                  ELSE IF pinned[r][f] # 0 THEN pinned[r][f] ELSE store[f]]

(* Nothing is served without an index entry, or with an object missing.    *)
Serve(r) ==
  /\ reading[r] = "queued"
  /\ \E lists \in Lists :
       LET s == Served(r, lists)
       IN /\ BrokerIndex(lists)
          /\ \/ /\ "entry" \in lists
                /\ \A f \in File \ (Optional \ lists) : s[f] > 0
                /\ reading' = [reading EXCEPT ![r] = "running"]
                /\ got' = [got EXCEPT ![r] = s]
             \/ /\ \/ "entry" \notin lists
                   \/ \E f \in File \ (Optional \ lists) : s[f] = 0
                /\ reading' = [reading EXCEPT ![r] = "failed"]
                /\ UNCHANGED got
  /\ UNCHANGED <<bucketVars, lambdaVars, saw, pinned>>

PinningNext ==
  \/ \E f \in File : Publish(f) \/ FromCache(f) \/ Fetch(f)
  \/ \E lists \in Lists : PublishIndex(lists)
  \/ \E r \in Run : LoadIndex(r) \/ Serve(r)
  \/ NoQa \/ Enqueue \/ Abort \/ Tick

PinningSpec == PinningInit /\ [][PinningNext]_pinningVars

-----------------------------------------------------------------------------
(* Properties                                                              *)

(* Whatever was published between the dispatch and the start of the task,  *)
(* the run reads the manifest that validated it, and any instruction or    *)
(* attachment that the routing saw (control_plane/README.md: the exact     *)
(* manifest bytes it was validated against).                               *)
PinnedAsSeen ==
  \A r \in Run : reading[r] = "running" =>
    /\ saw[r]["manifest"] > 0 /\ got[r]["manifest"] = saw[r]["manifest"]
    /\ \A f \in File \ {"qa"} :
         saw[r][f] > 0 /\ got[r][f] > 0 => got[r][f] = saw[r][f]

(* The routing never uses a version that was superseded TTL or longer ago, *)
(* whatever the ages of the caches (a publish is in effect in about 60 s). *)
FreshRouting ==
  [][\A f \in File : \A v \in 1 .. MaxVersion :
       pc = f /\ pc' = After(f) /\ pins'[f] = v /\ v < store[f]
       => clock - put[f][v + 1] < TTL]_pinningVars

(* What FreshRouting rests on: a cached version was current at its time.   *)
CacheInv ==
  \A f \in File :
    LET c == pinCache[f]
    IN /\ c.at <= clock /\ c.value <= store[f]
       /\ c.at # Never /\ c.value > 0 /\ c.value < store[f]
          => c.at <= put[f][c.value + 1]

(* What PinnedAsSeen rests on: a cached manifest is one that was found,    *)
(* the run that is being routed has no row yet, and a row pins what its    *)
(* routing saw, but for the qa file.                                       *)
PinInv ==
  /\ PinnedAsSeen
  /\ pinCache["manifest"].at # Never => pinCache["manifest"].value > 0
  /\ pc # "idle" => cur \in Run /\ reading[cur] = "waiting"
  /\ pc \in (File \ {"manifest"}) \cup {"enqueue"} => pins["manifest"] > 0
  /\ \A r \in Run : reading[r] # "waiting" =>
       /\ saw[r]["manifest"] > 0
       /\ \A f \in File \ {"qa"} : pinned[r][f] = saw[r][f]

(* "QA gate version pins (contract G). Mirrors ATTACHMENT_VERSION_IDS      *)
(* exactly" (build_container_overrides): a publish cannot change the qa    *)
(* file the routing saw under a run.                                       *)
QaPinned ==
  \A r \in Run :
    saw[r]["qa"] > 0 /\ got[r]["qa"] > 0 => got[r]["qa"] = saw[r]["qa"]
=============================================================================
