---------------------------- MODULE PinningProofs ----------------------------
(***************************************************************************)
(* Theorems about ManifestPinning, for any runs, published files, bounds   *)
(* and TTL.                                                                *)
(***************************************************************************)
EXTENDS ManifestPinning, TLAPS

LEMMA AfterType == \A f \in File : After(f) \in File \cup {"idle", "enqueue"}
BY DEF After, File

(* One step of a pin lookup: where pins and pc go.                         *)
LEMMA PinType ==
  ASSUME PinningTypeOK, NEW f \in File, NEW v \in Version, Pin(f, v)
  PROVE  pins' \in [File -> Version] /\ pc' \in File \cup {"idle", "enqueue"}
BY AfterType DEF PinningTypeOK, Pin

LEMMA TypeInit == PinningInit => PinningTypeOK
BY BoundAssumption DEF PinningInit, PinningTypeOK, NoPins, Version, Cached, Lists

LEMMA TypeStep == PinningTypeOK /\ [PinningNext]_pinningVars => PinningTypeOK'
<1> SUFFICES ASSUME PinningTypeOK, [PinningNext]_pinningVars PROVE PinningTypeOK'
  OBVIOUS
<1> USE BoundAssumption
<1>1. ASSUME NEW f \in File, Publish(f) PROVE PinningTypeOK'
  <2>1. store[f] \in Version /\ store[f] + 1 \in 1 .. MaxVersion
    BY <1>1 DEF Publish, PinningTypeOK, Version
  <2> DEFINE n == store[f] + 1
  <2>2. store' \in [File -> Version]
    <3>1. n \in Version
      BY <2>1 DEF Version
    <3>2. store \in [File -> Version] /\ store' = [store EXCEPT ![f] = n]
      BY <1>1 DEF Publish, PinningTypeOK
    <3> HIDE DEF n
    <3> QED
      BY <3>1, <3>2
  <2>3. put' \in [File -> [1 .. MaxVersion -> 0 .. MaxClock]]
    BY <1>1, <2>1 DEF Publish, PinningTypeOK
  <2> QED
    BY <1>1, <2>2, <2>3 DEF Publish, PinningTypeOK, lambdaVars, readerVars
<1>2. ASSUME NEW lists \in Lists, PublishIndex(lists) PROVE PinningTypeOK'
  BY <1>2 DEF PublishIndex, PinningTypeOK, lambdaVars, readerVars
<1>3. CASE Tick
  BY <1>3 DEF Tick, PinningTypeOK, lambdaVars, readerVars, Cached
<1>4. ASSUME NEW r \in Run, LoadIndex(r) PROVE PinningTypeOK'
  <2>1. indexCache' \in Cached(Lists)
    BY <1>4 DEF LoadIndex, PinningTypeOK, Cached
  <2>2. entry' \in Lists
    BY <1>4, <2>1 DEF LoadIndex, Cached
  <2>3. pins' \in [File -> Version]
    BY <1>4 DEF LoadIndex, NoPins, Version
  <2>4. pc' \in File \cup {"idle", "enqueue"} /\ cur' \in Run \cup {Nobody}
    BY <1>4 DEF LoadIndex, PinningTypeOK, File
  <2> QED
    BY <1>4, <2>1, <2>2, <2>3, <2>4 DEF LoadIndex, PinningTypeOK, bucketVars, readerVars
<1>5. ASSUME NEW f \in File, FromCache(f) PROVE PinningTypeOK'
  <2>1. pinCache[f].value \in Version
    BY DEF PinningTypeOK, Cached
  <2> QED
    BY <1>5, <2>1, PinType DEF FromCache, PinningTypeOK, bucketVars, readerVars
<1>6. ASSUME NEW f \in File, Fetch(f) PROVE PinningTypeOK'
  <2>1. Found(f) \in Version
    BY DEF Found, PinningTypeOK, Version
  <2>2. [value |-> Found(f), at |-> clock] \in Cached(Version)
    BY <2>1 DEF PinningTypeOK, Cached
  <2>3. pinCache' \in [File -> Cached(Version)]
    BY <1>6, <2>2 DEF Fetch, PinningTypeOK
  <2> QED
    BY <1>6, <2>1, <2>3, PinType DEF Fetch, PinningTypeOK, bucketVars, readerVars
<1>7. CASE NoQa
  <2>1. "qa" \in File /\ 0 \in Version
    BY DEF File, Version
  <2> QED
    BY <1>7, <2>1, PinType DEF NoQa, PinningTypeOK, bucketVars, readerVars
<1>8. CASE Enqueue
  <2>1. JobPins(pins) \in [File -> Version]
    BY DEF JobPins, PinningTypeOK, Version
  <2>2. NoPins \in [File -> Version] /\ {} \in Lists
    BY DEF NoPins, Version, Lists
  <2>3. reading' \in [Run -> {"waiting", "queued", "running", "failed"}]
    BY <1>8 DEF Enqueue, PinningTypeOK
  <2>4. saw' \in [Run -> [File -> Version]]
    BY <1>8 DEF Enqueue, PinningTypeOK
  <2>5. pinned' \in [Run -> [File -> Version]]
    BY <1>8, <2>1 DEF Enqueue, PinningTypeOK
  <2> QED
    BY <1>8, <2>2, <2>3, <2>4, <2>5 DEF Enqueue, PinningTypeOK, bucketVars
<1>9. CASE Abort
  <2>1. NoPins \in [File -> Version] /\ {} \in Lists
    BY DEF NoPins, Version, Lists
  <2> QED
    BY <1>9, <2>1 DEF Abort, PinningTypeOK, bucketVars, readerVars
<1>10. ASSUME NEW r \in Run, Serve(r) PROVE PinningTypeOK'
  <2>1. PICK lists \in Lists :
          /\ BrokerIndex(lists)
          /\ \/ /\ reading' = [reading EXCEPT ![r] = "running"]
                /\ got' = [got EXCEPT ![r] = Served(r, lists)]
             \/ reading' = [reading EXCEPT ![r] = "failed"] /\ UNCHANGED got
    BY <1>10 DEF Serve
  <2>2. brokerIndex' \in Cached(Lists)
    BY <2>1 DEF BrokerIndex, PinningTypeOK, Cached
  <2>3. Served(r, lists) \in [File -> Version]
    BY DEF Served, PinningTypeOK, Version
  <2>4. got' \in [Run -> [File -> Version]]
    BY <2>1, <2>3 DEF PinningTypeOK
  <2>5. reading' \in [Run -> {"waiting", "queued", "running", "failed"}]
    BY <2>1 DEF PinningTypeOK
  <2> QED
    BY <1>10, <2>2, <2>4, <2>5 DEF Serve, PinningTypeOK, bucketVars, lambdaVars
<1>11. CASE UNCHANGED pinningVars
  BY <1>11 DEF PinningTypeOK, pinningVars, bucketVars, lambdaVars, readerVars
<1> QED
  BY <1>1, <1>2, <1>3, <1>4, <1>5, <1>6, <1>7, <1>8, <1>9, <1>10, <1>11 DEF PinningNext

(* Type correctness of the caches, the pins and the rows.                  *)
THEOREM PinningTypeCorrect == PinningSpec => []PinningTypeOK
BY TypeInit, TypeStep, PTL DEF PinningSpec

-----------------------------------------------------------------------------
(* The caches                                                              *)

LEMMA CacheStep == PinningTypeOK /\ CacheInv /\ [PinningNext]_pinningVars => CacheInv'
<1> SUFFICES ASSUME PinningTypeOK, CacheInv, [PinningNext]_pinningVars PROVE CacheInv'
  OBVIOUS
<1> USE BoundAssumption
(* All but three actions leave the caches, the bucket and the clock alone. *)
<1>1. ASSUME UNCHANGED <<store, put, clock, pinCache>> PROVE CacheInv'
  BY <1>1 DEF CacheInv
<1>2. ASSUME NEW f \in File, Publish(f) PROVE CacheInv'
  <2> SUFFICES ASSUME NEW g \in File
               PROVE  /\ pinCache[g].at <= clock /\ pinCache[g].value <= store'[g]
                      /\ pinCache[g].at # Never /\ pinCache[g].value > 0
                         /\ pinCache[g].value < store'[g]
                         => pinCache[g].at <= put'[g][pinCache[g].value + 1]
    BY <1>2 DEF CacheInv, Publish, lambdaVars
  <2>1. CASE g # f
    BY <1>2, <2>1 DEF Publish, CacheInv, PinningTypeOK
  <2>2. CASE g = f
    <3>1. store[f] \in Nat /\ store'[f] = store[f] + 1 /\ store[f] + 1 \in 1 .. MaxVersion
      BY <1>2 DEF Publish, PinningTypeOK, Version
    <3>2. pinCache[f].at <= clock /\ pinCache[f].value <= store[f]
      BY DEF CacheInv
    <3>3. pinCache[f].value \in Version /\ pinCache[f].at \in {Never} \cup 0 .. MaxClock
      BY DEF PinningTypeOK, Cached
    <3>4. \A v \in 1 .. MaxVersion :
            put'[f][v] = IF v = store[f] + 1 THEN clock ELSE put[f][v]
      BY <1>2, <3>1 DEF Publish, PinningTypeOK
    <3>5. CASE pinCache[f].value = store[f]
      BY <2>2, <3>1, <3>2, <3>4, <3>5
    <3>6. CASE pinCache[f].value < store[f]
      <4>1. ASSUME pinCache[f].at # Never, pinCache[f].value > 0
            PROVE  pinCache[f].at <= put[f][pinCache[f].value + 1]
        BY <3>6, <4>1 DEF CacheInv
      <4>2. pinCache[f].value > 0
            => put'[f][pinCache[f].value + 1] = put[f][pinCache[f].value + 1]
        BY <3>1, <3>3, <3>4, <3>6 DEF Version
      <4> QED
        BY <2>2, <3>1, <3>2, <3>3, <4>1, <4>2 DEF Version
    <3> QED
      BY <3>1, <3>2, <3>3, <3>5, <3>6 DEF Version
  <2> QED
    BY <2>1, <2>2
<1>3. CASE Tick
  <2> SUFFICES ASSUME NEW g \in File PROVE pinCache[g].at <= clock + 1
    BY <1>3 DEF Tick, CacheInv, lambdaVars
  <2>1. pinCache[g] \in Cached(Version) /\ clock \in 0 .. MaxClock
    BY DEF PinningTypeOK
  <2>2. pinCache[g].at \in Int /\ clock \in Int
    BY <2>1 DEF Cached, Never
  <2>3. pinCache[g].at <= clock
    BY DEF CacheInv
  <2> QED
    BY <2>2, <2>3
<1>4. ASSUME NEW f \in File, Fetch(f) PROVE CacheInv'
  <2>1. Found(f) = 0 \/ Found(f) = store[f]
    BY DEF Found
  <2>2. store[f] \in Nat /\ clock \in Nat
    BY DEF PinningTypeOK, Version
  <2>3. UNCHANGED <<store, put, clock>>
    BY <1>4 DEF Fetch, bucketVars
  <2>4. CASE UNCHANGED pinCache
    BY <1>1, <2>3, <2>4
  <2>5. CASE pinCache' = [pinCache EXCEPT ![f] = [value |-> Found(f), at |-> clock]]
    <3> SUFFICES ASSUME NEW g \in File
                 PROVE  /\ pinCache'[g].at <= clock /\ pinCache'[g].value <= store[g]
                        /\ pinCache'[g].at # Never /\ pinCache'[g].value > 0
                           /\ pinCache'[g].value < store[g]
                           => pinCache'[g].at <= put[g][pinCache'[g].value + 1]
      BY <2>3 DEF CacheInv
    <3>1. CASE g # f
      BY <2>5, <3>1 DEF CacheInv, PinningTypeOK
    <3>2. CASE g = f
      BY <2>1, <2>2, <2>5, <3>2 DEF PinningTypeOK
    <3> QED
      BY <3>1, <3>2
  <2> QED
    BY <1>4, <2>4, <2>5 DEF Fetch
<1>5. ASSUME NEW lists \in Lists, PublishIndex(lists) PROVE CacheInv'
  BY <1>1, <1>5 DEF PublishIndex, lambdaVars
<1>6. ASSUME NEW f \in File, FromCache(f) PROVE CacheInv'
  BY <1>1, <1>6 DEF FromCache, bucketVars
<1>7. ASSUME NEW r \in Run, LoadIndex(r) PROVE CacheInv'
  BY <1>1, <1>7 DEF LoadIndex, bucketVars
<1>8. CASE NoQa
  BY <1>1, <1>8 DEF NoQa, bucketVars
<1>9. CASE Enqueue
  BY <1>1, <1>9 DEF Enqueue, bucketVars
<1>10. CASE Abort
  BY <1>1, <1>10 DEF Abort, bucketVars
<1>11. ASSUME NEW r \in Run, Serve(r) PROVE CacheInv'
  BY <1>1, <1>11 DEF Serve, bucketVars, lambdaVars
<1>12. CASE UNCHANGED pinningVars
  BY <1>1, <1>12 DEF pinningVars, bucketVars, lambdaVars
<1> QED
  BY <1>2, <1>3, <1>4, <1>5, <1>6, <1>7, <1>8, <1>9, <1>10, <1>11, <1>12 DEF PinningNext

LEMMA CacheInit == PinningInit => CacheInv
BY BoundAssumption DEF PinningInit, CacheInv, NoPins, Never

(* A cached version was current when it was read.                          *)
THEOREM CachesCurrent == PinningSpec => []CacheInv
<1>1. PinningInit => PinningTypeOK /\ CacheInv
  BY TypeInit, CacheInit
<1>2. (PinningTypeOK /\ CacheInv) /\ [PinningNext]_pinningVars => (PinningTypeOK /\ CacheInv)'
  BY TypeStep, CacheStep
<1> QED
  BY <1>1, <1>2, PTL DEF PinningSpec

-----------------------------------------------------------------------------
(* Freshness.  A version that is not the newest can only come from a cache *)
(* that was filled before it was superseded and has not expired since.     *)

LEMMA FreshStep ==
  ASSUME PinningTypeOK, CacheInv, [PinningNext]_pinningVars, NEW f \in File, NEW v \in 1 .. MaxVersion,
         pc = f, pc' = After(f), pins'[f] = v, v < store[f]
  PROVE  clock - put[f][v + 1] < TTL
<1> USE BoundAssumption
<1>1. pc # After(f) /\ After(f) # "idle" /\ pc \in File /\ pc # "idle"
  BY DEF After, File
<1>2. store[f] \in Nat /\ v + 1 \in 1 .. MaxVersion /\ v > 0
  BY DEF PinningTypeOK, Version
<1>3. put[f][v + 1] \in Int /\ clock \in Int
  BY <1>2 DEF PinningTypeOK
<1>4. ASSUME NEW g \in File, FromCache(g) PROVE clock - put[f][v + 1] < TTL
  <2>1. g = f
    BY <1>4 DEF FromCache
  <2>2. pinCache[f].value = v
    BY <1>4, <2>1 DEF FromCache, Pin, PinningTypeOK
  <2>3. pinCache[f].at # Never /\ clock - pinCache[f].at < TTL
    BY <1>4, <2>1 DEF FromCache, Hit
  <2>4. pinCache[f].at <= put[f][v + 1]
    BY <1>2, <2>2, <2>3 DEF CacheInv
  <2>5. pinCache[f].at \in Int
    BY DEF PinningTypeOK, Cached, Never
  <2> QED
    BY <1>3, <2>3, <2>4, <2>5
<1>5. ASSUME NEW g \in File, Fetch(g) PROVE FALSE
  <2>1. g = f
    BY <1>5 DEF Fetch
  <2>2. v = Found(f)
    BY <1>5, <2>1 DEF Fetch, Pin, PinningTypeOK
  <2> QED
    BY <1>2, <2>2 DEF Found
<1>6. CASE NoQa
  <2>1. f = "qa" /\ v = 0
    BY <1>6 DEF NoQa, Pin, PinningTypeOK
  <2> QED
    BY <1>2, <2>1
<1>7. ASSUME NEW g \in File, Publish(g) PROVE FALSE
  BY <1>1, <1>7 DEF Publish, lambdaVars
<1>8. ASSUME NEW lists \in Lists, PublishIndex(lists) PROVE FALSE
  BY <1>1, <1>8 DEF PublishIndex, lambdaVars
<1>9. CASE Tick
  BY <1>1, <1>9 DEF Tick, lambdaVars
<1>10. ASSUME NEW r \in Run, LoadIndex(r) PROVE FALSE
  BY <1>1, <1>10 DEF LoadIndex
<1>11. CASE Enqueue
  BY <1>11 DEF Enqueue, File
<1>12. CASE Abort
  BY <1>1, <1>12 DEF Abort
<1>13. ASSUME NEW r \in Run, Serve(r) PROVE FALSE
  BY <1>1, <1>13 DEF Serve, lambdaVars
<1>14. CASE UNCHANGED pinningVars
  BY <1>1, <1>14 DEF pinningVars, lambdaVars
<1> QED
  BY <1>4, <1>5, <1>6, <1>7, <1>8, <1>9, <1>10, <1>11, <1>12, <1>13, <1>14 DEF PinningNext

(* The routing never uses a version that was superseded TTL or longer ago. *)
THEOREM RoutingFresh == PinningSpec => FreshRouting
<1> DEFINE Fresh ==
      \A f \in File : \A v \in 1 .. MaxVersion :
        pc = f /\ pc' = After(f) /\ pins'[f] = v /\ v < store[f]
        => clock - put[f][v + 1] < TTL
<1>1. PinningTypeOK /\ CacheInv /\ [PinningNext]_pinningVars => [Fresh]_pinningVars
  BY FreshStep
<1>2. PinningSpec => [][Fresh]_pinningVars
  BY <1>1, PinningTypeCorrect, CachesCurrent, PTL DEF PinningSpec
<1> QED
  BY <1>2 DEF FreshRouting

-----------------------------------------------------------------------------
(* The pins                                                                *)

LEMMA PinInit == PinningInit => PinInv
BY DEF PinningInit, PinInv, PinnedAsSeen, Never, File

(* The parts of PinInv that are about the rows and the routing.            *)
RowPins ==
  \A r \in Run : reading[r] # "waiting" =>
    /\ saw[r]["manifest"] > 0
    /\ \A f \in File \ {"qa"} : pinned[r][f] = saw[r][f]
Routed ==
  /\ pinCache["manifest"].at # Never => pinCache["manifest"].value > 0
  /\ pc # "idle" => cur \in Run /\ reading[cur] = "waiting"
  /\ pc \in (File \ {"manifest"}) \cup {"enqueue"} => pins["manifest"] > 0

(* A lookup keeps the manifest's pin once it is made.                      *)
LEMMA LookupKeepsRouted ==
  ASSUME PinningTypeOK, Routed, NEW f \in File, NEW v \in Version, pc = f, Pin(f, v),
         f = "manifest" => v > 0,
         UNCHANGED <<cur, reading>>
  PROVE  /\ pc' # "idle" => cur' \in Run /\ reading'[cur'] = "waiting"
         /\ pins'["manifest"] > 0
<1>1. pc # "idle" /\ "manifest" \in File
  BY DEF File
<1>2. CASE f = "manifest"
  BY <1>1, <1>2 DEF Pin, Routed, PinningTypeOK
<1>3. CASE f # "manifest"
  BY <1>1, <1>3 DEF Pin, Routed, PinningTypeOK
<1> QED
  BY <1>2, <1>3

LEMMA PinStep == PinningTypeOK /\ PinInv /\ [PinningNext]_pinningVars => PinInv'
<1> SUFFICES ASSUME PinningTypeOK, PinInv, [PinningNext]_pinningVars PROVE PinInv'
  OBVIOUS
<1> USE BoundAssumption
<1>a. PinnedAsSeen /\ Routed /\ RowPins
  BY DEF PinInv, Routed, RowPins
<1>b. ASSUME PinnedAsSeen', Routed', RowPins' PROVE PinInv'
  BY <1>b DEF PinInv, Routed, RowPins
<1>c. ASSUME UNCHANGED <<reading, saw, pinned, got>> PROVE PinnedAsSeen' /\ RowPins'
  BY <1>a, <1>c DEF PinnedAsSeen, RowPins
<1>d. ASSUME UNCHANGED <<pinCache, pc, cur, reading, pins>> PROVE Routed'
  BY <1>a, <1>d DEF Routed
<1>1. ASSUME NEW f \in File, Publish(f) PROVE PinInv'
  BY <1>1, <1>b, <1>c, <1>d DEF Publish, lambdaVars, readerVars
<1>2. ASSUME NEW lists \in Lists, PublishIndex(lists) PROVE PinInv'
  BY <1>2, <1>b, <1>c, <1>d DEF PublishIndex, lambdaVars, readerVars
<1>3. CASE Tick
  BY <1>3, <1>b, <1>c, <1>d DEF Tick, lambdaVars, readerVars
<1>4. ASSUME NEW r \in Run, LoadIndex(r) PROVE PinInv'
  <2>1. Routed'
    BY <1>4, <1>a DEF LoadIndex, Routed, readerVars, File
  <2> QED
    BY <1>4, <2>1, <1>b, <1>c DEF LoadIndex, readerVars
<1>5. ASSUME NEW f \in File, FromCache(f) PROVE PinInv'
  <2>1. /\ pc = f /\ Pin(f, pinCache[f].value)
        /\ UNCHANGED <<cur, pinCache>> /\ UNCHANGED <<reading, saw, pinned, got>>
    BY <1>5 DEF FromCache, readerVars
  <2>2. pinCache[f].value \in Version
    BY DEF PinningTypeOK, Cached
  <2>3. f = "manifest" => pinCache[f].value > 0
    BY <1>5, <1>a DEF FromCache, Hit, Routed
  <2>4. /\ pc' # "idle" => cur' \in Run /\ reading'[cur'] = "waiting"
        /\ pins'["manifest"] > 0
    BY <2>1, <2>2, <2>3, <1>a, LookupKeepsRouted
  <2>5. Routed'
    BY <2>1, <2>4, <1>a DEF Routed
  <2> QED
    BY <2>1, <2>5, <1>b, <1>c
<1>6. ASSUME NEW f \in File, Fetch(f) PROVE PinInv'
  <2>1. /\ pc = f /\ Pin(f, Found(f)) /\ (f = "manifest" => Found(f) > 0)
        /\ UNCHANGED cur /\ UNCHANGED <<reading, saw, pinned, got>>
    BY <1>6 DEF Fetch, readerVars
  <2>2. Found(f) \in Version
    BY DEF Found, PinningTypeOK, Version
  <2>3. /\ pc' # "idle" => cur' \in Run /\ reading'[cur'] = "waiting"
        /\ pins'["manifest"] > 0
    BY <2>1, <2>2, <1>a, LookupKeepsRouted
  <2>4. pinCache'["manifest"].at # Never => pinCache'["manifest"].value > 0
    <3>1. pinCache["manifest"].at # Never => pinCache["manifest"].value > 0
      BY <1>a DEF Routed
    <3>2. CASE f = "manifest"
      <4>1. /\ pinCache' = [pinCache EXCEPT ![f] = [value |-> Found(f), at |-> clock]]
            /\ pinCache \in [File -> Cached(Version)]
        BY <1>6, <3>2 DEF Fetch, PinningTypeOK
      <4> QED
        BY <2>1, <3>2, <4>1
    <3>3. CASE f # "manifest"
      <4>1. pinCache'["manifest"] = pinCache["manifest"]
        BY <1>6, <3>3 DEF Fetch, PinningTypeOK, File
      <4> QED
        BY <3>1, <4>1
    <3> QED
      BY <3>2, <3>3
  <2>5. Routed'
    BY <2>3, <2>4 DEF Routed
  <2> QED
    BY <2>1, <2>5, <1>b, <1>c
<1>7. CASE NoQa
  <2>1. /\ pc = "qa" /\ Pin("qa", 0) /\ 0 \in Version /\ "qa" \in File
        /\ UNCHANGED <<cur, pinCache>> /\ UNCHANGED <<reading, saw, pinned, got>>
    BY <1>7 DEF NoQa, readerVars, Version, File
  <2>2. /\ pc' # "idle" => cur' \in Run /\ reading'[cur'] = "waiting"
        /\ pins'["manifest"] > 0
    BY <2>1, <1>a, LookupKeepsRouted
  <2>3. Routed'
    BY <2>1, <2>2, <1>a DEF Routed
  <2> QED
    BY <2>1, <2>3, <1>b, <1>c
<1>8. CASE Enqueue
  <2>1. cur \in Run /\ reading[cur] = "waiting" /\ pins["manifest"] > 0
    BY <1>8, <1>a DEF Enqueue, Routed
  <2>2. /\ reading' = [reading EXCEPT ![cur] = "queued"]
        /\ saw' = [saw EXCEPT ![cur] = pins]
        /\ pinned' = [pinned EXCEPT ![cur] = JobPins(pins)]
        /\ pc' = "idle" /\ UNCHANGED got /\ UNCHANGED pinCache
    BY <1>8 DEF Enqueue
  <2>3. \A r \in Run : r # cur => /\ reading'[r] = reading[r] /\ saw'[r] = saw[r]
                                  /\ pinned'[r] = pinned[r]
    BY <2>2 DEF PinningTypeOK
  <2>4. reading'[cur] = "queued" /\ saw'[cur] = pins /\ pinned'[cur] = JobPins(pins)
    BY <2>1, <2>2 DEF PinningTypeOK
  <2>5. \A f \in File \ {"qa"} : JobPins(pins)[f] = pins[f]
    BY DEF JobPins
  <2>6. PinnedAsSeen'
    <3> SUFFICES ASSUME NEW r \in Run, reading'[r] = "running"
                 PROVE  /\ saw'[r]["manifest"] > 0
                        /\ got'[r]["manifest"] = saw'[r]["manifest"]
                        /\ \A f \in File \ {"qa"} :
                             saw'[r][f] > 0 /\ got'[r][f] > 0 => got'[r][f] = saw'[r][f]
      BY DEF PinnedAsSeen
    <3>1. r # cur
      BY <2>4
    <3> QED
      BY <2>2, <2>3, <3>1, <1>a DEF PinnedAsSeen
  <2>7. RowPins'
    <3> SUFFICES ASSUME NEW r \in Run, reading'[r] # "waiting"
                 PROVE  /\ saw'[r]["manifest"] > 0
                        /\ \A f \in File \ {"qa"} : pinned'[r][f] = saw'[r][f]
      BY DEF RowPins
    <3>1. CASE r = cur
      BY <2>1, <2>4, <2>5, <3>1
    <3>2. CASE r # cur
      BY <2>3, <3>2, <1>a DEF RowPins
    <3> QED
      BY <3>1, <3>2
  <2>8. Routed'
    BY <2>2, <1>a DEF Routed, File
  <2> QED
    BY <2>6, <2>7, <2>8, <1>b
<1>9. CASE Abort
  <2>1. Routed'
    BY <1>9, <1>a DEF Abort, Routed, File
  <2> QED
    BY <1>9, <2>1, <1>b, <1>c DEF Abort, readerVars
<1>10. ASSUME NEW r \in Run, Serve(r) PROVE PinInv'
  <2>1. PICK lists \in Lists :
          \/ /\ reading' = [reading EXCEPT ![r] = "running"]
             /\ got' = [got EXCEPT ![r] = Served(r, lists)]
          \/ reading' = [reading EXCEPT ![r] = "failed"] /\ UNCHANGED got
    BY <1>10 DEF Serve
  <2>2. reading[r] = "queued" /\ UNCHANGED <<saw, pinned, pinCache, pc, cur, pins>>
    BY <1>10 DEF Serve, lambdaVars
  <2>3. reading'[r] # "waiting" /\ \A s \in Run : s # r => reading'[s] = reading[s]
    BY <2>1 DEF PinningTypeOK
  <2>4. Routed'
    BY <2>2, <2>3, <1>a DEF Routed
  <2>5. RowPins'
    BY <2>2, <2>3, <1>a DEF RowPins
  <2>6. PinnedAsSeen'
    <3> SUFFICES ASSUME NEW s \in Run, reading'[s] = "running"
                 PROVE  /\ saw[s]["manifest"] > 0
                        /\ got'[s]["manifest"] = saw[s]["manifest"]
                        /\ \A f \in File \ {"qa"} :
                             saw[s][f] > 0 /\ got'[s][f] > 0 => got'[s][f] = saw[s][f]
      BY <2>2 DEF PinnedAsSeen
    <3>1. CASE s # r
      <4>1. got'[s] = got[s]
        BY <2>1, <3>1 DEF PinningTypeOK
      <4> QED
        BY <2>3, <3>1, <4>1, <1>a DEF PinnedAsSeen
    <3>2. CASE s = r
      <4>1. got'[r] = Served(r, lists)
        BY <2>1, <3>2 DEF PinningTypeOK
      <4>2. saw[r]["manifest"] > 0 /\ \A f \in File \ {"qa"} : pinned[r][f] = saw[r][f]
        BY <2>2, <1>a DEF RowPins
      <4>3. \A f \in File \ {"qa"} : saw[r][f] > 0 /\ Served(r, lists)[f] > 0
                                    => Served(r, lists)[f] = saw[r][f]
        BY <4>2 DEF Served
      <4>4. Served(r, lists)["manifest"] = saw[r]["manifest"]
        BY <4>2 DEF Served, File, Optional
      <4> QED
        BY <3>2, <4>1, <4>2, <4>3, <4>4
    <3> QED
      BY <3>1, <3>2
  <2> QED
    BY <2>4, <2>5, <2>6, <1>b
<1>11. CASE UNCHANGED pinningVars
  BY <1>11, <1>b, <1>c, <1>d DEF pinningVars, lambdaVars, readerVars
<1> QED
  BY <1>1, <1>2, <1>3, <1>4, <1>5, <1>6, <1>7, <1>8, <1>9, <1>10, <1>11 DEF PinningNext

(* What a row pins is what its routing saw, for every number of runs.      *)
THEOREM PinsInductive == PinningSpec => []PinInv
<1>1. PinningInit => PinningTypeOK /\ PinInv
  BY TypeInit, PinInit
<1>2. (PinningTypeOK /\ PinInv) /\ [PinningNext]_pinningVars => (PinningTypeOK /\ PinInv)'
  BY TypeStep, PinStep
<1> QED
  BY <1>1, <1>2, PTL DEF PinningSpec

(* A run reads the manifest that validated it, and every instruction and   *)
(* attachment its routing saw, however late it starts.                     *)
THEOREM PinsHold == PinningSpec => []PinnedAsSeen
<1>1. PinInv => PinnedAsSeen
  BY DEF PinInv
<1> QED
  BY <1>1, PinsInductive, PTL
=============================================================================
