--------------------------- MODULE ServicesProofs ---------------------------
(***************************************************************************)
(* Theorems about the matchers and their files, the analyses of polls and  *)
(* surveys, and the instance that composes all programs around the runs.   *)
(* Those of the browser are in BrowserProofs, those of the tickets, the    *)
(* bot, the clients and the plan in AgentsProofs.                          *)
(***************************************************************************)
EXTENDS MCServices, BrowserProofs, AgentsProofs, SequenceTheorems, WellFoundedInduction

-----------------------------------------------------------------------------
(* The partitions of the DDHQ results                                      *)

PartitionKey ==
  [kind : {"standard", "range", "stateless"}, date : Day, state : State \cup {NoState}, type : ElectionType]

(* A dictionary: a partition once, at most MaxCacheSize of them, each with *)
(* the rows it has in the file.                                            *)
CacheFits(cache) ==
  /\ cache \in Seq(Entry) /\ Len(cache) <= MaxCacheSize
  /\ \A i, j \in DOMAIN cache : cache[i].key = cache[j].key => i = j
  /\ \A i \in DOMAIN cache : cache[i].rows = PartitionRows(cache[i].key)

(* What was found last is at the end; what is remembered as empty is.      *)
CacheIInv ==
  /\ ddhq \in SUBSET DdhqRow
  /\ CacheFits(indices) /\ indices = records
  /\ empty \in SUBSET [kind : {"standard"}, date : Day, state : State, type : ElectionType]
  /\ \A k \in empty : PartitionRows(k) = {}
  /\ found.rows = PartitionRows(found.key)
  /\ found.rows # {} => Len(indices) > 0 /\ indices[Len(indices)].key = found.key

LEMMA CacheSeq ==
  ASSUME NEW cache \in Seq(Entry)
  PROVE  DOMAIN cache = 1 .. Len(cache) /\ Len(cache) \in Nat /\ \A i \in 1 .. Len(cache) : cache[i] \in Entry
BY LenProperties, ElementOfSeq

LEMMA EmptyCache == <<>> \in Seq(Entry) /\ Len(<<>>) = 0 /\ DOMAIN <<>> = {}
BY EmptySeq

LEMMA NoKeyNoRows == PartitionRows(NoKey) = {}
BY DEF PartitionRows, NoKey

LEMMA CacheStart == CacheInit => CacheIInv
<1>1. \A f \in DdhqFiles : f \in SUBSET DdhqRow
  BY DEF DdhqFiles
<1>2. CacheFits(<<>>)
  BY EmptyCache, CacheAssumption DEF CacheFits
<1>3. CacheInit => found.rows = {} /\ found.key = NoKey
  BY DEF CacheInit
<1>4. QED
  BY <1>1, <1>2, <1>3, NoKeyNoRows DEF CacheInit, CacheIInv

-----------------------------------------------------------------------------

(* A partition that is there is moved to the end, and nothing else goes.   *)
LEMMA Moved ==
  ASSUME NEW cache, CacheFits(cache), NEW k, Cached(cache, k)
  PROVE  /\ CacheFits(MoveToEnd(cache, k))
         /\ Len(MoveToEnd(cache, k)) > 0 /\ MoveToEnd(cache, k)[Len(MoveToEnd(cache, k))].key = k
         /\ \A x : Cached(cache, x) => Cached(MoveToEnd(cache, k), x)
         /\ EntryAt(cache, k).rows = PartitionRows(k)
<1>1. /\ cache \in Seq(Entry) /\ DOMAIN cache = 1 .. Len(cache) /\ Len(cache) \in Nat
      /\ \A i \in 1 .. Len(cache) : cache[i] \in Entry
  BY CacheSeq DEF CacheFits
<1>2. PICK p \in 1 .. Len(cache) : p = PlaceOf(cache, k) /\ cache[p].key = k
  BY <1>1 DEF Cached, PlaceOf
<1>3. PICK n \in Nat : n = Len(cache) /\ DOMAIN cache = 1 .. n /\ p \in 1 .. n /\ n > 0
  <2>1. PICK n \in Nat : n = Len(cache)
    BY <1>1
  <2>2. p \in 1 .. n /\ DOMAIN cache = 1 .. n
    BY <1>1, <2>1
  <2>3. n > 0
    BY <2>1, <2>2
  <2>4. QED
    BY <2>1, <2>2, <2>3
<1>4. PICK moved : moved = MoveToEnd(cache, k)
  OBVIOUS
<1>5. /\ DOMAIN moved = 1 .. n
      /\ \A i \in 1 .. n : /\ i < p => moved[i] = cache[i]
                           /\ i >= p /\ i < n => moved[i] = cache[i + 1]
                           /\ i = n => moved[i] = cache[p]
  <2>1. EntryAt(cache, k) = cache[p]
    BY <1>2 DEF EntryAt
  <2>2. moved = [i \in 1 .. n |-> IF i < p THEN cache[i] ELSE IF i < n THEN cache[i + 1] ELSE cache[p]]
    BY <1>1, <1>2, <1>3, <1>4, <2>1 DEF MoveToEnd
  <2>3. QED
    BY <1>2, <1>3, <2>2
<1>6. \A i \in 1 .. n : i < n => i + 1 \in 1 .. n
  BY <1>3
<1>8. \A i \in 1 .. n : \E j \in 1 .. n : moved[i] = cache[j]
  BY <1>2, <1>3, <1>5, <1>6
<1>7. moved \in Seq(Entry) /\ Len(moved) = n
  <2>1. \A i \in 1 .. n : moved[i] \in Entry
    BY <1>1, <1>3, <1>8
  <2>2. moved = [i \in 1 .. n |-> moved[i]]
    BY <1>2, <1>3, <1>4, <1>1 DEF MoveToEnd
  <2>3. moved \in [1 .. n -> Entry]
    BY <2>1, <2>2
  <2>4. QED
    BY <2>3, LenProperties, SeqDef
<1>9. \A i, j \in 1 .. n : moved[i].key = moved[j].key => i = j
  <2>1. \A i, j \in 1 .. n : cache[i].key = cache[j].key => i = j
    BY <1>1, <1>3 DEF CacheFits
  <2>2. QED
    BY <1>2, <1>3, <1>5, <1>6, <2>1
<1>10. CacheFits(moved)
  <2>1. \A i \in 1 .. n : moved[i].rows = PartitionRows(moved[i].key)
    <3>1. \A j \in 1 .. n : cache[j].rows = PartitionRows(cache[j].key)
      BY <1>3 DEF CacheFits
    <3>2. SUFFICES ASSUME NEW i \in 1 .. n PROVE moved[i].rows = PartitionRows(moved[i].key)
      OBVIOUS
    <3>3. PICK j \in 1 .. n : moved[i] = cache[j]
      BY <1>8
    <3>4. QED
      BY <3>1, <3>3
  <2>2. n <= MaxCacheSize
    BY <1>3 DEF CacheFits
  <2>3. QED
    BY <1>5, <1>7, <1>9, <2>1, <2>2 DEF CacheFits
<1>11. \A j \in 1 .. n : \E i \in 1 .. n : moved[i] = cache[j]
  <2>1. SUFFICES ASSUME NEW j \in 1 .. n PROVE \E i \in 1 .. n : moved[i] = cache[j]
    OBVIOUS
  <2>2. CASE j < p
    BY <1>5, <2>2
  <2>3. CASE j = p
    BY <1>3, <1>5, <2>3
  <2>4. CASE j > p
    <3>1. j - 1 \in 1 .. n /\ j - 1 >= p /\ j - 1 < n /\ (j - 1) + 1 = j
      BY <1>2, <1>3, <2>4
    <3>2. moved[j - 1] = cache[(j - 1) + 1]
      BY <1>5, <3>1
    <3>3. QED
      BY <3>1, <3>2
  <2>5. QED
    BY <1>2, <1>3, <2>2, <2>3, <2>4
<1>12. ASSUME NEW x, Cached(cache, x) PROVE Cached(moved, x)
  <2>1. PICK j \in 1 .. n : cache[j].key = x
    BY <1>3, <1>12 DEF Cached
  <2>2. PICK i \in 1 .. n : moved[i] = cache[j]
    BY <1>11
  <2>3. QED
    BY <1>5, <2>1, <2>2 DEF Cached
<1>13. moved[n].key = k
  BY <1>2, <1>3, <1>5
<1>14. EntryAt(cache, k).rows = PartitionRows(k)
  BY <1>1, <1>2 DEF EntryAt, CacheFits
<1>15. QED
  BY <1>3, <1>4, <1>7, <1>10, <1>12, <1>13, <1>14

(* A partition that is built is at the end, and the one that was there     *)
(* stays, if there is room for two.                                        *)
LEMMA BuiltLast ==
  ASSUME NEW cache, CacheFits(cache), NEW k \in PartitionKey, ~Cached(cache, k), ddhq \in SUBSET DdhqRow,
         NEW built, built = Evict(Append(cache, [key |-> k, rows |-> PartitionRows(k)]))
  PROVE  /\ CacheFits(built) /\ Len(built) > 0 /\ built[Len(built)].key = k
         /\ MaxCacheSize > 1 /\ Len(cache) > 0 => Cached(built, cache[Len(cache)].key)
<1>1. /\ cache \in Seq(Entry) /\ DOMAIN cache = 1 .. Len(cache) /\ Len(cache) \in Nat
      /\ \A i \in 1 .. Len(cache) : cache[i] \in Entry
  BY CacheSeq DEF CacheFits
<1>2. PICK n \in Nat : n = Len(cache) /\ n <= MaxCacheSize /\ MaxCacheSize \in Nat \ {0}
  BY <1>1, CacheAssumption DEF CacheFits
<1>3. PICK entry \in Entry : entry = [key |-> k, rows |-> PartitionRows(k)]
  <2>1. PartitionRows(k) \in SUBSET DdhqRow
    BY DEF PartitionRows
  <2>2. [key |-> k, rows |-> PartitionRows(k)] \in Entry
    BY <2>1 DEF Entry, PartitionKey
  <2>3. QED
    BY <2>2
<1>4. entry.key = k /\ entry.rows = PartitionRows(k)
  BY <1>3
<1>5. PICK longer \in Seq(Entry) :
        /\ longer = Append(cache, entry) /\ Len(longer) = n + 1 /\ longer[n + 1] = entry
        /\ \A i \in 1 .. n : longer[i] = cache[i]
  <2>1. /\ Append(cache, entry) \in Seq(Entry) /\ Len(Append(cache, entry)) = Len(cache) + 1
        /\ \A i \in 1 .. Len(cache) : Append(cache, entry)[i] = cache[i]
        /\ Append(cache, entry)[Len(cache) + 1] = entry
    BY <1>1, AppendProperties
  <2>2. QED
    BY <1>2, <2>1
<1>6. \A i \in 1 .. n : cache[i].key # k
  BY <1>1, <1>2 DEF Cached
<1>7. DOMAIN longer = 1 .. n + 1 /\ \A i \in 1 .. n + 1 : i \in 1 .. n \/ i = n + 1
  BY <1>2, <1>5, LenProperties
<1>8. \A i, j \in 1 .. n + 1 : longer[i].key = longer[j].key => i = j
  <2>1. \A i, j \in 1 .. n : cache[i].key = cache[j].key => i = j
    BY <1>1, <1>2 DEF CacheFits
  <2>2. QED
    BY <1>4, <1>5, <1>6, <1>7, <2>1
<1>9. \A i \in 1 .. n + 1 : longer[i].rows = PartitionRows(longer[i].key)
  <2>1. \A i \in 1 .. n : cache[i].rows = PartitionRows(cache[i].key)
    BY <1>1, <1>2 DEF CacheFits
  <2>2. QED
    BY <1>4, <1>5, <1>7, <2>1
<1>10. built = Evict(longer)
  BY <1>3, <1>5
<1>11. CASE n < MaxCacheSize
  <2>1. built = longer
    BY <1>2, <1>5, <1>10, <1>11 DEF Evict
  <2>2. CacheFits(longer)
    BY <1>2, <1>5, <1>7, <1>8, <1>9, <1>11 DEF CacheFits
  <2>3. n > 0 => Cached(longer, cache[n].key)
    <3>1. n > 0 => n \in 1 .. n /\ n \in 1 .. n + 1
      BY <1>2
    <3>2. QED
      BY <1>5, <1>7, <3>1 DEF Cached
  <2>4. Len(longer) > 0 /\ longer[Len(longer)].key = k
    BY <1>2, <1>4, <1>5
  <2>5. QED
    BY <1>2, <2>1, <2>2, <2>3, <2>4
<1>12. CASE n = MaxCacheSize
  <2>1. built = Tail(longer)
    BY <1>2, <1>5, <1>10, <1>12 DEF Evict
  <2>2. longer # <<>>
    BY <1>5, EmptyCache, <1>2
  <2>3. /\ built \in Seq(Entry) /\ Len(built) = n
        /\ \A i \in 1 .. n : built[i] = longer[i + 1]
    <3>1. /\ Tail(longer) \in Seq(Entry) /\ Len(Tail(longer)) = Len(longer) - 1
          /\ \A i \in 1 .. Len(Tail(longer)) : Tail(longer)[i] = longer[i + 1]
      BY <2>2, HeadTailProperties
    <3>2. Len(Tail(longer)) = n
      BY <1>2, <1>5, <3>1
    <3>3. QED
      BY <2>1, <3>1, <3>2
  <2>4. DOMAIN built = 1 .. n /\ \A i \in 1 .. n : i + 1 \in 1 .. n + 1
    BY <1>2, <2>3, LenProperties
  <2>5. CacheFits(built)
    <3>1. \A i, j \in 1 .. n : built[i].key = built[j].key => i = j
      <4>1. SUFFICES ASSUME NEW i \in 1 .. n, NEW j \in 1 .. n, built[i].key = built[j].key PROVE i = j
        OBVIOUS
      <4>2. i + 1 = j + 1
        <5>1. i + 1 \in 1 .. n + 1 /\ j + 1 \in 1 .. n + 1
          BY <2>4
        <5>2. longer[i + 1].key = longer[j + 1].key
          BY <2>3, <4>1
        <5>3. QED
          BY <1>8, <5>1, <5>2
      <4>3. QED
        BY <1>2, <4>2
    <3>2. \A i \in 1 .. n : built[i].rows = PartitionRows(built[i].key)
      BY <1>9, <2>3, <2>4
    <3>3. n <= MaxCacheSize
      BY <1>2
    <3>4. QED
      BY <2>3, <2>4, <3>1, <3>2, <3>3 DEF CacheFits
  <2>6. built[n].key = k /\ n > 0
    BY <1>2, <1>4, <1>5, <1>12, <2>3
  <2>7. MaxCacheSize > 1 => Cached(built, cache[n].key)
    <3>1. SUFFICES ASSUME MaxCacheSize > 1 PROVE Cached(built, cache[n].key)
      OBVIOUS
    <3>2. n - 1 \in 1 .. n /\ (n - 1) + 1 = n /\ n \in 1 .. n
      BY <1>2, <1>12, <3>1
    <3>3. built[n - 1] = longer[(n - 1) + 1]
      BY <2>3, <3>2
    <3>4. built[n - 1] = cache[n]
      BY <1>5, <3>2, <3>3
    <3>5. QED
      BY <2>4, <3>2, <3>4 DEF Cached
  <2>8. QED
    BY <1>2, <2>3, <2>5, <2>6, <2>7
<1>13. QED
  BY <1>2, <1>11, <1>12

-----------------------------------------------------------------------------

(* A candidate is searched in no partition or in one of its date and state;*)
(* a standard one has a state.                                             *)
LEMMA KeyIs ==
  ASSUME NEW k \in Keys, k # NoKey
  PROVE  /\ k \in PartitionKey
         /\ k.kind = "standard" => k \in [kind : {"standard"}, date : Day, state : State, type : ElectionType]
<1>1. PICK c \in Candidate : k = KeyOf(c)
  BY DEF Keys
<1>2. /\ c.date \in Day \cup {Missing} /\ c.general \in Day \cup {Missing} /\ c.primary \in Day \cup {Missing}
      /\ c.state \in State \cup {NoState} /\ c.type \in ElectionType
  BY DEF Candidate
<1>3. PICK base : base = IF c.general # Missing THEN c.general
                         ELSE IF c.primary # Missing THEN c.primary ELSE c.date
  OBVIOUS
<1>4. base \in Day \cup {Missing}
  BY <1>2, <1>3
<1>5. CASE c.type = "runoff" /\ c.state # NoState /\ base # Missing
  <2>1. k = [kind |-> "range", date |-> base, state |-> c.state, type |-> "runoff"]
    BY <1>1, <1>3, <1>5 DEF KeyOf
  <2>2. QED
    BY <1>2, <1>4, <1>5, <2>1 DEF PartitionKey, ElectionType
<1>6. CASE c.type # "runoff" /\ c.date # Missing
  <2>1. k = [kind |-> IF c.state = NoState THEN "stateless" ELSE "standard",
             date |-> c.date, state |-> c.state, type |-> c.type]
    BY <1>1, <1>3, <1>6 DEF KeyOf
  <2>2. CASE c.state = NoState
    BY <1>2, <1>6, <2>1, <2>2 DEF PartitionKey
  <2>3. CASE c.state # NoState
    BY <1>2, <1>6, <2>1, <2>3 DEF PartitionKey
  <2>4. QED
    BY <2>2, <2>3
<1>7. CASE ~(c.type = "runoff" /\ c.state # NoState /\ base # Missing) /\ ~(c.type # "runoff" /\ c.date # Missing)
  BY <1>1, <1>3, <1>7 DEF KeyOf
<1>8. QED
  BY <1>5, <1>6, <1>7

(* What a search does to what is kept.                                     *)
LEMMA SearchStep ==
  ASSUME CacheIInv, NEW k \in Keys, SearchPartition(k)
  PROVE  /\ CacheIInv'
         /\ found.rows # {} /\ MaxCacheSize > 1 => Cached(indices', found.key)
<1>1. ddhq' = ddhq /\ \A x : PartitionRows(x)' = PartitionRows(x)
  BY DEF SearchPartition, PartitionRows, ValidTypes
<1>2. \A cache : CacheFits(cache)' <=> CacheFits(cache)
  BY <1>1 DEF CacheFits
<1>3. found.rows # {} => Cached(indices, found.key)
  <2>1. DOMAIN indices = 1 .. Len(indices) /\ Len(indices) \in Nat
    BY CacheSeq DEF CacheIInv, CacheFits
  <2>2. Len(indices) > 0 => Len(indices) \in DOMAIN indices
    BY <2>1
  <2>3. QED
    BY <2>2 DEF CacheIInv, Cached
<1>4. CASE /\ found' = [key |-> k, rows |-> {}] /\ UNCHANGED <<indices, records>>
           /\ PartitionRows(k) = {}
           /\ \/ UNCHANGED empty
              \/ empty' = empty \cup {k} /\ k.kind = "standard" /\ k # NoKey
  <2>1. found'.key = k /\ found'.rows = {} /\ (found.rows = PartitionRows(found.key))'
    BY <1>1, <1>4 DEF PartitionRows, ValidTypes
  <2>2. empty' \in SUBSET [kind : {"standard"}, date : Day, state : State, type : ElectionType]
    BY <1>4, KeyIs DEF CacheIInv
  <2>3. \A x \in empty' : PartitionRows(x)' = {}
    BY <1>1, <1>4 DEF CacheIInv
  <2>4. CacheFits(indices)'
    <3>1. CacheFits(indices)
      BY DEF CacheIInv
    <3>2. QED
      BY <1>1, <1>4, <3>1 DEF CacheFits
  <2>5. CacheIInv'
    BY <1>1, <1>4, <2>1, <2>2, <2>3, <2>4 DEF CacheIInv
  <2>6. found.rows # {} => Cached(indices', found.key)
    BY <1>3, <1>4
  <2>7. QED
    BY <2>5, <2>6
<1>5. ASSUME NEW cache, indices' = cache, records' = cache, UNCHANGED empty,
             found' = [key |-> k, rows |-> PartitionRows(k)],
             CacheFits(cache), Len(cache) > 0, cache[Len(cache)].key = k,
             found.rows # {} /\ MaxCacheSize > 1 => Cached(cache, found.key)
      PROVE  /\ CacheIInv'
             /\ found.rows # {} /\ MaxCacheSize > 1 => Cached(indices', found.key)
  <2>1. found'.key = k /\ found'.rows = PartitionRows(k) /\ (found.rows = PartitionRows(found.key))'
    BY <1>1, <1>5 DEF PartitionRows, ValidTypes
  <2>2. CacheFits(indices)'
    BY <1>1, <1>5 DEF CacheFits
  <2>3. Len(indices') > 0 /\ indices'[Len(indices')].key = found'.key
    BY <1>5, <2>1
  <2>4. \A x \in empty' : PartitionRows(x)' = {}
    BY <1>1, <1>5 DEF CacheIInv
  <2>5. CacheIInv'
    BY <1>1, <1>5, <2>1, <2>2, <2>3, <2>4 DEF CacheIInv
  <2>6. QED
    BY <1>5, <2>5
<1>6. CASE k = NoKey \/ KnownEmpty(k)
  <2>1. NoPartition(k) /\ UNCHANGED empty
    BY <1>6 DEF SearchPartition
  <2>2. PartitionRows(k) = {}
    BY <1>6, NoKeyNoRows DEF KnownEmpty, CacheIInv
  <2>3. QED
    BY <1>4, <2>1, <2>2 DEF NoPartition
<1>7. CASE k # NoKey /\ ~KnownEmpty(k) /\ Cached(indices, k)
  <2>1. Use(k)
    BY <1>7 DEF SearchPartition
  <2>2. CacheFits(indices) /\ indices = records
    BY DEF CacheIInv
  <2>3. PICK cache : cache = MoveToEnd(indices, k)
    OBVIOUS
  <2>4. /\ CacheFits(cache) /\ Len(cache) > 0 /\ cache[Len(cache)].key = k
        /\ \A x : Cached(indices, x) => Cached(cache, x)
        /\ EntryAt(indices, k).rows = PartitionRows(k)
    BY <1>7, <2>2, <2>3, Moved
  <2>5. /\ indices' = cache /\ records' = cache /\ UNCHANGED empty
        /\ found' = [key |-> k, rows |-> PartitionRows(k)]
    BY <2>1, <2>2, <2>3, <2>4 DEF Use
  <2>6. QED
    BY <1>3, <1>5, <2>4, <2>5
<1>8. CASE k # NoKey /\ ~KnownEmpty(k) /\ ~Cached(indices, k)
  <2>1. Build(k)
    BY <1>8 DEF SearchPartition
  <2>2. k \in PartitionKey /\ CacheFits(indices) /\ indices = records /\ ddhq \in SUBSET DdhqRow
    BY <1>8, KeyIs DEF CacheIInv
  <2>3. CASE PartitionRows(k) = {}
    BY <1>4, <1>8, <2>1, <2>3 DEF Build, NoPartition
  <2>4. CASE PartitionRows(k) # {}
    <3>1. PICK cache : cache = Evict(Append(indices, [key |-> k, rows |-> PartitionRows(k)]))
      OBVIOUS
    <3>2. /\ indices' = cache /\ records' = cache /\ UNCHANGED empty
          /\ found' = [key |-> k, rows |-> PartitionRows(k)]
      BY <2>1, <2>2, <2>4, <3>1 DEF Build
    <3>3. /\ CacheFits(cache) /\ Len(cache) > 0 /\ cache[Len(cache)].key = k
          /\ MaxCacheSize > 1 /\ Len(indices) > 0 => Cached(cache, indices[Len(indices)].key)
      BY <1>8, <2>2, <3>1, BuiltLast
    <3>4. found.rows # {} /\ MaxCacheSize > 1 => Cached(cache, found.key)
      BY <3>3 DEF CacheIInv
    <3>5. QED
      BY <1>5, <3>2, <3>3, <3>4
  <2>5. QED
    BY <2>3, <2>4
<1>9. QED
  BY <1>6, <1>7, <1>8

LEMMA CacheStep == ASSUME CacheIInv, [CacheNext]_cacheVars PROVE CacheIInv'
<1>1. CASE CacheNext
  BY <1>1, SearchStep DEF CacheNext
<1>2. CASE UNCHANGED cacheVars
  BY <1>2 DEF cacheVars, CacheIInv, CacheFits, PartitionRows, ValidTypes
<1>3. QED
  BY <1>1, <1>2

LEMMA CacheImplied == CacheIInv => PartitionInv
<1>1. SUFFICES ASSUME CacheIInv PROVE PartitionInv
  OBVIOUS
<1>2. CacheTypeOK
  BY <1>1 DEF CacheIInv, CacheFits, CacheTypeOK
<1>3. CacheLockstep /\ FoundRight
  BY <1>1 DEF CacheIInv, CacheFits, CacheLockstep, FoundRight
<1>4. QED
  BY <1>2, <1>3 DEF PartitionInv

(* The two dictionaries of the DDHQ partitions hold the same, each once and*)
(* at most MAX_CACHE_SIZE, and a candidate is searched in the rows of its  *)
(* own partition whatever was cached, evicted or found empty before, for   *)
(* any file and any number of searches (parallel_production_matcher.py,    *)
(* get_or_build_partition and its two siblings).                           *)
THEOREM OwnPartition == CacheSpec => []PartitionInv
<1>1. CacheIInv /\ [CacheNext]_cacheVars => CacheIInv'
  BY CacheStep
<1>2. QED
  BY <1>1, CacheStart, CacheImplied, PTL DEF CacheSpec

(* The partition that was searched last is not the one that is evicted, if *)
(* there is room for two.                                                  *)
THEOREM LastIsKept == CacheSpec => RecentKept
<1>1. CacheIInv /\ [CacheNext]_cacheVars => CacheIInv'
  BY CacheStep
<1>2. CacheIInv /\ [CacheNext]_cacheVars =>
        [found.rows # {} /\ MaxCacheSize > 1 => Cached(indices', found.key)]_cacheVars
  BY SearchStep DEF CacheNext
<1>3. QED
  BY <1>1, <1>2, CacheStart, PTL DEF CacheSpec, RecentKept

-----------------------------------------------------------------------------
(* The files of the golden data                                            *)

CacheRecord == [there : BOOLEAN, positions : SUBSET Position]
WorkRecord == [at : {"off", "wait", "match", "tsv", "over"}, todo : SUBSET Position, rows : SUBSET MatchRow]
OutputRecord == [parquet : Part, rows : SUBSET MatchRow, tsv : BOOLEAN]

OneRowEach(rows) == \A q, r \in rows : q.position = r.position => q = r

(* What the run, the cache and the files of a state are to each other: the *)
(* positions of a file and of a run are those of the cache, which does not *)
(* change any more; a run matches only while there is no file.             *)
StateFits(s, w, c, o) ==
  /\ c.positions \subseteq PositionsOf({s})
  /\ o.parquet = "whole" => c.there /\ Covered(o.rows) = c.positions /\ OneRowEach(o.rows)
  /\ w.at = "match" =>
       /\ c.there /\ o.parquet = "none"
       /\ c.positions = w.todo \cup Covered(w.rows) /\ w.todo \cap Covered(w.rows) = {}
       /\ OneRowEach(w.rows)

StatesIInv ==
  /\ stores \in [GoldState -> Part] /\ dumping \in SUBSET GoldState
  /\ brCache \in [GoldState \cup {Several} -> CacheRecord]
  /\ allRun \in BOOLEAN /\ quota \in BOOLEAN
  /\ stateWork \in [GoldState -> WorkRecord]
  /\ outputs \in [GoldState -> OutputRecord]
  /\ fixed \in [before : SUBSET MatchRow, rows : SUBSET MatchRow]
  /\ \A s \in GoldState : ~allRun => stateWork[s].at = "off"
  /\ \A s \in GoldState : StateFits(s, stateWork[s], brCache[s], outputs[s])
  /\ StatesBounded /\ RetryKeeps

LEMMA StatesImplied == StatesIInv => StatesInv
BY DEF StatesIInv, StatesInv, StatesTypeOK, FileConsistent, StateFits, OneRowEach,
       CacheRecord, WorkRecord, OutputRecord

LEMMA StatesStart == StatesInit => StatesIInv
<1> SUFFICES ASSUME StatesInit PROVE StatesIInv
  OBVIOUS
<1>1. NoCache \in CacheRecord /\ OffWork \in WorkRecord /\ NoOutput \in OutputRecord
  BY DEF NoCache, OffWork, NoOutput, CacheRecord, WorkRecord, OutputRecord, Part
<1>2. /\ NoCache.positions = {} /\ OffWork.at = "off" /\ NoOutput.parquet = "none"
  BY DEF NoCache, OffWork, NoOutput
<1>3. \A s \in GoldState : StateFits(s, OffWork, NoCache, NoOutput)
  BY <1>2 DEF StateFits
<1>4. StatesBounded
  <2>1. BusyStates = {}
    BY <1>2 DEF StatesInit, BusyStates
  <2>2. Cardinality(BusyStates) = 0
    BY <2>1, FS_EmptySet
  <2>3. QED
    BY <2>2, RegionAssumption DEF StatesBounded
<1>5. RetryKeeps
  BY DEF StatesInit, RetryKeeps, Covered, Failed
<1>6. QED
  BY <1>1, <1>2, <1>3, <1>4, <1>5 DEF StatesInit, StatesIInv, Part

(* One state more may be busy, if it was before or there is a permit left. *)
LEMMA Permits ==
  ASSUME StatesIInv, NEW s \in GoldState, NEW w \in WorkRecord, stateWork' = [stateWork EXCEPT ![s] = w],
         \/ w.at \notin {"match", "tsv"} \/ stateWork[s].at \in {"match", "tsv"}
         \/ Cardinality(BusyStates) < Permit
  PROVE  StatesBounded'
<1>0. /\ IsFiniteSet(GoldState) /\ Permit \in Nat /\ stateWork \in [GoldState -> WorkRecord]
      /\ Cardinality(BusyStates) <= Permit
  BY RegionAssumption DEF StatesIInv, StatesBounded
<1>1. BusyStates \subseteq GoldState
  BY DEF BusyStates
<1>2. IsFiniteSet(BusyStates) /\ Cardinality(BusyStates) \in Nat
  BY <1>0, <1>1, FS_Subset, FS_CardinalityType
<1>3. CASE Cardinality(BusyStates) < Permit
  <2>1. BusyStates' \subseteq BusyStates \cup {s}
    BY <1>0 DEF BusyStates
  <2>2. IsFiniteSet(BusyStates \cup {s}) /\ Cardinality(BusyStates \cup {s}) <= Cardinality(BusyStates) + 1
    <3>1. IsFiniteSet(BusyStates \cup {s})
          /\ (Cardinality(BusyStates \cup {s}) = IF s \in BusyStates THEN Cardinality(BusyStates)
                                                                   ELSE Cardinality(BusyStates) + 1)
      BY <1>2, FS_AddElement
    <3>2. QED
      BY <1>2, <3>1
  <2>3. Cardinality(BusyStates') <= Cardinality(BusyStates \cup {s}) /\ Cardinality(BusyStates') \in Nat
        /\ Cardinality(BusyStates \cup {s}) \in Nat
    BY <2>1, <2>2, FS_Subset, FS_CardinalityType
  <2>4. QED
    BY <1>0, <1>2, <1>3, <2>2, <2>3 DEF StatesBounded
<1>4. CASE w.at \notin {"match", "tsv"} \/ stateWork[s].at \in {"match", "tsv"}
  <2>1. BusyStates' \subseteq BusyStates
    BY <1>0, <1>4 DEF BusyStates
  <2>2. Cardinality(BusyStates') <= Cardinality(BusyStates) /\ Cardinality(BusyStates') \in Nat
    BY <1>2, <2>1, FS_Subset, FS_CardinalityType
  <2>3. QED
    BY <1>0, <1>2, <2>2 DEF StatesBounded
<1>5. QED
  BY <1>3, <1>4

(* A step of one state's run.                                              *)
LEMMA OneState ==
  ASSUME StatesIInv, NEW s \in GoldState, NEW w \in WorkRecord, NEW c \in CacheRecord, NEW o \in OutputRecord,
         stateWork' = [stateWork EXCEPT ![s] = w], brCache' = [brCache EXCEPT ![s] = c],
         outputs' = [outputs EXCEPT ![s] = o], StateFits(s, w, c, o),
         \/ w.at \notin {"match", "tsv"} \/ stateWork[s].at \in {"match", "tsv"}
         \/ Cardinality(BusyStates) < Permit,
         allRun, UNCHANGED <<stores, dumping, allRun, fixed, quota>>
  PROVE  StatesIInv'
<1>0. /\ brCache \in [GoldState \cup {Several} -> CacheRecord] /\ stateWork \in [GoldState -> WorkRecord]
      /\ outputs \in [GoldState -> OutputRecord]
  BY DEF StatesIInv
<1>1. StatesBounded'
  BY Permits
<1>2. RetryKeeps'
  BY DEF StatesIInv, RetryKeeps
<1>3. /\ brCache' \in [GoldState \cup {Several} -> CacheRecord] /\ stateWork' \in [GoldState -> WorkRecord]
      /\ outputs' \in [GoldState -> OutputRecord]
  BY <1>0
<1>4. ASSUME NEW x \in GoldState PROVE StateFits(x, stateWork'[x], brCache'[x], outputs'[x])
  <2>1. CASE x = s
    BY <1>0, <2>1
  <2>2. CASE x # s
    BY <1>0, <2>2 DEF StatesIInv
  <2>3. QED
    BY <2>1, <2>2
<1>5. QED
  BY <1>1, <1>2, <1>3, <1>4 DEF StatesIInv, StateFits

(* What a request of the cache comes back with.                            *)
LEMMA LoadsFit ==
  ASSUME StatesIInv, NEW ss \in SUBSET GoldState, NEW limit,
         CacheName(ss) \in GoldState \cup {Several}, NEW l \in Loads(ss, limit)
  PROVE  /\ l.got \in SUBSET Position /\ l.kept \in CacheRecord
         /\ brCache[CacheName(ss)].there => l.kept = brCache[CacheName(ss)] /\ l.got \subseteq l.kept.positions
         /\ ~brCache[CacheName(ss)].there => /\ l.kept.positions \subseteq PositionsOf(ss)
                                             /\ l.kept.positions = l.got
                                             /\ l.got # {} => l.kept.there
<1> DEFINE Among(ps) == IF Cardinality(ps) <= limit THEN {ps} ELSE {q \in SUBSET ps : Cardinality(q) = limit}
<1>1. \A ps : Among(ps) \subseteq SUBSET ps
  OBVIOUS
<1>2. brCache[CacheName(ss)] \in CacheRecord
  BY DEF StatesIInv
<1>3. PositionsOf(ss) \subseteq Position
  BY DEF PositionsOf
<1> HIDE DEF Among
<1>4. CASE brCache[CacheName(ss)].there
  <2>1. PICK q \in Among(brCache[CacheName(ss)].positions) : l = [got |-> q, kept |-> brCache[CacheName(ss)]]
    BY <1>4 DEF Loads, Among
  <2>2. QED
    BY <1>1, <1>2, <1>4, <2>1 DEF CacheRecord
<1>5. CASE ~brCache[CacheName(ss)].there
  <2>1. CASE l = [got |-> {}, kept |-> NoCache]
    BY <1>5, <2>1 DEF NoCache, CacheRecord
  <2>2. ASSUME NEW q \in Among(PositionsOf(ss)), l = [got |-> q, kept |-> [there |-> q # {}, positions |-> q]]
        PROVE /\ l.got \in SUBSET Position /\ l.kept \in CacheRecord
              /\ l.kept.positions \subseteq PositionsOf(ss) /\ l.kept.positions = l.got
              /\ l.got # {} => l.kept.there
    <3>1. q \subseteq PositionsOf(ss) /\ q \subseteq Position
      BY <1>1, <1>3
    <3>2. QED
      BY <2>2, <3>1 DEF CacheRecord
  <2>3. \/ l = [got |-> {}, kept |-> NoCache]
        \/ \E q \in Among(PositionsOf(ss)) : l = [got |-> q, kept |-> [there |-> q # {}, positions |-> q]]
    BY <1>5 DEF Loads, Among
  <2>4. QED
    BY <1>5, <2>1, <2>2, <2>3
<1>6. QED
  BY <1>4, <1>5

(* The cache of one state is named after it, and nothing else is.          *)
LEMMA CacheNames ==
  ASSUME NEW ss \in SUBSET GoldState, ss # {}
  PROVE  /\ CacheName(ss) \in GoldState \cup {Several}
         /\ \A s \in GoldState : CacheName(ss) = s => ss = {s}
<1>1. IsFiniteSet(ss) /\ Several \notin GoldState
  BY RegionAssumption, FS_Subset DEF Several
<1>2. CASE Cardinality(ss) = 1
  <2>1. PICK x : ss = {x}
    BY <1>1, <1>2, FS_Singleton
  <2>2. (CHOOSE s \in ss : TRUE) = x
    BY <2>1
  <2>3. CacheName(ss) = x
    BY <1>2, <2>2 DEF CacheName
  <2>4. QED
    BY <2>1, <2>3
<1>3. CASE Cardinality(ss) # 1
  BY <1>1, <1>3 DEF CacheName
<1>4. QED
  BY <1>2, <1>3

(* The cache of one state, asked for all of its positions.                 *)
LEMMA WholeLoads ==
  ASSUME StatesIInv, NEW s \in GoldState, NEW l \in Loads({s}, Cardinality(Position))
  PROVE  /\ CacheName({s}) = s /\ l.got \in SUBSET Position /\ l.kept \in CacheRecord
         /\ l.got # {} => l.kept.there /\ l.kept.positions = l.got
         /\ brCache[s].there => l.kept = brCache[s]
         /\ l.kept.positions \subseteq PositionsOf({s})
<1>1. CacheName({s}) = s
  <2>1. Cardinality({s}) = 1
    BY FS_Singleton
  <2>2. QED
    BY <2>1 DEF CacheName
<1>2. brCache[s] \in CacheRecord /\ brCache[s].positions \subseteq PositionsOf({s})
  BY DEF StatesIInv, StateFits
<1>3. brCache[s].there => l.got = brCache[s].positions
  <2>1. brCache[s].positions \subseteq Position /\ IsFiniteSet(Position)
    BY <1>2, RegionAssumption DEF CacheRecord
  <2>2. Cardinality(brCache[s].positions) <= Cardinality(Position)
    BY <2>1, FS_Subset
  <2>3. QED
    BY <1>1, <2>2 DEF Loads
<1>4. PICK ss \in SUBSET GoldState : ss = {s}
  OBVIOUS
<1>5. CacheName(ss) = s /\ CacheName(ss) \in GoldState \cup {Several} /\ l \in Loads(ss, Cardinality(Position))
  BY <1>1, <1>4
<1>6. /\ l.got \in SUBSET Position /\ l.kept \in CacheRecord
      /\ brCache[s].there => l.kept = brCache[s] /\ l.got \subseteq l.kept.positions
      /\ ~brCache[s].there => /\ l.kept.positions \subseteq PositionsOf(ss)
                              /\ l.kept.positions = l.got
                              /\ l.got # {} => l.kept.there
  BY <1>5, LoadsFit
<1>7. QED
  BY <1>1, <1>2, <1>3, <1>4, <1>6

LEMMA GeneratorStep ==
  ASSUME StatesIInv,
         \/ \E s \in GoldState : OpenStore(s) \/ CloseStore(s)
         \/ KillGenerator \/ UseUpQuota
  PROVE  StatesIInv'
<1>1. UNCHANGED <<brCache, allRun, stateWork, outputs, fixed>>
  BY DEF OpenStore, CloseStore, KillGenerator, UseUpQuota
<1>2. stores' \in [GoldState -> Part] /\ dumping' \in SUBSET GoldState /\ quota' \in BOOLEAN
  BY DEF OpenStore, CloseStore, KillGenerator, UseUpQuota, StatesIInv, Part
<1>3. StatesBounded' /\ RetryKeeps'
  BY <1>1 DEF StatesIInv, StatesBounded, BusyStates, RetryKeeps
<1>4. QED
  BY <1>1, <1>2, <1>3 DEF StatesIInv, StateFits

(* A request outside the run: it changes no cache that a file was made of. *)
LEMMA MatchSomeStep ==
  ASSUME StatesIInv, NEW ss \in (SUBSET GoldState) \ {{}}, NEW n, MatchSome(ss, n)
  PROVE  StatesIInv'
<1>0. ss \in SUBSET GoldState /\ CacheName(ss) \in GoldState \cup {Several}
      /\ \A s \in GoldState : CacheName(ss) = s => ss = {s}
  <2>1. ss \in SUBSET GoldState /\ ss # {}
    OBVIOUS
  <2>2. QED
    BY ONLY <2>1, CacheNames
<1>1. PICK l \in Loads(ss, n) : brCache' = [brCache EXCEPT ![CacheName(ss)] = l.kept]
  BY DEF MatchSome
<1>2. /\ l.kept \in CacheRecord
      /\ brCache[CacheName(ss)].there => l.kept = brCache[CacheName(ss)]
      /\ ~brCache[CacheName(ss)].there => l.kept.positions \subseteq PositionsOf(ss)
  BY <1>0, LoadsFit
<1>3. UNCHANGED <<stores, dumping, allRun, stateWork, outputs, fixed, quota>> /\ ~allRun
  BY DEF MatchSome
<1>4. ASSUME NEW s \in GoldState PROVE StateFits(s, stateWork[s], brCache'[s], outputs[s])
  <2>1. StateFits(s, stateWork[s], brCache[s], outputs[s]) /\ stateWork[s].at = "off"
        /\ brCache \in [GoldState \cup {Several} -> CacheRecord]
    BY <1>3 DEF StatesIInv
  <2>2. brCache'[s] = IF CacheName(ss) = s THEN l.kept ELSE brCache[s]
    BY <1>1, <2>1
  <2>3. CASE CacheName(ss) = s /\ ~brCache[s].there
    <3>1. outputs[s].parquet # "whole" /\ ss = {s} /\ l.kept.positions \subseteq PositionsOf({s})
      BY <1>0, <1>2, <2>1, <2>3 DEF StateFits
    <3>2. QED
      BY <2>1, <2>2, <2>3, <3>1 DEF StateFits
  <2>4. CASE ~(CacheName(ss) = s /\ ~brCache[s].there)
    BY <1>2, <2>1, <2>2, <2>4
  <2>5. QED
    BY <2>3, <2>4
<1>5. StatesBounded' /\ RetryKeeps'
  BY <1>3 DEF StatesIInv, StatesBounded, BusyStates, RetryKeeps
<1>6. brCache' \in [GoldState \cup {Several} -> CacheRecord]
  BY <1>1, <1>2 DEF StatesIInv
<1>7. QED
  BY <1>3, <1>4, <1>5, <1>6 DEF StatesIInv

(* The run starts and ends with no state busy.                             *)
LEMMA StateRunStep ==
  ASSUME StatesIInv, StartAll \/ EndAll
  PROVE  StatesIInv'
<1>0. OffWork \in WorkRecord /\ [OffWork EXCEPT !.at = "wait"] \in WorkRecord
  BY DEF OffWork, WorkRecord
<1>1. UNCHANGED <<stores, dumping, brCache, outputs, fixed, quota>> /\ allRun' \in BOOLEAN
  BY DEF StartAll, EndAll
<1>2. /\ stateWork' \in [GoldState -> WorkRecord]
      /\ \A s \in GoldState : stateWork'[s].at \in {"off", "wait"} /\ (~allRun' => stateWork'[s].at = "off")
  BY <1>0 DEF StartAll, EndAll, OffWork
<1>3. StatesBounded'
  <2>1. BusyStates' = {}
    BY <1>2 DEF BusyStates
  <2>2. Cardinality(BusyStates') = 0
    BY <2>1, FS_EmptySet
  <2>3. QED
    BY <2>2, RegionAssumption DEF StatesBounded
<1>4. RetryKeeps'
  BY <1>1 DEF StatesIInv, RetryKeeps
<1>5. QED
  BY <1>1, <1>2, <1>3, <1>4 DEF StatesIInv, StateFits

LEMMA StartStateStep ==
  ASSUME StatesIInv, NEW s \in GoldState, StartState(s)
  PROVE  StatesIInv'
<1>0. /\ stateWork[s] \in WorkRecord /\ brCache[s] \in CacheRecord /\ outputs[s] \in OutputRecord
      /\ brCache \in [GoldState \cup {Several} -> CacheRecord] /\ stateWork \in [GoldState -> WorkRecord]
      /\ outputs \in [GoldState -> OutputRecord]
      /\ StateFits(s, stateWork[s], brCache[s], outputs[s])
  BY DEF StatesIInv
<1>1. /\ allRun /\ Cardinality(BusyStates) < Permit
      /\ UNCHANGED <<stores, dumping, allRun, outputs, fixed, quota>>
      /\ outputs' = [outputs EXCEPT ![s] = outputs[s]]
  BY <1>0 DEF StartState, StatePermitted
<1>2. CASE Skipped(s) /\ SetWork(s, "over") /\ UNCHANGED brCache
  <2>1. [stateWork[s] EXCEPT !.at = "over"] \in WorkRecord
    BY <1>0 DEF WorkRecord
  <2>2. PICK w \in WorkRecord : w = [stateWork[s] EXCEPT !.at = "over"]
    BY <2>1
  <2>3. w.at = "over"
    BY <1>0, <2>2 DEF WorkRecord
  <2>4. stateWork' = [stateWork EXCEPT ![s] = w] /\ brCache' = [brCache EXCEPT ![s] = brCache[s]]
    BY <1>0, <1>2, <2>2 DEF SetWork
  <2>5. StateFits(s, w, brCache[s], outputs[s])
    BY <1>0, <2>3 DEF StateFits
  <2>6. QED
    BY <1>0, <1>1, <2>3, <2>4, <2>5, OneState
<1>3. ASSUME ~Skipped(s),
             NEW l \in Loads({s}, Cardinality(Position)),
             brCache' = [brCache EXCEPT ![s] = l.kept],
             stateWork' = [stateWork EXCEPT ![s] =
               [at |-> IF l.got = {} THEN "over" ELSE "match", todo |-> l.got, rows |-> {}]]
      PROVE  StatesIInv'
  <2>1. /\ l.got \in SUBSET Position /\ l.kept \in CacheRecord
        /\ l.got # {} => l.kept.there /\ l.kept.positions = l.got
        /\ l.kept.positions \subseteq PositionsOf({s})
    BY WholeLoads
  <2>2. PICK w \in WorkRecord :
          w = [at |-> IF l.got = {} THEN "over" ELSE "match", todo |-> l.got, rows |-> {}]
    <3>1. PICK place \in {"over", "match"} : place = IF l.got = {} THEN "over" ELSE "match"
      OBVIOUS
    <3>2. [at |-> place, todo |-> l.got, rows |-> {}] \in WorkRecord
      BY <2>1 DEF WorkRecord
    <3>3. QED
      BY <3>1, <3>2
  <2>3. w.at \in {"over", "match"} /\ (w.at = "match" => l.got # {}) /\ w.todo = l.got /\ w.rows = {}
    BY <2>2
  <2>4. outputs[s].parquet = "none"
    BY <1>3 DEF Skipped
  <2>5. StateFits(s, w, l.kept, outputs[s])
    BY <2>1, <2>3, <2>4 DEF StateFits, Covered, OneRowEach
  <2>6. stateWork' = [stateWork EXCEPT ![s] = w]
    BY <1>3, <2>2
  <2>7. PICK c \in CacheRecord : c = l.kept
    BY <2>1
  <2>8. brCache' = [brCache EXCEPT ![s] = c] /\ StateFits(s, w, c, outputs[s])
    BY <1>3, <2>5, <2>7
  <2>9. QED
    BY <1>0, <1>1, <2>6, <2>8, OneState
<1>4. QED
  BY <1>2, <1>3 DEF StartState

LEMMA MatchPositionStep ==
  ASSUME StatesIInv, NEW s \in GoldState, NEW p \in Position, MatchPosition(s, p)
  PROVE  StatesIInv'
<1>0. /\ stateWork[s] \in WorkRecord /\ brCache[s] \in CacheRecord /\ outputs[s] \in OutputRecord
      /\ brCache \in [GoldState \cup {Several} -> CacheRecord] /\ stateWork \in [GoldState -> WorkRecord]
      /\ outputs \in [GoldState -> OutputRecord]
      /\ StateFits(s, stateWork[s], brCache[s], outputs[s])
  BY DEF StatesIInv
<1>1. PICK k \in RowKind :
        stateWork' = [stateWork EXCEPT ![s].todo = @ \ {p},
                            ![s].rows = @ \cup {[position |-> p, kind |-> k]}]
  BY DEF MatchPosition, Outcome, RowKind
<1>2. /\ stateWork[s].at = "match" /\ p \in stateWork[s].todo
      /\ UNCHANGED <<stores, dumping, brCache, allRun, outputs, fixed, quota>>
      /\ outputs' = [outputs EXCEPT ![s] = outputs[s]] /\ brCache' = [brCache EXCEPT ![s] = brCache[s]]
  BY <1>0 DEF MatchPosition
<1>3. allRun
  BY <1>2 DEF StatesIInv
<1>4. PICK row \in MatchRow : row = [position |-> p, kind |-> k]
  BY DEF MatchRow
<1>5. [stateWork[s] EXCEPT !.todo = stateWork[s].todo \ {p}, !.rows = stateWork[s].rows \cup {row}] \in WorkRecord
  BY <1>0 DEF WorkRecord
<1>6. PICK w \in WorkRecord :
        w = [stateWork[s] EXCEPT !.todo = stateWork[s].todo \ {p}, !.rows = stateWork[s].rows \cup {row}]
  BY <1>5
<1>7. /\ w.at = stateWork[s].at /\ w.todo = stateWork[s].todo \ {p}
      /\ w.rows = stateWork[s].rows \cup {row} /\ row.position = p
  BY <1>0, <1>4, <1>6 DEF WorkRecord
<1>8. stateWork' = [stateWork EXCEPT ![s] = w]
  BY <1>0, <1>1, <1>4, <1>6 DEF WorkRecord
<1>9. Covered(w.rows) = Covered(stateWork[s].rows) \cup {p}
  BY <1>7 DEF Covered
<1>10. p \notin Covered(stateWork[s].rows)
  BY <1>0, <1>2 DEF StateFits
<1>11. OneRowEach(w.rows)
  BY <1>0, <1>2, <1>7, <1>10 DEF StateFits, OneRowEach, Covered
<1>12. /\ brCache[s].positions \subseteq PositionsOf({s}) /\ outputs[s].parquet = "none" /\ brCache[s].there
       /\ brCache[s].positions = stateWork[s].todo \cup Covered(stateWork[s].rows)
       /\ stateWork[s].todo \cap Covered(stateWork[s].rows) = {}
  BY <1>0, <1>2 DEF StateFits
<1>13. brCache[s].positions = w.todo \cup Covered(w.rows) /\ w.todo \cap Covered(w.rows) = {}
  <2>1. /\ p \in stateWork[s].todo /\ w.todo = stateWork[s].todo \ {p}
        /\ Covered(w.rows) = Covered(stateWork[s].rows) \cup {p}
        /\ brCache[s].positions = stateWork[s].todo \cup Covered(stateWork[s].rows)
        /\ stateWork[s].todo \cap Covered(stateWork[s].rows) = {}
    BY <1>2, <1>7, <1>9, <1>12
  <2>2. QED
    BY ONLY <2>1
<1>14. StateFits(s, w, brCache[s], outputs[s])
  BY <1>11, <1>12, <1>13 DEF StateFits
<1>15. /\ stateWork[s].at \in {"match", "tsv"} /\ UNCHANGED <<stores, dumping, allRun, fixed, quota>>
       /\ outputs' = [outputs EXCEPT ![s] = outputs[s]] /\ brCache' = [brCache EXCEPT ![s] = brCache[s]]
  BY <1>2
<1>16. /\ brCache[s] \in CacheRecord /\ outputs[s] \in OutputRecord
  BY <1>0
<1>17. QED
  BY ONLY StatesIInv, <1>3, <1>8, <1>14, <1>15, <1>16, OneState

(* A state whose rows are all there is saved; the file was not there.      *)
LEMMA SaveParquetStep ==
  ASSUME StatesIInv, NEW s \in GoldState, SaveParquet(s)
  PROVE  StatesIInv'
<1>0. /\ stateWork[s] \in WorkRecord /\ brCache[s] \in CacheRecord /\ outputs[s] \in OutputRecord
      /\ brCache \in [GoldState \cup {Several} -> CacheRecord] /\ stateWork \in [GoldState -> WorkRecord]
      /\ outputs \in [GoldState -> OutputRecord]
      /\ StateFits(s, stateWork[s], brCache[s], outputs[s])
  BY DEF StatesIInv
<1>1. /\ stateWork[s].at = "match" /\ stateWork[s].todo = {}
      /\ UNCHANGED <<stores, dumping, brCache, allRun, fixed, quota>>
      /\ brCache' = [brCache EXCEPT ![s] = brCache[s]]
  BY <1>0 DEF SaveParquet, StateReady
<1>2. allRun
  BY <1>1 DEF StatesIInv
<1>3. PICK o \in OutputRecord, place \in {"tsv", "over"} :
        /\ outputs' = [outputs EXCEPT ![s] = o] /\ SetWork(s, place)
        /\ o.parquet = "whole" => o.rows = stateWork[s].rows
  <2>1. CASE /\ outputs' = [outputs EXCEPT ![s] =
                  [parquet |-> "whole", rows |-> stateWork[s].rows, tsv |-> @.tsv]]
             /\ SetWork(s, "tsv")
    <3>1. [parquet |-> "whole", rows |-> stateWork[s].rows, tsv |-> outputs[s].tsv] \in OutputRecord
      BY <1>0 DEF OutputRecord, WorkRecord, Part
    <3>2. QED
      BY <2>1, <3>1
  <2>2. CASE outputs' = [outputs EXCEPT ![s].parquet = "partial", ![s].rows = {}] /\ SetWork(s, "over")
    <3>1. [outputs[s] EXCEPT !.parquet = "partial", !.rows = {}] \in OutputRecord
      BY <1>0 DEF OutputRecord, Part
    <3>2. PICK o \in OutputRecord : o = [outputs[s] EXCEPT !.parquet = "partial", !.rows = {}]
      BY <3>1
    <3>3. o.parquet = "partial"
      BY <1>0, <3>2 DEF OutputRecord
    <3>4. outputs' = [outputs EXCEPT ![s] = o]
      BY <1>0, <2>2, <3>2 DEF OutputRecord
    <3>5. QED
      BY <2>2, <3>3, <3>4
  <2>3. QED
    BY <2>1, <2>2 DEF SaveParquet
<1>4. [stateWork[s] EXCEPT !.at = place] \in WorkRecord
  BY <1>0 DEF WorkRecord
<1>5. PICK w \in WorkRecord : w = [stateWork[s] EXCEPT !.at = place]
  BY <1>4
<1>6. w.at = place
  BY <1>0, <1>5 DEF WorkRecord
<1>7. stateWork' = [stateWork EXCEPT ![s] = w]
  BY <1>0, <1>3, <1>5 DEF SetWork
<1>8. StateFits(s, w, brCache[s], o)
  BY <1>0, <1>1, <1>3, <1>6 DEF StateFits
<1>9. QED
  BY <1>0, <1>1, <1>2, <1>3, <1>7, <1>8, OneState

LEMMA LeaveStateStep ==
  ASSUME StatesIInv, NEW s \in GoldState, SaveTsv(s) \/ GiveUpState(s)
  PROVE  StatesIInv'
<1>0. /\ stateWork[s] \in WorkRecord /\ brCache[s] \in CacheRecord /\ outputs[s] \in OutputRecord
      /\ brCache \in [GoldState \cup {Several} -> CacheRecord] /\ stateWork \in [GoldState -> WorkRecord]
      /\ outputs \in [GoldState -> OutputRecord]
      /\ StateFits(s, stateWork[s], brCache[s], outputs[s])
  BY DEF StatesIInv
<1>1. /\ stateWork[s].at \in {"match", "tsv"} /\ SetWork(s, "over")
      /\ UNCHANGED <<stores, dumping, brCache, allRun, fixed, quota>>
      /\ brCache' = [brCache EXCEPT ![s] = brCache[s]]
  BY <1>0 DEF SaveTsv, GiveUpState
<1>2. allRun
  BY <1>1 DEF StatesIInv
<1>3. PICK o \in OutputRecord :
        /\ outputs' = [outputs EXCEPT ![s] = o]
        /\ o.parquet = outputs[s].parquet /\ o.rows = outputs[s].rows
  <2>1. CASE SaveTsv(s)
    <3>1. PICK t \in BOOLEAN : outputs' = [outputs EXCEPT ![s].tsv = t]
      BY <2>1 DEF SaveTsv
    <3>2. [outputs[s] EXCEPT !.tsv = t] \in OutputRecord
      BY <1>0 DEF OutputRecord
    <3>3. PICK o \in OutputRecord : o = [outputs[s] EXCEPT !.tsv = t]
      BY <3>2
    <3>4. outputs' = [outputs EXCEPT ![s] = o] /\ o.parquet = outputs[s].parquet /\ o.rows = outputs[s].rows
      BY <1>0, <3>1, <3>3 DEF OutputRecord
    <3>5. QED
      BY <3>4
  <2>2. CASE GiveUpState(s)
    BY <1>0, <2>2 DEF GiveUpState
  <2>3. QED
    BY <2>1, <2>2
<1>4. [stateWork[s] EXCEPT !.at = "over"] \in WorkRecord
  BY <1>0 DEF WorkRecord
<1>5. PICK w \in WorkRecord : w = [stateWork[s] EXCEPT !.at = "over"]
  BY <1>4
<1>6. w.at = "over" /\ stateWork' = [stateWork EXCEPT ![s] = w]
  BY <1>0, <1>1, <1>5 DEF SetWork, WorkRecord
<1>7. StateFits(s, w, brCache[s], o)
  BY <1>0, <1>3, <1>6 DEF StateFits
<1>8. QED
  BY <1>0, <1>1, <1>2, <1>3, <1>6, <1>7, OneState

(* What a retry writes has the positions it read, and the rows that had    *)
(* not failed.                                                             *)
LEMMA RetriedKeeps ==
  ASSUME NEW rows \in SUBSET MatchRow, NEW made \in Retried(rows)
  PROVE  /\ made \in SUBSET MatchRow /\ Covered(made) = Covered(rows) /\ rows \ Failed(rows) \subseteq made
<1>1. PICK f \in [Failed(rows) -> RowKind] :
        made = (rows \ Failed(rows)) \cup {[position |-> r.position, kind |-> f[r]] : r \in Failed(rows)}
  BY DEF Retried
<1>2. Failed(rows) \subseteq rows
  BY DEF Failed
<1>3. \A r \in Failed(rows) : [position |-> r.position, kind |-> f[r]] \in MatchRow
  BY <1>2 DEF MatchRow
<1>4. Covered(made) = Covered(rows)
  <2>1. ASSUME NEW p \in Covered(made) PROVE p \in Covered(rows)
    BY <1>1, <1>2 DEF Covered
  <2>2. ASSUME NEW p \in Covered(rows) PROVE p \in Covered(made)
    <3>1. PICK r \in rows : p = r.position
      BY DEF Covered
    <3>2. CASE r \in Failed(rows)
      <4>1. [position |-> r.position, kind |-> f[r]] \in made
        BY <1>1, <3>2
      <4>2. QED
        BY <3>1, <4>1 DEF Covered
    <3>3. CASE r \notin Failed(rows)
      BY <1>1, <3>1, <3>3 DEF Covered
    <3>4. QED
      BY <3>2, <3>3
  <2>3. QED
    BY <2>1, <2>2
<1>5. QED
  BY <1>1, <1>2, <1>3, <1>4

LEMMA RetryStep ==
  ASSUME StatesIInv, NEW s \in GoldState, RetryErrors(s)
  PROVE  StatesIInv'
<1>1. PICK made \in Retried(outputs[s].rows) : fixed' = [before |-> outputs[s].rows, rows |-> made]
  BY DEF RetryErrors
<1>2. outputs[s].rows \in SUBSET MatchRow
  BY DEF StatesIInv, OutputRecord
<1>3. /\ made \in SUBSET MatchRow /\ Covered(made) = Covered(outputs[s].rows)
      /\ outputs[s].rows \ Failed(outputs[s].rows) \subseteq made
  BY <1>2, RetriedKeeps
<1>4. fixed'.before = outputs[s].rows /\ fixed'.rows = made
      /\ fixed' \in [before : SUBSET MatchRow, rows : SUBSET MatchRow]
  BY <1>1, <1>2, <1>3
<1>5. RetryKeeps'
  BY <1>3, <1>4 DEF RetryKeeps
<1>6. UNCHANGED <<stores, dumping, brCache, allRun, stateWork, outputs, quota>>
  BY DEF RetryErrors
<1>7. StatesBounded'
  BY <1>6 DEF StatesIInv, StatesBounded, BusyStates
<1>8. QED
  BY <1>4, <1>5, <1>6, <1>7 DEF StatesIInv, StateFits

LEMMA StatesStep == StatesIInv /\ [StatesNext]_stateVars => StatesIInv'
<1> SUFFICES ASSUME StatesIInv, [StatesNext]_stateVars PROVE StatesIInv'
  OBVIOUS
<1>1. CASE KillGenerator \/ UseUpQuota
  BY <1>1, GeneratorStep
<1>2. CASE StartAll \/ EndAll
  BY <1>2, StateRunStep
<1>3. ASSUME NEW ss \in (SUBSET GoldState) \ {{}}, NEW n, MatchSome(ss, n) PROVE StatesIInv'
  BY <1>3, MatchSomeStep
<1>4. ASSUME NEW s \in GoldState, OpenStore(s) \/ CloseStore(s) PROVE StatesIInv'
  BY <1>4, GeneratorStep
<1>5. ASSUME NEW s \in GoldState, StartState(s) PROVE StatesIInv'
  BY <1>5, StartStateStep
<1>6. ASSUME NEW s \in GoldState, SaveParquet(s) PROVE StatesIInv'
  BY <1>6, SaveParquetStep
<1>7. ASSUME NEW s \in GoldState, SaveTsv(s) \/ GiveUpState(s) PROVE StatesIInv'
  BY <1>7, LeaveStateStep
<1>8. ASSUME NEW s \in GoldState, RetryErrors(s) PROVE StatesIInv'
  BY <1>8, RetryStep
<1>9. ASSUME NEW s \in GoldState, NEW p \in Position, MatchPosition(s, p) PROVE StatesIInv'
  BY <1>9, MatchPositionStep
<1>10. CASE UNCHANGED stateVars
  <2>1. StatesBounded' /\ RetryKeeps'
    BY <1>10 DEF stateVars, StatesIInv, StatesBounded, BusyStates, RetryKeeps
  <2>2. QED
    BY <1>10, <2>1 DEF stateVars, StatesIInv, StateFits
<1>11. QED
  BY <1>1, <1>2, <1>3, <1>4, <1>5, <1>6, <1>7, <1>8, <1>9, <1>10 DEF StatesNext

(* Only a run that matches writes the file, and it found none.             *)
LEMMA FileStep ==
  StatesIInv /\ [StatesNext]_stateVars =>
    [\A s \in GoldState : outputs[s].parquet = "whole" =>
       outputs'[s].rows = outputs[s].rows /\ outputs'[s].parquet = "whole"]_stateVars
<1> SUFFICES ASSUME StatesIInv, StatesNext, NEW s \in GoldState, outputs[s].parquet = "whole"
             PROVE  outputs'[s].rows = outputs[s].rows /\ outputs'[s].parquet = "whole"
  OBVIOUS
<1>0. outputs \in [GoldState -> OutputRecord] /\ outputs[s] \in OutputRecord /\ stateWork[s].at # "match"
  BY DEF StatesIInv, StateFits
<1>1. ASSUME NEW x \in GoldState, SaveParquet(x)
      PROVE outputs'[s].rows = outputs[s].rows /\ outputs'[s].parquet = "whole"
  <2>1. x # s
    BY <1>0, <1>1 DEF SaveParquet
  <2>2. QED
    BY <1>0, <1>1, <2>1 DEF SaveParquet
<1>2. ASSUME NEW x \in GoldState, SaveTsv(x)
      PROVE outputs'[s].rows = outputs[s].rows /\ outputs'[s].parquet = "whole"
  BY <1>0, <1>2 DEF SaveTsv, OutputRecord
<1>3. CASE UNCHANGED outputs
  BY <1>3
<1>4. QED
  BY <1>1, <1>2, <1>3
     DEF StatesNext, KillGenerator, StartAll, EndAll, UseUpQuota, MatchSome, OpenStore, CloseStore,
         StartState, GiveUpState, RetryErrors, MatchPosition

(* The programs of the golden data (stitch_golden_data/) meet in files     *)
(* only and may be killed anywhere: a state's file has one row for each    *)
(* position that was loaded for it, no more states run than                *)
(* max_concurrent_states, and retry_errors loses no row.                   *)
THEOREM FilesAreConsistent == StatesSpec => []StatesInv
<1>1. StatesInit => StatesIInv
  BY StatesStart
<1>2. StatesIInv /\ [StatesNext]_stateVars => StatesIInv'
  BY StatesStep
<1>3. StatesIInv => StatesInv
  BY StatesImplied
<1>4. QED
  BY <1>1, <1>2, <1>3, PTL DEF StatesSpec

(* No later run of all states writes a file that is whole again            *)
(* (process_single_state skips a state whose file is there).               *)
THEOREM FilesAreFinal == StatesSpec => FileFinal
<1>1. StatesInit => StatesIInv
  BY StatesStart
<1>2. StatesIInv /\ [StatesNext]_stateVars => StatesIInv'
  BY StatesStep
<1>3. StatesIInv /\ [StatesNext]_stateVars =>
        [\A s \in GoldState : outputs[s].parquet = "whole" =>
           outputs'[s].rows = outputs[s].rows /\ outputs'[s].parquet = "whole"]_stateVars
  BY FileStep
<1>4. QED
  BY <1>1, <1>2, <1>3, PTL DEF StatesSpec, FileFinal

-----------------------------------------------------------------------------
(* The matching Lambda                                                     *)

ServiceRecord == [llm : Nat, embed : Nat]
SpendRecord == [assess : Nat, embed : Nat, select : Nat]
VectorsRecord == [version : 0 .. MaxVersion, whole : BOOLEAN]
RequestRecord ==
  [at : {"none", "assess", "load", "cache", "embed", "select"}, region : ServedState \cup {""},
   attempt : Nat, slept : Nat, vectors : 0 .. MaxVersion, before : Nat]

(* What the provers are not told of the exponents of the backoff, and what *)
(* follows from it.                                                        *)
Doubles == \A n \in Nat : 2 ^ n \in Nat \ {0} /\ 2 ^ (n + 1) = 2 * 2 ^ n

PowersOfTwo ==
  /\ \A n \in Nat : 2 ^ n \in Nat \ {0} /\ 2 ^ (n + 1) = 2 * 2 ^ n
  /\ \A m, n \in Nat : m <= n => 2 ^ m <= 2 ^ n

LEMMA PowersGrow == ASSUME Doubles PROVE PowersOfTwo
<1> DEFINE Wrong == {n \in Nat : \E m \in Nat : m <= n /\ ~(2 ^ m <= 2 ^ n)}
<1>1. SUFFICES ASSUME Wrong # {} PROVE FALSE
  BY DEF Doubles, PowersOfTwo
<1>2. PICK n \in Wrong : \A k \in Wrong : <<k, n>> \notin OpToRel(<, Nat)
  <2>1. Wrong \subseteq Nat
    OBVIOUS
  <2>2. QED
    BY <1>1, <2>1, WFMin, NatLessThanWellFounded, Zenon
<1>3. \A k \in Wrong : ~(k < n)
  <2>1. \A k \in Wrong : k \in Nat
    OBVIOUS
  <2>2. QED
    BY <1>2, <2>1, Zenon DEF OpToRel
<1>4. PICK m \in Nat : m <= n /\ ~(2 ^ m <= 2 ^ n)
  OBVIOUS
<1>5. m # n
  BY <1>4 DEF Doubles
<1>6. PICK k \in Nat : n = k + 1 /\ m <= k /\ k < n
  <2>1. n - 1 \in Nat /\ n = (n - 1) + 1 /\ m <= n - 1 /\ n - 1 < n
    BY <1>4, <1>5
  <2>2. QED
    BY <2>1
<1>7. 2 ^ m <= 2 ^ k
  BY <1>3, <1>6
<1>8. 2 ^ (k + 1) = 2 * 2 ^ k /\ 2 ^ k \in Nat /\ 2 ^ m \in Nat
  BY DEF Doubles
<1>9. QED
  BY <1>4, <1>6, <1>7, <1>8

(* Where a request is, what it spent and what the counters of the process  *)
(* have: they have had it all since the process began, and a request that  *)
(* goes on with vectors has some.                                          *)
RequestFits(r, spent, counted) ==
  /\ r.at = "none" => r.slept = 0 /\ r.attempt = 0
  /\ r.at = "assess" =>
       /\ r.attempt <= AssessAttempts - 1 /\ r.slept = 2 ^ r.attempt - 1
       /\ spent.assess <= counted.llm /\ spent.embed = 0 /\ spent.select = 0
  /\ r.at \in {"load", "cache", "embed"} =>
       /\ r.attempt = 0 /\ r.slept <= 2 ^ (AssessAttempts - 1) - 1
       /\ r.before = counted.llm /\ spent.assess <= r.before /\ spent.embed = 0 /\ spent.select = 0
  /\ r.at \in {"cache", "embed", "select"} => r.vectors > 0
  /\ r.at = "select" =>
       /\ r.attempt <= SelectAttempts - 1
       /\ r.slept <= 2 ^ (AssessAttempts - 1) - 1 + 2 ^ r.attempt - 1
       /\ spent.assess <= r.before /\ spent.embed <= counted.embed
       /\ spent.select <= counted.llm - r.before

(* A reply is the last request's.                                          *)
ServiceIInv ==
  /\ objects \in [ServedState -> 0 .. MaxVersion] /\ tmp \in [ServedState -> VectorsRecord]
  /\ service \in ServiceRecord /\ request \in RequestRecord /\ requestSpend \in SpendRecord
  /\ reply.status \in {0, 200, 500} /\ requestCount \in 0 .. MaxRequests
  /\ RequestFits(request, requestSpend, service)
  /\ request.at # "none" => reply = Silence
  /\ WholeVectors /\ CostsCovered

LEMMA FirstPower == ASSUME NEW n, n = 0 PROVE 2 ^ n = 1
<1>1. 2 ^ n = 2 ^ 0
  BY Zenon
<1>2. 2 ^ 0 = 1
  OBVIOUS
<1>3. QED
  BY <1>1, <1>2, Zenon

LEMMA AssessmentWaits ==
  ASSUME PowersOfTwo, NEW n \in Nat, n <= AssessAttempts - 1
  PROVE  2 ^ n - 1 \in Nat /\ 2 ^ n - 1 <= 2 ^ (AssessAttempts - 1) - 1
<1>1. AssessAttempts - 1 \in Nat
  BY MatchAssumption
<1>2. QED
  BY <1>1 DEF PowersOfTwo

LEMMA ServiceImplied ==
  ASSUME PowersOfTwo, 2 ^ (AssessAttempts - 1) + 2 ^ (SelectAttempts - 1) - 2 < LambdaTimeout, ServiceIInv
  PROVE  ServiceInv
<1>a. /\ AssessAttempts - 1 \in Nat /\ SelectAttempts - 1 \in Nat /\ LambdaTimeout \in Nat \ {0}
      /\ AssessAttempts \in Nat /\ SelectAttempts \in Nat
  BY MatchAssumption
<1>b. request \in RequestRecord /\ RequestFits(request, requestSpend, service)
  BY DEF ServiceIInv
<1>c. request.attempt \in Nat /\ request.slept \in Nat
      /\ request.at \in {"none", "assess", "load", "cache", "embed", "select"}
  BY <1>b DEF RequestRecord
<1>1. /\ 2 ^ (AssessAttempts - 1) \in Nat \ {0} /\ 2 ^ (SelectAttempts - 1) \in Nat \ {0}
      /\ 2 ^ request.attempt \in Nat \ {0}
  BY <1>a, <1>c DEF PowersOfTwo
<1>2. request.attempt <= SelectAttempts - 1 => 2 ^ request.attempt <= 2 ^ (SelectAttempts - 1)
  BY <1>a, <1>c DEF PowersOfTwo
<1>3. request.attempt <= AssessAttempts - 1 => 2 ^ request.attempt <= 2 ^ (AssessAttempts - 1)
  BY <1>a, <1>c DEF PowersOfTwo
<1>d. /\ request.at = "none" => request.slept = 0 /\ request.attempt = 0
      /\ request.at = "assess" =>
           request.attempt <= AssessAttempts - 1 /\ request.slept = 2 ^ request.attempt - 1
      /\ request.at \in {"load", "cache", "embed"} =>
           request.attempt = 0 /\ request.slept <= 2 ^ (AssessAttempts - 1) - 1
      /\ request.at = "select" =>
           /\ request.attempt <= SelectAttempts - 1
           /\ request.slept <= 2 ^ (AssessAttempts - 1) - 1 + 2 ^ request.attempt - 1
  BY <1>b DEF RequestFits
<1>4. BackoffsFit
  <2>1. CASE request.at = "none"
    BY <1>a, <1>d, <2>1 DEF BackoffsFit
  <2>2. CASE request.at = "assess" \/ request.at \in {"load", "cache", "embed"}
    <3>1. request.slept <= 2 ^ (AssessAttempts - 1) - 1
      BY <1>a, <1>c, <1>d, <1>1, <1>3, <2>2
    <3>2. QED
      BY <1>a, <1>c, <1>1, <3>1 DEF BackoffsFit
  <2>3. CASE request.at = "select"
    BY <1>a, <1>c, <1>d, <1>1, <1>2, <2>3 DEF BackoffsFit
  <2>4. QED
    BY <1>c, <2>1, <2>2, <2>3
<1>5. MatchTypeOK
  <2>1. request.attempt \in 0 .. (IF request.at = "select" THEN SelectAttempts ELSE AssessAttempts) - 1
    BY <1>a, <1>c, <1>d
  <2>2. request.region \in ServedState \cup {""} /\ request.vectors \in 0 .. MaxVersion
    BY <1>b DEF RequestRecord
  <2>3. QED
    BY <1>c, <2>1, <2>2 DEF ServiceIInv, MatchTypeOK, ServiceRecord, SpendRecord, VectorsRecord
<1>6. QED
  BY <1>4, <1>5 DEF ServiceInv, ServiceIInv

LEMMA ServiceStart == MatchInit => ServiceIInv
<1> SUFFICES ASSUME MatchInit PROVE ServiceIInv
  OBVIOUS
<1>0. MaxVersion \in Nat \ {0} /\ MaxRequests \in Nat \ {0}
  BY MatchAssumption
<1>1. NoRequest \in RequestRecord /\ NoSpend \in SpendRecord /\ NoVectors \in VectorsRecord
  BY <1>0 DEF NoRequest, NoSpend, NoVectors, RequestRecord, SpendRecord, VectorsRecord
<1>2. NoRequest.at = "none" /\ NoRequest.slept = 0 /\ NoRequest.attempt = 0
      /\ Silence.status = 0 /\ Silence.matching = "none"
  BY DEF NoRequest, Silence
<1>3. QED
  BY <1>0, <1>1, <1>2
     DEF MatchInit, ServiceIInv, RequestFits, ServiceRecord, WholeVectors, CostsCovered

(* A call that came back with a text is in both accounts.                  *)
LEMMA CallCounted ==
  ASSUME service \in ServiceRecord, requestSpend \in SpendRecord, NEW p \in {"assess", "select"},
         NEW answer, GeminiCall(p, answer)
  PROVE  \E n \in {0, 1} :
           /\ service' \in ServiceRecord /\ service'.llm = service.llm + n /\ service'.embed = service.embed
           /\ requestSpend' \in SpendRecord /\ requestSpend'.embed = requestSpend.embed
           /\ requestSpend'.assess = requestSpend.assess + (IF p = "assess" THEN n ELSE 0)
           /\ requestSpend'.select = requestSpend.select + (IF p = "select" THEN n ELSE 0)
<1>1. CASE answer = "error"
  <2>1. UNCHANGED <<service, requestSpend>>
    BY <1>1 DEF GeminiCall
  <2>2. QED
    BY <2>1 DEF ServiceRecord, SpendRecord
<1>2. CASE answer # "error"
  <2>1. service' = [service EXCEPT !.llm = @ + 1] /\ requestSpend' = [requestSpend EXCEPT ![p] = @ + 1]
    BY <1>2 DEF GeminiCall
  <2>2. service' \in ServiceRecord /\ service'.llm = service.llm + 1 /\ service'.embed = service.embed
    BY <2>1 DEF ServiceRecord
  <2>3. CASE p = "assess"
    BY <2>1, <2>2, <2>3 DEF SpendRecord
  <2>4. CASE p = "select"
    BY <2>1, <2>2, <2>4 DEF SpendRecord
  <2>5. QED
    BY <2>3, <2>4
<1>3. QED
  BY <1>1, <1>2

(* A failed attempt and its sleep.                                         *)
LEMMA Retries ==
  ASSUME request \in RequestRecord, PowersOfTwo, NEW attempts \in Nat, MayRetry(attempts)
  PROVE  /\ request' \in RequestRecord /\ request'.at = request.at /\ request'.attempt = request.attempt + 1
         /\ request'.slept = request.slept + 2 ^ request.attempt
         /\ request'.vectors = request.vectors /\ request'.before = request.before
         /\ request'.attempt <= attempts - 1
         /\ 2 ^ request.attempt \in Nat \ {0} /\ 2 ^ request'.attempt = 2 * 2 ^ request.attempt
         /\ UNCHANGED <<objects, tmp, reply, requestCount>>
<1>1. request' = [request EXCEPT !.attempt = @ + 1, !.slept = @ + 2 ^ request.attempt]
      /\ request.attempt < attempts - 1 /\ UNCHANGED <<objects, tmp, reply, requestCount>>
  BY DEF MayRetry, Backoff
<1>2. request.attempt \in Nat /\ request.slept \in Nat
  BY DEF RequestRecord
<1>3. 2 ^ request.attempt \in Nat \ {0} /\ 2 ^ (request.attempt + 1) = 2 * 2 ^ request.attempt
  BY <1>2 DEF PowersOfTwo
<1>4. request.attempt + 1 \in Nat /\ request.slept + 2 ^ request.attempt \in Nat
  BY <1>2, <1>3
<1>5. request' \in RequestRecord
  BY <1>1, <1>4 DEF RequestRecord
<1>6. /\ request'.attempt = request.attempt + 1 /\ request'.slept = request.slept + 2 ^ request.attempt
      /\ request'.at = request.at /\ request'.vectors = request.vectors /\ request'.before = request.before
  BY <1>1 DEF RequestRecord
<1>7. QED
  BY <1>1, <1>2, <1>3, <1>5, <1>6

(* A request that goes on: the reply is not there yet.                     *)
LEMMA GoesOn ==
  ASSUME ServiceIInv, reply' = Silence, request' \in RequestRecord, requestSpend' \in SpendRecord,
         service' \in ServiceRecord, objects' \in [ServedState -> 0 .. MaxVersion],
         tmp' \in [ServedState -> VectorsRecord], requestCount' \in 0 .. MaxRequests,
         RequestFits(request, requestSpend, service)'
  PROVE  ServiceIInv'
<1>1. Silence.status = 0 /\ Silence.matching = "none"
  BY DEF Silence
<1>2. QED
  BY <1>1 DEF ServiceIInv, WholeVectors, CostsCovered

(* A request that is answered, by a reply that has its vectors and costs.  *)
LEMMA RequestAnswered ==
  ASSUME ServiceIInv, NEW status \in {200, 500}, NEW matching, NEW costs, Replies(status, matching, costs),
         service' \in ServiceRecord, requestSpend' \in SpendRecord,
         matching \in {"matched", "not_matched", "llm_error"} => request.vectors > 0,
         matching \in {"unmatchable", "matched", "not_matched", "llm_error"} =>
           /\ costs["assess"] >= requestSpend'["assess"] /\ costs["embed"] >= requestSpend'["embed"]
           /\ costs["select"] >= requestSpend'["select"]
  PROVE  ServiceIInv'
<1>1. NoRequest \in RequestRecord /\ NoRequest.at = "none" /\ NoRequest.slept = 0 /\ NoRequest.attempt = 0
  BY MatchAssumption DEF NoRequest, RequestRecord
<1>2. request' = NoRequest /\ UNCHANGED <<objects, tmp, requestCount>>
      /\ reply' = [status |-> status, matching |-> matching, costs |-> costs, vectors |-> request.vectors]
  BY DEF Replies
<1>3. WholeVectors'
  BY <1>2 DEF WholeVectors
<1>4. CostsCovered'
  BY <1>2 DEF CostsCovered
<1>5. QED
  BY <1>1, <1>2, <1>3, <1>4 DEF ServiceIInv, RequestFits

AskedRegion == ServedState \cup {""}

LEMMA AskStep ==
  ASSUME ServiceIInv, NEW r \in AskedRegion, Ask(r)
  PROVE  ServiceIInv'
<1>a. MaxVersion \in Nat \ {0} /\ MaxRequests \in Nat \ {0} /\ requestCount \in 0 .. MaxRequests
  BY MatchAssumption DEF ServiceIInv
<1>1. NoRequest \in RequestRecord /\ NoSpend \in SpendRecord
  BY <1>a DEF NoRequest, NoSpend, RequestRecord, SpendRecord
<1>2. /\ request' = [NoRequest EXCEPT !.at = "assess", !.region = r] /\ requestSpend' = NoSpend
      /\ reply' = Silence /\ UNCHANGED <<objects, tmp, service>> /\ requestCount < MaxRequests
      /\ requestCount' = requestCount + 1
  BY DEF Ask
<1>3. request' \in RequestRecord
  BY <1>1, <1>2 DEF RequestRecord, AskedRegion
<1>4. request'.at = "assess" /\ request'.attempt = 0 /\ request'.slept = 0
  BY <1>2 DEF NoRequest
<1>5. requestSpend'.assess = 0 /\ requestSpend'.embed = 0 /\ requestSpend'.select = 0
  BY <1>2 DEF NoSpend
<1>6. AssessAttempts - 1 \in Nat /\ service.llm \in Nat
  <2>1. AssessAttempts - 1 \in Nat
    BY MatchAssumption
  <2>2. service.llm \in Nat
    BY DEF ServiceIInv, ServiceRecord
  <2>3. QED
    BY <2>1, <2>2
<1>b. 2 ^ request'.attempt = 1
  <2>1. PICK n : n = request'.attempt /\ n = 0
    BY <1>4
  <2>2. QED
    BY <2>1, FirstPower, Zenon
<1>7. RequestFits(request, requestSpend, service)'
  <2>1. service' = service
    BY <1>2
  <2>2. QED
    BY <2>1, <1>4, <1>5, <1>6, <1>b DEF RequestFits
<1>8. requestCount' \in 0 .. MaxRequests
  BY <1>2, <1>a
<1>9. QED
  BY <1>1, <1>2, <1>3, <1>7, <1>8, GoesOn DEF ServiceIInv

LEMMA AssessStep ==
  ASSUME PowersOfTwo, ServiceIInv, Assess
  PROVE  ServiceIInv'
<1>0. /\ request \in RequestRecord /\ requestSpend \in SpendRecord /\ service \in ServiceRecord
      /\ RequestFits(request, requestSpend, service) /\ request.at = "assess" /\ reply = Silence
  BY DEF ServiceIInv, Assess
<1>t. /\ request.attempt \in Nat /\ request.slept \in Nat
      /\ requestSpend.assess \in Nat /\ requestSpend.embed \in Nat /\ requestSpend.select \in Nat
      /\ service.llm \in Nat /\ service.embed \in Nat
  BY <1>0 DEF RequestRecord, SpendRecord, ServiceRecord
<1>f. /\ request.attempt <= AssessAttempts - 1 /\ request.slept = 2 ^ request.attempt - 1
      /\ requestSpend.assess <= service.llm /\ requestSpend.embed = 0 /\ requestSpend.select = 0
  BY <1>0 DEF RequestFits
<1>1. PICK answer \in {"matchable", "unmatchable", "no_json", "error"} :
        /\ GeminiCall("assess", answer)
        /\ \/ /\ answer = "matchable"
              /\ request' = [request EXCEPT !.at = "load", !.attempt = 0, !.before = service'.llm]
              /\ UNCHANGED <<objects, tmp, reply, requestCount>>
           \/ Unmatchable(service'.llm)
           \/ MayRetry(AssessAttempts)
  BY DEF Assess
<1>2. PICK p \in {"assess", "select"} : p = "assess"
  OBVIOUS
<1>3. PICK n \in {0, 1} :
           /\ service' \in ServiceRecord /\ service'.llm = service.llm + n /\ service'.embed = service.embed
           /\ requestSpend' \in SpendRecord /\ requestSpend'.embed = requestSpend.embed
           /\ requestSpend'.assess = requestSpend.assess + (IF p = "assess" THEN n ELSE 0)
           /\ requestSpend'.select = requestSpend.select + (IF p = "select" THEN n ELSE 0)
  <2>1. GeminiCall(p, answer)
    BY <1>1, <1>2
  <2>2. QED
    BY ONLY <1>0, <2>1, CallCounted
<1>4. requestSpend'.assess = requestSpend.assess + n /\ requestSpend'.select = requestSpend.select
  BY <1>2, <1>3, <1>t
<1>5. CASE /\ request' = [request EXCEPT !.at = "load", !.attempt = 0, !.before = service'.llm]
           /\ UNCHANGED <<objects, tmp, reply, requestCount>>
  <2>1. service'.llm \in Nat
    BY <1>3 DEF ServiceRecord
  <2>2. request' \in RequestRecord
    BY <1>0, <1>5, <2>1 DEF RequestRecord
  <2>3. request'.at = "load" /\ request'.attempt = 0 /\ request'.slept = request.slept
        /\ request'.before = service'.llm
    BY <1>0, <1>5 DEF RequestRecord
  <2>4. request.slept <= 2 ^ (AssessAttempts - 1) - 1
    BY <1>t, <1>f, AssessmentWaits
  <2>5. RequestFits(request, requestSpend, service)'
    BY <1>t, <1>f, <1>3, <1>4, <2>3, <2>4 DEF RequestFits
  <2>6. QED
    BY <1>0, <1>3, <1>5, <2>2, <2>5, GoesOn DEF ServiceIInv
<1>6. CASE Unmatchable(service'.llm)
  <2>1. PICK costs : costs = [NoSpend EXCEPT !.assess = service'.llm]
    OBVIOUS
  <2>2. PICK status \in {200, 500} : status = 200
    OBVIOUS
  <2>3. Replies(status, "unmatchable", costs)
    BY <1>6, <2>1, <2>2 DEF Unmatchable
  <2>4. costs["assess"] = service'.llm /\ costs["embed"] = 0 /\ costs["select"] = 0
    BY <2>1 DEF NoSpend
  <2>5. /\ costs["assess"] >= requestSpend'["assess"] /\ costs["embed"] >= requestSpend'["embed"]
        /\ costs["select"] >= requestSpend'["select"]
    BY <1>t, <1>f, <1>3, <1>4, <2>4
  <2>6. PICK matching : matching = "unmatchable"
    OBVIOUS
  <2>7. QED
    BY <1>3, <2>3, <2>5, <2>6, RequestAnswered
<1>7. CASE MayRetry(AssessAttempts)
  <2>1. /\ request' \in RequestRecord /\ request'.at = request.at /\ request'.attempt = request.attempt + 1
        /\ request'.slept = request.slept + 2 ^ request.attempt
        /\ request'.attempt <= AssessAttempts - 1
        /\ 2 ^ request.attempt \in Nat \ {0} /\ 2 ^ request'.attempt = 2 * 2 ^ request.attempt
        /\ UNCHANGED <<objects, tmp, reply, requestCount>>
    BY <1>0, <1>7, MatchAssumption, Retries
  <2>2. request'.slept = 2 ^ request'.attempt - 1
    BY <1>f, <1>t, <2>1
  <2>3. RequestFits(request, requestSpend, service)'
    BY <1>0, <1>t, <1>f, <1>3, <1>4, <2>1, <2>2 DEF RequestFits
  <2>4. QED
    BY <1>0, <1>3, <2>1, <2>3, GoesOn DEF ServiceIInv
<1>8. QED
  BY <1>1, <1>5, <1>6, <1>7

LEMMA LoadStep ==
  ASSUME ServiceIInv, LoadVectors
  PROVE  ServiceIInv'
<1>0. /\ request \in RequestRecord /\ requestSpend \in SpendRecord /\ service \in ServiceRecord
      /\ RequestFits(request, requestSpend, service) /\ request.at = "load" /\ reply = Silence
      /\ UNCHANGED <<service, requestSpend, requestCount, objects>>
      /\ objects \in [ServedState -> 0 .. MaxVersion] /\ tmp \in [ServedState -> VectorsRecord]
  BY DEF ServiceIInv, LoadVectors
<1>f. /\ request.attempt = 0 /\ request.slept <= 2 ^ (AssessAttempts - 1) - 1
      /\ request.before = service.llm /\ requestSpend.assess <= request.before
      /\ requestSpend.embed = 0 /\ requestSpend.select = 0
  BY <1>0 DEF RequestFits
<1>1. CASE \E m \in {"no_state", "no_vectors"} : Replies(200, m, NoSpend)
  BY <1>0, <1>1, RequestAnswered
<1>2. ASSUME Derived, Readable(tmp[request.region]), UNCHANGED <<tmp, reply>>,
             request' = [request EXCEPT !.at = "embed",
                !.vectors = IF tmp[request.region].whole THEN tmp[request.region].version ELSE 0]
      PROVE ServiceIInv'
  <2>1. request.region \in ServedState
    BY <1>0, <1>2 DEF Derived, RequestRecord
  <2>2. PICK v \in 0 .. MaxVersion : v = tmp[request.region].version /\ v > 0
    BY <1>0, <1>2, <2>1 DEF Readable, VectorsRecord
  <2>3. request' = [request EXCEPT !.at = "embed", !.vectors = v]
    BY <1>2, <2>2 DEF Readable
  <2>4. request' \in RequestRecord
    BY <1>0, <2>3 DEF RequestRecord
  <2>5. /\ request'.at = "embed" /\ request'.vectors = v /\ request'.attempt = request.attempt
        /\ request'.slept = request.slept /\ request'.before = request.before
    BY <1>0, <2>3 DEF RequestRecord
  <2>6. RequestFits(request, requestSpend, service)'
    BY <1>0, <1>f, <2>2, <2>5 DEF RequestFits
  <2>7. QED
    BY <1>0, <1>2, <2>4, <2>6, GoesOn DEF ServiceIInv
<1>3. ASSUME Derived, objects[request.region] > 0, UNCHANGED reply,
             request' = [request EXCEPT !.at = "cache", !.vectors = objects[request.region]],
             tmp' = [tmp EXCEPT ![request.region] = [version |-> objects[request.region], whole |-> FALSE]]
      PROVE ServiceIInv'
  <2>1. request.region \in ServedState
    BY <1>0, <1>3 DEF Derived, RequestRecord
  <2>2. PICK v \in 0 .. MaxVersion : v = objects[request.region] /\ v > 0
    BY <1>0, <1>3, <2>1
  <2>3. request' = [request EXCEPT !.at = "cache", !.vectors = v]
    BY <1>3, <2>2
  <2>4. request' \in RequestRecord
    BY <1>0, <2>3 DEF RequestRecord
  <2>5. /\ request'.at = "cache" /\ request'.vectors = v /\ request'.attempt = request.attempt
        /\ request'.slept = request.slept /\ request'.before = request.before
    BY <1>0, <2>3 DEF RequestRecord
  <2>6. RequestFits(request, requestSpend, service)'
    BY <1>0, <1>f, <2>2, <2>5 DEF RequestFits
  <2>7. tmp' \in [ServedState -> VectorsRecord]
    BY <1>0, <1>3, <2>2 DEF VectorsRecord
  <2>8. QED
    BY <1>0, <1>3, <2>4, <2>6, <2>7, GoesOn DEF ServiceIInv
<1>4. QED
  BY <1>1, <1>2, <1>3 DEF LoadVectors

LEMMA CacheEmbedStep ==
  ASSUME PowersOfTwo, ServiceIInv, WriteCache \/ Embed
  PROVE  ServiceIInv'
<1>0. /\ request \in RequestRecord /\ requestSpend \in SpendRecord /\ service \in ServiceRecord
      /\ RequestFits(request, requestSpend, service) /\ request.at \in {"cache", "embed"} /\ reply = Silence
      /\ objects \in [ServedState -> 0 .. MaxVersion] /\ tmp \in [ServedState -> VectorsRecord]
      /\ requestCount \in 0 .. MaxRequests
  BY DEF ServiceIInv, WriteCache, Embed
<1>f. /\ request.attempt = 0 /\ request.slept <= 2 ^ (AssessAttempts - 1) - 1 /\ request.vectors > 0
      /\ request.before = service.llm /\ requestSpend.assess <= request.before
      /\ requestSpend.embed = 0 /\ requestSpend.select = 0
  BY <1>0 DEF RequestFits
<1>t. requestSpend.assess \in Nat /\ service.llm \in Nat /\ service.embed \in Nat /\ request.slept \in Nat
      /\ request.before \in Nat
  BY <1>0 DEF SpendRecord, ServiceRecord, RequestRecord
<1>1. CASE WriteCache
  <2>1. /\ request' = [request EXCEPT !.at = "embed"] /\ UNCHANGED <<objects, service, requestSpend, reply, requestCount>>
    BY <1>1 DEF WriteCache
  <2>2. tmp' \in [ServedState -> VectorsRecord]
    <3>1. PICK whole \in BOOLEAN : tmp' = [tmp EXCEPT ![request.region].whole = whole]
      BY <1>1 DEF WriteCache
    <3>2. \A r \in ServedState : [tmp[r] EXCEPT !.whole = whole] \in VectorsRecord
      BY <1>0 DEF VectorsRecord
    <3>3. QED
      BY <1>0, <3>1, <3>2
  <2>3. request' \in RequestRecord
    BY <1>0, <2>1 DEF RequestRecord
  <2>4. /\ request'.at = "embed" /\ request'.vectors = request.vectors /\ request'.attempt = request.attempt
        /\ request'.slept = request.slept /\ request'.before = request.before
    BY <1>0, <2>1 DEF RequestRecord
  <2>5. RequestFits(request, requestSpend, service)'
    BY <1>f, <2>1, <2>4 DEF RequestFits
  <2>6. QED
    BY <1>0, <2>1, <2>2, <2>3, <2>5, GoesOn
<1>2. CASE /\ RequestAt("select") /\ service' = [service EXCEPT !.embed = @ + 2]
           /\ requestSpend' = [requestSpend EXCEPT !.embed = 2]
  <2>1. /\ request' = [request EXCEPT !.at = "select", !.attempt = 0]
        /\ UNCHANGED <<objects, tmp, reply, requestCount>>
    BY <1>2 DEF RequestAt
  <2>2. request' \in RequestRecord
    BY <1>0, <2>1 DEF RequestRecord
  <2>3. /\ request'.at = "select" /\ request'.vectors = request.vectors /\ request'.attempt = 0
        /\ request'.slept = request.slept /\ request'.before = request.before
    BY <1>0, <2>1 DEF RequestRecord
  <2>4. /\ service' \in ServiceRecord /\ service'.llm = service.llm /\ service'.embed = service.embed + 2
    BY <1>0, <1>2 DEF ServiceRecord
  <2>5. /\ requestSpend' \in SpendRecord /\ requestSpend'.assess = requestSpend.assess
        /\ requestSpend'.embed = 2 /\ requestSpend'.select = 0
    BY <1>0, <1>2, <1>f DEF SpendRecord
  <2>a. 2 ^ request'.attempt = 1
    <3>1. PICK n : n = request'.attempt /\ n = 0
      BY <2>3
    <3>2. QED
      BY <3>1, FirstPower, Zenon
  <2>6. SelectAttempts - 1 \in Nat /\ 2 ^ (AssessAttempts - 1) \in Nat
    BY MatchAssumption DEF PowersOfTwo
  <2>7. RequestFits(request, requestSpend, service)'
    BY <1>f, <1>t, <2>3, <2>4, <2>5, <2>6, <2>a DEF RequestFits
  <2>8. QED
    BY <1>0, <2>1, <2>2, <2>4, <2>5, <2>7, GoesOn
<1>3. CASE \E done \in 0 .. 1 : /\ Replies(500, "none", NoSpend) /\ UNCHANGED service
                                /\ requestSpend' = [requestSpend EXCEPT !.embed = done]
  <2>1. requestSpend' \in SpendRecord /\ service' \in ServiceRecord
    BY <1>0, <1>3 DEF SpendRecord
  <2>2. PICK status, matching : status \in {200, 500} /\ status = 500 /\ matching = "none"
    OBVIOUS
  <2>3. Replies(status, matching, NoSpend)
    BY <1>3, <2>2
  <2>4. QED
    BY <2>1, <2>2, <2>3, RequestAnswered
<1>4. QED
  BY <1>1, <1>2, <1>3 DEF Embed

LEMMA SelectStep ==
  ASSUME PowersOfTwo, ServiceIInv, Select
  PROVE  ServiceIInv'
<1>0. /\ request \in RequestRecord /\ requestSpend \in SpendRecord /\ service \in ServiceRecord
      /\ RequestFits(request, requestSpend, service) /\ request.at = "select" /\ reply = Silence
  BY DEF ServiceIInv, Select
<1>t. /\ request.attempt \in Nat /\ request.slept \in Nat /\ request.before \in Nat
      /\ requestSpend.assess \in Nat /\ requestSpend.embed \in Nat /\ requestSpend.select \in Nat
      /\ service.llm \in Nat /\ service.embed \in Nat
  BY <1>0 DEF RequestRecord, SpendRecord, ServiceRecord
<1>f. /\ request.attempt <= SelectAttempts - 1 /\ request.vectors > 0
      /\ request.slept <= 2 ^ (AssessAttempts - 1) - 1 + 2 ^ request.attempt - 1
      /\ requestSpend.assess <= request.before /\ requestSpend.embed <= service.embed
      /\ requestSpend.select <= service.llm - request.before
  BY <1>0 DEF RequestFits
<1>1. PICK answer \in {"number", "incomplete", "no_json", "error"} :
        /\ GeminiCall("select", answer)
        /\ \/ \E m \in {"matched", "not_matched", "llm_error"} : Replies(200, m, Costs(service'.llm))
           \/ Replies(500, "none", NoSpend)
           \/ MayRetry(SelectAttempts)
  BY DEF Select
<1>2. PICK p \in {"assess", "select"} : p = "select"
  OBVIOUS
<1>3. PICK n \in {0, 1} :
           /\ service' \in ServiceRecord /\ service'.llm = service.llm + n /\ service'.embed = service.embed
           /\ requestSpend' \in SpendRecord /\ requestSpend'.embed = requestSpend.embed
           /\ requestSpend'.assess = requestSpend.assess + (IF p = "assess" THEN n ELSE 0)
           /\ requestSpend'.select = requestSpend.select + (IF p = "select" THEN n ELSE 0)
  <2>1. GeminiCall(p, answer)
    BY <1>1, <1>2
  <2>2. QED
    BY ONLY <1>0, <2>1, CallCounted
<1>4. requestSpend'.assess = requestSpend.assess /\ requestSpend'.select = requestSpend.select + n
  BY <1>2, <1>3, <1>t
<1>5. ASSUME NEW m \in {"matched", "not_matched", "llm_error"}, Replies(200, m, Costs(service'.llm))
      PROVE ServiceIInv'
  <2>1. PICK costs : costs = Costs(service'.llm)
    OBVIOUS
  <2>2. PICK status \in {200, 500} : status = 200
    OBVIOUS
  <2>3. Replies(status, m, costs)
    BY <1>5, <2>1, <2>2
  <2>4. costs["assess"] = request.before /\ costs["embed"] = service.embed
        /\ costs["select"] = service'.llm - request.before
    BY <2>1 DEF Costs
  <2>5. /\ costs["assess"] >= requestSpend'["assess"] /\ costs["embed"] >= requestSpend'["embed"]
        /\ costs["select"] >= requestSpend'["select"]
    BY <1>t, <1>f, <1>3, <1>4, <2>4
  <2>6. QED
    BY <1>3, <1>f, <2>3, <2>5, RequestAnswered
<1>6. CASE Replies(500, "none", NoSpend)
  <2>1. PICK status, matching : status \in {200, 500} /\ status = 500 /\ matching = "none"
    OBVIOUS
  <2>2. Replies(status, matching, NoSpend)
    BY <1>6, <2>1
  <2>3. QED
    BY <1>3, <2>1, <2>2, RequestAnswered
<1>7. CASE MayRetry(SelectAttempts)
  <2>1. /\ request' \in RequestRecord /\ request'.at = request.at /\ request'.attempt = request.attempt + 1
        /\ request'.slept = request.slept + 2 ^ request.attempt
        /\ request'.vectors = request.vectors /\ request'.before = request.before
        /\ request'.attempt <= SelectAttempts - 1
        /\ 2 ^ request.attempt \in Nat \ {0} /\ 2 ^ request'.attempt = 2 * 2 ^ request.attempt
        /\ UNCHANGED <<objects, tmp, reply, requestCount>>
    BY <1>0, <1>7, MatchAssumption, Retries
  <2>a. 2 ^ (AssessAttempts - 1) \in Nat
    BY MatchAssumption DEF PowersOfTwo
  <2>2. request'.slept <= 2 ^ (AssessAttempts - 1) - 1 + 2 ^ request'.attempt - 1
    BY <1>f, <1>t, <2>1, <2>a
  <2>3. RequestFits(request, requestSpend, service)'
    BY <1>0, <1>t, <1>f, <1>3, <1>4, <2>1, <2>2 DEF RequestFits
  <2>4. QED
    BY <1>0, <1>3, <2>1, <2>3, GoesOn DEF ServiceIInv
<1>8. QED
  BY <1>1, <1>5, <1>6, <1>7

(* Uploads, and the end of the process: the counters go, /tmp stays.       *)
LEMMA OutsideStep ==
  ASSUME ServiceIInv, TimeOut \/ \E r \in ServedState : UploadVectors(r)
  PROVE  ServiceIInv'
<1>1. ASSUME NEW r \in ServedState, UploadVectors(r) PROVE ServiceIInv'
  <2>1. objects' \in [ServedState -> 0 .. MaxVersion]
    BY <1>1, MatchAssumption DEF UploadVectors, ServiceIInv
  <2>2. QED
    BY <1>1, <2>1 DEF UploadVectors, ServiceIInv, RequestFits, WholeVectors, CostsCovered
<1>2. CASE TimeOut
  <2>1. NoRequest \in RequestRecord /\ NoRequest.at = "none" /\ NoRequest.slept = 0 /\ NoRequest.attempt = 0
    BY MatchAssumption DEF NoRequest, RequestRecord
  <2>2. /\ request' = NoRequest /\ service' \in ServiceRecord /\ reply' = Silence
        /\ UNCHANGED <<objects, tmp, requestSpend, requestCount>>
    BY <1>2 DEF TimeOut, ServiceRecord
  <2>3. RequestFits(request, requestSpend, service)'
    BY <2>1, <2>2 DEF RequestFits
  <2>4. QED
    BY <2>1, <2>2, <2>3, GoesOn DEF ServiceIInv
<1>3. QED
  BY <1>1, <1>2

LEMMA ServiceStep ==
  ASSUME PowersOfTwo, ServiceIInv, [MatchNext]_matchVars
  PROVE  ServiceIInv'
<1>1. CASE UNCHANGED matchVars
  BY <1>1 DEF matchVars, ServiceIInv, RequestFits, WholeVectors, CostsCovered
<1>2. CASE MatchNext
  <2>1. ASSUME NEW r \in ServedState, Ask(r) PROVE ServiceIInv'
    BY <2>1, AskStep DEF AskedRegion
  <2>2. CASE Ask("")
    <3>1. PICK r \in AskedRegion : r = ""
      BY DEF AskedRegion
    <3>2. QED
      BY <2>2, <3>1, AskStep
  <2>3. CASE Assess
    BY <2>3, AssessStep
  <2>4. CASE LoadVectors
    BY <2>4, LoadStep
  <2>5. CASE WriteCache \/ Embed
    BY <2>5, CacheEmbedStep
  <2>6. CASE Select
    BY <2>6, SelectStep
  <2>7. CASE TimeOut \/ \E r \in ServedState : UploadVectors(r)
    BY <2>7, OutsideStep
  <2>8. QED
    BY <1>2, <2>1, <2>2, <2>3, <2>4, <2>5, <2>6, <2>7 DEF MatchNext
<1>3. QED
  BY <1>1, <1>2

(* The warm container of the matching Lambda                               *)
(* (bronze_data/deployment/lambda_function.py) answers from whole vectors  *)
(* only, tells each caller no less than its request cost, and, with        *)
(* attempts few enough, has not slept its time away, for any number of     *)
(* requests, time-outs and uploads.  Doubles is arithmetic.                *)
THEOREM AnswersArePaid ==
  ASSUME Doubles, 2 ^ (AssessAttempts - 1) + 2 ^ (SelectAttempts - 1) - 2 < LambdaTimeout
  PROVE  MatchSpec => []ServiceInv
<1>0. PowersOfTwo
  BY PowersGrow
<1>1. MatchInit => ServiceIInv
  BY <1>0, ServiceStart
<1>2. ServiceIInv /\ [MatchNext]_matchVars => ServiceIInv'
  BY <1>0, ServiceStep
<1>3. ServiceIInv => ServiceInv
  BY <1>0, ServiceImplied
<1>4. QED
  BY <1>1, <1>2, <1>3, PTL DEF MatchSpec

-----------------------------------------------------------------------------
(* The unmatched users                                                     *)

(* Files that are named by the time they were written, one of them last.   *)
FilesOK(files) ==
  /\ DOMAIN files \subseteq Nat \ {0}
  /\ files # Empty => \E t \in DOMAIN files : \A other \in DOMAIN files : other <= t

LEMMA EmptyFiles == FilesOK(Empty) /\ DOMAIN Empty = {} /\ NextRun(Empty) = 1
BY DEF FilesOK, Empty, NextRun

LEMMA NewestIs ==
  ASSUME NEW files, FilesOK(files), files # Empty
  PROVE  Newest(files) \in DOMAIN files /\ \A t \in DOMAIN files : t <= Newest(files)
BY DEF FilesOK, Newest

LEMMA NextIs ==
  ASSUME NEW files, FilesOK(files)
  PROVE  NextRun(files) \in Nat \ {0} /\ \A t \in DOMAIN files : t < NextRun(files)
<1>1. CASE files = Empty
  BY <1>1, EmptyFiles
<1>2. CASE files # Empty
  <2>1. Newest(files) \in Nat \ {0} /\ \A t \in DOMAIN files : t \in Nat /\ t <= Newest(files)
    BY <1>2, NewestIs DEF FilesOK
  <2>2. NextRun(files) = Newest(files) + 1
    BY <1>2 DEF NextRun
  <2>3. QED
    BY <2>1, <2>2
<1>3. QED
  BY <1>1, <1>2

LEMMA FilesAdded ==
  ASSUME NEW files, FilesOK(files), NEW t \in Nat \ {0}, \A other \in DOMAIN files : other <= t,
         NEW whole, NEW rows
  PROVE  /\ FilesOK(Add(files, t, whole, rows)) /\ DOMAIN Add(files, t, whole, rows) = DOMAIN files \cup {t}
         /\ Add(files, t, whole, rows)[t] = [whole |-> whole, rows |-> rows]
         /\ \A x \in DOMAIN files : x # t => Add(files, t, whole, rows)[x] = files[x]
<1>1. /\ DOMAIN Add(files, t, whole, rows) = DOMAIN files \cup {t}
      /\ Add(files, t, whole, rows)[t] = [whole |-> whole, rows |-> rows]
      /\ \A x \in DOMAIN files : x # t => Add(files, t, whole, rows)[x] = files[x]
  BY DEF Add
<1>2. FilesOK(Add(files, t, whole, rows))
  BY <1>1 DEF FilesOK
<1>3. QED
  BY <1>1, <1>2

-----------------------------------------------------------------------------

(* The rows of a complete file that are of a category.                     *)
OfCategory(rows, c) == [u \in {v \in DOMAIN rows : rows[v] = c} |-> c]

SplitAs(split, whole, c) ==
  \A t \in DOMAIN split :
    t \in DOMAIN whole /\ whole[t].whole /\ split[t].rows = OfCategory(whole[t].rows, c)

(* An assessment that is saved is the newest complete file; a match that   *)
(* is not of the raw export is of users whom some assessment accepted.     *)
ProgramFits(p, assessments) ==
  /\ p = [name |-> p.name, rows |-> p.rows, made |-> p.made, source |-> p.source]
  /\ p.rows \subseteq User /\ DOMAIN p.made \subseteq p.rows
  /\ p.name = "assess" => NextRun(assessments) <= MaxRuns
  /\ p.name \in {"complete", "accepted"} =>
       /\ assessments # Empty /\ assessments[Newest(assessments)].whole
       /\ assessments[Newest(assessments)].rows = p.made /\ DOMAIN p.made = p.rows
  /\ p.name = "match" =>
       /\ \A u \in DOMAIN p.made : p.made[u] \in MatchOutcome
       /\ p.source # "raw" =>
            \A u \in p.rows : \E t \in DOMAIN assessments :
              u \in DOMAIN assessments[t].rows /\ assessments[t].rows[u] = "Matchable"

UsersIInv ==
  /\ FilesOK(exports) /\ FilesOK(complete) /\ FilesOK(accepted) /\ FilesOK(rejected) /\ FilesOK(matches)
  /\ \A t \in DOMAIN exports : exports[t].rows \subseteq User
  /\ DOMAIN complete \subseteq 1 .. MaxRuns
  /\ \A t \in DOMAIN complete : DOMAIN complete[t].rows \subseteq User
  /\ SplitAs(accepted, complete, "Matchable") /\ SplitAs(rejected, complete, "Unmatchable")
  /\ \A t \in DOMAIN matches : \A u \in DOMAIN matches[t].rows : matches[t].rows[u] \in MatchOutcome
  /\ ProgramFits(program, complete)

LEMMA UsersImplied == UsersIInv => UsersInv
<1> SUFFICES ASSUME UsersIInv PROVE UsersInv
  OBVIOUS
<1>1. SplitOfComplete
  BY DEF UsersIInv, SplitOfComplete, SplitAs, OfCategory
<1>2. \A t \in DOMAIN accepted : \A u \in DOMAIN accepted[t].rows : accepted[t].rows[u] = "Matchable"
  BY DEF UsersIInv, SplitAs, OfCategory
<1>3. \A f \in {complete, accepted, rejected} : DOMAIN f \subseteq 1 .. MaxRuns
  BY DEF UsersIInv, SplitAs
<1>4. RejectedNotMatched
  BY DEF UsersIInv, ProgramFits, RejectedNotMatched
<1>5. UsersTypeOK
  BY <1>2, <1>3 DEF UsersIInv, ProgramFits, UsersTypeOK
<1>6. QED
  BY <1>1, <1>4, <1>5 DEF UsersInv

LEMMA IdleFits == ASSUME NEW files PROVE ProgramFits(NoProgram, files)
BY DEF ProgramFits, NoProgram

LEMMA UsersStart == UsersInit => UsersIInv
<1> SUFFICES ASSUME UsersInit PROVE UsersIInv
  OBVIOUS
<1>1. /\ exports = Empty /\ complete = Empty /\ accepted = Empty /\ rejected = Empty /\ matches = Empty
      /\ program = NoProgram
  BY DEF UsersInit
<1>2. ProgramFits(program, complete)
  BY <1>1, IdleFits
<1>3. QED
  BY <1>1, <1>2, EmptyFiles DEF UsersIInv, SplitAs

(* The program ends, or never was: nothing but its files is left.          *)
LEMMA ExportStep ==
  ASSUME UsersIInv, Export \/ StopProgram
  PROVE  UsersIInv'
<1>1. CASE Export
  <2>1. PICK wanted \in (SUBSET User) \ {{}}, whole \in BOOLEAN :
          exports' = Add(exports, NextRun(exports), whole, wanted)
    BY <1>1 DEF Export
  <2>2. FilesOK(exports) /\ NextRun(exports) \in Nat \ {0} /\ \A t \in DOMAIN exports : t < NextRun(exports)
    BY NextIs DEF UsersIInv
  <2>3. DOMAIN exports \subseteq Nat
    BY DEF UsersIInv, FilesOK
  <2>4. PICK n \in Nat \ {0} : n = NextRun(exports)
    BY <2>2
  <2>5. \A t \in DOMAIN exports : t <= n
    BY <2>2, <2>3, <2>4
  <2>6. /\ FilesOK(exports') /\ DOMAIN exports' = DOMAIN exports \cup {n}
        /\ exports'[n] = [whole |-> whole, rows |-> wanted]
        /\ \A x \in DOMAIN exports : x # n => exports'[x] = exports[x]
    BY <2>1, <2>2, <2>4, <2>5, FilesAdded
  <2>7. \A t \in DOMAIN exports' : exports'[t].rows \subseteq User
    BY <2>6 DEF UsersIInv
  <2>8. UNCHANGED <<complete, accepted, rejected, matches, program>>
    BY <1>1 DEF Export
  <2>9. QED
    BY <2>6, <2>7, <2>8 DEF UsersIInv
<1>2. CASE StopProgram
  <2>1. program' = NoProgram /\ UNCHANGED <<exports, complete, accepted, rejected, matches>>
    BY <1>2 DEF StopProgram
  <2>2. ProgramFits(program', complete')
    BY <2>1, IdleFits
  <2>3. QED
    BY <2>1, <2>2 DEF UsersIInv
<1>3. QED
  BY <1>1, <1>2

(* A program that goes on with no file of it changed.                      *)
LEMMA OnlyProgram ==
  ASSUME UsersIInv, NEW p, program' = p, ProgramFits(p, complete),
         UNCHANGED <<exports, complete, accepted, rejected, matches>>
  PROVE  UsersIInv'
BY DEF UsersIInv

LEMMA StartAssessmentStep ==
  ASSUME UsersIInv, StartAssessment
  PROVE  UsersIInv'
<1>1. PICK rows : rows = exports[Newest(exports)].rows
  OBVIOUS
<1>2. rows \subseteq User
  BY <1>1, NewestIs DEF UsersIInv, StartAssessment
<1>a. PICK made, source : NoProgram = [name |-> "none", rows |-> {}, made |-> made, source |-> source]
  BY DEF NoProgram
<1>3. PICK p : p = [name |-> "assess", rows |-> rows, made |-> NoRows, source |-> source]
  OBVIOUS
<1>b. [NoProgram EXCEPT !.name = "assess", !.rows = rows, !.made = NoRows] = p
  <2>1. PICK m : m = [NoProgram EXCEPT !.name = "assess", !.rows = rows, !.made = NoRows]
    OBVIOUS
  <2>2. m = [name |-> "assess", rows |-> rows, made |-> NoRows, source |-> source]
    BY <1>a, <2>1
  <2>3. QED
    BY ONLY <1>3, <2>1, <2>2
<1>4. program' = p /\ NextRun(complete) <= MaxRuns /\ UNCHANGED <<exports, complete, accepted, rejected, matches>>
  <2>1. /\ program' = [NoProgram EXCEPT !.name = "assess", !.rows = exports[Newest(exports)].rows, !.made = NoRows]
        /\ NextRun(complete) <= MaxRuns /\ UNCHANGED <<exports, complete, accepted, rejected, matches>>
    BY DEF StartAssessment
  <2>2. QED
    BY <1>1, <1>b, <2>1
<1>5. DOMAIN NoRows = {}
  BY DEF NoRows
<1>6. ProgramFits(p, complete)
  BY <1>2, <1>3, <1>4, <1>5 DEF ProgramFits
<1>7. QED
  BY <1>4, <1>6, OnlyProgram

(* One row more of a batch.                                                *)
LEMMA UserStep ==
  ASSUME UsersIInv, NEW u \in User, AssessUser(u) \/ MatchUser(u)
  PROVE  UsersIInv'
<1>0. ProgramFits(program, complete) /\ program.name \in {"assess", "match"} /\ u \in program.rows
  BY DEF UsersIInv, AssessUser, MatchUser, InBatch
<1>1. PICK c : /\ program' = [program EXCEPT !.made = Made(u, c)]
               /\ program.name = "match" => c \in MatchOutcome
  BY DEF AssessUser, MatchUser
<1>2. PICK made : made = Made(u, c)
  OBVIOUS
<1>3. /\ DOMAIN made = DOMAIN program.made \cup {u}
      /\ \A x \in DOMAIN made : made[x] = c \/ (x \in DOMAIN program.made /\ made[x] = program.made[x])
  BY <1>2 DEF Made
<1>4. PICK p : p = [name |-> program.name, rows |-> program.rows, made |-> made, source |-> program.source]
  OBVIOUS
<1>5. program' = p
  BY <1>0, <1>1, <1>2, <1>4 DEF ProgramFits
<1>6. p.name = program.name /\ p.rows = program.rows /\ p.made = made /\ p.source = program.source
  BY <1>4
<1>7. DOMAIN p.made \subseteq p.rows
  BY <1>0, <1>3, <1>6 DEF ProgramFits
<1>8. p.name = "match" => \A x \in DOMAIN p.made : p.made[x] \in MatchOutcome
  BY <1>0, <1>1, <1>3, <1>6 DEF ProgramFits
<1>9. ProgramFits(p, complete)
  BY <1>0, <1>4, <1>6, <1>7, <1>8 DEF ProgramFits
<1>10. UNCHANGED <<exports, complete, accepted, rejected, matches>>
  BY DEF AssessUser, MatchUser
<1>11. QED
  BY <1>5, <1>9, <1>10, OnlyProgram

(* What was assessed is of the assessment that is saved.                   *)
LEMMA SavedRows ==
  ASSUME UsersIInv, NEW c \in Category, program.name \in {"complete", "accepted"}
  PROVE  AssessedAs(c) = OfCategory(complete[Newest(complete)].rows, c)
<1>1. complete[Newest(complete)].rows = program.made /\ DOMAIN program.made = program.rows
  BY DEF UsersIInv, ProgramFits
<1>2. QED
  BY <1>1 DEF AssessedAs, OfCategory

(* One of the two files of a saved assessment.                             *)
LEMMA SplitAdded ==
  ASSUME UsersIInv, NEW split, FilesOK(split), NEW c, SplitAs(split, complete, c), complete # Empty,
         complete[Newest(complete)].whole, NEW whole, NEW rows,
         rows = OfCategory(complete[Newest(complete)].rows, c), NEW after,
         after = Add(split, Newest(complete), whole, rows)
  PROVE  FilesOK(after) /\ SplitAs(after, complete, c)
<1>1. PICK t \in DOMAIN complete : t = Newest(complete) /\ \A x \in DOMAIN complete : x <= t
  BY NewestIs DEF UsersIInv
<1>2. t \in Nat \ {0} /\ \A x \in DOMAIN split : x <= t
  BY <1>1 DEF UsersIInv, FilesOK, SplitAs
<1>3. /\ FilesOK(after) /\ DOMAIN after = DOMAIN split \cup {t}
      /\ after[t] = [whole |-> whole, rows |-> rows]
      /\ \A x \in DOMAIN split : x # t => after[x] = split[x]
  <2>1. after = Add(split, t, whole, rows)
    BY <1>1
  <2>2. QED
    BY ONLY <1>2, <2>1, FilesOK(split), FilesAdded
<1>4. ASSUME NEW x \in DOMAIN after
      PROVE  x \in DOMAIN complete /\ complete[x].whole /\ after[x].rows = OfCategory(complete[x].rows, c)
  <2>1. CASE x = t
    BY <1>1, <1>3, <2>1
  <2>2. CASE x # t
    BY <1>3, <2>2 DEF SplitAs
  <2>3. QED
    BY <2>1, <2>2
<1>5. QED
  BY <1>3, <1>4 DEF SplitAs

(* The complete file is the newest; what was split before is as it was.    *)
LEMMA SaveAssessmentStep ==
  ASSUME UsersIInv, NEW whole \in BOOLEAN, SaveAssessment(whole)
  PROVE  UsersIInv'
<1>0. /\ program.name = "assess" /\ DOMAIN program.made = program.rows /\ program.rows \subseteq User
      /\ NextRun(complete) <= MaxRuns /\ ProgramFits(program, complete)
      /\ UNCHANGED <<exports, accepted, rejected, matches>>
  BY DEF UsersIInv, ProgramFits, SaveAssessment, Assessed
<1>1. PICK n \in Nat \ {0} : n = NextRun(complete) /\ \A t \in DOMAIN complete : t < n
  BY NextIs DEF UsersIInv
<1>2. FilesOK(complete) /\ DOMAIN complete \subseteq Nat /\ \A t \in DOMAIN complete : t <= n /\ t # n
  BY <1>1 DEF UsersIInv, FilesOK
<1>3. PICK rows : rows = program.made
  OBVIOUS
<1>4. complete' = Add(complete, n, whole, rows)
  BY <1>1, <1>3 DEF SaveAssessment
<1>5. /\ FilesOK(complete') /\ DOMAIN complete' = DOMAIN complete \cup {n}
      /\ complete'[n] = [whole |-> whole, rows |-> rows]
      /\ \A x \in DOMAIN complete : x # n => complete'[x] = complete[x]
  BY <1>2, <1>4, FilesAdded
<1>6. \A x \in DOMAIN complete : complete'[x] = complete[x] /\ x \in DOMAIN complete'
  BY <1>2, <1>5
<1>7. DOMAIN complete' \subseteq 1 .. MaxRuns
  <2>1. n \in 1 .. MaxRuns
    BY <1>0, <1>1, UsersAssumption
  <2>2. QED
    BY <1>5, <2>1 DEF UsersIInv
<1>8. \A t \in DOMAIN complete' : DOMAIN complete'[t].rows \subseteq User
  BY <1>0, <1>3, <1>5, <1>6 DEF UsersIInv
<1>9. SplitAs(accepted, complete', "Matchable") /\ SplitAs(rejected, complete', "Unmatchable")
  BY <1>6 DEF UsersIInv, SplitAs
<1>10. ProgramFits(program', complete')
  <2>1. CASE whole
    <3>1. program' = [program EXCEPT !.name = "complete"]
      BY <2>1 DEF SaveAssessment
    <3>2. /\ program' = [name |-> "complete", rows |-> program.rows, made |-> program.made, source |-> program.source]
          /\ program'.name = "complete" /\ program'.rows = program.rows /\ program'.made = program.made
          /\ program'.source = program.source
      BY <1>0, <3>1 DEF ProgramFits
    <3>3. complete' # Empty
      BY <1>5, EmptyFiles
    <3>4. Newest(complete') = n
      <4>1. Newest(complete') \in DOMAIN complete' /\ \A t \in DOMAIN complete' : t <= Newest(complete')
        BY <1>5, <3>3, NewestIs
      <4>2. \A t \in DOMAIN complete' : t \in Nat /\ t <= n
        BY <1>1, <1>2, <1>5
      <4>3. QED
        BY <1>1, <1>5, <4>1, <4>2
    <3>5. complete'[n].whole /\ complete'[n].rows = program.made
      BY <1>3, <1>5, <2>1
    <3>6. QED
      BY <1>0, <3>2, <3>3, <3>4, <3>5 DEF ProgramFits
  <2>2. CASE ~whole
    <3>1. program' = NoProgram
      BY <2>2 DEF SaveAssessment
    <3>2. QED
      BY <3>1, IdleFits
  <2>3. QED
    BY <2>1, <2>2
<1>11. QED
  BY <1>0, <1>5, <1>7, <1>8, <1>9, <1>10 DEF UsersIInv

LEMMA SaveAcceptedStep ==
  ASSUME UsersIInv, NEW whole \in BOOLEAN, SaveAccepted(whole)
  PROVE  UsersIInv'
<1>0. /\ program.name = "complete" /\ ProgramFits(program, complete)
      /\ UNCHANGED <<exports, complete, rejected, matches>>
  BY DEF UsersIInv, SaveAccepted
<1>1. program' \in {[program EXCEPT !.name = "accepted"], NoProgram}
  BY DEF SaveAccepted
<1>2. ProgramFits(program', complete)
  <2>1. CASE program' = [program EXCEPT !.name = "accepted"]
    <3>1. /\ program' = [name |-> "accepted", rows |-> program.rows, made |-> program.made, source |-> program.source]
          /\ program'.name = "accepted" /\ program'.rows = program.rows /\ program'.made = program.made
      BY <1>0, <2>1 DEF ProgramFits
    <3>2. QED
      BY <1>0, <3>1 DEF ProgramFits
  <2>2. CASE program' = NoProgram
    BY <2>2, IdleFits
  <2>3. QED
    BY <1>1, <2>1, <2>2
<1>3. FilesOK(accepted') /\ SplitAs(accepted', complete, "Matchable")
  <2>1. CASE accepted' = accepted
    BY <2>1 DEF UsersIInv
  <2>2. CASE accepted' = Add(accepted, Newest(complete), whole, AcceptedRows)
    <3>1. PICK c \in Category : c = "Matchable"
      BY DEF Category
    <3>2. AcceptedRows = OfCategory(complete[Newest(complete)].rows, c)
      BY <1>0, <3>1, SavedRows DEF AcceptedRows
    <3>3. complete # Empty /\ complete[Newest(complete)].whole
      BY <1>0 DEF ProgramFits
    <3>4. FilesOK(accepted) /\ SplitAs(accepted, complete, c)
      BY <3>1 DEF UsersIInv
    <3>5. PICK rows, after : rows = AcceptedRows /\ after = accepted'
      OBVIOUS
    <3>6. FilesOK(after) /\ SplitAs(after, complete, c)
      BY ONLY UsersIInv, <2>2, <3>2, <3>3, <3>4, <3>5, SplitAdded
    <3>7. QED
      BY <3>1, <3>5, <3>6
  <2>3. QED
    BY <2>1, <2>2 DEF SaveAccepted
<1>4. QED
  BY <1>0, <1>2, <1>3 DEF UsersIInv

LEMMA SaveRejectedStep ==
  ASSUME UsersIInv, NEW whole \in BOOLEAN, SaveRejected(whole)
  PROVE  UsersIInv'
<1>0. /\ program.name = "accepted" /\ ProgramFits(program, complete) /\ program' = NoProgram
      /\ UNCHANGED <<exports, complete, accepted, matches>>
  BY DEF UsersIInv, SaveRejected
<1>2. ProgramFits(program', complete)
  BY <1>0, IdleFits
<1>3. FilesOK(rejected') /\ SplitAs(rejected', complete, "Unmatchable")
  <2>1. CASE rejected' = rejected
    BY <2>1 DEF UsersIInv
  <2>2. CASE rejected' = Add(rejected, Newest(complete), whole, AssessedAs("Unmatchable"))
    <3>1. PICK c \in Category : c = "Unmatchable"
      BY DEF Category
    <3>2. AssessedAs("Unmatchable") = OfCategory(complete[Newest(complete)].rows, c)
      BY <1>0, <3>1, SavedRows
    <3>3. complete # Empty /\ complete[Newest(complete)].whole
      BY <1>0 DEF ProgramFits
    <3>4. FilesOK(rejected) /\ SplitAs(rejected, complete, c)
      BY <3>1 DEF UsersIInv
    <3>5. PICK rows, after : rows = AssessedAs("Unmatchable") /\ after = rejected'
      OBVIOUS
    <3>6. FilesOK(after) /\ SplitAs(after, complete, c)
      BY ONLY UsersIInv, <2>2, <3>2, <3>3, <3>4, <3>5, SplitAdded
    <3>7. QED
      BY <3>1, <3>5, <3>6
  <2>3. QED
    BY <2>1, <2>2 DEF SaveRejected
<1>4. QED
  BY <1>0, <1>2, <1>3 DEF UsersIInv

(* The rows of the newest accepted file, of the newest complete file that  *)
(* are matchable, or of the export.                                        *)
LEMMA StartMatchingStep ==
  ASSUME UsersIInv, StartMatching
  PROVE  UsersIInv'
<1>1. PICK rows, name :
        /\ rows = IF Source.name = "raw" THEN Source.file.rows ELSE DOMAIN Source.file.rows
        /\ name = Source.name
        /\ program' = [NoProgram EXCEPT !.name = "match", !.rows = rows, !.made = NoRows, !.source = name]
        /\ exports # Empty /\ UNCHANGED <<exports, complete, accepted, rejected, matches>>
  BY DEF StartMatching
<1>2. /\ rows \subseteq User
      /\ name # "raw" => \A u \in rows : \E t \in DOMAIN complete :
                           u \in DOMAIN complete[t].rows /\ complete[t].rows[u] = "Matchable"
  <2>1. CASE accepted # Empty
    <3>1. Source = [file |-> accepted[Newest(accepted)], name |-> "accepted"]
      BY <2>1 DEF Source
    <3>2. name = "accepted" /\ rows = DOMAIN accepted[Newest(accepted)].rows
      BY <1>1, <3>1
    <3>3. PICK t \in DOMAIN accepted : t = Newest(accepted)
      BY <2>1, NewestIs DEF UsersIInv
    <3>4. t \in DOMAIN complete /\ accepted[t].rows = OfCategory(complete[t].rows, "Matchable")
      BY DEF UsersIInv, SplitAs
    <3>5. rows = {v \in DOMAIN complete[t].rows : complete[t].rows[v] = "Matchable"}
      BY <3>2, <3>3, <3>4 DEF OfCategory
    <3>6. QED
      BY <3>4, <3>5 DEF UsersIInv
  <2>2. CASE accepted = Empty /\ complete # Empty
    <3>1. PICK t \in DOMAIN complete : t = Newest(complete)
      BY <2>2, NewestIs DEF UsersIInv
    <3>2. PICK c : c = complete[t]
      OBVIOUS
    <3>3. PICK file : file = [c EXCEPT !.rows = [u \in {v \in DOMAIN c.rows : c.rows[v] = "Matchable"} |-> "Matchable"]]
      OBVIOUS
    <3>4. Source = [file |-> file, name |-> "complete"]
      BY <2>2, <3>1, <3>2, <3>3 DEF Source
    <3>5. name = "complete" /\ rows = DOMAIN file.rows
      BY <1>1, <3>4
    <3>6. rows = {v \in DOMAIN complete[t].rows : complete[t].rows[v] = "Matchable"}
      BY <3>2, <3>3, <3>5
    <3>7. QED
      BY <3>6 DEF UsersIInv
  <2>3. CASE accepted = Empty /\ complete = Empty
    <3>1. Source = [file |-> exports[Newest(exports)], name |-> "raw"]
      BY <2>3 DEF Source
    <3>2. name = "raw" /\ rows = exports[Newest(exports)].rows
      BY <1>1, <3>1
    <3>3. Newest(exports) \in DOMAIN exports
      BY <1>1, NewestIs DEF UsersIInv
    <3>4. QED
      BY <3>2, <3>3 DEF UsersIInv
  <2>4. QED
    BY <2>1, <2>2, <2>3
<1>a. PICK made, source : NoProgram = [name |-> "none", rows |-> {}, made |-> made, source |-> source]
  BY DEF NoProgram
<1>3. PICK p : p = [name |-> "match", rows |-> rows, made |-> NoRows, source |-> name]
  OBVIOUS
<1>4. [NoProgram EXCEPT !.name = "match", !.rows = rows, !.made = NoRows, !.source = name] = p
  <2>1. PICK m : m = [NoProgram EXCEPT !.name = "match", !.rows = rows, !.made = NoRows, !.source = name]
    OBVIOUS
  <2>2. m = [name |-> "match", rows |-> rows, made |-> NoRows, source |-> name]
    BY <1>a, <2>1
  <2>3. QED
    BY ONLY <1>3, <2>1, <2>2
<1>5. program' = p
  BY <1>1, <1>4
<1>6. DOMAIN NoRows = {}
  BY DEF NoRows
<1>7. ProgramFits(p, complete)
  BY <1>2, <1>3, <1>6 DEF ProgramFits
<1>8. QED
  BY <1>1, <1>5, <1>7, OnlyProgram

LEMMA SaveMatchesStep ==
  ASSUME UsersIInv, NEW whole \in BOOLEAN, SaveMatches(whole)
  PROVE  UsersIInv'
<1>0. /\ program.name = "match" /\ ProgramFits(program, complete) /\ program' = NoProgram
      /\ UNCHANGED <<exports, complete, accepted, rejected>>
  BY DEF UsersIInv, SaveMatches
<1>1. PICK n \in Nat \ {0} : n = NextRun(matches) /\ \A t \in DOMAIN matches : t < n
  BY NextIs DEF UsersIInv
<1>2. FilesOK(matches) /\ \A t \in DOMAIN matches : t <= n /\ t # n
  BY <1>1 DEF UsersIInv, FilesOK
<1>3. PICK rows : rows = program.made
  OBVIOUS
<1>4. matches' = Add(matches, n, whole, rows)
  BY <1>1, <1>3 DEF SaveMatches
<1>5. /\ FilesOK(matches') /\ DOMAIN matches' = DOMAIN matches \cup {n}
      /\ matches'[n] = [whole |-> whole, rows |-> rows]
      /\ \A x \in DOMAIN matches : x # n => matches'[x] = matches[x]
  BY <1>2, <1>4, FilesAdded
<1>6. \A u \in DOMAIN rows : rows[u] \in MatchOutcome
  BY <1>0, <1>3 DEF ProgramFits
<1>7. \A t \in DOMAIN matches' : \A u \in DOMAIN matches'[t].rows : matches'[t].rows[u] \in MatchOutcome
  BY <1>2, <1>5, <1>6 DEF UsersIInv
<1>8. ProgramFits(program', complete)
  BY <1>0, IdleFits
<1>9. QED
  BY <1>0, <1>5, <1>7, <1>8 DEF UsersIInv

LEMMA UsersStep == UsersIInv /\ [UsersNext]_usersVars => UsersIInv'
<1> SUFFICES ASSUME UsersIInv, [UsersNext]_usersVars PROVE UsersIInv'
  OBVIOUS
<1>1. CASE Export \/ StopProgram
  BY <1>1, ExportStep
<1>2. CASE StartAssessment
  BY <1>2, StartAssessmentStep
<1>3. CASE StartMatching
  BY <1>3, StartMatchingStep
<1>4. ASSUME NEW u \in User, AssessUser(u) \/ MatchUser(u) PROVE UsersIInv'
  BY <1>4, UserStep
<1>5. ASSUME NEW whole \in BOOLEAN, SaveAssessment(whole) PROVE UsersIInv'
  BY <1>5, SaveAssessmentStep
<1>6. ASSUME NEW whole \in BOOLEAN, SaveAccepted(whole) PROVE UsersIInv'
  BY <1>6, SaveAcceptedStep
<1>7. ASSUME NEW whole \in BOOLEAN, SaveRejected(whole) PROVE UsersIInv'
  BY <1>7, SaveRejectedStep
<1>8. ASSUME NEW whole \in BOOLEAN, SaveMatches(whole) PROVE UsersIInv'
  BY <1>8, SaveMatchesStep
<1>9. CASE UNCHANGED usersVars
  BY <1>9 DEF usersVars, UsersIInv
<1>10. QED
  BY <1>1, <1>2, <1>3, <1>4, <1>5, <1>6, <1>7, <1>8, <1>9 DEF UsersNext

(* The three programs of bronze_data/batch_process hand each other files   *)
(* by the time in their names and may stop anywhere: an accepted or        *)
(* rejected file is of an assessment that was saved in full, and whoever   *)
(* is matched was accepted by one, or no assessment was there.             *)
THEOREM SplitsAreOfOne == UsersSpec => []UsersInv
<1>1. UsersInit => UsersIInv
  BY UsersStart
<1>2. UsersIInv /\ [UsersNext]_usersVars => UsersIInv'
  BY UsersStep
<1>3. UsersIInv => UsersInv
  BY UsersImplied
<1>4. QED
  BY <1>1, <1>2, <1>3, PTL DEF UsersSpec

-----------------------------------------------------------------------------
(* The poll analysis                                                       *)

(* A finite set of numbers that is not empty has a largest one: the one    *)
(* with the fewest above it.                                               *)
LEMMA FiniteMax ==
  ASSUME NEW S \in SUBSET Nat, IsFiniteSet(S), S # {}
  PROVE  \E x \in S : \A y \in S : y <= x
<1> DEFINE Above(x) == {y \in S : y > x}
           Fewer == {Cardinality(Above(x)) : x \in S}
<1>1. \A x \in S : IsFiniteSet(Above(x)) /\ Cardinality(Above(x)) \in Nat
  <2>1. SUFFICES ASSUME NEW x \in S PROVE IsFiniteSet(Above(x)) /\ Cardinality(Above(x)) \in Nat
    OBVIOUS
  <2>2. Above(x) \in SUBSET S
    OBVIOUS
  <2>3. QED
    BY <2>2, FS_Subset, FS_CardinalityType
<1>2. PICK n \in Fewer : \A m \in Fewer : <<m, n>> \notin OpToRel(<, Nat)
  <2>1. Fewer \subseteq Nat /\ Fewer # {}
    BY <1>1
  <2>2. QED
    BY <2>1, WFMin, NatLessThanWellFounded, Zenon
<1>3. \A m \in Fewer : ~(m < n)
  <2>1. \A m \in Fewer : m \in Nat
    BY <1>1
  <2>2. QED
    BY <1>2, <2>1, Zenon DEF OpToRel
<1>4. PICK x \in S : n = Cardinality(Above(x))
  OBVIOUS
<1>5. SUFFICES ASSUME NEW y \in S, ~(y <= x) PROVE FALSE
  OBVIOUS
<1>6. Above(y) \in SUBSET Above(x) /\ y \in Above(x) /\ y \notin Above(y)
  <2>1. x \in Nat /\ y \in Nat /\ x < y
    BY <1>5
  <2>2. \A z \in S : z \in Nat /\ (z > y => z > x)
    BY <2>1
  <2>3. \A z : z \in Above(y) => z \in Above(x)
    BY <2>2
  <2>4. y \in Above(x)
    BY <2>1
  <2>5. y \notin Above(y)
    BY <2>1
  <2>6. QED
    BY <2>3, <2>4, <2>5
<1>7. Cardinality(Above(y)) <= Cardinality(Above(x)) /\ Cardinality(Above(x)) # Cardinality(Above(y))
  BY <1>1, <1>6, FS_Subset
<1>8. Cardinality(Above(y)) \in Fewer
  OBVIOUS
<1>9. ~(Cardinality(Above(y)) < Cardinality(Above(x)))
  BY <1>3, <1>4, <1>8
<1>10. QED
  BY <1>1, <1>7, <1>9

-----------------------------------------------------------------------------

RowRecord == [file : Poll, phone : Phone, poll : Poll \cup {""}]
StageRecord ==
  [at : {"none", "load", "cluster", "merge", "upload", "send", "save"}, task : Nat, told : SUBSET Poll]
EventRecord ==
  [poll : Poll, task : Nat, total : 0 .. Cardinality(Phone), counted : SUBSET Phone, issues : SUBSET Cluster]

WroteIn(poll) == {pollRow[r].phone : r \in {q \in Rows : PollOf(q) = poll}}
SaidSomething == {pollRow[a[1]].phone : a \in {b \in atomic : b[2] # 0}}

PollTypes ==
  /\ Rows \subseteq PollRow /\ column \subseteq Poll
  /\ pollRow \in [Rows -> RowRecord]
  /\ stage \in StageRecord
  /\ atomic \subseteq Rows \X Cluster
  /\ json \in {"none", "rows"} /\ responses \in {"none", "rows", "empty"}
  /\ pollEvents \subseteq EventRecord
  /\ \A t \in DOMAIN exits : exits[t] \in {0, 1, 137}

(* Tasks are numbered as they come, and no event is of a later one; while  *)
(* one sends, its events are of what it has before it.                     *)
TasksAre ==
  /\ \E k \in Nat : DOMAIN exits = 1 .. k /\ (stage.at # "none" => stage.task = k + 1)
  /\ stage.at = "none" => stage = NoStage
  /\ \A e \in pollEvents :
       \/ e.task \in DOMAIN exits
       \/ stage.at = "send" /\ e.task = stage.task /\ e.counted \subseteq SaidSomething

(* Responses are there before an event is sent, and a poll that was told is*)
(* told by an event.                                                       *)
SentSoFar ==
  /\ stage.at = "send" =>
       /\ responses # "none"
       /\ \A p \in stage.told : \E e \in pollEvents : e.task = stage.task /\ e.poll = p
  /\ stage.at # "send" => stage.told = {}
  /\ \A e \in pollEvents : e.counted \subseteq WroteIn(e.poll)

PollIInv == PollTypes /\ TasksAre /\ SentSoFar /\ EveryPollTold /\ ResponsesThere

-----------------------------------------------------------------------------

LEMMA PollStart == PollInit => PollIInv
<1>0. SUFFICES ASSUME PollInit PROVE PollIInv
  OBVIOUS
<1>a. PICK rows \in SUBSET PollRow : pollRow \in [rows -> RowRecord]
  BY <1>0, Zenon DEF PollInit, RowRecord
<1>b. stage = NoStage /\ stage.at = "none" /\ stage.told = {} /\ NoStage \in StageRecord
  <2>1. stage = NoStage
    BY <1>0, Zenon DEF PollInit
  <2>2. QED
    BY <2>1 DEF NoStage, StageRecord
<1>c. /\ column \in SUBSET Poll /\ atomic = {} /\ json = "none" /\ responses = "none" /\ pollEvents = {}
      /\ exits = [t \in {} |-> 0]
  BY <1>0, Zenon DEF PollInit
<1>d. DOMAIN exits = {}
  BY <1>c
<1>1. PollTypes
  BY <1>a, <1>b, <1>c, <1>d DEF PollTypes, Rows
<1>2. TasksAre
  <2>1. DOMAIN exits = 1 .. 0 /\ 0 \in Nat
    BY <1>d
  <2>2. QED
    BY <2>1, <1>b, <1>c DEF TasksAre
<1>3. SentSoFar /\ EveryPollTold /\ ResponsesThere
  BY <1>b, <1>c, <1>d DEF SentSoFar, EveryPollTold, ResponsesThere
<1>4. QED
  BY <1>1, <1>2, <1>3 DEF PollIInv

LEMMA RowPhone == ASSUME NEW row \in RowRecord PROVE row.phone \in Phone
BY DEF RowRecord

(* The message of a phone that wrote is one of its messages.               *)
LEMMA MessageIs ==
  ASSUME PollTypes, NEW r \in Rows
  PROVE  MessageOf(pollRow[r].phone) \in Rows /\ pollRow[MessageOf(pollRow[r].phone)].phone = pollRow[r].phone
<1> DEFINE Same == {q \in Rows : pollRow[q].phone = pollRow[r].phone}
<1>1. Same \in SUBSET PollRow /\ IsFiniteSet(PollRow) /\ PollRow \subseteq Nat /\ Same # {}
  BY PollAssumption DEF PollTypes
<1>2. Same \in SUBSET Nat /\ IsFiniteSet(Same)
  BY <1>1, FS_Subset
<1>3. \E x \in Same : \A y \in Same : y <= x
  BY <1>1, <1>2, FiniteMax
<1>4. QED
  BY <1>3 DEF MessageOf

(* Who is counted wrote in the poll, and something that is no opt-out.     *)
LEMMA RespondentsWrote ==
  ASSUME PollTypes, NEW poll
  PROVE  /\ Respondents(poll) \subseteq WroteIn(poll)
         /\ Respondents(poll) \subseteq SaidSomething
         /\ Respondents(poll) \subseteq Phone
         /\ Cardinality(Respondents(poll)) \in 0 .. Cardinality(Phone)
<1>1. ASSUME NEW n \in Respondents(poll)
      PROVE  n \in WroteIn(poll) /\ n \in SaidSomething /\ n \in Phone
  <2>1. PICK a \in atomic : /\ a[2] # 0 /\ pollRow[a[1]].phone = n
                            /\ PollOf(MessageOf(pollRow[a[1]].phone)) = poll
    BY DEF Respondents, RecordsOf
  <2>2. a[1] \in Rows
    BY DEF PollTypes
  <2>3. MessageOf(n) \in Rows /\ pollRow[MessageOf(n)].phone = n
    BY <2>1, <2>2, MessageIs
  <2>4. n \in Phone
    <3>1. pollRow[a[1]] \in RowRecord
      BY <2>2 DEF PollTypes
    <3>2. QED
      BY <2>1, <3>1, RowPhone
  <2>5. n \in WroteIn(poll)
    BY <2>1, <2>3 DEF WroteIn
  <2>6. n \in SaidSomething
    BY <2>1 DEF SaidSomething
  <2>7. QED
    BY <2>4, <2>5, <2>6
<1>2. Respondents(poll) \in SUBSET Phone
  BY <1>1
<1>3. /\ Cardinality(Respondents(poll)) \in Nat /\ Cardinality(Phone) \in Nat
      /\ Cardinality(Respondents(poll)) <= Cardinality(Phone)
  BY <1>2, PollAssumption, FS_Subset, FS_CardinalityType
<1>4. QED
  BY <1>1, <1>2, <1>3

(* The task after those that exited.                                       *)
LEMMA TasksCount ==
  ASSUME NEW k \in Nat, DOMAIN exits = 1 .. k PROVE Tasks = k
<1>1. Cardinality(1 .. k) = IF 1 > k THEN 0 ELSE k - 1 + 1
  BY FS_Interval
<1>2. QED
  BY <1>1 DEF Tasks

-----------------------------------------------------------------------------

(* The rows and what is told of their polls do not change.                 *)
LEMMA RowsStay ==
  ASSUME UNCHANGED <<pollRow, column>>
  PROVE  Rows' = Rows /\ \A poll : WroteIn(poll)' = WroteIn(poll)
BY DEF Rows, WroteIn, PollOf, HasColumn, Loaded, First

(* A task that ends, well only if all its polls are told.                  *)
LEMMA TaskEnds ==
  ASSUME PollIInv, stage.at # "none", NEW code \in {0, 1, 137}, Exit(code), UNCHANGED <<pollRow, column>>,
         responses' \in {"none", "rows", "empty"},
         pollEvents \subseteq pollEvents', pollEvents' \subseteq EventRecord,
         \A e \in pollEvents' : e \in pollEvents \/ (e.task = stage.task /\ e.counted \subseteq WroteIn(e.poll)),
         pollEvents' # {} => responses' # "none",
         code = 0 => stage.at = "send" /\ stage.told = Poll
  PROVE  PollIInv'
<1>1. PICK k \in Nat : DOMAIN exits = 1 .. k /\ stage.task = k + 1
  BY DEF PollIInv, TasksAre
<1>2. /\ DOMAIN exits' = 1 .. k + 1 /\ k + 1 \in Nat
      /\ \A t \in 1 .. k + 1 : exits'[t] = IF t = k + 1 THEN code ELSE exits[t]
  <2>1. DOMAIN exits' = (1 .. k) \cup {k + 1}
    BY <1>1 DEF Exit
  <2>2. (1 .. k) \cup {k + 1} = 1 .. k + 1
    OBVIOUS
  <2>3. QED
    BY <1>1, <2>1, <2>2 DEF Exit
<1>3. stage' = NoStage /\ stage'.at = "none" /\ stage'.told = {} /\ json' = "none" /\ atomic' = {}
  BY DEF Exit, NoStage
<1>4. Rows' = Rows /\ \A poll : WroteIn(poll)' = WroteIn(poll)
  BY RowsStay
<1>5. PollTypes'
  <2>1. \A t \in DOMAIN exits' : exits'[t] \in {0, 1, 137}
    BY <1>1, <1>2 DEF PollIInv, PollTypes
  <2>2. stage' \in StageRecord
    BY <1>3 DEF NoStage, StageRecord
  <2>3. QED
    BY <1>3, <1>4, <2>1, <2>2 DEF PollIInv, PollTypes
<1>6. TasksAre'
  <2>1. ASSUME NEW e \in pollEvents' PROVE e.task \in DOMAIN exits'
    BY <1>1, <1>2 DEF PollIInv, TasksAre
  <2>2. QED
    BY <1>2, <1>3, <2>1 DEF TasksAre
<1>7. SentSoFar'
  <2>1. ASSUME NEW e \in pollEvents' PROVE e.counted \subseteq WroteIn(e.poll)'
    BY <1>4 DEF PollIInv, SentSoFar
  <2>2. QED
    BY <1>3, <2>1 DEF SentSoFar
<1>8. EveryPollTold'
  <2>1. SUFFICES ASSUME NEW t \in DOMAIN exits', exits'[t] = 0, NEW p \in Poll
                 PROVE  \E e \in pollEvents' : e.task = t /\ e.poll = p
    BY DEF EveryPollTold
  <2>2. CASE t = k + 1
    <3>1. stage.at = "send" /\ p \in stage.told
      BY <1>2, <2>1, <2>2
    <3>2. QED
      BY <1>1, <2>2, <3>1 DEF PollIInv, SentSoFar
  <2>3. CASE t # k + 1
    <3>1. t \in DOMAIN exits /\ exits[t] = 0
      BY <1>1, <1>2, <2>1, <2>3
    <3>2. QED
      BY <3>1 DEF PollIInv, EveryPollTold
  <2>4. QED
    BY <2>2, <2>3
<1>9. ResponsesThere'
  BY DEF ResponsesThere
<1>10. QED
  BY <1>5, <1>6, <1>7, <1>8, <1>9 DEF PollIInv

(* A step of a task before it sends, which tells nothing.                  *)
LEMMA TaskGoesOn ==
  ASSUME PollIInv, stage.at \notin {"none", "send"}, UNCHANGED <<pollRow, column, pollEvents, exits>>,
         NEW place \in {"cluster", "merge", "upload", "send"}, StageAt(place),
         atomic' \subseteq Rows \X Cluster, json' \in {"none", "rows"}, responses' \in {"none", "rows", "empty"},
         responses # "none" => responses' # "none",
         place = "send" => responses' # "none"
  PROVE  PollIInv'
<1>1. stage' \in StageRecord /\ stage'.at = place /\ stage'.task = stage.task /\ stage'.told = stage.told
  BY DEF PollIInv, PollTypes, StageAt, StageRecord
<1>2. Rows' = Rows /\ \A poll : WroteIn(poll)' = WroteIn(poll)
  BY RowsStay
<1>3. PollTypes'
  BY <1>1, <1>2 DEF PollIInv, PollTypes
<1>4. TasksAre'
  BY <1>1 DEF PollIInv, TasksAre
<1>5. SentSoFar'
  <2>1. stage.told = {}
    BY DEF PollIInv, SentSoFar
  <2>2. QED
    BY <1>1, <1>2, <2>1 DEF PollIInv, SentSoFar
<1>6. EveryPollTold' /\ ResponsesThere'
  BY DEF PollIInv, EveryPollTold, ResponsesThere
<1>7. QED
  BY <1>3, <1>4, <1>5, <1>6 DEF PollIInv

-----------------------------------------------------------------------------

(* What is unpublished or published of a poll are clusters.                *)
LEMMA EventIs ==
  ASSUME PollIInv, stage.at = "send", NEW poll \in Poll, NEW issues \in Issues(poll)
  PROVE  [poll |-> poll, task |-> stage.task, total |-> Cardinality(Respondents(poll)),
          counted |-> Respondents(poll), issues |-> issues] \in EventRecord
<1>1. issues \subseteq {1, 2}
  BY DEF Issues
<1>2. issues \in SUBSET Cluster
  BY <1>1 DEF Cluster
<1>3. stage.task \in Nat
  BY DEF PollIInv, PollTypes, StageRecord
<1>4. Respondents(poll) \subseteq Phone /\ Cardinality(Respondents(poll)) \in 0 .. Cardinality(Phone)
  BY RespondentsWrote DEF PollIInv
<1>5. QED
  BY <1>2, <1>3, <1>4 DEF EventRecord

LEMMA SendStep ==
  ASSUME PollIInv, NEW poll \in Poll, SendEvent(poll) PROVE PollIInv'
<1>1. stage.at = "send" /\ poll \in Poll /\ UNCHANGED <<pollRow, column, responses>>
  BY DEF SendEvent, PollFiles
<1>2. PICK issues \in Issues(poll) :
        \/ /\ pollEvents' = pollEvents \cup
                {[poll |-> poll, task |-> stage.task, total |-> Cardinality(Respondents(poll)),
                  counted |-> Respondents(poll), issues |-> issues]}
           /\ stage' = [stage EXCEPT !.told = @ \cup {poll}]
           /\ UNCHANGED <<atomic, json, errors, exits>>
        \/ /\ pollEvents' \in {pollEvents, pollEvents \cup
                {[poll |-> poll, task |-> stage.task, total |-> Cardinality(Respondents(poll)),
                  counted |-> Respondents(poll), issues |-> issues]}}
           /\ Exit(1)
  BY DEF SendEvent
<1>3. PICK event \in EventRecord :
        event = [poll |-> poll, task |-> stage.task, total |-> Cardinality(Respondents(poll)),
                 counted |-> Respondents(poll), issues |-> issues]
  BY <1>1, EventIs
<1>4. event.task = stage.task /\ event.poll = poll /\ event.counted = Respondents(poll)
  BY <1>3
<1>5. event.counted \subseteq WroteIn(event.poll) /\ event.counted \subseteq SaidSomething
  BY <1>4, RespondentsWrote DEF PollIInv
<1>6. Rows' = Rows /\ \A p : WroteIn(p)' = WroteIn(p)
  BY <1>1, RowsStay
<1>7. responses # "none" /\ responses' = responses
  BY <1>1 DEF PollIInv, SentSoFar
<1>8. CASE /\ pollEvents' = pollEvents \cup {event}
           /\ stage' = [stage EXCEPT !.told = @ \cup {poll}]
           /\ UNCHANGED <<atomic, json, errors, exits>>
  <2>1. /\ stage' \in StageRecord /\ stage'.at = "send" /\ stage'.task = stage.task
        /\ stage'.told = stage.told \cup {poll}
    BY <1>1, <1>8 DEF PollIInv, PollTypes, StageRecord
  <2>2. PollTypes'
    BY <1>1, <1>6, <1>8, <2>1 DEF PollIInv, PollTypes
  <2>3. SaidSomething' = SaidSomething
    BY <1>1, <1>8 DEF SaidSomething
  <2>4. TasksAre'
    <3>1. \E k \in Nat : DOMAIN exits' = 1 .. k /\ stage'.task = k + 1
      BY <1>1, <1>8, <2>1 DEF PollIInv, TasksAre
    <3>2. ASSUME NEW e \in pollEvents'
          PROVE  e.task \in DOMAIN exits' \/ (e.task = stage'.task /\ e.counted \subseteq SaidSomething')
      BY <1>4, <1>5, <1>8, <2>1, <2>3 DEF PollIInv, TasksAre
    <3>3. QED
      BY <2>1, <3>1, <3>2 DEF TasksAre
  <2>5. SentSoFar'
    <3>1. \A p \in stage'.told : \E e \in pollEvents' : e.task = stage'.task /\ e.poll = p
      BY <1>1, <1>4, <1>8, <2>1 DEF PollIInv, SentSoFar
    <3>2. ASSUME NEW e \in pollEvents' PROVE e.counted \subseteq WroteIn(e.poll)'
      BY <1>5, <1>6, <1>8 DEF PollIInv, SentSoFar
    <3>3. QED
      BY <1>7, <2>1, <3>1, <3>2 DEF SentSoFar
  <2>6. EveryPollTold' /\ ResponsesThere'
    BY <1>7, <1>8 DEF PollIInv, EveryPollTold, ResponsesThere
  <2>7. QED
    BY <2>2, <2>4, <2>5, <2>6 DEF PollIInv
<1>9. CASE pollEvents' \in {pollEvents, pollEvents \cup {event}} /\ Exit(1)
  <2>1. /\ pollEvents \subseteq pollEvents' /\ pollEvents' \subseteq EventRecord
        /\ \A e \in pollEvents' : e \in pollEvents \/ (e.task = stage.task /\ e.counted \subseteq WroteIn(e.poll))
    BY <1>4, <1>5, <1>9 DEF PollIInv, PollTypes
  <2>2. responses' \in {"none", "rows", "empty"}
    BY <1>7 DEF PollIInv, PollTypes
  <2>3. PICK code \in {0, 1, 137} : code = 1
    OBVIOUS
  <2>4. Exit(code)
    BY <1>9, <2>3
  <2>5. code # 0
    BY <2>3
  <2>6. QED
    BY <1>1, <1>7, <2>1, <2>2, <2>4, <2>5, TaskEnds
<1>10. QED
  BY <1>2, <1>3, <1>8, <1>9

(* A task that ends and tells nothing more.                                *)
LEMMA EndsQuietly ==
  ASSUME PollIInv, stage.at # "none", NEW code \in {0, 1, 137}, Exit(code),
         UNCHANGED <<pollRow, column, responses, pollEvents>>,
         code = 0 => stage.at = "send" /\ stage.told = Poll
  PROVE  PollIInv'
<1>1. pollEvents' \subseteq EventRecord /\ responses' \in {"none", "rows", "empty"}
  BY DEF PollIInv, PollTypes
<1>2. pollEvents' # {} => responses' # "none"
  BY DEF PollIInv, ResponsesThere
<1>3. /\ pollEvents \subseteq pollEvents' /\ UNCHANGED <<pollRow, column>>
      /\ \A e \in pollEvents' : e \in pollEvents \/ (e.task = stage.task /\ e.counted \subseteq WroteIn(e.poll))
  OBVIOUS
<1>4. QED
  BY <1>1, <1>2, <1>3, TaskEnds

LEMMA TaskStarts == ASSUME PollIInv, StartPollTask PROVE PollIInv'
<1>1. PICK k \in Nat : DOMAIN exits = 1 .. k
  BY DEF PollIInv, TasksAre
<1>2. stage'.at = "load" /\ stage'.task = k + 1 /\ stage'.told = {} /\ stage' \in StageRecord
  BY <1>1, TasksCount DEF StartPollTask, StageRecord
<1>3. stage.at = "none"
  BY DEF StartPollTask, NoStage
<1>4. Rows' = Rows /\ \A poll : WroteIn(poll)' = WroteIn(poll)
  BY RowsStay DEF StartPollTask
<1>5. PollTypes'
  BY <1>2, <1>4 DEF PollIInv, PollTypes, StartPollTask
<1>6. TasksAre'
  BY <1>1, <1>2, <1>3 DEF PollIInv, TasksAre, StartPollTask
<1>7. SentSoFar'
  BY <1>2, <1>4 DEF PollIInv, SentSoFar, StartPollTask
<1>8. EveryPollTold' /\ ResponsesThere'
  BY DEF PollIInv, EveryPollTold, ResponsesThere, StartPollTask
<1>9. QED
  BY <1>5, <1>6, <1>7, <1>8 DEF PollIInv

LEMMA PollStep == ASSUME PollIInv, [PollNext]_pollVars PROVE PollIInv'
<1>0. /\ json \in {"none", "rows"} /\ responses \in {"none", "rows", "empty"} /\ atomic \subseteq Rows \X Cluster
      /\ 1 \in {0, 1, 137} /\ 137 \in {0, 1, 137}
  BY DEF PollIInv, PollTypes
<1>1. CASE StartPollTask
  BY <1>1, TaskStarts
<1>2. CASE LoadMessages
  <2>1. stage.at = "load" /\ UNCHANGED <<pollRow, column, responses, pollEvents>>
    BY <1>2 DEF LoadMessages
  <2>2. CASE StageAt(IF Rows = {} THEN "upload" ELSE "cluster") /\ UNCHANGED <<atomic, json, errors, exits>>
    <3>1. PICK place \in {"cluster", "merge", "upload", "send"} :
            place = (IF Rows = {} THEN "upload" ELSE "cluster") /\ place # "send"
      OBVIOUS
    <3>2. StageAt(place)
      BY <2>2, <3>1
    <3>3. QED
      BY <1>0, <2>1, <2>2, <3>1, <3>2, TaskGoesOn
  <2>3. CASE Exit(1)
    <3>1. PICK code \in {0, 1, 137} : code = 1
      OBVIOUS
    <3>2. Exit(code) /\ code # 0
      BY <2>3, <3>1
    <3>3. QED
      BY <2>1, <3>2, EndsQuietly
  <2>4. QED
    BY <1>2, <2>2, <2>3 DEF LoadMessages
<1>3. CASE ClusterMessages
  <2>1. /\ stage.at = "cluster" /\ StageAt("merge")
        /\ UNCHANGED <<pollRow, column, json, responses, pollEvents, exits>>
    BY <1>3 DEF ClusterMessages
  <2>2. atomic' \subseteq Rows \X Cluster
    <3>1. CASE \E split \in [Rows -> Split] : atomic' = {a \in Rows \X Cluster : a[2] \in split[a[1]]}
      BY <3>1
    <3>2. CASE atomic' = {}
      BY <3>2
    <3>3. QED
      BY <1>3, <3>1, <3>2 DEF ClusterMessages
  <2>3. PICK place \in {"cluster", "merge", "upload", "send"} : place = "merge"
    OBVIOUS
  <2>4. StageAt(place) /\ place # "send"
    BY <2>1, <2>3
  <2>5. QED
    BY <1>0, <2>1, <2>2, <2>4, TaskGoesOn
<1>4. CASE Merge
  <2>1. /\ stage.at = "merge" /\ StageAt("upload") /\ json' \in {"none", "rows"}
        /\ UNCHANGED <<pollRow, column, atomic, responses, pollEvents, exits>>
    BY <1>4 DEF Merge
  <2>2. PICK place \in {"cluster", "merge", "upload", "send"} : place = "upload"
    OBVIOUS
  <2>3. StageAt(place) /\ place # "send"
    BY <2>1, <2>2
  <2>4. QED
    BY <1>0, <2>1, <2>3, TaskGoesOn
<1>5. CASE UploadResponses
  <2>1. stage.at = "upload" /\ UNCHANGED <<pollRow, column, pollEvents>>
    BY <1>5 DEF UploadResponses
  <2>2. CASE /\ StageAt("send") /\ responses' = (IF json = "rows" THEN "rows" ELSE "empty")
             /\ UNCHANGED <<atomic, json, errors, exits>>
    <3>1. PICK place \in {"cluster", "merge", "upload", "send"} : place = "send"
      OBVIOUS
    <3>2. StageAt(place) /\ responses' \in {"none", "rows", "empty"} /\ responses' # "none"
      BY <2>2, <3>1
    <3>3. QED
      BY <1>0, <2>1, <2>2, <3>2, TaskGoesOn
  <2>3. CASE UNCHANGED responses /\ Exit(1)
    <3>1. PICK code \in {0, 1, 137} : code = 1
      OBVIOUS
    <3>2. Exit(code) /\ code # 0
      BY <2>3, <3>1
    <3>3. QED
      BY <2>1, <2>3, <3>2, EndsQuietly
  <2>4. QED
    BY <1>5, <2>2, <2>3 DEF UploadResponses
<1>6. CASE \E p \in Poll \cup {""} : SendEvent(p)
  <2>1. PICK poll : SendEvent(poll)
    BY <1>6, Zenon
  <2>2. poll \in Poll
    BY <2>1 DEF SendEvent, PollFiles
  <2>3. QED
    BY <2>1, <2>2, SendStep
<1>7. CASE SaveEvents
  <2>1. PICK code \in {0, 1, 137} : Exit(code)
    BY <1>7 DEF SaveEvents
  <2>2. /\ stage.at = "send" /\ stage.told = Poll
        /\ UNCHANGED <<pollRow, column, responses, pollEvents>>
    BY <1>7 DEF SaveEvents, PollFiles
  <2>3. QED
    BY <2>1, <2>2, EndsQuietly
<1>8. CASE Stop
  <2>1. PICK code \in {0, 1, 137} : code = 137
    OBVIOUS
  <2>2. Exit(code) /\ code # 0 /\ UNCHANGED <<pollRow, column, responses, pollEvents>>
    BY <1>8, <2>1 DEF Stop
  <2>3. stage.at # "none"
    BY <1>8 DEF Stop, PollIInv, TasksAre
  <2>4. QED
    BY <2>2, <2>3, EndsQuietly
<1>9. CASE UNCHANGED pollVars
  <2>1. Rows' = Rows /\ \A poll : WroteIn(poll)' = WroteIn(poll)
    BY <1>9, RowsStay DEF pollVars
  <2>2. PollTypes'
    BY <1>9, <2>1 DEF pollVars, PollIInv, PollTypes
  <2>3. SaidSomething' = SaidSomething
    BY <1>9 DEF pollVars, SaidSomething
  <2>4. TasksAre'
    BY <1>9, <2>3 DEF pollVars, PollIInv, TasksAre
  <2>5. SentSoFar' /\ EveryPollTold' /\ ResponsesThere'
    BY <1>9, <2>1 DEF pollVars, PollIInv, SentSoFar, EveryPollTold, ResponsesThere
  <2>6. QED
    BY <2>2, <2>4, <2>5 DEF PollIInv
<1>10. QED
  BY <1>1, <1>2, <1>3, <1>4, <1>5, <1>6, <1>7, <1>8, <1>9, Zenon DEF PollNext

LEMMA PollImplied == PollIInv => PollInv
<1>0. SUFFICES ASSUME PollIInv PROVE PollInv
  OBVIOUS
<1>1. PollTypeOK
  <2>1. pollRow \in [Rows -> [file : Poll, phone : Phone, poll : Poll \cup {""}]]
    BY <1>0, Zenon DEF PollIInv, PollTypes, RowRecord
  <2>2. /\ stage.at \in {"none", "load", "cluster", "merge", "upload", "send", "save"}
        /\ stage.told \subseteq Poll
    BY <1>0 DEF PollIInv, PollTypes, StageRecord
  <2>3. stage.at # "none" => stage.task = Cardinality(DOMAIN exits) + 1
    <3>1. PICK k \in Nat : DOMAIN exits = 1 .. k /\ (stage.at # "none" => stage.task = k + 1)
      BY <1>0 DEF PollIInv, TasksAre
    <3>2. Cardinality(DOMAIN exits) = k
      BY <3>1, TasksCount DEF Tasks
    <3>3. QED
      BY <3>1, <3>2
  <2>4. atomic \subseteq PollRow \X Cluster
    BY <1>0 DEF PollIInv, PollTypes
  <2>5. \A e \in pollEvents : e.poll \in Poll /\ e.total \in 0 .. Cardinality(Phone)
    BY <1>0 DEF PollIInv, PollTypes, EventRecord
  <2>6. /\ Rows \subseteq PollRow /\ column \subseteq Poll
        /\ json \in {"none", "rows"} /\ responses \in {"none", "rows", "empty"}
        /\ \A t \in DOMAIN exits : exits[t] \in {0, 1, 137}
    BY <1>0 DEF PollIInv, PollTypes
  <2>7. QED
    BY <2>1, <2>2, <2>3, <2>4, <2>5, <2>6, Zenon DEF PollTypeOK
<1>2. CountedWroteIn
  <2>1. SUFFICES ASSUME NEW e \in pollEvents, NEW n \in e.counted
                 PROVE  /\ \E r \in Rows : pollRow[r].phone = n /\ PollOf(r) = e.poll
                        /\ stage.at = "send" /\ e.task = stage.task =>
                             \E a \in atomic : pollRow[a[1]].phone = n /\ a[2] # 0
    BY DEF CountedWroteIn
  <2>2. n \in WroteIn(e.poll)
    BY <1>0 DEF PollIInv, SentSoFar
  <2>3. stage.at = "send" /\ e.task = stage.task => n \in SaidSomething
    <3>1. PICK k \in Nat : DOMAIN exits = 1 .. k /\ (stage.at # "none" => stage.task = k + 1)
      BY <1>0 DEF PollIInv, TasksAre
    <3>2. stage.at = "send" /\ e.task = stage.task => e.task \notin DOMAIN exits
      BY <3>1
    <3>3. QED
      BY <1>0, <3>2 DEF PollIInv, TasksAre
  <2>4. QED
    BY <2>2, <2>3 DEF WroteIn, SaidSomething
<1>3. QED
  BY <1>0, <1>1, <1>2 DEF PollIInv, PollInv

(* What gp-api is told of the polls of a run is complete and true: a task  *)
(* that exits with 0 has sent an event for every file, empty ones too; who *)
(* is counted in a poll wrote in it, and in the task that counts something *)
(* that is no opt-out, although records are joined by phone numbers; and   *)
(* the responses object is in S3 before the first event, for any files,    *)
(* rows, phones and number of tasks (message_processor.py, orchestrator.py,*)
(* data_export.py).                                                        *)
THEOREM PollsAreTold == PollSpec => []PollInv
<1>1. PollIInv /\ [PollNext]_pollVars => PollIInv'
  BY PollStep
<1>2. QED
  BY <1>1, PollStart, PollImplied, PTL DEF PollSpec

-----------------------------------------------------------------------------
(* The files of the discovery pipeline                                     *)

(* What is there is of runs that have begun; a run has no page, and no     *)
(* temporary result, before it makes its page; who is beyond the table has *)
(* one.                                                                    *)
FilesIInv ==
  /\ filesAt \in [run : 1 .. MaxFileRuns + 1, step : Step]
  /\ tables \subseteq FileRun /\ temps \subseteq FileRun /\ reports \subseteq FileRun
  /\ filesAt.step # "table" => fileRun \in tables
  /\ images \in [Image -> SUBSET FileRun] /\ \A i \in Image : \A r \in images[i] : r <= fileRun
  /\ \A i \in Image : filesAt.step \in {"table", "images"} => fileRun \notin images[i]
  /\ \A r \in temps \cup DOMAIN pages : r < fileRun \/ (r = fileRun /\ filesAt.step = "report")
  /\ DOMAIN pages \subseteq FileRun
  /\ ReportHasTable /\ OwnImagesShown

LEMMA FilesStart == FilesInit => FilesIInv
BY FilesAssumption DEF FilesInit, FilesIInv, ReportHasTable, OwnImagesShown, fileRun, Step, Image, FileRun, NoImage

(* The newest image of a kind is of a run that drew it, and no run drew it *)
(* later.                                                                  *)
LEMMA FoundIs ==
  ASSUME NEW i \in Image, FilesIInv
  PROVE  \/ images[i] = {} /\ Found(i) = NoImage
         \/ Found(i) \in images[i] /\ \A r \in images[i] : r <= Found(i)
<1>1. images[i] \in SUBSET FileRun /\ FileRun \in SUBSET Nat
  BY FilesAssumption DEF FilesIInv, FileRun
<1>2. IsFiniteSet(images[i])
  <2>1. MaxFileRuns \in Int /\ 1 \in Int
    BY FilesAssumption
  <2>2. IsFiniteSet(FileRun)
    BY <2>1, FS_Interval DEF FileRun
  <2>3. QED
    BY <1>1, <2>2, FS_Subset
<1>3. CASE images[i] # {}
  <2>1. \E x \in images[i] : \A y \in images[i] : y <= x
    BY <1>1, <1>2, <1>3, FiniteMax
  <2>2. \E x \in images[i] : \A y \in images[i] : x >= y
    BY <1>1, <2>1
  <2>3. Max(images[i]) \in images[i] /\ \A y \in images[i] : Max(images[i]) >= y
    BY <2>2 DEF Max
  <2>4. QED
    BY <1>1, <1>3, <2>3 DEF Found
<1>4. QED
  BY <1>3 DEF Found

LEMMA FilesStep == ASSUME FilesIInv, [FilesNext]_filesVars PROVE FilesIInv'
<1>0. /\ MaxFileRuns \in Nat /\ fileRun \in 1 .. MaxFileRuns + 1 /\ filesAt.step \in Step
  BY FilesAssumption DEF FilesIInv, fileRun
<1>1. CASE WriteTable
  BY <1>0, <1>1 DEF FilesIInv, WriteTable, StepIs, ToStep, fileRun, ReportHasTable, OwnImagesShown, Step
<1>2. CASE DrawImages
  <2>1. PICK n \in 0 .. 3 : images' = [i \in Image |-> IF i <= n THEN images[i] \cup {fileRun} ELSE images[i]]
    BY <1>2 DEF DrawImages
  <2>2. /\ fileRun \in FileRun /\ filesAt.step = "images" /\ filesAt' = [filesAt EXCEPT !.step = "page"]
        /\ UNCHANGED <<tables, temps, pages, reports>>
    BY <1>2 DEF DrawImages, StepIs, ToStep
  <2>3. filesAt' \in [run : 1 .. MaxFileRuns + 1, step : Step] /\ fileRun' = fileRun /\ filesAt'.step = "page"
    BY <2>2 DEF FilesIInv, fileRun, Step
  <2>4. /\ images' \in [Image -> SUBSET FileRun]
        /\ \A i \in Image : images'[i] = images[i] \/ images'[i] = images[i] \cup {fileRun}
    BY <2>1, <2>2 DEF FilesIInv
  <2>5. \A i \in Image : \A r \in images'[i] : r <= fileRun
    BY <1>0, <2>4 DEF FilesIInv
  <2>6. \A r \in temps \cup DOMAIN pages : r < fileRun
    BY <2>2 DEF FilesIInv
  <2>7. OwnImagesShown'
    BY <1>0, <2>2, <2>4, <2>6 DEF FilesIInv, OwnImagesShown, FileRun
  <2>8. QED
    BY <2>2, <2>3, <2>4, <2>5, <2>6, <2>7 DEF FilesIInv, ReportHasTable
<1>3. CASE WritePage
  <2>1. PICK unread \in SUBSET Image :
          pages' = [r \in DOMAIN pages \cup {fileRun} |->
                     IF r = fileRun THEN [i \in Image |-> IF i \in unread THEN NoImage ELSE Found(i)]
                     ELSE pages[r]]
    BY <1>3 DEF WritePage
  <2>2. /\ fileRun \in FileRun /\ filesAt.step = "page" /\ filesAt' = [filesAt EXCEPT !.step = "report"]
        /\ UNCHANGED <<tables, images, temps, reports>>
    BY <1>3 DEF WritePage, StepIs, ToStep
  <2>3. filesAt' \in [run : 1 .. MaxFileRuns + 1, step : Step] /\ fileRun' = fileRun /\ filesAt'.step = "report"
    BY <2>2 DEF FilesIInv, fileRun, Step
  <2>4. DOMAIN pages' = DOMAIN pages \cup {fileRun} /\ \A r \in DOMAIN pages : r # fileRun => pages'[r] = pages[r]
    BY <2>1
  <2>5. \A i \in Image : pages'[fileRun][i] = NoImage \/ pages'[fileRun][i] = Found(i)
    BY <2>1
  <2>6. fileRun \notin temps /\ fileRun \notin DOMAIN pages /\ fileRun \in tables
    BY <1>0, <2>2 DEF FilesIInv
  <2>7. OwnImagesShown'
    <3>1. SUFFICES ASSUME NEW r \in DOMAIN pages', NEW i \in Image, pages'[r][i] # NoImage
                   PROVE  pages'[r][i] <= r /\ (r \in images[i] => pages'[r][i] = r)
      BY <2>2 DEF OwnImagesShown
    <3>2. CASE r = fileRun
      <4>1. pages'[r][i] = Found(i) /\ Found(i) # NoImage
        BY <2>5, <3>1, <3>2
      <4>2. Found(i) \in images[i] /\ \A x \in images[i] : x <= Found(i)
        BY <4>1, FoundIs
      <4>3. Found(i) <= fileRun /\ Found(i) \in Nat
        BY <4>2 DEF FilesIInv, FileRun
      <4>4. QED
        BY <1>0, <3>2, <4>1, <4>2, <4>3
    <3>3. CASE r # fileRun
      BY <2>4, <3>1, <3>3 DEF FilesIInv, OwnImagesShown
    <3>4. QED
      BY <3>2, <3>3
  <2>8. DOMAIN pages' \subseteq FileRun /\ ReportHasTable'
    BY <2>2, <2>4, <2>6 DEF FilesIInv, ReportHasTable
  <2>9. \A r \in temps \cup DOMAIN pages' : r < fileRun \/ r = fileRun
    BY <2>2, <2>4 DEF FilesIInv
  <2>10. QED
    BY <2>2, <2>3, <2>7, <2>8, <2>9 DEF FilesIInv
<1>4. CASE FailPage
  <2>1. /\ fileRun \in FileRun /\ filesAt.step = "page" /\ filesAt' = [filesAt EXCEPT !.step = "report"]
        /\ temps \subseteq temps' /\ temps' \subseteq temps \cup {fileRun}
        /\ UNCHANGED <<tables, images, pages, reports>>
    BY <1>4 DEF FailPage, StepIs, ToStep
  <2>2. filesAt' \in [run : 1 .. MaxFileRuns + 1, step : Step] /\ fileRun' = fileRun /\ filesAt'.step = "report"
    BY <2>1 DEF FilesIInv, fileRun, Step
  <2>3. \A r \in DOMAIN pages : r # fileRun
    BY <1>0, <2>1 DEF FilesIInv
  <2>4. ReportHasTable'
    BY <2>1, <2>3 DEF FilesIInv, ReportHasTable
  <2>5. \A r \in temps' \cup DOMAIN pages : r < fileRun \/ r = fileRun
    BY <2>1 DEF FilesIInv
  <2>6. QED
    BY <2>1, <2>2, <2>4, <2>5 DEF FilesIInv, OwnImagesShown
<1>5. CASE WriteReport
  <2>1. /\ fileRun \in FileRun /\ filesAt.step = "report" /\ filesAt' = [run |-> fileRun + 1, step |-> "table"]
        /\ reports' = reports \cup {fileRun} /\ UNCHANGED <<tables, images, temps, pages>>
    BY <1>5 DEF WriteReport, StepIs, FollowingRun
  <2>2. filesAt' \in [run : 1 .. MaxFileRuns + 1, step : Step] /\ fileRun' = fileRun + 1 /\ filesAt'.step = "table"
    BY <1>0, <2>1 DEF fileRun, FileRun, Step
  <2>3. \A r \in temps \cup DOMAIN pages : r < fileRun + 1
    BY <1>0 DEF FilesIInv, FileRun
  <2>4. \A i \in Image : \A r \in images[i] : r <= fileRun + 1 /\ r # fileRun + 1
    BY <1>0 DEF FilesIInv, FileRun
  <2>5. QED
    BY <2>1, <2>2, <2>3, <2>4 DEF FilesIInv, OwnImagesShown, ReportHasTable
<1>6. CASE FileRunEnds
  <2>1. /\ fileRun \in FileRun /\ filesAt' = [run |-> fileRun + 1, step |-> "table"]
        /\ temps \subseteq temps' /\ temps' \subseteq temps \cup {fileRun}
        /\ fileRun \in temps' => fileRun \in temps \/ filesAt.step = "page"
        /\ UNCHANGED <<tables, images, pages, reports>>
    BY <1>6 DEF FileRunEnds, FollowingRun
  <2>2. filesAt' \in [run : 1 .. MaxFileRuns + 1, step : Step] /\ fileRun' = fileRun + 1 /\ filesAt'.step = "table"
    BY <1>0, <2>1 DEF fileRun, FileRun, Step
  <2>3. \A r \in temps' \cup DOMAIN pages : r < fileRun + 1
    BY <1>0, <2>1 DEF FilesIInv, FileRun
  <2>4. \A i \in Image : \A r \in images[i] : r <= fileRun + 1 /\ r # fileRun + 1
    BY <1>0 DEF FilesIInv, FileRun
  <2>5. ReportHasTable'
    <3>1. fileRun \in temps' /\ fileRun \notin temps => fileRun \notin DOMAIN pages
      BY <1>0, <2>1 DEF FilesIInv
    <3>2. QED
      BY <2>1, <3>1 DEF FilesIInv, ReportHasTable
  <2>6. QED
    BY <2>1, <2>2, <2>3, <2>4, <2>5 DEF FilesIInv, OwnImagesShown
<1>7. CASE UNCHANGED filesVars
  BY <1>7 DEF filesVars, FilesIInv, fileRun, ReportHasTable, OwnImagesShown
<1>8. QED
  BY <1>1, <1>2, <1>3, <1>4, <1>5, <1>6, <1>7 DEF FilesNext

LEMMA FilesImplied == FilesIInv => FilesInv
BY DEF FilesIInv, FilesInv, FilesTypeOK

(* What the files of a run show is its own where it can be: a report has   *)
(* its table, a page leaves no temporary result, and an image of another   *)
(* run is on a page only if its run drew none, and then of an earlier one, *)
(* for any number of runs in the directory (visualization_generator.py,    *)
(* find_dendrogram_images).                                                *)
THEOREM PagesShowTheirOwn == FilesSpec => []FilesInv
<1>1. FilesIInv /\ [FilesNext]_filesVars => FilesIInv'
  BY FilesStep
<1>2. QED
  BY <1>1, FilesStart, FilesImplied, PTL DEF FilesSpec

-----------------------------------------------------------------------------
(* The discovery pipeline                                                  *)

LEMMA LeastNat ==
  ASSUME NEW S \in SUBSET Nat, S # {}
  PROVE  \E n \in S : \A m \in S : ~(m < n)
<1>1. PICK n \in S : \A m \in S : <<m, n>> \notin OpToRel(<, Nat)
  BY WFMin, NatLessThanWellFounded, Zenon
<1>2. \A m \in S : m \in Nat
  OBVIOUS
<1>3. QED
  BY <1>1, <1>2, Zenon DEF OpToRel

(* The steps of a chain along the map of the merger.                       *)
IsChain(step, map, c, n) ==
  step = [i \in 0 .. n |-> IF i = 0 THEN c
                           ELSE IF step[i - 1] \in DOMAIN map THEN map[step[i - 1]] ELSE step[i - 1]]

ChainOf(map, c, n) == CHOOSE step : IsChain(step, map, c, n)

LEMMA EndIsLast ==
  ASSUME NEW map, NEW c, NEW n, n = Cardinality(DOMAIN map)
  PROVE  EndOf(map, c) = ChainOf(map, c, n)[n]
BY DEF EndOf, ChainOf, IsChain

LEMMA ChainExists ==
  ASSUME NEW map, NEW c, NEW n \in Nat
  PROVE  \E step : IsChain(step, map, c, n)
<1> DEFINE Short == {m \in Nat : ~ \E step : IsChain(step, map, c, m)}
<1>1. SUFFICES ASSUME Short # {} PROVE FALSE
  OBVIOUS
<1>2. PICK m \in Short : \A k \in Short : ~(k < m)
  BY <1>1, LeastNat
<1>3. CASE m = 0
  <2>1. PICK step : step = [i \in 0 .. m |-> c]
    OBVIOUS
  <2>2. \A i \in 0 .. m : i = 0
    BY <1>3
  <2>3. IsChain(step, map, c, m)
    BY <2>1, <2>2 DEF IsChain
  <2>4. QED
    BY <2>3, <1>2
<1>4. CASE m # 0
  <2>1. PICK p \in Nat : m = p + 1
    <3>1. m \in Nat /\ m - 1 \in Nat /\ m = m - 1 + 1
      BY <1>4
    <3>2. QED
      BY <3>1
  <2>2. p \notin Short
    BY <2>1, <1>2
  <2>3. PICK step : IsChain(step, map, c, p)
    BY <2>2
  <2>4. PICK next : next = [i \in 0 .. m |-> IF i < m THEN step[i]
                                             ELSE IF step[p] \in DOMAIN map THEN map[step[p]] ELSE step[p]]
    OBVIOUS
  <2>5. \A i \in 0 .. p : step[i] = IF i = 0 THEN c ELSE IF step[i - 1] \in DOMAIN map THEN map[step[i - 1]] ELSE step[i - 1]
    BY <2>3 DEF IsChain
  <2>6. \A i \in 0 .. p : i \in 0 .. m /\ i < m
    BY <2>1
  <2>7. \A i \in 0 .. p : next[i] = step[i]
    BY <2>4, <2>6
  <2>8. \A i \in 0 .. m : i # 0 => i - 1 \in 0 .. p
    BY <2>1
  <2>9. m \in 0 .. m /\ ~(m < m) /\ m - 1 = p /\ p \in 0 .. p /\ m # 0
    BY <2>1
  <2>10. next[m] = IF step[p] \in DOMAIN map THEN map[step[p]] ELSE step[p]
    BY <2>4, <2>9
  <2>11. ASSUME NEW i \in 0 .. m
         PROVE  next[i] = IF i = 0 THEN c ELSE IF next[i - 1] \in DOMAIN map THEN map[next[i - 1]] ELSE next[i - 1]
    <3>1. CASE i = m
      BY <3>1, <2>7, <2>9, <2>10
    <3>2. CASE i # m
      <4>1. i \in 0 .. p
        BY <3>2, <2>1
      <4>2. QED
        BY <4>1, <2>5, <2>7, <2>8
    <3>3. QED
      BY <3>1, <3>2
  <2>12. IsChain(next, map, c, m)
    BY <2>4, <2>11 DEF IsChain
  <2>13. QED
    BY <2>12, <1>2
<1>5. QED
  BY <1>3, <1>4

LEMMA ChainSteps ==
  ASSUME NEW map, IsFiniteSet(DOMAIN map), NEW c
  PROVE  \E n \in Nat : \E s :
           /\ n = Cardinality(DOMAIN map) /\ EndOf(map, c) = s[n] /\ s[0] = c
           /\ \A i \in 0 .. n - 1 : s[i + 1] = IF s[i] \in DOMAIN map THEN map[s[i]] ELSE s[i]
<1>1. PICK n \in Nat : n = Cardinality(DOMAIN map)
  BY FS_CardinalityType
<1>2. PICK s : s = ChainOf(map, c, n)
  OBVIOUS
<1>3. IsChain(s, map, c, n)
  BY <1>2, ChainExists DEF ChainOf
<1>4. \A i \in 0 .. n : s[i] = IF i = 0 THEN c ELSE IF s[i - 1] \in DOMAIN map THEN map[s[i - 1]] ELSE s[i - 1]
  BY <1>3 DEF IsChain
<1>5. s[0] = c
  BY <1>4
<1>6. \A i \in 0 .. n - 1 : i + 1 \in 0 .. n /\ i + 1 # 0 /\ i + 1 - 1 = i
  OBVIOUS
<1>7. \A i \in 0 .. n - 1 : s[i + 1] = IF s[i] \in DOMAIN map THEN map[s[i]] ELSE s[i]
  BY <1>4, <1>6
<1>8. EndOf(map, c) = s[n]
  BY <1>1, <1>2, EndIsLast
<1>9. QED
  BY <1>1, <1>5, <1>7, <1>8

(* A cluster that is nobody's source stays, any other ends at a target.    *)
LEMMA EndIsTarget ==
  ASSUME NEW map, IsFiniteSet(DOMAIN map), NEW c
  PROVE  EndOf(map, c) = c \/ (c \in DOMAIN map /\ \E d \in DOMAIN map : EndOf(map, c) = map[d])
<1>1. PICK n \in Nat : \E s :
        /\ n = Cardinality(DOMAIN map) /\ EndOf(map, c) = s[n] /\ s[0] = c
        /\ \A i \in 0 .. n - 1 : s[i + 1] = IF s[i] \in DOMAIN map THEN map[s[i]] ELSE s[i]
  BY ChainSteps
<1>2. PICK s :
        /\ n = Cardinality(DOMAIN map) /\ EndOf(map, c) = s[n] /\ s[0] = c
        /\ \A i \in 0 .. n - 1 : s[i + 1] = IF s[i] \in DOMAIN map THEN map[s[i]] ELSE s[i]
  BY <1>1
<1> DEFINE Fine(x) == x = c \/ (c \in DOMAIN map /\ \E d \in DOMAIN map : x = map[d])
           Wrong == {i \in 0 .. n : ~Fine(s[i])}
<1>3. SUFFICES Fine(s[n])
  BY <1>2
<1>4. SUFFICES ASSUME ~Fine(s[n]) PROVE FALSE
  OBVIOUS
<1>5. n \in Wrong /\ Wrong \in SUBSET Nat
  BY <1>4
<1>6. PICK m \in Wrong : \A k \in Wrong : ~(k < m)
  BY ONLY <1>5, LeastNat
<1>7. m \in 0 .. n /\ ~Fine(s[m])
  BY <1>6
<1>8. m # 0
  BY <1>2, <1>7
<1>9. PICK p \in 0 .. n - 1 : m = p + 1
  <2>1. m - 1 \in 0 .. n - 1 /\ m = m - 1 + 1
    BY <1>7, <1>8
  <2>2. QED
    BY <2>1
<1>10. p \in 0 .. n /\ p < m
  BY <1>9
<1>11. Fine(s[p])
  BY <1>10, <1>6
<1>12. s[m] = IF s[p] \in DOMAIN map THEN map[s[p]] ELSE s[p]
  BY <1>2, <1>9
<1>13. CASE s[p] \in DOMAIN map
  BY <1>7, <1>11, <1>12, <1>13
<1>14. CASE s[p] \notin DOMAIN map
  BY <1>7, <1>11, <1>12, <1>14
<1>15. QED
  BY <1>13, <1>14

(* A chain that does not end goes round in a ring.                         *)
LEMMA EndlessIsRing ==
  ASSUME NEW map, IsFiniteSet(DOMAIN map), NEW c, EndOf(map, c) \in DOMAIN map
  PROVE  \E ring \in SUBSET DOMAIN map :
           ring # {} /\ (\A d \in ring : map[d] \in ring) /\ (\A d \in ring : \E e \in ring : d = map[e])
<1>1. PICK n \in Nat : \E s :
        /\ n = Cardinality(DOMAIN map) /\ EndOf(map, c) = s[n] /\ s[0] = c
        /\ \A i \in 0 .. n - 1 : s[i + 1] = IF s[i] \in DOMAIN map THEN map[s[i]] ELSE s[i]
  BY ONLY IsFiniteSet(DOMAIN map), ChainSteps
<1>2. PICK s :
        /\ n = Cardinality(DOMAIN map) /\ EndOf(map, c) = s[n] /\ s[0] = c
        /\ \A i \in 0 .. n - 1 : s[i + 1] = IF s[i] \in DOMAIN map THEN map[s[i]] ELSE s[i]
  BY <1>1
<1> DEFINE Off == {i \in 0 .. n : s[i] \notin DOMAIN map}
<1>3. Off = {}
  <2>1. SUFFICES ASSUME Off # {} PROVE FALSE
    OBVIOUS
  <2>2. IsFiniteSet(Off) /\ Off \in SUBSET Nat
    <3>1. IsFiniteSet(0 .. n) /\ Off \in SUBSET (0 .. n) /\ 0 .. n \subseteq Nat
      BY FS_Interval
    <3>2. QED
      BY <3>1, FS_Subset
  <2>3. PICK m \in Off : \A k \in Off : k <= m
    BY ONLY <2>1, <2>2, FiniteMax
  <2>4. m \in 0 .. n /\ s[m] \notin DOMAIN map
    BY <2>3
  <2>5. m # n
    BY <2>4, <1>2
  <2>6. m \in 0 .. n - 1 /\ m + 1 \in 0 .. n /\ ~(m + 1 <= m)
    BY <2>4, <2>5
  <2>7. s[m + 1] = s[m]
    BY <2>4, <2>6, <1>2
  <2>8. m + 1 \in Off
    BY <2>4, <2>6, <2>7
  <2>9. QED
    BY <2>3, <2>6, <2>8
<1>4. \A i \in 0 .. n : s[i] \in DOMAIN map
  BY <1>3
<1>5. PICK i \in 0 .. n, j \in 0 .. n : i # j /\ s[i] = s[j]
  <2>1. PICK f : f = [k \in 0 .. n |-> s[k]]
    OBVIOUS
  <2>2. f \in [0 .. n -> DOMAIN map] /\ \A k \in 0 .. n : f[k] = s[k]
    BY <2>1, <1>4
  <2>3. IsFiniteSet(0 .. n) /\ Cardinality(0 .. n) = n + 1
    BY FS_Interval
  <2>4. Cardinality(DOMAIN map) < Cardinality(0 .. n)
    BY <2>3, <1>2
  <2>5. \E x, y \in 0 .. n : x # y /\ f[x] = f[y]
    BY <2>2, <2>3, <2>4, FS_PigeonHole
  <2>6. QED
    BY <2>2, <2>5
<1>6. PICK a \in 0 .. n, b \in 0 .. n : a < b /\ s[a] = s[b]
  BY <1>5
<1> DEFINE ring == {s[k] : k \in {x \in 0 .. n : a <= x /\ x < b}}
<1>7. ring \in SUBSET DOMAIN map
  BY <1>4
<1>8. s[a] \in ring
  BY <1>6
<1>9. ASSUME NEW d \in ring PROVE map[d] \in ring
  <2>1. PICK k \in 0 .. n : a <= k /\ k < b /\ d = s[k]
    OBVIOUS
  <2>2. k \in 0 .. n - 1 /\ k + 1 \in 0 .. n /\ a <= k + 1 /\ (k + 1 < b \/ k + 1 = b)
    BY <2>1
  <2>3. map[d] = s[k + 1]
    BY <2>1, <2>2, <1>2, <1>4
  <2>4. CASE k + 1 < b
    BY <2>2, <2>3, <2>4
  <2>5. CASE k + 1 = b
    BY <2>3, <2>5, <1>6, <1>8
  <2>6. QED
    BY <2>2, <2>4, <2>5
<1>10. ASSUME NEW d \in ring PROVE \E e \in ring : d = map[e]
  <2>1. PICK k \in 0 .. n : a <= k /\ k < b /\ d = s[k]
    OBVIOUS
  <2>2. PICK q \in 0 .. n : a < q /\ q <= b /\ d = s[q]
    <3>1. CASE k = a
      BY <3>1, <2>1, <1>6
    <3>2. CASE k # a
      BY <3>2, <2>1
    <3>3. QED
      BY <3>1, <3>2
  <2>3. PICK p \in 0 .. n - 1 : q = p + 1
    <3>1. q - 1 \in 0 .. n - 1 /\ q = q - 1 + 1
      BY <2>2
    <3>2. QED
      BY <3>1
  <2>4. p \in 0 .. n /\ a <= p /\ p < b
    BY <2>2, <2>3
  <2>5. s[q] = map[s[p]]
    BY <2>3, <2>4, <1>2, <1>4
  <2>6. s[p] \in ring
    BY <2>4
  <2>7. QED
    BY <2>2, <2>5, <2>6
<1>11. QED
  BY <1>7, <1>8, <1>9, <1>10

-----------------------------------------------------------------------------

Themed == [DOMAIN mentions -> Nat \ {0}]
Pair == {g \in [1 .. 2 -> DOMAIN mentions \cup {Unknown}] : g[1] # g[2]}

LEMMA PairFacts ==
  ASSUME NEW g \in Pair
  PROVE  DOMAIN g = 1 .. 2 /\ Len(g) = 2 /\ ToSet(g) = {g[1], g[2]} /\ g[1] # g[2]
         /\ ToSet(g) \subseteq DOMAIN mentions \cup {Unknown}
<1>1. g \in [1 .. 2 -> DOMAIN mentions \cup {Unknown}] /\ g[1] # g[2]
  BY DEF Pair
<1>2. DOMAIN g = 1 .. 2 /\ Len(g) = 2
  BY <1>1
<1>3. 1 .. 2 = {1, 2}
  OBVIOUS
<1>4. ToSet(g) = {g[1], g[2]}
  BY <1>2, <1>3 DEF ToSet
<1>5. QED
  BY <1>1, <1>2, <1>3, <1>4

(* The target of a group is the largest that is known.                     *)
LEMMA TargetIsLargest ==
  ASSUME mentions \in Themed, NEW g \in Pair, Known(g) # {}
  PROVE  TargetOf(g) \in Known(g) /\ \A c \in Known(g) : mentions[c] <= mentions[TargetOf(g)]
<1> DEFINE Largest(i) == /\ g[i] \in Known(g)
                         /\ \A j \in DOMAIN g : g[j] \in Known(g) =>
                              \/ mentions[g[j]] < mentions[g[i]]
                              \/ mentions[g[j]] = mentions[g[i]] /\ i <= j
<1>1. /\ DOMAIN g = 1 .. 2 /\ ToSet(g) = {g[1], g[2]} /\ 1 .. 2 = {1, 2}
  BY PairFacts
<1>2. \A c \in Known(g) : mentions[c] \in Nat /\ (c = g[1] \/ c = g[2])
  BY <1>1 DEF Known, Themed
<1>3. \E i \in DOMAIN g : Largest(i)
  <2>1. CASE g[1] \in Known(g) /\ g[2] \in Known(g)
    <3>1. mentions[g[1]] \in Nat /\ mentions[g[2]] \in Nat
      BY <2>1, <1>2
    <3>2. CASE mentions[g[1]] < mentions[g[2]]
      <4>1. Largest(2)
        BY <2>1, <3>2, <1>1
      <4>2. QED
        BY <4>1, <1>1
    <3>3. CASE ~(mentions[g[1]] < mentions[g[2]])
      <4>1. Largest(1)
        BY <2>1, <3>1, <3>3, <1>1
      <4>2. QED
        BY <4>1, <1>1
    <3>4. QED
      BY <3>2, <3>3
  <2>2. CASE g[1] \in Known(g) /\ g[2] \notin Known(g)
    <3>1. Largest(1)
      BY <2>2, <1>1, <1>2
    <3>2. QED
      BY <3>1, <1>1
  <2>3. CASE g[1] \notin Known(g) /\ g[2] \in Known(g)
    <3>1. Largest(2)
      BY <2>3, <1>1, <1>2
    <3>2. QED
      BY <3>1, <1>1
  <2>4. QED
    BY <2>1, <2>2, <2>3, <1>2
<1>4. PICK i \in DOMAIN g : Largest(i) /\ TargetOf(g) = g[i]
  <2>1. TargetOf(g) = g[CHOOSE i \in DOMAIN g : Largest(i)]
    BY DEF TargetOf
  <2>2. PICK i : i = CHOOSE k \in DOMAIN g : Largest(k)
    OBVIOUS
  <2>3. i \in DOMAIN g /\ Largest(i)
    BY <2>2, <1>3
  <2>4. QED
    BY <2>1, <2>2, <2>3
<1>5. ASSUME NEW c \in Known(g) PROVE mentions[c] <= mentions[g[i]]
  <2>1. PICK j \in DOMAIN g : c = g[j]
    BY <1>1, <1>2
  <2>2. mentions[c] \in Nat /\ mentions[g[i]] \in Nat
    BY <1>2, <1>4
  <2>3. QED
    BY <2>1, <2>2, <1>4
<1>6. QED
  BY <1>4, <1>5

(* What the merge map says of a source: a target of one of its groups.     *)
LEMMA MapFacts ==
  ASSUME mentions \in Themed, NEW n \in Nat, NEW gs \in [1 .. n -> Pair], IsFiniteSet(DOMAIN mentions)
  PROVE  /\ IsFiniteSet(DOMAIN MergeMap(gs))
         /\ \A c \in DOMAIN MergeMap(gs) : \E i \in DOMAIN gs :
              /\ c \in Sources(gs[i]) /\ c \in ToSet(gs[i])
              /\ MergeMap(gs)[c] = TargetOf(gs[i])
              /\ TargetOf(gs[i]) \in Known(gs[i])
              /\ \A d \in Known(gs[i]) : mentions[d] <= mentions[TargetOf(gs[i])]
         /\ \A i \in DOMAIN gs : Sources(gs[i]) \subseteq DOMAIN MergeMap(gs)
<1>1. DOMAIN gs = 1 .. n /\ \A i \in DOMAIN gs : gs[i] \in Pair
  OBVIOUS
<1>2. DOMAIN MergeMap(gs) = UNION {Sources(gs[i]) : i \in DOMAIN gs}
  BY DEF MergeMap
<1>3. \A i \in DOMAIN gs : Sources(gs[i]) \subseteq ToSet(gs[i]) /\ (Sources(gs[i]) # {} => Known(gs[i]) # {})
  BY DEF Sources
<1>4. IsFiniteSet(DOMAIN MergeMap(gs))
  <2>1. IsFiniteSet(DOMAIN mentions \cup {Unknown})
    BY FS_AddElement
  <2>2. DOMAIN MergeMap(gs) \in SUBSET (DOMAIN mentions \cup {Unknown})
    BY <1>1, <1>2, <1>3, PairFacts
  <2>3. QED
    BY <2>1, <2>2, FS_Subset
<1>5. ASSUME NEW c \in DOMAIN MergeMap(gs)
      PROVE  \E i \in DOMAIN gs : c \in Sources(gs[i]) /\ MergeMap(gs)[c] = TargetOf(gs[i])
  <2> DEFINE Latest(i) == c \in Sources(gs[i]) /\ \A j \in DOMAIN gs : j > i => c \notin Sources(gs[j])
             From == {i \in DOMAIN gs : c \in Sources(gs[i])}
  <2>1. MergeMap(gs)[c] = TargetOf(gs[CHOOSE i \in DOMAIN gs : Latest(i)])
    BY <1>2 DEF MergeMap
  <2>2. IsFiniteSet(From) /\ From \in SUBSET Nat /\ From # {}
    <3>1. IsFiniteSet(1 .. n) /\ From \in SUBSET (1 .. n)
      BY <1>1, FS_Interval
    <3>2. QED
      BY <3>1, <1>2, FS_Subset
  <2>3. PICK m \in From : \A k \in From : k <= m
    BY ONLY <2>2, FiniteMax
  <2>4. Latest(m)
    BY <2>3, <1>1
  <2>5. PICK i : i = CHOOSE k \in DOMAIN gs : Latest(k)
    OBVIOUS
  <2>6. i \in DOMAIN gs /\ Latest(i)
    BY <2>4, <2>5
  <2>7. QED
    BY <2>1, <2>5, <2>6
<1>6. ASSUME NEW c \in DOMAIN MergeMap(gs)
      PROVE  \E i \in DOMAIN gs :
               /\ c \in Sources(gs[i]) /\ c \in ToSet(gs[i])
               /\ MergeMap(gs)[c] = TargetOf(gs[i])
               /\ TargetOf(gs[i]) \in Known(gs[i])
               /\ \A d \in Known(gs[i]) : mentions[d] <= mentions[TargetOf(gs[i])]
  <2>1. PICK i \in DOMAIN gs : c \in Sources(gs[i]) /\ MergeMap(gs)[c] = TargetOf(gs[i])
    BY <1>5
  <2>2. gs[i] \in Pair /\ Known(gs[i]) # {} /\ c \in ToSet(gs[i])
    BY <2>1, <1>1, <1>3
  <2>3. QED
    BY <2>1, <2>2, TargetIsLargest
<1>7. QED
  BY <1>2, <1>4, <1>6

(* Among the clusters of a ring, those of the largest size make up a ring. *)
LEMMA RingIsTied ==
  ASSUME mentions \in Themed, IsFiniteSet(DOMAIN mentions), NEW n \in Nat, NEW gs \in [1 .. n -> Pair],
         Endless(MergeMap(gs))
  PROVE  \E tied \in SUBSET DOMAIN mentions :
           /\ tied # {} /\ \A c, d \in tied : mentions[c] = mentions[d]
           /\ \A c \in tied : \E i \in DOMAIN gs : c \in Sources(gs[i]) /\ TargetOf(gs[i]) \in tied
<1>1. PICK map : map = MergeMap(gs)
  OBVIOUS
<1>2. /\ IsFiniteSet(DOMAIN map)
      /\ \A c \in DOMAIN map : \E i \in DOMAIN gs :
           /\ c \in Sources(gs[i]) /\ c \in ToSet(gs[i]) /\ map[c] = TargetOf(gs[i])
           /\ TargetOf(gs[i]) \in Known(gs[i])
           /\ \A d \in Known(gs[i]) : mentions[d] <= mentions[TargetOf(gs[i])]
  BY <1>1, MapFacts
<1>3. PICK c : EndOf(map, c) \in DOMAIN map
  BY <1>1 DEF Endless
<1>4. PICK ring \in SUBSET DOMAIN map :
        ring # {} /\ (\A d \in ring : map[d] \in ring) /\ (\A d \in ring : \E e \in ring : d = map[e])
  BY <1>2, <1>3, EndlessIsRing
<1>5. ring \in SUBSET DOMAIN mentions
  BY <1>2, <1>4 DEF Known
<1>6. \A d \in ring : mentions[d] \in Nat
  BY <1>5 DEF Themed
<1> DEFINE sizes == {mentions[d] : d \in ring}
<1>7. PICK d \in ring : \A e \in ring : mentions[e] <= mentions[d]
  <2>1. PICK sizeOf : sizeOf = [e \in ring |-> mentions[e]]
    OBVIOUS
  <2>2. sizeOf \in Surjection(ring, sizes)
    BY <2>1 DEF Surjection
  <2>3. IsFiniteSet(ring)
    BY <1>2, <1>4, FS_Subset
  <2>4. IsFiniteSet(sizes) /\ sizes \in SUBSET Nat /\ sizes # {}
    BY <2>2, <2>3, <1>4, <1>6, FS_Surjection
  <2>5. \E x \in sizes : \A y \in sizes : y <= x
    BY ONLY <2>4, FiniteMax
  <2>6. QED
    BY <2>5
<1> DEFINE tied == {e \in ring : mentions[e] = mentions[d]}
<1>8. tied \in SUBSET DOMAIN mentions /\ tied # {} /\ \A a, b \in tied : mentions[a] = mentions[b]
  BY <1>5
<1>9. ASSUME NEW a \in tied
      PROVE  \E i \in DOMAIN gs : a \in Sources(gs[i]) /\ TargetOf(gs[i]) \in tied
  <2>1. PICK i \in DOMAIN gs :
          /\ a \in Sources(gs[i]) /\ a \in ToSet(gs[i]) /\ map[a] = TargetOf(gs[i])
          /\ \A e \in Known(gs[i]) : mentions[e] <= mentions[TargetOf(gs[i])]
    BY <1>2, <1>4
  <2>2. a \in Known(gs[i])
    BY <2>1, <1>5 DEF Known
  <2>3. TargetOf(gs[i]) \in ring
    BY <2>1, <1>4
  <2>4. mentions[a] <= mentions[TargetOf(gs[i])] /\ mentions[TargetOf(gs[i])] <= mentions[d]
    BY <2>1, <2>2, <2>3, <1>7
  <2>5. mentions[TargetOf(gs[i])] = mentions[d]
    BY <2>3, <2>4, <1>6
  <2>6. QED
    BY <2>1, <2>3, <2>5
<1>10. QED
  BY <1>8, <1>9

-----------------------------------------------------------------------------

Stage == {"load", "split", "embed", "single", "select", "cluster", "analyze",
          "merge", "rebuild", "output", "export", "done", "failed", "hung"}
BeforeClusters == {"load", "split", "embed", "single", "select", "cluster"}
Labelling == {"analyze", "merge", "rebuild", "output", "hung"}
LabelledBy(c) == {a \in atoms : label[a] = c}

DiscoveryTypes ==
  /\ discovery \in [at : Stage, k : Nat]
  /\ atoms \subseteq Atom /\ IsFiniteSet(atoms)
  /\ mentions \in Themed /\ DOMAIN mentions \subseteq Int /\ IsFiniteSet(DOMAIN mentions)

NothingYet ==
  discovery.at \in BeforeClusters =>
    label = <<>> /\ clusterOf = <<>> /\ mentions = <<>> /\ groups = <<>> /\ analyses = <<>> /\ placed = <<>>

(* The labels are of all messages, and apart are those that were filtered. *)
LabelsFit ==
  discovery.at \in Labelling =>
    /\ label \in [atoms -> {c \in Int : Apart <= c}] /\ DOMAIN clusterOf = atoms
    /\ \A a \in atoms : label[a] = Apart <=> a \notin Substantive
    /\ discovery.at \in {"analyze", "merge", "hung"} => clusterOf = label
    /\ discovery.at \in {"analyze", "merge"} => groups = <<>>
    /\ \A c \in DOMAIN mentions : \E a \in atoms : label[a] = c

(* Analyses before the merger are of the labels.                           *)
AnalysesFit ==
  discovery.at \in {"merge", "rebuild"} =>
    \A c \in DOMAIN analyses :
      /\ LabelledBy(c) # {} /\ analyses[c].size = Cardinality(LabelledBy(c))
      /\ analyses[c].from = "analysis" => analyses[c].mentions = analyses[c].size

(* After it a message is where the chain from its label ends.              *)
MergeFits ==
  discovery.at \in {"rebuild", "output"} =>
    /\ \E n \in Nat : groups \in [1 .. n -> Pair]
    /\ \A a \in atoms : /\ clusterOf[a] = EndOf(MergeMap(groups), label[a])
                        /\ clusterOf[a] \notin DOMAIN MergeMap(groups)

DiscoveryIInv ==
  /\ DiscoveryTypes /\ NothingYet /\ LabelsFit /\ AnalysesFit /\ MergeFits
  /\ OutputWhole /\ HangsOnTies /\ AnalysesTrue

LEMMA NoThemes == <<>> \in [{} -> Nat \ {0}] /\ DOMAIN <<>> = {}
OBVIOUS

LEMMA DiscoveryStart == DiscoveryInit => DiscoveryIInv
<1> SUFFICES ASSUME DiscoveryInit PROVE DiscoveryIInv
  OBVIOUS
<1>1. discovery = [at |-> "load", k |-> 0]
  BY DEF DiscoveryInit
<1>2. discovery \in [at : Stage, k : Nat] /\ discovery.at = "load"
  BY <1>1 DEF Stage
<1>3. DiscoveryTypes
  <2>1. atoms \subseteq Atom /\ IsFiniteSet(atoms)
    BY FS_EmptySet DEF DiscoveryInit
  <2>2. mentions \in Themed /\ DOMAIN mentions \subseteq Int /\ IsFiniteSet(DOMAIN mentions)
    BY NoThemes, FS_EmptySet DEF DiscoveryInit, Themed
  <2>3. QED
    BY <1>2, <2>1, <2>2 DEF DiscoveryTypes
<1>4. NothingYet
  BY DEF DiscoveryInit, NothingYet
<1>5. QED
  BY <1>2, <1>3, <1>4
  DEF DiscoveryIInv, LabelsFit, AnalysesFit, MergeFits, OutputWhole, HangsOnTies, AnalysesTrue, Labelling

(* Where a message is that a merge may have moved.                         *)
LEMMA WhereItIs ==
  ASSUME DiscoveryIInv, discovery.at \in {"rebuild", "output"}, NEW a \in atoms
  PROVE  /\ clusterOf[a] = EndOf(MergeMap(groups), label[a]) /\ clusterOf[a] \notin DOMAIN MergeMap(groups)
         /\ \/ clusterOf[a] = label[a]
            \/ /\ \E i \in DOMAIN groups : label[a] \in ToSet(groups[i])
               /\ \E i \in DOMAIN groups : clusterOf[a] \in ToSet(groups[i])
               /\ clusterOf[a] \in DOMAIN mentions
<1>1. PICK n \in Nat : groups \in [1 .. n -> Pair]
  BY DEF DiscoveryIInv, MergeFits
<1>2. clusterOf[a] = EndOf(MergeMap(groups), label[a]) /\ clusterOf[a] \notin DOMAIN MergeMap(groups)
  BY DEF DiscoveryIInv, MergeFits
<1>3. mentions \in Themed /\ IsFiniteSet(DOMAIN mentions)
  BY DEF DiscoveryIInv, DiscoveryTypes
<1>4. PICK map : map = MergeMap(groups)
  OBVIOUS
<1>5. /\ IsFiniteSet(DOMAIN map)
      /\ \A c \in DOMAIN map : \E i \in DOMAIN groups :
           c \in ToSet(groups[i]) /\ map[c] = TargetOf(groups[i]) /\ TargetOf(groups[i]) \in Known(groups[i])
  BY <1>1, <1>3, <1>4, MapFacts
<1>6. \/ EndOf(map, label[a]) = label[a]
      \/ label[a] \in DOMAIN map /\ \E d \in DOMAIN map : EndOf(map, label[a]) = map[d]
  BY <1>5, EndIsTarget
<1>7. \A c \in DOMAIN map : \E i \in DOMAIN groups : map[c] \in ToSet(groups[i]) /\ map[c] \in DOMAIN mentions
  BY <1>5 DEF Known
<1>8. QED
  BY <1>2, <1>4, <1>5, <1>6, <1>7

LEMMA MergedIsSound ==
  ASSUME DiscoveryIInv
  PROVE  MergeSound
<1>1. SUFFICES ASSUME discovery.at \in {"rebuild", "output"}, NEW a \in atoms, NEW b \in atoms
               PROVE  /\ label[a] = label[b] => clusterOf[a] = clusterOf[b]
                      /\ clusterOf[a] \notin DOMAIN MergeMap(groups)
                      /\ clusterOf[a] # label[a] => \E i \in DOMAIN groups : label[a] \in ToSet(groups[i])
  BY DEF MergeSound, DiscoveryIInv, LabelsFit, Labelling
<1>2. QED
  BY <1>1, WhereItIs

LEMMA DiscoveryImplied == DiscoveryIInv => DiscoveryInv
<1> SUFFICES ASSUME DiscoveryIInv PROVE DiscoveryInv
  OBVIOUS
<1>1. DiscoveryTypeOK
  BY DEF DiscoveryIInv, DiscoveryTypes, DiscoveryTypeOK, Stage, Themed
<1>2. QED
  BY <1>1, MergedIsSound DEF DiscoveryIInv, DiscoveryInv

-----------------------------------------------------------------------------

LEMMA StageMoves ==
  ASSUME DiscoveryTypes, NEW a \in Stage, DiscoveryAt(a)
  PROVE  discovery' \in [at : Stage, k : Nat] /\ discovery'.at = a
BY DEF DiscoveryTypes, DiscoveryAt

(* A run that is over before there are clusters has put out all messages,  *)
(* or nothing.                                                             *)
LEMMA NothingFits ==
  ASSUME discovery'.at \in BeforeClusters \cup {"failed", "done", "export"}, DiscoveryTypes',
         discovery'.at \in BeforeClusters => placed' = <<>>,
         placed' = <<>> \/ DOMAIN placed' = atoms',
         label' = <<>> /\ clusterOf' = <<>> /\ mentions' = <<>> /\ groups' = <<>> /\ analyses' = <<>>
  PROVE  DiscoveryIInv'
<1>1. NothingYet'
  BY DEF NothingYet
<1>2. LabelsFit' /\ AnalysesFit' /\ MergeFits' /\ HangsOnTies'
  BY DEF LabelsFit, AnalysesFit, MergeFits, HangsOnTies, Labelling, BeforeClusters
<1>3. AnalysesTrue' /\ OutputWhole'
  BY DEF AnalysesTrue, OutputWhole
<1>4. QED
  BY <1>1, <1>2, <1>3 DEF DiscoveryIInv

LEMMA LoadRowsFits ==
  ASSUME DiscoveryIInv, LoadRows
  PROVE  DiscoveryIInv'
<1>1. discovery.at \in BeforeClusters /\ UNCHANGED <<atoms, label, clusterOf, mentions, groups, analyses, placed>>
  BY DEF LoadRows, BeforeClusters
<1>2. PICK a \in {"failed", "split"} : DiscoveryAt(a)
  BY DEF LoadRows
<1>3. discovery' \in [at : Stage, k : Nat] /\ discovery'.at \in {"failed", "split"}
  BY <1>2, StageMoves DEF DiscoveryIInv, Stage
<1>4. DiscoveryTypes'
  BY <1>1, <1>3 DEF DiscoveryIInv, DiscoveryTypes, Themed
<1>5. QED
  BY <1>1, <1>3, <1>4, NothingFits DEF DiscoveryIInv, NothingYet, BeforeClusters

LEMMA SplitRowsFits ==
  ASSUME DiscoveryIInv, SplitRows
  PROVE  DiscoveryIInv'
<1>1. discovery.at \in BeforeClusters /\ UNCHANGED <<label, clusterOf, mentions, groups, analyses, placed>>
  BY DEF SplitRows, BeforeClusters
<1>2. PICK a \in {"failed", "done", "embed"} : DiscoveryAt(a)
  BY DEF SplitRows
<1>3. discovery' \in [at : Stage, k : Nat] /\ discovery'.at \in {"failed", "done", "embed"}
  BY <1>2, StageMoves DEF DiscoveryIInv, Stage
<1>4. atoms' \subseteq Atom /\ IsFiniteSet(atoms')
  <2>1. IsFiniteSet(Atom)
    <3>1. IsFiniteSet(RawMessage) /\ IsFiniteSet(1 .. MaxParts)
      BY DiscoveryAssumption, FS_Interval
    <3>2. QED
      BY <3>1, FS_Product DEF Atom
  <2>2. atoms' \subseteq Atom
    BY DEF SplitRows, DiscoveryIInv, DiscoveryTypes
  <2>3. QED
    BY <2>1, <2>2, FS_Subset
<1>5. DiscoveryTypes'
  BY <1>1, <1>3, <1>4 DEF DiscoveryIInv, DiscoveryTypes, Themed
<1>6. QED
  BY <1>1, <1>3, <1>5, NothingFits DEF DiscoveryIInv, NothingYet, BeforeClusters

LEMMA EmbedMessagesFits ==
  ASSUME DiscoveryIInv, EmbedMessages
  PROVE  DiscoveryIInv'
<1>1. discovery.at \in BeforeClusters /\ UNCHANGED <<atoms, label, clusterOf, mentions, groups, analyses, placed>>
  BY DEF EmbedMessages, BeforeClusters
<1>2. PICK a \in {"failed", "single", "select"} : DiscoveryAt(a)
  BY DEF EmbedMessages
<1>3. discovery' \in [at : Stage, k : Nat] /\ discovery'.at \in {"failed", "single", "select"}
  BY <1>2, StageMoves DEF DiscoveryIInv, Stage
<1>4. DiscoveryTypes'
  BY <1>1, <1>3 DEF DiscoveryIInv, DiscoveryTypes, Themed
<1>5. QED
  BY <1>1, <1>3, <1>4, NothingFits DEF DiscoveryIInv, NothingYet, BeforeClusters

LEMMA AnalyzeSingleFits ==
  ASSUME DiscoveryIInv, AnalyzeSingle
  PROVE  DiscoveryIInv'
<1>1. discovery.at \in BeforeClusters /\ UNCHANGED <<atoms, label, clusterOf, mentions, groups, analyses>>
      /\ DOMAIN placed' = atoms
  BY DEF AnalyzeSingle, BeforeClusters
<1>2. discovery' \in [at : Stage, k : Nat] /\ discovery'.at = "export"
  BY StageMoves DEF AnalyzeSingle, DiscoveryIInv, Stage
<1>3. DiscoveryTypes'
  BY <1>1, <1>2 DEF DiscoveryIInv, DiscoveryTypes, Themed
<1>4. QED
  BY <1>1, <1>2, <1>3, NothingFits DEF DiscoveryIInv, NothingYet, BeforeClusters

LEMMA TriedKIsNat ==
  ASSUME NEW n \in Nat
  PROVE  TriedK(n) \subseteq Nat /\ FallbackK(n) \in Nat
<1>1. n \div 10 \in Nat /\ n \div 2 \in Int
  OBVIOUS
<1>2. FallbackK(n) \in Nat
  BY <1>1 DEF FallbackK
<1>3. n - 1 \in Int
  OBVIOUS
<1>4. Lesser(n - 1, 8) \in Int /\ Lesser(n \div 2, 15) \in Int /\ Lesser(n - 1, 50) \in Int
  BY <1>1, <1>3 DEF Lesser
<1>5. \A b \in Int : 2 .. b \subseteq Nat /\ 3 .. b \subseteq Nat /\ 5 .. b \subseteq Nat
  OBVIOUS
<1>6. TriedK(n) \subseteq Nat
  BY <1>4, <1>5 DEF TriedK
<1>7. QED
  BY <1>2, <1>6

LEMMA SelectKFits ==
  ASSUME DiscoveryIInv, SelectK
  PROVE  DiscoveryIInv'
<1>1. discovery.at \in BeforeClusters /\ UNCHANGED <<atoms, label, clusterOf, mentions, groups, analyses>>
  BY DEF SelectK, BeforeClusters
<1>2. Cardinality(Substantive) \in Nat
  <2>1. Substantive \in SUBSET atoms /\ IsFiniteSet(atoms)
    BY DEF Substantive, DiscoveryIInv, DiscoveryTypes
  <2>2. QED
    BY <2>1, FS_Subset, FS_CardinalityType
<1>3. CASE Cardinality(Substantive) = 0
  <2>1. DOMAIN placed' = atoms /\ discovery' \in [at : Stage, k : Nat] /\ discovery'.at = "done"
    BY <1>3, StageMoves DEF SelectK, DiscoveryIInv, Stage
  <2>2. DiscoveryTypes'
    BY <1>1, <2>1 DEF DiscoveryIInv, DiscoveryTypes, Themed
  <2>3. QED
    BY <1>1, <2>1, <2>2, NothingFits DEF DiscoveryIInv, NothingYet, BeforeClusters
<1>4. CASE Cardinality(Substantive) # 0
  <2>1. PICK k \in Nat : discovery' = [at |-> "cluster", k |-> k] /\ placed' = placed
    BY <1>2, <1>4, TriedKIsNat DEF SelectK
  <2>2. discovery' \in [at : Stage, k : Nat] /\ discovery'.at = "cluster"
    BY <2>1 DEF Stage
  <2>3. DiscoveryTypes'
    BY <1>1, <2>2 DEF DiscoveryIInv, DiscoveryTypes, Themed
  <2>4. QED
    BY <1>1, <2>1, <2>2, <2>3, NothingFits DEF DiscoveryIInv, NothingYet, BeforeClusters
<1>5. QED
  BY <1>3, <1>4

LEMMA ClusterRowsFits ==
  ASSUME DiscoveryIInv, ClusterRows
  PROVE  DiscoveryIInv'
<1>1. discovery.at = "cluster" /\ UNCHANGED <<rawKind, atoms, mentions, groups, analyses, placed>>
  BY DEF ClusterRows
<1>2. mentions = <<>> /\ groups = <<>> /\ analyses = <<>>
  BY <1>1 DEF DiscoveryIInv, NothingYet, BeforeClusters
<1>3. discovery' \in [at : Stage, k : Nat] /\ discovery'.at = "analyze"
  BY StageMoves DEF ClusterRows, DiscoveryIInv, Stage
<1>4. PICK l \in Labels(discovery.k) : label' = WithApart(l) /\ clusterOf' = label'
  BY DEF ClusterRows
<1>5. \A a \in Substantive : l[a] \in Int /\ 0 <= l[a]
  <2>1. l = [a \in Substantive |-> 0] \/ l \in [Substantive -> 0 .. discovery.k - 1]
    BY <1>4 DEF Labels
  <2>2. discovery.k \in Nat
    BY DEF DiscoveryIInv, DiscoveryTypes
  <2>3. QED
    BY <2>1, <2>2
<1>6. \A a \in atoms : /\ (IF a \in Substantive THEN l[a] ELSE Apart) \in {c \in Int : Apart <= c}
                       /\ (IF a \in Substantive THEN l[a] ELSE Apart) = Apart <=> a \notin Substantive
  BY <1>5 DEF Apart
<1>7. /\ label' \in [atoms -> {c \in Int : Apart <= c}]
      /\ \A a \in atoms : label'[a] = Apart <=> a \notin Substantive
  BY <1>4, <1>6 DEF WithApart
<1>8. Substantive' = Substantive
  BY <1>1 DEF Substantive, Passed
<1>9. LabelsFit'
  BY <1>1, <1>2, <1>3, <1>4, <1>7, <1>8 DEF LabelsFit
<1>10. DiscoveryTypes'
  BY <1>1, <1>3 DEF DiscoveryIInv, DiscoveryTypes, Themed
<1>11. QED
  BY <1>3, <1>9, <1>10
  DEF DiscoveryIInv, NothingYet, BeforeClusters, AnalysesFit, MergeFits, OutputWhole, HangsOnTies, AnalysesTrue

LEMMA AnalyzeClustersFits ==
  ASSUME DiscoveryIInv, AnalyzeClusters
  PROVE  DiscoveryIInv'
<1>1. discovery.at = "analyze" /\ UNCHANGED <<rawKind, atoms, label, clusterOf, groups, placed>>
  BY DEF AnalyzeClusters
<1>2. /\ label \in [atoms -> {c \in Int : Apart <= c}] /\ clusterOf = label /\ groups = <<>>
      /\ \A a \in atoms : label[a] = Apart <=> a \notin Substantive
  BY <1>1 DEF DiscoveryIInv, LabelsFit, Labelling
<1>3. discovery' \in [at : Stage, k : Nat] /\ discovery'.at = "merge"
  BY StageMoves DEF AnalyzeClusters, DiscoveryIInv, Stage
<1>4. PICK answered \in SUBSET Clusters :
        /\ mentions' = [c \in answered |-> Cardinality(Members(c))]
        /\ analyses' = [c \in answered |-> Analysis(c, Cardinality(Members(c)), "analysis")]
  BY DEF AnalyzeClusters
<1>5. \A c : Members(c) = LabelledBy(c)
  BY <1>2 DEF Members, LabelledBy
<1>6. Clusters = {label[a] : a \in atoms}
  BY <1>2 DEF Clusters
<1>7. \A c \in answered : LabelledBy(c) # {} /\ Cardinality(LabelledBy(c)) \in Nat \ {0}
  <2> SUFFICES ASSUME NEW c \in answered PROVE LabelledBy(c) # {} /\ Cardinality(LabelledBy(c)) \in Nat \ {0}
    OBVIOUS
  <2>1. LabelledBy(c) # {}
    BY <1>6 DEF LabelledBy
  <2>2. LabelledBy(c) \in SUBSET atoms /\ IsFiniteSet(atoms)
    BY DEF LabelledBy, DiscoveryIInv, DiscoveryTypes
  <2>3. IsFiniteSet(LabelledBy(c))
    BY <2>2, FS_Subset
  <2>4. QED
    BY <2>1, <2>3, FS_CardinalityType, FS_EmptySet
<1>8. DOMAIN mentions' = answered /\ mentions' \in [answered -> Nat \ {0}]
  BY <1>4, <1>5, <1>7
<1>9. IsFiniteSet(answered)
  <2>1. label \in Surjection(atoms, Clusters)
    BY <1>2, <1>6 DEF Surjection
  <2>2. IsFiniteSet(Clusters)
    BY <2>1, FS_Surjection DEF DiscoveryIInv, DiscoveryTypes
  <2>3. QED
    BY <2>2, FS_Subset
<1>10. answered \subseteq Int /\ \A c \in answered : \E a \in atoms : label[a] = c
  BY <1>2, <1>6
<1>11. DiscoveryTypes'
  BY <1>1, <1>3, <1>8, <1>9, <1>10 DEF DiscoveryIInv, DiscoveryTypes, Themed
<1>12. Substantive' = Substantive /\ \A c : LabelledBy(c)' = LabelledBy(c)
  BY <1>1 DEF Substantive, Passed, LabelledBy
<1>13. LabelsFit'
  BY <1>1, <1>2, <1>3, <1>8, <1>10, <1>12 DEF LabelsFit
<1>14. AnalysesFit'
  <2>1. DOMAIN analyses' = answered
        /\ \A c \in answered : analyses'[c].size = Cardinality(LabelledBy(c)) /\ analyses'[c].mentions = analyses'[c].size
    BY <1>4, <1>5 DEF Analysis
  <2>2. QED
    BY <2>1, <1>7, <1>12 DEF AnalysesFit
<1>15. QED
  BY <1>3, <1>11, <1>13, <1>14
  DEF DiscoveryIInv, NothingYet, BeforeClusters, MergeFits, OutputWhole, HangsOnTies, AnalysesTrue

LEMMA GroupsArePairs ==
  ASSUME NEW gs \in Groups
  PROVE  \E n \in Nat : gs \in [1 .. n -> Pair]
BY DiscoveryAssumption DEF Groups, Pair

LEMMA NoGroups ==
  ASSUME mentions \in Themed, IsFiniteSet(DOMAIN mentions)
  PROVE  <<>> \in [1 .. 0 -> Pair] /\ DOMAIN MergeMap(<<>>) = {} /\ \A c : EndOf(MergeMap(<<>>), c) = c
<1>1. DOMAIN MergeMap(<<>>) = {}
  BY DEF MergeMap
<1>2. \A c : EndOf(MergeMap(<<>>), c) = c
  BY <1>1, EndIsTarget, FS_EmptySet
<1>3. QED
  BY <1>1, <1>2

LEMMA MergeClustersFits ==
  ASSUME DiscoveryIInv, MergeClusters
  PROVE  DiscoveryIInv'
<1>1. discovery.at = "merge" /\ UNCHANGED <<rawKind, atoms, label, mentions, analyses, placed>>
  BY DEF MergeClusters
<1>2. /\ label \in [atoms -> {c \in Int : Apart <= c}] /\ clusterOf = label /\ groups = <<>>
      /\ \A a \in atoms : label[a] = Apart <=> a \notin Substantive
      /\ \A c \in DOMAIN mentions : \E a \in atoms : label[a] = c
  BY <1>1 DEF DiscoveryIInv, LabelsFit, Labelling
<1>3. \A c \in DOMAIN analyses :
        /\ LabelledBy(c) # {} /\ analyses[c].size = Cardinality(LabelledBy(c))
        /\ analyses[c].from = "analysis" => analyses[c].mentions = analyses[c].size
  BY <1>1 DEF DiscoveryIInv, AnalysesFit
<1>4. mentions \in Themed /\ IsFiniteSet(DOMAIN mentions)
  BY DEF DiscoveryIInv, DiscoveryTypes
<1>5. Substantive' = Substantive /\ (\A c : LabelledBy(c)' = LabelledBy(c)) /\ Pair' = Pair
      /\ Clusters = {label[a] : a \in atoms}
  BY <1>1, <1>2 DEF Substantive, Passed, LabelledBy, Pair, Clusters
<1>6. PICK gs : gs = groups'
  OBVIOUS
<1>7. (\A g : Known(g)' = Known(g)) /\ (\A g : TargetOf(g)' = TargetOf(g))
  BY <1>1 DEF Known, TargetOf
<1>8. (\A g : Sources(g)' = Sources(g))
  BY <1>7 DEF Sources
<1>9. MergeMap(groups)' = MergeMap(gs)
  BY <1>1, <1>6 DEF MergeMap, Sources, TargetOf, Known
<1>10. CASE DiscoveryAt("output") /\ UNCHANGED <<clusterOf, groups>>
  <2>1. discovery' \in [at : Stage, k : Nat] /\ discovery'.at = "output"
    BY <1>10, StageMoves DEF DiscoveryIInv, Stage
  <2>2. DiscoveryTypes'
    BY <1>1, <2>1 DEF DiscoveryIInv, DiscoveryTypes, Themed
  <2>3. LabelsFit'
    BY <1>1, <1>2, <1>5, <1>10, <2>1 DEF LabelsFit
  <2>4. gs = <<>>
    BY <1>2, <1>6, <1>10
  <2>5. MergeFits'
    <3>1. groups' \in [1 .. 0 -> Pair'] /\ 0 \in Nat
      BY <1>4, <1>5, <1>6, <2>4, NoGroups
    <3>2. \A a \in atoms : clusterOf[a] = EndOf(MergeMap(gs), label[a]) /\ clusterOf[a] \notin DOMAIN MergeMap(gs)
      BY <1>2, <1>4, <2>4, NoGroups
    <3>3. QED
      BY <3>1, <3>2, <1>1, <1>9, <1>10 DEF MergeFits
  <2>6. AnalysesTrue'
    <3>1. \A c : Members(c)' = LabelledBy(c)
      BY <1>2, <1>10 DEF Members, LabelledBy
    <3>2. QED
      BY <3>1, <1>1, <1>3 DEF AnalysesTrue
  <2>7. QED
    BY <2>1, <2>2, <2>3, <2>5, <2>6
    DEF DiscoveryIInv, NothingYet, BeforeClusters, AnalysesFit, OutputWhole, HangsOnTies
<1>11. CASE groups' \in Groups /\ Endless(MergeMap(groups')) /\ DiscoveryAt("hung") /\ UNCHANGED clusterOf
  <2>1. discovery' \in [at : Stage, k : Nat] /\ discovery'.at = "hung"
    BY <1>11, StageMoves DEF DiscoveryIInv, Stage
  <2>2. DiscoveryTypes'
    BY <1>1, <2>1 DEF DiscoveryIInv, DiscoveryTypes, Themed
  <2>3. LabelsFit'
    BY <1>1, <1>2, <1>5, <1>11, <2>1 DEF LabelsFit
  <2>4. PICK n \in Nat : gs \in [1 .. n -> Pair]
    BY <1>6, <1>11, GroupsArePairs
  <2>5. Endless(MergeMap(gs))
    BY <1>6, <1>11
  <2>6. \E tied \in SUBSET DOMAIN mentions :
          /\ tied # {} /\ \A c, d \in tied : mentions[c] = mentions[d]
          /\ \A c \in tied : \E i \in DOMAIN gs : c \in Sources(gs[i]) /\ TargetOf(gs[i]) \in tied
    BY <2>4, <2>5, <1>4, RingIsTied
  <2>7. HangsOnTies'
    BY <2>6, <1>1, <1>6, <1>7, <1>8 DEF HangsOnTies
  <2>8. QED
    BY <2>1, <2>2, <2>3, <2>7
    DEF DiscoveryIInv, NothingYet, BeforeClusters, AnalysesFit, MergeFits, OutputWhole, AnalysesTrue
<1>12. CASE /\ groups' \in Groups /\ ~Endless(MergeMap(groups')) /\ DiscoveryAt("rebuild")
            /\ clusterOf' = [a \in DOMAIN clusterOf |-> EndOf(MergeMap(groups'), clusterOf[a])]
  <2>1. discovery' \in [at : Stage, k : Nat] /\ discovery'.at = "rebuild"
    BY <1>12, StageMoves DEF DiscoveryIInv, Stage
  <2>2. DiscoveryTypes'
    BY <1>1, <2>1 DEF DiscoveryIInv, DiscoveryTypes, Themed
  <2>3. DOMAIN clusterOf = atoms
    BY <1>2
  <2>4. clusterOf' = [a \in atoms |-> EndOf(MergeMap(gs), label[a])]
    BY <2>3, <1>2, <1>6, <1>12
  <2>5. LabelsFit'
    BY <1>1, <1>2, <1>5, <2>1, <2>4 DEF LabelsFit
  <2>6. \A a \in atoms : EndOf(MergeMap(gs), label[a]) \notin DOMAIN MergeMap(gs)
    BY <1>5, <1>6, <1>12 DEF Endless
  <2>7. PICK n \in Nat : gs \in [1 .. n -> Pair]
    BY <1>6, <1>12, GroupsArePairs
  <2>8. MergeFits'
    BY <2>4, <2>6, <2>7, <1>1, <1>5, <1>6, <1>9 DEF MergeFits
  <2>9. AnalysesFit'
    BY <1>1, <1>3, <1>5 DEF AnalysesFit
  <2>10. QED
    BY <2>1, <2>2, <2>5, <2>8, <2>9
    DEF DiscoveryIInv, NothingYet, BeforeClusters, OutputWhole, HangsOnTies, AnalysesTrue
<1>13. QED
  BY <1>10, <1>11, <1>12 DEF MergeClusters

(* A cluster that lost no message to another, and is still there, has the  *)
(* messages of its label.                                                  *)
LEMMA KeptIsLabel ==
  ASSUME DiscoveryIInv, discovery.at = "rebuild", NEW c \in Clusters, c \notin MergedInto
  PROVE  Members(c) = LabelledBy(c)
<1>1. DOMAIN clusterOf = atoms
  BY DEF DiscoveryIInv, LabelsFit, Labelling
<1>2. PICK a \in atoms : clusterOf[a] = c
  BY <1>1 DEF Clusters
<1>3. \A b \in atoms : clusterOf[b] = c => label[b] = c
  BY <1>1 DEF MergedInto
<1>4. \A b \in atoms : label[b] = c => clusterOf[b] = clusterOf[a]
  BY <1>2, <1>3, WhereItIs
<1>5. QED
  BY <1>1, <1>2, <1>3, <1>4 DEF Members, LabelledBy

LEMMA RebuildAnalysesFits ==
  ASSUME DiscoveryIInv, RebuildAnalyses
  PROVE  DiscoveryIInv'
<1>1. discovery.at = "rebuild" /\ UNCHANGED <<rawKind, atoms, label, clusterOf, mentions, groups, placed>>
  BY DEF RebuildAnalyses
<1>2. discovery' \in [at : Stage, k : Nat] /\ discovery'.at = "output"
  BY StageMoves DEF RebuildAnalyses, DiscoveryIInv, Stage
<1>3. DiscoveryTypes'
  BY <1>1, <1>2 DEF DiscoveryIInv, DiscoveryTypes, Themed
<1>4. Substantive' = Substantive /\ Pair' = Pair /\ \A c : Members(c)' = Members(c)
  BY <1>1 DEF Substantive, Passed, Pair, Members
<1>5. LabelsFit'
  BY <1>1, <1>2, <1>4 DEF DiscoveryIInv, LabelsFit, Labelling
<1>6. MergeMap(groups)' = MergeMap(groups)
  BY <1>1 DEF MergeMap, Sources, TargetOf, Known
<1>7. MergeFits'
  <2>1. PICK n \in Nat : groups \in [1 .. n -> Pair]
    BY <1>1 DEF DiscoveryIInv, MergeFits
  <2>2. \A a \in atoms : clusterOf[a] = EndOf(MergeMap(groups), label[a]) /\ clusterOf[a] \notin DOMAIN MergeMap(groups)
    BY <1>1 DEF DiscoveryIInv, MergeFits
  <2>3. QED
    BY <2>1, <2>2, <1>1, <1>4, <1>6 DEF MergeFits
<1>8. AnalysesTrue'
  <2>1. CASE analyses' = <<>>
    BY <2>1 DEF AnalysesTrue
  <2>2. CASE \E outcome \in [MergedInto -> {"analysis", "none", "merged"}] :
               analyses' = [c \in Kept \cup {d \in MergedInto : outcome[d] # "none"} |->
                  IF c \notin MergedInto THEN analyses[c]
                  ELSE Analysis(c, IF outcome[c] = "merged" THEN MergedMentions(c) ELSE Cardinality(Members(c)),
                                outcome[c])]
    <3>1. PICK outcome \in [MergedInto -> {"analysis", "none", "merged"}] :
               analyses' = [c \in Kept \cup {d \in MergedInto : outcome[d] # "none"} |->
                  IF c \notin MergedInto THEN analyses[c]
                  ELSE Analysis(c, IF outcome[c] = "merged" THEN MergedMentions(c) ELSE Cardinality(Members(c)),
                                outcome[c])]
      BY <2>2
    <3>2. SUFFICES ASSUME NEW c \in DOMAIN analyses'
                   PROVE  /\ Members(c) # {} /\ analyses'[c].size = Cardinality(Members(c))
                          /\ analyses'[c].from = "analysis" => analyses'[c].mentions = analyses'[c].size
      BY <1>4 DEF AnalysesTrue
    <3>3. c \in Kept \cup MergedInto
      BY <3>1, <3>2
    <3>4. CASE c \notin MergedInto
      <4>1. c \in Clusters /\ c \in DOMAIN analyses /\ analyses'[c] = analyses[c]
        BY <3>1, <3>2, <3>3, <3>4 DEF Kept
      <4>2. Members(c) = LabelledBy(c)
        BY <4>1, <3>4, <1>1, KeptIsLabel
      <4>3. QED
        BY <4>1, <4>2, <1>1 DEF DiscoveryIInv, AnalysesFit
    <3>5. CASE c \in MergedInto
      <4>1. Members(c) # {}
        BY <3>5 DEF MergedInto, Members
      <4>2. analyses'[c] = Analysis(c, IF outcome[c] = "merged" THEN MergedMentions(c) ELSE Cardinality(Members(c)),
                                    outcome[c])
        BY <3>1, <3>2, <3>5
      <4>3. PICK m, n : m = MergedMentions(c) /\ n = Cardinality(Members(c))
        OBVIOUS
      <4>4. analyses'[c] = [size |-> n, mentions |-> IF outcome[c] = "merged" THEN m ELSE n, from |-> outcome[c]]
        BY <4>2, <4>3 DEF Analysis
      <4>5. QED
        BY <4>1, <4>3, <4>4
    <3>6. QED
      BY <3>4, <3>5
  <2>3. QED
    BY <2>1, <2>2 DEF RebuildAnalyses
<1>9. QED
  BY <1>2, <1>3, <1>5, <1>7, <1>8
  DEF DiscoveryIInv, NothingYet, BeforeClusters, AnalysesFit, OutputWhole, HangsOnTies

LEMMA PlaceRowsFits ==
  ASSUME DiscoveryIInv, PlaceRows
  PROVE  DiscoveryIInv'
<1>1. discovery.at = "output" /\ UNCHANGED <<rawKind, atoms, label, clusterOf, mentions, groups, analyses>>
  BY DEF PlaceRows
<1>2. discovery' \in [at : Stage, k : Nat] /\ discovery'.at = "export"
  BY StageMoves DEF PlaceRows, DiscoveryIInv, Stage
<1>3. DiscoveryTypes'
  BY <1>1, <1>2 DEF DiscoveryIInv, DiscoveryTypes, Themed
<1>4. /\ label \in [atoms -> {c \in Int : Apart <= c}] /\ DOMAIN clusterOf = atoms
      /\ \A a \in atoms : label[a] = Apart <=> a \notin Substantive
      /\ \A c \in DOMAIN mentions : \E a \in atoms : label[a] = c
  BY <1>1 DEF DiscoveryIInv, LabelsFit, Labelling
<1>5. DOMAIN placed' = atoms /\ \A a \in atoms : placed'[a] = clusterOf[a]
  BY <1>4 DEF PlaceRows
<1>6. \A c : Apart <= c /\ c \in Int => c # Unplaced
  BY DEF Apart, Unplaced
<1>7. Substantive' = Substantive /\ \A c : Members(c)' = Members(c)
  BY <1>1 DEF Substantive, Passed, Members
<1>8. OutputWhole'
  <2>1. ASSUME NEW a \in atoms, \A i \in DOMAIN groups : Apart \notin ToSet(groups[i])
        PROVE  placed'[a] = Apart <=> a \notin Substantive
    BY <2>1, <1>1, <1>4, <1>5, WhereItIs
  <2>2. ASSUME NEW a \in atoms PROVE placed'[a] # Unplaced
    <3>1. \E b \in atoms : placed'[a] = label[b]
      BY <1>1, <1>4, <1>5, WhereItIs
    <3>2. QED
      BY <3>1, <1>4, <1>6
  <2>3. QED
    BY <2>1, <2>2, <1>1, <1>5, <1>7 DEF OutputWhole
<1>9. AnalysesTrue'
  BY <1>1, <1>7 DEF DiscoveryIInv, AnalysesTrue
<1>10. QED
  BY <1>2, <1>3, <1>8, <1>9
  DEF DiscoveryIInv, NothingYet, BeforeClusters, Labelling, LabelsFit, AnalysesFit, MergeFits, HangsOnTies

LEMMA ExportRowsFits ==
  ASSUME DiscoveryIInv, ExportRows
  PROVE  DiscoveryIInv'
<1>1. discovery.at = "export" /\ UNCHANGED <<rawKind, atoms, label, clusterOf, mentions, groups, analyses, placed>>
  BY DEF ExportRows
<1>2. PICK a \in {"done", "failed"} : DiscoveryAt(a)
  BY DEF ExportRows
<1>3. discovery' \in [at : Stage, k : Nat] /\ discovery'.at \in {"done", "failed"}
  BY <1>2, StageMoves DEF DiscoveryIInv, Stage
<1>4. DiscoveryTypes'
  BY <1>1, <1>3 DEF DiscoveryIInv, DiscoveryTypes, Themed
<1>5. OutputWhole' /\ AnalysesTrue'
  <2>1. Substantive' = Substantive /\ \A c : Members(c)' = Members(c)
    BY <1>1 DEF Substantive, Passed, Members
  <2>2. OutputWhole'
    BY <2>1, <1>1, <1>3 DEF DiscoveryIInv, OutputWhole
  <2>3. AnalysesTrue'
    BY <2>1, <1>1, <1>3 DEF DiscoveryIInv, AnalysesTrue
  <2>4. QED
    BY <2>2, <2>3
<1>6. QED
  BY <1>3, <1>4, <1>5
  DEF DiscoveryIInv, NothingYet, BeforeClusters, Labelling, LabelsFit, AnalysesFit, MergeFits, HangsOnTies

LEMMA DiscoveryStep == DiscoveryIInv /\ [DiscoveryNext]_discoveryVars => DiscoveryIInv'
<1> SUFFICES ASSUME DiscoveryIInv, [DiscoveryNext]_discoveryVars PROVE DiscoveryIInv'
  OBVIOUS
<1>1. CASE LoadRows
  BY <1>1, LoadRowsFits
<1>2. CASE SplitRows
  BY <1>2, SplitRowsFits
<1>3. CASE EmbedMessages
  BY <1>3, EmbedMessagesFits
<1>4. CASE AnalyzeSingle
  BY <1>4, AnalyzeSingleFits
<1>5. CASE SelectK
  BY <1>5, SelectKFits
<1>6. CASE ClusterRows
  BY <1>6, ClusterRowsFits
<1>7. CASE AnalyzeClusters
  BY <1>7, AnalyzeClustersFits
<1>8. CASE MergeClusters
  BY <1>8, MergeClustersFits
<1>9. CASE RebuildAnalyses
  BY <1>9, RebuildAnalysesFits
<1>10. CASE PlaceRows
  BY <1>10, PlaceRowsFits
<1>11. CASE ExportRows
  BY <1>11, ExportRowsFits
<1>12. CASE UNCHANGED discoveryVars
  <2>1. /\ UNCHANGED <<rawKind, discovery, atoms, label, clusterOf, mentions, groups, analyses, placed>>
        /\ DiscoveryTypes /\ NothingYet /\ LabelsFit /\ AnalysesFit /\ MergeFits
        /\ OutputWhole /\ HangsOnTies /\ AnalysesTrue
    BY <1>12 DEF discoveryVars, DiscoveryIInv
  <2>2. DiscoveryTypes' /\ NothingYet'
    BY <2>1 DEF DiscoveryTypes, NothingYet, Themed
  <2>3. LabelsFit' /\ AnalysesFit'
    BY <2>1 DEF LabelsFit, AnalysesFit, Substantive, Passed, LabelledBy
  <2>4. MergeMap(groups)' = MergeMap(groups) /\ Pair' = Pair
    BY <2>1 DEF MergeMap, Sources, TargetOf, Known, Pair
  <2>5. MergeFits'
    BY <2>1, <2>4 DEF MergeFits
  <2>6. OutputWhole' /\ AnalysesTrue'
    BY <2>1 DEF OutputWhole, AnalysesTrue, Substantive, Passed, Members
  <2>7. HangsOnTies'
    <3>1. (\A g : Known(g)' = Known(g)) /\ (\A g : TargetOf(g)' = TargetOf(g))
      BY <2>1 DEF Known, TargetOf
    <3>2. \A g : Sources(g)' = Sources(g)
      BY <3>1 DEF Sources
    <3>3. QED
      BY <2>1, <3>1, <3>2 DEF HangsOnTies
  <2>8. QED
    BY <2>2, <2>3, <2>5, <2>6, <2>7 DEF DiscoveryIInv
<1>13. QED
  BY <1>1, <1>2, <1>3, <1>4, <1>5, <1>6, <1>7, <1>8, <1>9, <1>10, <1>11, <1>12 DEF DiscoveryNext

(* In every run of the discovery pipeline, over any rows and for whatever  *)
(* the models answer or fail to: no message is lost before the output, a   *)
(* merge joins whole clusters along chains that end                        *)
(* (merge_similar_clusters), it hangs only on a ring through clusters of   *)
(* one size, and an analysis is of all messages of a cluster there is.     *)
THEOREM DiscoveryIsWhole == DiscoverySpec => []DiscoveryInv
<1>1. DiscoveryIInv /\ [DiscoveryNext]_discoveryVars => DiscoveryIInv'
  BY DiscoveryStep
<1>2. QED
  BY <1>1, DiscoveryStart, DiscoveryImplied, PTL DEF DiscoverySpec

-----------------------------------------------------------------------------
(* The rules of the issues                                                 *)

Surveyed == [contact : ContactNumber, text : MessageText, uncategorized : BOOLEAN, issues : SUBSET Issue]

Permitted(message) == IF message.uncategorized THEN {"missing_required"} ELSE {"ebike_police"}

(* A message has finitely many issues, and the validator has nothing       *)
(* against them.                                                           *)
RulesIInv ==
  /\ surveyed \in Seq(Surveyed)
  /\ \A k \in DOMAIN surveyed :
       IsFiniteSet(surveyed[k].issues) /\ Validate(surveyed[k]) \subseteq Permitted(surveyed[k])

LEMMA IssueIs ==
  ASSUME NEW category \in IssueCategory, NEW stance \in Stance, NEW root \in BOOLEAN
  PROVE  /\ IssueOf(category, stance, root) \in Issue
         /\ IssueOf(category, stance, root).category = category
BY DEF IssueOf, Issue

RulesIssues ==
  {IssueOf("roads", "negative", FALSE)} \cup {IssueOf("zoning", "negative", TRUE)}
    \cup {IssueOf("taxes", "negative", FALSE)} \cup {IssueOf("transit", "neutral", FALSE)}
    \cup {IssueOf("utilities", "negative", FALSE)}

(* What the patterns require is an issue, and never one of the budget or   *)
(* of the police.                                                          *)
LEMMA RequiredIs ==
  ASSUME NEW said
  PROVE  /\ IsFiniteSet(RequiredCategories(said))
         /\ \A i \in RequiredCategories(said) : i \in Issue /\ i.category \notin {"budget", "police"}
<1>1. RequiredCategories(said) \subseteq RulesIssues
  BY DEF RequiredCategories, Required, RulesIssues
<1>2. IsFiniteSet(RulesIssues)
  BY FS_Singleton, FS_Union DEF RulesIssues
<1>3. {"roads", "zoning", "taxes", "transit", "utilities"} \subseteq IssueCategory
      /\ {"negative", "neutral"} \subseteq Stance
  BY DEF IssueCategory, Stance
<1>4. ASSUME NEW i \in RulesIssues PROVE i \in Issue /\ i.category \notin {"budget", "police"}
  <2>1. CASE i = IssueOf("roads", "negative", FALSE)
    BY <1>3, <2>1, IssueIs
  <2>2. CASE i = IssueOf("zoning", "negative", TRUE)
    BY <1>3, <2>2, IssueIs
  <2>3. CASE i = IssueOf("taxes", "negative", FALSE)
    BY <1>3, <2>3, IssueIs
  <2>4. CASE i = IssueOf("transit", "neutral", FALSE)
    BY <1>3, <2>4, IssueIs
  <2>5. CASE i = IssueOf("utilities", "negative", FALSE)
    BY <1>3, <2>5, IssueIs
  <2>6. QED
    BY <2>1, <2>2, <2>3, <2>4, <2>5 DEF RulesIssues
<1>5. QED
  BY <1>1, <1>2, <1>4, FS_Subset

(* The classifier's issues are finitely many, have what is required, and   *)
(* nothing that is to be avoided.                                          *)
LEMMA IssuesFit ==
  ASSUME NEW said, NEW answer \in SUBSET Issue, IsFiniteSet(answer),
         NEW issues, issues = Refine(ApplyRules(answer, said), said)
  PROVE  /\ issues \subseteq Issue /\ IsFiniteSet(issues)
         /\ CategoriesOf(RequiredCategories(said)) \subseteq CategoriesOf(issues)
         /\ CategoriesToAvoid(said) \cap CategoriesOf(issues) = {}
<1> DEFINE kept == ApplyRules(answer, said)
<1>1. kept \subseteq Issue /\ IsFiniteSet(kept)
  <2>1. kept \subseteq answer \cup RequiredCategories(said)
    BY DEF ApplyRules, Unmet
  <2>2. RequiredCategories(said) \subseteq Issue
    BY RequiredIs
  <2>3. IsFiniteSet(answer \cup RequiredCategories(said))
    BY RequiredIs, FS_Union
  <2>4. QED
    BY <2>1, <2>2, <2>3, FS_Subset
<1>2. CategoriesToAvoid(said) \cap CategoriesOf(kept) = {}
  BY DEF ApplyRules, CategoriesOf
<1>3. ASSUME NEW r \in RequiredCategories(said) PROVE r.category \in CategoriesOf(kept)
  <2>1. r.category # "budget" /\ r.category # "police"
    BY RequiredIs
  <2>2. PICK i \in answer \cup Unmet(answer, said) : i.category = r.category
    BY DEF Unmet, CategoriesOf
  <2>3. i \in kept
    BY <2>1, <2>2 DEF ApplyRules, CategoriesToAvoid
  <2>4. QED
    BY <2>2, <2>3 DEF CategoriesOf
<1>4. CategoriesOf(RequiredCategories(said)) \subseteq CategoriesOf(kept)
  BY <1>3 DEF CategoriesOf
<1>5. IssueOf("zoning", "negative", TRUE) \in Issue /\ IssueOf("zoning", "negative", TRUE).category = "zoning"
  BY IssueIs DEF IssueCategory, Stance
<1>6. CASE issues = kept
  BY <1>1, <1>2, <1>4, <1>6
<1>7. CASE issues = kept \cup {IssueOf("zoning", "negative", TRUE)}
  <2>1. issues \subseteq Issue /\ IsFiniteSet(issues)
    <3>1. issues \subseteq Issue
      BY <1>1, <1>5, <1>7
    <3>2. IsFiniteSet(kept \cup {IssueOf("zoning", "negative", TRUE)})
      BY <1>1, FS_Singleton, FS_Union
    <3>3. QED
      BY <1>7, <3>1, <3>2
  <2>2. CategoriesOf(issues) = CategoriesOf(kept) \cup {"zoning"}
    <3>1. PICK z : z = IssueOf("zoning", "negative", TRUE)
      OBVIOUS
    <3>2. issues = kept \cup {z} /\ z.category = "zoning"
      BY <1>5, <1>7, <3>1
    <3>3. QED
      BY <3>2 DEF CategoriesOf
  <2>3. "zoning" \notin CategoriesToAvoid(said)
    BY DEF CategoriesToAvoid
  <2>4. QED
    BY <1>2, <1>4, <2>1, <2>2, <2>3
<1>8. QED
  BY <1>6, <1>7 DEF Refine

LEMMA ClassifiedFits ==
  ASSUME NEW contact \in ContactNumber, NEW said \in MessageText, NEW answer \in IssueAnswer \cup {{}},
         NEW m, m = [contact |-> contact, text |-> said, uncategorized |-> ShouldBeUncategorized(said),
                     issues |-> IF ShouldBeUncategorized(said) THEN {} ELSE Refine(ApplyRules(answer, said), said)]
  PROVE  m \in Surveyed /\ IsFiniteSet(m.issues) /\ Validate(m) \subseteq Permitted(m)
<1>1. answer \in SUBSET Issue /\ IsFiniteSet(answer)
  BY RulesAssumption, FS_EmptySet
<1>2. ShouldBeUncategorized(said) \in BOOLEAN
  BY DEF ShouldBeUncategorized
<1>3. m.text = said /\ m.uncategorized = ShouldBeUncategorized(said) /\ m.contact = contact
  OBVIOUS
<1>4. CASE ShouldBeUncategorized(said)
  <2>1. m.issues = {} /\ m.uncategorized
    BY <1>4
  <2>2. CategoriesOf(m.issues) = {}
    BY <2>1 DEF CategoriesOf
  <2>3. RuleErrors(m.text, {}) = {} /\ UncategorizedErrors(m) = {}
    BY <2>1, <1>3, <1>4 DEF RuleErrors, UncategorizedErrors
  <2>4. CompletenessErrors(m.text, {}) \subseteq {"missing_required"}
    BY DEF CompletenessErrors
  <2>5. m \in Surveyed /\ IsFiniteSet(m.issues)
    BY <1>2, <2>1, FS_EmptySet DEF Surveyed
  <2>6. Validate(m) \subseteq {"missing_required"}
    BY <2>2, <2>3, <2>4 DEF Validate
  <2>7. QED
    BY <2>1, <2>5, <2>6 DEF Permitted
<1>5. CASE ~ShouldBeUncategorized(said)
  <2>1. m.issues = Refine(ApplyRules(answer, said), said) /\ ~m.uncategorized
    BY <1>5
  <2>2. /\ m.issues \subseteq Issue /\ IsFiniteSet(m.issues)
        /\ CategoriesOf(RequiredCategories(said)) \subseteq CategoriesOf(m.issues)
        /\ CategoriesToAvoid(said) \cap CategoriesOf(m.issues) = {}
    BY <1>1, <2>1, IssuesFit
  <2>3. CompletenessErrors(m.text, CategoriesOf(m.issues)) = {}
    BY <1>3, <2>2 DEF CompletenessErrors
  <2>4. UncategorizedErrors(m) = {}
    BY <1>3, <1>5, <2>1 DEF UncategorizedErrors
  <2>5. RuleErrors(m.text, CategoriesOf(m.issues)) \subseteq {"ebike_police"}
    <3>1. "property_tax" \in said => "budget" \notin CategoriesOf(m.issues)
      BY <2>2 DEF CategoriesToAvoid
    <3>2. QED
      BY <1>3, <3>1 DEF RuleErrors
  <2>6. m \in Surveyed
    BY <1>2, <2>1, <2>2 DEF Surveyed
  <2>7. Validate(m) \subseteq {"ebike_police"}
    BY <2>3, <2>4, <2>5 DEF Validate
  <2>8. QED
    BY <2>1, <2>2, <2>6, <2>7 DEF Permitted
<1>6. QED
  BY <1>4, <1>5

LEMMA RulesStart == RulesInit => RulesIInv
BY DEF RulesInit, RulesIInv

LEMMA RulesStep == RulesIInv /\ [RulesNext]_surveyed => RulesIInv'
<1> SUFFICES ASSUME RulesIInv, [RulesNext]_surveyed PROVE RulesIInv'
  OBVIOUS
<1>1. CASE UNCHANGED surveyed
  BY <1>1 DEF RulesIInv, Validate, Permitted, RuleErrors, UncategorizedErrors, CompletenessErrors
<1>2. CASE RulesNext
  <2>1. PICK contact \in ContactNumber, said \in MessageText, answer \in IssueAnswer \cup {{}} :
          surveyed' = Append(surveyed,
            [contact |-> contact, text |-> said, uncategorized |-> ShouldBeUncategorized(said),
             issues |-> IF ShouldBeUncategorized(said) THEN {} ELSE Refine(ApplyRules(answer, said), said)])
    BY <1>2 DEF RulesNext, ClassifyMessage
  <2>2. PICK m : m = [contact |-> contact, text |-> said, uncategorized |-> ShouldBeUncategorized(said),
             issues |-> IF ShouldBeUncategorized(said) THEN {} ELSE Refine(ApplyRules(answer, said), said)]
    OBVIOUS
  <2>3. m \in Surveyed /\ IsFiniteSet(m.issues) /\ Validate(m) \subseteq Permitted(m)
    BY <2>2, ClassifiedFits
  <2>4. surveyed' = Append(surveyed, m) /\ surveyed \in Seq(Surveyed)
    BY <2>1, <2>2 DEF RulesIInv
  <2>5. surveyed' \in Seq(Surveyed)
    BY <2>3, <2>4
  <2>6. ASSUME NEW k \in DOMAIN surveyed'
        PROVE  IsFiniteSet(surveyed'[k].issues) /\ Validate(surveyed'[k]) \subseteq Permitted(surveyed'[k])
    <3>1. surveyed'[k] = m \/ (k \in DOMAIN surveyed /\ surveyed'[k] = surveyed[k])
      BY <2>4, <2>6
    <3>2. QED
      BY <2>3, <3>1 DEF RulesIInv
  <2>7. QED
    BY <2>5, <2>6 DEF RulesIInv, Validate, Permitted, RuleErrors, UncategorizedErrors, CompletenessErrors
<1>3. QED
  BY <1>1, <1>2

-----------------------------------------------------------------------------

LEMMA PlacesFinite ==
  ASSUME RulesIInv
  PROVE  IsFiniteSet(IssuePlaces) /\ \A x \in IssuePlaces : x[1] \in DOMAIN surveyed
<1>1. DOMAIN surveyed = 1 .. Len(surveyed) /\ Len(surveyed) \in Nat
  BY DEF RulesIInv
<1>2. IsFiniteSet(DOMAIN surveyed)
  BY <1>1, FS_Interval
<1> DEFINE counted == {j \in DOMAIN surveyed : ~surveyed[j].uncategorized}
           places == {{k} \X surveyed[k].issues : k \in counted}
<1>3. IsFiniteSet(counted)
  BY <1>2, FS_Subset
<1>4. IsFiniteSet(places)
  <2> DEFINE placesOf == [k \in counted |-> {k} \X surveyed[k].issues]
  <2>1. placesOf \in Surjection(counted, places)
    BY DEF Surjection
  <2>2. QED
    BY <1>3, <2>1, FS_Surjection
<1>5. ASSUME NEW p \in places PROVE IsFiniteSet(p)
  <2>1. PICK k \in counted : p = {k} \X surveyed[k].issues
    BY <1>5
  <2>2. IsFiniteSet({k}) /\ IsFiniteSet(surveyed[k].issues)
    BY FS_Singleton DEF RulesIInv
  <2>3. QED
    BY <2>1, <2>2, FS_Product
<1>6. IsFiniteSet(UNION places)
  BY <1>4, <1>5, FS_UNION
<1>7. QED
  BY <1>6 DEF IssuePlaces

LEMMA NegativeWins ==
  ASSUME NEW stances PROVE StrongestStance(stances) = "negative" <=> "negative" \in stances
BY DEF StrongestStance

LEMMA RulesImplied == RulesIInv => RulesInv
<1> SUFFICES ASSUME RulesIInv PROVE RulesInv
  OBVIOUS
<1>1. RulesTypeOK /\ RulesObeyed
  <2>1. \A k \in DOMAIN surveyed : surveyed[k] \in Surveyed
    BY DEF RulesIInv
  <2>2. RulesTypeOK
    BY <2>1 DEF RulesTypeOK, Surveyed
  <2>3. RulesObeyed
    BY DEF RulesIInv, RulesObeyed, Permitted
  <2>4. QED
    BY <2>2, <2>3
<1>2. PeopleCounted
  <2> SUFFICES ASSUME NEW c \in Mentioned
               PROVE  /\ InsightOf(c).unique =
                           Cardinality({surveyed[x[1]].contact.number : x \in {y \in IssuePlaces : IssueAt(y).category = c}} \ {NoNumber})
                      /\ InsightOf(c).residents["negative"] =
                           Cardinality({surveyed[x[1]].contact.number :
                             x \in {y \in IssuePlaces : IssueAt(y).category = c /\ IssueAt(y).stance = "negative"}} \ {NoNumber})
    BY DEF PeopleCounted
  <2>1. InsightOf(c).unique = Cardinality(RespondentsOf(c))
    BY DEF InsightOf
  <2>2. RespondentsOf(c) =
          {surveyed[x[1]].contact.number : x \in {y \in IssuePlaces : IssueAt(y).category = c}} \ {NoNumber}
    BY DEF RespondentsOf, MentionsOf, PhoneAt, NormalizePhone
  <2>3. InsightOf(c).residents["negative"] =
          Cardinality({p \in RespondentsOf(c) : StanceOf(p, c) = "negative"})
    BY DEF InsightOf, Stance
  <2>4. {p \in RespondentsOf(c) : StanceOf(p, c) = "negative"} =
          {surveyed[x[1]].contact.number :
             x \in {y \in IssuePlaces : IssueAt(y).category = c /\ IssueAt(y).stance = "negative"}} \ {NoNumber}
    <3>1. \A p : StanceOf(p, c) = "negative" <=>
                   \E x \in MentionsOf(c) : PhoneAt(x) = p /\ IssueAt(x).stance = "negative"
      BY NegativeWins DEF StanceOf
    <3>2. QED
      BY <3>1 DEF RespondentsOf, MentionsOf, PhoneAt, NormalizePhone
  <2>5. QED
    BY <2>1, <2>2, <2>3, <2>4
<1>3. CountsAgree
  <2> SUFFICES ASSUME NEW c \in Mentioned
               PROVE  /\ Cardinality(MentionsOf(c)) <= HierarchicalCount(c)
                      /\ (\A k \in DOMAIN surveyed : surveyed[k].contact.number # NoNumber) =>
                           Cardinality(MentionsOf(c)) = HierarchicalCount(c)
    BY DEF CountsAgree
  <2> DEFINE all == {x \in IssuePlaces : IssueAt(x).category = c}
  <2>1. MentionsOf(c) \subseteq all /\ HierarchicalCount(c) = Cardinality(all)
    BY DEF MentionsOf, HierarchicalCount
  <2>2. IsFiniteSet(all)
    BY PlacesFinite, FS_Subset
  <2>3. (\A k \in DOMAIN surveyed : surveyed[k].contact.number # NoNumber) => MentionsOf(c) = all
    BY PlacesFinite DEF MentionsOf, NormalizePhone
  <2>4. QED
    <3>1. Cardinality(MentionsOf(c)) <= Cardinality(all)
      BY <2>1, <2>2, FS_Subset
    <3>2. QED
      BY <2>1, <2>3, <3>1
<1>4. QED
  BY <1>1, <1>2, <1>3 DEF RulesInv

(* What the classifier leaves of a message's issues satisfies the          *)
(* validator's own copy of the rules, but for police on e-bikes, whatever  *)
(* the model answered; and the report's counts are of people: each number  *)
(* once per issue, as a complaint if one of the mentions is                *)
(* (smart_classifier.py, validator.py, smart_aggregator.py).               *)
THEOREM IssuesAreCounted == RulesSpec => []RulesInv
<1>1. QED
  BY RulesStart, RulesStep, RulesImplied, PTL DEF RulesSpec

-----------------------------------------------------------------------------
(* The classification pipeline                                             *)

Row == [phone : Sender, text : SourceText]
MemoryRecord == [seen : SUBSET (Sender \X STRING), last : [Sender -> LastWords]]
ClassifyPlace == [run : 0 .. MaxClassifyRuns, step : RunStep, next : Nat \ {0}]
Writes == {"feedback", "kept"}
KeptRows == Range(cleanedRows)

(* The rows the cleaner has looked at, and what it remembers of them.      *)
LookedAt ==
  {i \in loadedRows : sourceRows[i].text.fate # "blank" /\ (classifyAt.step = "clean" => i < classifyAt.next)}
Memory == IF classifyAt.next = 1 THEN NoMemory ELSE cleaner

ClassifyTypes ==
  /\ sourceRows \in Seq(Row) /\ Len(sourceRows) <= MaxSource
  /\ cleaner \in MemoryRecord /\ classifyAt \in ClassifyPlace
  /\ loadedRows \subseteq DOMAIN sourceRows /\ cleanedRows \in Seq(DOMAIN sourceRows)
  /\ classified \in Seq([row : DOMAIN sourceRows, failed : BOOLEAN])
  /\ exported \in [DOMAIN File -> [run : 0 .. MaxClassifyRuns, whole : BOOLEAN]]
  /\ lastEnd \in {"none", "success", "failed", "killed"}

(* What was kept of the rows looked at, and what was not.                  *)
KeptFit ==
  /\ classifyAt.step \in {"rest", "load"} => loadedRows = {} /\ cleanedRows = <<>>
  /\ classifyAt.step = "clean" /\ classifyAt.next = 1 => cleanedRows = <<>>
  /\ classifyAt.step = "clean" /\ loadedRows # {} => classifyAt.next <= Len(sourceRows)
  /\ \A i \in KeptRows : i \in LookedAt /\ sourceRows[i].text.fate \in Writes
  /\ \A i \in LookedAt : sourceRows[i].text.fate \in Writes /\ i \notin KeptRows =>
       \E j \in loadedRows :
         j < i /\ sourceRows[j].phone = sourceRows[i].phone /\ Words(sourceRows[j]) = Words(sourceRows[i])
  /\ \A i, j \in KeptRows : i < j /\ sourceRows[i].phone = sourceRows[j].phone =>
       /\ sourceRows[i].text.form # sourceRows[j].text.form
       /\ Words(sourceRows[i]) = Words(sourceRows[j]) =>
            \E k \in loadedRows : i < k /\ k < j /\ sourceRows[k].phone = sourceRows[i].phone
                                    /\ Words(sourceRows[k]) # Words(sourceRows[i])

(* The memory is of the rows looked at: their forms, words of one of them, *)
(* and of a row that was kept unless its phone said something else since.  *)
MemoryFits ==
  classifyAt.step = "clean" =>
    /\ Memory.seen = {<<sourceRows[i].phone, sourceRows[i].text.form>> : i \in LookedAt}
    /\ \A p \in Sender : Memory.last[p] # NoWords =>
         \E i \in LookedAt : sourceRows[i].phone = p /\ Words(sourceRows[i]) = Memory.last[p]
    /\ \A i \in KeptRows :
         \/ Memory.last[sourceRows[i].phone] = Words(sourceRows[i])
         \/ \E k \in LookedAt : i < k /\ sourceRows[k].phone = sourceRows[i].phone
                                  /\ Words(sourceRows[k]) # Words(sourceRows[i])

OfThisRun(f) == exported[f] = [run |-> classifyAt.run, whole |-> TRUE]

(* The files before the next are of this run, the others of earlier ones.  *)
FilesFit ==
  /\ \A f \in DOMAIN File : exported[f].run <= classifyAt.run
  /\ classifyAt.step \in {"load", "clean", "classify"} =>
       \A f \in DOMAIN File : exported[f].run < classifyAt.run
  /\ classifyAt.step = "export" =>
       /\ classifyAt.next \in DOMAIN File
       /\ \A f \in DOMAIN File : IF f < classifyAt.next THEN OfThisRun(f) ELSE exported[f].run < classifyAt.run
  /\ classifyAt.step = "end" => \A f \in DOMAIN File : OfThisRun(f)
  /\ FilesOfOneRun

ClassifyIInv == ClassifyTypes /\ KeptFit /\ MemoryFits /\ AllClassified /\ FilesFit

-----------------------------------------------------------------------------

LEMMA NoMemoryFits == NoMemory \in MemoryRecord /\ NoMemory.seen = {} /\ \A p \in Sender : NoMemory.last[p] = NoWords
<1>1. NoWords \in LastWords
  BY DEF LastWords
<1>2. QED
  BY <1>1 DEF NoMemory, MemoryRecord

LEMMA FiveFiles == DOMAIN File = 1 .. 5 /\ Len(File) = 5
BY DEF File

LEMMA RowFacts ==
  ASSUME ClassifyTypes, NEW i \in DOMAIN sourceRows
  PROVE  /\ sourceRows[i].phone \in Sender /\ sourceRows[i].text \in SourceText
         /\ sourceRows[i].text.form \in STRING /\ Words(sourceRows[i]) \in LastWords
         /\ sourceRows[i].text.fate \in Writes => Words(sourceRows[i]) # NoWords
         /\ i \in Nat \ {0} /\ i <= Len(sourceRows)
<1>1. sourceRows[i] \in Row /\ i \in 1 .. Len(sourceRows) /\ Len(sourceRows) \in Nat
  BY DEF ClassifyTypes
<1>2. sourceRows[i].phone \in Sender /\ sourceRows[i].text \in SourceText
  BY <1>1 DEF Row
<1>3. sourceRows[i].text \in [form : STRING, words : STRING, fate : Fate]
  BY <1>2, ClassifyAssumption
<1>4. sourceRows[i].text.fate \in Writes => sourceRows[i].text.words # NoWords
  BY <1>2, ClassifyAssumption DEF Writes
<1>5. QED
  BY <1>1, <1>2, <1>3, <1>4 DEF Words, LastWords

LEMMA SameForm ==
  ASSUME ClassifyTypes, NEW i \in DOMAIN sourceRows, NEW j \in DOMAIN sourceRows,
         sourceRows[i].text.form = sourceRows[j].text.form
  PROVE  Words(sourceRows[i]) = Words(sourceRows[j])
BY RowFacts, ClassifyAssumption DEF Words

LEMMA RangeOfAppend ==
  ASSUME NEW S, NEW s \in Seq(S), NEW x
  PROVE  Range(Append(s, x)) = Range(s) \cup {x}
<1>1. DOMAIN s = 1 .. Len(s) /\ Len(s) \in Nat
  OBVIOUS
<1>2. DOMAIN Append(s, x) = 1 .. Len(s) + 1 /\ Append(s, x)[Len(s) + 1] = x
  OBVIOUS
<1>3. \A n \in 1 .. Len(s) : Append(s, x)[n] = s[n]
  OBVIOUS
<1>4. Len(s) + 1 \in 1 .. Len(s) + 1 /\ 1 .. Len(s) \subseteq 1 .. Len(s) + 1
      /\ \A n \in 1 .. Len(s) + 1 : n \in 1 .. Len(s) \/ n = Len(s) + 1
  BY <1>1
<1>5. QED
  BY <1>1, <1>2, <1>3, <1>4 DEF Range

LEMMA RangeOfNone == Range(<<>>) = {}
BY DEF Range

LEMMA ClassifyStart == ClassifyInit => ClassifyIInv
<1> SUFFICES ASSUME ClassifyInit PROVE ClassifyIInv
  OBVIOUS
<1>1. sourceRows \in SeqOf(Row, MaxSource) /\ MaxSource \in Nat /\ MaxClassifyRuns \in Nat
  BY ClassifyAssumption DEF ClassifyInit, Row
<1>2. PICK n \in 0 .. MaxSource : sourceRows \in [1 .. n -> Row]
  BY <1>1 DEF SeqOf
<1>3. sourceRows \in Seq(Row) /\ Len(sourceRows) <= MaxSource
  BY <1>1, <1>2
<1>4. ClassifyTypes
  BY <1>1, <1>3, NoMemoryFits DEF ClassifyInit, ClassifyTypes, ClassifyPlace, RunStep, Unwritten
<1>5. classifyAt.step = "rest" /\ cleanedRows = <<>> /\ loadedRows = {} /\ lastEnd = "none" /\ classifyAt.run = 0
  BY DEF ClassifyInit
<1>6. KeptFit /\ MemoryFits /\ AllClassified
  BY <1>5, RangeOfNone DEF KeptFit, MemoryFits, AllClassified, KeptRows, LookedAt
<1>7. \A f \in DOMAIN File : exported[f].run = 0 /\ exported[f].whole = TRUE
  BY DEF ClassifyInit, Unwritten
<1>8. FilesFit
  BY <1>5, <1>7 DEF FilesFit, FilesOfOneRun
<1>9. QED
  BY <1>4, <1>6, <1>8 DEF ClassifyIInv

LEMMA ClassifyImplied == ClassifyIInv => ClassifyInv
<1> SUFFICES ASSUME ClassifyIInv PROVE ClassifyInv
  OBVIOUS
<1>1. ClassifyTypeOK
  <2>1. \A S : \A s \in Seq(S) : Range(s) \subseteq S
    BY DEF Range
  <2>2. Range(sourceRows) \subseteq Row
    BY <2>1 DEF ClassifyIInv, ClassifyTypes
  <2>3. Range(cleanedRows) \subseteq DOMAIN sourceRows
    BY <2>1 DEF ClassifyIInv, ClassifyTypes
  <2>4. Range(classified) \subseteq [row : DOMAIN sourceRows, failed : BOOLEAN]
    BY <2>1 DEF ClassifyIInv, ClassifyTypes
  <2>5. QED
    BY <2>2, <2>3, <2>4
    DEF ClassifyIInv, ClassifyTypes, ClassifyTypeOK, Row, MemoryRecord, ClassifyPlace, FilesFit
<1>2. NothingSaidLost
  BY DEF ClassifyIInv, KeptFit, NothingSaidLost, Cleaned, LookedAt, KeptRows, Writes
<1>3. HeardOnce
  BY DEF ClassifyIInv, KeptFit, HeardOnce, KeptRows
<1>4. QED
  BY <1>1, <1>2, <1>3 DEF ClassifyIInv, ClassifyInv, FilesFit

-----------------------------------------------------------------------------

(* A run that is over has no rows, and its memory does not matter.         *)
LEMMA RunOver ==
  ASSUME classifyAt'.step = "rest", loadedRows' = {}, cleanedRows' = <<>>
  PROVE  KeptFit' /\ MemoryFits' /\ AllClassified'
<1>1. KeptRows' = {}
  BY RangeOfNone DEF KeptRows
<1>2. LookedAt' = {}
  BY DEF LookedAt
<1>3. QED
  BY <1>1, <1>2 DEF KeptFit, MemoryFits, AllClassified

(* A step to the start of another changes neither run nor the other parts. *)
LEMMA StepTaken ==
  ASSUME ClassifyTypes, NEW step \in RunStep, AtStep(step)
  PROVE  classifyAt' \in ClassifyPlace /\ classifyAt'.step = step /\ classifyAt'.run = classifyAt.run
         /\ classifyAt'.next = 1
<1>1. PICK n \in Nat \ {0} : n = 1
  OBVIOUS
<1>2. classifyAt \in ClassifyPlace /\ classifyAt' = [[classifyAt EXCEPT !.step = step] EXCEPT !.next = n]
  BY <1>1 DEF ClassifyTypes, AtStep
<1>3. [classifyAt EXCEPT !.step = step] \in ClassifyPlace
  BY <1>2 DEF ClassifyPlace
<1>4. QED
  BY <1>1, <1>2, <1>3 DEF ClassifyPlace

LEMMA StartRunFits ==
  ASSUME ClassifyIInv, NEW fresh \in BOOLEAN, StartRun(fresh)
  PROVE  ClassifyIInv'
<1>1. /\ classifyAt.run \in Nat /\ classifyAt.run + 1 \in 0 .. MaxClassifyRuns
      /\ classifyAt'.run = classifyAt.run + 1 /\ classifyAt'.step = "load" /\ classifyAt'.next = 1
      /\ classifyAt' \in ClassifyPlace
  BY ClassifyAssumption DEF ClassifyIInv, ClassifyTypes, ClassifyPlace, StartRun, RunStep
<1>2. ClassifyTypes'
  BY <1>1, NoMemoryFits DEF ClassifyIInv, ClassifyTypes, StartRun
<1>3. loadedRows' = {} /\ cleanedRows' = <<>>
  BY DEF ClassifyIInv, KeptFit, StartRun
<1>4. KeptRows' = {} /\ LookedAt' = {}
  BY <1>3, RangeOfNone DEF KeptRows, LookedAt
<1>5. KeptFit' /\ MemoryFits' /\ AllClassified'
  BY <1>1, <1>3, <1>4 DEF KeptFit, MemoryFits, AllClassified
<1>6. \A f \in DOMAIN File : exported'[f].run < classifyAt'.run
  <2> SUFFICES ASSUME NEW f \in DOMAIN File PROVE exported'[f].run < classifyAt'.run
    OBVIOUS
  <2>1. exported[f].run <= classifyAt.run /\ exported' = exported /\ exported[f].run \in Nat
    BY DEF ClassifyIInv, ClassifyTypes, FilesFit, StartRun
  <2>2. QED
    BY <2>1, <1>1
<1>7. \A f \in DOMAIN File : exported'[f].run <= classifyAt'.run
  BY <1>1, <1>6, <1>2 DEF ClassifyTypes, ClassifyPlace
<1>8. FilesFit'
  BY <1>1, <1>6, <1>7 DEF FilesFit, FilesOfOneRun, ClassifyIInv, StartRun
<1>9. QED
  BY <1>2, <1>5, <1>8 DEF ClassifyIInv

(* A run that fails at a step before the export, or while it is there.     *)
LEMMA FailedRun ==
  ASSUME ClassifyIInv, FailRun, cleaner' \in MemoryRecord, UNCHANGED <<sourceRows, exported>>
  PROVE  ClassifyIInv'
<1>1. /\ classifyAt' \in ClassifyPlace /\ classifyAt'.step = "rest" /\ classifyAt'.run = classifyAt.run
      /\ classifyAt'.next = 1
  BY StepTaken DEF ClassifyIInv, FailRun, RunStep
<1>2. ClassifyTypes'
  BY <1>1 DEF ClassifyIInv, ClassifyTypes, FailRun
<1>3. KeptFit' /\ MemoryFits' /\ AllClassified'
  BY <1>1, RunOver DEF FailRun
<1>4. FilesFit'
  BY <1>1 DEF ClassifyIInv, FilesFit, FilesOfOneRun, FailRun
<1>5. QED
  BY <1>2, <1>3, <1>4 DEF ClassifyIInv

LEMMA LoadSourceFits ==
  ASSUME ClassifyIInv, LoadSource
  PROVE  ClassifyIInv'
<1>1. CASE FailRun
  BY <1>1, FailedRun DEF LoadSource, ClassifyIInv, ClassifyTypes
<1>2. CASE /\ loadedRows' = {i \in DOMAIN sourceRows : sourceRows[i].text.fate # "skipped"}
           /\ AtStep("clean") /\ UNCHANGED <<cleanedRows, classified, lastEnd>>
  <2>1. /\ classifyAt' \in ClassifyPlace /\ classifyAt'.step = "clean" /\ classifyAt'.run = classifyAt.run
        /\ classifyAt'.next = 1
    BY <1>2, StepTaken DEF ClassifyIInv, RunStep
  <2>2. ClassifyTypes'
    BY <1>2, <2>1 DEF ClassifyIInv, ClassifyTypes, LoadSource
  <2>3. cleanedRows' = <<>> /\ KeptRows' = {}
    BY <1>2, RangeOfNone DEF ClassifyIInv, KeptFit, LoadSource, KeptRows
  <2>4. \A i \in loadedRows' : i \in 1 .. Len(sourceRows) /\ Len(sourceRows) \in Nat /\ sourceRows' = sourceRows
    BY <1>2 DEF ClassifyIInv, ClassifyTypes, LoadSource
  <2>5. LookedAt' = {}
    BY <2>1, <2>4 DEF LookedAt
  <2>6. loadedRows' # {} => classifyAt'.next <= Len(sourceRows')
    BY <2>1, <2>4
  <2>7. KeptFit' /\ AllClassified'
    BY <2>1, <2>3, <2>5, <2>6 DEF KeptFit, AllClassified
  <2>8. MemoryFits'
    BY <2>1, <2>3, <2>5, NoMemoryFits DEF MemoryFits, Memory
  <2>9. FilesFit'
    BY <2>1, <1>2 DEF ClassifyIInv, FilesFit, FilesOfOneRun, LoadSource
  <2>10. QED
    BY <2>2, <2>7, <2>8, <2>9 DEF ClassifyIInv
<1>3. QED
  BY <1>1, <1>2 DEF LoadSource

LEMMA CleanNothingFits ==
  ASSUME ClassifyIInv, CleanNothing
  PROVE  ClassifyIInv'
BY FailedRun, NoMemoryFits DEF CleanNothing, ClearedMemory

(* What a memory that fits remembers after one more row.                   *)
LEMMA Remembered ==
  ASSUME NEW m \in MemoryRecord, NEW row \in Row
  PROVE  /\ Remember(m, row) \in MemoryRecord
         /\ Remember(m, row).seen = m.seen \cup {<<row.phone, row.text.form>>}
         /\ \A p \in Sender :
              Remember(m, row).last[p] = IF ~Repeats(m, row) /\ p = row.phone THEN Words(row) ELSE m.last[p]
<1>1. row.phone \in Sender /\ row.text \in SourceText /\ m.last \in [Sender -> LastWords]
      /\ m.seen \in SUBSET (Sender \X STRING)
  BY DEF Row, MemoryRecord
<1>2. row.text.form \in STRING /\ Words(row) \in LastWords
  BY <1>1, ClassifyAssumption DEF LastWords, Words
<1>3. [m.last EXCEPT ![row.phone] = Words(row)] \in [Sender -> LastWords]
  BY <1>1, <1>2
<1>4. m.seen \cup {<<row.phone, row.text.form>>} \in SUBSET (Sender \X STRING)
  BY <1>1, <1>2
<1>5. QED
  BY <1>1, <1>3, <1>4 DEF Remember, MemoryRecord

(* The row the cleaner is at, with what is looked at and remembered after  *)
(* the step.                                                               *)
LEMMA CleanMoves ==
  ASSUME ClassifyIInv, CleanMessage,
         NEW i, i = classifyAt.next,
         NEW looks \in BOOLEAN, looks <=> i \in loadedRows /\ sourceRows[i].text.fate # "blank"
  PROVE  /\ classifyAt.step = "clean" /\ i \in DOMAIN sourceRows
         /\ classifyAt' \in ClassifyPlace /\ classifyAt'.run = classifyAt.run
         /\ classifyAt'.step \in {"clean", "classify"}
         /\ (classifyAt'.step = "clean" => classifyAt'.next = i + 1 /\ i + 1 <= Len(sourceRows) /\ i + 1 # 1)
         /\ LookedAt' = LookedAt \cup (IF looks THEN {i} ELSE {})
         /\ \A j \in LookedAt : j < i
         /\ (~looks => cleaner' = Memory /\ cleanedRows' = cleanedRows)
         /\ (looks => cleaner' = Remember(Memory, sourceRows[i])
                      /\ cleanedRows' = IF ~Repeats(Memory, sourceRows[i]) /\ sourceRows[i].text.fate \in Writes
                                        THEN Append(cleanedRows, i) ELSE cleanedRows)
<1>1. /\ classifyAt.step = "clean" /\ loadedRows # {} /\ UNCHANGED <<sourceRows, loadedRows>>
      /\ IF i = Len(sourceRows) THEN AtStep("classify") ELSE classifyAt' = [classifyAt EXCEPT !.next = i + 1]
  BY DEF CleanMessage
<1>2. Len(sourceRows) \in Nat /\ DOMAIN sourceRows = 1 .. Len(sourceRows) /\ i \in Nat /\ i # 0
      /\ loadedRows \subseteq DOMAIN sourceRows /\ classifyAt \in ClassifyPlace
  BY DEF ClassifyIInv, ClassifyTypes, ClassifyPlace
<1>3. i <= Len(sourceRows)
  BY <1>1 DEF ClassifyIInv, KeptFit
<1>4. i \in DOMAIN sourceRows
  BY <1>2, <1>3
<1>5. i + 1 \in Nat \ {0} /\ i + 1 # 1
  BY <1>2
<1>6. classifyAt' \in ClassifyPlace /\ classifyAt'.run = classifyAt.run /\ classifyAt'.step \in {"clean", "classify"}
      /\ LookedAt' = LookedAt \cup (IF looks THEN {i} ELSE {})
      /\ (classifyAt'.step = "clean" => classifyAt'.next = i + 1 /\ i + 1 <= Len(sourceRows))
  <2>1. CASE i = Len(sourceRows)
    <3>1. classifyAt' \in ClassifyPlace /\ classifyAt'.step = "classify" /\ classifyAt'.run = classifyAt.run
      BY <1>1, <2>1, StepTaken DEF ClassifyIInv, RunStep
    <3>2. \A j \in loadedRows : j < i \/ j = i
      BY <1>2, <2>1
    <3>3. LookedAt' = LookedAt \cup (IF looks THEN {i} ELSE {})
      BY <1>1, <3>1, <3>2 DEF LookedAt
    <3>4. QED
      BY <3>1, <3>3
  <2>2. CASE i # Len(sourceRows)
    <3>1. classifyAt' = [classifyAt EXCEPT !.next = i + 1]
      BY <1>1, <2>2
    <3>2. classifyAt' \in ClassifyPlace /\ classifyAt'.step = "clean" /\ classifyAt'.run = classifyAt.run
          /\ classifyAt'.next = i + 1
      BY <3>1, <1>1, <1>2, <1>5 DEF ClassifyPlace
    <3>3. \A j \in loadedRows : j < i + 1 <=> (j < i \/ j = i)
      BY <1>2
    <3>4. LookedAt' = LookedAt \cup (IF looks THEN {i} ELSE {})
      BY <1>1, <3>2, <3>3, <1>2 DEF LookedAt
    <3>5. i + 1 <= Len(sourceRows)
      BY <1>2, <1>3, <2>2
    <3>6. QED
      BY <3>2, <3>4, <3>5
  <2>3. QED
    BY <2>1, <2>2
<1>7. \A j \in LookedAt : j < i
  BY <1>1 DEF LookedAt
<1>8. (~looks => cleaner' = Memory /\ cleanedRows' = cleanedRows)
      /\ (looks => cleaner' = Remember(Memory, sourceRows[i])
                   /\ cleanedRows' = IF ~Repeats(Memory, sourceRows[i]) /\ sourceRows[i].text.fate \in Writes
                                     THEN Append(cleanedRows, i) ELSE cleanedRows)
  BY DEF CleanMessage, Memory, ClearedMemory, Writes
<1>9. QED
  BY <1>1, <1>4, <1>5, <1>6, <1>7, <1>8

LEMMA CleanMessageFits ==
  ASSUME ClassifyIInv, CleanMessage
  PROVE  ClassifyIInv'
<1>1. PICK i : i = classifyAt.next
  OBVIOUS
<1>2. PICK looks \in BOOLEAN : looks <=> i \in loadedRows /\ sourceRows[i].text.fate # "blank"
  OBVIOUS
<1>3. /\ classifyAt.step = "clean" /\ i \in DOMAIN sourceRows
      /\ classifyAt' \in ClassifyPlace /\ classifyAt'.run = classifyAt.run
      /\ classifyAt'.step \in {"clean", "classify"}
      /\ (classifyAt'.step = "clean" => classifyAt'.next = i + 1 /\ i + 1 <= Len(sourceRows) /\ i + 1 # 1)
      /\ LookedAt' = LookedAt \cup (IF looks THEN {i} ELSE {})
      /\ \A j \in LookedAt : j < i
      /\ (~looks => cleaner' = Memory /\ cleanedRows' = cleanedRows)
      /\ (looks => cleaner' = Remember(Memory, sourceRows[i])
                   /\ cleanedRows' = IF ~Repeats(Memory, sourceRows[i]) /\ sourceRows[i].text.fate \in Writes
                                     THEN Append(cleanedRows, i) ELSE cleanedRows)
  BY <1>1, <1>2, CleanMoves
<1>4. ClassifyTypes /\ KeptFit /\ MemoryFits /\ FilesFit
  BY DEF ClassifyIInv
<1>5. UNCHANGED <<sourceRows, loadedRows, classified, exported, lastEnd>>
  BY DEF CleanMessage
<1>6. Memory \in MemoryRecord
  BY <1>4, NoMemoryFits DEF ClassifyTypes, Memory
<1>7. sourceRows[i] \in Row /\ i \in Nat /\ sourceRows[i].phone \in Sender
  <2>1. sourceRows[i] \in Row
    BY <1>3, <1>4 DEF ClassifyTypes
  <2>2. i \in Nat
    BY <1>3, <1>4 DEF ClassifyTypes
  <2>3. QED
    BY <2>1, <2>2 DEF Row
<1>8. cleaner' \in MemoryRecord
  BY <1>3, <1>6, <1>7, Remembered
<1>9. Append(cleanedRows, i) \in Seq(DOMAIN sourceRows)
  BY <1>3, <1>4 DEF ClassifyTypes
<1>10. ClassifyTypes'
  BY <1>3, <1>4, <1>5, <1>8, <1>9 DEF ClassifyTypes
<1>11. KeptRows' = KeptRows \cup (IF looks /\ ~Repeats(Memory, sourceRows[i]) /\ sourceRows[i].text.fate \in Writes
                                  THEN {i} ELSE {})
  <2>1. Range(Append(cleanedRows, i)) = Range(cleanedRows) \cup {i}
    BY <1>4, RangeOfAppend DEF ClassifyTypes
  <2>2. QED
    BY <2>1, <1>3 DEF KeptRows
<1>12. KeptRows \subseteq LookedAt /\ LookedAt \subseteq loadedRows /\ loadedRows \subseteq DOMAIN sourceRows
       /\ (looks => i \in loadedRows)
  BY <1>4, <1>2 DEF KeptFit, LookedAt, ClassifyTypes
<1>13. \A j \in LookedAt : j \in Nat /\ j < i /\ i \notin LookedAt
  BY <1>3, <1>12, <1>4, <1>7 DEF ClassifyTypes
<1>14. /\ Memory.seen = {<<sourceRows[j].phone, sourceRows[j].text.form>> : j \in LookedAt}
       /\ \A p \in Sender : Memory.last[p] # NoWords =>
            \E j \in LookedAt : sourceRows[j].phone = p /\ Words(sourceRows[j]) = Memory.last[p]
       /\ \A j \in KeptRows :
            \/ Memory.last[sourceRows[j].phone] = Words(sourceRows[j])
            \/ \E k \in LookedAt : j < k /\ sourceRows[k].phone = sourceRows[j].phone
                                     /\ Words(sourceRows[k]) # Words(sourceRows[j])
  BY <1>3, <1>4 DEF MemoryFits
(* What repeats has been said.                                             *)
<1>15. Repeats(Memory, sourceRows[i]) =>
         \E j \in LookedAt : sourceRows[j].phone = sourceRows[i].phone /\ Words(sourceRows[j]) = Words(sourceRows[i])
  <2>1. CASE <<sourceRows[i].phone, sourceRows[i].text.form>> \in Memory.seen
    <3>1. PICK j \in LookedAt : <<sourceRows[i].phone, sourceRows[i].text.form>> = <<sourceRows[j].phone, sourceRows[j].text.form>>
      BY <2>1, <1>14
    <3>2. Words(sourceRows[j]) = Words(sourceRows[i])
      BY <3>1, <1>3, <1>4, <1>12, SameForm
    <3>3. QED
      BY <3>1, <3>2
  <2>2. CASE Words(sourceRows[i]) # NoWords /\ Memory.last[sourceRows[i].phone] = Words(sourceRows[i])
    BY <2>2, <1>7, <1>14
  <2>3. QED
    BY <2>1, <2>2 DEF Repeats
(* What does not, has not been in its form.                                *)
<1>16. ~Repeats(Memory, sourceRows[i]) =>
         \A j \in LookedAt : sourceRows[j].phone = sourceRows[i].phone =>
           sourceRows[j].text.form # sourceRows[i].text.form
  <2> SUFFICES ASSUME NEW j \in LookedAt, sourceRows[j].phone = sourceRows[i].phone,
                      sourceRows[j].text.form = sourceRows[i].text.form
               PROVE  Repeats(Memory, sourceRows[i])
    OBVIOUS
  <2>1. <<sourceRows[j].phone, sourceRows[j].text.form>> \in Memory.seen
    BY <1>14
  <2>2. QED
    BY <2>1 DEF Repeats
<1>17. ~Repeats(Memory, sourceRows[i]) /\ sourceRows[i].text.fate \in Writes =>
         Memory.last[sourceRows[i].phone] # Words(sourceRows[i])
  <2>1. sourceRows[i].text.fate \in Writes => Words(sourceRows[i]) # NoWords
    BY <1>3, <1>4, RowFacts
  <2>2. QED
    BY <2>1 DEF Repeats
<1>18. KeptFit'
  <2>1. /\ classifyAt'.step \notin {"rest", "load"}
        /\ ~(classifyAt'.step = "clean" /\ classifyAt'.next = 1)
        /\ (classifyAt'.step = "clean" /\ loadedRows' # {} => classifyAt'.next <= Len(sourceRows'))
    BY <1>3, <1>5
  <2>2. \A k \in KeptRows' : k \in LookedAt' /\ sourceRows'[k].text.fate \in Writes
    BY <1>3, <1>4, <1>5, <1>11 DEF KeptFit
  <2>3. ASSUME NEW k \in LookedAt', sourceRows'[k].text.fate \in Writes, k \notin KeptRows'
        PROVE  \E j \in loadedRows' :
                 j < k /\ sourceRows'[j].phone = sourceRows'[k].phone /\ (Words(sourceRows[j]))' = (Words(sourceRows[k]))'
    <3>1. CASE k \in LookedAt
      <4>1. \E j \in loadedRows :
              j < k /\ sourceRows[j].phone = sourceRows[k].phone /\ Words(sourceRows[j]) = Words(sourceRows[k])
        BY <3>1, <2>3, <1>4, <1>5, <1>11 DEF KeptFit
      <4>2. QED
        BY <4>1, <1>5 DEF Words
    <3>2. CASE k \notin LookedAt
      <4>1. k = i /\ looks
        BY <3>2, <1>3, <2>3
      <4>2. Repeats(Memory, sourceRows[i])
        BY <4>1, <2>3, <1>5, <1>11
      <4>3. PICK j \in LookedAt : sourceRows[j].phone = sourceRows[i].phone /\ Words(sourceRows[j]) = Words(sourceRows[i])
        BY <4>2, <1>15
      <4>4. j \in loadedRows /\ j < i
        BY <1>12, <1>13
      <4>5. QED
        BY <4>1, <4>3, <4>4, <1>5 DEF Words
    <3>3. QED
      BY <3>1, <3>2
  <2>4. ASSUME NEW j \in KeptRows', NEW k \in KeptRows', j < k, sourceRows[j].phone = sourceRows[k].phone
        PROVE  /\ sourceRows[j].text.form # sourceRows[k].text.form
               /\ Words(sourceRows[j]) = Words(sourceRows[k]) =>
                    \E n \in loadedRows : j < n /\ n < k /\ sourceRows[n].phone = sourceRows[j].phone
                                            /\ Words(sourceRows[n]) # Words(sourceRows[j])
    <3>1. CASE j \in KeptRows /\ k \in KeptRows
      BY <3>1, <2>4, <1>4 DEF KeptFit
    <3>2. CASE j \in KeptRows /\ k \notin KeptRows
      <4>1. k = i /\ looks /\ ~Repeats(Memory, sourceRows[i]) /\ sourceRows[i].text.fate \in Writes
        BY <3>2, <1>11
      <4>2. j \in LookedAt
        BY <3>2, <1>12
      <4>3. sourceRows[j].text.form # sourceRows[i].text.form
        BY <4>1, <4>2, <1>16, <2>4
      <4>4. ASSUME Words(sourceRows[j]) = Words(sourceRows[i])
            PROVE  \E n \in loadedRows : j < n /\ n < i /\ sourceRows[n].phone = sourceRows[j].phone
                                           /\ Words(sourceRows[n]) # Words(sourceRows[j])
        <5>1. Memory.last[sourceRows[j].phone] # Words(sourceRows[j])
          BY <4>1, <4>4, <1>17, <2>4
        <5>2. \E n \in LookedAt : j < n /\ sourceRows[n].phone = sourceRows[j].phone
                                    /\ Words(sourceRows[n]) # Words(sourceRows[j])
          BY <5>1, <3>2, <1>14
        <5>3. QED
          BY <5>2, <1>12, <1>13
      <4>5. QED
        BY <4>1, <4>3, <4>4
    <3>3. CASE j \notin KeptRows
      <4>1. j = i /\ (k = i \/ k \in LookedAt)
        BY <3>3, <1>11, <1>12
      <4>2. QED
        BY <4>1, <2>4, <1>13, <1>7
    <3>4. QED
      BY <3>1, <3>2, <3>3
  <2>5. QED
    BY <2>1, <2>2, <2>3, <2>4, <1>5 DEF KeptFit, Words
<1>19. MemoryFits'
  <2>1. SUFFICES ASSUME classifyAt'.step = "clean" PROVE MemoryFits'
    BY DEF MemoryFits
  <2>2. Memory' = cleaner'
    BY <2>1, <1>3 DEF Memory
  <2>3. CASE ~looks
    <3>1. Memory' = Memory /\ LookedAt' = LookedAt /\ KeptRows' = KeptRows
      BY <2>2, <2>3, <1>3, <1>11
    <3>2. QED
      BY <3>1, <1>14, <1>5 DEF MemoryFits, Words
  <2>4. CASE looks
    <3>1. LookedAt' = LookedAt \cup {i} /\ Memory' = Remember(Memory, sourceRows[i])
      BY <2>2, <2>4, <1>3
    <3>2. /\ Remember(Memory, sourceRows[i]).seen = Memory.seen \cup {<<sourceRows[i].phone, sourceRows[i].text.form>>}
          /\ \A p \in Sender :
               Remember(Memory, sourceRows[i]).last[p] =
                 IF ~Repeats(Memory, sourceRows[i]) /\ p = sourceRows[i].phone THEN Words(sourceRows[i]) ELSE Memory.last[p]
      BY <1>6, <1>7, Remembered
    <3>3. PICK m : m = Remember(Memory, sourceRows[i])
      OBVIOUS
    <3>4. m.seen = {<<sourceRows[j].phone, sourceRows[j].text.form>> : j \in LookedAt \cup {i}}
      BY <3>2, <3>3, <1>14
    <3>5. \A p \in Sender :
            m.last[p] = IF ~Repeats(Memory, sourceRows[i]) /\ p = sourceRows[i].phone THEN Words(sourceRows[i]) ELSE Memory.last[p]
      BY <3>2, <3>3
    <3>6. \A p \in Sender : m.last[p] # NoWords =>
            \E j \in LookedAt \cup {i} : sourceRows[j].phone = p /\ Words(sourceRows[j]) = m.last[p]
      BY <3>5, <1>14
    <3>7. ASSUME NEW j \in KeptRows'
          PROVE  \/ m.last[sourceRows[j].phone] = Words(sourceRows[j])
                 \/ \E k \in LookedAt \cup {i} : j < k /\ sourceRows[k].phone = sourceRows[j].phone
                                                   /\ Words(sourceRows[k]) # Words(sourceRows[j])
      <4>1. CASE j \notin KeptRows
        <5>1. j = i /\ ~Repeats(Memory, sourceRows[i])
          BY <4>1, <1>11
        <5>2. QED
          BY <5>1, <3>5, <1>7
      <4>2. CASE j \in KeptRows
        <5>1. j \in LookedAt /\ sourceRows[j].phone \in Sender /\ j < i
          BY <4>2, <1>4, <1>12, <1>13, RowFacts
        <5>2. CASE Memory.last[sourceRows[j].phone] = Words(sourceRows[j])
          BY <5>1, <5>2, <3>5
        <5>3. CASE Memory.last[sourceRows[j].phone] # Words(sourceRows[j])
          BY <5>3, <4>2, <1>14
        <5>4. QED
          BY <5>2, <5>3
      <4>3. QED
        BY <4>1, <4>2
    <3>8. QED
      BY <3>1, <3>3, <3>4, <3>6, <3>7, <1>5 DEF MemoryFits, Words
  <2>5. QED
    BY <2>3, <2>4
<1>20. AllClassified' /\ FilesFit'
  <2>1. classifyAt'.step \notin {"export", "end", "rest"}
    BY <1>3
  <2>2. classifyAt.step = "clean" /\ classifyAt'.run = classifyAt.run /\ exported' = exported
    BY <1>3, <1>5
  <2>3. QED
    BY <2>1, <2>2, <1>4, <1>3 DEF AllClassified, FilesFit, FilesOfOneRun
<1>21. QED
  BY <1>10, <1>18, <1>19, <1>20 DEF ClassifyIInv

LEMMA ClassifyMessagesFit ==
  ASSUME ClassifyIInv, ClassifyMessages
  PROVE  ClassifyIInv'
<1>1. CASE cleanedRows = <<>>
  BY <1>1, FailedRun DEF ClassifyMessages, ClassifyIInv, ClassifyTypes
<1>2. CASE cleanedRows # <<>>
  <2>1. PICK failing \in SUBSET Range(cleanedRows) : classified' = Classifications(failing)
    BY <1>2 DEF ClassifyMessages
  <2>2. /\ classifyAt' \in ClassifyPlace /\ classifyAt'.step = "export" /\ classifyAt'.run = classifyAt.run
        /\ classifyAt'.next = 1
    BY <1>2, StepTaken DEF ClassifyIInv, RunStep, ClassifyMessages
  <2>3. UNCHANGED <<sourceRows, cleaner, loadedRows, cleanedRows, exported, lastEnd>> /\ classifyAt.step = "classify"
    BY <1>2 DEF ClassifyMessages
  <2>4. cleanedRows \in Seq(DOMAIN sourceRows)
    BY DEF ClassifyIInv, ClassifyTypes
  <2>5. classified' \in Seq([row : DOMAIN sourceRows, failed : BOOLEAN])
    <3>1. \A n \in DOMAIN cleanedRows :
            [row |-> cleanedRows[n], failed |-> cleanedRows[n] \in failing] \in [row : DOMAIN sourceRows, failed : BOOLEAN]
      BY <2>4
    <3>2. Len(cleanedRows) \in Nat /\ DOMAIN cleanedRows = 1 .. Len(cleanedRows)
      BY <2>4
    <3>3. classified' \in [1 .. Len(cleanedRows) -> [row : DOMAIN sourceRows, failed : BOOLEAN]]
      BY <2>1, <3>1, <3>2 DEF Classifications
    <3>4. \A S : \A k \in Nat : [1 .. k -> S] \subseteq Seq(S)
      OBVIOUS
    <3>5. QED
      BY <3>2, <3>3, <3>4
  <2>6. ClassifyTypes'
    BY <2>2, <2>3, <2>5 DEF ClassifyIInv, ClassifyTypes
  <2>7. KeptRows' = KeptRows /\ LookedAt \subseteq LookedAt' /\ LookedAt' \subseteq LookedAt
    BY <2>2, <2>3 DEF KeptRows, LookedAt
  <2>8. KeptFit' /\ MemoryFits'
    <3>1. LookedAt' = LookedAt
      BY <2>7
    <3>2. MemoryFits'
      BY <2>2 DEF MemoryFits
    <3>3. KeptFit'
      BY <2>2, <2>3, <2>7, <3>1 DEF ClassifyIInv, KeptFit, Words
    <3>4. QED
      BY <3>2, <3>3
  <2>9. AllClassified'
    <3>1. DOMAIN classified' = DOMAIN cleanedRows /\ \A n \in DOMAIN cleanedRows : classified'[n].row = cleanedRows[n]
      BY <2>1 DEF Classifications
    <3>2. [n \in DOMAIN classified' |-> classified'[n].row] = cleanedRows
      BY <3>1, <2>4
    <3>3. QED
      BY <3>2, <2>3 DEF AllClassified
  <2>10. FilesFit'
    <3>1. \A f \in DOMAIN File : exported[f].run < classifyAt.run /\ ~(f < 1)
      BY <2>3, FiveFiles DEF ClassifyIInv, FilesFit
    <3>2. classifyAt'.next \in DOMAIN File
      BY <2>2, FiveFiles
    <3>3. QED
      BY <2>2, <2>3, <3>1, <3>2 DEF ClassifyIInv, FilesFit, FilesOfOneRun
  <2>11. QED
    BY <2>6, <2>8, <2>9, <2>10 DEF ClassifyIInv
<1>3. QED
  BY <1>1, <1>2

(* A file that is written, whole or not, keeps the order of the files.     *)
LEMMA FileWritten ==
  ASSUME ClassifyIInv, classifyAt.step = "export", NEW whole \in BOOLEAN, Written(whole)
  PROVE  /\ classifyAt.next \in 1 .. 5
         /\ exported' \in [DOMAIN File -> [run : 0 .. MaxClassifyRuns, whole : BOOLEAN]]
         /\ exported'[classifyAt.next] = [run |-> classifyAt.run, whole |-> whole]
         /\ \A f \in 1 .. 5 : f # classifyAt.next => exported'[f] = exported[f]
         /\ \A f \in 1 .. 5 : exported'[f].run <= classifyAt.run
         /\ \A f, g \in 1 .. 5 : f < g =>
              exported'[g].run <= exported'[f].run /\ (~exported'[f].whole => exported'[g].run < exported'[f].run)
<1>1. PICK n \in 1 .. 5 : n = classifyAt.next
  BY FiveFiles DEF ClassifyIInv, FilesFit
<1>2. PICK r \in 0 .. MaxClassifyRuns : r = classifyAt.run
  BY DEF ClassifyIInv, ClassifyTypes, ClassifyPlace
<1>3. PICK file : file = [run |-> r, whole |-> whole]
  OBVIOUS
<1>4. file \in [run : 0 .. MaxClassifyRuns, whole : BOOLEAN] /\ file.run = r /\ file.whole = whole
  BY <1>3
<1>5. exported \in [1 .. 5 -> [run : 0 .. MaxClassifyRuns, whole : BOOLEAN]]
  BY FiveFiles DEF ClassifyIInv, ClassifyTypes
<1>6. exported' = [exported EXCEPT ![n] = file]
  BY <1>1, <1>2, <1>3 DEF Written
<1>7. exported' \in [1 .. 5 -> [run : 0 .. MaxClassifyRuns, whole : BOOLEAN]]
      /\ exported'[n] = file /\ \A f \in 1 .. 5 : f # n => exported'[f] = exported[f]
  BY <1>4, <1>5, <1>6
<1>8. \A f \in 1 .. 5 : /\ f < n => exported[f].run = r /\ exported[f].whole = TRUE
                        /\ ~(f < n) => exported[f].run < r
                        /\ exported[f].run \in Nat
  BY <1>1, <1>2, <1>5, FiveFiles DEF ClassifyIInv, FilesFit, OfThisRun
<1>9. \A f, g \in 1 .. 5 : f < g =>
        exported[g].run <= exported[f].run /\ (~exported[f].whole => exported[g].run < exported[f].run)
  BY FiveFiles DEF ClassifyIInv, FilesFit, FilesOfOneRun
<1>10. \A f \in 1 .. 5 : exported'[f].run <= r
  BY <1>2, <1>4, <1>7, <1>8
<1>11. ASSUME NEW f \in 1 .. 5, NEW g \in 1 .. 5, f < g
       PROVE  exported'[g].run <= exported'[f].run /\ (~exported'[f].whole => exported'[g].run < exported'[f].run)
  <2>1. CASE f < n
    <3>1. exported'[f].run = r /\ exported'[f].whole = TRUE
      BY <2>1, <1>1, <1>7, <1>8
    <3>2. QED
      BY <3>1, <1>10
  <2>2. CASE f = n
    <3>1. exported'[f].run = r /\ exported'[g].run < r
      BY <2>2, <1>1, <1>4, <1>7, <1>8, <1>11
    <3>2. QED
      BY <3>1, <1>2, <1>7, <1>8, <1>11, <2>2
  <2>3. CASE n < f
    BY <2>3, <1>1, <1>7, <1>9, <1>11
  <2>4. QED
    BY <2>1, <2>2, <2>3, <1>1
<1>12. QED
  BY <1>1, <1>2, <1>3, <1>7, <1>10, <1>11, FiveFiles

LEMMA ExportFileFits ==
  ASSUME ClassifyIInv, ExportFile
  PROVE  ClassifyIInv'
<1>1. /\ classifyAt.step = "export" /\ Written(TRUE)
      /\ UNCHANGED <<sourceRows, cleaner, loadedRows, cleanedRows, classified, lastEnd>>
      /\ IF classifyAt.next = Len(File) THEN AtStep("end") ELSE classifyAt' = [classifyAt EXCEPT !.next = @ + 1]
  BY DEF ExportFile
<1>2. PICK n \in 1 .. 5 : n = classifyAt.next
  BY <1>1, FileWritten
<1>3. /\ exported' \in [DOMAIN File -> [run : 0 .. MaxClassifyRuns, whole : BOOLEAN]]
      /\ exported'[n] = [run |-> classifyAt.run, whole |-> TRUE]
      /\ \A f \in 1 .. 5 : f # n => exported'[f] = exported[f]
      /\ \A f \in 1 .. 5 : exported'[f].run <= classifyAt.run
      /\ \A f, g \in 1 .. 5 : f < g =>
           exported'[g].run <= exported'[f].run /\ (~exported'[f].whole => exported'[g].run < exported'[f].run)
  BY <1>1, <1>2, FileWritten
<1>4. \A f \in 1 .. 5 : IF f < n THEN OfThisRun(f) ELSE exported[f].run < classifyAt.run
  BY <1>1, <1>2, FiveFiles DEF ClassifyIInv, FilesFit
<1>5. classifyAt \in ClassifyPlace
  BY DEF ClassifyIInv, ClassifyTypes
<1>6. /\ classifyAt' \in ClassifyPlace /\ classifyAt'.run = classifyAt.run
      /\ \/ n = 5 /\ classifyAt'.step = "end"
         \/ n < 5 /\ classifyAt'.step = "export" /\ classifyAt'.next = n + 1
  <2>1. CASE n = 5
    <3>1. AtStep("end")
      BY <2>1, <1>1, <1>2, FiveFiles
    <3>2. QED
      BY <2>1, <3>1, StepTaken DEF ClassifyIInv, RunStep
  <2>2. CASE n < 5
    <3>1. classifyAt' = [classifyAt EXCEPT !.next = n + 1]
      BY <2>2, <1>1, <1>2, FiveFiles
    <3>2. n + 1 \in Nat \ {0}
      OBVIOUS
    <3>3. QED
      BY <2>2, <3>1, <3>2, <1>1, <1>5 DEF ClassifyPlace
  <2>3. QED
    BY <2>1, <2>2
<1>7. ClassifyTypes'
  BY <1>1, <1>3, <1>6 DEF ClassifyIInv, ClassifyTypes
<1>8. KeptRows' = KeptRows /\ LookedAt' = LookedAt
  <2>1. LookedAt' \subseteq LookedAt /\ LookedAt \subseteq LookedAt'
    BY <1>1, <1>6 DEF LookedAt
  <2>2. QED
    BY <2>1, <1>1 DEF KeptRows
<1>9. KeptFit'
  BY <1>1, <1>6, <1>8 DEF ClassifyIInv, KeptFit, Words
<1>10. MemoryFits' /\ AllClassified'
  BY <1>1, <1>6 DEF ClassifyIInv, MemoryFits, AllClassified
<1>11. \A f \in 1 .. 5 : f < n \/ f = n => exported'[f] = [run |-> classifyAt.run, whole |-> TRUE]
  BY <1>3, <1>4 DEF OfThisRun
<1>12. \A f \in 1 .. 5 : n < f => exported'[f].run < classifyAt.run
  BY <1>3, <1>4
<1>13. FilesFit'
  <2>1. CASE n = 5 /\ classifyAt'.step = "end"
    <3>1. \A f \in 1 .. 5 : f < n \/ f = n
      BY <2>1
    <3>2. QED
      BY <2>1, <3>1, <1>3, <1>6, <1>11, FiveFiles DEF FilesFit, FilesOfOneRun, OfThisRun
  <2>2. CASE n < 5 /\ classifyAt'.step = "export" /\ classifyAt'.next = n + 1
    <3>1. n + 1 \in 1 .. 5 /\ \A f \in 1 .. 5 : IF f < n + 1 THEN f < n \/ f = n ELSE n < f
      BY <2>2
    <3>2. QED
      BY <2>2, <3>1, <1>3, <1>6, <1>11, <1>12, FiveFiles DEF FilesFit, FilesOfOneRun, OfThisRun
  <2>3. QED
    BY <2>1, <2>2, <1>6
<1>14. QED
  BY <1>7, <1>9, <1>10, <1>13 DEF ClassifyIInv

(* A run that is broken off, with a file half written or not.              *)
LEMMA BrokenOff ==
  ASSUME ClassifyIInv, cleaner' \in MemoryRecord, AtStep("rest"), lastEnd' \in {"failed", "killed"},
         loadedRows' = {}, cleanedRows' = <<>>, classified' = <<>>, sourceRows' = sourceRows,
         (classifyAt.step = "export" /\ Written(FALSE)) \/ exported' = exported
  PROVE  ClassifyIInv'
<1>1. /\ classifyAt' \in ClassifyPlace /\ classifyAt'.step = "rest" /\ classifyAt'.run = classifyAt.run
      /\ classifyAt'.next = 1
  BY StepTaken DEF ClassifyIInv, RunStep
<1>2. KeptFit' /\ MemoryFits' /\ AllClassified'
  BY <1>1, RunOver
<1>3. CASE classifyAt.step = "export" /\ Written(FALSE)
  <2>1. /\ exported' \in [DOMAIN File -> [run : 0 .. MaxClassifyRuns, whole : BOOLEAN]]
        /\ \A f \in 1 .. 5 : exported'[f].run <= classifyAt.run
        /\ \A f, g \in 1 .. 5 : f < g =>
             exported'[g].run <= exported'[f].run /\ (~exported'[f].whole => exported'[g].run < exported'[f].run)
    BY <1>3, FileWritten
  <2>2. ClassifyTypes'
    <3>1. <<>> \in Seq(DOMAIN sourceRows) /\ <<>> \in Seq([row : DOMAIN sourceRows, failed : BOOLEAN])
      OBVIOUS
    <3>2. lastEnd' \in {"none", "success", "failed", "killed"}
      OBVIOUS
    <3>3. sourceRows \in Seq(Row) /\ Len(sourceRows) <= MaxSource
      BY DEF ClassifyIInv, ClassifyTypes
    <3>4. QED
      BY <1>1, <2>1, <3>1, <3>2, <3>3 DEF ClassifyTypes
  <2>3. FilesFit'
    BY <1>1, <2>1, FiveFiles DEF FilesFit, FilesOfOneRun
  <2>4. QED
    BY <1>2, <2>2, <2>3 DEF ClassifyIInv
<1>4. CASE exported' = exported
  <2>1. ClassifyTypes'
    BY <1>1, <1>4 DEF ClassifyIInv, ClassifyTypes
  <2>2. FilesFit'
    BY <1>1, <1>4 DEF ClassifyIInv, FilesFit, FilesOfOneRun
  <2>3. QED
    BY <1>2, <2>1, <2>2 DEF ClassifyIInv
<1>5. QED
  BY <1>3, <1>4

LEMMA EndRunFits ==
  ASSUME ClassifyIInv, EndRun
  PROVE  ClassifyIInv'
<1>1. /\ classifyAt' \in ClassifyPlace /\ classifyAt'.step = "rest" /\ classifyAt'.run = classifyAt.run
      /\ classifyAt'.next = 1
  BY StepTaken DEF ClassifyIInv, EndRun, RunStep
<1>2. ClassifyTypes'
  BY <1>1 DEF ClassifyIInv, ClassifyTypes, EndRun
<1>3. KeptFit' /\ MemoryFits' /\ AllClassified'
  BY <1>1, RunOver DEF EndRun
<1>4. FilesFit'
  BY <1>1 DEF ClassifyIInv, FilesFit, FilesOfOneRun, OfThisRun, EndRun
<1>5. QED
  BY <1>2, <1>3, <1>4 DEF ClassifyIInv

LEMMA ClassifyStep == ClassifyIInv /\ [ClassifyNext]_classifyVars => ClassifyIInv'
<1> SUFFICES ASSUME ClassifyIInv, [ClassifyNext]_classifyVars PROVE ClassifyIInv'
  OBVIOUS
<1>1. CASE \E fresh \in BOOLEAN : StartRun(fresh)
  BY <1>1, StartRunFits
<1>2. CASE LoadSource
  BY <1>2, LoadSourceFits
<1>3. CASE CleanNothing
  BY <1>3, CleanNothingFits
<1>4. CASE CleanMessage
  BY <1>4, CleanMessageFits
<1>5. CASE ClassifyMessages
  BY <1>5, ClassifyMessagesFit
<1>6. CASE ExportFile
  BY <1>6, ExportFileFits
<1>7. CASE FailExport
  BY <1>7, BrokenOff DEF FailExport, FailRun, ClassifyIInv, ClassifyTypes
<1>8. CASE EndRun
  BY <1>8, EndRunFits
<1>9. CASE KillRun
  BY <1>9, BrokenOff, NoMemoryFits DEF KillRun
<1>10. CASE UNCHANGED classifyVars
  BY <1>10
  DEF classifyVars, ClassifyIInv, ClassifyTypes, KeptFit, MemoryFits, AllClassified, FilesFit, FilesOfOneRun,
      OfThisRun, KeptRows, LookedAt, Memory, Words
<1>11. QED
  BY <1>1, <1>2, <1>3, <1>4, <1>5, <1>6, <1>7, <1>8, <1>9, <1>10 DEF ClassifyNext

(* Through every run of the classification pipeline, every one that fails  *)
(* and every kill: what a resident said is kept once and reaches the files *)
(* (clean_messages, classify_messages), and the files are those of one run *)
(* with those of earlier runs behind (run_full_pipeline).                  *)
THEOREM WhatWasSaidIsKept == ClassifySpec => []ClassifyInv
<1>1. ClassifyIInv /\ [ClassifyNext]_classifyVars => ClassifyIInv'
  BY ClassifyStep
<1>2. QED
  BY <1>1, ClassifyStart, ClassifyImplied, PTL DEF ClassifySpec

-----------------------------------------------------------------------------
(* The composition                                                         *)

(* The inductive invariants of the programs hold together, and what a step *)
(* of the composition is for each of them.                                 *)
ServicesIInv ==
  /\ TicketsIInv /\ BrowserIInv /\ BotIInv /\ LlmIInv /\ BudgetIInv /\ ScheduleIInv /\ SectionsIInv
  /\ CacheIInv /\ StatesIInv /\ ServiceIInv /\ UsersIInv /\ PollIInv /\ FilesIInv
  /\ DiscoveryIInv /\ RulesIInv /\ ClassifyIInv

LEMMA ServicesStart == ServicesInit => ServicesIInv
<1>1. ServicesInit =>
        /\ TicketsInit /\ BrowserInit /\ BotInit /\ LlmInit /\ BudgetInit /\ ScheduleInit /\ SectionsInit
        /\ CacheInit /\ StatesInit /\ MatchInit /\ UsersInit /\ PollInit /\ FilesInit
        /\ DiscoveryInit /\ RulesInit /\ ClassifyInit
  BY DEF ServicesInit
<1>2. QED
  BY <1>1, TicketsBase, BrowserBase, BotStart, LlmStart, BudgetStart, ScheduleStart, SectionsStart,
     CacheStart, StatesStart, ServiceStart, UsersStart, PollStart, FilesStart,
     DiscoveryStart, RulesStart, ClassifyStart, Zenon DEF ServicesIInv

LEMMA EachServiceSteps ==
  [ServicesNext]_servicesVars =>
    /\ [TicketsNext]_ticketVars /\ [BrowserNext]_browserVars /\ [BotNext]_botVars /\ [LlmNext]_llmVars
    /\ [BudgetNext]_budgetVars /\ [ScheduleNext]_scheduleVars /\ [SectionsNext]_sectionsVars
    /\ [CacheNext]_cacheVars /\ [StatesNext]_stateVars /\ [MatchNext]_matchVars /\ [UsersNext]_usersVars
    /\ [PollNext]_pollVars /\ [FilesNext]_filesVars /\ [DiscoveryNext]_discoveryVars
    /\ [RulesNext]_surveyed /\ [ClassifyNext]_classifyVars
BY DEF ServicesNext, servicesVars

LEMMA ServicesStep ==
  ASSUME Doubles, ServicesIInv, [ServicesNext]_servicesVars
  PROVE  ServicesIInv'
<1>1. PowersOfTwo
  BY PowersGrow
<1>2. TicketsIInv' /\ BrowserIInv' /\ BotIInv' /\ LlmIInv' /\ BudgetIInv'
  BY EachServiceSteps, TicketsStep, BrowserStep, BotInvStep, LlmStep, BudgetStep DEF ServicesIInv
<1>3. ScheduleIInv' /\ SectionsIInv' /\ CacheIInv' /\ StatesIInv' /\ ServiceIInv'
  BY <1>1, EachServiceSteps, ScheduleStep, SectionsStep, CacheStep, StatesStep, ServiceStep DEF ServicesIInv
<1>4. UsersIInv' /\ PollIInv' /\ FilesIInv'
  BY EachServiceSteps, UsersStep, PollStep, FilesStep DEF ServicesIInv
<1>5. DiscoveryIInv' /\ RulesIInv' /\ ClassifyIInv'
  BY EachServiceSteps, DiscoveryStep, RulesStep, ClassifyStep DEF ServicesIInv
<1>6. QED
  BY <1>2, <1>3, <1>4, <1>5 DEF ServicesIInv

(* The programs around the runs, as the instance composes them, keep the   *)
(* invariants of each: none reads or writes what is another's.             *)
THEOREM ServicesSound ==
  ASSUME Doubles, 2 ^ (AssessAttempts - 1) + 2 ^ (SelectAttempts - 1) - 2 < LambdaTimeout
  PROVE  ServicesSpec =>
           []( /\ TicketsInv /\ BrowserInv /\ BotInv /\ ClientsInv /\ ScheduleInv /\ SectionsInv
               /\ PartitionInv /\ StatesInv /\ ServiceInv /\ UsersInv /\ PollInv
               /\ FilesInv /\ DiscoveryInv /\ RulesInv /\ ClassifyInv)
<1>1. ServicesIInv /\ [ServicesNext]_servicesVars => ServicesIInv'
  BY ServicesStep
<1>2. ASSUME ServicesIInv
      PROVE  /\ TicketsInv /\ BrowserInv /\ BotInv /\ ClientsInv /\ ScheduleInv /\ SectionsInv
             /\ PartitionInv /\ StatesInv /\ ServiceInv /\ UsersInv /\ PollInv
             /\ FilesInv /\ DiscoveryInv /\ RulesInv /\ ClassifyInv
  <2>1. TicketsInv /\ BrowserInv /\ BotInv
    BY <1>2, TicketsImplied, BrowserImplied, BotImplied DEF ServicesIInv
  <2>2. ClientsInv
    BY <1>2, LlmImplied DEF ServicesIInv, BudgetIInv, SentInRange, ClientsInv
  <2>3. ScheduleInv /\ SectionsInv /\ PartitionInv
    BY <1>2, ScheduleImplied, CacheImplied DEF ServicesIInv, SectionsIInv
  <2>4. StatesInv /\ ServiceInv
    BY <1>2, PowersGrow, StatesImplied, ServiceImplied DEF ServicesIInv
  <2>5. UsersInv /\ PollInv /\ FilesInv
    BY <1>2, UsersImplied, PollImplied, FilesImplied DEF ServicesIInv
  <2>6. DiscoveryInv /\ RulesInv /\ ClassifyInv
    BY <1>2, DiscoveryImplied, RulesImplied, ClassifyImplied DEF ServicesIInv
  <2>7. QED
    BY <2>1, <2>2, <2>3, <2>4, <2>5, <2>6
<1>3. QED
  BY <1>1, <1>2, ServicesStart, PTL DEF ServicesSpec

(* A survey comes out whole in each of the programs it goes through: the   *)
(* discovery pipeline and its files, the rules of the issues and the       *)
(* classification pipeline (serve/hierarchical_discovery, serve/classify). *)
THEOREM SurveyIsWhole == ServicesSpec => []SurveyInv
<1> DEFINE Four == FilesIInv /\ DiscoveryIInv /\ RulesIInv /\ ClassifyIInv
<1>1. ServicesInit => Four
  BY ServicesStart DEF ServicesIInv
<1>2. Four /\ [ServicesNext]_servicesVars => Four'
  BY EachServiceSteps, FilesStep, DiscoveryStep, RulesStep, ClassifyStep
<1>3. Four => SurveyInv
  <2>1. Four => FilesInv /\ DiscoveryInv /\ RulesInv /\ ClassifyInv
    BY FilesImplied, DiscoveryImplied, RulesImplied, ClassifyImplied
  <2>2. QED
    BY <2>1, Zenon DEF SurveyInv
<1>4. QED
  BY <1>1, <1>2, <1>3, PTL DEF ServicesSpec

(* What no step of a program may undo: a browser that shuts down admits    *)
(* nobody, a search keeps the partition it found, and a whole file stays.  *)
THEOREM ServicesGoForward == ServicesSpec => ServicesForward
<1> DEFINE Three == BrowserIInv /\ CacheIInv /\ StatesIInv
<1>1. ServicesInit => Three
  BY ServicesStart DEF ServicesIInv
<1>2. Three /\ [ServicesNext]_servicesVars => Three'
  BY EachServiceSteps, BrowserStep, CacheStep, StatesStep
<1>3. Three /\ [ServicesNext]_servicesVars =>
        [Closing => \A f \in FetchRequest : fetches'[f].at = "render" => fetches[f].at = "render"]_browserVars
  BY EachServiceSteps, NoneAdmittedStep DEF BrowserIInv
<1>4. Three /\ [ServicesNext]_servicesVars =>
        [found.rows # {} /\ MaxCacheSize > 1 => Cached(indices', found.key)]_cacheVars
  BY EachServiceSteps, SearchStep DEF CacheNext
<1>5. Three /\ [ServicesNext]_servicesVars =>
        [\A s \in GoldState : outputs[s].parquet = "whole" =>
           outputs'[s].rows = outputs[s].rows /\ outputs'[s].parquet = "whole"]_stateVars
  BY EachServiceSteps, FileStep
<1>6. QED
  BY <1>1, <1>2, <1>3, <1>4, <1>5, PTL DEF ServicesSpec, ServicesForward, NoneAdmitted, RecentKept, FileFinal
=============================================================================
