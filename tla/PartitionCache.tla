--------------------------- MODULE PartitionCache ---------------------------
(***************************************************************************)
(* The partitions of the DDHQ results that a HubSpot candidate is searched *)
(* in (hubspot_ddhq_match/parallel_production_matcher.py): which partition *)
(* a candidate gets, what it holds, and the cache of those built last,     *)
(* kept in two ordered dictionaries and one set.                           *)
(***************************************************************************)
EXTENDS Integers, Sequences, FiniteSets

CONSTANTS
  Day,            \* the dates, numbered
  State,          \* the states
  MaxCacheSize,   \* MAX_CACHE_SIZE
  MaxDdhq         \* bound on the rows of the DDHQ file

ASSUME CacheAssumption == Day \subseteq Nat /\ MaxCacheSize \in Nat \ {0} /\ MaxDdhq \in Nat

VARIABLES
  ddhq,       \* the DDHQ rows
  indices,    \* faiss_indices: entries, the least recently used first
  records,    \* partition_records, likewise
  empty,      \* empty_partitions
  found       \* the last search: the candidate and the rows it was searched in

cacheVars == <<ddhq, indices, records, empty, found>>

ElectionType == {"primary", "general", "runoff"}
DdhqRow == [date : Day, state : State, type : ElectionType]

Missing == 0          \* a date that is not there
NoState == "missing"

(* A candidate: the date of its election, those of the general election    *)
(* and of the primary it belongs to.                                       *)
Candidate == [date : Day \cup {Missing}, general : Day \cup {Missing},
              primary : Day \cup {Missing}, state : State \cup {NoState}, type : ElectionType]

NoKey == [kind |-> "none", date |-> Missing, state |-> NoState, type |-> "runoff"]
Entry == [key : [kind : {"standard", "range", "stateless"}, date : Day,
                 state : State \cup {NoState}, type : ElectionType],
          rows : SUBSET DdhqRow]

CacheTypeOK ==
  /\ ddhq \in SUBSET DdhqRow
  /\ indices \in Seq(Entry) /\ records \in Seq(Entry)
  /\ empty \in SUBSET [kind : {"standard"}, date : Day, state : State, type : ElectionType]

DdhqFiles == {{}} \cup {{r} : r \in DdhqRow} \cup {{q, r} : q, r \in DdhqRow}
                \cup {{p, q, r} : p, q, r \in DdhqRow}

CacheInit ==
  /\ ddhq \in {f \in DdhqFiles : Cardinality(f) <= MaxDdhq}
  /\ indices = <<>> /\ records = <<>> /\ empty = {}
  /\ found = [key |-> NoKey, rows |-> {}]

-----------------------------------------------------------------------------
(* The partition a candidate is searched in; NoKey: none, for want of a    *)
(* date or, in a runoff, of a state.                                       *)
KeyOf(c) ==
  LET base == IF c.general # Missing THEN c.general
              ELSE IF c.primary # Missing THEN c.primary ELSE c.date
  IN  CASE c.type = "runoff" /\ c.state # NoState /\ base # Missing ->
             [kind |-> "range", date |-> base, state |-> c.state, type |-> "runoff"]
        [] c.type # "runoff" /\ c.date # Missing ->
             [kind |-> IF c.state = NoState THEN "stateless" ELSE "standard",
              date |-> c.date, state |-> c.state, type |-> c.type]
        [] OTHER -> NoKey

(* The kinds of election a runoff can follow: what was held on the base    *)
(* date, a general election before a primary, and runoffs.                 *)
ValidTypes(k) ==
  LET held == {r.type : r \in {x \in ddhq : x.date = k.date /\ x.state = k.state}}
  IN  IF "general" \in held THEN {"general", "runoff"}
      ELSE IF "primary" \in held THEN {"primary", "runoff"}
      ELSE ElectionType

PartitionRows(k) ==
  {r \in ddhq :
     \/ k.kind = "standard" /\ r.date = k.date /\ r.state = k.state /\ r.type = k.type
     \/ k.kind = "stateless" /\ r.date = k.date /\ r.type = k.type
     \/ k.kind = "range" /\ r.date >= k.date /\ r.state = k.state /\ r.type \in ValidTypes(k)}

-----------------------------------------------------------------------------
(* The ordered dictionaries                                                *)

Cached(cache, k) == \E i \in DOMAIN cache : cache[i].key = k
PlaceOf(cache, k) == CHOOSE i \in DOMAIN cache : cache[i].key = k
EntryAt(cache, k) == cache[PlaceOf(cache, k)]
MoveToEnd(cache, k) ==
  [i \in DOMAIN cache |-> IF i < PlaceOf(cache, k) THEN cache[i]
                          ELSE IF i < Len(cache) THEN cache[i + 1] ELSE EntryAt(cache, k)]
Evict(cache) == IF Len(cache) > MaxCacheSize THEN Tail(cache) ELSE cache

NoPartition(k) ==
  found' = [key |-> k, rows |-> {}] /\ UNCHANGED <<indices, records>>

(* Variant for the mutation run: the entry at the end is taken for the one *)
(* that was moved there.                                                   *)
UseEnd(k) ==
  /\ indices' = MoveToEnd(indices, k) /\ records' = MoveToEnd(records, k)
  /\ found' = [key |-> k, rows |-> records[Len(records)].rows]
  /\ UNCHANGED empty

(* Variant: a hit leaves the order alone.                                  *)
UseInPlace(k) ==
  /\ UNCHANGED <<indices, records, empty>>
  /\ found' = [key |-> k, rows |-> EntryAt(records, k).rows]

(* Variant: only the indices know what was used last.                      *)
UseOne(k) ==
  /\ indices' = MoveToEnd(indices, k) /\ UNCHANGED records
  /\ found' = [key |-> k, rows |-> EntryAt(records, k).rows]
  /\ UNCHANGED empty

(* A hit moves the partition to the end of both dictionaries.              *)
Use(k) ==
  /\ indices' = MoveToEnd(indices, k) /\ records' = MoveToEnd(records, k)
  /\ found' = [key |-> k, rows |-> EntryAt(records, k).rows]
  /\ UNCHANGED empty

(* Only standard partitions are remembered as empty.                       *)
KnownEmpty(k) == k \in empty

(* Variant: any partition is remembered as empty.                          *)
BuildRemembers(k) ==
  IF PartitionRows(k) = {}
  THEN NoPartition(k) /\ empty' = empty \cup {k}
  ELSE /\ indices' = Evict(Append(indices, [key |-> k, rows |-> PartitionRows(k)]))
       /\ records' = Evict(Append(records, [key |-> k, rows |-> PartitionRows(k)]))
       /\ found' = [key |-> k, rows |-> PartitionRows(k)] /\ UNCHANGED empty

(* A partition is filtered out of the file; one too many, and the least    *)
(* recently used goes.                                                     *)
Build(k) ==
  IF PartitionRows(k) = {}
  THEN NoPartition(k) /\ empty' = IF k.kind = "standard" THEN empty \cup {k} ELSE empty
  ELSE /\ indices' = Evict(Append(indices, [key |-> k, rows |-> PartitionRows(k)]))
       /\ records' = Evict(Append(records, [key |-> k, rows |-> PartitionRows(k)]))
       /\ found' = [key |-> k, rows |-> PartitionRows(k)] /\ UNCHANGED empty

(* What a candidate is searched in depends on its key only.                *)
Keys == {KeyOf(c) : c \in Candidate}

SearchPartition(k) ==
  /\ IF k = NoKey \/ KnownEmpty(k) THEN NoPartition(k) /\ UNCHANGED empty
     ELSE IF Cached(indices, k) THEN Use(k) ELSE Build(k)
  /\ UNCHANGED ddhq

CacheNext == \E k \in Keys : SearchPartition(k)

CacheSpec == CacheInit /\ [][CacheNext]_cacheVars

-----------------------------------------------------------------------------
(* Properties                                                              *)

(* The two dictionaries, changed one after the other by a hit, a build and *)
(* an eviction, always hold the same partitions in the same order, each    *)
(* once and at most MaxCacheSize of them: popitem on one never drops       *)
(* another partition than popitem on the other.                            *)
CacheLockstep ==
  /\ indices = records /\ Len(indices) <= MaxCacheSize
  /\ \A i, j \in DOMAIN indices : indices[i].key = indices[j].key => i = j

(* Whatever was cached, evicted or found empty before, a candidate is      *)
(* searched in the rows of its own partition.                              *)
FoundRight == found.rows = PartitionRows(found.key)

(* The partition searched last is not the one that goes, be it old: with   *)
(* room for two or more, it is there for the next candidate.               *)
RecentKept ==
  [][found.rows # {} /\ MaxCacheSize > 1 => Cached(indices', found.key)]_cacheVars

(* A search works on the rows of its own partition, whatever is evicted.   *)
PartitionInv == CacheTypeOK /\ CacheLockstep /\ FoundRight
=============================================================================
