--------------------------- MODULE MessageDiscovery ---------------------------
(***************************************************************************)
(* One run of the hierarchical discovery pipeline over the messages of a   *)
(* poll (serve/hierarchical_discovery): messages are filtered, split into  *)
(* atomic messages by a model, embedded, clustered, analysed by a model,   *)
(* merged as another answer of the model says, and put out with their      *)
(* cluster.  Every stage catches failures of its own, and the ones after   *)
(* it work on what is left; messages that take no part in the clustering   *)
(* travel beside the others, in cluster -1.                                *)
(*                                                                         *)
(* A message is its class, an atomic message its place in it; vectors are  *)
(* left out, so the labels of the clustering are any partition into k.     *)
(***************************************************************************)
EXTENDS Integers, FiniteSets, Sequences, SequencesExt

CONSTANTS
  RawMessage,   \* the rows of the input
  MaxParts,     \* atomic messages of one row
  MaxAtoms,     \* bound: atomic messages of a run
  MaxGroups     \* bound: groups of an answer of the merger's model

ASSUME DiscoveryAssumption ==
  IsFiniteSet(RawMessage) /\ {MaxParts, MaxAtoms, MaxGroups} \subseteq Nat \ {0}

VARIABLES
  rawKind,     \* how the filter sees each row
  discovery,   \* the stage of the run, and the k it chose
  atoms,       \* the atomic messages that are embedded or passed through
  label,       \* the cluster of each clustered message, as the engine said
  clusterOf,   \* its cluster_id now
  mentions,    \* total_mentions of the theme of each cluster that has one
  groups,      \* the merge groups of the model
  analyses,    \* what the analyzer returns: size, mentions and origin
  placed       \* the cluster of each message of the output

discoveryVars == <<rawKind, discovery, atoms, label, clusterOf, mentions, groups, analyses, placed>>

Apart == -1       \* the cluster of messages that are not clustered
Unknown == 99     \* a cluster id that the model made up
Unplaced == -2    \* a message of the output without a cluster

(* No text, text that passes the filter, or text that is dropped: opt-outs,  *)
(* reactions, links, one word.                                             *)
Kind == {"absent", "plain", "dropped"}
Atom == RawMessage \X (1 .. MaxParts)

DiscoveryInit ==
  /\ rawKind \in [RawMessage -> Kind]
  /\ discovery = [at |-> "load", k |-> 0]
  /\ atoms = {} /\ label = <<>> /\ clusterOf = <<>> /\ mentions = <<>>
  /\ groups = <<>> /\ analyses = <<>> /\ placed = <<>>

DiscoveryAt(a) == discovery' = [discovery EXCEPT !.at = a]

-----------------------------------------------------------------------------
(* Rows and atomic messages                                                *)

LoadRows ==
  /\ discovery.at = "load"
  /\ DiscoveryAt(IF \A m \in RawMessage : rawKind[m] = "absent" THEN "failed" ELSE "split")
  /\ UNCHANGED <<rawKind, atoms, label, clusterOf, mentions, groups, analyses, placed>>

(* filter_message: a row that gives no reason to drop it.                  *)
Passed(m) == rawKind[m] = "plain"

(* process_message_async: a row that did not pass goes through as one      *)
(* piece, any other becomes a piece for each text of the answer, or none   *)
(* if there is no answer.                                                  *)
PartsOf(m) ==
  IF rawKind[m] = "absent" THEN {0} ELSE IF Passed(m) THEN 0 .. MaxParts ELSE {1}

(* Without AI only the rows that passed become messages; an exception of   *)
(* the stage ends the run.                                                 *)
SplitRows ==
  /\ discovery.at = "split"
  /\ \/ DiscoveryAt("failed") /\ UNCHANGED atoms
     \/ \E n \in [RawMessage -> 0 .. MaxParts] :
          /\ (\A m \in RawMessage : n[m] \in PartsOf(m)) \/
             (\A m \in RawMessage : n[m] = IF Passed(m) THEN 1 ELSE 0)
          /\ atoms' = {a \in Atom : a[2] <= n[a[1]]}
          /\ Cardinality(atoms') <= MaxAtoms
          /\ DiscoveryAt(IF atoms' = {} THEN "done" ELSE "embed")
  /\ UNCHANGED <<rawKind, label, clusterOf, mentions, groups, analyses, placed>>

(* A message that was filtered has no embedding and never gets one; all    *)
(* others do, if only of zeros.                                            *)
Substantive == {a \in atoms : Passed(a[1])}

EmbedMessages ==
  /\ discovery.at = "embed"
  /\ \/ DiscoveryAt("failed")
     \/ DiscoveryAt(IF Cardinality(atoms) = 1 THEN "single" ELSE "select")
  /\ UNCHANGED <<rawKind, atoms, label, clusterOf, mentions, groups, analyses, placed>>

(* A single message is analysed by itself, whatever it is; a failure gives *)
(* a theme that says so.                                                   *)
AnalyzeSingle ==
  /\ discovery.at = "single"
  /\ placed' = [a \in atoms |-> 0] /\ DiscoveryAt("export")
  /\ UNCHANGED <<rawKind, atoms, label, clusterOf, mentions, groups, analyses>>

-----------------------------------------------------------------------------
(* Clusters                                                                *)

FallbackK(n) == LET tenth == n \div 10 IN
  IF tenth < 5 THEN 5 ELSE IF tenth > 15 THEN 15 ELSE tenth

Lesser(a, b) == IF a < b THEN a ELSE b

(* The range of k that is tried, up to the sizes checked here.             *)
TriedK(n) == IF n < 4 THEN {IF n = 1 THEN 1 ELSE 2}
             ELSE IF n < 15 THEN 2 .. Lesser(n - 1, 8)
             ELSE IF n < 50 THEN 3 .. Lesser(n \div 2, 15) ELSE 5 .. Lesser(n - 1, 50)

(* No message to cluster: all are put out as they are.  The fallback       *)
(* replaces a search that found nothing or failed, be it in its charts.    *)
SelectK ==
  LET n == Cardinality(Substantive) IN
  /\ discovery.at = "select"
  /\ IF n = 0
     THEN placed' = [a \in atoms |-> Unplaced] /\ DiscoveryAt("done")
     ELSE /\ \E k \in TriedK(n) \cup (IF n < 4 THEN {} ELSE {FallbackK(n)}) :
               discovery' = [at |-> "cluster", k |-> k]
          /\ UNCHANGED placed
  /\ UNCHANGED <<rawKind, atoms, label, clusterOf, mentions, groups, analyses>>

(* AgglomerativeClustering: k clusters, or an exception, be it for k > n,  *)
(* and then one cluster.                                                   *)
Labels(k) ==
  {[a \in Substantive |-> 0]} \cup
  {l \in [Substantive -> 0 .. k - 1] : k <= Cardinality(Substantive) /\ \A c \in 0 .. k - 1 : \E a \in Substantive : l[a] = c}

(* Variant for the mutation run: what is not clustered is left out.        *)
WithApartLost(l) == l

WithApart(l) == [a \in atoms |-> IF a \in Substantive THEN l[a] ELSE Apart]

ClusterRows ==
  /\ discovery.at = "cluster"
  /\ \E l \in Labels(discovery.k) : label' = WithApart(l) /\ clusterOf' = label'
  /\ DiscoveryAt("analyze")
  /\ UNCHANGED <<rawKind, atoms, mentions, groups, analyses, placed>>

Members(c) == {a \in DOMAIN clusterOf : clusterOf[a] = c}
Clusters == {clusterOf[a] : a \in DOMAIN clusterOf}

Analysis(c, n, from) == [size |-> Cardinality(Members(c)), mentions |-> n, from |-> from]

(* Every cluster is analysed by itself, -1 too; some have no answer.       *)
AnalyzeClusters ==
  /\ discovery.at = "analyze"
  /\ \E answered \in SUBSET Clusters :
       /\ mentions' = [c \in answered |-> Cardinality(Members(c))]
       /\ analyses' = [c \in answered |-> Analysis(c, Cardinality(Members(c)), "analysis")]
  /\ DiscoveryAt("merge")
  /\ UNCHANGED <<rawKind, atoms, label, clusterOf, groups, placed>>

-----------------------------------------------------------------------------
(* The merger                                                              *)

Known(g) == ToSet(g) \cap DOMAIN mentions

(* Variant: the first of a group is the target.                            *)
TargetFirst(g) == g[CHOOSE i \in DOMAIN g : g[i] \in Known(g) /\ \A j \in 1 .. i - 1 : g[j] \notin Known(g)]

(* The largest of the group, the first one of several.                     *)
TargetOf(g) ==
  g[CHOOSE i \in DOMAIN g : g[i] \in Known(g) /\ \A j \in DOMAIN g :
      g[j] \in Known(g) => \/ mentions[g[j]] < mentions[g[i]]
                           \/ mentions[g[j]] = mentions[g[i]] /\ i <= j]

Sources(g) == IF Len(g) > 1 /\ Known(g) # {} THEN ToSet(g) \ {TargetOf(g)} ELSE {}

(* merge_map: a later group overwrites what an earlier one said.           *)
MergeMap(gs) ==
  [c \in UNION {Sources(gs[i]) : i \in DOMAIN gs} |->
     TargetOf(gs[CHOOSE i \in DOMAIN gs : c \in Sources(gs[i]) /\ \A j \in DOMAIN gs : j > i => c \notin Sources(gs[j])])]

(* Variant: one step along the map.                                        *)
EndOfOne(map, c) == IF c \in DOMAIN map THEN map[c] ELSE c

(* Where the chain from c ends; a chain that is longer than the map never  *)
(* does.                                                                   *)
EndOf(map, c) ==
  LET n == Cardinality(DOMAIN map)
      step[i \in 0 .. n] == IF i = 0 THEN c
                            ELSE IF step[i - 1] \in DOMAIN map THEN map[step[i - 1]] ELSE step[i - 1]
  IN step[n]
Endless(map) == \E c \in Clusters : EndOf(map, c) \in DOMAIN map

(* The model is given the clusters that have a theme and vectors close to  *)
(* another's, and may name any cluster, or one that there is not.          *)
Groups == UNION {[1 .. n -> {g \in [1 .. 2 -> DOMAIN mentions \cup {Unknown}] : g[1] # g[2]}] : n \in 0 .. MaxGroups}

(* merge_similar_clusters up to _apply_merges: disabled, too few, none     *)
(* close, no answer, or groups.  Its loop may not end.                     *)
MergeClusters ==
  /\ discovery.at = "merge"
  /\ \/ DiscoveryAt("output") /\ UNCHANGED <<clusterOf, groups>>
     \/ /\ Cardinality(DOMAIN mentions \ {Apart}) >= 2
        /\ groups' \in Groups /\ DOMAIN MergeMap(groups') # {}
        /\ IF Endless(MergeMap(groups'))
           THEN DiscoveryAt("hung") /\ UNCHANGED clusterOf
           ELSE /\ DiscoveryAt("rebuild")
                /\ clusterOf' = [a \in DOMAIN clusterOf |-> EndOf(MergeMap(groups'), clusterOf[a])]
  /\ UNCHANGED <<rawKind, atoms, label, mentions, analyses, placed>>

(* _merge_cluster_themes: the first cluster of a target brings the numbers *)
(* of the target, every other one its own.                                 *)
Joins(t) == {c \in DOMAIN mentions : EndOf(MergeMap(groups), c) = t}
MergedMentions(t) ==
  LET first == CHOOSE c \in Joins(t) : \A d \in Joins(t) : c <= d
  IN mentions[t] + FoldSet(LAMBDA c, n : mentions[c] + n, 0, Joins(t) \ {first})

MergedInto == {clusterOf[a] : a \in {b \in DOMAIN clusterOf : clusterOf[b] # label[b]}}

(* Variant: analyses of clusters that are gone are kept.                   *)
KeptAll == DOMAIN analyses \ MergedInto

Kept == (DOMAIN analyses \ MergedInto) \cap Clusters

(* An id without a theme is an error after the messages have moved, and    *)
(* leaves no analysis.  Else the clusters that grew are analysed again: an *)
(* answer, no answer, or an error and the merged numbers.                  *)
RebuildAnalyses ==
  /\ discovery.at = "rebuild"
  /\ DiscoveryAt("output")
  /\ IF ~(UNION {Sources(groups[i]) : i \in DOMAIN groups} \subseteq DOMAIN mentions)
     THEN analyses' = <<>>
     ELSE \E outcome \in [MergedInto -> {"analysis", "none", "merged"}] :
            analyses' = [c \in Kept \cup {d \in MergedInto : outcome[d] # "none"} |->
               IF c \notin MergedInto THEN analyses[c]
               ELSE Analysis(c, IF outcome[c] = "merged" THEN MergedMentions(c) ELSE Cardinality(Members(c)),
                             outcome[c])]
  /\ UNCHANGED <<rawKind, atoms, label, clusterOf, mentions, groups, placed>>

-----------------------------------------------------------------------------
(* The output                                                              *)

PlaceRows ==
  /\ discovery.at = "output"
  /\ placed' = [a \in atoms |-> IF a \in DOMAIN clusterOf THEN clusterOf[a] ELSE Unplaced]
  /\ DiscoveryAt("export")
  /\ UNCHANGED <<rawKind, atoms, label, clusterOf, mentions, groups, analyses>>

(* The data are returned, or written: the table and the report must be,    *)
(* the charts need not.                                                    *)
ExportRows ==
  /\ discovery.at = "export"
  /\ DiscoveryAt("done") \/ DiscoveryAt("failed")
  /\ UNCHANGED <<rawKind, atoms, label, clusterOf, mentions, groups, analyses, placed>>

DiscoveryNext ==
  \/ LoadRows \/ SplitRows \/ EmbedMessages \/ AnalyzeSingle \/ SelectK \/ ClusterRows
  \/ AnalyzeClusters \/ MergeClusters \/ RebuildAnalyses \/ PlaceRows \/ ExportRows

DiscoverySpec == DiscoveryInit /\ [][DiscoveryNext]_discoveryVars

-----------------------------------------------------------------------------
(* Properties                                                              *)

DiscoveryTypeOK ==
  /\ discovery.at \in {"load", "split", "embed", "single", "select", "cluster", "analyze",
                       "merge", "rebuild", "output", "export", "done", "failed", "hung"}
  /\ atoms \subseteq Atom
  /\ DOMAIN mentions \subseteq Int /\ \A c \in DOMAIN mentions : mentions[c] > 0

(* No message is lost between the filter and the output, whatever failed,  *)
(* and those that were filtered stay apart from those that have a cluster, *)
(* unless the model merges the cluster of the former.                      *)
OutputWhole ==
  discovery.at \in {"export", "done"} /\ placed # <<>> =>
    /\ DOMAIN placed = atoms
    /\ label # <<>> /\ (\A i \in DOMAIN groups : Apart \notin ToSet(groups[i])) =>
         \A a \in atoms : placed[a] = Apart <=> a \notin Substantive
    /\ label # <<>> => \A a \in atoms : placed[a] # Unplaced

(* A merge joins whole clusters and ends where nothing more is to merge;   *)
(* and only clusters that the groups of the model connect are joined.      *)
MergeSound ==
  discovery.at \in {"rebuild", "output"} =>
    \A a, b \in DOMAIN clusterOf :
      /\ label[a] = label[b] => clusterOf[a] = clusterOf[b]
      /\ clusterOf[a] \notin DOMAIN MergeMap(groups)
      /\ clusterOf[a] # label[a] => \E i \in DOMAIN groups : label[a] \in ToSet(groups[i])

(* The loop of the merger is endless only for groups that lead in a ring   *)
(* through clusters of one size, such as two groups that name the same two *)
(* in either order.                                                        *)
HangsOnTies ==
  discovery.at = "hung" =>
    \E tied \in SUBSET DOMAIN mentions :
      /\ tied # {} /\ \A c, d \in tied : mentions[c] = mentions[d]
      /\ \A c \in tied : \E i \in DOMAIN groups : c \in Sources(groups[i]) /\ TargetOf(groups[i]) \in tied

(* An analysis is of a cluster that has messages, and of all of them; its  *)
(* numbers are true unless a cluster that grew could not be analysed again.*)
AnalysesTrue ==
  discovery.at \in {"output", "export", "done"} =>
    \A c \in DOMAIN analyses :
      /\ Members(c) # {} /\ analyses[c].size = Cardinality(Members(c))
      /\ analyses[c].from = "analysis" => analyses[c].mentions = analyses[c].size

(* What a run of the discovery puts out is whole, and its merges and       *)
(* analyses agree with it.                                                 *)
DiscoveryInv ==
  DiscoveryTypeOK /\ OutputWhole /\ MergeSound /\ HangsOnTies /\ AnalysesTrue
=============================================================================
