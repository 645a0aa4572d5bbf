--------------------------- MODULE BrowserProofs ---------------------------
(***************************************************************************)
(* The safety of the broker's browser, for any number of requests and of   *)
(* permits.                                                                *)
(***************************************************************************)
EXTENDS BrowserPool, FiniteSetTheorems, SequenceTheorems, TLAPS

Busy == {f \in FetchRequest : fetches[f].at \in Inside}

(* What a fetch has agrees with where it is.                               *)
FetchInv(f) ==
  /\ fetches[f].at \in {"off", "wait", "render", "save", "body"} => fetches[f].result = "none"
  /\ fetches[f].result # "none" /\ fetches[f].blocked => fetches[f].late
  /\ f \in savedFiles =>
       \/ fetches[f].at = "save"
       \/ fetches[f].at \in {"context", "answer", "stream"} /\ fetches[f].result = "file"

Distinct(s) == \A i, j \in 1 .. Len(s) : s[i] = s[j] => i = j

(* Who is in line waits, once.                                             *)
LineInv ==
  /\ \A i \in 1 .. Len(line) : line[i] # Closer => fetches[line[i]].at = "wait"
  /\ Distinct(line)

(* Every permit is free, aclose's or a fetch's.                            *)
PermitInv ==
  /\ IsFiniteSet(Busy)
  /\ permits + closer.got + Cardinality(Busy) = MaxConcurrent

(* aclose goes on with all permits, or after it gave up; from then on      *)
(* nobody comes in.                                                        *)
CloserInv ==
  /\ closer.at = "close" /\ drained => closer.got = MaxConcurrent
  /\ closer.at = "closed" /\ drained => Busy = {}
  /\ closer.at = "drain" => closer.got < MaxConcurrent
  /\ closer.at = "off" => closer.got = 0

(* BrowserInv is not inductive: somebody in line could be inside already,  *)
(* and aclose could close with fewer permits than there are.               *)
BrowserIInv ==
  BrowserTypeOK /\ LineInv /\ PermitInv /\ CloserInv /\ \A f \in FetchRequest : FetchInv(f)

FetchState ==
  [at : {"off", "wait", "answer", "stream"} \cup Inside,
   blocked : BOOLEAN, late : BOOLEAN, result : {"none", "page", "file"}]
CloserState == [at : {"off", "drain", "close", "closed"}, got : 0 .. MaxConcurrent]

LEMMA BrowserImplied == BrowserIInv => BrowserInv
<1> SUFFICES ASSUME BrowserIInv PROVE BrowserInv
  OBVIOUS
<1>1. permits + closer.got + Cardinality({f \in FetchRequest : fetches[f].at \in Inside}) = MaxConcurrent
  BY DEF BrowserIInv, PermitInv, Busy
<1>2. closer.at = "closed" /\ drained => \A f \in FetchRequest : fetches[f].at \notin Inside
  BY DEF BrowserIInv, CloserInv, Busy
<1>3. FilesOwned
  BY DEF BrowserIInv, BrowserTypeOK, FetchInv, FilesOwned
<1>4. NothingBlockedAnswered
  BY DEF BrowserIInv, FetchInv, NothingBlockedAnswered
<1>5. QED
  BY <1>1, <1>2, <1>3, <1>4 DEF BrowserIInv, BrowserInv, BrowserShared

LEMMA FetchShapes ==
  /\ NoFetch \in FetchState
  /\ \A x \in FetchState :
       /\ \A a \in {"off", "wait", "answer", "stream"} \cup Inside : [x EXCEPT !.at = a] \in FetchState
       /\ \A r \in {"none", "page", "file"} : [x EXCEPT !.at = "context", !.result = r] \in FetchState
       /\ \A l \in BOOLEAN : [x EXCEPT !.blocked = TRUE, !.late = l] \in FetchState
BY DEF NoFetch, FetchState, Inside

LEMMA BrowserBase == BrowserInit => BrowserIInv
<1> SUFFICES ASSUME BrowserInit PROVE BrowserIInv
  OBVIOUS
<1>1. BrowserTypeOK
  <2>1. fetches \in [FetchRequest -> FetchState]
    BY FetchShapes DEF BrowserInit
  <2>2. QED
    BY <2>1, BrowserAssumption, EmptySeq DEF BrowserInit, BrowserTypeOK, FetchState
<1>2. Busy = {}
  BY DEF BrowserInit, Busy, NoFetch, Inside
<1>3. PermitInv /\ CloserInv
  BY <1>2, FS_EmptySet, BrowserAssumption DEF BrowserInit, PermitInv, CloserInv
<1>4. LineInv
  BY DEF BrowserInit, LineInv, Distinct
<1>5. \A f \in FetchRequest : FetchInv(f)
  BY DEF BrowserInit, FetchInv, NoFetch
<1>6. QED
  BY <1>1, <1>3, <1>4, <1>5 DEF BrowserIInv

-----------------------------------------------------------------------------
(* One fetch at a time                                                     *)

(* What a step does to the fetch it is of; the rest of the step is of the  *)
(* semaphore.                                                              *)
FetchStep(f) ==
  \/ ArriveFetch(f) \/ Admit(f) \/ BlockNavigation(f) \/ FailFetch(f) \/ StartSave(f) \/ StartBody(f)
  \/ Saved(f) \/ BodyRead(f) \/ LeaveContext(f) \/ AnswerFetch(f) \/ EndStream(f)

(* A fetch changes itself only, to a state it can be in.                   *)
LEMMA OneFetch ==
  ASSUME BrowserTypeOK, NEW f \in FetchRequest, FetchStep(f)
  PROVE  \E x \in FetchState : fetches' = [fetches EXCEPT ![f] = x]
<1> fetches[f] \in FetchState
  BY DEF BrowserTypeOK, FetchState
<1> USE FetchShapes DEF GoTo, Leave
<1>1. CASE ArriveFetch(f)
  BY <1>1 DEF ArriveFetch, Inside
<1>2. CASE Admit(f)
  BY <1>2 DEF Admit, Inside
<1>3. CASE BlockNavigation(f)
  <2>1. fetches' = [fetches EXCEPT ![f] = [fetches[f] EXCEPT !.blocked = TRUE, !.late = (fetches[f].at = "context")]]
    BY <1>3 DEF BlockNavigation
  <2>2. QED
    BY <2>1
<1>4. CASE FailFetch(f) \/ StartSave(f) \/ StartBody(f)
  BY <1>4 DEF FailFetch, StartSave, StartBody, Inside
<1>5. CASE Saved(f) \/ BodyRead(f)
  <2>1. \E r \in {"none", "page", "file"} :
          fetches' = [fetches EXCEPT ![f] = [fetches[f] EXCEPT !.at = "context", !.result = r]]
    BY <1>5 DEF Saved, BodyRead
  <2>2. QED
    BY <2>1
<1>6. CASE LeaveContext(f) \/ AnswerFetch(f) \/ EndStream(f)
  BY <1>6 DEF LeaveContext, AnswerFetch, EndStream
<1>7. QED
  BY <1>1, <1>2, <1>3, <1>4, <1>5, <1>6 DEF FetchStep

(* The files are those of before but for the fetch's own.                  *)
LEMMA OwnFile ==
  ASSUME BrowserTypeOK, NEW f \in FetchRequest, FetchStep(f)
  PROVE  savedFiles' \in SUBSET FetchRequest /\ savedFiles' \ {f} = savedFiles \ {f}
BY DEF BrowserTypeOK, FetchStep, ArriveFetch, Admit, BlockNavigation, FailFetch, StartSave, StartBody,
       Saved, BodyRead, LeaveContext, AnswerFetch, EndStream

(* The first in line waits.                                                *)
LEMMA Waits ==
  ASSUME BrowserTypeOK, LineInv, NEW f \in FetchRequest, Admit(f)
  PROVE  fetches[f].at = "wait" /\ line # <<>> /\ line[1] = f /\ Len(line) \in Nat \ {0}
<1>1. line # <<>> /\ Head(line) = f
  BY DEF Admit
<1>2. Len(line) \in Nat \ {0} /\ Head(line) = line[1]
  BY <1>1, EmptySeq DEF BrowserTypeOK
<1>3. f # Closer
  BY BrowserAssumption DEF Closer
<1>4. QED
  BY <1>1, <1>2, <1>3 DEF LineInv

LEMMA FetchInvStep ==
  ASSUME BrowserTypeOK, LineInv, NEW f \in FetchRequest, FetchStep(f), NEW g \in FetchRequest, FetchInv(g)
  PROVE  FetchInv(g)'
<1> USE DEF BrowserTypeOK, FetchInv, GoTo, Leave, Inside
<1>1. CASE g # f
  <2>1. fetches'[g] = fetches[g]
    BY <1>1, OneFetch
  <2>2. g \in savedFiles' <=> g \in savedFiles
    BY <1>1, OwnFile
  <2>3. QED
    BY <2>1, <2>2
<1>2. CASE g = f
  <2>1. CASE ArriveFetch(f)
    BY <1>2, <2>1 DEF ArriveFetch
  <2>2. CASE Admit(f)
    BY <1>2, <2>2, Waits DEF Admit, NoFetch
  <2>3. CASE BlockNavigation(f)
    BY <1>2, <2>3 DEF BlockNavigation
  <2>4. CASE FailFetch(f)
    BY <1>2, <2>4 DEF FailFetch
  <2>5. CASE StartSave(f)
    BY <1>2, <2>5 DEF StartSave
  <2>6. CASE StartBody(f)
    BY <1>2, <2>6 DEF StartBody
  <2>7. CASE Saved(f)
    BY <1>2, <2>7 DEF Saved
  <2>8. CASE BodyRead(f)
    BY <1>2, <2>8 DEF BodyRead
  <2>9. CASE LeaveContext(f)
    BY <1>2, <2>9 DEF LeaveContext, NoFetch
  <2>10. CASE AnswerFetch(f)
    BY <1>2, <2>10 DEF AnswerFetch, NoFetch
  <2>11. CASE EndStream(f)
    BY <1>2, <2>11 DEF EndStream, NoFetch
  <2>12. QED
    BY <2>1, <2>2, <2>3, <2>4, <2>5, <2>6, <2>7, <2>8, <2>9, <2>10, <2>11 DEF FetchStep
<1>3. QED
  BY <1>1, <1>2

-----------------------------------------------------------------------------
(* The permits                                                             *)

(* Who uses the browser after a step, and what the step leaves of the      *)
(* permits: a fetch comes in with a permit, goes on, or leaves it.         *)
LEMMA BusyStep ==
  ASSUME BrowserTypeOK, LineInv, NEW f \in FetchRequest, FetchStep(f)
  PROVE  /\ closer' = closer /\ drained' = drained
         /\ \/ Busy' = Busy /\ permits' = permits
            \/ ~Closing /\ f \notin Busy /\ permits > 0 /\ Busy' = Busy \cup {f} /\ permits' = permits - 1
            \/ f \in Busy /\ Busy' = Busy \ {f} /\ permits' = permits + 1
<1> USE DEF BrowserTypeOK, Busy, GoTo, Leave, Inside
<1>1. \A g \in FetchRequest \ {f} : fetches'[g] = fetches[g]
  BY OneFetch
<1>2. CASE ArriveFetch(f)
  BY <1>1, <1>2 DEF ArriveFetch
<1>3. CASE Admit(f)
  <2>1. fetches[f].at = "wait"
    BY <1>3, Waits
  <2>2. CASE Closing
    <3>1. fetches'[f].at = "off" /\ permits' = permits /\ closer' = closer /\ drained' = drained
      BY <1>3, <2>2 DEF Admit, NoFetch
    <3>2. QED
      BY <1>1, <2>1, <3>1
  <2>3. CASE ~Closing
    BY <1>1, <1>3, <2>1, <2>3 DEF Admit
  <2>4. QED
    BY <2>2, <2>3
<1>4. CASE BlockNavigation(f)
  BY <1>1, <1>4 DEF BlockNavigation
<1>5. CASE FailFetch(f)
  BY <1>1, <1>5 DEF FailFetch
<1>6. CASE StartSave(f)
  BY <1>1, <1>6 DEF StartSave
<1>7. CASE StartBody(f)
  BY <1>1, <1>7 DEF StartBody
<1>8. CASE Saved(f)
  <2>1. fetches[f].at = "save" /\ fetches'[f].at = "context"
    BY <1>8 DEF Saved
  <2>2. permits' = permits /\ closer' = closer /\ drained' = drained
    BY <1>8 DEF Saved
  <2>3. QED
    BY <1>1, <2>1, <2>2
<1>9. CASE BodyRead(f)
  BY <1>1, <1>9 DEF BodyRead
<1>10. CASE LeaveContext(f)
  BY <1>1, <1>10 DEF LeaveContext, NoFetch
<1>11. CASE AnswerFetch(f)
  <2>1. fetches[f].at = "answer" /\ fetches'[f].at \in {"stream", "off"}
    BY <1>11 DEF AnswerFetch, NoFetch
  <2>2. permits' = permits /\ closer' = closer /\ drained' = drained
    BY <1>11 DEF AnswerFetch
  <2>3. QED
    BY <1>1, <2>1, <2>2
<1>12. CASE EndStream(f)
  BY <1>1, <1>12 DEF EndStream, NoFetch
<1>13. QED
  BY <1>2, <1>3, <1>4, <1>5, <1>6, <1>7, <1>8, <1>9, <1>10, <1>11, <1>12 DEF FetchStep

(* The sum stays, and with it the bounds of its parts.                     *)
LEMMA FetchKeepsPermits ==
  ASSUME BrowserTypeOK, LineInv, PermitInv, CloserInv, NEW f \in FetchRequest, FetchStep(f)
  PROVE  PermitInv' /\ CloserInv' /\ permits' \in 0 .. MaxConcurrent
<1> USE BrowserAssumption DEF BrowserTypeOK, PermitInv, CloserInv
<1>1. Cardinality(Busy) \in Nat
  BY FS_CardinalityType
<1>2. closer' = closer /\ drained' = drained
  BY BusyStep
<1>3. CASE Busy' = Busy /\ permits' = permits
  BY <1>1, <1>2, <1>3
<1>4. CASE ~Closing /\ f \notin Busy /\ permits > 0 /\ Busy' = Busy \cup {f} /\ permits' = permits - 1
  <2>1. IsFiniteSet(Busy') /\ Cardinality(Busy') = Cardinality(Busy) + 1
    BY <1>4, FS_AddElement
  <2>2. QED
    BY <1>1, <1>2, <1>4, <2>1 DEF Closing
<1>5. CASE f \in Busy /\ Busy' = Busy \ {f} /\ permits' = permits + 1
  <2>1. IsFiniteSet(Busy') /\ Cardinality(Busy') = Cardinality(Busy) - 1
    BY <1>5, FS_RemoveElement
  <2>2. Cardinality(Busy') \in Nat
    BY <2>1, FS_CardinalityType
  <2>3. QED
    BY <1>1, <1>2, <1>5, <2>1, <2>2
<1>6. QED
  BY <1>3, <1>4, <1>5, BusyStep

-----------------------------------------------------------------------------
(* The line                                                                *)

(* The line stays, loses its first or gains a last.                        *)
LEMMA LineOfFetch ==
  ASSUME BrowserTypeOK, NEW f \in FetchRequest, FetchStep(f)
  PROVE  \/ line' = line /\ (fetches[f].at = "wait" => fetches'[f].at = "wait")
         \/ line' = Tail(line) /\ Admit(f)
         \/ line' = Append(line, f) /\ fetches[f].at = "off" /\ fetches'[f].at = "wait"
BY DEF BrowserTypeOK, GoTo, Leave, Inside, FetchStep, ArriveFetch, Admit, BlockNavigation, FailFetch,
       StartSave, StartBody, Saved, BodyRead, LeaveContext, AnswerFetch, EndStream

LEMMA TailDistinct ==
  ASSUME NEW S, NEW s \in Seq(S), s # <<>>, Distinct(s)
  PROVE  /\ Tail(s) \in Seq(S) /\ Distinct(Tail(s))
         /\ \A i \in 1 .. Len(Tail(s)) : Tail(s)[i] # s[1] /\ \E p \in 1 .. Len(s) : Tail(s)[i] = s[p]
<1>1. /\ Tail(s) \in Seq(S) /\ Len(Tail(s)) = Len(s) - 1 /\ Len(s) \in Nat
      /\ \A i \in 1 .. Len(Tail(s)) : Tail(s)[i] = s[i + 1]
  BY HeadTailProperties, LenProperties
<1>2. \A i \in 1 .. Len(Tail(s)) : i + 1 \in 1 .. Len(s) /\ i + 1 # 1
  BY <1>1
<1>3. QED
  BY <1>1, <1>2 DEF Distinct

LEMMA AppendDistinct ==
  ASSUME NEW S, NEW s \in Seq(S), NEW e \in S, Distinct(s), \A i \in 1 .. Len(s) : s[i] # e
  PROVE  /\ Append(s, e) \in Seq(S) /\ Distinct(Append(s, e))
         /\ \A i \in 1 .. Len(Append(s, e)) :
              Append(s, e)[i] = e \/ \E p \in 1 .. Len(s) : Append(s, e)[i] = s[p]
<1>1. /\ Append(s, e) \in Seq(S) /\ Len(Append(s, e)) = Len(s) + 1 /\ Len(s) \in Nat
      /\ Append(s, e)[Len(s) + 1] = e /\ \A i \in 1 .. Len(s) : Append(s, e)[i] = s[i]
  BY AppendProperties, LenProperties
<1>2. \A i \in 1 .. Len(Append(s, e)) : i \in 1 .. Len(s) \/ i = Len(s) + 1
  BY <1>1
<1>3. QED
  BY <1>1, <1>2 DEF Distinct

LEMMA WithoutDistinct ==
  ASSUME NEW S, NEW s \in Seq(S), NEW k \in 1 .. Len(s), Distinct(s)
  PROVE  /\ Without(s, k) \in Seq(S) /\ Distinct(Without(s, k))
         /\ \A i \in 1 .. Len(Without(s, k)) : \E p \in 1 .. Len(s) : Without(s, k)[i] = s[p]
<1> DEFINE n == Len(s) - 1
           t == Without(s, k)
<1>1. n \in Nat /\ \A i \in 1 .. Len(s) : s[i] \in S
  BY LenProperties, ElementOfSeq
<1>2. \A i \in 1 .. n : i \in 1 .. Len(s) /\ i + 1 \in 1 .. Len(s)
  BY <1>1
<1>3. t \in [1 .. n -> S]
  BY <1>1, <1>2 DEF Without
<1>4. t \in Seq(S) /\ Len(t) = n
  BY <1>1, <1>3, SeqDef, LenProperties
<1>5. \A i \in 1 .. n : t[i] = IF i < k THEN s[i] ELSE s[i + 1]
  BY DEF Without
<1>6. ASSUME NEW i \in 1 .. n, NEW j \in 1 .. n, t[i] = t[j] PROVE i = j
  <2>1. PICK p \in 1 .. Len(s), q \in 1 .. Len(s) :
          /\ p = IF i < k THEN i ELSE i + 1
          /\ q = IF j < k THEN j ELSE j + 1
    BY <1>2
  <2>2. t[i] = s[p] /\ t[j] = s[q]
    BY <1>5, <2>1
  <2>3. p = q
    BY <1>6, <2>2 DEF Distinct
  <2>4. QED
    BY <1>1, <2>1, <2>3
<1>7. \A i \in 1 .. n : \E p \in 1 .. Len(s) : t[i] = s[p]
  BY <1>2, <1>5
<1>8. Distinct(t)
  BY <1>4, <1>6 DEF Distinct
<1>9. QED
  BY <1>4, <1>7, <1>8

(* Who is in line was there before, so it waits.                           *)
LEMMA SameWaiters ==
  ASSUME \A i \in 1 .. Len(line) : line[i] # Closer => fetches[line[i]].at = "wait",
         fetches' = fetches,
         \A i \in 1 .. Len(line') : line'[i] = Closer \/ \E p \in 1 .. Len(line) : line'[i] = line[p]
  PROVE  \A i \in 1 .. Len(line') : line'[i] # Closer => fetches'[line'[i]].at = "wait"
OBVIOUS

LEMMA FetchKeepsLine ==
  ASSUME BrowserTypeOK, LineInv, NEW f \in FetchRequest, FetchStep(f)
  PROVE  LineInv' /\ line' \in Seq(FetchRequest \cup {Closer})
<1> DEFINE S == FetchRequest \cup {Closer}
<1>a. line \in Seq(S) /\ Closer \notin FetchRequest /\ f \in S
  BY BrowserAssumption DEF BrowserTypeOK, Closer
<1>b. \A i \in 1 .. Len(line) : line[i] \in S
  BY <1>a, ElementOfSeq
<1>1. \A g \in FetchRequest \ {f} : fetches'[g] = fetches[g]
  BY OneFetch DEF BrowserTypeOK
<1>2. CASE line' = line /\ (fetches[f].at = "wait" => fetches'[f].at = "wait")
  BY <1>a, <1>b, <1>1, <1>2 DEF LineInv, Distinct
<1>3. CASE line' = Tail(line) /\ Admit(f)
  <2>1. line # <<>> /\ line[1] = f
    BY <1>3, Waits
  <2>2. /\ line' \in Seq(S) /\ Distinct(line')
        /\ \A i \in 1 .. Len(line') : line'[i] # f /\ \E p \in 1 .. Len(line) : line'[i] = line[p]
    BY <1>3, <1>a, <2>1, TailDistinct DEF LineInv
  <2>3. \A i \in 1 .. Len(line') : line'[i] # Closer => fetches'[line'[i]].at = "wait"
    BY <1>1, <1>b, <2>2 DEF LineInv
  <2>4. QED
    BY <2>2, <2>3 DEF LineInv, Distinct
<1>4. CASE line' = Append(line, f) /\ fetches[f].at = "off" /\ fetches'[f].at = "wait"
  <2>1. \A i \in 1 .. Len(line) : line[i] # f
    BY <1>4, <1>a DEF LineInv
  <2>2. /\ line' \in Seq(S) /\ Distinct(line')
        /\ \A i \in 1 .. Len(line') : line'[i] = f \/ \E p \in 1 .. Len(line) : line'[i] = line[p]
    BY <1>4, <1>a, <2>1, AppendDistinct DEF LineInv
  <2>3. \A i \in 1 .. Len(line') : line'[i] # Closer => fetches'[line'[i]].at = "wait"
    BY <1>1, <1>4, <1>b, <2>2 DEF LineInv
  <2>4. QED
    BY <2>2, <2>3 DEF LineInv, Distinct
<1>5. QED
  BY <1>2, <1>3, <1>4, LineOfFetch

-----------------------------------------------------------------------------
(* aclose                                                                  *)

(* What aclose does to the line: it stays, or aclose leaves its head, goes *)
(* to its end, or leaves it from where it gave up.                         *)
LEMMA CloserKeepsLine ==
  ASSUME BrowserTypeOK, LineInv, fetches' = fetches,
         \/ line' = line
         \/ line # <<>> /\ line' = Tail(line)
         \/ line' = Append(line, Closer) /\ \A i \in DOMAIN line : line[i] # Closer
         \/ \E i \in DOMAIN line : line' = Without(line, i)
  PROVE  LineInv' /\ line' \in Seq(FetchRequest \cup {Closer})
<1> DEFINE S == FetchRequest \cup {Closer}
<1>a. line \in Seq(S) /\ DOMAIN line = 1 .. Len(line)
  BY LenProperties DEF BrowserTypeOK
<1>1. CASE line' = line
  BY <1>1, <1>a DEF LineInv, Distinct
<1>2. SUFFICES ASSUME /\ line' \in Seq(S) /\ Distinct(line')
                       /\ \A i \in 1 .. Len(line') :
                            line'[i] = Closer \/ \E p \in 1 .. Len(line) : line'[i] = line[p]
               PROVE  LineInv' /\ line' \in Seq(S)
  <2>1. CASE line # <<>> /\ line' = Tail(line)
    <3>1. /\ Tail(line) \in Seq(S) /\ Distinct(Tail(line))
          /\ \A i \in 1 .. Len(Tail(line)) : \E p \in 1 .. Len(line) : Tail(line)[i] = line[p]
      BY <1>a, <2>1, TailDistinct DEF LineInv
    <3>2. QED
      BY <1>2, <2>1, <3>1
  <2>2. CASE line' = Append(line, Closer) /\ \A i \in DOMAIN line : line[i] # Closer
    <3>1. Closer \in S /\ \A i \in 1 .. Len(line) : line[i] # Closer
      BY <1>a, <2>2
    <3>2. /\ Append(line, Closer) \in Seq(S) /\ Distinct(Append(line, Closer))
          /\ \A i \in 1 .. Len(Append(line, Closer)) :
               Append(line, Closer)[i] = Closer \/ \E p \in 1 .. Len(line) : Append(line, Closer)[i] = line[p]
      BY <1>a, <3>1, AppendDistinct DEF LineInv
    <3>3. QED
      BY <1>2, <2>2, <3>2
  <2>3. CASE \E i \in DOMAIN line : line' = Without(line, i)
    <3>1. PICK k \in 1 .. Len(line) : line' = Without(line, k)
      BY <1>a, <2>3
    <3>2. Distinct(line)
      BY DEF LineInv
    <3>3. /\ Without(line, k) \in Seq(S) /\ Distinct(Without(line, k))
          /\ \A i \in 1 .. Len(Without(line, k)) : \E p \in 1 .. Len(line) : Without(line, k)[i] = line[p]
      BY <1>a, <3>2, WithoutDistinct
    <3>4. QED
      BY <1>2, <3>1, <3>3
  <2>4. QED
    BY <1>1, <2>1, <2>2, <2>3
<1>3. \A i \in 1 .. Len(line') : line'[i] # Closer => fetches'[line'[i]].at = "wait"
  BY <1>2, SameWaiters DEF LineInv
<1>4. QED
  BY <1>2, <1>3 DEF LineInv, Distinct

LEMMA CloserStep ==
  ASSUME BrowserIInv, StartClose \/ CloserNext
  PROVE  BrowserIInv'
<1> USE BrowserAssumption DEF BrowserTypeOK
<1>1. fetches' = fetches /\ savedFiles' = savedFiles /\ Busy' = Busy
  BY DEF StartClose, CloserNext, Drain, GiveUp, CloseBrowser, Busy
<1>2. LineInv' /\ line' \in Seq(FetchRequest \cup {Closer})
  <2>1. \/ line' = line
        \/ line # <<>> /\ line' = Tail(line)
        \/ line' = Append(line, Closer) /\ \A i \in DOMAIN line : line[i] # Closer
        \/ \E i \in DOMAIN line : line' = Without(line, i)
    BY DEF StartClose, CloserNext, Drain, GiveUp, CloseBrowser
  <2>2. QED
    BY <1>1, <2>1, CloserKeepsLine DEF BrowserIInv
<1>3. Cardinality(Busy) \in Nat
  BY FS_CardinalityType DEF BrowserIInv, PermitInv
<1>4. PermitInv' /\ CloserInv' /\ permits' \in 0 .. MaxConcurrent /\ closer' \in CloserState /\ drained' \in BOOLEAN
  <2> permits \in 0 .. MaxConcurrent /\ closer \in CloserState /\ PermitInv /\ CloserInv
    BY DEF BrowserIInv, CloserState
  <2> USE DEF PermitInv, CloserInv, CloserState
  <2>1. CASE StartClose
    <3>1. closer.got < MaxConcurrent
      BY <2>1 DEF StartClose, BrowserIInv
    <3>2. closer' \in CloserState /\ closer'.at = "drain" /\ closer'.got = closer.got
      BY <2>1 DEF StartClose
    <3>3. QED
      BY <1>1, <1>3, <2>1, <3>1, <3>2 DEF StartClose, BrowserIInv
  <2>2. CASE Drain /\ permits' = permits /\ closer' = closer
    BY <1>1, <1>3, <2>2 DEF Drain, BrowserIInv
  <2>3. CASE Drain /\ permits > 0 /\ permits' = permits - 1 /\ closer' = Acquired
    <3>1. /\ closer' \in CloserState /\ closer'.got = closer.got + 1
          /\ closer'.at = IF closer'.got = MaxConcurrent THEN "close" ELSE "drain"
      BY <2>3 DEF Drain, Acquired
    <3>2. drained' = drained /\ closer.at = "drain" /\ closer.got < MaxConcurrent
      BY <2>3 DEF Drain
    <3>3. PermitInv' /\ permits' \in 0 .. MaxConcurrent
      BY <1>1, <1>3, <2>3, <3>1
    <3>4. CASE closer'.got = MaxConcurrent
      <4>1. closer'.at = "close"
        BY <3>1, <3>4
      <4>2. CloserInv'
        BY <3>4, <4>1
      <4>3. QED
        BY <3>1, <3>2, <3>3, <4>2 DEF BrowserIInv
    <3>5. CASE closer'.got # MaxConcurrent
      <4>1. closer'.at = "drain" /\ closer'.got < MaxConcurrent
        BY <3>1, <3>2, <3>5
      <4>2. CloserInv'
        BY <4>1
      <4>3. QED
        BY <3>1, <3>2, <3>3, <4>2 DEF BrowserIInv
    <3>6. QED
      BY <3>4, <3>5
  <2>4. CASE GiveUp
    BY <1>1, <1>3, <2>4 DEF GiveUp, BrowserIInv
  <2>5. CASE CloseBrowser
    <3>1. drained => Busy = {}
      BY <1>3, <2>5, FS_EmptySet DEF CloseBrowser
    <3>2. QED
      BY <1>1, <1>3, <2>5, <3>1 DEF CloseBrowser, BrowserIInv
  <2>6. QED
    BY <2>1, <2>2, <2>3, <2>4, <2>5 DEF CloserNext, Drain
<1>5. BrowserTypeOK'
  BY <1>1, <1>2, <1>4 DEF BrowserIInv, CloserState
<1>6. \A f \in FetchRequest : FetchInv(f)'
  BY <1>1 DEF BrowserIInv, FetchInv
<1>7. QED
  BY <1>2, <1>4, <1>5, <1>6 DEF BrowserIInv

-----------------------------------------------------------------------------
LEMMA BrowserStep == BrowserIInv /\ [BrowserNext]_browserVars => BrowserIInv'
<1> SUFFICES ASSUME BrowserIInv, [BrowserNext]_browserVars PROVE BrowserIInv'
  OBVIOUS
<1>1. CASE StartClose \/ CloserNext
  BY <1>1, CloserStep
<1>2. ASSUME NEW f \in FetchRequest, FetchStep(f) PROVE BrowserIInv'
  <2>1. PermitInv' /\ CloserInv' /\ permits' \in 0 .. MaxConcurrent
    BY <1>2, FetchKeepsPermits DEF BrowserIInv
  <2>2. LineInv' /\ line' \in Seq(FetchRequest \cup {Closer})
    BY <1>2, FetchKeepsLine DEF BrowserIInv
  <2>3. fetches' \in [FetchRequest -> FetchState]
    BY <1>2, OneFetch DEF BrowserIInv, BrowserTypeOK, FetchState
  <2>4. savedFiles' \in SUBSET FetchRequest
    BY <1>2, OwnFile DEF BrowserIInv
  <2>5. closer' = closer /\ drained' = drained
    BY <1>2, BusyStep DEF BrowserIInv
  <2>6. BrowserTypeOK'
    BY <2>1, <2>2, <2>3, <2>4, <2>5 DEF BrowserIInv, BrowserTypeOK, FetchState
  <2>7. ASSUME NEW g \in FetchRequest PROVE FetchInv(g)'
    BY <1>2, FetchInvStep DEF BrowserIInv
  <2>8. QED
    BY <2>1, <2>2, <2>6, <2>7 DEF BrowserIInv
<1>3. CASE UNCHANGED browserVars
  BY <1>3 DEF BrowserIInv, BrowserTypeOK, LineInv, Distinct, PermitInv, CloserInv, FetchInv, Busy, browserVars
<1>4. QED
  BY <1>1, <1>2, <1>3 DEF BrowserNext, FetchStep

(* Permits, temporary files and answers survive every way out of a fetch,  *)
(* and a shutdown takes the browser from nobody unless it gave up waiting. *)
THEOREM BrowserSound == BrowserSpec => []BrowserInv
<1>1. BrowserInit => BrowserIInv
  BY BrowserBase
<1>2. BrowserIInv /\ [BrowserNext]_browserVars => BrowserIInv'
  BY BrowserStep
<1>3. BrowserIInv => BrowserInv
  BY BrowserImplied
<1>4. QED
  BY <1>1, <1>2, <1>3, PTL DEF BrowserSpec

(* Nobody is admitted once aclose runs.                                    *)
LEMMA NoneAdmittedStep ==
  ASSUME BrowserTypeOK, [BrowserNext]_browserVars, Closing, NEW f \in FetchRequest,
         fetches'[f].at = "render"
  PROVE  fetches[f].at = "render"
<1>1. CASE fetches' = fetches
  BY <1>1
<1>2. ASSUME NEW g \in FetchRequest, FetchStep(g), g # f PROVE fetches'[f] = fetches[f]
  BY <1>2, OneFetch DEF BrowserTypeOK
<1>3. CASE FetchStep(f)
  BY <1>3 DEF BrowserTypeOK, GoTo, Leave, NoFetch, FetchStep, ArriveFetch, Admit, BlockNavigation, FailFetch,
              StartSave, StartBody, Saved, BodyRead, LeaveContext, AnswerFetch, EndStream
<1>4. QED
  BY <1>1, <1>2, <1>3 DEF BrowserNext, FetchStep, StartClose, CloserNext, Drain, GiveUp, CloseBrowser, browserVars

(* The requests in line are turned away by a shutdown, for any number.     *)
THEOREM NobodyAdmitted == BrowserSpec => NoneAdmitted
<1>1. BrowserInit => BrowserIInv
  BY BrowserBase
<1>2. BrowserIInv /\ [BrowserNext]_browserVars => BrowserIInv'
  BY BrowserStep
<1>3. BrowserIInv /\ [BrowserNext]_browserVars =>
        [Closing => \A f \in FetchRequest : fetches'[f].at = "render" => fetches[f].at = "render"]_browserVars
  BY NoneAdmittedStep DEF BrowserIInv
<1>4. QED
  BY <1>1, <1>2, <1>3, PTL DEF BrowserSpec, NoneAdmitted
=============================================================================
