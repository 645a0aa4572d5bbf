---------------------------- MODULE AgentsProofs ----------------------------
(***************************************************************************)
(* Theorems about the tickets and the agents, for every value of the       *)
(* constants: the scope tickets of the broker, the ClickUp bot, the LLM    *)
(* clients and their thinking budget, the dates and the sections of a      *)
(* campaign plan.                                                          *)
(***************************************************************************)
EXTENDS ScopeTickets, ClickUpBot, LlmClient, ThinkingBudget, PlanSchedule,
        PlanSections, FiniteSetTheorems, TLAPS

-----------------------------------------------------------------------------
(* The scope tickets                                                       *)

(* TicketsInv is not inductive: a mint could find answers counted for its  *)
(* token, and a request could bring a token that nobody minted.            *)
TicketsAux ==
  /\ \A t \in Token \ minted : items[t].kind = "absent" /\ acked[t] = 0
  /\ \A r \in BrokerRequest : calls[r].at # "none" => calls[r].token \in minted

TicketsIInv == LockInv /\ CountComplete /\ TicketsAux

(* The lock makes two live tickets one.                                    *)
LEMMA TicketsImplied == TicketsIInv => TicketsInv
BY DEF TicketsIInv, TicketsInv, LockInv, OneLiveTicket

(* What the actions put in the table and in a request.                     *)
LEMMA TicketShapes ==
  /\ NoTicket \in TicketItem /\ NoLock \in TicketLock /\ Resting \in TicketCall
  /\ \A n, c \in Nat : [kind |-> "ticket", exp |-> n, count |-> c] \in TicketItem
  /\ \A n \in Nat, t \in Token : [held |-> TRUE, token |-> t, exp |-> n] \in TicketLock
  /\ \A i \in TicketItem, c \in Nat : [i EXCEPT !.count = c] \in TicketItem /\ Stray(c) \in TicketItem
BY DEF NoTicket, NoLock, Resting, Stray, TicketItem, TicketLock, TicketCall

LEMMA TicketsBase == TicketsInit => TicketsIInv
<1> SUFFICES ASSUME TicketsInit PROVE TicketsIInv
  OBVIOUS
<1>1. TicketsTypeOK
  BY TicketShapes DEF TicketsInit, TicketsTypeOK
<1>2. \A t \in Token : items[t].kind = "absent" /\ acked[t] = 0
  BY DEF TicketsInit, NoTicket
<1>3. \A r \in BrokerRequest : calls[r].at = "none"
  BY DEF TicketsInit, Resting
<1>4. QED
  BY <1>1, <1>2, <1>3 DEF TicketsIInv, LockInv, CountComplete, TicketsAux, Live

-----------------------------------------------------------------------------
(* The types                                                               *)

LEMMA CallShapes ==
  /\ \A c \in TicketCall, a \in {"execute", "increment", "delete", "clear"} : [c EXCEPT !.at = a] \in TicketCall
  /\ \A t \in Token, op \in {"query", "terminal", "cleanup"} :
       [at |-> IF op = "cleanup" THEN "delete" ELSE "auth", op |-> op, token |-> t] \in TicketCall
BY DEF TicketCall

(* The calls of a step: one begins, goes on or is over, if any.            *)
CallBegins(q, t) ==
  \E op \in {"query", "terminal", "cleanup"} :
    calls' = [calls EXCEPT ![q] = [at |-> IF op = "cleanup" THEN "delete" ELSE "auth", op |-> op, token |-> t]]
CallGoesOn(q) ==
  /\ calls[q].at # "none"
  /\ \E a \in {"execute", "increment", "delete", "clear"} : calls' = [calls EXCEPT ![q].at = a]
CallOver(q) == calls' = [calls EXCEPT ![q] = Resting]

LEMMA CallsOfStep ==
  ASSUME [TicketsNext]_ticketVars
  PROVE  \/ calls' = calls
         \/ \E q \in BrokerRequest, t \in Token \cap minted : CallBegins(q, t)
         \/ \E q \in BrokerRequest : CallGoesOn(q) \/ CallOver(q)
<1>1. ASSUME NEW t \in Token, Mint(t) \/ Sweep(t) PROVE calls' = calls
  BY <1>1 DEF Mint, Sweep
<1>2. ASSUME SweepLock \/ TicketTick \/ UNCHANGED ticketVars PROVE calls' = calls
  BY <1>2 DEF SweepLock, TicketTick, ticketVars
<1>3. ASSUME NEW q \in BrokerRequest, NEW t \in Token, NEW op \in {"query", "terminal", "cleanup"},
             BeginRequest(q, op, t)
      PROVE  t \in minted /\ CallBegins(q, t)
  BY <1>3 DEF BeginRequest, CallBegins
<1>4. ASSUME NEW q \in BrokerRequest,
             VerifyToken(q) \/ Execute(q) \/ Increment(q) \/ Delete(q) \/ Clear(q) \/ Crash(q)
      PROVE  CallGoesOn(q) \/ CallOver(q)
  BY <1>4 DEF VerifyToken, Execute, Increment, Delete, Clear, Crash, GoOn, Over, CallGoesOn, CallOver
<1>5. QED
  BY <1>1, <1>2, <1>3, <1>4 DEF TicketsNext

LEMMA CallsTypeStep ==
  ASSUME calls \in [BrokerRequest -> TicketCall], [TicketsNext]_ticketVars
  PROVE  calls' \in [BrokerRequest -> TicketCall]
<1>1. ASSUME NEW q \in BrokerRequest, NEW t \in Token, CallBegins(q, t)
      PROVE  calls' \in [BrokerRequest -> TicketCall]
  BY <1>1, CallShapes DEF CallBegins
<1>2. ASSUME NEW q \in BrokerRequest, CallGoesOn(q) PROVE calls' \in [BrokerRequest -> TicketCall]
  <2>1. PICK a \in {"execute", "increment", "delete", "clear"} : calls' = [calls EXCEPT ![q].at = a]
    BY <1>2 DEF CallGoesOn
  <2>2. [calls[q] EXCEPT !.at = a] \in TicketCall
    BY CallShapes
  <2>3. QED
    BY <2>1, <2>2
<1>3. ASSUME NEW q \in BrokerRequest, CallOver(q) PROVE calls' \in [BrokerRequest -> TicketCall]
  BY <1>3, TicketShapes DEF CallOver
<1>4. CASE calls' = calls
  BY <1>4
<1>5. QED
  BY <1>1, <1>2, <1>3, <1>4, CallsOfStep

LEMMA AddedType ==
  ASSUME items \in [Token -> TicketItem], NEW t \in Token
  PROVE  /\ Added(t) \in [Token -> TicketItem]
         /\ \A u \in Token : u # t => Added(t)[u] = items[u]
         /\ Added(t)[t].kind = "ticket" => items[t].kind = "ticket"
         /\ items[t].kind = "ticket" =>
              /\ Added(t)[t].kind = "ticket" /\ Added(t)[t].exp = items[t].exp
              /\ Added(t)[t].count = items[t].count + 1
<1> DEFINE one == Counted(items[t])
<1>1. Added(t) = [items EXCEPT ![t] = one]
  BY DEF Added
<1>2. items[t] \in TicketItem
  OBVIOUS
<1>3. one \in TicketItem
  BY <1>2 DEF Counted, Stray, TicketItem
<1>4. one.kind = "ticket" => items[t].kind = "ticket"
  BY <1>2 DEF Counted, Stray, TicketItem
<1>5. items[t].kind = "ticket" => one.kind = "ticket" /\ one.exp = items[t].exp /\ one.count = items[t].count + 1
  BY <1>2 DEF Counted, TicketItem
<1> HIDE DEF one
<1>6. QED
  BY <1>1, <1>3, <1>4, <1>5

LEMMA TicketsTypeStep ==
  ASSUME TicketsTypeOK, TicketsAux, [TicketsNext]_ticketVars
  PROVE  TicketsTypeOK'
<1> USE DEF TicketsTypeOK
<1>1. calls' \in [BrokerRequest -> TicketCall]
  BY CallsTypeStep
<1>2. ASSUME NEW t \in Token, Mint(t) PROVE TicketsTypeOK'
  <2>1. ticketNow + TicketTTL \in Nat /\ 0 \in Nat
    BY TicketAssumption
  <2>2. items' \in [Token -> TicketItem] /\ lock' \in TicketLock
    BY <1>2, <2>1, TicketShapes DEF Mint
  <2>3. QED
    BY <1>1, <1>2, <2>2 DEF Mint
<1>3. ASSUME NEW t \in Token, Sweep(t) PROVE TicketsTypeOK'
  BY <1>1, <1>3, TicketShapes DEF Sweep
<1>4. ASSUME NEW r \in BrokerRequest, NEW t \in Token, NEW op \in {"query", "terminal", "cleanup"},
             BeginRequest(r, op, t) PROVE TicketsTypeOK'
  BY <1>1, <1>4 DEF BeginRequest
<1>5. ASSUME NEW r \in BrokerRequest, VerifyToken(r) \/ Execute(r) \/ Crash(r) PROVE TicketsTypeOK'
  BY <1>1, <1>5 DEF VerifyToken, Execute, Crash
<1>6. ASSUME NEW r \in BrokerRequest, Increment(r) PROVE TicketsTypeOK'
  <2>1. calls[r].token \in Token
    BY <1>6 DEF Increment, TicketsAux
  <2>2. items' \in [Token -> TicketItem] /\ acked' \in [Token -> Nat]
    BY <1>6, <2>1, AddedType DEF Increment
  <2>3. QED
    BY <1>1, <1>6, <2>2 DEF Increment
<1>7. ASSUME NEW r \in BrokerRequest, Delete(r) PROVE TicketsTypeOK'
  <2>1. items' \in [Token -> TicketItem] /\ acked' \in [Token -> Nat] /\ lock' \in TicketLock
    BY <1>7, TicketShapes DEF Delete
  <2>2. robbed' \in BOOLEAN
    BY <1>7 DEF Delete
  <2>3. QED
    BY <1>1, <1>7, <2>1, <2>2 DEF Delete
<1>8. ASSUME NEW r \in BrokerRequest, Clear(r) PROVE TicketsTypeOK'
  <2> DEFINE t == calls[r].token
  <2>1. t \in Token
    BY <1>8 DEF Clear, TicketsAux
  <2>2. [items[t] EXCEPT !.count = 0] \in TicketItem /\ 0 \in Nat
    BY <2>1, TicketShapes
  <2>3. items' \in [Token -> TicketItem] /\ acked' \in [Token -> Nat]
    BY <1>8, <2>1, <2>2 DEF Clear
  <2>4. QED
    BY <1>1, <1>8, <2>3 DEF Clear
<1>9. ASSUME SweepLock \/ TicketTick \/ UNCHANGED ticketVars PROVE TicketsTypeOK'
  BY <1>1, <1>9, TicketShapes DEF SweepLock, TicketTick, ticketVars
<1>10. QED
  BY <1>2, <1>3, <1>4, <1>5, <1>6, <1>7, <1>8, <1>9 DEF TicketsNext

-----------------------------------------------------------------------------
(* What an action does to one item, and to the lock, in plain terms        *)

(* The parts of the invariant that speak of one token and of one request.  *)
TokenInv(t) ==
  /\ items[t].kind = "ticket" => t \in minted /\ acked[t] <= items[t].count
  /\ Live(t) /\ ~robbed => lock.held /\ lock.token = t /\ lock.exp = items[t].exp
  /\ t \notin minted => items[t].kind = "absent" /\ acked[t] = 0

CallInv(r) == calls[r].at # "none" => calls[r].token \in minted

LEMMA PartsSuffice ==
  ASSUME TicketsTypeOK', \A t \in Token : TokenInv(t)', \A r \in BrokerRequest : CallInv(r)'
  PROVE  TicketsIInv'
BY DEF TicketsIInv, LockInv, CountComplete, TicketsAux, TokenInv, CallInv

LEMMA PartsHold ==
  ASSUME TicketsIInv
  PROVE  TicketsTypeOK /\ TicketsAux /\ (\A t \in Token : TokenInv(t)) /\ (\A r \in BrokerRequest : CallInv(r))
BY DEF TicketsIInv, LockInv, CountComplete, TicketsAux, TokenInv, CallInv

(* A mint finds the lock free, so no ticket is live but its own.           *)
LEMMA MintStep ==
  ASSUME TicketsTypeOK, NEW t \in Token, Mint(t), NEW u \in Token, TokenInv(u)
  PROVE  TokenInv(u)'
<1> USE TicketAssumption DEF TicketsTypeOK, TicketItem
<1>1. CASE UNCHANGED <<items, lock>>
  BY <1>1 DEF Mint, TokenInv, Live
<1>2. CASE LockFree /\ items' = [items EXCEPT ![t] = [kind |-> "ticket", exp |-> ticketNow + TicketTTL, count |-> 0]]
           /\ lock' = [held |-> TRUE, token |-> t, exp |-> ticketNow + TicketTTL]
  <2>1. CASE u = t
    BY <1>2, <2>1 DEF Mint, TokenInv, Live
  <2>2. CASE u # t
    <3>1. ~(Live(u) /\ ~robbed)
      BY <1>2 DEF TokenInv, Live, LockFree
    <3>2. QED
      BY <1>2, <2>2, <3>1 DEF Mint, TokenInv, Live
  <2>3. QED
    BY <2>1, <2>2
<1>3. QED
  BY <1>1, <1>2 DEF Mint

(* A query counts on the item of its token only, and never takes away.     *)
LEMMA IncrementStep ==
  ASSUME TicketsTypeOK, TicketsAux, NEW r \in BrokerRequest, Increment(r), NEW u \in Token, TokenInv(u)
  PROVE  TokenInv(u)'
<1> USE DEF TicketsTypeOK, TicketItem, TicketLock
<1> DEFINE t == calls[r].token
<1>1. t \in minted /\ t \in Token
  BY DEF Increment, TicketsAux
<1>2. CASE items' = items /\ acked' = acked
  BY <1>2 DEF Increment, TokenInv, Live
<1>3. CASE items' = Added(t) /\ acked' = acked
  <2>1. CASE u = t
    BY <1>1, <1>3, <2>1, AddedType DEF Increment, TokenInv, Live
  <2>2. CASE u # t
    BY <1>1, <1>3, <2>2, AddedType DEF Increment, TokenInv, Live
  <2>3. QED
    BY <2>1, <2>2
<1>4. CASE items' = Added(t) /\ acked' = [acked EXCEPT ![t] = @ + 1]
  <2>1. CASE u = t
    BY <1>1, <1>4, <2>1, AddedType DEF Increment, TokenInv, Live
  <2>2. CASE u # t
    BY <1>1, <1>4, <2>2, AddedType DEF Increment, TokenInv, Live
  <2>3. QED
    BY <2>1, <2>2
<1>5. QED
  BY <1>2, <1>3, <1>4 DEF Increment

(* A delete that takes the lock of another ticket leaves its mark.         *)
LEMMA DeleteStep ==
  ASSUME TicketsTypeOK, TicketsAux, NEW r \in BrokerRequest, Delete(r), NEW u \in Token, TokenInv(u)
  PROVE  TokenInv(u)'
<1> USE DEF TicketsTypeOK, TicketItem, TicketLock
<1> DEFINE t == calls[r].token
<1>1. t \in Token
  BY DEF Delete, TicketsAux
<1>2. CASE UNCHANGED <<items, acked, lock, robbed>>
  BY <1>2 DEF Delete, TokenInv, Live
<1>3. CASE /\ items' = [items EXCEPT ![t] = NoTicket] /\ acked' = [acked EXCEPT ![t] = 0]
           /\ lock' = NoLock /\ robbed' = (robbed \/ (lock.held /\ lock.token # t))
  <2>1. CASE u = t
    BY <1>1, <1>3, <2>1 DEF Delete, TokenInv, Live, NoTicket
  <2>2. CASE u # t
    BY <1>1, <1>3, <2>2 DEF Delete, TokenInv, Live, NoTicket
  <2>3. QED
    BY <2>1, <2>2
<1>4. QED
  BY <1>2, <1>3 DEF Delete

(* A request brings a minted token, and keeps it.                          *)
LEMMA CallStep ==
  ASSUME TicketsTypeOK, NEW r \in BrokerRequest, [TicketsNext]_ticketVars, CallInv(r)
  PROVE  CallInv(r)'
<1> USE DEF TicketsTypeOK, CallInv
<1>1. minted \subseteq minted'
  BY DEF TicketsNext, ticketVars, Mint, Sweep, BeginRequest, VerifyToken, Execute, Increment,
         Delete, Clear, Crash, SweepLock, TicketTick
<1>2. ASSUME NEW q \in BrokerRequest, NEW t \in Token \cap minted, CallBegins(q, t) PROVE CallInv(r)'
  BY <1>1, <1>2 DEF CallBegins, TicketCall
<1>3. ASSUME NEW q \in BrokerRequest, CallGoesOn(q) PROVE CallInv(r)'
  BY <1>1, <1>3 DEF CallGoesOn, TicketCall
<1>4. ASSUME NEW q \in BrokerRequest, CallOver(q) PROVE CallInv(r)'
  BY <1>1, <1>4 DEF CallOver, Resting
<1>5. QED
  BY <1>1, <1>2, <1>3, <1>4, CallsOfStep

(* What is neither of the three leaves the items and the lock, removes     *)
(* what has expired, or lets time pass.                                    *)
LEMMA QuietStep ==
  ASSUME TicketsTypeOK, TicketsAux, NEW u \in Token, TokenInv(u),
         \/ \E t \in Token : Sweep(t)
         \/ \E r \in BrokerRequest, t \in Token, op \in {"query", "terminal", "cleanup"} : BeginRequest(r, op, t)
         \/ \E r \in BrokerRequest : VerifyToken(r) \/ Execute(r) \/ Clear(r) \/ Crash(r)
         \/ SweepLock \/ TicketTick \/ UNCHANGED ticketVars
  PROVE  TokenInv(u)'
<1> USE DEF TicketsTypeOK, TicketItem, TicketLock, TokenInv, Live
<1>1. ASSUME NEW t \in Token, Sweep(t) PROVE TokenInv(u)'
  BY <1>1 DEF Sweep, NoTicket
<1>2. ASSUME NEW r \in BrokerRequest, NEW t \in Token, NEW op \in {"query", "terminal", "cleanup"},
             BeginRequest(r, op, t) PROVE TokenInv(u)'
  BY <1>2 DEF BeginRequest
<1>3. ASSUME NEW r \in BrokerRequest, VerifyToken(r) \/ Execute(r) \/ Crash(r) PROVE TokenInv(u)'
  BY <1>3 DEF VerifyToken, Execute, Crash
<1>4. ASSUME NEW r \in BrokerRequest, Clear(r) PROVE TokenInv(u)'
  <2>1. calls[r].token \in minted
    BY <1>4 DEF Clear, TicketsAux
  <2>2. QED
    BY <1>4, <2>1 DEF Clear
<1>5. ASSUME SweepLock PROVE TokenInv(u)'
  BY <1>5 DEF SweepLock
<1>6. ASSUME TicketTick PROVE TokenInv(u)'
  BY <1>6 DEF TicketTick
<1>7. ASSUME UNCHANGED ticketVars PROVE TokenInv(u)'
  BY <1>7 DEF ticketVars
<1>8. QED
  BY <1>1, <1>2, <1>3, <1>4, <1>5, <1>6, <1>7

LEMMA TicketsStep == TicketsIInv /\ [TicketsNext]_ticketVars => TicketsIInv'
<1> SUFFICES ASSUME TicketsIInv, [TicketsNext]_ticketVars PROVE TicketsIInv'
  OBVIOUS
<1>1. TicketsTypeOK /\ TicketsAux /\ (\A t \in Token : TokenInv(t)) /\ (\A r \in BrokerRequest : CallInv(r))
  BY PartsHold
<1>2. TicketsTypeOK'
  BY <1>1, TicketsTypeStep
<1>3. ASSUME NEW u \in Token PROVE TokenInv(u)'
  BY <1>1, MintStep, IncrementStep, DeleteStep, QuietStep DEF TicketsNext
<1>4. ASSUME NEW r \in BrokerRequest PROVE CallInv(r)'
  BY <1>1, CallStep
<1>5. QED
  BY <1>2, <1>3, <1>4, PartsSuffice

-----------------------------------------------------------------------------
(* Whatever is lost, repeated or late, a run never has two tokens that     *)
(* authenticate, unless a late delete took another ticket's lock; and no   *)
(* query that was answered is missing in the count.                        *)
THEOREM TicketsSound == TicketsSpec => []TicketsInv
<1>1. TicketsInit => TicketsIInv
  BY TicketsBase
<1>2. TicketsIInv /\ [TicketsNext]_ticketVars => TicketsIInv'
  BY TicketsStep
<1>3. TicketsIInv => TicketsInv
  BY TicketsImplied
<1>4. QED
  BY <1>1, <1>2, <1>3, PTL DEF TicketsSpec

-----------------------------------------------------------------------------
(* The ClickUp bot                                                         *)

(* The claims and launches of one label, as long as no call about it was    *)
(* ambiguous: who is about to launch holds the claim alone, and the launches*)
(* before it are older than a claim lives.                                 *)
Holds(s, l) == inv[s].label = l /\ inv[s].at \in {"launch", "release"}

LabelInv(l) ==
  l \notin excused =>
    /\ \A p \in latePuts : p[1] # l
    /\ \A i \in DOMAIN botLaunches[l] :
         /\ botLaunches[l][i] \in Nat
         /\ botLaunches[l][i] + ClaimTTL < now \/ botLaunches[l][i] + ClaimTTL = claim[l]
    /\ \A s \in BotSlot : Holds(s, l) =>
         /\ inv[s].claimed \in Nat /\ claim[l] = inv[s].claimed + ClaimTTL
         /\ \A i \in DOMAIN botLaunches[l] : botLaunches[l][i] + ClaimTTL < inv[s].claimed
    /\ \A s, t \in BotSlot : Holds(s, l) /\ Holds(t, l) => s = t

(* An invocation ends before the second tick; what it knows of its claim.  *)
SlotInv(s) ==
  /\ inv[s].at = "idle" => inv[s].label = Unclaimed /\ inv[s].claimed = Unclaimed
  /\ inv[s].at # "idle" => inv[s].since <= now /\ now <= inv[s].since + 1
  /\ inv[s].claimed # Unclaimed =>
       /\ inv[s].at \in {"launch", "ack", "ack_again", "release"}
       /\ inv[s].since <= inv[s].claimed /\ inv[s].claimed <= now
  /\ inv[s].at \in {"ack", "ack_again"} =>
       /\ botLaunches[inv[s].label] # <<>>
       /\ inv[s].claimed # Unclaimed =>
            \E i \in DOMAIN botLaunches[inv[s].label] :
              botLaunches[inv[s].label][i] = inv[s].claimed

BotIInv ==
  /\ BotTypeOK
  /\ \A s \in BotSlot : SlotInv(s)
  /\ \A l \in Label : LabelInv(l)
  /\ OneLaunchPerClaim /\ ClaimAnswered

BotInvocation == [at : InvocationAt, label : Label \cup {Unclaimed}, worker : BOOLEAN,
                  since : Nat, claimed : Nat \cup {Unclaimed}]

Others(s) == \A t \in BotSlot : t # s => inv'[t] = inv[t]

LEMMA BotTypes ==
  BotTypeOK => /\ now \in Nat /\ inv \in [BotSlot -> BotInvocation]
               /\ claim \in [Label -> Nat \cup {Unclaimed}]
               /\ botLaunches \in [Label -> Seq(Nat \cup {Unclaimed})]
               /\ latePuts \subseteq Label \X Nat /\ stranded \subseteq Label \X Nat
               /\ markers \subseteq Label \X Nat
               /\ \A s \in BotSlot : inv[s].at # "idle" => inv[s].label \in Label
BY DEF BotTypeOK, BotInvocation

(* What a step does to the invocations, field by field.                    *)
LEMMA MoveFacts ==
  ASSUME BotTypeOK, NEW s \in BotSlot, NEW a \in InvocationAt, Move(s, a)
  PROVE  /\ inv' \in [BotSlot -> BotInvocation] /\ Others(s)
         /\ inv'[s].at = a /\ inv'[s].label = inv[s].label
         /\ inv'[s].worker = inv[s].worker
         /\ inv'[s].since = inv[s].since /\ inv'[s].claimed = inv[s].claimed
<1>1. inv \in [BotSlot -> BotInvocation]
  BY BotTypes
<1>2. QED
  BY <1>1 DEF Move, Others, BotInvocation

LEMMA ProceedFacts ==
  ASSUME BotTypeOK, NEW s \in BotSlot, NEW c \in Nat \cup {Unclaimed}, Proceed(s, c)
  PROVE  /\ inv' \in [BotSlot -> BotInvocation] /\ Others(s)
         /\ inv'[s].at = "launch" /\ inv'[s].label = inv[s].label
         /\ inv'[s].worker = inv[s].worker
         /\ inv'[s].since = inv[s].since /\ inv'[s].claimed = c
<1>1. inv \in [BotSlot -> BotInvocation]
  BY BotTypes
<1>2. QED
  BY <1>1 DEF Proceed, Others, BotInvocation, InvocationAt

LEMMA FinishFacts ==
  ASSUME BotTypeOK, NEW s \in BotSlot, Finish(s)
  PROVE  /\ inv' \in [BotSlot -> BotInvocation] /\ Others(s)
         /\ inv'[s].at = "idle" /\ inv'[s].label = Unclaimed /\ inv'[s].claimed = Unclaimed
<1>1. inv \in [BotSlot -> BotInvocation] /\ IdleInvocation \in BotInvocation
  BY BotTypes DEF IdleInvocation, BotInvocation, InvocationAt
<1>2. QED
  BY <1>1 DEF Finish, Others, IdleInvocation

LEMMA BeginFacts ==
  ASSUME BotTypeOK, NEW s \in BotSlot, NEW l \in Label, Deliver(s, l) \/ StartWorker(s, l)
  PROVE  /\ inv' \in [BotSlot -> BotInvocation] /\ Others(s)
         /\ inv[s].at = "idle"
         /\ inv'[s].at \in {"hook", "comments"} /\ inv'[s].label = l
         /\ inv'[s].since = now /\ inv'[s].claimed = Unclaimed
<1>1. inv \in [BotSlot -> BotInvocation] /\ now \in Nat
  BY BotTypes
<1>2. inv[s].at = "idle"
  BY DEF Deliver, StartWorker
<1>3. PICK a \in {"hook", "comments"}, w \in BOOLEAN :
        inv' = [inv EXCEPT ![s] = [at |-> a, label |-> l, worker |-> w, since |-> now,
                                   claimed |-> Unclaimed]]
  BY DEF Deliver, StartWorker, IdleInvocation
<1>4. [at |-> a, label |-> l, worker |-> w, since |-> now, claimed |-> Unclaimed]
        \in BotInvocation
  BY <1>1 DEF BotInvocation, InvocationAt
<1>5. QED
  BY <1>1, <1>2, <1>3, <1>4 DEF Others

(* What ClickUp has to deliver again only shrinks by an answer.            *)
LEMMA OwedShrinks ==
  ASSUME NEW s \in BotSlot, NEW ok \in BOOLEAN, AnswerDelivery(s, ok)
  PROVE  owed' \subseteq owed
BY DEF AnswerDelivery

LEMMA BotTypeStep == BotTypeOK /\ [BotNext]_botVars => BotTypeOK'
<1> SUFFICES ASSUME BotTypeOK, [BotNext]_botVars PROVE BotTypeOK'
  OBVIOUS
<1> USE BotAssumption DEF dedup, ghosts
<1>0. /\ now \in Nat /\ inv \in [BotSlot -> BotInvocation]
      /\ claim \in [Label -> Nat \cup {Unclaimed}]
      /\ botLaunches \in [Label -> Seq(Nat \cup {Unclaimed})]
      /\ latePuts \subseteq Label \X Nat /\ stranded \subseteq Label \X Nat
      /\ markers \subseteq Label \X Nat
      /\ \A s \in BotSlot : inv[s].at # "idle" => inv[s].label \in Label
      /\ deliveries \in Nat /\ owed \subseteq Label /\ excused \subseteq Label
      /\ events \in [Label -> Nat]
  BY BotTypes DEF BotTypeOK
<1> DEFINE T == /\ now \in Nat /\ inv \in [BotSlot -> BotInvocation]
                /\ claim \in [Label -> Nat \cup {Unclaimed}]
                /\ botLaunches \in [Label -> Seq(Nat \cup {Unclaimed})]
                /\ latePuts \subseteq Label \X Nat /\ stranded \subseteq Label \X Nat
                /\ markers \subseteq Label \X Nat
                /\ \A s \in BotSlot : inv[s].at # "idle" => inv[s].label \in Label
                /\ deliveries \in Nat /\ owed \subseteq Label /\ excused \subseteq Label
                /\ events \in [Label -> Nat]
<1>a. T' => BotTypeOK'
  BY DEF BotTypeOK, BotInvocation
<1>1. ASSUME NEW l \in Label, Tag(l) PROVE T'
  BY <1>0, <1>1 DEF Tag
<1>2. ASSUME NEW l \in Label, ExpireClaim(l) PROVE T'
  BY <1>0, <1>2 DEF ExpireClaim
<1>3. ASSUME NEW s \in BotSlot, NEW l \in Label, Deliver(s, l) \/ StartWorker(s, l) PROVE T'
  <2>1. /\ inv' \in [BotSlot -> BotInvocation] /\ Others(s) /\ inv'[s].label = l
    BY <1>3, BeginFacts
  <2>2. deliveries' \in Nat /\ events' \in [Label -> Nat]
    BY <1>0, <1>3 DEF Deliver, StartWorker
  <2>3. QED
    BY <1>0, <1>3, <2>1, <2>2 DEF Deliver, StartWorker, Others
<1>4. ASSUME NEW s \in BotSlot, Die(s) PROVE T'
  <2>1. inv' \in [BotSlot -> BotInvocation] /\ Others(s) /\ inv'[s].at = "idle"
    BY <1>4, FinishFacts DEF Die
  <2>2. inv[s].label \in Label /\ inv[s].claimed \in Nat \cup {Unclaimed}
    BY <1>0, <1>4 DEF Die, BotInvocation
  <2>3. stranded' \subseteq Label \X Nat
    BY <1>0, <1>4, <2>2 DEF Die
  <2>4. QED
    BY <1>0, <1>4, <2>1, <2>3 DEF Die, Others
<1>5. CASE BotTick
  <2>1. now' = now + 1 /\ UNCHANGED <<owed, deliveries, events, inv, claim, latePuts, markers,
                                       botLaunches, excused, stranded>>
    BY <1>5 DEF BotTick
  <2>2. T'
    BY <1>0, <2>1
  <2>3. QED
    BY <1>a, <2>2
<1>6. ASSUME NEW s \in BotSlot, VerifySignature(s) PROVE T'
  <2>1. inv' \in [BotSlot -> BotInvocation] /\ Others(s)
        /\ (inv'[s].at = "idle" \/ inv'[s].label = inv[s].label) /\ inv[s].at # "idle"
    BY <1>6, FinishFacts, MoveFacts DEF VerifySignature, InvocationAt
  <2>2. owed' \subseteq owed
    BY <1>6, OwedShrinks DEF VerifySignature
  <2>3. QED
    BY <1>0, <1>6, <2>1, <2>2 DEF VerifySignature, Others
<1>7. ASSUME NEW s \in BotSlot, Enqueue(s) PROVE T'
  <2>1. inv' \in [BotSlot -> BotInvocation] /\ Others(s)
        /\ (inv'[s].at = "idle" \/ inv'[s].label = inv[s].label) /\ inv[s].at # "idle"
    BY <1>7, FinishFacts, MoveFacts DEF Enqueue, InvocationAt
  <2>2. owed' \subseteq owed
    BY <1>7, OwedShrinks DEF Enqueue
  <2>3. events' \in [Label -> Nat]
    <3>1. inv[s].label \in Label
      BY <1>0, <2>1
    <3>2. UNCHANGED events \/ events' = [events EXCEPT ![inv[s].label] = @ + 1]
      BY <1>7 DEF Enqueue
    <3>3. QED
      BY <1>0, <3>1, <3>2
  <2>4. QED
    BY <1>0, <1>7, <2>1, <2>2, <2>3 DEF Enqueue, Others
<1>8. ASSUME NEW s \in BotSlot, CheckComments(s) PROVE T'
  <2>1. inv' \in [BotSlot -> BotInvocation] /\ Others(s)
        /\ (inv'[s].at = "idle" \/ inv'[s].label = inv[s].label) /\ inv[s].at # "idle"
    BY <1>8, FinishFacts, MoveFacts DEF CheckComments, InvocationAt
  <2>2. owed' \subseteq owed
    BY <1>8, OwedShrinks DEF CheckComments
  <2>3. QED
    BY <1>0, <1>8, <2>1, <2>2 DEF CheckComments, Others
<1>9. ASSUME NEW s \in BotSlot, Acquire(s) PROVE T'
  <2>1. inv' \in [BotSlot -> BotInvocation] /\ Others(s)
        /\ (inv'[s].at = "idle" \/ inv'[s].label = inv[s].label) /\ inv[s].at = "claim"
    BY <1>0, <1>9, FinishFacts, ProceedFacts DEF Acquire
  <2>2. inv[s].label \in Label
    BY <1>0, <2>1
  <2>3. owed' \subseteq owed
    BY <1>9, OwedShrinks DEF Acquire
  <2>4. now + ClaimTTL \in Nat
    BY <1>0
  <2>5. /\ claim' \in [Label -> Nat \cup {Unclaimed}]
        /\ latePuts' \subseteq Label \X Nat /\ stranded' \subseteq Label \X Nat
        /\ excused' \subseteq Label
    <3>1. <<inv[s].label, now + ClaimTTL>> \in Label \X Nat
      BY <2>2, <2>4
    <3>2. /\ claim' = claim \/ claim' = [claim EXCEPT ![inv[s].label] = now + ClaimTTL]
          /\ latePuts' \subseteq latePuts \cup {<<inv[s].label, now + ClaimTTL>>}
          /\ stranded' \subseteq stranded \cup {<<inv[s].label, now + ClaimTTL>>}
          /\ excused' \subseteq excused \cup {inv[s].label}
      BY <1>9 DEF Acquire
    <3>3. QED
      BY <1>0, <2>2, <2>4, <3>1, <3>2
  <2>6. QED
    BY <1>0, <1>9, <2>1, <2>2, <2>3, <2>5 DEF Acquire, Others
<1>10. ASSUME NEW s \in BotSlot, Launch(s) PROVE T'
  <2>1. /\ inv' \in [BotSlot -> BotInvocation] /\ Others(s)
        /\ inv'[s].label = inv[s].label /\ inv[s].at = "launch"
    BY <1>10, MoveFacts DEF Launch, InvocationAt
  <2>2. inv[s].label \in Label /\ inv[s].claimed \in Nat \cup {Unclaimed}
    BY <1>0, <2>1 DEF BotInvocation
  <2>3. botLaunches' \in [Label -> Seq(Nat \cup {Unclaimed})] /\ excused' \subseteq Label
    <3>1. /\ \/ botLaunches' = botLaunches
             \/ botLaunches' = [botLaunches EXCEPT ![inv[s].label] = Append(@, inv[s].claimed)]
          /\ excused' \subseteq excused \cup {inv[s].label}
      BY <1>10 DEF Launch
    <3>2. Append(botLaunches[inv[s].label], inv[s].claimed) \in Seq(Nat \cup {Unclaimed})
      <4>1. botLaunches[inv[s].label] \in Seq(Nat \cup {Unclaimed})
        BY <1>0, <2>2
      <4>2. QED
        BY <2>2, <4>1
    <3>3. QED
      BY <1>0, <2>2, <3>1, <3>2
  <2>4. QED
    BY <1>0, <1>10, <2>1, <2>2, <2>3 DEF Launch, Others
<1>11. ASSUME NEW s \in BotSlot, Ack(s) PROVE T'
  <2>1. inv' \in [BotSlot -> BotInvocation] /\ Others(s)
        /\ (inv'[s].at = "idle" \/ inv'[s].label = inv[s].label) /\ inv[s].at # "idle"
    BY <1>11, FinishFacts, MoveFacts DEF Ack, InvocationAt
  <2>2. owed' \subseteq owed /\ markers' \subseteq Label \X Nat
    <3>1. owed' \subseteq owed
      BY <1>11, OwedShrinks DEF Ack
    <3>2. <<inv[s].label, now>> \in Label \X Nat
      BY <1>0, <2>1
    <3>3. markers' \subseteq markers \cup {<<inv[s].label, now>>}
      BY <1>11 DEF Ack
    <3>4. QED
      BY <1>0, <3>1, <3>2, <3>3
  <2>3. QED
    BY <1>0, <1>11, <2>1, <2>2 DEF Ack, Others
<1>12. ASSUME NEW s \in BotSlot, Release(s) PROVE T'
  <2>1. /\ inv' \in [BotSlot -> BotInvocation] /\ Others(s)
        /\ inv'[s].at = "idle" /\ inv[s].at = "release"
    BY <1>12, FinishFacts DEF Release
  <2>2. inv[s].label \in Label /\ inv[s].claimed \in Nat \cup {Unclaimed}
    BY <1>0, <2>1 DEF BotInvocation
  <2>3. owed' \subseteq owed
    BY <1>12, OwedShrinks DEF Release
  <2>4. claim' \in [Label -> Nat \cup {Unclaimed}] /\ stranded' \subseteq Label \X Nat
    BY <1>0, <1>12, <2>2 DEF Release
  <2>5. QED
    BY <1>0, <1>12, <2>1, <2>3, <2>4 DEF Release, Others
<1>13. ASSUME NEW p \in latePuts, LatePut(p) PROVE T'
  <2>1. p[1] \in Label /\ p[2] \in Nat /\ p \in Label \X Nat
    BY <1>0
  <2>2. claim' \in [Label -> Nat \cup {Unclaimed}] /\ stranded' \subseteq Label \X Nat
    BY <1>0, <1>13, <2>1 DEF LatePut
  <2>3. QED
    BY <1>0, <1>13, <2>2 DEF LatePut
<1>14. CASE UNCHANGED botVars
  <2>1. UNCHANGED <<now, owed, deliveries, events, inv, claim, latePuts, markers,
                    botLaunches, excused, stranded>>
    BY <1>14 DEF botVars
  <2>2. T'
    BY <1>0, <2>1
  <2>3. QED
    BY <1>a, <2>2
<1>15. QED
  BY <1>a, <1>1, <1>2, <1>3, <1>4, <1>5, <1>6, <1>7, <1>8, <1>9, <1>10, <1>11, <1>12,
     <1>13, <1>14 DEF BotNext, BotStep

LEMMA HolderBlocks ==
  ASSUME BotIInv, NEW l \in Label, l \notin excused, NEW s \in BotSlot, Holds(s, l)
  PROVE  inv[s].claimed \in Nat /\ claim[l] = inv[s].claimed + ClaimTTL
         /\ claim[l] >= now /\ inv[s].claimed <= now /\ claim[l] # Unclaimed
<1>1. SlotInv(s) /\ LabelInv(l) /\ now \in Nat /\ inv[s] \in BotInvocation
  BY BotTypes DEF BotIInv
<1>2. inv[s].claimed \in Nat /\ claim[l] = inv[s].claimed + ClaimTTL
  BY <1>1 DEF LabelInv
<1>3. /\ inv[s].since \in Nat /\ inv[s].since <= inv[s].claimed /\ inv[s].claimed <= now
      /\ now <= inv[s].since + 1
  BY <1>1, <1>2 DEF SlotInv, Unclaimed, BotInvocation, Holds
<1>4. QED
  BY <1>1, <1>2, <1>3, BotAssumption DEF Unclaimed

(* A step that takes nothing of a label and leaves its claim alone.        *)
LEMMA QuietLabel ==
  ASSUME NEW l \in Label, LabelInv(l), l \notin excused, l \notin excused',
         now' = now, botLaunches'[l] = botLaunches[l], claim'[l] = claim[l],
         \A p \in latePuts' : p \in latePuts \/ p[1] # l,
         \A s \in BotSlot : inv'[s].label = l /\ inv'[s].at \in {"launch", "release"}
                            => Holds(s, l) /\ inv'[s].claimed = inv[s].claimed
  PROVE  LabelInv(l)'
BY DEF LabelInv, Holds

LEMMA LabelStep ==
  ASSUME BotIInv, [BotNext]_botVars, NEW l \in Label
  PROVE  LabelInv(l)'
<1> USE BotAssumption DEF dedup, ghosts
<1> SUFFICES ASSUME l \notin excused' PROVE LabelInv(l)'
  BY DEF LabelInv
<1>0. /\ BotTypeOK /\ LabelInv(l) /\ now \in Nat /\ inv \in [BotSlot -> BotInvocation]
      /\ claim \in [Label -> Nat \cup {Unclaimed}]
      /\ botLaunches \in [Label -> Seq(Nat \cup {Unclaimed})]
      /\ latePuts \subseteq Label \X Nat
      /\ \A s \in BotSlot : SlotInv(s)
      /\ \A s \in BotSlot : inv[s].at # "idle" => inv[s].label \in Label
  BY BotTypes DEF BotIInv
<1>1. ASSUME NEW q \in Label, Tag(q) PROVE LabelInv(l)'
  BY <1>0, <1>1, QuietLabel DEF Tag, Holds
<1>2. ASSUME NEW q \in Label, ExpireClaim(q) PROVE LabelInv(l)'
  <2>1. CASE q # l
    BY <1>0, <1>2, <2>1, QuietLabel DEF ExpireClaim, Holds
  <2>2. CASE q = l
    <3>1. claim[l] < now /\ claim[l] # Unclaimed /\ claim[l] \in Nat /\ l \notin excused
          /\ UNCHANGED <<now, botLaunches, latePuts, inv>>
      BY <1>0, <1>2, <2>2 DEF ExpireClaim
    <3>2. \A s \in BotSlot : ~Holds(s, l)
      BY <1>0, <3>1, HolderBlocks
    <3>3. \A i \in DOMAIN botLaunches[l] :
            botLaunches[l][i] \in Nat /\ botLaunches[l][i] + ClaimTTL < now
      BY <1>0, <3>1 DEF LabelInv
    <3>4. \A s \in BotSlot : ~Holds(s, l)'
      BY <3>1, <3>2 DEF Holds
    <3>5. \A p \in latePuts : p[1] # l
      BY <1>0, <3>1 DEF LabelInv
    <3>6. QED
      BY <3>1, <3>3, <3>4, <3>5 DEF LabelInv
  <2>3. QED
    BY <2>1, <2>2
<1>3. ASSUME NEW s \in BotSlot, NEW q \in Label, Deliver(s, q) \/ StartWorker(s, q)
      PROVE  LabelInv(l)'
  <2>1. Others(s) /\ inv'[s].at \in {"hook", "comments"}
    BY <1>0, <1>3, BeginFacts
  <2>2. UNCHANGED <<now, botLaunches, claim, latePuts, excused>>
    BY <1>3 DEF Deliver, StartWorker
  <2>3. QED
    BY <1>0, <2>1, <2>2, QuietLabel DEF Others, Holds
<1>4. ASSUME NEW s \in BotSlot, Die(s) \/ Ack(s) PROVE LabelInv(l)'
  <2>1. Others(s) /\ inv'[s].at \in {"idle", "ack_again"}
    BY <1>0, <1>4, FinishFacts, MoveFacts DEF Die, Ack, InvocationAt
  <2>2. UNCHANGED <<now, botLaunches, claim, latePuts, excused>>
    BY <1>4 DEF Die, Ack
  <2>3. QED
    BY <1>0, <2>1, <2>2, QuietLabel DEF Others, Holds
<1>5. CASE BotTick
  <2>1. /\ now' = now + 1 /\ UNCHANGED <<botLaunches, claim, latePuts, excused, inv>>
        /\ l \notin excused
    BY <1>5 DEF BotTick
  <2>2. \A i \in DOMAIN botLaunches[l] :
          /\ botLaunches[l][i] \in Nat
          /\ botLaunches[l][i] + ClaimTTL < now + 1 \/ botLaunches[l][i] + ClaimTTL = claim[l]
    BY <1>0, <2>1 DEF LabelInv
  <2>3. QED
    BY <1>0, <2>1, <2>2 DEF LabelInv, Holds
<1>6. ASSUME NEW s \in BotSlot, VerifySignature(s) \/ Enqueue(s) \/ CheckComments(s)
      PROVE  LabelInv(l)'
  <2>1. Others(s) /\ inv'[s].at \in {"idle", "enqueue", "comments", "claim"}
    BY <1>0, <1>6, FinishFacts, MoveFacts DEF VerifySignature, Enqueue, CheckComments,
         InvocationAt
  <2>2. UNCHANGED <<now, botLaunches, claim, latePuts, excused>>
    BY <1>6 DEF VerifySignature, Enqueue, CheckComments
  <2>3. QED
    BY <1>0, <2>1, <2>2, QuietLabel DEF Others, Holds
<1>7. ASSUME NEW s \in BotSlot, Acquire(s) PROVE LabelInv(l)'
  <2>0. inv[s].at = "claim" /\ inv[s].label \in Label /\ UNCHANGED <<now, botLaunches>>
    BY <1>0, <1>7 DEF Acquire
  <2>1. CASE inv[s].label # l
    <3>1. Others(s) /\ (inv'[s].at = "idle" \/ inv'[s].label = inv[s].label)
      BY <1>0, <1>7, FinishFacts, ProceedFacts DEF Acquire
    <3>2. /\ claim' = claim \/ claim' = [claim EXCEPT ![inv[s].label] = now + ClaimTTL]
          /\ latePuts' \subseteq latePuts \cup {<<inv[s].label, now + ClaimTTL>>}
          /\ excused' \subseteq excused \cup {inv[s].label} /\ excused \subseteq excused'
      BY <1>7 DEF Acquire
    <3>3. claim'[l] = claim[l] /\ l \notin excused
      BY <1>0, <2>0, <2>1, <3>2
    <3>4. \A p \in latePuts' : p \in latePuts \/ p[1] # l
      BY <2>1, <3>2
    <3>5. \A t \in BotSlot : inv'[t].label = l /\ inv'[t].at \in {"launch", "release"}
                            => Holds(t, l) /\ inv'[t].claimed = inv[t].claimed
      BY <2>1, <3>1 DEF Others, Holds
    <3>6. QED
      BY <1>0, <2>0, <3>3, <3>4, <3>5, QuietLabel
  <2>2. CASE inv[s].label = l
    <3>1. \/ /\ ClaimFree(l) /\ claim' = [claim EXCEPT ![l] = now + ClaimTTL] /\ Proceed(s, now)
             /\ UNCHANGED <<latePuts, excused>>
          \/ Finish(s) /\ UNCHANGED <<claim, latePuts, excused>>
      BY <1>7, <2>2 DEF Acquire
    <3>2. l \notin excused
      BY <3>1
    <3>3. CASE Finish(s) /\ UNCHANGED <<claim, latePuts, excused>>
      <4>1. Others(s) /\ inv'[s].at = "idle"
        BY <1>0, <3>3, FinishFacts
      <4>2. QED
        BY <1>0, <2>0, <3>2, <3>3, <4>1, QuietLabel DEF Others, Holds
    <3>4. CASE /\ ClaimFree(l) /\ claim' = [claim EXCEPT ![l] = now + ClaimTTL]
               /\ Proceed(s, now) /\ UNCHANGED <<latePuts, excused>>
      <4>1. claim[l] = Unclaimed \/ (claim[l] \in Nat /\ claim[l] < now)
        BY <1>0, <3>4 DEF ClaimFree
      <4>2. \A t \in BotSlot : ~Holds(t, l)
        BY <3>2, <4>1, <1>0, HolderBlocks
      <4>3. \A i \in DOMAIN botLaunches[l] :
              botLaunches[l][i] \in Nat /\ botLaunches[l][i] + ClaimTTL < now
        BY <1>0, <3>2, <4>1 DEF LabelInv, Unclaimed
      <4>4. Others(s) /\ inv'[s].claimed = now
        BY <1>0, <3>4, ProceedFacts
      <4>5. claim'[l] = now + ClaimTTL
        BY <1>0, <3>4
      <4>6. \A t \in BotSlot : Holds(t, l)' => t = s
        BY <4>2, <4>4 DEF Others, Holds
      <4>7. \A p \in latePuts : p[1] # l
        BY <1>0, <3>2 DEF LabelInv
      <4>8. QED
        BY <1>0, <2>0, <3>4, <4>3, <4>4, <4>5, <4>6, <4>7 DEF LabelInv
    <3>5. QED
      BY <3>1, <3>3, <3>4
  <2>3. QED
    BY <2>1, <2>2
<1>8. ASSUME NEW s \in BotSlot, Launch(s) PROVE LabelInv(l)'
  <2>0. /\ inv[s].at = "launch" /\ inv[s].label \in Label /\ UNCHANGED <<now, claim, latePuts>>
        /\ excused \subseteq excused' /\ l \notin excused
    BY <1>0, <1>8 DEF Launch
  <2>1. /\ Others(s) /\ inv'[s].label = inv[s].label /\ inv'[s].claimed = inv[s].claimed
        /\ inv'[s].at \in {"ack", "release"}
    BY <1>0, <1>8, MoveFacts DEF Launch, InvocationAt
  <2>2. \A t \in BotSlot : Holds(t, l)' => Holds(t, l) /\ inv'[t].claimed = inv[t].claimed
    BY <2>0, <2>1 DEF Others, Holds
  <2>3. CASE botLaunches'[l] = botLaunches[l]
    BY <1>0, <2>0, <2>2, <2>3, QuietLabel DEF Holds
  <2>4. CASE botLaunches'[l] # botLaunches[l]
    <3>1. /\ inv[s].label = l /\ inv'[s].at = "ack" /\ UNCHANGED excused
          /\ botLaunches'[l] = Append(botLaunches[l], inv[s].claimed)
      <4>1. \/ botLaunches' = [botLaunches EXCEPT ![inv[s].label] = Append(@, inv[s].claimed)]
               /\ Move(s, "ack") /\ UNCHANGED excused
            \/ UNCHANGED botLaunches
            \/ botLaunches' = [botLaunches EXCEPT ![inv[s].label] = Append(@, inv[s].claimed)]
               /\ excused' = excused \cup {inv[s].label}
        BY <1>8 DEF Launch
      <4>2. \/ botLaunches' = [botLaunches EXCEPT ![inv[s].label] = Append(@, inv[s].claimed)]
               /\ Move(s, "ack") /\ UNCHANGED excused /\ inv[s].label = l
            \/ botLaunches' = [botLaunches EXCEPT ![inv[s].label] = Append(@, inv[s].claimed)]
               /\ excused' = excused \cup {inv[s].label} /\ inv[s].label = l
        BY <1>0, <2>0, <2>4, <4>1
      <4>3. /\ botLaunches' = [botLaunches EXCEPT ![l] = Append(@, inv[s].claimed)]
            /\ Move(s, "ack") /\ UNCHANGED excused /\ inv[s].label = l
        BY <4>2
      <4>4. inv'[s].at = "ack"
        BY <1>0, <4>3, MoveFacts DEF InvocationAt
      <4>5. QED
        BY <1>0, <4>3, <4>4
    <3>2. Holds(s, l)
      BY <2>0, <3>1 DEF Holds
    <3>3. /\ inv[s].claimed \in Nat /\ claim[l] = inv[s].claimed + ClaimTTL
          /\ \A t \in BotSlot : Holds(t, l) => t = s
          /\ \A p \in latePuts : p[1] # l
          /\ \A i \in DOMAIN botLaunches[l] :
               /\ botLaunches[l][i] \in Nat
               /\ botLaunches[l][i] + ClaimTTL < now \/ botLaunches[l][i] + ClaimTTL = claim[l]
      BY <1>0, <2>0, <3>2 DEF LabelInv
    <3>4. botLaunches[l] \in Seq(Nat \cup {Unclaimed})
      BY <1>0
    <3>5. \A i \in DOMAIN botLaunches'[l] :
               /\ botLaunches'[l][i] \in Nat
               /\ botLaunches'[l][i] + ClaimTTL < now \/ botLaunches'[l][i] + ClaimTTL = claim[l]
      BY <3>1, <3>3, <3>4
    <3>6. \A t \in BotSlot : ~Holds(t, l)'
      BY <2>2, <3>1, <3>3 DEF Holds
    <3>7. QED
      BY <2>0, <3>3, <3>5, <3>6 DEF LabelInv
  <2>5. QED
    BY <2>3, <2>4
<1>9. ASSUME NEW s \in BotSlot, Release(s) PROVE LabelInv(l)'
  <2>0. /\ inv[s].at = "release" /\ inv[s].label \in Label
        /\ UNCHANGED <<now, latePuts, excused, botLaunches>>
        /\ claim' = [claim EXCEPT ![inv[s].label] = Unclaimed] \/ UNCHANGED claim
    BY <1>0, <1>9 DEF Release
  <2>1. Others(s) /\ inv'[s].at = "idle"
    BY <1>0, <1>9, FinishFacts DEF Release
  <2>2. \A t \in BotSlot : Holds(t, l)' => Holds(t, l) /\ inv'[t].claimed = inv[t].claimed /\ t # s
    BY <2>1 DEF Others, Holds
  <2>3. CASE claim'[l] = claim[l]
    BY <1>0, <2>0, <2>2, <2>3, QuietLabel DEF Holds
  <2>4. CASE claim'[l] # claim[l]
    <3>1. Holds(s, l)
      BY <1>0, <2>0, <2>4 DEF Holds
    <3>2. /\ \A t \in BotSlot : Holds(t, l) => t = s
          /\ \A p \in latePuts : p[1] # l
          /\ \A i \in DOMAIN botLaunches[l] :
               botLaunches[l][i] \in Nat /\ botLaunches[l][i] + ClaimTTL < inv[s].claimed
      BY <1>0, <2>0, <3>1 DEF LabelInv
    <3>3. inv[s].claimed \in Nat /\ inv[s].claimed <= now
      BY <2>0, <3>1, HolderBlocks
    <3>4. \A i \in DOMAIN botLaunches[l] :
               botLaunches[l][i] \in Nat /\ botLaunches[l][i] + ClaimTTL < now
      BY <1>0, <3>2, <3>3
    <3>5. \A t \in BotSlot : ~Holds(t, l)'
      BY <2>2, <3>2
    <3>6. QED
      BY <2>0, <3>2, <3>4, <3>5 DEF LabelInv
  <2>5. QED
    BY <2>3, <2>4
<1>10. ASSUME NEW p \in latePuts, LatePut(p) PROVE LabelInv(l)'
  <2>1. /\ UNCHANGED <<now, inv, botLaunches, excused>> /\ latePuts' \subseteq latePuts
        /\ claim' = [claim EXCEPT ![p[1]] = p[2]] \/ UNCHANGED claim
    BY <1>10 DEF LatePut
  <2>2. p[1] # l /\ p[1] \in Label
    BY <1>0, <2>1 DEF LabelInv
  <2>3. claim'[l] = claim[l]
    BY <1>0, <2>1, <2>2
  <2>4. QED
    BY <1>0, <2>1, <2>3, QuietLabel DEF Holds
<1>11. CASE UNCHANGED botVars
  <2>1. UNCHANGED <<now, inv, claim, latePuts, botLaunches, excused>>
    BY <1>11 DEF botVars
  <2>2. QED
    BY <1>0, <2>1, QuietLabel DEF Holds
<1>12. QED
  BY <1>1, <1>2, <1>3, <1>4, <1>5, <1>6, <1>7, <1>8, <1>9, <1>10, <1>11 DEF BotNext, BotStep

(* The launches of a label only get more.                                  *)
Grown(l) ==
  botLaunches'[l] = botLaunches[l] \/ \E c \in Nat \cup {Unclaimed} : botLaunches'[l] = Append(botLaunches[l], c)

LEMMA LaunchesGrow ==
  ASSUME BotTypeOK, [BotNext]_botVars, NEW l \in Label
  PROVE  Grown(l)
<1> USE DEF ghosts, Grown
<1>0. /\ botLaunches \in [Label -> Seq(Nat \cup {Unclaimed})] /\ inv \in [BotSlot -> BotInvocation]
  BY BotTypes
<1>1. ASSUME NEW s \in BotSlot, Launch(s) PROVE Grown(l)
  <2>1. inv[s].claimed \in Nat \cup {Unclaimed}
    BY <1>0 DEF BotInvocation
  <2>2. \/ botLaunches' = [botLaunches EXCEPT ![inv[s].label] = Append(@, inv[s].claimed)]
        \/ botLaunches' = botLaunches
    BY <1>1 DEF Launch
  <2>3. QED
    BY <1>0, <2>1, <2>2
<1>2. ASSUME NEW s \in BotSlot, Die(s) \/ VerifySignature(s) \/ Enqueue(s) \/ CheckComments(s)
                   \/ Acquire(s) \/ Ack(s) \/ Release(s)
      PROVE  botLaunches' = botLaunches
  BY <1>2 DEF Die, VerifySignature, Enqueue, CheckComments, Acquire, Ack, Release
<1>3. ASSUME NEW q \in Label, Tag(q) \/ ExpireClaim(q) PROVE botLaunches' = botLaunches
  BY <1>3 DEF Tag, ExpireClaim
<1>4. ASSUME NEW s \in BotSlot, NEW q \in Label, Deliver(s, q) \/ StartWorker(s, q)
      PROVE botLaunches' = botLaunches
  BY <1>4 DEF Deliver, StartWorker
<1>5. ASSUME NEW p \in latePuts, LatePut(p) PROVE botLaunches' = botLaunches
  BY <1>5 DEF LatePut
<1>6. BotTick \/ UNCHANGED botVars => botLaunches' = botLaunches
  BY DEF BotTick, botVars
<1>7. QED
  BY <1>1, <1>2, <1>3, <1>4, <1>5, <1>6 DEF BotNext, BotStep

LEMMA GrownFacts ==
  ASSUME BotTypeOK, NEW l \in Label, Grown(l)
  PROVE  /\ botLaunches[l] # <<>> => botLaunches'[l] # <<>>
         /\ \A i \in DOMAIN botLaunches[l] :
              i \in DOMAIN botLaunches'[l] /\ botLaunches'[l][i] = botLaunches[l][i]
<1>1. botLaunches[l] \in Seq(Nat \cup {Unclaimed})
  BY BotTypes
<1>2. QED
  BY <1>1 DEF Grown

(* Two launches of a label are further apart than a claim lives.           *)
LEMMA ApartStep ==
  ASSUME BotIInv, [BotNext]_botVars PROVE OneLaunchPerClaim'
<1> SUFFICES ASSUME NEW l \in Label, l \notin excused',
                    NEW i \in DOMAIN botLaunches'[l], NEW j \in DOMAIN botLaunches'[l], i < j
             PROVE  botLaunches'[l][i] + ClaimTTL < botLaunches'[l][j]
  BY DEF OneLaunchPerClaim
<1>0. /\ BotTypeOK /\ LabelInv(l) /\ OneLaunchPerClaim
      /\ inv \in [BotSlot -> BotInvocation]
      /\ botLaunches \in [Label -> Seq(Nat \cup {Unclaimed})]
  BY BotTypes DEF BotIInv
<1>1. excused \subseteq excused'
  BY DEF BotNext, BotStep, botVars, ghosts, Tag, ExpireClaim, Deliver, StartWorker, Die, BotTick,
     VerifySignature, Enqueue, CheckComments, Acquire, Launch, Ack, Release, LatePut
<1>2. CASE botLaunches'[l] = botLaunches[l]
  BY <1>0, <1>1, <1>2 DEF OneLaunchPerClaim
<1>3. CASE botLaunches'[l] # botLaunches[l]
  <2>1. PICK s \in BotSlot : Launch(s)
    BY <1>3 DEF BotNext, BotStep, botVars, ghosts, Tag, ExpireClaim, Deliver, StartWorker, Die, BotTick,
       VerifySignature, Enqueue, CheckComments, Acquire, Ack, Release, LatePut
  <2>2. /\ inv[s].label = l /\ inv[s].at = "launch"
        /\ botLaunches'[l] = Append(botLaunches[l], inv[s].claimed)
    <3>1. /\ inv[s].at = "launch"
          /\ \/ botLaunches' = [botLaunches EXCEPT ![inv[s].label] = Append(@, inv[s].claimed)]
             \/ botLaunches' = botLaunches
      BY <2>1 DEF Launch, ghosts
    <3>2. QED
      BY <1>0, <1>3, <3>1
  <2>3. /\ inv[s].claimed \in Nat
        /\ \A k \in DOMAIN botLaunches[l] : botLaunches[l][k] + ClaimTTL < inv[s].claimed
    BY <1>0, <1>1, <2>2 DEF LabelInv, Holds
  <2>4. botLaunches[l] \in Seq(Nat \cup {Unclaimed})
    BY <1>0
  <2>5. i \in DOMAIN botLaunches[l] /\ botLaunches'[l][i] = botLaunches[l][i]
    BY <2>2, <2>4
  <2>6. CASE j \in DOMAIN botLaunches[l]
    <3>1. botLaunches'[l][j] = botLaunches[l][j]
      BY <2>2, <2>4, <2>6
    <3>2. QED
      BY <1>0, <1>1, <2>5, <2>6, <3>1 DEF OneLaunchPerClaim
  <2>7. CASE j \notin DOMAIN botLaunches[l]
    <3>1. botLaunches'[l][j] = inv[s].claimed
      BY <2>2, <2>4, <2>7
    <3>2. QED
      BY <2>3, <2>5, <3>1
  <2>8. QED
    BY <2>6, <2>7
<1>4. QED
  BY <1>2, <1>3

(* An invocation that a step leaves alone.                                 *)
LEMMA QuietSlot ==
  ASSUME BotTypeOK, NEW t \in BotSlot, SlotInv(t), inv'[t] = inv[t], now' = now,
         \A l \in Label : Grown(l)
  PROVE  SlotInv(t)'
<1>1. inv[t].at # "idle" => inv[t].label \in Label
  BY BotTypes
<1>2. CASE inv[t].at \in {"ack", "ack_again"}
  <2>1. inv[t].label \in Label
    BY <1>1, <1>2
  <2>2. /\ botLaunches'[inv[t].label] # <<>>
        /\ inv[t].claimed # Unclaimed =>
             \E i \in DOMAIN botLaunches'[inv[t].label] :
               botLaunches'[inv[t].label][i] = inv[t].claimed
    BY <1>2, <2>1, GrownFacts DEF SlotInv
  <2>3. QED
    BY <1>2, <2>2 DEF SlotInv
<1>3. CASE inv[t].at \notin {"ack", "ack_again"}
  BY <1>3 DEF SlotInv
<1>4. QED
  BY <1>2, <1>3

LEMMA SlotStep ==
  ASSUME BotIInv, [BotNext]_botVars, NEW t \in BotSlot
  PROVE  SlotInv(t)'
<1> USE DEF ghosts, dedup
<1>0. /\ BotTypeOK /\ SlotInv(t) /\ now \in Nat /\ inv \in [BotSlot -> BotInvocation]
      /\ botLaunches \in [Label -> Seq(Nat \cup {Unclaimed})]
      /\ \A l \in Label : Grown(l)
      /\ \A s \in BotSlot : inv[s].at # "idle" => inv[s].label \in Label
  BY BotTypes, LaunchesGrow DEF BotIInv
<1>1. CASE BotTick
  <2>1. now' = now + 1 /\ UNCHANGED <<inv, botLaunches>> /\ (inv[t].at = "idle" \/ inv[t].since = now)
    BY <1>1 DEF BotTick
  <2>2. QED
    BY <1>0, <2>1 DEF SlotInv, Unclaimed, BotInvocation
<1>2. ASSUME NEW s \in BotSlot, NEW l \in Label, Deliver(s, l) \/ StartWorker(s, l)
      PROVE  SlotInv(t)'
  <2>1. /\ Others(s) /\ now' = now
        /\ inv'[s].at \in {"hook", "comments"} /\ inv'[s].since = now /\ inv'[s].claimed = Unclaimed
    BY <1>0, <1>2, BeginFacts DEF Deliver, StartWorker
  <2>2. QED
    BY <1>0, <2>1, QuietSlot DEF Others, SlotInv
<1>3. ASSUME NEW s \in BotSlot, Die(s) \/ VerifySignature(s) \/ Enqueue(s) \/ CheckComments(s)
                   \/ Release(s)
      PROVE  SlotInv(t)'
  <2>1. \/ Others(s) /\ inv'[s].at = "idle" /\ inv'[s].label = Unclaimed /\ inv'[s].claimed = Unclaimed
        \/ /\ Others(s) /\ inv'[s].at \in {"enqueue", "comments", "claim"}
           /\ inv[s].at \in {"hook", "enqueue", "comments"}
           /\ inv'[s].since = inv[s].since /\ inv'[s].claimed = inv[s].claimed
    BY <1>0, <1>3, FinishFacts, MoveFacts
       DEF Die, VerifySignature, Enqueue, CheckComments, Release, InvocationAt
  <2>2. now' = now
    BY <1>3 DEF Die, VerifySignature, Enqueue, CheckComments, Release
  <2>3. QED
    BY <1>0, <2>1, <2>2, QuietSlot DEF Others, SlotInv
<1>4. ASSUME NEW s \in BotSlot, Acquire(s) PROVE SlotInv(t)'
  <2>1. now' = now /\ inv[s].at = "claim"
    BY <1>4 DEF Acquire
  <2>2. \/ Others(s) /\ inv'[s].at = "idle" /\ inv'[s].label = Unclaimed /\ inv'[s].claimed = Unclaimed
        \/ /\ Others(s) /\ inv'[s].at = "launch" /\ inv'[s].since = inv[s].since
           /\ inv'[s].claimed \in {now, Unclaimed}
    BY <1>0, <1>4, FinishFacts, ProceedFacts DEF Acquire
  <2>3. QED
    BY <1>0, <2>1, <2>2, QuietSlot DEF Others, SlotInv
<1>5. ASSUME NEW s \in BotSlot, Launch(s) PROVE SlotInv(t)'
  <2>1. now' = now /\ inv[s].at = "launch" /\ inv[s].label \in Label
    BY <1>0, <1>5 DEF Launch
  <2>2. /\ Others(s) /\ inv'[s].at \in {"ack", "release"} /\ inv'[s].since = inv[s].since
        /\ inv'[s].claimed = inv[s].claimed /\ inv'[s].label = inv[s].label
    BY <1>0, <1>5, MoveFacts DEF Launch, InvocationAt
  <2>3. CASE t # s
    BY <1>0, <2>1, <2>2, <2>3, QuietSlot DEF Others
  <2>4. CASE t = s /\ inv'[s].at = "release"
    BY <1>0, <2>1, <2>2, <2>4 DEF SlotInv
  <2>5. CASE t = s /\ inv'[s].at = "ack"
    <3>1. botLaunches' = [botLaunches EXCEPT ![inv[s].label] = Append(@, inv[s].claimed)]
      <4>1. \/ botLaunches' = [botLaunches EXCEPT ![inv[s].label] = Append(@, inv[s].claimed)]
            \/ Move(s, "release")
        BY <1>5 DEF Launch
      <4>2. Move(s, "release") => inv'[s].at = "release"
        BY <1>0, MoveFacts DEF InvocationAt
      <4>3. QED
        BY <2>5, <4>1, <4>2
    <3>2. /\ botLaunches[inv[s].label] \in Seq(Nat \cup {Unclaimed})
          /\ inv[s].claimed \in Nat \cup {Unclaimed}
          /\ botLaunches'[inv[s].label] = Append(botLaunches[inv[s].label], inv[s].claimed)
      BY <1>0, <2>1, <3>1 DEF BotInvocation
    <3>3. LET n == Len(botLaunches[inv[s].label]) + 1
          IN  n \in DOMAIN botLaunches'[inv[s].label]
              /\ botLaunches'[inv[s].label][n] = inv[s].claimed
      BY <3>2
    <3>4. botLaunches'[inv[s].label] # <<>>
      BY <3>3
    <3>5. QED
      BY <1>0, <2>1, <2>2, <2>5, <3>3, <3>4 DEF SlotInv
  <2>6. QED
    BY <2>2, <2>3, <2>4, <2>5
<1>6. ASSUME NEW s \in BotSlot, Ack(s) PROVE SlotInv(t)'
  <2>1. now' = now /\ UNCHANGED botLaunches
    BY <1>6 DEF Ack
  <2>2. \/ Others(s) /\ inv'[s].at = "idle" /\ inv'[s].label = Unclaimed /\ inv'[s].claimed = Unclaimed
        \/ /\ Others(s) /\ inv'[s].at = "ack_again" /\ inv[s].at = "ack"
           /\ inv'[s].since = inv[s].since
           /\ inv'[s].claimed = inv[s].claimed /\ inv'[s].label = inv[s].label
    BY <1>0, <1>6, FinishFacts, MoveFacts DEF Ack, InvocationAt
  <2>3. CASE t # s
    BY <1>0, <2>1, <2>2, <2>3, QuietSlot DEF Others
  <2>4. CASE t = s
    BY <1>0, <2>1, <2>2, <2>4 DEF SlotInv
  <2>5. QED
    BY <2>3, <2>4
<1>7. ASSUME NEW q \in Label, Tag(q) \/ ExpireClaim(q) PROVE SlotInv(t)'
  BY <1>0, <1>7, QuietSlot DEF Tag, ExpireClaim
<1>8. ASSUME NEW p \in latePuts, LatePut(p) PROVE SlotInv(t)'
  BY <1>0, <1>8, QuietSlot DEF LatePut
<1>9. CASE UNCHANGED botVars
  <2>1. inv' = inv /\ now' = now
    BY <1>9 DEF botVars
  <2>2. QED
    BY <1>0, <2>1, QuietSlot
<1>10. QED
  BY <1>1, <1>2, <1>3, <1>4, <1>5, <1>6, <1>7, <1>8, <1>9 DEF BotNext, BotStep

(* Somebody answers for the claim of a label.                              *)
Answered(l) ==
  \/ \E i \in DOMAIN botLaunches[l] : Took(botLaunches[l][i], l)
  \/ \E s \in BotSlot : inv[s].label = l /\ Took(inv[s].claimed, l)
  \/ <<l, claim[l]>> \in stranded

(* A claim that a step leaves alone stays answered, if who gives it up     *)
(* launched an agent or leaves it stranded.                                *)
LEMMA KeepsAnswer ==
  ASSUME BotTypeOK, NEW l \in Label, Grown(l), Answered(l), claim'[l] = claim[l],
         stranded \subseteq stranded',
         \A s \in BotSlot : inv[s].label = l /\ Took(inv[s].claimed, l) =>
           \/ inv'[s].label = l /\ inv'[s].claimed = inv[s].claimed
           \/ <<l, claim[l]>> \in stranded'
           \/ \E i \in DOMAIN botLaunches[l] : botLaunches[l][i] = inv[s].claimed
  PROVE  Answered(l)'
<1>1. CASE \E i \in DOMAIN botLaunches[l] : Took(botLaunches[l][i], l)
  BY <1>1, GrownFacts DEF Answered, Took
<1>2. CASE \E s \in BotSlot : inv[s].label = l /\ Took(inv[s].claimed, l)
  <2>1. PICK s \in BotSlot : inv[s].label = l /\ Took(inv[s].claimed, l)
    BY <1>2
  <2>2. CASE \E i \in DOMAIN botLaunches[l] : botLaunches[l][i] = inv[s].claimed
    BY <2>1, <2>2, GrownFacts DEF Answered, Took
  <2>3. CASE inv'[s].label = l /\ inv'[s].claimed = inv[s].claimed
    BY <2>1, <2>3 DEF Answered, Took
  <2>4. QED
    BY <2>1, <2>2, <2>3 DEF Answered
<1>3. CASE <<l, claim[l]>> \in stranded
  BY <1>3 DEF Answered
<1>4. QED
  BY <1>1, <1>2, <1>3 DEF Answered

(* A claim that still blocks is answered for.                              *)
LEMMA AnswerStep ==
  ASSUME BotIInv, [BotNext]_botVars, NEW l \in Label, claim'[l] >= now'
  PROVE  Answered(l)'
<1> USE BotAssumption DEF dedup, ghosts
<1>0. /\ BotTypeOK /\ now \in Nat /\ inv \in [BotSlot -> BotInvocation]
      /\ claim \in [Label -> Nat \cup {Unclaimed}]
      /\ latePuts \subseteq Label \X Nat
      /\ \A s \in BotSlot : SlotInv(s)
      /\ \A s \in BotSlot : inv[s].at # "idle" => inv[s].label \in Label
      /\ Grown(l) /\ (claim[l] >= now => Answered(l))
  BY BotTypes, LaunchesGrow DEF BotIInv, ClaimAnswered, Answered
<1>1. ASSUME NEW q \in Label, Tag(q) PROVE Answered(l)'
  BY <1>0, <1>1, KeepsAnswer DEF Tag
<1>2. ASSUME NEW q \in Label, ExpireClaim(q) PROVE Answered(l)'
  <2>1. now' = now /\ UNCHANGED <<inv, botLaunches, stranded>>
    BY <1>2 DEF ExpireClaim
  <2>2. claim'[l] = claim[l]
    BY <1>0, <1>2, <2>1 DEF ExpireClaim, Unclaimed
  <2>3. QED
    BY <1>0, <2>1, <2>2, KeepsAnswer
<1>3. ASSUME NEW s \in BotSlot, NEW q \in Label, Deliver(s, q) \/ StartWorker(s, q)
      PROVE  Answered(l)'
  <2>1. Others(s) /\ inv[s].at = "idle" /\ UNCHANGED <<now, claim, stranded>>
    BY <1>0, <1>3, BeginFacts DEF Deliver, StartWorker
  <2>2. inv[s].claimed = Unclaimed
    BY <1>0, <2>1 DEF SlotInv
  <2>3. QED
    BY <1>0, <2>1, <2>2, KeepsAnswer DEF Others, Took
<1>4. ASSUME NEW s \in BotSlot, Die(s) PROVE Answered(l)'
  <2>1. Others(s) /\ UNCHANGED <<now, claim>>
    BY <1>0, <1>4, FinishFacts DEF Die
  <2>2. /\ stranded \subseteq stranded'
        /\ inv[s].at \in {"launch", "release"} /\ inv[s].claimed # Unclaimed
           => <<inv[s].label, inv[s].claimed + ClaimTTL>> \in stranded'
    BY <1>4 DEF Die
  <2>3. inv[s].label = l /\ Took(inv[s].claimed, l) =>
           \/ <<l, claim[l]>> \in stranded'
           \/ \E i \in DOMAIN botLaunches[l] : botLaunches[l][i] = inv[s].claimed
    BY <1>0, <2>2 DEF SlotInv, Took
  <2>4. QED
    BY <1>0, <2>1, <2>2, <2>3, KeepsAnswer DEF Others
<1>5. CASE BotTick
  <2>1. now' = now + 1 /\ UNCHANGED <<inv, claim, botLaunches, stranded>>
    BY <1>5 DEF BotTick
  <2>2. claim[l] \in Nat \cup {Unclaimed} /\ claim[l] >= now
    BY <1>0, <2>1 DEF Unclaimed
  <2>3. QED
    BY <1>0, <2>1, <2>2, KeepsAnswer
<1>6. ASSUME NEW s \in BotSlot, VerifySignature(s) \/ Enqueue(s) \/ CheckComments(s)
      PROVE  Answered(l)'
  <2>1. /\ inv[s].at \in {"hook", "enqueue", "comments"} /\ Others(s)
        /\ UNCHANGED <<now, claim, stranded>>
    BY <1>0, <1>6, FinishFacts, MoveFacts DEF VerifySignature, Enqueue, CheckComments, InvocationAt
  <2>2. inv[s].claimed = Unclaimed
    BY <1>0, <2>1 DEF SlotInv
  <2>3. QED
    BY <1>0, <2>1, <2>2, KeepsAnswer DEF Others, Took
<1>7. ASSUME NEW s \in BotSlot, Acquire(s) PROVE Answered(l)'
  <2>1. /\ inv[s].at = "claim" /\ now' = now /\ inv[s].label \in Label
        /\ stranded \subseteq stranded'
        /\ \/ /\ claim' = [claim EXCEPT ![inv[s].label] = now + ClaimTTL]
              /\ Proceed(s, now) \/ <<inv[s].label, now + ClaimTTL>> \in stranded'
           \/ claim' = claim
    BY <1>0, <1>7 DEF Acquire
  <2>2. /\ Others(s)
        /\ Proceed(s, now) => inv'[s].label = inv[s].label /\ inv'[s].claimed = now
    BY <1>0, <1>7, FinishFacts, ProceedFacts DEF Acquire
  <2>3. inv[s].claimed = Unclaimed
    BY <1>0, <2>1 DEF SlotInv
  <2>4. CASE claim'[l] = claim[l]
    BY <1>0, <2>1, <2>2, <2>3, <2>4, KeepsAnswer DEF Others, Took
  <2>5. CASE claim'[l] # claim[l]
    <3>1. inv[s].label = l /\ claim'[l] = now + ClaimTTL
          /\ (Proceed(s, now) \/ <<l, claim'[l]>> \in stranded')
      BY <1>0, <2>1, <2>5
    <3>2. now # Unclaimed
      BY <1>0 DEF Unclaimed
    <3>3. QED
      BY <2>2, <3>1, <3>2 DEF Answered, Took
  <2>6. QED
    BY <2>4, <2>5
<1>8. ASSUME NEW s \in BotSlot, Launch(s) PROVE Answered(l)'
  <2>1. Others(s) /\ inv'[s].label = inv[s].label /\ inv'[s].claimed = inv[s].claimed
        /\ UNCHANGED <<now, claim, stranded>>
    BY <1>0, <1>8, MoveFacts DEF Launch, InvocationAt
  <2>2. QED
    BY <1>0, <2>1, KeepsAnswer DEF Others
<1>9. ASSUME NEW s \in BotSlot, Ack(s) PROVE Answered(l)'
  <2>1. /\ Others(s) /\ inv[s].at \in {"ack", "ack_again"}
        /\ UNCHANGED <<now, claim, stranded>>
    BY <1>0, <1>9, FinishFacts, MoveFacts DEF Ack, InvocationAt
  <2>2. inv[s].label = l /\ Took(inv[s].claimed, l) =>
           \E i \in DOMAIN botLaunches[l] : botLaunches[l][i] = inv[s].claimed
    BY <1>0, <2>1 DEF SlotInv, Took
  <2>3. QED
    BY <1>0, <2>1, <2>2, KeepsAnswer DEF Others
<1>10. ASSUME NEW s \in BotSlot, Release(s) PROVE Answered(l)'
  <2>1. /\ Others(s) /\ now' = now /\ inv[s].label \in Label
        /\ stranded \subseteq stranded'
    BY <1>0, <1>10, FinishFacts DEF Release
  <2>2. CASE UNCHANGED claim
    <3>1. inv[s].claimed # Unclaimed /\ claim' # [claim EXCEPT ![inv[s].label] = Unclaimed]
          => <<inv[s].label, inv[s].claimed + ClaimTTL>> \in stranded'
      BY <1>10 DEF Release
    <3>2. inv[s].label = l => claim' # [claim EXCEPT ![inv[s].label] = Unclaimed]
      BY <1>0, <2>1, <2>2 DEF Unclaimed
    <3>3. inv[s].label = l /\ Took(inv[s].claimed, l) => <<l, claim[l]>> \in stranded'
      BY <3>1, <3>2 DEF Took
    <3>4. QED
      BY <1>0, <2>1, <2>2, <3>3, KeepsAnswer DEF Others
  <2>3. CASE claim' = [claim EXCEPT ![inv[s].label] = Unclaimed]
    <3>1. inv[s].label # l
      BY <1>0, <2>1, <2>3 DEF Unclaimed
    <3>2. claim'[l] = claim[l]
      BY <1>0, <2>1, <2>3, <3>1
    <3>3. QED
      BY <1>0, <2>1, <3>1, <3>2, KeepsAnswer DEF Others
  <2>4. QED
    BY <1>10, <2>2, <2>3 DEF Release
<1>11. ASSUME NEW p \in latePuts, LatePut(p) PROVE Answered(l)'
  <2>1. /\ UNCHANGED <<now, inv, botLaunches>> /\ stranded \subseteq stranded'
        /\ p = <<p[1], p[2]>> /\ p[1] \in Label
        /\ \/ claim' = [claim EXCEPT ![p[1]] = p[2]] /\ p \in stranded'
           \/ UNCHANGED claim
    BY <1>0, <1>11 DEF LatePut
  <2>2. CASE claim'[l] = claim[l]
    BY <1>0, <2>1, <2>2, KeepsAnswer
  <2>3. CASE claim'[l] # claim[l]
    <3>1. p[1] = l /\ claim'[l] = p[2] /\ p \in stranded'
      BY <1>0, <2>1, <2>3
    <3>2. QED
      BY <2>1, <3>1 DEF Answered
  <2>4. QED
    BY <2>2, <2>3
<1>12. CASE UNCHANGED botVars
  <2>1. UNCHANGED <<now, inv, claim, botLaunches, stranded>>
    BY <1>12 DEF botVars
  <2>2. QED
    BY <1>0, <2>1, KeepsAnswer
<1>13. QED
  BY <1>1, <1>2, <1>3, <1>4, <1>5, <1>6, <1>7, <1>8, <1>9, <1>10, <1>11, <1>12
     DEF BotNext, BotStep

(* A marker on the task means that an agent was launched.                  *)
LEMMA MarkerStep ==
  ASSUME BotIInv, [BotNext]_botVars, NEW m \in markers'
  PROVE  m[1] \in Label => botLaunches'[m[1]] # <<>>
<1> SUFFICES ASSUME m[1] \in Label PROVE botLaunches'[m[1]] # <<>>
  OBVIOUS
<1>0. /\ BotTypeOK /\ Grown(m[1]) /\ inv \in [BotSlot -> BotInvocation]
  BY BotTypes, LaunchesGrow DEF BotIInv
<1>1. CASE m \in markers
  <2>1. botLaunches[m[1]] # <<>>
    BY <1>1 DEF BotIInv, ClaimAnswered
  <2>2. QED
    BY <1>0, <2>1, GrownFacts
<1>2. CASE m \notin markers
  <2>1. PICK s \in BotSlot : Ack(s)
    BY <1>2 DEF BotNext, BotStep, botVars, ghosts, Tag, ExpireClaim, Deliver, StartWorker, Die,
       BotTick, VerifySignature, Enqueue, CheckComments, Acquire, Launch, Release, LatePut
  <2>2. m = <<inv[s].label, now>> /\ inv[s].at \in {"ack", "ack_again"}
    BY <1>2, <2>1 DEF Ack
  <2>3. botLaunches[m[1]] # <<>>
    BY <2>2 DEF BotIInv, SlotInv
  <2>4. QED
    BY <1>0, <2>3, GrownFacts
<1>3. QED
  BY <1>1, <1>2

LEMMA BotStart == BotInit => BotIInv
<1> SUFFICES ASSUME BotInit PROVE BotIInv
  OBVIOUS
<1>1. BotTypeOK
  BY DEF BotInit, BotTypeOK, IdleInvocation, InvocationAt
<1>2. \A s \in BotSlot : SlotInv(s)
  BY DEF BotInit, SlotInv, IdleInvocation
<1>3. \A l \in Label : LabelInv(l)
  BY DEF BotInit, LabelInv, Holds, IdleInvocation
<1>4. OneLaunchPerClaim /\ ClaimAnswered
  BY DEF BotInit, OneLaunchPerClaim, ClaimAnswered, Unclaimed
<1>5. QED
  BY <1>1, <1>2, <1>3, <1>4 DEF BotIInv

LEMMA BotInvStep == BotIInv /\ [BotNext]_botVars => BotIInv'
<1> SUFFICES ASSUME BotIInv, [BotNext]_botVars PROVE BotIInv'
  OBVIOUS
<1>1. BotTypeOK' /\ OneLaunchPerClaim'
  BY BotTypeStep, ApartStep DEF BotIInv
<1>2. \A s \in BotSlot : SlotInv(s)'
  BY SlotStep
<1>3. \A l \in Label : LabelInv(l)'
  BY LabelStep
<1>4. ClaimAnswered'
  BY AnswerStep, MarkerStep DEF ClaimAnswered, Answered
<1>5. QED
  BY <1>1, <1>2, <1>3, <1>4 DEF BotIInv

LEMMA BotImplied == BotIInv => BotInv
BY DEF BotIInv, BotInv

(* However often ClickUp delivers a tag, whatever dies, fails or is        *)
(* committed late, a label gets one agent per claim, and a claim that      *)
(* blocks one is answered for.                                             *)
THEOREM OneAgentPerTag == BotSpec => []BotInv
BY BotStart, BotInvStep, BotImplied, PTL DEF BotSpec

-----------------------------------------------------------------------------
(* The LLM clients                                                         *)

(* The limits of each model, and the budgets of a client, are numbers.     *)
BudgetIInv ==
  /\ clientModel \in Model /\ clientBudget \in Int
  /\ sentBudget # NotGiven => sentBudget \in Least[clientModel] .. Most[clientModel]

LEMMA ClampInRange ==
  ASSUME NEW m \in Model, NEW b \in Int
  PROVE  Clamp(m, b) \in Least[m] .. Most[m] /\ Clamp(m, b) \in Int
<1>1. Least[m] \in Int /\ Most[m] \in Int /\ Least[m] <= Most[m]
  BY DEF Model, Least, Most
<1>2. QED
  BY <1>1 DEF Clamp

LEMMA BudgetStart == BudgetInit => BudgetIInv
<1> SUFFICES ASSUME BudgetInit PROVE BudgetIInv
  OBVIOUS
<1>1. Budget \subseteq Int /\ NotGiven \in Int
  BY BudgetAssumption DEF NotGiven
<1>2. clientBudget \in Int /\ clientModel \in Model /\ sentBudget = NotGiven
  BY <1>1 DEF BudgetInit
<1>3. QED
  BY <1>2 DEF BudgetIInv

LEMMA BudgetStep == BudgetIInv /\ [BudgetNext]_budgetVars => BudgetIInv'
<1> SUFFICES ASSUME BudgetIInv, [BudgetNext]_budgetVars PROVE BudgetIInv'
  OBVIOUS
<1>0. clientModel \in Model /\ clientBudget \in Int /\ Budget \subseteq Int /\ NotGiven \in Int
  BY BudgetAssumption DEF BudgetIInv, NotGiven
<1>1. CASE DisableThinking \/ EnableDynamicThinking
  BY <1>1 DEF DisableThinking, EnableDynamicThinking, BudgetIInv, Dynamic
<1>2. ASSUME NEW b \in Budget, SetThinkingBudget(b) PROVE BudgetIInv'
  BY <1>0, <1>2, ClampInRange DEF SetThinkingBudget, BudgetIInv
<1>3. ASSUME NEW b \in Budget \cup {NotGiven}, SendRequest(b) PROVE BudgetIInv'
  <2>1. PICK n \in Int : /\ sentBudget' = IF n = NotGiven THEN NotGiven ELSE Clamp(clientModel, n)
                         /\ UNCHANGED <<clientModel, clientBudget>>
    BY <1>0, <1>3 DEF SendRequest
  <2>2. QED
    BY <1>0, <2>1, ClampInRange DEF BudgetIInv
<1>4. CASE UNCHANGED budgetVars
  BY <1>4 DEF budgetVars, BudgetIInv
<1>5. QED
  BY <1>1, <1>2, <1>3, <1>4 DEF BudgetNext

-----------------------------------------------------------------------------
(* The calls                                                               *)

CallState ==
  [at : {"free", "ask", "trace", "done", "miss", "load"},
   gen : Gen, method : Method, attempt : 0 .. MaxRetries - 1, asked : Nat,
   span : {"none", "open"}, last : ModelAnswer \cup {"none"},
   result : Result, prompt : {"absent", "object", "none"}]

(* What a call that ended gives, for its last answer.                      *)
Deserved(c) ==
  /\ c.result = "raised" => c.last = "none" \/ ~Accepts(c.gen, c.method, c.last)
  /\ c.result # "raised" =>
       \/ c.result = "text" /\ c.last \in {"text", "garbled"}
       \/ c.result = "empty" /\ c.last \in {"empty", "blocked"} /\ c.gen = 2
       \/ c.result = "nothing" /\ c.gen = 2 /\ c.method = "content" /\ c.asked = MaxRetries

(* A call asks once for each attempt, and after an answer that it neither  *)
(* accepts nor gives up on.                                                *)
CallFits(c) ==
  /\ c.asked <= MaxRetries
  /\ c.at \in {"free", "miss", "load"} =>
       c.span = "none" /\ c.attempt = 0 /\ c.asked = 0 /\ c.last = "none"
  /\ c.at = "ask" => /\ c.asked = c.attempt
                     /\ ~Accepts(c.gen, c.method, c.last)
                     /\ c.asked > 0 => ~Final(c.gen, c.method, c.last)
  /\ c.at \in {"trace", "done"} => Deserved(c)
  /\ c.at = "done" => c.span = "none"

(* The lock is held by who loads; whoever has a prompt has the cached one. *)
PromptFits(c, t) ==
  /\ c.at = "load" => promptLock = t /\ promptCache = "absent"
  /\ c.prompt \in {"absent", promptCache}

LlmIInv ==
  /\ tracing \in {"new", "on", "off"}
  /\ llmCalls \in [Caller -> CallState]
  /\ tallied \in [Gen -> Nat] /\ served \in [Gen -> Nat]
  /\ tallied[3] = served[3] /\ tallied[2] <= served[2]
  /\ promptCache \in {"absent", "object", "none"} /\ promptLock \in Caller \cup {Nobody}
  /\ promptLoads \in {0, 1} /\ (promptCache = "absent" => promptLoads = 0)
  /\ \A t \in Caller : CallFits(llmCalls[t]) /\ PromptFits(llmCalls[t], t)

LEMMA LlmImplied == LlmIInv => LlmInv
<1> SUFFICES ASSUME LlmIInv PROVE LlmInv
  OBVIOUS
<1>1. LlmTypeOK
  BY DEF LlmIInv, LlmTypeOK, CallState
<1>2. CallHonest
  BY DEF LlmIInv, CallHonest, CallFits, Deserved
<1>3. UsageKept /\ PromptLoadedOnce
  BY DEF LlmIInv, UsageKept, PromptLoadedOnce, PromptFits
<1>4. SpansClosed
  <2>1. ASSUME NEW t \in Caller, llmCalls[t].span = "open" PROVE llmCalls[t].at \in {"ask", "trace"}
    BY <2>1 DEF LlmIInv, CallFits, CallState
  <2>2. QED
    BY <2>1 DEF SpansClosed
<1>5. QED
  BY <1>1, <1>2, <1>3, <1>4 DEF LlmInv

LEMMA LlmStart == LlmInit => LlmIInv
<1> SUFFICES ASSUME LlmInit PROVE LlmIInv
  OBVIOUS
<1>1. MaxRetries \in Nat \ {0}
  BY LlmAssumption
<1>2. FreeCaller \in CallState /\ CallFits(FreeCaller)
  BY <1>1 DEF FreeCaller, CallState, CallFits, Gen, Method, Result
<1>3. FreeCaller.at = "free" /\ FreeCaller.prompt = "absent"
  BY DEF FreeCaller
<1>4. 2 \in Gen /\ 3 \in Gen
  BY DEF Gen
<1>5. QED
  BY <1>2, <1>3, <1>4 DEF LlmInit, LlmIInv, PromptFits

(* One caller's step that leaves the prompt to itself.                     *)
LEMMA OneCall ==
  ASSUME LlmIInv, NEW t \in Caller, NEW c \in CallState, llmCalls' = [llmCalls EXCEPT ![t] = c],
         CallFits(c), c.at # "load", c.prompt \in {"absent", promptCache},
         UNCHANGED <<tracing, promptCache, promptLock, promptLoads>>,
         tallied' \in [Gen -> Nat], served' \in [Gen -> Nat],
         tallied'[3] = served'[3], tallied'[2] <= served'[2]
  PROVE  LlmIInv'
<1>1. llmCalls' \in [Caller -> CallState]
  BY DEF LlmIInv
<1>2. ASSUME NEW x \in Caller PROVE CallFits(llmCalls'[x]) /\ PromptFits(llmCalls[x], x)'
  <2>1. llmCalls'[x] = IF x = t THEN c ELSE llmCalls[x]
    BY DEF LlmIInv
  <2>2. CASE x = t
    BY <2>1, <2>2 DEF PromptFits
  <2>3. CASE x # t
    BY <2>1, <2>3 DEF LlmIInv, PromptFits
  <2>4. QED
    BY <2>2, <2>3
<1>3. QED
  BY <1>1, <1>2 DEF LlmIInv, CallFits, Deserved

(* What a method makes of its last answer is what the answer deserves.     *)
LEMMA GivesDeserved ==
  ASSUME NEW c \in CallState, c.last \in ModelAnswer, c.result = GiveBack(c.gen, c.method, c.last),
         \/ Accepts(c.gen, c.method, c.last) \/ Final(c.gen, c.method, c.last)
         \/ c.asked = MaxRetries
  PROVE  Deserved(c)
<1> USE DEF Accepts
<1>0. c.gen \in {2, 3} /\ c.method \in {"content", "structured", "search", "multimodal"}
  BY DEF CallState, Gen, Method
<1>1. CASE Accepts(c.gen, c.method, c.last)
  BY <1>0, <1>1 DEF GiveBack, Deserved, ModelAnswer
<1>2. CASE ~Accepts(c.gen, c.method, c.last) /\ c.gen = 2 /\ c.method = "content" /\ c.last # "error"
  <2>1. c.result = "nothing"
    BY <1>2 DEF GiveBack
  <2>2. ~Final(c.gen, c.method, c.last)
    BY <1>2 DEF Final
  <2>3. c.asked = MaxRetries
    BY <1>2, <2>2
  <2>4. QED
    BY <1>2, <2>1, <2>3 DEF Deserved
<1>3. CASE ~Accepts(c.gen, c.method, c.last) /\ ~(c.gen = 2 /\ c.method = "content" /\ c.last # "error")
  <2>1. c.result = "raised"
    BY <1>3 DEF GiveBack
  <2>2. QED
    BY <1>3, <2>1 DEF Deserved
<1>4. QED
  BY <1>1, <1>2, <1>3

(* The third generation counts what it was served, the second no more.     *)
LEMMA Tallies ==
  ASSUME LlmIInv, NEW g \in Gen, NEW m \in Method, NEW a \in ModelAnswer,
         served' = [served EXCEPT ![g] = @ + IF a = "error" THEN 0 ELSE 1],
         tallied' = [tallied EXCEPT ![g] = @ + IF Counts(g, m, a) THEN 1 ELSE 0]
  PROVE  /\ tallied' \in [Gen -> Nat] /\ served' \in [Gen -> Nat]
         /\ tallied'[3] = served'[3] /\ tallied'[2] <= served'[2]
<1>0. tallied \in [Gen -> Nat] /\ served \in [Gen -> Nat] /\ tallied[3] = served[3] /\ tallied[2] <= served[2]
      /\ 2 \in Gen /\ 3 \in Gen /\ g \in {2, 3}
  BY DEF LlmIInv, Gen
<1>1. Counts(g, m, a) => a # "error"
  BY DEF Counts
<1>2. g = 3 /\ a # "error" => Counts(g, m, a)
  BY DEF Counts
<1>3. PICK n \in {0, 1}, k \in {0, 1} :
        /\ n = (IF a = "error" THEN 0 ELSE 1) /\ k = (IF Counts(g, m, a) THEN 1 ELSE 0)
        /\ k <= n /\ (g = 3 => k = n)
  BY <1>1, <1>2
<1>4. served' = [served EXCEPT ![g] = served[g] + n] /\ tallied' = [tallied EXCEPT ![g] = tallied[g] + k]
  BY <1>3
<1>5. served[g] + n \in Nat /\ tallied[g] + k \in Nat
  BY <1>0
<1>6. QED
  BY <1>0, <1>3, <1>4, <1>5

LEMMA LlmCallStep ==
  ASSUME LlmIInv, NEW t \in Caller,
         \/ \E g \in Gen, m \in Method : BeginModelCall(t, g, m)
         \/ AskModel(t) \/ EndTrace(t) \/ NextCall(t)
  PROVE  LlmIInv'
<1>0. /\ llmCalls \in [Caller -> CallState] /\ llmCalls[t] \in CallState
      /\ CallFits(llmCalls[t]) /\ PromptFits(llmCalls[t], t)
      /\ tallied \in [Gen -> Nat] /\ served \in [Gen -> Nat]
      /\ tallied[3] = served[3] /\ tallied[2] <= served[2] /\ MaxRetries \in Nat \ {0}
  BY LlmAssumption DEF LlmIInv
<1>a. UNCHANGED <<tracing, promptCache, promptLock, promptLoads>>
  BY DEF BeginModelCall, AskModel, EndTrace, NextCall, prompts
<1>1. ASSUME NEW g \in Gen, NEW m \in Method, BeginModelCall(t, g, m) PROVE LlmIInv'
  <2>1. UNCHANGED <<tallied, served>> /\ llmCalls[t].at = "free"
    BY <1>1 DEF BeginModelCall, usage
  <2>2. PICK c \in CallState :
          /\ llmCalls' = [llmCalls EXCEPT ![t] = c] /\ c.prompt = llmCalls[t].prompt
          /\ c.attempt = llmCalls[t].attempt /\ c.asked = llmCalls[t].asked /\ c.last = llmCalls[t].last
          /\ c.at = "ask" \/ (c.at = "done" /\ c.result = "raised" /\ c.span = llmCalls[t].span)
    <3>1. CASE \E s \in IF tracing = "on" THEN {"none", "open"} ELSE {"none"} :
                 llmCalls' = [llmCalls EXCEPT ![t] =
                   [@ EXCEPT !.at = "ask", !.gen = g, !.method = m, !.span = s]]
      <4>1. PICK s \in {"none", "open"} :
              llmCalls' = [llmCalls EXCEPT ![t] =
                [llmCalls[t] EXCEPT !.at = "ask", !.gen = g, !.method = m, !.span = s]]
        BY <3>1
      <4>2. PICK c \in CallState :
              c = [llmCalls[t] EXCEPT !.at = "ask", !.gen = g, !.method = m, !.span = s]
        BY <1>0 DEF CallState
      <4>3. /\ c.prompt = llmCalls[t].prompt /\ c.at = "ask"
            /\ c.attempt = llmCalls[t].attempt /\ c.asked = llmCalls[t].asked /\ c.last = llmCalls[t].last
        BY <1>0, <4>2 DEF CallState
      <4>4. QED
        BY <4>1, <4>2, <4>3
    <3>2. CASE llmCalls' = [llmCalls EXCEPT ![t] =
                 [@ EXCEPT !.at = "done", !.gen = g, !.method = m, !.result = "raised"]]
      <4>1. PICK c \in CallState :
              c = [llmCalls[t] EXCEPT !.at = "done", !.gen = g, !.method = m, !.result = "raised"]
        BY <1>0 DEF CallState, Result
      <4>2. /\ c.prompt = llmCalls[t].prompt /\ c.at = "done" /\ c.result = "raised"
            /\ c.span = llmCalls[t].span
            /\ c.attempt = llmCalls[t].attempt /\ c.asked = llmCalls[t].asked /\ c.last = llmCalls[t].last
        BY <1>0, <4>1 DEF CallState
      <4>3. QED
        BY <3>2, <4>1, <4>2
    <3>3. QED
      BY <1>1, <3>1, <3>2 DEF BeginModelCall
  <2>3. CallFits(c)
    BY <1>0, <2>1, <2>2 DEF CallFits, Deserved, Accepts
  <2>4. QED
    BY <1>0, <1>a, <2>1, <2>2, <2>3, OneCall DEF PromptFits
<1>2. CASE AskModel(t)
  <2>a. PICK a \in ModelAnswer :
          /\ served' = [served EXCEPT ![llmCalls[t].gen] = @ + IF a = "error" THEN 0 ELSE 1]
          /\ tallied' = [tallied EXCEPT ![llmCalls[t].gen] =
                          @ + IF Counts(llmCalls[t].gen, llmCalls[t].method, a) THEN 1 ELSE 0]
          /\ llmCalls' = [llmCalls EXCEPT ![t] =
               IF \/ Accepts(llmCalls[t].gen, llmCalls[t].method, a)
                  \/ Final(llmCalls[t].gen, llmCalls[t].method, a) \/ LastAttempt(llmCalls[t].attempt)
               THEN [llmCalls[t] EXCEPT !.at = "trace", !.asked = llmCalls[t].asked + 1, !.last = a,
                              !.result = GiveBack(llmCalls[t].gen, llmCalls[t].method, a)]
               ELSE [llmCalls[t] EXCEPT !.attempt = llmCalls[t].attempt + 1, !.asked = llmCalls[t].asked + 1, !.last = a]]
    BY <1>2, Zenon DEF AskModel
  <2>2. /\ llmCalls[t].at = "ask" /\ llmCalls[t].gen \in Gen /\ llmCalls[t].method \in Method
        /\ llmCalls[t].attempt \in 0 .. MaxRetries - 1 /\ llmCalls[t].asked = llmCalls[t].attempt
    BY <1>0, <1>2 DEF AskModel, CallState, CallFits
  <2>3. /\ tallied' \in [Gen -> Nat] /\ served' \in [Gen -> Nat]
        /\ tallied'[3] = served'[3] /\ tallied'[2] <= served'[2]
    BY <2>a, <2>2, Tallies
  <2>4. CASE \/ Accepts(llmCalls[t].gen, llmCalls[t].method, a)
             \/ Final(llmCalls[t].gen, llmCalls[t].method, a) \/ LastAttempt(llmCalls[t].attempt)
    <3>1. GiveBack(llmCalls[t].gen, llmCalls[t].method, a) \in Result
      BY DEF GiveBack, Result
    <3>a. llmCalls[t].asked + 1 \in Nat
      BY <2>2, <1>0
    <3>b. [llmCalls[t] EXCEPT !.at = "trace", !.asked = llmCalls[t].asked + 1, !.last = a,
                              !.result = GiveBack(llmCalls[t].gen, llmCalls[t].method, a)] \in CallState
      BY <1>0, <3>a, <3>1 DEF CallState
    <3>2. PICK c \in CallState :
            c = [llmCalls[t] EXCEPT !.at = "trace", !.asked = llmCalls[t].asked + 1, !.last = a,
                           !.result = GiveBack(llmCalls[t].gen, llmCalls[t].method, a)]
      BY <3>b
    <3>3. /\ c.at = "trace" /\ c.asked = llmCalls[t].asked + 1 /\ c.last = a
          /\ c.gen = llmCalls[t].gen /\ c.method = llmCalls[t].method /\ c.prompt = llmCalls[t].prompt
          /\ c.result = GiveBack(c.gen, c.method, c.last)
      BY <1>0, <3>2 DEF CallState
    <3>4. c.asked <= MaxRetries /\ (LastAttempt(llmCalls[t].attempt) => c.asked = MaxRetries)
      BY <1>0, <2>2, <3>3 DEF LastAttempt
    <3>5. Deserved(c)
      BY <2>4, <3>3, <3>4, GivesDeserved
    <3>6. CallFits(c)
      BY <3>3, <3>4, <3>5 DEF CallFits
    <3>7. llmCalls' = [llmCalls EXCEPT ![t] = c]
      BY <2>a, <2>4, <3>2
    <3>8. QED
      BY <1>0, <1>a, <2>3, <3>3, <3>6, <3>7, OneCall DEF PromptFits
  <2>5. CASE ~(\/ Accepts(llmCalls[t].gen, llmCalls[t].method, a)
               \/ Final(llmCalls[t].gen, llmCalls[t].method, a) \/ LastAttempt(llmCalls[t].attempt))
    <3>1. llmCalls[t].attempt + 1 \in 0 .. MaxRetries - 1
      BY <1>0, <2>2, <2>5 DEF LastAttempt
    <3>a. llmCalls[t].asked + 1 \in Nat
      BY <2>2, <1>0
    <3>b. [llmCalls[t] EXCEPT !.attempt = llmCalls[t].attempt + 1,
                              !.asked = llmCalls[t].asked + 1, !.last = a] \in CallState
      BY <1>0, <3>a, <3>1 DEF CallState
    <3>2. PICK c \in CallState :
            c = [llmCalls[t] EXCEPT !.attempt = llmCalls[t].attempt + 1,
                                    !.asked = llmCalls[t].asked + 1, !.last = a]
      BY <3>b
    <3>3. /\ c.at = "ask" /\ c.asked = llmCalls[t].asked + 1 /\ c.last = a
          /\ c.attempt = llmCalls[t].attempt + 1
          /\ c.gen = llmCalls[t].gen /\ c.method = llmCalls[t].method /\ c.prompt = llmCalls[t].prompt
      BY <1>0, <2>2, <3>2 DEF CallState
    <3>4. CallFits(c)
      BY <1>0, <2>2, <2>5, <3>1, <3>3 DEF CallFits
    <3>5. llmCalls' = [llmCalls EXCEPT ![t] = c]
      BY <2>a, <2>5, <3>2
    <3>6. QED
      BY <1>0, <1>a, <2>3, <3>3, <3>4, <3>5, OneCall DEF PromptFits
  <2>6. QED
    BY <2>4, <2>5
<1>3. CASE EndTrace(t)
  <2>1. /\ llmCalls[t].at = "trace" /\ UNCHANGED <<tallied, served>>
        /\ llmCalls' = [llmCalls EXCEPT ![t] = [llmCalls[t] EXCEPT !.at = "done", !.span = "none"]]
    BY <1>3 DEF EndTrace, usage
  <2>2. PICK c \in CallState : c = [llmCalls[t] EXCEPT !.at = "done", !.span = "none"]
    BY <1>0 DEF CallState
  <2>3. /\ c.at = "done" /\ c.span = "none" /\ c.gen = llmCalls[t].gen /\ c.method = llmCalls[t].method
        /\ c.asked = llmCalls[t].asked /\ c.last = llmCalls[t].last /\ c.result = llmCalls[t].result
        /\ c.prompt = llmCalls[t].prompt
    BY <1>0, <2>2 DEF CallState
  <2>4. CallFits(c)
    BY <1>0, <2>1, <2>3 DEF CallFits, Deserved
  <2>5. QED
    BY <1>0, <1>a, <2>1, <2>2, <2>3, <2>4, OneCall DEF PromptFits
<1>4. CASE NextCall(t)
  <2>1. UNCHANGED <<tallied, served>>
        /\ llmCalls' = [llmCalls EXCEPT ![t] = [FreeCaller EXCEPT !.prompt = llmCalls[t].prompt]]
    BY <1>4 DEF NextCall, usage
  <2>2. FreeCaller \in CallState
    BY <1>0 DEF FreeCaller, CallState, Gen, Method, Result
  <2>3. PICK c \in CallState : c = [FreeCaller EXCEPT !.prompt = llmCalls[t].prompt]
    BY <1>0, <2>2 DEF CallState
  <2>4. /\ c.at = "free" /\ c.span = "none" /\ c.attempt = 0 /\ c.asked = 0 /\ c.last = "none"
        /\ c.prompt = llmCalls[t].prompt
    BY <2>3 DEF FreeCaller
  <2>5. CallFits(c)
    BY <1>0, <2>4 DEF CallFits
  <2>6. QED
    BY <1>0, <1>a, <2>1, <2>3, <2>4, <2>5, OneCall DEF PromptFits
<1>5. QED
  BY <1>1, <1>2, <1>3, <1>4

-----------------------------------------------------------------------------
(* The prompt                                                              *)

(* A caller that takes a prompt, or goes to load it.                       *)
LEMMA OnePrompt ==
  ASSUME LlmIInv, NEW t \in Caller, NEW place \in {"free", "miss", "load"},
         NEW p \in {"absent", "object", "none"},
         llmCalls[t].at \in {"free", "miss", "load"},
         llmCalls' = [llmCalls EXCEPT ![t].at = place, ![t].prompt = p],
         place = "load" => promptLock' = t /\ promptCache' = "absent",
         p \in {"absent", promptCache'},
         \A x \in Caller \ {t} : PromptFits(llmCalls[x], x)',
         UNCHANGED <<tracing, tallied, served>>,
         promptCache' \in {"absent", "object", "none"}, promptLock' \in Caller \cup {Nobody},
         promptLoads' \in {0, 1}, promptCache' = "absent" => promptLoads' = 0
  PROVE  LlmIInv'
<1>2. llmCalls[t] \in CallState /\ CallFits(llmCalls[t]) /\ llmCalls \in [Caller -> CallState]
  BY DEF LlmIInv
<1>0. [llmCalls[t] EXCEPT !.at = place, !.prompt = p] \in CallState
  BY <1>2 DEF CallState
<1>1. PICK c \in CallState : c = [llmCalls[t] EXCEPT !.at = place, !.prompt = p]
  BY <1>0
<1>3. llmCalls' = [llmCalls EXCEPT ![t] = c] /\ llmCalls' \in [Caller -> CallState]
  BY <1>1, <1>2 DEF CallState
<1>4. /\ c.at = place /\ c.prompt = p /\ c.span = llmCalls[t].span /\ c.last = llmCalls[t].last
      /\ c.attempt = llmCalls[t].attempt /\ c.asked = llmCalls[t].asked
  BY <1>1, <1>2 DEF CallState
<1>5. CallFits(c)
  BY <1>2, <1>4 DEF CallFits
<1>6. ASSUME NEW x \in Caller PROVE CallFits(llmCalls'[x]) /\ PromptFits(llmCalls[x], x)'
  <2>1. CASE x = t
    BY <2>1, <1>2, <1>3, <1>4, <1>5 DEF PromptFits
  <2>2. CASE x # t
    BY <2>2, <1>2, <1>3 DEF LlmIInv
  <2>3. QED
    BY <2>1, <2>2
<1>7. QED
  BY <1>3, <1>6 DEF LlmIInv, CallFits, Deserved

LEMMA PromptStep ==
  ASSUME LlmIInv, NEW t \in Caller, GetPrompt(t) \/ LockPrompt(t) \/ LoadPrompt(t)
  PROVE  LlmIInv'
<1>0. /\ llmCalls \in [Caller -> CallState] /\ llmCalls[t] \in CallState
      /\ \A x \in Caller : PromptFits(llmCalls[x], x) /\ llmCalls[x] \in CallState
      /\ promptCache \in {"absent", "object", "none"} /\ promptLock \in Caller \cup {Nobody}
      /\ promptLoads \in {0, 1} /\ (promptCache = "absent" => promptLoads = 0)
      /\ llmCalls[t].prompt \in {"absent", "object", "none"}
      /\ llmCalls[t].prompt \in {"absent", promptCache} /\ Nobody \notin Caller
  BY LlmAssumption DEF LlmIInv, CallState, PromptFits, Nobody
<1>r. ASSUME NEW x \in Caller \ {t} PROVE t \in Caller => llmCalls'[x] = llmCalls[x]
  BY <1>0 DEF GetPrompt, LockPrompt, LoadPrompt, HasPrompt
<1>1. CASE GetPrompt(t)
  <2>1. UNCHANGED <<tracing, tallied, served, promptCache, promptLock, promptLoads>>
    BY <1>1 DEF GetPrompt, usage, prompts
  <2>2. llmCalls[t].at = "free"
    BY <1>1 DEF GetPrompt
  <2>3. \A x \in Caller \ {t} : PromptFits(llmCalls[x], x)'
    BY <1>0, <1>r, <2>1 DEF PromptFits
  <2>4. PICK place \in {"free", "miss", "load"}, p \in {"absent", "object", "none"} :
          /\ llmCalls' = [llmCalls EXCEPT ![t].at = place, ![t].prompt = p]
          /\ place # "load" /\ p \in {"absent", promptCache}
    <3>1. CASE promptCache # "absent"
      BY <1>0, <1>1, <3>1 DEF GetPrompt, HasPrompt
    <3>2. CASE promptCache = "absent"
      <4>1. llmCalls' = [llmCalls EXCEPT ![t].at = "miss"]
        BY <1>1, <3>2 DEF GetPrompt
      <4>2. llmCalls' = [llmCalls EXCEPT ![t].at = "miss", ![t].prompt = llmCalls[t].prompt]
        BY <1>0, <4>1 DEF CallState
      <4>3. QED
        BY <1>0, <4>2
    <3>3. QED
      BY <3>1, <3>2
  <2>5. QED
    BY <1>0, <2>1, <2>2, <2>3, <2>4, OnePrompt
<1>2. CASE LockPrompt(t)
  <2>1. UNCHANGED <<tracing, tallied, served, promptCache, promptLoads>>
    BY <1>2 DEF LockPrompt, usage
  <2>2. llmCalls[t].at = "miss" /\ promptLock = Nobody
    BY <1>2 DEF LockPrompt
  <2>3. \A x \in Caller \ {t} : PromptFits(llmCalls[x], x)'
    BY <1>0, <1>r, <2>1, <2>2 DEF PromptFits
  <2>4. CASE promptCache # "absent"
    BY <1>0, <1>2, <2>1, <2>2, <2>3, <2>4, OnePrompt DEF LockPrompt, HasPrompt
  <2>5. CASE promptCache = "absent"
    <3>1. llmCalls' = [llmCalls EXCEPT ![t].at = "load"] /\ promptLock' = t
      BY <1>2, <2>5 DEF LockPrompt
    <3>2. PICK place \in {"free", "miss", "load"}, p \in {"absent", "object", "none"} :
            place = "load" /\ p = llmCalls[t].prompt
      BY <1>0
    <3>3. llmCalls' = [llmCalls EXCEPT ![t].at = place, ![t].prompt = p]
      BY <1>0, <3>1, <3>2 DEF CallState
    <3>4. QED
      BY <1>0, <2>1, <2>2, <2>3, <2>5, <3>1, <3>2, <3>3, OnePrompt
  <2>6. QED
    BY <2>4, <2>5
<1>3. CASE LoadPrompt(t)
  <2>1. /\ UNCHANGED <<tracing, tallied, served>> /\ llmCalls[t].at = "load"
        /\ promptLoads' = promptLoads + 1 /\ promptLock' = Nobody
    BY <1>3 DEF LoadPrompt, usage
  <2>2. promptLock = t /\ promptCache = "absent"
    BY <1>0, <2>1 DEF PromptFits
  <2>3. ASSUME NEW x \in Caller \ {t} PROVE PromptFits(llmCalls[x], x)'
    <3>1. llmCalls[x].at # "load" /\ llmCalls[x].prompt = "absent"
      BY <1>0, <2>2 DEF PromptFits
    <3>2. QED
      BY <1>r, <3>1 DEF PromptFits
  <2>4. promptCache' \in {"object", "none"} /\ promptLoads' \in {0, 1}
    BY <1>0, <1>3, <2>1, <2>2 DEF LoadPrompt
  <2>5. PICK place \in {"free", "miss", "load"}, p \in {"absent", "object", "none"} :
          place = "free" /\ p = promptCache'
    BY <2>4
  <2>6. llmCalls' = [llmCalls EXCEPT ![t].at = place, ![t].prompt = p]
    BY <1>3, <2>5 DEF LoadPrompt, HasPrompt
  <2>7. QED
    BY <2>1, <2>3, <2>4, <2>5, <2>6, OnePrompt
<1>4. QED
  BY <1>1, <1>2, <1>3

LEMMA LlmStep == LlmIInv /\ [LlmNext]_llmVars => LlmIInv'
<1> SUFFICES ASSUME LlmIInv, [LlmNext]_llmVars PROVE LlmIInv'
  OBVIOUS
<1>1. CASE InitTracing
  BY <1>1 DEF InitTracing, usage, prompts, LlmIInv, CallFits, Deserved, PromptFits
<1>2. ASSUME NEW t \in Caller, NEW g \in Gen, NEW m \in Method, BeginModelCall(t, g, m) PROVE LlmIInv'
  BY <1>2, LlmCallStep
<1>3. ASSUME NEW t \in Caller, AskModel(t) \/ EndTrace(t) \/ NextCall(t) PROVE LlmIInv'
  BY <1>3, LlmCallStep
<1>4. ASSUME NEW t \in Caller, GetPrompt(t) \/ LockPrompt(t) \/ LoadPrompt(t) PROVE LlmIInv'
  BY <1>4, PromptStep
<1>5. CASE UNCHANGED llmVars
  BY <1>5 DEF llmVars, LlmIInv, CallFits, Deserved, PromptFits
<1>6. QED
  BY <1>1, <1>2, <1>3, <1>4, <1>5 DEF LlmNext

(* Threads that share the Gemini clients (shared/llm_gemini.py,            *)
(* shared/llm_gemini_3.py) each get what their last answer deserves after  *)
(* at most max_retries requests, whatever the tracing does; the counters   *)
(* agree with the answers and the prompt is loaded once.                   *)
THEOREM CallsAreHonest == LlmSpec => []LlmInv
<1>1. LlmInit => LlmIInv
  BY LlmStart
<1>2. LlmIInv /\ [LlmNext]_llmVars => LlmIInv'
  BY LlmStep
<1>3. LlmIInv => LlmInv
  BY LlmImplied
<1>4. QED
  BY <1>1, <1>2, <1>3, PTL DEF LlmSpec

(* Whatever budget the constructor, the setters and a call ask for, what   *)
(* _get_base_config sends is within the limits of the client's model.      *)
THEOREM BudgetInRange == BudgetSpec => []SentInRange
<1>1. BudgetInit => BudgetIInv
  BY BudgetStart
<1>2. BudgetIInv /\ [BudgetNext]_budgetVars => BudgetIInv'
  BY BudgetStep
<1>3. BudgetIInv => SentInRange
  BY DEF BudgetIInv, SentInRange
<1>4. QED
  BY <1>1, <1>2, <1>3, PTL DEF BudgetSpec

-----------------------------------------------------------------------------
(* The dates of a campaign plan                                            *)

CampaignFits ==
  /\ campaign.today \in Nat /\ campaign.election \in Int /\ campaign.primary \in Int

LineFits(l) ==
  /\ l.day \in Nat /\ campaign.today <= l.day /\ l.day <= campaign.election
  /\ l.form \in Form /\ l.flow \in FlowType

(* The windows are those of the campaign; every line that is written is of *)
(* a day until the election; the tasks are those of the lines.             *)
ScheduleIInv ==
  /\ CampaignFits
  /\ voterPlan \in [status : {"none", "refused", "written", "extracted"}, windows : {<<>>, Windows}]
  /\ voterPlan.status \in {"none", "refused"} => voterPlan.windows = <<>> /\ lines = {}
  /\ voterPlan.status \in {"written", "extracted"} => voterPlan.windows = Windows /\ ~Refused
  /\ IsFiniteSet(lines) /\ \A l \in lines : LineFits(l)
  /\ planTasks = IF voterPlan.status = "extracted" THEN {TaskOf(l) : l \in lines} ELSE {}

-----------------------------------------------------------------------------

LEMMA ScheduleStart == ScheduleInit => ScheduleIInv
<1>1. SUFFICES ASSUME ScheduleInit PROVE ScheduleIInv
  OBVIOUS
<1>2. PICK t \in Today :
        campaign \in {[today |-> t, primary |-> p, election |-> t + e] :
                         e \in DaysAhead, p \in {NoDate} \cup {t + a : a \in DaysAhead}}
  BY <1>1 DEF ScheduleInit
<1>a. PICK e \in DaysAhead, p \in {NoDate} \cup {t + a : a \in DaysAhead} :
        campaign = [today |-> t, primary |-> p, election |-> t + e]
  BY <1>2
<1>3. t \in Nat /\ p \in Int /\ t + e \in Int
  BY ScheduleAssumption DEF NoDate
<1>4. CampaignFits
  BY <1>a, <1>3 DEF CampaignFits
<1>5. voterPlan = [status |-> "none", windows |-> <<>>] /\ lines = {} /\ planTasks = {}
  BY <1>1 DEF ScheduleInit
<1>6. IsFiniteSet(lines)
  BY <1>5, FS_EmptySet
<1>7. QED
  BY <1>4, <1>5, <1>6 DEF ScheduleIInv

(* A window from now on: not before today, until the vote, of 49 days.     *)
LEMMA FromTodayIs ==
  ASSUME NEW today \in Int, NEW vote \in Int, today <= vote
  PROVE  \E s \in Int : FromToday(today, vote) = <<s, vote>> /\ today <= s /\ s <= vote /\ vote - s <= 49
<1>1. PICK first \in Int : first = IF vote - today > 52 THEN vote - 49 ELSE today + 3
  OBVIOUS
<1>2. PICK start \in Int : start = IF first >= vote THEN today ELSE first
  OBVIOUS
<1>3. today <= start /\ start <= vote /\ vote - start <= 49
  BY <1>1, <1>2
<1>4. FromToday(today, vote) = <<start, vote>>
  BY <1>1, <1>2, <1>3 DEF FromToday
<1>5. QED
  BY <1>3, <1>4

(* A window after the primary.                                             *)
LEMMA AfterPrimaryIs ==
  ASSUME NEW primary \in Int, NEW election \in Int, primary < election
  PROVE  \E s \in Int : /\ AfterPrimary(primary, election) = <<s, election>>
                        /\ primary < s /\ s <= election /\ election - s <= 49
<1>1. PICK first \in Int : first = IF primary + 1 > election - 49 THEN primary + 1 ELSE election - 49
  OBVIOUS
<1>2. PICK start \in Int : start = IF first >= election THEN primary + 1 ELSE first
  OBVIOUS
<1>3. primary < start /\ start <= election /\ election - start <= 49
  BY <1>1, <1>2
<1>4. AfterPrimary(primary, election) = <<start, election>>
  BY <1>1, <1>2, <1>3 DEF AfterPrimary
<1>5. QED
  BY <1>3, <1>4

(* The windows of a campaign that is not refused: one that ends with the   *)
(* election, or one with the primary and one after it.                     *)
WindowsAre(w) ==
  \/ \E s \in Int : /\ w = <<<<s, campaign.election>>>>
                    /\ campaign.today <= s /\ s <= campaign.election /\ campaign.election - s <= 49
  \/ \E s, r \in Int :
       /\ w = <<<<s, campaign.primary>>, <<r, campaign.election>>>>
       /\ campaign.today <= s /\ s <= campaign.primary /\ campaign.primary - s <= 49
       /\ campaign.primary < r /\ r <= campaign.election /\ campaign.election - r <= 49

LEMMA WindowsShape == ASSUME CampaignFits, ~Refused PROVE WindowsAre(Windows)
<1>1. CASE campaign.primary = NoDate
  <2>1. campaign.today <= campaign.election /\ campaign.today \in Int /\ campaign.election \in Int
    BY DEF CampaignFits, Refused
  <2>2. Windows = <<FromToday(campaign.today, campaign.election)>>
    BY <1>1 DEF Windows
  <2>3. QED
    BY <2>1, <2>2, FromTodayIs DEF WindowsAre
<1>2. CASE campaign.primary # NoDate
  <2>1. /\ campaign.today <= campaign.primary /\ campaign.primary < campaign.election
        /\ campaign.today \in Int /\ campaign.primary \in Int /\ campaign.election \in Int
    BY <1>2 DEF CampaignFits, Refused
  <2>2. Windows = <<FromToday(campaign.today, campaign.primary),
                    AfterPrimary(campaign.primary, campaign.election)>>
    BY <1>2 DEF Windows
  <2>3. PICK s \in Int : /\ FromToday(campaign.today, campaign.primary) = <<s, campaign.primary>>
                         /\ campaign.today <= s /\ s <= campaign.primary /\ campaign.primary - s <= 49
    BY <2>1, FromTodayIs
  <2>4. PICK r \in Int : /\ AfterPrimary(campaign.primary, campaign.election) = <<r, campaign.election>>
                         /\ campaign.primary < r /\ r <= campaign.election /\ campaign.election - r <= 49
    BY <2>1, AfterPrimaryIs
  <2>5. QED
    BY <2>2, <2>3, <2>4 DEF WindowsAre
<1>3. QED
  BY <1>1, <1>2

(* Every day of a window is between today and the election.                *)
LEMMA DaysOfWindows ==
  ASSUME CampaignFits, NEW w, WindowsAre(w), NEW x \in {w[i] : i \in DOMAIN w},
         NEW d \in {x[1], (x[1] + x[2]) \div 2, x[2]}
  PROVE  d \in Nat /\ campaign.today <= d /\ d <= campaign.election
<1>1. PICK s, v : /\ s \in Int /\ v \in Int /\ x = <<s, v>>
                  /\ campaign.today <= s /\ s <= v /\ v <= campaign.election
  <2>1. CASE \E s \in Int : /\ w = <<<<s, campaign.election>>>>
                            /\ campaign.today <= s /\ s <= campaign.election
    <3>1. PICK s \in Int : /\ w = <<<<s, campaign.election>>>>
                           /\ campaign.today <= s /\ s <= campaign.election
      BY <2>1
    <3>2. x = <<s, campaign.election>>
      BY <3>1
    <3>3. QED
      BY <3>1, <3>2 DEF CampaignFits
  <2>2. CASE \E s, r \in Int :
               /\ w = <<<<s, campaign.primary>>, <<r, campaign.election>>>>
               /\ campaign.today <= s /\ s <= campaign.primary
               /\ campaign.primary < r /\ r <= campaign.election
    <3>1. PICK s, r \in Int :
               /\ w = <<<<s, campaign.primary>>, <<r, campaign.election>>>>
               /\ campaign.today <= s /\ s <= campaign.primary
               /\ campaign.primary < r /\ r <= campaign.election
      BY <2>2
    <3>2. x = <<s, campaign.primary>> \/ x = <<r, campaign.election>>
      BY <3>1
    <3>3. /\ campaign.today \in Int /\ campaign.primary \in Int /\ campaign.election \in Int
          /\ campaign.primary <= campaign.election /\ campaign.today <= r
      BY <3>1 DEF CampaignFits
    <3>4. CASE x = <<s, campaign.primary>>
      BY <3>1, <3>3, <3>4
    <3>5. CASE x = <<r, campaign.election>>
      BY <3>1, <3>3, <3>5
    <3>6. QED
      BY <3>2, <3>4, <3>5
  <2>3. QED
    BY <2>1, <2>2 DEF WindowsAre
<1>2. d = s \/ d = v \/ d = (s + v) \div 2
  BY <1>1
<1>3. s <= (s + v) \div 2 /\ (s + v) \div 2 <= v /\ (s + v) \div 2 \in Int
  BY <1>1
<1>4. d \in Int /\ s <= d /\ d <= v
  BY <1>1, <1>2, <1>3
<1>5. campaign.today \in Nat /\ campaign.election \in Int
  BY DEF CampaignFits
<1>6. QED
  BY <1>1, <1>4, <1>5

LEMMA DayOfYear == ASSUME NEW d \in Nat PROVE d = (d \div 365) * 365 + (d % 365)
OBVIOUS

(* A readable date is read as a number, and as itself within one year.     *)
LEMMA ParsedIs ==
  ASSUME CampaignFits, NEW l, LineFits(l)
  PROVE  /\ Parsed(l) \in Int
         /\ YearOf(campaign.today) = YearOf(campaign.election) /\ l.form # "unreadable" => Parsed(l) = l.day
<1>1. PICK d, t, e : /\ d = l.day /\ t = campaign.today /\ e = campaign.election
                     /\ d \in Nat /\ t \in Nat /\ e \in Int /\ t <= d /\ d <= e
  BY DEF CampaignFits, LineFits
<1>2. l.form \in {"month_day", "full", "unreadable"}
  BY DEF LineFits, Form
<1>3. InYear(d, YearOf(e)) \in Int
  BY <1>1 DEF InYear, YearOf, YearDays
<1>4. YearOf(t) = YearOf(e) => InYear(d, YearOf(e)) = d
  <2>1. SUFFICES ASSUME t \div 365 = e \div 365 PROVE (e \div 365) * 365 + (d % 365) = d
    BY DEF InYear, YearOf, YearDays
  <2>2. PICK q \in Int : q = e \div 365 /\ q = t \div 365
    BY <1>1, <2>1
  <2>3. q * 365 <= t /\ e < q * 365 + 365
    BY <1>1, <2>2
  <2>4. d \div 365 = q
    BY <1>1, <2>3
  <2>5. d = (d \div 365) * 365 + (d % 365)
    BY <1>1, DayOfYear
  <2>6. QED
    BY <2>2, <2>4, <2>5
<1>5. CASE l.form = "unreadable"
  <2>1. Parsed(l) = e - 30
    BY <1>1, <1>5 DEF Parsed
  <2>2. QED
    BY <1>1, <1>5, <2>1
<1>6. CASE l.form = "month_day"
  <2>1. Parsed(l) = InYear(d, YearOf(e))
    BY <1>1, <1>6 DEF Parsed
  <2>2. QED
    BY <1>1, <1>3, <1>4, <2>1
<1>7. CASE l.form = "full"
  <2>1. Parsed(l) = IF d < t - 30 THEN InYear(d, YearOf(e)) ELSE d
    BY <1>1, <1>7 DEF Parsed
  <2>2. Parsed(l) = d
    BY <1>1, <2>1
  <2>3. QED
    BY <1>1, <2>2
<1>8. QED
  BY <1>2, <1>5, <1>6, <1>7

(* Every line becomes a task, whose week and deadline are of the same days.*)
LEMMA TaskIs ==
  ASSUME CampaignFits, NEW l, LineFits(l)
  PROVE  /\ TaskOf(l).line = l /\ TaskOf(l).date = Parsed(l)
         /\ TaskOf(l).week \in Nat \ {0} /\ TaskOf(l).deadline \in Nat \cup {NoDate}
         /\ TaskOf(l).deadline # NoDate => TaskOf(l).week = TaskOf(l).deadline \div 7 + 1
<1>1. PICK days \in Int : days = campaign.election - Parsed(l)
  BY ParsedIs DEF CampaignFits
<1>2. TaskOf(l) = [line |-> l, date |-> Parsed(l), week |-> WeekOf(days), deadline |-> DeadlineOf(days, l.flow)]
  BY <1>1 DEF TaskOf
<1>3. WeekOf(days) \in Nat \ {0}
  BY DEF WeekOf
<1>4. DeadlineOf(days, l.flow) \in Nat \cup {NoDate}
  BY DEF DeadlineOf
<1>5. DeadlineOf(days, l.flow) # NoDate => WeekOf(days) = DeadlineOf(days, l.flow) \div 7 + 1
  BY DEF DeadlineOf, WeekOf
<1>6. QED
  BY <1>2, <1>3, <1>4, <1>5

-----------------------------------------------------------------------------

(* What is derived from the campaign alone stays.                          *)
LEMMA CampaignStays ==
  ASSUME UNCHANGED campaign
  PROVE  /\ (CampaignFits' <=> CampaignFits) /\ (Refused' <=> Refused) /\ Windows' = Windows
         /\ \A l : (LineFits(l)' <=> LineFits(l)) /\ TaskOf(l)' = TaskOf(l)
BY DEF CampaignFits, Refused, Windows, LineFits, TaskOf, Parsed

LEMMA ScheduleStep == ASSUME ScheduleIInv, [ScheduleNext]_scheduleVars PROVE ScheduleIInv'
<1>0. UNCHANGED campaign
  BY DEF ScheduleNext, WritePlan, WriteLine, ExtractTasks, scheduleVars
<1>c. /\ (CampaignFits' <=> CampaignFits) /\ (Refused' <=> Refused) /\ Windows' = Windows
      /\ \A l : (LineFits(l)' <=> LineFits(l)) /\ TaskOf(l)' = TaskOf(l)
  BY <1>0, CampaignStays
<1>1. CASE WritePlan
  <2>1. voterPlan.status = "none" /\ lines = {} /\ planTasks = {} /\ UNCHANGED <<lines, planTasks>>
    BY <1>1 DEF WritePlan, ScheduleIInv
  <2>2. CASE Refused
    <3>1. voterPlan'.status = "refused" /\ voterPlan'.windows = <<>>
          /\ voterPlan' = [status |-> "refused", windows |-> <<>>]
      BY <1>1, <2>1, <2>2 DEF WritePlan, ScheduleIInv
    <3>2. QED
      BY <1>c, <2>1, <3>1 DEF ScheduleIInv
  <2>3. CASE ~Refused
    <3>1. voterPlan' = [status |-> "written", windows |-> Windows]
      BY <1>1, <2>3 DEF WritePlan
    <3>2. QED
      BY <1>c, <2>1, <2>3, <3>1 DEF ScheduleIInv
  <2>4. QED
    BY <2>2, <2>3
<1>2. CASE WriteLine
  <2>1. voterPlan.status = "written" /\ voterPlan.windows = Windows /\ ~Refused /\ UNCHANGED <<voterPlan, planTasks>>
    BY <1>2 DEF WriteLine, ScheduleIInv
  <2>2. PICK w \in {voterPlan.windows[i] : i \in DOMAIN voterPlan.windows}, f \in Form, flow \in FlowType :
          \E d \in {w[1], (w[1] + w[2]) \div 2, w[2]} :
            lines' = lines \cup {[day |-> d, form |-> f, flow |-> flow]}
    BY <1>2 DEF WriteLine
  <2>3. PICK d \in {w[1], (w[1] + w[2]) \div 2, w[2]} : lines' = lines \cup {[day |-> d, form |-> f, flow |-> flow]}
    BY <2>2
  <2>4. w \in {Windows[i] : i \in DOMAIN Windows}
    BY <2>1
  <2>5. d \in Nat /\ campaign.today <= d /\ d <= campaign.election
    <3>1. CampaignFits
      BY DEF ScheduleIInv
    <3>2. WindowsAre(Windows)
      BY <2>1, <3>1, WindowsShape
    <3>3. PICK x : x = Windows
      OBVIOUS
    <3>4. WindowsAre(x) /\ w \in {x[i] : i \in DOMAIN x}
      BY <2>4, <3>2, <3>3
    <3>5. QED
      BY <3>1, <3>4, DaysOfWindows
  <2>6. PICK added : added = [day |-> d, form |-> f, flow |-> flow]
    OBVIOUS
  <2>7. LineFits(added)
    BY <2>5, <2>6 DEF LineFits
  <2>8. lines' = lines \cup {added}
    BY <2>3, <2>6
  <2>9. IsFiniteSet(lines')
    BY <2>8, FS_AddElement DEF ScheduleIInv
  <2>10. \A l \in lines' : LineFits(l)'
    BY <1>c, <2>7, <2>8 DEF ScheduleIInv
  <2>11. planTasks' = {}
    BY <2>1 DEF ScheduleIInv
  <2>12. QED
    BY <1>c, <2>1, <2>9, <2>10, <2>11 DEF ScheduleIInv
<1>3. CASE ExtractTasks
  <2>1. /\ voterPlan.status = "written" /\ voterPlan' = [voterPlan EXCEPT !.status = "extracted"]
        /\ planTasks' = {t \in {TaskOf(l) : l \in lines} : t.week >= 1} /\ UNCHANGED lines
    BY <1>3 DEF ExtractTasks
  <2>2. voterPlan' = [status |-> "extracted", windows |-> Windows] /\ ~Refused
    BY <2>1 DEF ScheduleIInv
  <2>3. \A l \in lines : TaskOf(l).week >= 1
    BY TaskIs DEF ScheduleIInv
  <2>4. planTasks' = {TaskOf(l) : l \in lines}
    BY <2>1, <2>3
  <2>5. planTasks' = {TaskOf(l)' : l \in lines}
    BY <1>c, <2>4
  <2>6. QED
    BY <1>c, <2>1, <2>2, <2>5 DEF ScheduleIInv
<1>4. CASE UNCHANGED scheduleVars
  <2>1. UNCHANGED <<voterPlan, lines, planTasks>>
    BY <1>4 DEF scheduleVars
  <2>2. {TaskOf(l)' : l \in lines} = {TaskOf(l) : l \in lines}
    BY <1>c
  <2>3. QED
    BY <1>c, <2>1, <2>2 DEF ScheduleIInv
<1>5. QED
  BY <1>1, <1>2, <1>3, <1>4 DEF ScheduleNext

(* There are as many tasks as lines: a task keeps its line.                *)
LEMMA TasksPerLine ==
  ASSUME ScheduleIInv
  PROVE  Cardinality({TaskOf(l) : l \in lines}) = Cardinality(lines)
<1> DEFINE T == {TaskOf(l) : l \in lines}
           f == [l \in lines |-> TaskOf(l)]
<1>1. \A l \in lines : TaskOf(l).line = l
  BY TaskIs DEF ScheduleIInv
<1>2. f \in [lines -> T]
  OBVIOUS
<1>3. IsInjective(f)
  BY <1>1 DEF IsInjective
<1>4. \A t \in T : \E l \in lines : f[l] = t
  OBVIOUS
<1>5. f \in Bijection(lines, T)
  BY <1>2, <1>3, <1>4 DEF Bijection, Injection, Surjection
<1>6. ExistsBijection(lines, T)
  BY <1>5 DEF ExistsBijection
<1>7. QED
  BY <1>6, FS_Bijection DEF ScheduleIInv

LEMMA WindowsSoundHere == ASSUME ScheduleIInv PROVE WindowsSound
<1>1. PICK w : w = voterPlan.windows
  OBVIOUS
<1>2. Cardinality(1 .. 1) = 1 /\ Cardinality(1 .. 2) = 2
  <2>1. PICK one \in Int, two \in Int : one = 1 /\ two = 2
    OBVIOUS
  <2>2. /\ Cardinality(one .. one) = IF one > one THEN 0 ELSE one - one + 1
        /\ Cardinality(one .. two) = IF one > two THEN 0 ELSE two - one + 1
    BY ONLY FS_Interval
  <2>3. QED
    BY <2>1, <2>2
<1>3. CASE w = <<>>
  <2>1. DOMAIN w = {} /\ Cardinality(DOMAIN w) = 0
    BY <1>3, FS_EmptySet
  <2>2. QED
    BY <1>1, <1>3, <2>1 DEF WindowsSound
<1>4. CASE \E s \in Int : /\ w = <<<<s, campaign.election>>>>
                          /\ campaign.today <= s /\ s <= campaign.election /\ campaign.election - s <= 49
  <2>1. PICK s \in Int : /\ w = <<<<s, campaign.election>>>>
                         /\ campaign.today <= s /\ s <= campaign.election /\ campaign.election - s <= 49
    BY <1>4
  <2>2. DOMAIN w = 1 .. 1 /\ w[1] = <<s, campaign.election>>
    BY <2>1
  <2>3. Cardinality(DOMAIN w) = 1
    BY <1>2, <2>2
  <2>4. QED
    BY <1>1, <2>1, <2>2, <2>3 DEF WindowsSound
<1>5. CASE \E s, r \in Int :
             /\ w = <<<<s, campaign.primary>>, <<r, campaign.election>>>>
             /\ campaign.today <= s /\ s <= campaign.primary /\ campaign.primary - s <= 49
             /\ campaign.primary < r /\ r <= campaign.election /\ campaign.election - r <= 49
  <2>1. PICK s, r \in Int :
             /\ w = <<<<s, campaign.primary>>, <<r, campaign.election>>>>
             /\ campaign.today <= s /\ s <= campaign.primary /\ campaign.primary - s <= 49
             /\ campaign.primary < r /\ r <= campaign.election /\ campaign.election - r <= 49
    BY <1>5
  <2>2. DOMAIN w = 1 .. 2 /\ w[1] = <<s, campaign.primary>> /\ w[2] = <<r, campaign.election>>
    BY <2>1
  <2>3. Cardinality(DOMAIN w) = 2
    BY <1>2, <2>2
  <2>4. campaign.today <= r
    BY <2>1 DEF ScheduleIInv, CampaignFits
  <2>5. \A i \in 1 .. 2 : i = 1 \/ i = 2
    OBVIOUS
  <2>6. \A i \in DOMAIN w : campaign.today <= w[i][1] /\ w[i][1] <= w[i][2] /\ w[i][2] - w[i][1] <= 49
    BY <2>1, <2>2, <2>4, <2>5
  <2>7. w[1][2] < w[2][1] /\ w[1][2] = campaign.primary /\ w[2][2] = campaign.election
    BY <2>1, <2>2
  <2>8. QED
    BY <1>1, <2>3, <2>6, <2>7 DEF WindowsSound
<1>6. w = <<>> \/ WindowsAre(w)
  BY <1>1, WindowsShape DEF ScheduleIInv
<1>7. QED
  BY <1>3, <1>4, <1>5, <1>6, Zenon DEF WindowsAre

LEMMA ScheduleImplied == ScheduleIInv => ScheduleInv
<1>1. SUFFICES ASSUME ScheduleIInv PROVE ScheduleInv
  OBVIOUS
<1>2. ASSUME NEW t \in planTasks
      PROVE  /\ voterPlan.status = "extracted" /\ planTasks = {TaskOf(l) : l \in lines}
             /\ \E l \in lines : t = TaskOf(l) /\ LineFits(l)
  BY <1>1 DEF ScheduleIInv
<1>3. ASSUME NEW t \in planTasks
      PROVE  /\ t.line \in lines /\ t.week \in Nat \ {0} /\ t.deadline \in Nat \cup {NoDate}
             /\ YearOf(campaign.today) = YearOf(campaign.election) /\ t.line.form # "unreadable"
                  => t.date = t.line.day
             /\ t.deadline # NoDate => t.week = t.deadline \div 7 + 1
  <2>1. PICK l \in lines : t = TaskOf(l) /\ LineFits(l)
    BY <1>2
  <2>2. CampaignFits
    BY <1>1 DEF ScheduleIInv
  <2>3. QED
    BY <2>1, <2>2, TaskIs, ParsedIs
<1>4. ScheduleTypeOK
  BY <1>1, <1>3 DEF ScheduleIInv, ScheduleTypeOK, LineFits
<1>5. DatesKept
  <2>1. voterPlan.status = "extracted" => Cardinality(planTasks) = Cardinality(lines)
    BY <1>1, TasksPerLine DEF ScheduleIInv
  <2>2. QED
    BY <1>3, <2>1 DEF DatesKept
<1>6. QED
  BY <1>1, <1>4, <1>5, WindowsSoundHere DEF ScheduleInv

(* The windows of a plan start today or later, end on a vote that is not   *)
(* over, last 49 days at most and follow one another; within one year no   *)
(* readable date is lost or moved on the way through the text, every line  *)
(* becomes a task, and its week and deadline count the same days: for any  *)
(* day and any distance of the votes, not those of the run alone           *)
(* (six_voter_contact_plan.py, structured_task_extractor.py).              *)
THEOREM DatesAreSound == ScheduleSpec => []ScheduleInv
<1>1. ScheduleIInv /\ [ScheduleNext]_scheduleVars => ScheduleIInv'
  BY ScheduleStep
<1>2. QED
  BY <1>1, ScheduleStart, ScheduleImplied, PTL DEF ScheduleSpec

-----------------------------------------------------------------------------
(* The sections of a campaign plan                                         *)

(* The community section is there only after both its halves.              *)
SectionsIInv ==
  /\ SectionsInv
  /\ text["community"] # "none" => \A h \in Half : half[h] \in {"good", "failed"}

LEMMA SectionsStart == SectionsInit => SectionsIInv
BY DEF SectionsInit, SectionsIInv, SectionsInv, SectionsTypeOK, AllBilled, DocumentWhole, Section

(* What the calls of a step used is the tracker's or still the client's.   *)
LEMMA Accounts ==
  ASSUME NEW n \in Nat, client \in Nat, tracked \in Nat, sectionsSpent = tracked + client
  PROVE  /\ Owes(n) \/ Bills(n) =>
              client' \in Nat /\ tracked' \in Nat /\ sectionsSpent' \in Nat /\ sectionsSpent' = tracked' + client'
         /\ Bills(n) => tracked' = sectionsSpent' /\ client' = 0
BY DEF Owes, Bills

LEMMA SectionsStep == SectionsIInv /\ [SectionsNext]_sectionsVars => SectionsIInv'
<1> SUFFICES ASSUME SectionsIInv, [SectionsNext]_sectionsVars PROVE SectionsIInv'
  OBVIOUS
<1>0. /\ text \in [Section -> {"none", "good", "failed"}]
      /\ half \in [Half -> {"none", "searches", "good", "failed"}]
      /\ client \in Nat /\ tracked \in Nat /\ sectionsSpent \in Nat
      /\ document \in {"cleaning", "sections", "whole", "assembled", "failed"}
      /\ sectionsSpent = tracked + client /\ 0 \in Nat
      /\ document \in {"whole", "assembled"} => tracked = sectionsSpent /\ client = 0
      /\ document \in {"whole", "assembled"} =>
           (\A s \in Section : text[s] # "none") /\ (\A h \in Half : half[h] \in {"good", "failed"})
      /\ text["community"] # "none" => \A h \in Half : half[h] \in {"good", "failed"}
      /\ 0 .. MaxTokens \subseteq Nat /\ 0 .. 0 \subseteq Nat
      /\ "community" \in Section /\ "timeline" \in Section
  BY DEF SectionsIInv, SectionsInv, SectionsTypeOK, AllBilled, DocumentWhole, Section
<1> USE DEF SectionsIInv, SectionsInv, SectionsTypeOK, AllBilled, DocumentWhole
<1>1. CASE Clean
  <2>1. PICK n \in Nat : Owes(n)
    BY <1>0, <1>1 DEF Clean
  <2>2. /\ client' \in Nat /\ tracked' \in Nat /\ sectionsSpent' \in Nat
        /\ sectionsSpent' = tracked' + client'
    BY ONLY <1>0, <2>1, Accounts
  <2>3. QED
    BY <1>0, <1>1, <2>2 DEF Clean
<1>2. ASSUME NEW s \in Section, WriteSection(s) PROVE SectionsIInv'
  <2>1. PICK n \in Nat, good \in BOOLEAN :
          /\ IF good \/ s = "contact" THEN Bills(n) ELSE Owes(n)
          /\ text' = [text EXCEPT ![s] = IF good THEN "good" ELSE "failed"]
    BY <1>0, <1>2 DEF WriteSection
  <2>2. /\ client' \in Nat /\ tracked' \in Nat /\ sectionsSpent' \in Nat
        /\ sectionsSpent' = tracked' + client'
    BY ONLY <1>0, <2>1, Accounts
  <2>3. QED
    BY <1>0, <1>2, <2>1, <2>2 DEF WriteSection
<1>3. ASSUME NEW h \in Half, StartHalf(h) PROVE SectionsIInv'
  <2>1. PICK n \in Nat : Owes(n) /\ half' \in {[half EXCEPT ![h] = g] : g \in {"good", "searches"}}
    BY <1>0, <1>3 DEF StartHalf
  <2>2. /\ client' \in Nat /\ tracked' \in Nat /\ sectionsSpent' \in Nat
        /\ sectionsSpent' = tracked' + client'
    BY ONLY <1>0, <2>1, Accounts
  <2>3. text' = text /\ document' = document /\ document = "sections" /\ text["community"] = "none"
    BY <1>0, <1>3 DEF StartHalf
  <2>4. QED
    BY <1>0, <2>1, <2>2, <2>3
<1>4. ASSUME NEW h \in Half, EndHalf(h) PROVE SectionsIInv'
  <2>1. PICK n \in Nat : Owes(n)
    BY <1>0, <1>4 DEF EndHalf
  <2>2. /\ client' \in Nat /\ tracked' \in Nat /\ sectionsSpent' \in Nat
        /\ sectionsSpent' = tracked' + client'
    BY ONLY <1>0, <2>1, Accounts
  <2>3. /\ text' = text /\ document' = document /\ half' \in [Half -> {"none", "searches", "good", "failed"}]
        /\ document \notin {"whole", "assembled"} /\ text["community"] = "none"
    BY <1>0, <1>4 DEF EndHalf
  <2>4. QED
    BY <1>0, <2>2, <2>3
<1>5. CASE JoinHalves
  <2>1. /\ client' \in Nat /\ tracked' \in Nat /\ sectionsSpent' \in Nat
        /\ sectionsSpent' = tracked' + client'
    BY <1>0, <1>5, Accounts DEF JoinHalves
  <2>2. QED
    BY <1>0, <1>5, <2>1 DEF JoinHalves
<1>6. CASE WriteTimeline
  <2>1. PICK n \in Nat : Bills(n)
    BY <1>0, <1>6 DEF WriteTimeline
  <2>2. /\ client' \in Nat /\ tracked' \in Nat /\ sectionsSpent' \in Nat
        /\ sectionsSpent' = tracked' + client' /\ tracked' = sectionsSpent' /\ client' = 0
    BY ONLY <1>0, <2>1, Accounts
  <2>3. half' = half /\ document' = "whole" /\ \A h \in Half : half[h] \in {"good", "failed"}
    BY <1>0, <1>6 DEF WriteTimeline, Gathered
  <2>4. text' \in [Section -> {"none", "good", "failed"}] /\ \A s \in Section : text'[s] # "none"
    BY <1>0, <1>6 DEF WriteTimeline, Gathered
  <2>5. QED
    BY <2>2, <2>3, <2>4
<1>7. CASE Assemble
  BY <1>0, <1>7 DEF Assemble
<1>8. CASE UNCHANGED sectionsVars
  BY <1>0, <1>8 DEF sectionsVars
<1>9. QED
  BY <1>1, <1>2, <1>3, <1>4, <1>5, <1>6, <1>7, <1>8 DEF SectionsNext

(* The six sections of a plan (ai_generated_campaign_plan/orchestrator.py) *)
(* share one model client, whose usage _track_llm_usage takes and resets:  *)
(* in whatever order they end or fail, the plan is made when all are there *)
(* and is billed for all they used, once.                                  *)
THEOREM PlanIsBilled == SectionsSpec => []SectionsInv
<1>1. SectionsInit => SectionsIInv
  BY SectionsStart
<1>2. SectionsIInv /\ [SectionsNext]_sectionsVars => SectionsIInv'
  BY SectionsStep
<1>3. SectionsIInv => SectionsInv
  BY DEF SectionsIInv
<1>4. QED
  BY <1>1, <1>2, <1>3, PTL DEF SectionsSpec
=============================================================================
