---------------------------- MODULE ScopeTickets ----------------------------
(***************************************************************************)
(* The scope-ticket table of the broker for one run: minting and deleting  *)
(* run tokens (broker/dynamodb_client.py, endpoints/mint_run_token.py,     *)
(* delete_run_token.py), authentication (auth.py), the data-query counter  *)
(* on the ticket item (data_query_tracker.py) and the query endpoint that  *)
(* feeds it (databricks_query.py), on any number of broker instances.      *)
(* What else a report does is in BrokerReports.                            *)
(***************************************************************************)
EXTENDS Integers, FiniteSets

CONSTANTS
  Token,        \* run tokens: uuids, fresh for every mint
  BrokerRequest,      \* requests that can be in progress at the same time
  TicketTTL,    \* exp - now at the mint
  MaxTicketNow, MaxCount  \* bounds

ASSUME TicketAssumption == TicketTTL \in Nat \ {0} /\ {MaxTicketNow, MaxCount} \subseteq Nat

VARIABLES
  ticketNow,
  minted,    \* tokens for which a mint was tried
  items,     \* the ticket items
  lock,      \* the item run:<run_id>
  calls,     \* the requests: the call each makes next
  acked,     \* per item: queries answered with 200 since it is there
  robbed     \* a delete took the lock of another token's ticket

ticketVars == <<ticketNow, minted, items, lock, calls, acked, robbed>>

(* What is in the table under a key.  An update of an absent item creates  *)
(* a stray one, which has no exp.                                          *)
NoTicket == [kind |-> "absent", exp |-> 0, count |-> 0]
Stray(c) == [kind |-> "stray", exp |-> 0, count |-> c]
NoLock == [held |-> FALSE, token |-> 0, exp |-> 0]
Resting == [at |-> "none", op |-> "query", token |-> 0]

TicketItem == [kind : {"absent", "ticket", "stray"}, exp : Nat, count : Nat]
TicketLock == [held : BOOLEAN, token : Token \cup {0}, exp : Nat]
TicketCall == [at : {"none", "auth", "execute", "increment", "delete", "clear"},
               op : {"query", "terminal", "cleanup"}, token : Token \cup {0}]

TicketsTypeOK ==
  /\ ticketNow \in Nat /\ minted \in SUBSET Token
  /\ items \in [Token -> TicketItem] /\ lock \in TicketLock
  /\ calls \in [BrokerRequest -> TicketCall]
  /\ acked \in [Token -> Nat] /\ robbed \in BOOLEAN

TicketsInit ==
  /\ ticketNow = 0 /\ minted = {}
  /\ items = [t \in Token |-> NoTicket]
  /\ lock = NoLock
  /\ calls = [r \in BrokerRequest |-> Resting]
  /\ acked = [t \in Token |-> 0]
  /\ robbed = FALSE

GoOn(r, a) == calls' = [calls EXCEPT ![r].at = a]
Over(r) == calls' = [calls EXCEPT ![r] = Resting]

(* exp <= now is no ticket for get_ticket; a new one needs exp < now.      *)
Live(t) == items[t].kind = "ticket" /\ items[t].exp > ticketNow
LockFree == ~lock.held \/ lock.exp < ticketNow

-----------------------------------------------------------------------------
(* Variant for the mutation run: the transaction has no condition on the   *)
(* lock.                                                                   *)
MintUnlocked(t) ==
  /\ t \notin minted
  /\ minted' = minted \cup {t}
  /\ \/ /\ items' = [items EXCEPT ![t] = [kind |-> "ticket", exp |-> ticketNow + TicketTTL, count |-> 0]]
        /\ lock' = [held |-> TRUE, token |-> t, exp |-> ticketNow + TicketTTL]
     \/ UNCHANGED <<items, lock>>
  /\ UNCHANGED <<ticketNow, calls, acked, robbed>>

(* Variant: the lock expires with the second of the mint.                  *)
MintLockShort(t) ==
  /\ t \notin minted
  /\ minted' = minted \cup {t}
  /\ \/ /\ LockFree
        /\ items' = [items EXCEPT ![t] = [kind |-> "ticket", exp |-> ticketNow + TicketTTL, count |-> 0]]
        /\ lock' = [held |-> TRUE, token |-> t, exp |-> ticketNow]
     \/ UNCHANGED <<items, lock>>
  /\ UNCHANGED <<ticketNow, calls, acked, robbed>>

(* put_ticket: ticket and lock in one transaction.  A conflict, or an error*)
(* of DynamoDB, which may have taken effect.                               *)
Mint(t) ==
  /\ t \notin minted
  /\ minted' = minted \cup {t}
  /\ \/ /\ LockFree
        /\ items' = [items EXCEPT ![t] = [kind |-> "ticket", exp |-> ticketNow + TicketTTL, count |-> 0]]
        /\ lock' = [held |-> TRUE, token |-> t, exp |-> ticketNow + TicketTTL]
     \/ UNCHANGED <<items, lock>>
  /\ UNCHANGED <<ticketNow, calls, acked, robbed>>

(* A query or a terminal report comes with the token; a cleanup with the   *)
(* service token, from the launcher.                                       *)
BeginRequest(r, op, t) ==
  /\ calls[r].at = "none" /\ t \in minted
  /\ calls' = [calls EXCEPT ![r] = [at |-> IF op = "cleanup" THEN "delete" ELSE "auth",
                                    op |-> op, token |-> t]]
  /\ UNCHANGED <<ticketNow, minted, items, lock, acked, robbed>>

(* BrokerTokenAuth.verify: 401 without a live ticket, an error on a stray  *)
(* item.                                                                   *)
VerifyToken(r) ==
  /\ calls[r].at = "auth"
  /\ IF Live(calls[r].token)
     THEN GoOn(r, IF calls[r].op = "query" THEN "execute" ELSE "delete")
     ELSE Over(r)
  /\ UNCHANGED <<ticketNow, minted, items, lock, acked, robbed>>

(* The query is read-only, tried twice on the worker thread's connection;  *)
(* then a 502.                                                             *)
Execute(r) ==
  /\ calls[r].at = "execute"
  /\ GoOn(r, "increment") \/ Over(r)
  /\ UNCHANGED <<ticketNow, minted, items, lock, acked, robbed>>

Counted(i) == IF i.kind = "absent" THEN Stray(1) ELSE [i EXCEPT !.count = i.count + 1]
Added(t) == [items EXCEPT ![t] = Counted(items[t])]

(* Variant: the count is set to one.                                       *)
IncrementSets(r) ==
  LET t == calls[r].token
  IN /\ calls[r].at = "increment" /\ items[t].count < MaxCount
     /\ items' = [items EXCEPT ![t] = IF @.kind = "absent" THEN Stray(1) ELSE [@ EXCEPT !.count = 1]]
     /\ acked' = [acked EXCEPT ![t] = @ + 1]
     /\ Over(r)
     /\ UNCHANGED <<ticketNow, minted, lock, robbed>>

(* increment: an atomic ADD, or an error, with or without effect.          *)
Increment(r) ==
  LET t == calls[r].token
  IN /\ calls[r].at = "increment" /\ items[t].count < MaxCount
     /\ \/ items' = Added(t) /\ acked' = [acked EXCEPT ![t] = @ + 1]
        \/ items' \in {items, Added(t)} /\ UNCHANGED acked
     /\ Over(r)
     /\ UNCHANGED <<ticketNow, minted, lock, robbed>>

(* delete_ticket_and_run_lock, which does not look whose lock it is; after *)
(* a terminal report the counter goes, whether or not the delete failed.   *)
Delete(r) ==
  LET t == calls[r].token
  IN /\ calls[r].at = "delete"
     /\ \/ /\ items' = [items EXCEPT ![t] = NoTicket]
           /\ acked' = [acked EXCEPT ![t] = 0]
           /\ lock' = NoLock
           /\ robbed' = (robbed \/ (lock.held /\ lock.token # t))
        \/ UNCHANGED <<items, acked, lock, robbed>>
     /\ IF calls[r].op = "terminal" THEN GoOn(r, "clear") ELSE Over(r)
     /\ UNCHANGED <<ticketNow, minted>>

Clear(r) ==
  LET t == calls[r].token
  IN /\ calls[r].at = "clear"
     /\ \/ items' = [items EXCEPT ![t].count = 0] /\ acked' = [acked EXCEPT ![t] = 0]
        \/ UNCHANGED <<items, acked>>
     /\ Over(r)
     /\ UNCHANGED <<ticketNow, minted, lock, robbed>>

(* The broker instance dies.                                               *)
Crash(r) ==
  /\ calls[r].at # "none" /\ Over(r)
  /\ UNCHANGED <<ticketNow, minted, items, lock, acked, robbed>>

(* DynamoDB's TTL removes what has expired, some time; nothing without exp.*)
Sweep(t) ==
  /\ items[t].kind = "ticket" /\ items[t].exp < ticketNow
  /\ items' = [items EXCEPT ![t] = NoTicket]
  /\ acked' = [acked EXCEPT ![t] = 0]
  /\ UNCHANGED <<ticketNow, minted, lock, calls, robbed>>

SweepLock ==
  /\ lock.held /\ lock.exp < ticketNow
  /\ lock' = NoLock
  /\ UNCHANGED <<ticketNow, minted, items, calls, acked, robbed>>

TicketTick ==
  /\ ticketNow < MaxTicketNow /\ ticketNow' = ticketNow + 1
  /\ UNCHANGED <<minted, items, lock, calls, acked, robbed>>

TicketsNext ==
  \/ \E t \in Token : Mint(t) \/ Sweep(t)
  \/ \E r \in BrokerRequest, t \in Token, op \in {"query", "terminal", "cleanup"} : BeginRequest(r, op, t)
  \/ \E r \in BrokerRequest : VerifyToken(r) \/ Execute(r) \/ Increment(r) \/ Delete(r) \/ Clear(r) \/ Crash(r)
  \/ SweepLock \/ TicketTick

TicketsSpec == TicketsInit /\ [][TicketsNext]_ticketVars

-----------------------------------------------------------------------------
(* Properties                                                              *)

(* A run never has two tokens that authenticate, through mints that are    *)
(* retried, expire on the tick or are cleaned up late; unless a delayed    *)
(* delete took the lock of a later ticket, which the code does not guard.  *)
OneLiveTicket == robbed \/ \A t, u \in Token : Live(t) /\ Live(u) => t = u

(* What it rests on.                                                       *)
LockInv ==
  /\ TicketsTypeOK
  /\ \A t \in Token :
       /\ items[t].kind = "ticket" => t \in minted
       /\ Live(t) /\ ~robbed => lock.held /\ lock.token = t /\ lock.exp = items[t].exp

(* No query that was answered is missing in the count the publish gate     *)
(* reads, however many instances count at once.                            *)
CountComplete ==
  \A t \in Token : items[t].kind = "ticket" => acked[t] <= items[t].count

(* The tickets of the broker are sound: one at a time for a run, locked as *)
(* long as it lives, and with every answered query counted.                *)
TicketsInv == OneLiveTicket /\ LockInv /\ CountComplete
=============================================================================
