----------------------------- MODULE Settlement -----------------------------
(***************************************************************************)
(* How an order of one market travels through the engine process, and a    *)
(* match back to the chain and into the database (engine/notifier/mpq,     *)
(* engine/market, engine/launcher, engine/db).                             *)
(*                                                                         *)
(*   chain --events--> notifier --engineList--> engine loop --marketCh-->  *)
(*   market --launcherCh--> launcher --sent--> chain,                      *)
(*   launcher --notifierList--> notifier (which transactions to wait for)  *)
(*                                                                         *)
(* The two lists live in redis and the orders and match records in mysql,  *)
(* so they survive a crash of the process; the channels, the book, the     *)
(* notifier's map and whatever a goroutine holds do not.  Which orders an  *)
(* order matches is left open here: OrderBook says it; an order whose price*)
(* or quantity is zero, which the book refuses, is not created here.  A    *)
(* transaction is named by the match it settles, since a match is sent at  *)
(* most once.  A call to redis or mysql that fails is logged and its effect*)
(* is lost; one lost effect is counted in losses.  Not modelled: amounts,  *)
(* the rows of table trade (inserted when a match becomes done), hash_url, *)
(* and failures of the calls that update a row's state or the view.        *)
(***************************************************************************)
EXTENDS Integers, Sequences, FiniteSets

CONSTANTS
  MaxOrders,     \* bound: orders created on the chain
  MaxMakers,     \* bound: makers of one match
  MarketCap,     \* capacity of Market.ch
  LauncherCap,   \* capacity of launcher.ch
  MaxCancels,    \* bound: cancellations on the chain
  MaxFailures,   \* bound: failed sends and failed transactions
  MaxLosses,     \* bound: failed calls to redis and mysql
  MaxCrashes     \* bound: crashes of the process

ASSUME BoundAssumption ==
  /\ MaxOrders \in Nat /\ MaxMakers \in Nat /\ MaxCancels \in Nat
  /\ MaxFailures \in Nat /\ MaxLosses \in Nat /\ MaxCrashes \in Nat
ASSUME CapAssumption == MarketCap \in Nat \ {0} /\ LauncherCap \in Nat \ {0}

VARIABLES
  created,      \* chain: how many orders exist; their ids are 1..created
  cancelled,    \* chain: the orders their creators have cancelled
  sent,         \* chain: transactions waiting for execution, in nonce order
  executed,     \* chain: transactions that succeeded
  events,       \* the message queue of contract events
  engineList,   \* redis list "engine"
  notifierList, \* redis list "notifier"
  rows,         \* mysql: the limit_order rows, by id
  matches,      \* mysql: the match_record rows, in the order of their ids
  view,         \* redis: the ids in the book that the API shows
  up,           \* the process runs
  waiting,      \* notifier: waitTxHashList, tx -> number of events received
  inHand,       \* engine loop: the event popped from redis, if any
  marketCh,     \* Market.ch
  resting,      \* Market.orderbook: ids of the resting orders
  submitting,   \* market: the match it is about to hand over, or 0
  launcherCh,   \* launcher.ch
  sending,      \* launcher: what it is doing, and the match it does it for
  cancels, failures, losses, crashes   \* how often the environment has acted

chainVars == <<created, cancelled, sent, executed, events>>
durable == <<engineList, notifierList, rows, matches, view>>
volatile == <<waiting, inHand, marketCh, resting, submitting, launcherCh, sending>>
faults == <<cancels, failures, losses, crashes>>
vars == <<chainVars, durable, up, volatile, faults>>

----------------------------------------------------------------------------
Id == 1..MaxOrders
MatchId == 1..Len(matches)

NewOrder(id) == [kind |-> "new", id |-> id]      \* NEW_BUY_ORDER, NEW_SELL_ORDER
Update(m) == [kind |-> "update", id |-> m]       \* UPDATE_ORDER_EVENT
Created(id) == [kind |-> "create", id |-> id]    \* createBuyOrder, createSellOrder
Matched(m) == [kind |-> "match", id |-> m]       \* matchOrdersExt

NotSending == [phase |-> "idle", match |-> 0]

(* The contract emits one event per order of a match: the taker and the    *)
(* makers; NumOfEventsNeedsToWait is the same number.                      *)
NumOfEvents(m) == Cardinality(matches[m].makers) + 1

Init ==
  /\ created = 0 /\ cancelled = {} /\ sent = <<>> /\ executed = {} /\ events = <<>>
  /\ engineList = <<>> /\ notifierList = <<>> /\ rows = [id \in {} |-> 0]
  /\ matches = <<>> /\ view = {}
  /\ up = TRUE
  /\ waiting = [m \in {} |-> 0]
  /\ inHand = <<>> /\ marketCh = <<>> /\ resting = {} /\ submitting = 0
  /\ launcherCh = <<>> /\ sending = NotSending
  /\ cancels = 0 /\ failures = 0 /\ losses = 0 /\ crashes = 0

----------------------------------------------------------------------------
(* The chain.  A cancellation emits an event nobody handles                *)
(* (EventNotifier.run knows three identifiers), so none is queued for it.  *)
CreateOrder ==
  /\ created < MaxOrders
  /\ created' = created + 1
  /\ events' = Append(events, Created(created + 1))
  /\ UNCHANGED <<cancelled, sent, executed, durable, up, volatile, faults>>

CancelOrder(id) ==
  /\ cancels < MaxCancels
  /\ id \in 1..created \ cancelled
  /\ cancelled' = cancelled \cup {id}
  /\ cancels' = cancels + 1
  /\ UNCHANGED <<created, sent, executed, events, durable, up, volatile,
                 failures, losses, crashes>>

(* The oldest transaction is executed.  It reverts if one of its orders    *)
(* has left the contract, and may fail for reasons of its own (gas, nonce).*)
Involved(m) == {matches[m].taker} \cup matches[m].makers

ExecuteSuccess ==
  /\ sent # <<>>
  /\ Involved(Head(sent)) \cap cancelled = {}
  /\ sent' = Tail(sent)
  /\ executed' = executed \cup {Head(sent)}
  /\ events' = events \o [i \in 1..NumOfEvents(Head(sent)) |-> Matched(Head(sent))]
  /\ UNCHANGED <<created, cancelled, durable, up, volatile, faults>>

ExecuteFailure ==
  /\ sent # <<>>
  /\ \/ Involved(Head(sent)) \cap cancelled # {} /\ UNCHANGED failures
     \/ failures < MaxFailures /\ failures' = failures + 1
  /\ sent' = Tail(sent)
  /\ UNCHANGED <<created, cancelled, executed, events, durable, up, volatile,
                 cancels, losses, crashes>>

----------------------------------------------------------------------------
(* The process dies: it loses what it holds, and the events that the broker*)
(* has delivered and counts as acknowledged (auto-ack).                    *)
Die(lost) ==
  /\ up' = FALSE
  /\ events' = SubSeq(events, lost + 1, Len(events))
  /\ waiting' = [m \in {} |-> 0]
  /\ inHand' = <<>> /\ marketCh' = <<>> /\ resting' = {} /\ submitting' = 0
  /\ launcherCh' = <<>> /\ sending' = NotSending
  /\ crashes' = crashes + 1

Crash ==
  /\ up
  /\ crashes < MaxCrashes
  /\ \E lost \in 0..Len(events) : Die(lost)
  /\ UNCHANGED <<created, cancelled, sent, executed, durable, cancels, failures,
                 losses>>

(* main starts every part from scratch; nothing is read back from mysql.   *)
Restart ==
  /\ ~up
  /\ up' = TRUE
  /\ UNCHANGED <<chainVars, durable, volatile, faults>>

----------------------------------------------------------------------------
(* A call to redis or mysql may fail.                                      *)
Lose == losses < MaxLosses /\ losses' = losses + 1

(* EventNotifier.run: handleCreateOrder.                                   *)
NotifyCreate ==
  /\ up
  /\ events # <<>>
  /\ Head(events).kind = "create"
  /\ events' = Tail(events)
  /\ \/ engineList' = Append(engineList, NewOrder(Head(events).id)) /\ UNCHANGED losses
     \/ Lose /\ UNCHANGED engineList
  /\ UNCHANGED <<created, cancelled, sent, executed, notifierList, rows, matches,
                 view, up, volatile, cancels, failures, crashes>>

(* Mutants: every event of a transaction is passed on; none is, because the*)
(* count is one too high.                                                  *)
CompletesAtOnce(m) == m \in DOMAIN waiting
CompletesLate(m) == waiting[m] + 1 = NumOfEvents(m) + 1

(* WaitOrderMatch.AllEventReceived, after one more event.                  *)
Completes(m) == waiting[m] + 1 = NumOfEvents(m)

(* EventNotifier.run: handleMatch counts the events of a transaction and   *)
(* passes the last one on.                                                 *)
NotifyMatch ==
  LET m == Head(events).id
  IN /\ up
     /\ events # <<>>
     /\ Head(events).kind = "match"
     /\ m \in DOMAIN waiting
     /\ events' = Tail(events)
     /\ waiting' = [waiting EXCEPT ![m] = @ + 1]
     /\ \/ /\ engineList' = IF Completes(m)
                            THEN Append(engineList, Update(m)) ELSE engineList
           /\ UNCHANGED losses
        \/ Completes(m) /\ Lose /\ UNCHANGED engineList
     /\ UNCHANGED <<created, cancelled, sent, executed, notifierList, rows,
                    matches, view, up, inHand, marketCh, resting, submitting,
                    launcherCh, sending, cancels, failures, crashes>>

(* handleMatch of a transaction the map does not hold dereferences a nil   *)
(* pointer, which ends the process.                                        *)
NotifyPanic ==
  /\ up
  /\ events # <<>>
  /\ Head(events).kind = "match"
  /\ Head(events).id \notin DOMAIN waiting
  /\ \E lost \in 1..Len(events) : Die(lost)
  /\ UNCHANGED <<created, cancelled, sent, executed, durable, cancels, failures,
                 losses>>

(* EventNotifier.drainMsg and handleEvent: a transaction to wait for.      *)
DrainNotifier ==
  /\ up
  /\ notifierList # <<>>
  /\ notifierList' = Tail(notifierList)
  /\ waiting' = [m \in DOMAIN waiting \cup {Head(notifierList)} |->
                   IF m = Head(notifierList) THEN 0 ELSE waiting[m]]
  /\ UNCHANGED <<chainVars, engineList, rows, matches, view, up, inHand,
                 marketCh, resting, submitting, launcherCh, sending, faults>>

(* Mutant: the list is popped at the end it is pushed to.                  *)
DrainEngineLast ==
  /\ up
  /\ inHand = <<>>
  /\ engineList # <<>>
  /\ inHand' = <<engineList[Len(engineList)]>>
  /\ engineList' = SubSeq(engineList, 1, Len(engineList) - 1)
  /\ UNCHANGED <<chainVars, notifierList, rows, matches, view, up, waiting,
                 marketCh, resting, submitting, launcherCh, sending, faults>>

(* engine.drainMsg: pop an event from redis, then push it to the market,   *)
(* which blocks while its channel is full.                                 *)
DrainEngine ==
  /\ up
  /\ inHand = <<>>
  /\ engineList # <<>>
  /\ inHand' = <<Head(engineList)>>
  /\ engineList' = Tail(engineList)
  /\ UNCHANGED <<chainVars, notifierList, rows, matches, view, up, waiting,
                 marketCh, resting, submitting, launcherCh, sending, faults>>

(* Mutant: the channel takes what it has no room for.                      *)
PushMarketUnbounded ==
  /\ up
  /\ inHand # <<>>
  /\ marketCh' = Append(marketCh, inHand[1])
  /\ inHand' = <<>>
  /\ UNCHANGED <<chainVars, durable, up, waiting, resting, submitting,
                 launcherCh, sending, faults>>

PushMarket ==
  /\ up
  /\ inHand # <<>>
  /\ Len(marketCh) < MarketCap
  /\ marketCh' = Append(marketCh, inHand[1])
  /\ inHand' = <<>>
  /\ UNCHANGED <<chainVars, durable, up, waiting, resting, submitting,
                 launcherCh, sending, faults>>

----------------------------------------------------------------------------
(* UpdateOrderFilled of every executed order.                              *)
Filled(table, ids) ==
  [id \in DOMAIN table |->
     IF id \in ids THEN [state |-> "settling", filled |-> "qty"] ELSE table[id]]

(* UpdateOrderPartialFilled of order p: the sum of Filled.Add is dropped,  *)
(* and an Update without a condition writes every row of the table.        *)
PartialFilled(table, p) ==
  [id \in DOMAIN table |-> [state |-> "settling", filled |-> table[p].filled]]

(* UpdateMakerOrderState and UpdateTakerOrderState.  Mutant: done, whatever*)
(* has been filled.                                                        *)
AlwaysDone(row) == [row EXCEPT !.state = "done"]
Confirmed(row) ==
  [row EXCEPT !.state = IF row.filled = "qty" THEN "done" ELSE "open"]

(* Market.run, processLimitOrder: save the order, match it against the     *)
(* book, update the rows, record a match.  At most one maker is executed   *)
(* in part and stays, and then the taker is executed; a taker without      *)
(* makers rests, and one that traded before it rests is the partial order. *)
(* The view is renewed at the end, after a match has been submitted.       *)
ProcessLimitOrder(makers, stays, rests) ==
  LET id == Head(marketCh).id
      partial == IF rests /\ makers # {} THEN {id} ELSE stays
      table == [i \in DOMAIN rows \cup {id} |->
                  IF i = id THEN [state |-> "open", filled |-> "zero"] ELSE rows[i]]
      afterFills == Filled(table, (makers \ stays) \cup (IF rests THEN {} ELSE {id}))
  IN /\ up
     /\ submitting = 0
     /\ marketCh # <<>>
     /\ Head(marketCh).kind = "new"
     /\ stays \subseteq makers /\ Cardinality(stays) <= 1
     /\ rests => stays = {}
     /\ makers = {} => rests
     /\ marketCh' = Tail(marketCh)
     /\ rows' = IF partial = {} THEN afterFills
                ELSE PartialFilled(afterFills, CHOOSE p \in partial : TRUE)
     /\ resting' = (resting \ (makers \ stays)) \cup (IF rests THEN {id} ELSE {})
     /\ IF makers = {}
        THEN view' = resting' /\ UNCHANGED <<matches, submitting, losses>>
        ELSE /\ \E state \in {"pending", "unsaved"} :
                  /\ matches' = Append(matches, [taker |-> id, makers |-> makers,
                                                 state |-> state])
                  /\ IF state = "pending" THEN UNCHANGED losses ELSE Lose
             /\ submitting' = Len(matches) + 1
             /\ UNCHANGED view
     /\ UNCHANGED <<chainVars, engineList, notifierList, up, waiting, inHand,
                    launcherCh, sending, cancels, failures, crashes>>

(* SaveNewOrder fails: the order goes no further.                          *)
DropOrder ==
  /\ up
  /\ submitting = 0
  /\ marketCh # <<>>
  /\ Head(marketCh).kind = "new"
  /\ Lose
  /\ marketCh' = Tail(marketCh)
  /\ UNCHANGED <<chainVars, durable, up, waiting, inHand, resting, submitting,
                 launcherCh, sending, cancels, failures, crashes>>

(* Mutant: one place of the launcher's channel is never used.              *)
SubmitMatchOffByOne ==
  /\ up
  /\ submitting # 0
  /\ Len(launcherCh) + 1 < LauncherCap
  /\ launcherCh' = Append(launcherCh, submitting)
  /\ submitting' = 0
  /\ view' = resting
  /\ UNCHANGED <<chainVars, engineList, notifierList, rows, matches, up, waiting,
                 inHand, marketCh, resting, sending, faults>>

(* SubmitBlockchainOrderMatch blocks while the launcher's channel is full; *)
(* then updateOrderbookView.                                               *)
SubmitMatch ==
  /\ up
  /\ submitting # 0
  /\ Len(launcherCh) < LauncherCap
  /\ launcherCh' = Append(launcherCh, submitting)
  /\ submitting' = 0
  /\ view' = resting
  /\ UNCHANGED <<chainVars, engineList, notifierList, rows, matches, up, waiting,
                 inHand, marketCh, resting, sending, faults>>

(* Mutant: the newest pending match.                                       *)
IsNewestPending(m) ==
  /\ m \in MatchId
  /\ matches[m].state = "pending"
  /\ \A n \in (m + 1)..Len(matches) : matches[n].state # "pending"

(* GetPendingMatch.                                                        *)
IsOldestPending(m) ==
  /\ m \in MatchId
  /\ matches[m].state = "pending"
  /\ \A n \in 1..(m - 1) : matches[n].state # "pending"

(* Market.run, confirmMatch: whatever transaction the update is about, the *)
(* oldest pending match becomes done, the rows of its orders are updated   *)
(* and its trades are inserted.                                            *)
ConfirmMatch ==
  /\ up
  /\ submitting = 0
  /\ marketCh # <<>>
  /\ Head(marketCh).kind = "update"
  /\ marketCh' = Tail(marketCh)
  /\ \/ \E m \in MatchId :
          /\ IsOldestPending(m)
          /\ matches' = [matches EXCEPT ![m].state = "done"]
          /\ rows' = [id \in DOMAIN rows |->
                        IF id \in Involved(m) THEN Confirmed(rows[id]) ELSE rows[id]]
        /\ UNCHANGED losses
     \/ /\ \A m \in MatchId : ~IsOldestPending(m)
        /\ UNCHANGED <<matches, rows, losses>>
     \/ Lose /\ UNCHANGED <<matches, rows>>
  /\ UNCHANGED <<chainVars, engineList, notifierList, view, up, waiting, inHand,
                 resting, submitting, launcherCh, sending, cancels, failures, crashes>>

----------------------------------------------------------------------------
(* launcher.run and sendTransaction: take a request, send the transaction  *)
(* (any failure on the way just returns), then tell the notifier.          *)
TakeRequest ==
  /\ up
  /\ sending.phase = "idle"
  /\ launcherCh # <<>>
  /\ sending' = [phase |-> "send", match |-> Head(launcherCh)]
  /\ launcherCh' = Tail(launcherCh)
  /\ UNCHANGED <<chainVars, durable, up, waiting, inHand, marketCh, resting,
                 submitting, faults>>

(* Mutant: a transaction that was sent is sent again.                      *)
SendTransactionAgain ==
  /\ up
  /\ sending.phase = "send"
  /\ sent' = Append(sent, sending.match)
  /\ UNCHANGED <<created, cancelled, executed, events, durable, up, volatile, faults>>

SendTransaction ==
  /\ up
  /\ sending.phase = "send"
  /\ sent' = Append(sent, sending.match)
  /\ sending' = [sending EXCEPT !.phase = "tell"]
  /\ UNCHANGED <<created, cancelled, executed, events, durable, up, waiting,
                 inHand, marketCh, resting, submitting, launcherCh, faults>>

SendFails ==
  /\ up
  /\ sending.phase = "send"
  /\ failures < MaxFailures
  /\ failures' = failures + 1
  /\ sending' = NotSending
  /\ UNCHANGED <<chainVars, durable, up, waiting, inHand, marketCh, resting,
                 submitting, launcherCh, cancels, losses, crashes>>

PushWaitEvent ==
  /\ up
  /\ sending.phase = "tell"
  /\ \/ notifierList' = Append(notifierList, sending.match) /\ UNCHANGED losses
     \/ Lose /\ UNCHANGED notifierList
  /\ sending' = NotSending
  /\ UNCHANGED <<chainVars, engineList, rows, matches, view, up, waiting, inHand,
                 marketCh, resting, submitting, launcherCh, cancels, failures, crashes>>

----------------------------------------------------------------------------
Notifier == NotifyCreate \/ NotifyMatch \/ NotifyPanic
EngineLoop == DrainEngine \/ PushMarket
NewOrderStep ==
  \E makers \in {M \in SUBSET resting : Cardinality(M) <= MaxMakers} :
    \E stays \in SUBSET makers, rests \in BOOLEAN :
      ProcessLimitOrder(makers, stays, rests)
Market == NewOrderStep \/ DropOrder \/ SubmitMatch \/ ConfirmMatch
Launcher == TakeRequest \/ SendTransaction \/ SendFails \/ PushWaitEvent
Chain == ExecuteSuccess \/ ExecuteFailure

Next ==
  \/ CreateOrder
  \/ \E id \in Id : CancelOrder(id)
  \/ Chain
  \/ Crash
  \/ Restart
  \/ Notifier
  \/ DrainNotifier
  \/ EngineLoop
  \/ Market
  \/ Launcher

Spec == Init /\ [][Next]_vars

(* Every goroutine of the process goes on as long as it can, and the chain *)
(* executes what it is sent.  Nothing obliges users to act, or the process *)
(* to crash or to be restarted.                                            *)
FairSpec ==
  /\ Spec
  /\ WF_vars(Notifier)
  /\ WF_vars(DrainNotifier)
  /\ WF_vars(EngineLoop)
  /\ WF_vars(Market)
  /\ WF_vars(Launcher)
  /\ WF_vars(Chain)

----------------------------------------------------------------------------
(***************************************************************************)
(* Properties                                                              *)
(***************************************************************************)

Event == [kind : {"create"}, id : Id] \cup [kind : {"match"}, id : Nat \ {0}]
Message == [kind : {"new"}, id : Id] \cup [kind : {"update"}, id : Nat \ {0}]
MatchRecord == [taker : Id, makers : SUBSET Id, 
                state : {"pending", "done", "unsaved"}]
Row == [state : {"open", "settling", "done"}, filled : {"zero", "qty"}]

(* Every variable has its type; the channels respect their capacity.       *)
TypeOK ==
  /\ created \in 0..MaxOrders
  /\ cancelled \in SUBSET Id
  /\ sent \in Seq(Nat \ {0})
  /\ executed \in SUBSET (Nat \ {0})
  /\ events \in Seq(Event)
  /\ engineList \in Seq(Message)
  /\ notifierList \in Seq(Nat \ {0})
  /\ DOMAIN rows \subseteq Id /\ rows \in [DOMAIN rows -> Row]
  /\ matches \in Seq(MatchRecord)
  /\ view \in SUBSET Id
  /\ up \in BOOLEAN
  /\ DOMAIN waiting \subseteq Nat \ {0} /\ waiting \in [DOMAIN waiting -> Nat]
  /\ inHand \in Seq(Message) /\ Len(inHand) <= 1
  /\ marketCh \in Seq(Message) /\ Len(marketCh) <= MarketCap
  /\ resting \in SUBSET Id
  /\ submitting \in Nat
  /\ launcherCh \in Seq(Nat \ {0}) /\ Len(launcherCh) <= LauncherCap
  /\ sending \in [phase : {"idle", "send", "tell"}, match : Nat]
  /\ cancels \in Nat /\ failures \in Nat /\ losses \in Nat /\ crashes \in Nat

(* What is on its way to the market, and after it what is still an event of*)
(* the chain; oldest first.                                                *)
Mail == marketCh \o inHand \o engineList
Way == Mail \o events
IsOrder(e) == e.kind \in {"new", "create"}

(* The orders in q go on where those in arrived end, in increasing order.  *)
OrdersFollow(arrived, q) ==
  \A i \in DOMAIN q : IsOrder(q[i]) =>
    /\ \A id \in arrived : id < q[i].id
    /\ \A j \in DOMAIN q : i < j /\ IsOrder(q[j]) => q[i].id < q[j].id

(* Orders reach the book in the order of their creation on the chain, each *)
(* at most once, whatever is lost on the way: the time priority of the     *)
(* book is the chain's.                                                    *)
ArrivalOrder == OrdersFollow(DOMAIN rows, Way)

(* The matches the launcher has still to take, those on their way to the   *)
(* chain, and those the notifier is to be told of; oldest first.           *)
Submitting == IF submitting = 0 THEN <<>> ELSE <<submitting>>
Requests == launcherCh \o Submitting
InPhase(phases) == IF sending.phase \in phases THEN <<sending.match>> ELSE <<>>
ToExecute == sent \o InPhase({"send"}) \o Requests
ToAwait == notifierList \o InPhase({"send", "tell"}) \o Requests

(* The matches in q go on where those in passed end, in increasing order.  *)
MatchesFollow(passed, q) ==
  /\ \A i, j \in DOMAIN q : i < j => q[i] < q[j]
  /\ \A m \in passed, i \in DOMAIN q : m < q[i]

(* No match is sent, executed or waited for twice, and none before an older*)
(* one, whatever fails, is lost or crashes on the way.                     *)
MatchOnce ==
  /\ MatchesFollow(executed, ToExecute)
  /\ MatchesFollow(DOMAIN waiting, ToAwait)

(* Trades are inserted for no more matches than transactions succeeded,    *)
(* and only for matches that exist: confirmations are never made up, even  *)
(* when they are credited to the wrong match.                              *)
Updates == {i \in DOMAIN Mail : Mail[i].kind = "update"}
ConfirmationsBacked ==
  Cardinality({m \in MatchId : matches[m].state = "done"}) + Cardinality(Updates)
    <= Cardinality(executed)

(* As long as nothing has failed, no order was cancelled and the process   *)
(* has not crashed, a confirmation completes the match of its own          *)
(* transaction, although confirmMatch takes the oldest pending one.        *)
NoFault == failures = 0 /\ losses = 0 /\ crashes = 0 /\ cancelled = {}
CreditsItsMatch ==
  [][NoFault /\ matches' # matches /\ Len(matches') = Len(matches) =>
       matches'[Head(marketCh).id].state # matches[Head(marketCh).id].state]_vars

(* What the API shows of an order does not contradict itself: an order in  *)
(* the book, or in the view of the book, is listed among the open orders   *)
(* of its creator (those whose row is not done), however confirmations are *)
(* credited and whatever fails.  After a crash the view may be an old one. *)
ShownOrdersOpen ==
  /\ \A id \in resting : rows[id].state # "done"
  /\ crashes = 0 => \A id \in view : rows[id].state # "done"

(* The bounded channels never block the process for good: every order      *)
(* created on the chain reaches the database, unless the process crashed   *)
(* or a call that passes the order on failed.                              *)
OrdersArrive ==
  \A id \in Id : id <= created ~> id \in DOMAIN rows \/ crashes > 0 \/ losses > 0

(* Every match is settled in the end, executed on the chain and recorded as*)
(* done, unless the process crashed or a call to redis or mysql failed.  A *)
(* send or a transaction that fails costs no more than the one record its  *)
(* confirmation would have completed, which stays pending: the launcher    *)
(* and the matches after it go on.  So does a match of an order that was   *)
(* cancelled before it was executed.                                       *)
PendingUpTo(m) == {k \in MatchId : k <= m /\ matches[k].state # "done"}
RevokedUpTo(m) == {k \in MatchId : k <= m /\ Involved(k) \cap cancelled # {}}
MatchesSettle ==
  \A m \in 1..MaxOrders :
    m \in MatchId ~>
      \/ losses > 0 \/ crashes > 0
      \/ /\ Cardinality(PendingUpTo(m)) <= failures + Cardinality(RevokedUpTo(m))
         /\ NoFault => m \in executed

----------------------------------------------------------------------------
(***************************************************************************)
(* What documents and comments say and the code does not keep: see the     *)
(* README.                                                                 *)
(***************************************************************************)

(* "The orderbook engine continuously updates the orderbook in real-time   *)
(* as new orders are placed, executed, or canceled" (README.md:37).        *)
CancelledLeaveBook ==
  \A id \in Id : id \in cancelled /\ id \in resting ~> id \notin resting

(* "trade history can be publicly audited and verified" (README.md:11): a  *)
(* match recorded as done was executed on the chain.                       *)
TradesExecuted ==
  \A m \in MatchId : matches[m].state = "done" => m \in executed
=============================================================================
