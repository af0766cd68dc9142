----------------------------- MODULE Dashboard -----------------------------
(***************************************************************************)
(* The dashboard of the dApp: a ping-pong widget (PingPong) beside the     *)
(* widget that has several transactions signed at once and then sends them *)
(* (pages/Dashboard/widgets/BatchTransactions).                            *)
(*                                                                         *)
(* "Sign & send batch" leaves the sending to sdk-dapp.  The other two      *)
(* buttons ask for signatures only; an effect of useSendSignedTransactions *)
(* that watches the status of the session sends what was signed, half a    *)
(* second later and in the groups the payload asks for.  The two widgets   *)
(* share the wallet's request, the signed transactions, which either of    *)
(* them clears, and the pending transactions, which disable the buttons of *)
(* both.  The wallet and sdk-dapp are external.                            *)
(***************************************************************************)
EXTENDS PingPong

CONSTANTS
  Beside,     \* bound: the variants of the ping-pong widget a batch is beside
  MaxBeside   \* bound: clicks in both widgets, once there is a batch

ASSUME DashboardAssumption == MaxBeside \in Nat

VARIABLES
  onDemand,           \* sendBatchTransactionsOnDemand
  transactionsOrder,  \* the groups of the last payload that had some
  asking,             \* clicks whose sendTransactions has not returned
  sessions,           \* sessions of signatures without sending, by id
  currentSession,     \* signedSessionId; in sessionStorage too
  batchSession,       \* batchSessionId; in sessionStorage too
  timer,              \* the half second before sendTransactions runs
  sending,            \* batches whose sending has not returned
  starts              \* bound: clicks in the batch widget so far

batchVars == <<onDemand, transactionsOrder, asking, sessions, currentSession,
               batchSession, timer, sending, starts>>
dashboardVars == <<vars, batchVars>>

(* What PingPong has and an action of the batch widget leaves alone.       *)
elsewhere == <<contractVars, variant, token, amount, widgetVars, building, clicks>>

----------------------------------------------------------------------------
None == 0

(* A payload: how many transactions, and the groups to send them in.       *)
GetBatchTransactions == [transactions |-> 5, order |-> <<>>]
GetSwapAndLockTransactions ==
  [transactions |-> 4, order |-> <<{0}, {1, 2}, {3}>>]

(* Of a session: its payload; the status sdk-dapp keeps of it; whether it  *)
(* was handed to the network, and if so whether that was answered or a load*)
(* of the page came between; whether another batch was started before it   *)
(* was sent or was on its way; whether the order left by another or a load *)
(* of the page stands in the way of its own.                               *)
Session(asked) ==
  [payload |-> asked.payload, status |-> "none", outcome |-> "unsent",
   crossed |-> asked.crossed \/ sending # <<>>,
   disturbed |-> asked.payload.order = <<>> /\ transactionsOrder # <<>>]

Crossed(ss) ==
  [s \in DOMAIN ss |-> [ss[s] EXCEPT !.crossed = TRUE]]

DashboardInit ==
  /\ Init
  /\ onDemand = TRUE
  /\ transactionsOrder = <<>>
  /\ asking = <<>>
  /\ sessions = <<>>
  /\ currentSession = None
  /\ batchSession = None
  /\ timer = FALSE
  /\ sending = <<>>
  /\ starts = 0

(* Mutant: the effect depends on the batch alone.                          *)
EffectOfBatch(batch, session, after, demand) ==
  IF batch # batchSession THEN demand /\ batch # None ELSE timer

(* useEffect(..., [batchSessionId, status]): with another batch, or another*)
(* status of the signed session, the timer is stopped, and started again if*)
(* there is a batch and the switch says so at that moment.                 *)
StatusOf(ss, session) == IF session \in DOMAIN ss THEN ss[session].status ELSE "none"

Effect(batch, session, after, demand) ==
  IF batch # batchSession \/ StatusOf(after, session) # StatusOf(sessions, currentSession)
  THEN demand /\ batch # None ELSE timer

(* removeAllSignedTransactions.                                            *)
Unsigned(ss) == [s \in DOMAIN ss |-> [ss[s] EXCEPT !.status = "none"]]

----------------------------------------------------------------------------
(* The buttons, disabled while transactions are pending.                   *)
Start(kind, payload, demand) ==
  /\ ~HasPendingTransactions
  /\ variant \in Beside /\ clicks + starts < MaxBeside
  /\ starts' = starts + 1
  /\ onDemand' = demand
  /\ asking' = Append(Crossed(asking), [kind |-> kind, payload |-> payload,
                                       crossed |-> asking # <<>>])
  /\ sessions' = Crossed(sessions)
  /\ UNCHANGED <<elsewhere, queries, toSign, pending, misled, transactionsOrder,
                 currentSession, batchSession, timer, sending>>

SignAndAutoSendBatchTransactions == Start("auto", GetBatchTransactions, FALSE)
ExecuteBatchTransactions == Start("session", GetBatchTransactions, TRUE)
ExecuteSwapAndLockTransactions ==
  Start("session", GetSwapAndLockTransactions, TRUE)

(* sendBatchTransactions and sendTransactions return when the wallet has   *)
(* been asked; what it was asked before is gone.                           *)
AutoAsked(i) ==
  /\ asking[i].kind = "auto"
  /\ toSign' = <<[kind |-> "auto"]>>
  /\ asking' = RemoveAt(asking, i)
  /\ UNCHANGED <<elsewhere, queries, pending, misled, onDemand,
                 transactionsOrder, sessions, currentSession, batchSession, timer,
                 sending, starts>>

(* The rest of executeTransactions.                                        *)
Asked(i) ==
  LET new == Len(sessions) + 1
  IN /\ asking[i].kind = "session"
     /\ toSign' = <<[kind |-> "session", session |-> new]>>
     /\ asking' = RemoveAt(asking, i)
     /\ sessions' = Append(sessions, Session(asking[i]))
     /\ transactionsOrder' = IF asking[i].payload.order # <<>>
                              THEN asking[i].payload.order ELSE transactionsOrder
     /\ currentSession' = new
     /\ batchSession' = new
     /\ timer' = Effect(new, new, sessions', onDemand)
     /\ UNCHANGED <<elsewhere, queries, pending, misled, onDemand, sending, starts>>

AskFails(i) ==
  /\ asking' = RemoveAt(asking, i)
  /\ UNCHANGED <<vars, onDemand, transactionsOrder, sessions, currentSession,
                 batchSession, timer, sending, starts>>

----------------------------------------------------------------------------
(* The wallet.                                                             *)
Requested(kinds) == toSign # <<>> /\ toSign[1].kind \in kinds

SignSession(status) ==
  /\ Requested({"session"})
  /\ toSign' = <<>>
  /\ sessions' = [sessions EXCEPT ![toSign[1].session].status = status]
  /\ timer' = Effect(batchSession, currentSession, sessions', onDemand)
  /\ UNCHANGED <<elsewhere, queries, pending, misled, onDemand,
                 transactionsOrder, asking, currentSession, batchSession, sending, starts>>

(* What becomes pending here is one more to the ping-pong widget.          *)
Pend ==
  /\ Track(Append(pending, [kind |-> "batch", paid |-> FALSE, status |-> "sent"]))
  /\ misled' = IF HasPendingTransactions \/ queries # <<>> THEN misled \cup {"crossed"}
                                                           ELSE misled

SignAuto ==
  /\ Requested({"auto"})
  /\ Pend
  /\ toSign' = <<>>
  /\ UNCHANGED <<elsewhere, batchVars>>

----------------------------------------------------------------------------
(* The transactions of a session, in the groups they are sent in.          *)
Groups(payload) ==
  IF transactionsOrder # <<>> THEN transactionsOrder
                              ELSE <<0..payload.transactions - 1>>

(* Mutant: nothing is cleared, and the batch is tried once more.           *)
ClearTransactionsInformationRetries(ss) ==
  /\ sessions' = ss
  /\ toSign' = toSign
  /\ batchSession' = batchSession
  /\ timer' = (batchSession # None)

(* What is left of the sessions ss: none of them is signed any more.       *)
ClearTransactionsInformation(ss) ==
  /\ sessions' = Unsigned(ss)
  /\ toSign' = <<>>
  /\ batchSession' = None
  /\ timer' = FALSE

(* sendTransactions of useSendSignedTransactions, when the timer ends.     *)
NothingSigned ==
  /\ timer
  /\ StatusOf(sessions, currentSession) = "none"
  /\ timer' = FALSE
  /\ UNCHANGED <<vars, onDemand, transactionsOrder, asking, sessions,
                 currentSession, batchSession, sending, starts>>

CancelFlow ==
  /\ timer
  /\ StatusOf(sessions, currentSession) = "cancelled"
  /\ ClearTransactionsInformation(sessions)
  /\ UNCHANGED <<elsewhere, queries, pending, misled, onDemand,
                 transactionsOrder, asking, currentSession, sending, starts>>

SendTransactions ==
  /\ timer
  /\ StatusOf(sessions, currentSession) = "signed"
  /\ timer' = FALSE
  /\ sending' = Append(sending, [session |-> currentSession,
                                 groups |-> Groups(sessions[currentSession].payload)])
  /\ sessions' = [sessions EXCEPT ![currentSession].outcome = "posted"]
  /\ UNCHANGED <<vars, onDemand, transactionsOrder, asking, currentSession,
                 batchSession, starts>>

(* Mutant: the batch is not forgotten.                                     *)
BatchAfterSendingKept == batchSession

(* setBatchSessionId(null), whichever the batch is by now.                 *)
BatchAfterSending == None

Answered(ss, i) == [ss EXCEPT ![sending[i].session].outcome = "answered"]

SendReturns(i) ==
  /\ Pend
  /\ batchSession' = BatchAfterSending
  /\ timer' = Effect(batchSession', currentSession, sessions, onDemand)
  /\ sessions' = Answered(sessions, i)
  /\ sending' = RemoveAt(sending, i)
  /\ UNCHANGED <<elsewhere, toSign, onDemand, transactionsOrder, asking,
                 currentSession, starts>>

(* A failed sending takes away what was signed meanwhile, and the request, *)
(* whichever batch or widget they belong to.                               *)
SendFails(i) ==
  /\ ClearTransactionsInformation(Answered(sessions, i))
  /\ sending' = RemoveAt(sending, i)
  /\ UNCHANGED <<elsewhere, queries, pending, misled, onDemand,
                 transactionsOrder, asking, currentSession, starts>>

----------------------------------------------------------------------------
(* A step of the ping-pong widget: clearAllTransactions takes the signed   *)
(* transactions of this widget too.                                        *)
NotTooMany == starts > 0 => clicks + starts < MaxBeside

Clears ==
  /\ \/ ClickRaw /\ NotTooMany
     \/ ClickAbi /\ NotTooMany
     \/ \E i \in DOMAIN building : Fetched(i)
  /\ sessions' = Unsigned(sessions)
  /\ timer' = Effect(batchSession, currentSession, sessions', onDemand)
  /\ UNCHANGED <<onDemand, transactionsOrder, asking, currentSession, batchSession,
                 sending, starts>>

PingPongStep ==
  /\ \/ Second
     \/ SecondHidden
     \/ \E i \in DOMAIN queries : AnswerQuery(i) \/ Arrive(i) \/ QueryFails(i)
     \/ RawPingAmount
     \/ AbiPingAmount
     \/ ClickService /\ NotTooMany
     \/ \E i \in DOMAIN building : HandOver(i) \/ Lost(i)
     \/ Requested({"ping", "pong"}) /\ Sign
     \/ Requested({"ping", "pong", "auto"}) /\ Cancel
     \/ \E i \in DOMAIN pending : Execute(i) \/ Completed(i)
  /\ UNCHANGED batchVars

(* The page is loaded again, or left for the web wallet, where the session *)
(* is signed or not, and entered again; sessionStorage keeps the sessions. *)
LoadPage(status) ==
  /\ Reload
  /\ status # "none" => Requested({"session"})
  /\ onDemand' = TRUE
  /\ transactionsOrder' = <<>>
  /\ asking' = <<>>
  /\ sessions' = [s \in DOMAIN sessions |->
       [sessions[s] EXCEPT
          !.status = IF status # "none" /\ s = toSign[1].session THEN status ELSE @,
          !.outcome = IF @ = "posted" THEN "interrupted" ELSE @,
          !.disturbed = TRUE]]
  /\ timer' = (batchSession # None)
  /\ sending' = <<>>
  /\ UNCHANGED <<currentSession, batchSession, starts>>

DashboardNext ==
  \/ SignAndAutoSendBatchTransactions
  \/ ExecuteBatchTransactions
  \/ ExecuteSwapAndLockTransactions
  \/ \E i \in DOMAIN asking : AutoAsked(i) \/ Asked(i) \/ AskFails(i)
  \/ \E status \in {"signed", "cancelled"} : SignSession(status)
  \/ SignAuto
  \/ NothingSigned
  \/ CancelFlow
  \/ SendTransactions
  \/ \E i \in DOMAIN sending : SendReturns(i)
  \/ \E i \in DOMAIN sending : SendFails(i)
  \/ Clears
  \/ PingPongStep
  \/ \E status \in {"none", "signed", "cancelled"} : LoadPage(status)

(* Timers end; the rest is PingPong's.                                     *)
DashboardSpec ==
  /\ DashboardInit /\ [][DashboardNext]_dashboardVars
  /\ Fairness
  /\ WF_dashboardVars(NothingSigned \/ CancelFlow \/ SendTransactions)

----------------------------------------------------------------------------
(***************************************************************************)
(* Properties                                                              *)
(***************************************************************************)

(* What was signed is handed to the network once, unless the page was      *)
(* loaded before the network had answered, however batches, failed         *)
(* sendings, cancellations and clicks in the other widget overlap; all of  *)
(* it, and in the groups the payload asks for, unless the order of another *)
(* payload was left behind or the order was lost with a load of the page.  *)
SentAsAsked ==
  [][Len(sending') > Len(sending) =>
       LET batch == Last(sending')
           session == sessions[batch.session]
       IN /\ session.outcome \in {"unsent", "interrupted"}
          /\ \/ session.disturbed
             \/ batch.groups = session.payload.order
             \/ session.payload.order = <<>> /\ batch.groups = <<0..session.payload.transactions - 1>>]_dashboardVars

(* And it is handed over: what was signed does not stay behind, through    *)
(* loads of the page and the way over the web wallet, unless another batch *)
(* was started first or a widget cleared what was signed.                  *)
Waiting(s) ==
  s \in DOMAIN sessions /\ sessions[s].status = "signed" /\
  sessions[s].outcome = "unsent" /\ ~sessions[s].crossed

BatchSent ==
  <>[][~Reload]_dashboardVars => \A s \in 1..MaxBeside : []<>~Waiting(s)
=============================================================================
