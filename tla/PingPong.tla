------------------------------ MODULE PingPong ------------------------------
(***************************************************************************)
(* The ping-pong widgets of the dApp (pages/Dashboard/widgets/PingPongRaw, *)
(* PingPongAbi and PingPongService) with the hooks and helpers they share: *)
(* a deposit ("ping") that its owner gets back ("pong") once a deadline has*)
(* passed, and a countdown that says when.                                 *)
(*                                                                         *)
(* The widget asks the contract for the time left when it is mounted and   *)
(* whenever transactions become pending or cease to be, shows whichever    *)
(* answer arrives last, and counts down with intervals of its own.  A      *)
(* click builds a transaction, awaits refreshAccount (in one variant after *)
(* fetching the transaction) and hands it to the wallet; the buttons stay  *)
(* enabled until the transaction is signed.  The contract, the wallet and  *)
(* the tracking of transactions are external.  Dashboard has the next-state*)
(* relation: another widget of the page shares the wallet with this one.   *)
(***************************************************************************)
EXTENDS Integers, Sequences, SequencesExt

CONSTANTS
  Duration,    \* seconds from a ping to its deadline
  MaxQueries,  \* bound: unanswered questions for the time left
  MaxClicks    \* bound: clicks

ASSUME PingPongAssumption ==
  /\ Duration \in Nat \ {0}
  /\ MaxQueries \in Nat \ {0}
  /\ MaxClicks \in Nat

VARIABLES
  pinged, remaining,    \* contract: a deposit is there; seconds to its deadline
  variant,              \* which of the three widgets it is
  token,                \* tokenLogin?.nativeAuthToken is there
  amount,               \* useGetPingAmount has had its answer
  hasPing, secondsLeft, \* the widget's state
  running,              \* intervals that count down
  queries,              \* questions for the time left, oldest first
  building,             \* clicks whose transaction is not yet handed over
  toSign,               \* the transactions the wallet asks to sign, at most one
  pending,              \* signed transactions the tracker takes to be pending
  clicks,               \* bound: clicks so far
  misled                \* what went wrong since the page was loaded: "answer",
                        \* one failed, was overtaken or came late; "crossed", a
                        \* transaction was signed with another one pending
                        \* or before the widget had its answers; "left",
                        \* intervals outlived the deposit they were for

contractVars == <<pinged, remaining>>
widgetVars == <<hasPing, secondsLeft, running>>
sendVars == <<building, toSign, pending, clicks>>
vars == <<contractVars, variant, token, amount, widgetVars, queries, sendVars,
          misled>>

----------------------------------------------------------------------------
Null == -1        \* null or undefined
Unanswered == -2

(* getTimeToPong of the contract: no return data without a deposit.        *)
ReturnData == IF pinged THEN <<remaining>> ELSE <<>>

(* The three useGetTimeToPong: zero comes as an empty string, no data as   *)
(* null or undefined.                                                      *)
RawTimeToPong(data) == IF data = <<>> THEN Null ELSE data[1]
AbiTimeToPong(data) == IF data = <<>> THEN Null ELSE data[1]
ServiceTimeToPong(data) == IF data = <<>> THEN Null ELSE data[1]

TimeToPong(data) ==
  CASE variant = "raw" -> RawTimeToPong(data)
    [] variant = "abi" -> AbiTimeToPong(data)
    [] variant = "service" -> ServiceTimeToPong(data)

(* Mutant: zero seconds are taken for no answer.                           *)
SetTimeRemainingFalsy(r) ==
  [canPing |-> r \in {Null, 0}, timeRemaining |-> IF r = Null THEN 0 ELSE r]

SetTimeRemaining(r) ==
  [canPing |-> r = Null, timeRemaining |-> IF r = Null THEN 0 ELSE r]

(* The service answers only who logged in with a token, and the widget is  *)
(* an error message without.                                               *)
Usable == variant = "service" => token

HasPendingTransactions == pending # <<>>

PongAllowed == secondsLeft = 0

PingEnabled == Usable /\ hasPing /\ ~HasPendingTransactions
PongEnabled == Usable /\ PongAllowed /\ ~hasPing /\ ~HasPendingTransactions

(* setSecondsRemaining asks; nothing is asked without the token.           *)
Ask(before) == IF Usable THEN Append(before, Unanswered) ELSE before

Init ==
  /\ pinged = FALSE
  /\ remaining = 0
  /\ variant \in {"raw", "abi", "service"}
  /\ token \in BOOLEAN
  /\ variant # "service" => token   \* nothing else looks at it
  /\ amount = FALSE
  /\ hasPing = TRUE
  /\ secondsLeft = 0
  /\ running = 0
  /\ queries = Ask(<<>>)
  /\ building = <<>>
  /\ toSign = <<>>
  /\ pending = <<>>
  /\ clicks = 0
  /\ misled = {}

----------------------------------------------------------------------------
(* Time.                                                                   *)
Tick(n) == IF n > 0 THEN n - 1 ELSE 0

(* getCountdownSeconds: every interval takes one second off; one that finds*)
(* none left ends itself.                                                  *)
Countdown ==
  LET n == IF running <= secondsLeft THEN running ELSE secondsLeft
  IN <<secondsLeft - n, n>>

(* A second passes for the contract and for the widget.  A round of the    *)
(* chain takes several, so no transaction is executed before one has.      *)
Second ==
  /\ remaining > 0 \/ running > 0 \/ \E i \in DOMAIN pending : pending[i].status = "sent"
  /\ remaining' = Tick(remaining)
  /\ secondsLeft' = Countdown[1]
  /\ running' = Countdown[2]
  /\ pending' = [i \in DOMAIN pending |->
       IF pending[i].status = "sent" THEN [pending[i] EXCEPT !.status = "proposed"]
       ELSE pending[i]]
  /\ UNCHANGED <<pinged, variant, token, amount, hasPing, queries, building, toSign,
                 clicks, misled>>

(* The browser holds the intervals of a hidden page up.                    *)
SecondHidden ==
  /\ remaining > 0
  /\ remaining' = remaining - 1
  /\ UNCHANGED <<pinged, variant, token, amount, widgetVars, queries, sendVars, misled>>

----------------------------------------------------------------------------
(* The questions.                                                          *)
AnswerQuery(i) ==
  /\ queries[i] = Unanswered
  /\ queries' = [queries EXCEPT ![i] = TimeToPong(ReturnData)]
  /\ UNCHANGED <<contractVars, variant, token, amount, widgetVars, sendVars, misled>>

(* Mutant: the effect runs after every answer.                             *)
IntervalsEveryAnswer(before, after, seconds) ==
  IF seconds # 0 THEN running + 1 ELSE running

(* useEffect(..., [hasPing]): an interval more whenever hasPing changes    *)
(* while there are seconds left; what getCountdownSeconds returns to end   *)
(* the former one is dropped.                                              *)
Intervals(before, after, seconds) ==
  IF before # after /\ seconds # 0 THEN running + 1 ELSE running

(* The rest of setSecondsRemaining: both states change in one render, the  *)
(* seconds only when there are some.                                       *)
Show(r) ==
  LET left == IF SetTimeRemaining(r).timeRemaining > 0
              THEN SetTimeRemaining(r).timeRemaining ELSE secondsLeft
  IN /\ hasPing' = SetTimeRemaining(r).canPing
     /\ secondsLeft' = left
     /\ running' = Intervals(hasPing, SetTimeRemaining(r).canPing, left)

Arrive(i) ==
  /\ queries[i] # Unanswered
  /\ Show(queries[i])
  /\ queries' = RemoveAt(queries, i)
  /\ misled' = misled
       \cup (IF i > 1 \/ queries[i] # TimeToPong(ReturnData) THEN {"answer"} ELSE {})
       \cup (IF hasPing' /\ running' > 0 THEN {"left"} ELSE {})
  /\ UNCHANGED <<contractVars, variant, token, amount, sendVars>>

(* An error is caught and answered like a contract without a deposit.      *)
QueryFails(i) ==
  /\ Show(Null)
  /\ queries' = RemoveAt(queries, i)
  /\ misled' = misled \cup {"answer"}
  /\ UNCHANGED <<contractVars, variant, token, amount, sendVars>>

(* The two useGetPingAmount ask once; after an error never again.  The     *)
(* service knows the amount.                                               *)
Amount ==
  /\ ~amount
  /\ amount' = TRUE
  /\ UNCHANGED <<contractVars, variant, token, widgetVars, queries, sendVars, misled>>

RawPingAmount == variant = "raw" /\ Amount
AbiPingAmount == variant = "abi" /\ Amount

----------------------------------------------------------------------------
(* The transactions.  A ping of an amount that is not yet known has none.  *)
SendPingTransaction == [kind |-> "ping", paid |-> amount, fetch |-> FALSE]
SendPingTransactionFromAbi == [kind |-> "ping", paid |-> amount, fetch |-> FALSE]
SendPongTransaction == [kind |-> "pong", paid |-> FALSE, fetch |-> FALSE]
SendPongTransactionFromAbi == [kind |-> "pong", paid |-> FALSE, fetch |-> FALSE]

(* Those of the service are fetched first.                                 *)
GetPingTransaction == [kind |-> "ping", paid |-> TRUE, fetch |-> TRUE]
GetPongTransaction == [kind |-> "pong", paid |-> FALSE, fetch |-> TRUE]
SendPingTransactionFromService(fetched) == [fetched EXCEPT !.fetch = FALSE]
SendPongTransactionFromService(fetched) == [fetched EXCEPT !.fetch = FALSE]

(* A click; clearAllTransactions takes back what the wallet asks to sign,  *)
(* at once or when the transaction was fetched.                            *)
Click(transaction) ==
  /\ clicks < MaxClicks
  /\ clicks' = clicks + 1
  /\ building' = Append(building, transaction)
  /\ toSign' = IF transaction.fetch THEN toSign ELSE <<>>
  /\ UNCHANGED <<contractVars, variant, token, amount, widgetVars, queries,
                 pending, misled>>

ClickRaw ==
  /\ variant = "raw"
  /\ \/ PingEnabled /\ Click(SendPingTransaction)
     \/ PongEnabled /\ Click(SendPongTransaction)

ClickAbi ==
  /\ variant = "abi"
  /\ \/ PingEnabled /\ Click(SendPingTransactionFromAbi)
     \/ PongEnabled /\ Click(SendPongTransactionFromAbi)

ClickService ==
  /\ variant = "service"
  /\ \/ PingEnabled /\ Click(GetPingTransaction)
     \/ PongEnabled /\ Click(GetPongTransaction)

Fetched(i) ==
  /\ building[i].fetch
  /\ building' = [building EXCEPT ![i] =
       IF @.kind = "ping" THEN SendPingTransactionFromService(@)
                          ELSE SendPongTransactionFromService(@)]
  /\ toSign' = <<>>
  /\ UNCHANGED <<contractVars, variant, token, amount, widgetVars, queries,
                 pending, clicks, misled>>

(* refreshAccount has answered: sendTransactions.                          *)
HandOver(i) ==
  /\ ~building[i].fetch
  /\ toSign' = <<building[i]>>
  /\ building' = RemoveAt(building, i)
  /\ UNCHANGED <<contractVars, variant, token, amount, widgetVars, queries,
                 pending, clicks, misled>>

(* The fetch or refreshAccount fails.                                      *)
Lost(i) ==
  /\ building' = RemoveAt(building, i)
  /\ UNCHANGED <<contractVars, variant, token, amount, widgetVars, queries,
                 toSign, pending, clicks, misled>>

(* The wallet and the chain.  useEffect(..., [hasPendingTransactions]) asks*)
(* for the time left when the first transaction becomes pending and when   *)
(* the last one ceases to be.                                              *)
Track(newPending) ==
  /\ pending' = newPending
  /\ queries' = IF (newPending = <<>>) # (pending = <<>>) THEN Ask(queries)
                                                          ELSE queries
  /\ Len(queries') <= MaxQueries

Sign ==
  /\ toSign # <<>>
  /\ Track(Append(pending, [kind |-> toSign[1].kind, paid |-> toSign[1].paid,
                            status |-> "sent"]))
  /\ toSign' = <<>>
  /\ misled' = IF HasPendingTransactions \/ queries # <<>> THEN misled \cup {"crossed"} ELSE misled
  /\ UNCHANGED <<contractVars, variant, token, amount, widgetVars, building, clicks>>

Cancel ==
  /\ toSign # <<>>
  /\ toSign' = <<>>
  /\ UNCHANGED <<contractVars, variant, token, amount, widgetVars, queries,
                 building, pending, clicks, misled>>

(* The contract takes a ping that pays the amount when there is no deposit,*)
(* and a pong after the deadline.                                          *)
Execute(i) ==
  /\ pending[i].status = "proposed"
  /\ pending' = [pending EXCEPT ![i].status = "executed"]
  /\ IF pending[i].kind = "ping" /\ pending[i].paid /\ ~pinged
     THEN pinged' = TRUE /\ remaining' = Duration
     ELSE IF pending[i].kind = "pong" /\ pinged /\ remaining = 0
     THEN pinged' = FALSE /\ UNCHANGED remaining
     ELSE UNCHANGED contractVars
  /\ UNCHANGED <<variant, token, amount, widgetVars, queries, building, toSign,
                 clicks, misled>>

(* The tracker learns that a transaction is done.                          *)
Completed(i) ==
  /\ pending[i].status = "executed"
  /\ Track(RemoveAt(pending, i))
  /\ UNCHANGED <<contractVars, variant, token, amount, widgetVars, building,
                 toSign, clicks, misled>>

(* The page is loaded again; pending transactions are remembered.          *)
Reload ==
  /\ hasPing' = TRUE
  /\ secondsLeft' = 0
  /\ running' = 0
  /\ amount' = FALSE
  /\ queries' = Ask(<<>>)
  /\ building' = <<>>
  /\ toSign' = <<>>
  /\ misled' = IF Len(pending) > 1 THEN {"crossed"} ELSE {}
  /\ UNCHANGED <<contractVars, variant, token, pending, clicks>>

(* Time passes, questions are answered or fail, transactions are executed  *)
(* and tracked, and users stop loading the page again (the temporal        *)
(* property says so).  Nobody has to click or sign.                        *)
Fairness ==
  /\ WF_vars(Second)
  /\ WF_vars(\E i \in DOMAIN queries : AnswerQuery(i))
  /\ WF_vars(\E i \in DOMAIN queries : Arrive(i) \/ QueryFails(i))
  /\ WF_vars(\E i \in DOMAIN pending : Execute(i))
  /\ WF_vars(\E i \in DOMAIN pending : Completed(i))

----------------------------------------------------------------------------
(***************************************************************************)
(* Properties                                                              *)
(***************************************************************************)

(* Pong is offered only when the contract would grant it, through any      *)
(* sequence of pings and pongs, hidden pages and clicks on both sides of a *)
(* signature: once the questions asked are answered, unless one of them    *)
(* failed, was overtaken or was late, or the deposit before was taken back *)
(* while intervals still counted down, which then count for the next one.  *)
PongNotEarly ==
  PongEnabled /\ queries = <<>> /\ misled \cap {"answer", "left"} = {}
    => pinged /\ remaining = 0

(* And it is: a deposit whose deadline has passed is offered back in the   *)
(* end, if the page is not loaded again for ever, every answer was in time,*)
(* no transaction was signed before the one before it was done and shown,  *)
(* and no interval outlived its deposit.                                   *)
PongOffered ==
  Usable /\ <>[][~Reload]_vars =>
    [](pinged /\ remaining = 0
         => <>(PongEnabled \/ ~pinged \/ misled # {}))
=============================================================================
