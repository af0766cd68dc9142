-------------------------- MODULE DashboardProofs --------------------------
(***************************************************************************)
(* Theorems about Dashboard, for any variants, deadline and bounds: what   *)
(* was signed is sent as asked, pong is not offered early and the          *)
(* countdown does not freeze.                                              *)
(*                                                                         *)
(* Only the newest session is ever sent, so the invariant is about that    *)
(* one: the timer runs only for a batch that was not forgotten, a session  *)
(* that was answered has been, and while the network has not answered      *)
(* nothing but taking the signatures away starts the timer again.          *)
(***************************************************************************)
EXTENDS Dashboard, SequenceTheorems, TLAPS

Payload == {GetBatchTransactions, GetSwapAndLockTransactions}
Transaction == [kind : {"ping", "pong"}, paid : BOOLEAN, fetch : BOOLEAN]
Order == {p.order : p \in Payload}
Batch ==
  [session : Nat,
   groups : Order \cup {<<0..p.transactions - 1>> : p \in Payload}]
Question == [kind : {"auto", "session"}, payload : Payload, crossed : BOOLEAN]
SessionRecord ==
  [payload : Payload, status : {"none", "signed", "cancelled"},
   outcome : {"unsent", "posted", "answered", "interrupted"},
   crossed : BOOLEAN, disturbed : BOOLEAN]

TypeOK ==
  /\ amount \in BOOLEAN
  /\ building \in Seq(Transaction)
  /\ asking \in Seq(Question)
  /\ sessions \in Seq(SessionRecord)
  /\ onDemand \in BOOLEAN
  /\ timer \in BOOLEAN
  /\ sending \in Seq(Batch)
  /\ transactionsOrder \in Order

(* The wallet is asked to sign the newest session only, and not while the  *)
(* network has been asked to take it.                                      *)
AskedToSign ==
  Requested({"session"}) =>
    /\ currentSession # None /\ toSign[1].session = currentSession
    /\ sessions[currentSession].status = "none"
    /\ sessions[currentSession].outcome # "posted"

(* The session that is current is the newest.                              *)
Newest ==
  /\ currentSession = Len(sessions)
  /\ batchSession \in {None, currentSession}
  /\ timer => batchSession # None

(* It waits to be sent at most until it is, and then as asked.             *)
SentOnce ==
  currentSession # None =>
    LET s == sessions[currentSession]
    IN /\ s.outcome = "answered" => batchSession = None
       /\ s.outcome = "posted" /\ timer => s.status = "none"
       /\ ~s.disturbed => transactionsOrder = s.payload.order

IInv == TypeOK /\ AskedToSign /\ Newest /\ SentOnce

----------------------------------------------------------------------------
LEMMA RemoveAtKeeps ==
  ASSUME NEW S, NEW s \in Seq(S), NEW i \in DOMAIN s
  PROVE  RemoveAt(s, i) \in Seq(S) /\ Len(RemoveAt(s, i)) = Len(s) - 1
<1>1. Len(s) \in Nat /\ i \in 1..Len(s)
  BY LenProperties
<1>2. SubSeq(s, 1, i - 1) \in Seq(S) /\ Len(SubSeq(s, 1, i - 1)) = i - 1
  <2>1. \A k \in 1..(i - 1) : s[k] \in S
    BY <1>1, ElementOfSeq
  <2>2. Len(SubSeq(s, 1, i - 1)) = IF 1 <= i - 1 THEN i - 1 - 1 + 1 ELSE 0
    BY <1>1, <2>1, SubSeqProperties
  <2>3. QED
    BY <1>1, <2>1, <2>2, SubSeqProperties
<1>3. SubSeq(s, i + 1, Len(s)) \in Seq(S) /\ Len(SubSeq(s, i + 1, Len(s))) = Len(s) - i
  <2>1. \A k \in (i + 1)..Len(s) : s[k] \in S
    BY <1>1, ElementOfSeq
  <2>2. Len(SubSeq(s, i + 1, Len(s))) = IF i + 1 <= Len(s) THEN Len(s) - (i + 1) + 1 ELSE 0
    BY <1>1, <2>1, SubSeqProperties
  <2>3. QED
    BY <1>1, <2>1, <2>2, SubSeqProperties
<1>4. PICK a, b : a = SubSeq(s, 1, i - 1) /\ b = SubSeq(s, i + 1, Len(s))
  OBVIOUS
<1>5. /\ a \in Seq(S) /\ b \in Seq(S) /\ Len(a) = i - 1 /\ Len(b) = Len(s) - i
      /\ RemoveAt(s, i) = a \o b
  BY <1>2, <1>3, <1>4 DEF RemoveAt
<1>6. a \o b \in Seq(S) /\ Len(a \o b) = Len(a) + Len(b)
  BY <1>5, ConcatProperties
<1>7. QED
  BY <1>1, <1>5, <1>6

(* A sequence rewritten element by element.                                *)
LEMMA Rewritten ==
  ASSUME NEW S, NEW n \in Nat, NEW g \in [1..n -> S]
  PROVE  g \in Seq(S) /\ Len(g) = n /\ DOMAIN g = 1..n
  BY SeqDef, LenProperties

(* What the sessions are after they lost their signatures, or another batch*)
(* was started.                                                            *)
LEMMA UnsignedIs ==
  ASSUME NEW ss \in Seq(SessionRecord)
  PROVE  /\ Unsigned(ss) \in Seq(SessionRecord) /\ Len(Unsigned(ss)) = Len(ss)
         /\ \A s \in 1..Len(ss) : /\ Unsigned(ss)[s].status = "none"
                                  /\ Unsigned(ss)[s].outcome = ss[s].outcome
                                  /\ Unsigned(ss)[s].payload = ss[s].payload
                                  /\ Unsigned(ss)[s].disturbed = ss[s].disturbed
<1>1. Len(ss) \in Nat /\ DOMAIN ss = 1..Len(ss)
  BY LenProperties
<1>2. \A s \in 1..Len(ss) : ss[s] \in SessionRecord
  BY <1>1, ElementOfSeq
<1>3. Unsigned(ss) \in [1..Len(ss) -> SessionRecord]
  BY <1>1, <1>2 DEF Unsigned, SessionRecord
<1>4. QED
  BY <1>1, <1>2, <1>3, Rewritten DEF Unsigned, SessionRecord

LEMMA CrossedIs ==
  ASSUME NEW ss \in Seq(SessionRecord)
  PROVE  /\ Crossed(ss) \in Seq(SessionRecord) /\ Len(Crossed(ss)) = Len(ss)
         /\ \A s \in 1..Len(ss) : /\ Crossed(ss)[s].status = ss[s].status
                                  /\ Crossed(ss)[s].outcome = ss[s].outcome
                                  /\ Crossed(ss)[s].payload = ss[s].payload
                                  /\ Crossed(ss)[s].disturbed = ss[s].disturbed
<1>1. Len(ss) \in Nat /\ DOMAIN ss = 1..Len(ss)
  BY LenProperties
<1>2. \A s \in 1..Len(ss) : ss[s] \in SessionRecord
  BY <1>1, ElementOfSeq
<1>3. Crossed(ss) \in [1..Len(ss) -> SessionRecord]
  BY <1>1, <1>2 DEF Crossed, SessionRecord
<1>4. QED
  BY <1>1, <1>2, <1>3, Rewritten DEF Crossed, SessionRecord

LEMMA QuestionsCrossed ==
  ASSUME NEW qs \in Seq(Question)
  PROVE  Crossed(qs) \in Seq(Question)
<1>1. Len(qs) \in Nat /\ DOMAIN qs = 1..Len(qs)
  BY LenProperties
<1>2. \A s \in 1..Len(qs) : qs[s] \in Question
  BY <1>1, ElementOfSeq
<1>3. Crossed(qs) \in [1..Len(qs) -> Question]
  BY <1>1, <1>2 DEF Crossed, Question
<1>4. QED
  BY <1>1, <1>3, Rewritten

LEMMA CurrentIs ==
  ASSUME TypeOK, Newest
  PROVE  /\ Len(sessions) \in Nat /\ DOMAIN sessions = 1..Len(sessions)
         /\ None = 0 /\ currentSession \in Nat
         /\ currentSession # None => /\ currentSession \in 1..Len(sessions)
                                     /\ sessions[currentSession] \in SessionRecord
<1>1. /\ Len(sessions) \in Nat /\ DOMAIN sessions = 1..Len(sessions)
      /\ sessions \in Seq(SessionRecord)
  BY LenProperties DEF TypeOK
<1>2. \A s \in 1..Len(sessions) : sessions[s] \in SessionRecord
  BY <1>1, ElementOfSeq
<1>3. QED
  BY <1>1, <1>2 DEF Newest, None

(* The timer runs for a batch, and starts only with a new batch or another *)
(* status.                                                                 *)
LEMMA EffectIs ==
  ASSUME timer \in BOOLEAN, timer => batchSession # None,
         NEW batch, NEW session, NEW ss, NEW demand \in BOOLEAN
  PROVE  /\ Effect(batch, session, ss, demand) \in BOOLEAN
         /\ Effect(batch, session, ss, demand) => batch # None
         /\ Effect(batch, session, ss, demand) =>
              \/ timer \/ batch # batchSession
              \/ StatusOf(ss, session) # StatusOf(sessions, currentSession)
  BY DEF Effect

----------------------------------------------------------------------------
(* The buttons of the batch widget.                                        *)
LEMMA StartKeeps ==
  ASSUME IInv, NEW kind \in {"auto", "session"}, NEW payload \in Payload,
         NEW demand \in BOOLEAN, Start(kind, payload, demand)
  PROVE  IInv'
<1> DEFINE q == [kind |-> kind, payload |-> payload, crossed |-> asking # <<>>]
<1>1. /\ onDemand' = demand /\ asking' = Append(Crossed(asking), q)
      /\ sessions' = Crossed(sessions)
      /\ UNCHANGED <<amount, building, toSign, transactionsOrder, currentSession,
                     batchSession, timer, sending>>
  BY DEF Start, elsewhere
<1>2. q \in Question
  BY DEF Question
<1> HIDE DEF q
<1>3. asking \in Seq(Question) /\ sessions \in Seq(SessionRecord)
  BY DEF IInv, TypeOK
<1>4. asking' \in Seq(Question)
  BY <1>1, <1>2, <1>3, QuestionsCrossed, AppendProperties
<1>5. /\ sessions' \in Seq(SessionRecord) /\ Len(sessions') = Len(sessions)
      /\ \A s \in 1..Len(sessions) : /\ sessions'[s].status = sessions[s].status
                                     /\ sessions'[s].outcome = sessions[s].outcome
                                     /\ sessions'[s].payload = sessions[s].payload
                                     /\ sessions'[s].disturbed = sessions[s].disturbed
  BY <1>1, <1>3, CrossedIs
<1>6. TypeOK'
  BY <1>1, <1>4, <1>5 DEF IInv, TypeOK
<1>7. currentSession # None => currentSession \in 1..Len(sessions)
  BY CurrentIs DEF IInv
<1>8. AskedToSign' /\ Newest' /\ SentOnce'
  BY <1>1, <1>5, <1>7 DEF IInv, AskedToSign, Requested, Newest, SentOnce
<1>9. QED
  BY <1>6, <1>8 DEF IInv

LEMMA AutoAskedKeeps ==
  ASSUME IInv, NEW i \in DOMAIN asking, AutoAsked(i) \/ AskFails(i)
  PROVE  IInv'
<1>1. /\ asking' = RemoveAt(asking, i)
      /\ UNCHANGED <<amount, building, onDemand, transactionsOrder, sessions,
                     currentSession, batchSession, timer, sending>>
      /\ toSign' = toSign \/ ~Requested({"session"})'
  BY DEF AutoAsked, AskFails, elsewhere, vars, sendVars, Requested
<1>2. asking' \in Seq(Question)
  BY <1>1, RemoveAtKeeps DEF IInv, TypeOK
<1>3. QED
  BY <1>1, <1>2 DEF IInv, TypeOK, AskedToSign, Requested, Newest, SentOnce

(* A new session.                                                          *)
LEMMA AskedKeeps ==
  ASSUME IInv, NEW i \in DOMAIN asking, Asked(i)
  PROVE  IInv'
<1> DEFINE q == asking[i]
           r == Session(q)
<1> PICK new : new = Len(sessions) + 1
  OBVIOUS
<1>1. /\ toSign' = <<[kind |-> "session", session |-> new]>>
      /\ asking' = RemoveAt(asking, i)
      /\ sessions' = Append(sessions, r)
      /\ transactionsOrder' = IF q.payload.order # <<>> THEN q.payload.order
                              ELSE transactionsOrder
      /\ currentSession' = new /\ batchSession' = new
      /\ timer' = Effect(new, new, sessions', onDemand)
      /\ UNCHANGED <<amount, building, onDemand, sending>>
  BY DEF Asked, elsewhere
<1>2. q \in Question /\ asking' \in Seq(Question)
  BY <1>1, RemoveAtKeeps, ElementOfSeq, LenProperties DEF IInv, TypeOK
<1>3. /\ r \in SessionRecord
      /\ r.payload = q.payload /\ r.outcome = "unsent" /\ r.status = "none"
      /\ r.disturbed = (q.payload.order = <<>> /\ transactionsOrder # <<>>)
  <2>1. q.payload \in Payload /\ q.crossed \in BOOLEAN
    BY <1>2 DEF Question
  <2>2. QED
    BY <2>1 DEF Session, SessionRecord
<1>4. q.payload.order \in Order
  BY <1>2 DEF Question, Order
<1> HIDE DEF q, r
<1>5. /\ Len(sessions) \in Nat /\ sessions \in Seq(SessionRecord)
      /\ timer \in BOOLEAN /\ onDemand \in BOOLEAN /\ (timer => batchSession # None)
  BY CurrentIs DEF IInv, TypeOK, Newest
<1>6. /\ sessions' \in Seq(SessionRecord) /\ Len(sessions') = new /\ sessions'[new] = r
      /\ new # None
  BY <1>1, <1>3, <1>5, AppendProperties DEF None
<1>7. timer' \in BOOLEAN
  <2> PICK ss : ss = sessions'
    OBVIOUS
  <2>1. Effect(new, new, ss, onDemand) \in BOOLEAN
    BY <1>5, EffectIs
  <2>2. QED
    BY <1>1, <2>1
<1>8. TypeOK'
  BY <1>1, <1>2, <1>4, <1>6, <1>7 DEF IInv, TypeOK
<1>9. AskedToSign' /\ Newest'
  BY <1>1, <1>3, <1>6 DEF AskedToSign, Newest
<1>10. ~r.disturbed => transactionsOrder' = r.payload.order
  BY <1>1, <1>3
<1>11. SentOnce'
  BY <1>1, <1>3, <1>6, <1>10 DEF SentOnce
<1>12. QED
  BY <1>8, <1>9, <1>11 DEF IInv

----------------------------------------------------------------------------
(* The wallet.                                                             *)
LEMMA SignSessionKeeps ==
  ASSUME IInv, NEW status \in {"signed", "cancelled"}, SignSession(status)
  PROVE  IInv'
<1> DEFINE c == currentSession
           r == [sessions[c] EXCEPT !.status = status]
<1>1. /\ toSign' = <<>> /\ UNCHANGED <<amount, building, onDemand, transactionsOrder,
                                        asking, currentSession, batchSession, sending>>
      /\ toSign[1].session = c /\ c # None
      /\ sessions[c].outcome # "posted"
      /\ timer' = Effect(batchSession, currentSession, sessions', onDemand)
      /\ sessions' = [sessions EXCEPT ![toSign[1].session].status = status]
  BY DEF SignSession, elsewhere, IInv, AskedToSign
<1>2. /\ c \in 1..Len(sessions) /\ sessions[c] \in SessionRecord
      /\ sessions \in Seq(SessionRecord) /\ timer \in BOOLEAN /\ onDemand \in BOOLEAN
      /\ timer => batchSession # None
      /\ DOMAIN sessions = 1..Len(sessions)
  BY <1>1, CurrentIs DEF IInv, TypeOK, Newest
<1>3. r \in SessionRecord /\ r.outcome = sessions[c].outcome
      /\ r.payload = sessions[c].payload /\ r.disturbed = sessions[c].disturbed
  BY <1>2 DEF SessionRecord
<1>4. sessions' = [sessions EXCEPT ![c] = r]
  BY <1>1, <1>2
<1> HIDE DEF r, c
<1>5. /\ sessions' \in Seq(SessionRecord) /\ Len(sessions') = Len(sessions)
      /\ sessions'[c] = r
  BY <1>2, <1>3, <1>4, ExceptSeq
<1>6. timer' \in BOOLEAN /\ (timer' => batchSession # None)
  <2> PICK ss : ss = sessions'
    OBVIOUS
  <2>1. /\ Effect(batchSession, currentSession, ss, onDemand) \in BOOLEAN
        /\ Effect(batchSession, currentSession, ss, onDemand) => batchSession # None
    BY <1>2, EffectIs
  <2>2. QED
    BY <1>1, <2>1
<1>7. TypeOK'
  BY <1>1, <1>5, <1>6 DEF IInv, TypeOK
<1>8. AskedToSign' /\ Newest'
  BY <1>1, <1>5, <1>6 DEF IInv, AskedToSign, Requested, Newest
<1>9. SentOnce'
  BY <1>1, <1>3, <1>5 DEF IInv, SentOnce, c
<1>10. QED
  BY <1>7, <1>8, <1>9 DEF IInv

LEMMA SignAutoKeeps ==
  ASSUME IInv, SignAuto
  PROVE  IInv'
<1>1. toSign' = <<>> /\ UNCHANGED <<amount, building, batchVars>>
  BY DEF SignAuto, elsewhere
<1>2. QED
  BY <1>1 DEF batchVars, IInv, TypeOK, AskedToSign, Requested, Newest, SentOnce

----------------------------------------------------------------------------
(* The timer ends.                                                         *)
LEMMA NothingSignedKeeps ==
  ASSUME IInv, NothingSigned
  PROVE  IInv'
  BY DEF NothingSigned, vars, sendVars, IInv, TypeOK, AskedToSign, Requested,
         Newest, SentOnce

LEMMA CancelFlowKeeps ==
  ASSUME IInv, CancelFlow
  PROVE  IInv'
<1>1. /\ toSign' = <<>> /\ batchSession' = None /\ timer' = FALSE
      /\ sessions' = Unsigned(sessions)
      /\ UNCHANGED <<amount, building, onDemand, transactionsOrder, asking,
                     currentSession, sending>>
  BY DEF CancelFlow, ClearTransactionsInformation, elsewhere
<1>2. /\ sessions' \in Seq(SessionRecord) /\ Len(sessions') = Len(sessions)
      /\ \A s \in 1..Len(sessions) : /\ sessions'[s].status = "none"
                                     /\ sessions'[s].outcome = sessions[s].outcome
                                     /\ sessions'[s].payload = sessions[s].payload
                                     /\ sessions'[s].disturbed = sessions[s].disturbed
  BY <1>1, UnsignedIs DEF IInv, TypeOK
<1>3. currentSession # None => currentSession \in 1..Len(sessions)
  BY CurrentIs DEF IInv
<1>4. QED
  BY <1>1, <1>2, <1>3 DEF IInv, TypeOK, AskedToSign, Requested, Newest, SentOnce

(* What is sent: the newest session, in the groups of its payload.         *)
LEMMA SentIs ==
  ASSUME IInv, SendTransactions
  PROVE  /\ currentSession \in 1..Len(sessions) /\ currentSession # None
         /\ sessions[currentSession] \in SessionRecord
         /\ sessions[currentSession].status = "signed"
         /\ sessions[currentSession].outcome \in {"unsent", "interrupted"}
         /\ sending \in Seq(Batch)
         /\ [session |-> currentSession,
             groups |-> Groups(sessions[currentSession].payload)] \in Batch
<1>1. /\ batchSession # None /\ currentSession # None
      /\ currentSession \in 1..Len(sessions) /\ currentSession \in Nat
      /\ sessions[currentSession] \in SessionRecord
      /\ DOMAIN sessions = 1..Len(sessions)
  BY CurrentIs DEF IInv, SendTransactions, Newest
<1>2. sessions[currentSession].status = "signed"
  BY <1>1 DEF SendTransactions, StatusOf
<1>3. sessions[currentSession].outcome \notin {"posted", "answered"}
  BY <1>1, <1>2 DEF IInv, SentOnce, SendTransactions
<1>4. sessions[currentSession].outcome \in {"unsent", "interrupted"}
  BY <1>1, <1>3 DEF SessionRecord
<1>5. sessions[currentSession].payload \in Payload /\ transactionsOrder \in Order
  BY <1>1 DEF SessionRecord, IInv, TypeOK
<1>6. [session |-> currentSession,
       groups |-> Groups(sessions[currentSession].payload)] \in Batch
  BY <1>1, <1>5 DEF Groups, Batch
<1>7. QED
  BY <1>1, <1>2, <1>4, <1>6 DEF IInv, TypeOK

LEMMA SendTransactionsKeeps ==
  ASSUME IInv, SendTransactions
  PROVE  IInv'
<1> DEFINE c == currentSession
           r == [sessions[c] EXCEPT !.outcome = "posted"]
           b == [session |-> c, groups |-> Groups(sessions[c].payload)]
<1>1. /\ timer' = FALSE /\ sending' = Append(sending, b)
      /\ sessions' = [sessions EXCEPT ![c] = r]
      /\ UNCHANGED <<amount, building, toSign, onDemand, transactionsOrder, asking,
                     currentSession, batchSession>>
  BY DEF SendTransactions, vars, sendVars
<1>2. /\ c \in 1..Len(sessions) /\ c # None /\ sessions[c] \in SessionRecord
      /\ sessions[c].status = "signed"
      /\ sending \in Seq(Batch) /\ b \in Batch
      /\ sessions[c].outcome # "answered"
  BY SentIs
<1>3. /\ r \in SessionRecord /\ r.outcome = "posted"
      /\ r.payload = sessions[c].payload /\ r.disturbed = sessions[c].disturbed
  BY <1>2 DEF SessionRecord
<1> HIDE DEF r, c, b
<1>4. sessions \in Seq(SessionRecord)
  BY DEF IInv, TypeOK
<1>5. /\ sessions' \in Seq(SessionRecord) /\ Len(sessions') = Len(sessions)
      /\ sessions'[c] = r
  BY <1>1, <1>2, <1>3, <1>4, ExceptSeq
<1>6. sending' \in Seq(Batch)
  BY <1>1, <1>2, AppendProperties
<1>7. TypeOK'
  BY <1>1, <1>5, <1>6 DEF IInv, TypeOK
<1>8. ~Requested({"session"})
  BY <1>2 DEF IInv, AskedToSign, c
<1>9. AskedToSign' /\ Newest'
  BY <1>1, <1>5, <1>8 DEF IInv, AskedToSign, Requested, Newest
<1>10. SentOnce'
  BY <1>1, <1>3, <1>5 DEF IInv, SentOnce, c
<1>11. QED
  BY <1>7, <1>9, <1>10 DEF IInv

(* The network has answered for a batch, whether or not its session is the *)
(* one that is current.                                                    *)
LEMMA AnsweredIs ==
  ASSUME NEW ss \in Seq(SessionRecord), NEW i
  PROVE  /\ Answered(ss, i) \in Seq(SessionRecord) /\ Len(Answered(ss, i)) = Len(ss)
         /\ \A s \in 1..Len(ss) : /\ Answered(ss, i)[s].status = ss[s].status
                                  /\ Answered(ss, i)[s].outcome \in {ss[s].outcome, "answered"}
                                  /\ Answered(ss, i)[s].payload = ss[s].payload
                                  /\ Answered(ss, i)[s].disturbed = ss[s].disturbed
<1> DEFINE k == sending[i].session
           a(s) == IF s = k THEN [ss[s] EXCEPT !.outcome = "answered"] ELSE ss[s]
<1>1. Len(ss) \in Nat /\ DOMAIN ss = 1..Len(ss)
  BY LenProperties
<1>2. \A s \in 1..Len(ss) : ss[s] \in SessionRecord
  BY <1>1, ElementOfSeq
<1>3. Answered(ss, i) = [s \in 1..Len(ss) |-> a(s)]
  BY <1>1, <1>2 DEF Answered
<1>4. \A s \in 1..Len(ss) : /\ a(s) \in SessionRecord
                            /\ a(s).status = ss[s].status
                            /\ a(s).outcome \in {ss[s].outcome, "answered"}
                            /\ a(s).payload = ss[s].payload
                            /\ a(s).disturbed = ss[s].disturbed
  BY <1>2 DEF SessionRecord
<1> HIDE DEF a
<1>5. Answered(ss, i) \in [1..Len(ss) -> SessionRecord]
  BY <1>3, <1>4
<1>6. QED
  BY <1>1, <1>3, <1>4, <1>5, Rewritten

LEMMA SendReturnsKeeps ==
  ASSUME IInv, NEW i \in DOMAIN sending, SendReturns(i)
  PROVE  IInv'
<1>1. /\ batchSession' = None /\ sessions' = Answered(sessions, i)
      /\ timer' = Effect(None, currentSession, sessions, onDemand)
      /\ sending' = RemoveAt(sending, i)
      /\ UNCHANGED <<amount, building, toSign, onDemand, transactionsOrder, asking,
                     currentSession>>
  BY DEF SendReturns, BatchAfterSending, elsewhere
<1>2. /\ sessions' \in Seq(SessionRecord) /\ Len(sessions') = Len(sessions)
      /\ \A s \in 1..Len(sessions) :
           /\ sessions'[s].status = sessions[s].status
           /\ sessions'[s].outcome \in {sessions[s].outcome, "answered"}
           /\ sessions'[s].payload = sessions[s].payload
           /\ sessions'[s].disturbed = sessions[s].disturbed
  BY <1>1, AnsweredIs DEF IInv, TypeOK
<1>3. sending' \in Seq(Batch)
  BY <1>1, RemoveAtKeeps DEF IInv, TypeOK
<1>4. currentSession # None => currentSession \in 1..Len(sessions)
  BY CurrentIs DEF IInv
<1>5. timer' = FALSE
  <2>1. /\ Effect(None, currentSession, sessions, onDemand) \in BOOLEAN
        /\ Effect(None, currentSession, sessions, onDemand) => None # None
    BY EffectIs DEF IInv, TypeOK, Newest
  <2>2. QED
    BY <1>1, <2>1
<1>6. TypeOK'
  BY <1>1, <1>2, <1>3, <1>5 DEF IInv, TypeOK
<1>7. AskedToSign' /\ Newest' /\ SentOnce'
  BY <1>1, <1>2, <1>4, <1>5 DEF IInv, AskedToSign, Requested, Newest, SentOnce
<1>8. QED
  BY <1>6, <1>7 DEF IInv

(* A failed sending leaves no session signed and no batch to send.         *)
LEMMA SendFailsKeeps ==
  ASSUME IInv, NEW i \in DOMAIN sending, SendFails(i)
  PROVE  IInv'
<1>1. /\ toSign' = <<>> /\ batchSession' = None /\ timer' = FALSE
      /\ sessions' = Unsigned(Answered(sessions, i))
      /\ sending' = RemoveAt(sending, i)
      /\ UNCHANGED <<amount, building, onDemand, transactionsOrder, asking,
                     currentSession>>
  BY DEF SendFails, ClearTransactionsInformation, elsewhere
<1> PICK as : as = Answered(sessions, i)
  OBVIOUS
<1>2. /\ as \in Seq(SessionRecord) /\ Len(as) = Len(sessions)
      /\ \A s \in 1..Len(sessions) : /\ as[s].payload = sessions[s].payload
                                     /\ as[s].disturbed = sessions[s].disturbed
  BY AnsweredIs DEF IInv, TypeOK
<1>3. /\ sessions' \in Seq(SessionRecord) /\ Len(sessions') = Len(as)
      /\ \A s \in 1..Len(as) : /\ sessions'[s].payload = as[s].payload
                               /\ sessions'[s].disturbed = as[s].disturbed
  BY <1>1, <1>2, UnsignedIs
<1>4. sending' \in Seq(Batch)
  BY <1>1, RemoveAtKeeps DEF IInv, TypeOK
<1>5. currentSession # None => currentSession \in 1..Len(sessions)
  BY CurrentIs DEF IInv
<1>6. TypeOK'
  BY <1>1, <1>3, <1>4 DEF IInv, TypeOK
<1>7. AskedToSign' /\ Newest' /\ SentOnce'
  BY <1>1, <1>2, <1>3, <1>5 DEF IInv, AskedToSign, Requested, Newest, SentOnce
<1>8. QED
  BY <1>6, <1>7 DEF IInv

----------------------------------------------------------------------------
(* The ping-pong widget: what it builds, and that its transactions are not *)
(* taken for a session.                                                    *)
LEMMA ClickBuilds ==
  ASSUME amount \in BOOLEAN, building \in Seq(Transaction),
         ClickRaw \/ ClickAbi \/ ClickService
  PROVE  /\ amount' = amount /\ building' \in Seq(Transaction)
         /\ toSign' \in {toSign, <<>>}
         /\ ClickRaw \/ ClickAbi => toSign' = <<>>
<1>1. PICK t \in Transaction : /\ Click(t)
                               /\ ClickRaw \/ ClickAbi => ~t.fetch
  <2>1. /\ {SendPingTransaction, SendPingTransactionFromAbi, SendPongTransaction,
            SendPongTransactionFromAbi, GetPingTransaction, GetPongTransaction}
             \subseteq Transaction
        /\ ~SendPingTransaction.fetch /\ ~SendPingTransactionFromAbi.fetch
        /\ ~SendPongTransaction.fetch /\ ~SendPongTransactionFromAbi.fetch
    BY DEF SendPingTransaction, SendPongTransaction, SendPingTransactionFromAbi,
           SendPongTransactionFromAbi, GetPingTransaction, GetPongTransaction,
           Transaction
  <2>2. CASE ClickRaw
    BY <2>1, <2>2 DEF ClickRaw
  <2>3. CASE ClickAbi
    BY <2>1, <2>3 DEF ClickAbi
  <2>4. CASE ClickService /\ ~ClickRaw /\ ~ClickAbi
    BY <2>1, <2>4 DEF ClickService
  <2>5. QED
    BY <2>2, <2>3, <2>4
<1>2. amount' = amount /\ building' = Append(building, t)
      /\ toSign' = IF t.fetch THEN toSign ELSE <<>>
  BY <1>1 DEF Click
<1>3. QED
  BY <1>1, <1>2, AppendProperties

LEMMA FetchedBuilds ==
  ASSUME building \in Seq(Transaction), NEW i \in DOMAIN building, Fetched(i)
  PROVE  amount' = amount /\ building' \in Seq(Transaction) /\ toSign' = <<>>
<1> DEFINE t == [building[i] EXCEPT !.fetch = FALSE]
<1>1. i \in 1..Len(building) /\ building[i] \in Transaction
  BY LenProperties, ElementOfSeq
<1>2. t \in Transaction
  BY <1>1 DEF Transaction
<1>3. building' = [building EXCEPT ![i] = t]
  BY DEF Fetched, SendPingTransactionFromService, SendPongTransactionFromService
<1> HIDE DEF t
<1>4. QED
  BY <1>1, <1>2, <1>3, ExceptSeq DEF Fetched

LEMMA PingPongStepIs ==
  ASSUME amount \in BOOLEAN, building \in Seq(Transaction), PingPongStep
  PROVE  /\ amount' \in BOOLEAN /\ building' \in Seq(Transaction)
         /\ \/ toSign' \in {toSign, <<>>}
            \/ \E t \in Transaction : toSign' = <<t>>
<1> USE DEF vars, sendVars
<1>1. CASE Second \/ SecondHidden
  BY <1>1 DEF Second, SecondHidden
<1>2. CASE \E i \in DOMAIN queries : AnswerQuery(i) \/ Arrive(i) \/ QueryFails(i)
  BY <1>2 DEF AnswerQuery, Arrive, QueryFails
<1>3. CASE RawPingAmount \/ AbiPingAmount
  BY <1>3 DEF RawPingAmount, AbiPingAmount, Amount
<1>4. CASE ClickService
  BY <1>4, ClickBuilds
<1>5. ASSUME NEW i \in DOMAIN building, HandOver(i) \/ Lost(i)
      PROVE  /\ amount' = amount /\ building' \in Seq(Transaction)
             /\ \/ toSign' = toSign
                \/ \E t \in Transaction : toSign' = <<t>>
  <2>1. building[i] \in Transaction
    BY LenProperties, ElementOfSeq
  <2>2. building' \in Seq(Transaction)
    BY <1>5, RemoveAtKeeps DEF HandOver, Lost
  <2>3. QED
    BY <1>5, <2>1, <2>2 DEF HandOver, Lost
<1>6. CASE Sign \/ Cancel
  BY <1>6 DEF Sign, Cancel
<1>7. CASE \E i \in DOMAIN pending : Execute(i) \/ Completed(i)
  BY <1>7 DEF Execute, Completed
<1>8. QED
  BY <1>1, <1>2, <1>3, <1>4, <1>5, <1>6, <1>7 DEF PingPongStep

LEMMA PingPongStepKeeps ==
  ASSUME IInv, PingPongStep
  PROVE  IInv'
<1>1. /\ amount' \in BOOLEAN /\ building' \in Seq(Transaction)
      /\ \/ toSign' \in {toSign, <<>>}
         \/ \E t \in Transaction : toSign' = <<t>>
  BY PingPongStepIs DEF IInv, TypeOK
<1>2. UNCHANGED batchVars
  BY DEF PingPongStep
<1>3. toSign' = toSign \/ ~Requested({"session"})'
  BY <1>1 DEF Requested, Transaction
<1>4. QED
  BY <1>1, <1>2, <1>3 DEF batchVars, IInv, TypeOK, AskedToSign, Requested, Newest,
                          SentOnce

(* It takes the signatures of this widget back.                            *)
LEMMA ClearsKeeps ==
  ASSUME IInv, Clears
  PROVE  IInv'
<1>1. amount \in BOOLEAN /\ building \in Seq(Transaction)
  BY DEF IInv, TypeOK
<1>2. amount' = amount /\ building' \in Seq(Transaction) /\ toSign' = <<>>
  <2>1. CASE ClickRaw \/ ClickAbi
    BY <1>1, <2>1, ClickBuilds
  <2>2. CASE \E i \in DOMAIN building : Fetched(i)
    BY <1>1, <2>2, FetchedBuilds
  <2>3. QED
    BY <2>1, <2>2 DEF Clears
<1>3. /\ sessions' = Unsigned(sessions)
      /\ timer' = Effect(batchSession, currentSession, sessions', onDemand)
      /\ UNCHANGED <<onDemand, transactionsOrder, asking, currentSession,
                     batchSession, sending>>
  BY DEF Clears
<1>4. /\ sessions' \in Seq(SessionRecord) /\ Len(sessions') = Len(sessions)
      /\ \A s \in 1..Len(sessions) : /\ sessions'[s].status = "none"
                                     /\ sessions'[s].outcome = sessions[s].outcome
                                     /\ sessions'[s].payload = sessions[s].payload
                                     /\ sessions'[s].disturbed = sessions[s].disturbed
  BY <1>3, UnsignedIs DEF IInv, TypeOK
<1>5. timer' \in BOOLEAN /\ (timer' => batchSession # None)
  <2> PICK ss : ss = sessions'
    OBVIOUS
  <2>1. /\ Effect(batchSession, currentSession, ss, onDemand) \in BOOLEAN
        /\ Effect(batchSession, currentSession, ss, onDemand) => batchSession # None
    BY EffectIs DEF IInv, TypeOK, Newest
  <2>2. QED
    BY <1>3, <2>1
<1>6. currentSession # None => currentSession \in 1..Len(sessions)
  BY CurrentIs DEF IInv
<1>7. TypeOK'
  BY <1>1, <1>2, <1>3, <1>4, <1>5 DEF IInv, TypeOK
<1>8. AskedToSign' /\ Newest' /\ SentOnce'
  BY <1>2, <1>3, <1>4, <1>5, <1>6 DEF IInv, AskedToSign, Requested, Newest, SentOnce
<1>9. QED
  BY <1>7, <1>8 DEF IInv

(* The page is loaded again: nothing is on its way any more.               *)
LEMMA LoadPageKeeps ==
  ASSUME IInv, NEW status \in {"none", "signed", "cancelled"}, LoadPage(status)
  PROVE  IInv'
<1> DEFINE a(s) == [sessions[s] EXCEPT
                      !.status = IF status # "none" /\ s = toSign[1].session
                                 THEN status ELSE @,
                      !.outcome = IF @ = "posted" THEN "interrupted" ELSE @,
                      !.disturbed = TRUE]
<1>1. /\ amount' = FALSE /\ building' = <<>> /\ toSign' = <<>>
      /\ onDemand' = TRUE /\ transactionsOrder' = <<>> /\ asking' = <<>>
      /\ sending' = <<>> /\ timer' = (batchSession # None)
      /\ UNCHANGED <<currentSession, batchSession>>
  BY DEF LoadPage, Reload
<1>2. /\ Len(sessions) \in Nat /\ DOMAIN sessions = 1..Len(sessions)
      /\ \A s \in 1..Len(sessions) : sessions[s] \in SessionRecord
  BY LenProperties, ElementOfSeq DEF IInv, TypeOK
<1>3. sessions' = [s \in 1..Len(sessions) |-> a(s)]
  BY <1>2 DEF LoadPage
<1>4. \A s \in 1..Len(sessions) :
        /\ a(s) \in SessionRecord
        /\ a(s).outcome = "answered" => sessions[s].outcome = "answered"
        /\ a(s).outcome # "posted" /\ a(s).disturbed
  BY <1>2 DEF SessionRecord
<1> HIDE DEF a
<1>5. sessions' \in [1..Len(sessions) -> SessionRecord]
  BY <1>3, <1>4
<1>6. sessions' \in Seq(SessionRecord) /\ Len(sessions') = Len(sessions)
  <2> PICK ss : ss = sessions'
    OBVIOUS
  <2>1. ss \in Seq(SessionRecord) /\ Len(ss) = Len(sessions)
    BY <1>2, <1>5, Rewritten
  <2>2. QED
    BY <2>1
<1>7. currentSession # None => currentSession \in 1..Len(sessions)
  BY CurrentIs DEF IInv
<1>8. TypeOK'
  <2>1. <<>> \in Order
    BY DEF Order, Payload, GetBatchTransactions
  <2>2. QED
    BY <1>1, <1>6, <2>1, EmptySeq DEF TypeOK
<1>9. AskedToSign' /\ Newest' /\ SentOnce'
  BY <1>1, <1>3, <1>4, <1>6, <1>7 DEF IInv, AskedToSign, Requested, Newest, SentOnce
<1>10. QED
  BY <1>8, <1>9 DEF IInv

----------------------------------------------------------------------------
LEMMA InitIInv ==
  ASSUME DashboardInit
  PROVE  IInv
<1>1. <<>> \in Order
  BY DEF Order, Payload, GetBatchTransactions
<1>2. TypeOK
  BY <1>1, EmptySeq DEF DashboardInit, Init, TypeOK
<1>3. AskedToSign /\ Newest /\ SentOnce
  BY EmptySeq DEF DashboardInit, Init, AskedToSign, Requested, Newest, SentOnce, None
<1>4. QED
  BY <1>2, <1>3 DEF IInv

LEMMA StepKeeps ==
  ASSUME IInv, [DashboardNext]_dashboardVars
  PROVE  IInv'
<1>1. CASE \/ SignAndAutoSendBatchTransactions
           \/ ExecuteBatchTransactions
           \/ ExecuteSwapAndLockTransactions
  BY <1>1, StartKeeps DEF SignAndAutoSendBatchTransactions, ExecuteBatchTransactions,
                          ExecuteSwapAndLockTransactions, Payload
<1>2. CASE \E i \in DOMAIN asking : AutoAsked(i) \/ Asked(i) \/ AskFails(i)
  BY <1>2, AutoAskedKeeps, AskedKeeps
<1>3. CASE \E status \in {"signed", "cancelled"} : SignSession(status)
  BY <1>3, SignSessionKeeps
<1>4. CASE SignAuto \/ NothingSigned \/ CancelFlow \/ SendTransactions
  BY <1>4, SignAutoKeeps, NothingSignedKeeps, CancelFlowKeeps, SendTransactionsKeeps
<1>5. CASE \/ \E i \in DOMAIN sending : SendReturns(i)
           \/ \E i \in DOMAIN sending : SendFails(i)
  BY <1>5, SendReturnsKeeps, SendFailsKeeps
<1>6. CASE Clears \/ PingPongStep
  BY <1>6, ClearsKeeps, PingPongStepKeeps
<1>7. CASE \E status \in {"none", "signed", "cancelled"} : LoadPage(status)
  BY <1>7, LoadPageKeeps
<1>8. CASE UNCHANGED dashboardVars
  BY <1>8 DEF dashboardVars, vars, sendVars, batchVars, IInv, TypeOK, AskedToSign,
              Requested, Newest, SentOnce
<1>9. QED
  BY <1>1, <1>2, <1>3, <1>4, <1>5, <1>6, <1>7, <1>8 DEF DashboardNext

(* The timer runs for the newest session only, which waits to be sent at   *)
(* most until it is, and whose groups are those of its payload unless an   *)
(* order was left behind or lost.                                          *)
THEOREM NewestSessionSent == DashboardSpec => []IInv
<1>1. DashboardInit => IInv
  BY InitIInv
<1>2. IInv /\ [DashboardNext]_dashboardVars => IInv'
  BY StepKeeps
<1>3. QED
  BY <1>1, <1>2, PTL DEF DashboardSpec

(* Only the end of the timer hands anything to the network.                *)
LEMMA OnlySends ==
  ASSUME IInv, [DashboardNext]_dashboardVars, Len(sending') > Len(sending)
  PROVE  SendTransactions
<1>1. sending \in Seq(Batch) /\ Len(sending) \in Nat
  BY LenProperties DEF IInv, TypeOK
<1>2. sending' # sending /\ sending' # <<>>
  BY <1>1, EmptySeq
<1>3. ASSUME NEW i \in DOMAIN sending, SendReturns(i) \/ SendFails(i)
      PROVE  FALSE
  <2>1. sending' = RemoveAt(sending, i)
    BY <1>3 DEF SendReturns, SendFails
  <2>2. Len(RemoveAt(sending, i)) = Len(sending) - 1
    BY <1>1, RemoveAtKeeps
  <2>3. QED
    BY <1>1, <2>1, <2>2
<1>4. ASSUME NEW i \in DOMAIN asking, AutoAsked(i) \/ Asked(i) \/ AskFails(i)
      PROVE  FALSE
  BY <1>2, <1>4 DEF AutoAsked, Asked, AskFails
<1>5. ~(\/ SignAndAutoSendBatchTransactions
        \/ ExecuteBatchTransactions
        \/ ExecuteSwapAndLockTransactions)
  BY <1>2 DEF SignAndAutoSendBatchTransactions, ExecuteBatchTransactions,
              ExecuteSwapAndLockTransactions, Start
<1>6. ~(\/ \E status \in {"signed", "cancelled"} : SignSession(status)
        \/ SignAuto \/ NothingSigned \/ CancelFlow \/ Clears \/ PingPongStep
        \/ \E status \in {"none", "signed", "cancelled"} : LoadPage(status)
        \/ UNCHANGED dashboardVars)
  BY <1>2 DEF SignSession, SignAuto, NothingSigned, CancelFlow, Clears, PingPongStep,
              LoadPage, batchVars, dashboardVars
<1>7. QED
  BY <1>3, <1>4, <1>5, <1>6 DEF DashboardNext

(* What was signed is handed to the network once and in the groups of its  *)
(* payload, however clicks, cancellations and loads of the page overlap,   *)
(* for any number of them and for each variant of the ping-pong widget.    *)
THEOREM SignedIsSentAsAsked == DashboardSpec => SentAsAsked
<1> DEFINE s == sessions[Last(sending').session]
           b == Last(sending')
           Step ==
             Len(sending') > Len(sending) =>
               /\ s.outcome \in {"unsent", "interrupted"}
               /\ \/ s.disturbed
                  \/ b.groups = s.payload.order
                  \/ /\ s.payload.order = <<>>
                     /\ b.groups = <<0..s.payload.transactions - 1>>
<1>1. ASSUME IInv, [DashboardNext]_dashboardVars, Len(sending') > Len(sending)
      PROVE  Step
  <2> DEFINE c == currentSession
             new == [session |-> c, groups |-> Groups(sessions[c].payload)]
  <2>1. SendTransactions
    BY <1>1, OnlySends
  <2>2. /\ c # None /\ sessions[c].outcome \in {"unsent", "interrupted"}
        /\ sending \in Seq(Batch) /\ new \in Batch
    BY <1>1, <2>1, SentIs
  <2>3. sending' = Append(sending, new)
    BY <2>1 DEF SendTransactions
  <2>4. Last(sending') = new
    BY <2>2, <2>3, AppendProperties, LenProperties DEF Last
  <2>5. b.session = c /\ b.groups = Groups(sessions[c].payload)
    BY <2>4
  <2>6. ~sessions[c].disturbed => transactionsOrder = sessions[c].payload.order
    BY <1>1, <2>2 DEF IInv, SentOnce
  <2>7. QED
    BY <2>2, <2>5, <2>6 DEF Groups
<1>2. IInv /\ [DashboardNext]_dashboardVars => [Step]_dashboardVars
  BY <1>1
<1>3. QED
  BY <1>2, NewestSessionSent, PTL DEF DashboardSpec, SentAsAsked

----------------------------------------------------------------------------
(* The countdown of the ping-pong widget, for any deadline, any number of  *)
(* clicks and of questions under way.  What a widget shows may lag behind  *)
(* the contract only while something is on its way that will tell: a       *)
(* pending transaction, whose end makes the widget ask, or a question.     *)
Reply == {Unanswered, Null} \cup Nat
Sequence(s) == \E S : s \in Seq(S)
WidgetOK ==
  /\ pinged \in BOOLEAN /\ hasPing \in BOOLEAN
  /\ remaining \in Nat /\ secondsLeft \in Nat /\ running \in Nat
  /\ variant \in {"raw", "abi", "service"}
  /\ queries \in Seq(Reply)
  /\ Sequence(pending)

(* No answer misled the widget, and no interval outlived its deposit.      *)
NotMisled == misled \cap {"answer", "left"} = {}

(* At most one interval counts down, and none without a deposit.           *)
OneInterval == NotMisled => running <= (IF hasPing THEN 0 ELSE 1)

(* A widget that nothing is on its way to knows whether there is a deposit *)
(* and does not count down ahead of the contract.                          *)
Informed ==
  NotMisled /\ Usable /\ pending = <<>> /\ queries = <<>>
    => /\ hasPing = ~pinged
       /\ pinged => remaining <= secondsLeft

CountdownInv == WidgetOK /\ OneInterval /\ Informed

contractView == <<pinged, remaining, variant, token>>

----------------------------------------------------------------------------
LEMMA CountdownStarts ==
  ASSUME DashboardInit
  PROVE  CountdownInv
<1>1. queries \in Seq(Reply) /\ (Usable => queries # <<>>)
  <2>1. /\ Append(<<>>, Unanswered) \in Seq(Reply)
        /\ Append(<<>>, Unanswered) # <<>>
    BY EmptySeq, AppendProperties DEF Reply
  <2>2. queries = Ask(<<>>)
    BY DEF DashboardInit, Init
  <2>3. QED
    BY <2>1, <2>2, EmptySeq DEF Ask
<1>2. Sequence(pending)
  BY EmptySeq DEF DashboardInit, Init, Sequence
<1>3. /\ pinged = FALSE /\ hasPing = TRUE /\ remaining = 0 /\ secondsLeft = 0
      /\ running = 0 /\ variant \in {"raw", "abi", "service"}
  BY DEF DashboardInit, Init
<1>4. WidgetOK
  BY <1>1, <1>2, <1>3 DEF WidgetOK
<1>5. OneInterval
  BY <1>3 DEF OneInterval
<1>6. Informed
  BY <1>1 DEF Informed
<1>7. QED
  BY <1>4, <1>5, <1>6 DEF CountdownInv

(* Steps that leave the widget's view of the contract alone, but for what  *)
(* is on its way, keep the invariant as long as something still is.        *)
LEMMA NothingSeen ==
  ASSUME CountdownInv,
         UNCHANGED <<contractView, hasPing, secondsLeft, running, queries, pending>>,
         misled \subseteq misled'
  PROVE  CountdownInv'
  BY DEF CountdownInv, WidgetOK, OneInterval, Informed, NotMisled, Usable, contractView

(* Ask leaves a question of whoever has a widget to ask it.                *)
LEMMA AskIs ==
  ASSUME NEW q \in Seq(Reply)
  PROVE  Ask(q) \in Seq(Reply) /\ (Usable => Ask(q) # <<>>)
<1>1. /\ Append(q, Unanswered) \in Seq(Reply)
      /\ Len(Append(q, Unanswered)) = Len(q) + 1 /\ Len(q) \in Nat
  BY AppendProperties, LenProperties DEF Reply
<1>2. Append(q, Unanswered) # <<>>
  BY <1>1, EmptySeq
<1>3. QED
  BY <1>1, <1>2 DEF Ask

(* What becomes pending or ceases to be is followed by a question as soon  *)
(* as nothing is pending any more.                                         *)
LEMMA TrackKeeps ==
  ASSUME CountdownInv, NEW p, Track(p), Sequence(p), p = <<>> => pending # <<>>,
         UNCHANGED <<contractView, hasPing, secondsLeft, running>>,
         misled \subseteq misled'
  PROVE  CountdownInv'
<1>1. pending' = p /\ queries' \in {queries, Ask(queries)}
      /\ (p = <<>> => queries' = Ask(queries))
  BY DEF Track
<1>2. Ask(queries) \in Seq(Reply) /\ (Usable => Ask(queries) # <<>>)
  BY AskIs DEF CountdownInv, WidgetOK
<1>3. Usable' = Usable
  BY DEF Usable, contractView
<1>4. WidgetOK'
  BY <1>1, <1>2 DEF CountdownInv, WidgetOK, contractView
<1>5. OneInterval'
  BY DEF CountdownInv, OneInterval, NotMisled
<1>6. Informed'
  BY <1>1, <1>2, <1>3 DEF Informed
<1>7. QED
  BY <1>4, <1>5, <1>6 DEF CountdownInv

LEMMA PendKeeps ==
  ASSUME CountdownInv, NEW e, Track(Append(pending, e)),
         UNCHANGED <<contractView, hasPing, secondsLeft, running>>,
         misled \subseteq misled'
  PROVE  CountdownInv'
<1>1. PICK S : pending \in Seq(S)
  BY DEF CountdownInv, WidgetOK, Sequence
<1>2. pending \in Seq(S \cup {e}) /\ Len(pending) \in Nat
  BY <1>1, SeqMonotonic, LenProperties
<1>3. /\ Append(pending, e) \in Seq(S \cup {e})
      /\ Len(Append(pending, e)) = Len(pending) + 1
  BY <1>2, AppendProperties
<1>4. Append(pending, e) # <<>>
  BY <1>2, <1>3, EmptySeq
<1>5. Sequence(Append(pending, e))
  BY <1>3 DEF Sequence
<1>6. QED
  BY <1>4, <1>5, TrackKeeps

(* A sequence of which elements are rewritten.                             *)
LEMMA RewrittenSequence ==
  ASSUME NEW s, Sequence(s), NEW g, DOMAIN g = DOMAIN s,
         g = [i \in DOMAIN g |-> g[i]]
  PROVE  Sequence(g) /\ (g = <<>> <=> s = <<>>)
<1>1. PICK S : s \in Seq(S)
  BY DEF Sequence
<1>2. Len(s) \in Nat /\ DOMAIN s = 1..Len(s)
  BY <1>1, LenProperties
<1> DEFINE T == {g[i] : i \in DOMAIN g}
<1>3. g \in [1..Len(s) -> T]
  BY <1>2
<1> HIDE DEF T
<1>4. g \in Seq(T) /\ Len(g) = Len(s)
  BY <1>2, <1>3, Rewritten
<1>5. QED
  BY <1>1, <1>4, EmptySeq DEF Sequence

(* A second: the widget's one interval counts down with the contract.      *)
LEMMA SecondKeeps ==
  ASSUME CountdownInv, Second \/ SecondHidden
  PROVE  CountdownInv'
<1> USE DEF CountdownInv
<1>1. /\ UNCHANGED <<pinged, variant, token, hasPing, queries, misled>>
      /\ Usable' = Usable /\ NotMisled' = NotMisled
  BY DEF Second, SecondHidden, widgetVars, Usable, NotMisled
<1>2. /\ remaining' = Tick(remaining)
      /\ \/ secondsLeft' = Countdown[1] /\ running' = Countdown[2]
         \/ secondsLeft' = secondsLeft /\ running' = running
  BY DEF Second, SecondHidden, widgetVars, Tick, WidgetOK
<1>3. /\ secondsLeft' \in Nat /\ running' \in Nat /\ remaining' \in Nat
      /\ running' <= running
      /\ remaining <= secondsLeft /\ running <= 1 => remaining' <= secondsLeft'
  BY <1>2 DEF Tick, Countdown, WidgetOK
<1>4. Sequence(pending') /\ (pending' = <<>> <=> pending = <<>>)
  <2>1. CASE pending' = pending
    BY <2>1 DEF WidgetOK
  <2>2. CASE Second
    <3> DEFINE g == [i \in DOMAIN pending |->
                       IF pending[i].status = "sent"
                       THEN [pending[i] EXCEPT !.status = "proposed"] ELSE pending[i]]
    <3>1. pending' = g
      BY <2>2 DEF Second
    <3>2. DOMAIN g = DOMAIN pending /\ g = [i \in DOMAIN g |-> g[i]]
      OBVIOUS
    <3> HIDE DEF g
    <3>3. Sequence(g) /\ (g = <<>> <=> pending = <<>>)
      BY <3>2, RewrittenSequence DEF WidgetOK
    <3>4. QED
      BY <3>1, <3>3
  <2>3. QED
    BY <2>1, <2>2 DEF SecondHidden, sendVars
<1>5. WidgetOK'
  BY <1>1, <1>3, <1>4 DEF WidgetOK
<1>6. OneInterval'
  BY <1>1, <1>3 DEF OneInterval, WidgetOK
<1>7. Informed'
  BY <1>1, <1>3, <1>4 DEF Informed, OneInterval, WidgetOK
<1>8. QED
  BY <1>5, <1>6, <1>7

(* An answer on its way is still a question under way.                     *)
LEMMA AnswerKeeps ==
  ASSUME CountdownInv, NEW i \in DOMAIN queries, AnswerQuery(i)
  PROVE  CountdownInv'
<1>1. TimeToPong(ReturnData) \in Reply
  BY DEF CountdownInv, WidgetOK, TimeToPong, RawTimeToPong, AbiTimeToPong,
         ServiceTimeToPong, ReturnData, Reply
<1>2. queries' = [queries EXCEPT ![i] = TimeToPong(ReturnData)]
  BY DEF AnswerQuery
<1>3. queries \in Seq(Reply) /\ i \in 1..Len(queries) /\ Len(queries) \in Nat
  BY LenProperties DEF CountdownInv, WidgetOK
<1>4. PICK r \in Reply : r = TimeToPong(ReturnData)
  BY <1>1
<1>5. /\ [queries EXCEPT ![i] = r] \in Seq(Reply)
      /\ Len([queries EXCEPT ![i] = r]) = Len(queries)
  BY <1>3, ExceptSeq
<1>6. queries' \in Seq(Reply) /\ queries' # <<>>
  BY <1>2, <1>3, <1>4, <1>5, EmptySeq
<1>7. QED
  BY <1>6 DEF AnswerQuery, contractVars, widgetVars, sendVars, CountdownInv, WidgetOK,
              OneInterval, Informed, NotMisled

(* The answer that is shown: it is right, or the widget is misled.         *)
LEMMA ShowKeeps ==
  ASSUME CountdownInv, NEW i \in DOMAIN queries, Arrive(i) \/ QueryFails(i)
  PROVE  CountdownInv'
<1> USE DEF CountdownInv
<1>1. /\ UNCHANGED <<contractView, pending>>
      /\ queries' = RemoveAt(queries, i) /\ misled \subseteq misled'
      /\ Usable' = Usable /\ (NotMisled' => NotMisled)
  BY DEF Arrive, QueryFails, contractVars, sendVars, contractView, Usable, NotMisled
<1>2. PICK r \in Reply \ {Unanswered} :
        /\ Show(r)
        /\ NotMisled' => r = TimeToPong(ReturnData) /\ ~(hasPing' /\ running' > 0)
  <2>1. CASE QueryFails(i)
    <3>1. Null \in Reply \ {Unanswered}
      BY DEF Reply, Null, Unanswered
    <3>2. QED
      BY <2>1, <3>1 DEF QueryFails, NotMisled
  <2>2. CASE Arrive(i)
    <3>1. queries[i] \in Reply \ {Unanswered}
      BY <2>2, ElementOfSeq, LenProperties DEF Arrive, WidgetOK
    <3>2. QED
      BY <2>2, <3>1 DEF Arrive, NotMisled
  <2>3. QED
    BY <2>1, <2>2
<1>3. /\ hasPing' = (r = Null)
      /\ secondsLeft' = IF r # Null /\ r > 0 THEN r ELSE secondsLeft
      /\ running' = IF hasPing # hasPing' /\ secondsLeft' # 0 THEN running + 1 ELSE running
  <2>1. r = Null \/ r \in Nat
    BY <1>2 DEF Reply
  <2>2. QED
    BY <1>2, <2>1 DEF Show, SetTimeRemaining, Intervals, Null
<1>4. /\ hasPing' \in BOOLEAN /\ secondsLeft' \in Nat /\ running' \in Nat
      /\ queries' \in Seq(Reply)
  <2>1. r = Null \/ r \in Nat
    BY <1>2 DEF Reply
  <2>2. queries' \in Seq(Reply)
    BY <1>1, RemoveAtKeeps DEF WidgetOK
  <2>3. QED
    BY <1>3, <2>1, <2>2 DEF WidgetOK
<1>5. WidgetOK'
  BY <1>1, <1>4 DEF WidgetOK, contractView
<1>6. OneInterval'
  <2> SUFFICES ASSUME NotMisled' PROVE running' <= (IF hasPing' THEN 0 ELSE 1)
    BY DEF OneInterval
  <2>1. /\ running \in Nat /\ running <= (IF hasPing THEN 0 ELSE 1)
        /\ ~(hasPing' /\ running' > 0)
    BY <1>1, <1>2 DEF OneInterval, WidgetOK
  <2>2. CASE hasPing'
    BY <1>4, <2>1, <2>2
  <2>3. CASE ~hasPing' /\ hasPing
    <3>1. running = 0
      BY <2>1, <2>3
    <3>2. running' \in {running, running + 1}
      BY <1>3
    <3>3. running' <= 1
      BY <3>1, <3>2
    <3>4. QED
      BY <2>3, <3>3
  <2>4. CASE ~hasPing' /\ ~hasPing
    <3>1. hasPing = hasPing'
      BY <1>4, <2>4 DEF WidgetOK
    <3>2. running' = running
      BY <1>3, <3>1
    <3>3. QED
      BY <2>1, <2>4, <3>2
  <2>5. QED
    BY <2>2, <2>3, <2>4
<1>7. Informed'
  <2>1. r = TimeToPong(ReturnData) => r = (IF pinged THEN remaining ELSE Null)
    BY DEF TimeToPong, RawTimeToPong, AbiTimeToPong, ServiceTimeToPong, ReturnData, WidgetOK
  <2>2. remaining # Null
    BY DEF WidgetOK, Null
  <2>3. QED
    BY <1>1, <1>2, <1>3, <2>1, <2>2 DEF Informed, WidgetOK, contractView
<1>8. QED
  BY <1>5, <1>6, <1>7

(* The contract executes what is pending; the widget will ask.             *)
LEMMA ExecuteKeeps ==
  ASSUME CountdownInv, NEW i \in DOMAIN pending, Execute(i)
  PROVE  CountdownInv'
<1> USE DEF CountdownInv
<1> DEFINE g == [pending EXCEPT ![i].status = "executed"]
<1>1. /\ pending' = g /\ UNCHANGED <<variant, token, hasPing, secondsLeft, running,
                                     queries, misled>>
  BY DEF Execute, widgetVars
<1>2. PICK S : pending \in Seq(S)
  BY DEF WidgetOK, Sequence
<1>3. DOMAIN g = DOMAIN pending /\ g = [k \in DOMAIN g |-> g[k]]
  BY <1>2
<1>4. pending # <<>>
  BY EmptySeq
<1> HIDE DEF g
<1>5. Sequence(g) /\ g # <<>>
  BY <1>3, <1>4, RewrittenSequence DEF WidgetOK
<1>6. pinged' \in BOOLEAN /\ remaining' \in Nat
  BY PingPongAssumption DEF Execute, contractVars, WidgetOK
<1>7. QED
  BY <1>1, <1>5, <1>6 DEF WidgetOK, OneInterval, Informed, NotMisled

LEMMA CompletedKeeps ==
  ASSUME CountdownInv, NEW i \in DOMAIN pending, Completed(i)
  PROVE  CountdownInv'
<1>1. PICK S : pending \in Seq(S)
  BY DEF CountdownInv, WidgetOK, Sequence
<1>2. Sequence(RemoveAt(pending, i))
  BY <1>1, RemoveAtKeeps DEF Sequence
<1>3. pending # <<>>
  BY EmptySeq
<1>4. QED
  BY <1>2, <1>3, TrackKeeps DEF Completed, contractVars, contractView, widgetVars

(* The page is loaded again: it asks at once.                              *)
LEMMA ReloadKeeps ==
  ASSUME CountdownInv, Reload
  PROVE  CountdownInv'
<1>1. Ask(<<>>) \in Seq(Reply) /\ (Usable => Ask(<<>>) # <<>>)
  BY EmptySeq, AskIs
<1>2. /\ queries' = Ask(<<>>) /\ hasPing' = TRUE /\ secondsLeft' = 0 /\ running' = 0
      /\ UNCHANGED <<contractView, pending>> /\ Usable' = Usable
  BY DEF Reload, contractVars, contractView, Usable
<1>3. WidgetOK'
  BY <1>1, <1>2 DEF CountdownInv, WidgetOK, contractView
<1>4. OneInterval'
  BY <1>2 DEF OneInterval
<1>5. Informed'
  BY <1>1, <1>2 DEF Informed
<1>6. QED
  BY <1>3, <1>4, <1>5 DEF CountdownInv

(* A step of the ping-pong widget or of the page around it.                *)
LEMMA PingPongCountdown ==
  ASSUME CountdownInv, PingPongStep
  PROVE  CountdownInv'
<1>1. CASE Second \/ SecondHidden
  BY <1>1, SecondKeeps
<1>2. CASE \E i \in DOMAIN queries : AnswerQuery(i) \/ Arrive(i) \/ QueryFails(i)
  BY <1>2, AnswerKeeps, ShowKeeps
<1>3. CASE Sign
  <2>1. misled \subseteq misled'
    BY <1>3 DEF Sign
  <2>2. UNCHANGED <<contractView, hasPing, secondsLeft, running>>
    BY <1>3 DEF Sign, contractVars, contractView, widgetVars
  <2>3. PICK e : Track(Append(pending, e))
    BY <1>3 DEF Sign
  <2>4. QED
    BY <2>1, <2>2, <2>3, PendKeeps
<1>4. CASE \E i \in DOMAIN pending : Execute(i) \/ Completed(i)
  BY <1>4, ExecuteKeeps, CompletedKeeps
<1>5. CASE RawPingAmount \/ AbiPingAmount \/ Cancel
  BY <1>5, NothingSeen DEF RawPingAmount, AbiPingAmount, Amount, Cancel, contractVars,
                           contractView, widgetVars, sendVars
<1>6. CASE ClickService
  BY <1>6, NothingSeen DEF ClickService, Click, contractVars, contractView, widgetVars
<1>7. CASE \E i \in DOMAIN building : HandOver(i) \/ Lost(i)
  BY <1>7, NothingSeen DEF HandOver, Lost, contractVars, contractView, widgetVars
<1>8. QED
  BY <1>1, <1>2, <1>3, <1>4, <1>5, <1>6, <1>7 DEF PingPongStep

LEMMA CountdownStep ==
  ASSUME CountdownInv, [DashboardNext]_dashboardVars
  PROVE  CountdownInv'
<1>1. CASE PingPongStep
  BY <1>1, PingPongCountdown
<1>2. CASE Clears
  BY <1>2, NothingSeen DEF Clears, ClickRaw, ClickAbi, Click, Fetched, contractVars,
                           contractView, widgetVars
<1>3. CASE \E status \in {"none", "signed", "cancelled"} : LoadPage(status)
  BY <1>3, ReloadKeeps DEF LoadPage
<1>4. CASE SignAuto \/ \E i \in DOMAIN sending : SendReturns(i)
  <2>1. Pend /\ UNCHANGED elsewhere
    BY <1>4 DEF SignAuto, SendReturns
  <2>2. misled \subseteq misled'
    BY <2>1 DEF Pend
  <2>3. UNCHANGED <<contractView, hasPing, secondsLeft, running>>
    BY <2>1 DEF elsewhere, contractVars, contractView, widgetVars
  <2>4. PICK e : Track(Append(pending, e))
    BY <2>1 DEF Pend
  <2>5. QED
    BY <2>2, <2>3, <2>4, PendKeeps
<1>5. CASE \/ SignAndAutoSendBatchTransactions
           \/ ExecuteBatchTransactions
           \/ ExecuteSwapAndLockTransactions
  BY <1>5, NothingSeen DEF SignAndAutoSendBatchTransactions, ExecuteBatchTransactions,
       ExecuteSwapAndLockTransactions, Start, elsewhere, contractVars, contractView, widgetVars
<1>6. CASE \E i \in DOMAIN asking : AutoAsked(i) \/ Asked(i) \/ AskFails(i)
  BY <1>6, NothingSeen DEF AutoAsked, Asked, AskFails, elsewhere, vars, contractVars,
       contractView, widgetVars, sendVars
<1>7. CASE \/ \E status \in {"signed", "cancelled"} : SignSession(status)
           \/ NothingSigned \/ CancelFlow \/ SendTransactions
           \/ \E i \in DOMAIN sending : SendFails(i)
  BY <1>7, NothingSeen DEF SignSession, NothingSigned, CancelFlow, SendTransactions,
       SendFails, elsewhere, vars, contractVars, contractView, widgetVars, sendVars
<1>8. CASE UNCHANGED dashboardVars
  BY <1>8, NothingSeen DEF dashboardVars, vars, contractVars, contractView, widgetVars, sendVars
<1>9. QED
  BY <1>1, <1>2, <1>3, <1>4, <1>5, <1>6, <1>7, <1>8 DEF DashboardNext

(* A widget that nothing is on its way to knows the deposit and does not   *)
(* count down ahead of the contract.                                       *)
THEOREM CountdownFollows == DashboardSpec => []CountdownInv
<1>1. DashboardInit => CountdownInv
  BY CountdownStarts
<1>2. CountdownInv /\ [DashboardNext]_dashboardVars => CountdownInv'
  BY CountdownStep
<1>3. QED
  BY <1>1, <1>2, PTL DEF DashboardSpec

(* Pong is not offered before the contract grants it, for any deadline and *)
(* any number of clicks, reloads and questions, unless an answer misled    *)
(* the widget or an interval outlived its deposit.                         *)
THEOREM PongNeverEarly == DashboardSpec => []PongNotEarly
<1>1. CountdownInv => PongNotEarly
  BY DEF CountdownInv, WidgetOK, Informed, NotMisled, PongNotEarly, PongEnabled,
         PongAllowed, HasPendingTransactions
<1>2. QED
  BY <1>1, CountdownFollows, PTL

----------------------------------------------------------------------------
(* The seconds shown until then run down: an interval counts whenever some *)
(* are left, however the deposits, reloads and hidden pages went, unless   *)
(* the widget was misled.                                                  *)
CountdownRuns == Usable /\ misled = {} /\ ~hasPing /\ secondsLeft > 0 => running > 0

(* Whether the countdown runs, while nothing misled the widget.  Without   *)
(* reloads one transaction follows the other, and the one before has been  *)
(* shown by then: so what the widget takes for the deposit is the one there*)
(* is, or none is and none can come before the widget has heard so.        *)
Counting ==
  /\ Len(pending) <= 1
  /\ ~hasPing /\ secondsLeft > 0 => running > 0
  /\ ~hasPing /\ pinged => remaining <= secondsLeft
  /\ ~hasPing /\ ~pinged => /\ pending = <<>> => queries # <<>>
                            /\ \A i \in DOMAIN pending : pending[i].status = "executed"
CountingInv == misled = {} /\ Usable => Counting

LEMMA CountingStarts ==
  ASSUME DashboardInit
  PROVE  CountingInv
<1>1. pending = <<>> /\ hasPing = TRUE
  BY DEF DashboardInit, Init
<1>2. Len(pending) <= 1
  BY <1>1, EmptySeq
<1>3. QED
  BY <1>1, <1>2 DEF CountingInv, Counting

LEMMA SequenceFacts ==
  ASSUME NEW s, Sequence(s)
  PROVE  /\ Len(s) \in Nat /\ DOMAIN s = 1..Len(s)
         /\ s = <<>> <=> Len(s) = 0
<1>1. PICK S : s \in Seq(S)
  BY DEF Sequence
<1>2. QED
  BY <1>1, LenProperties, EmptySeq

LEMMA CountingFrame ==
  ASSUME CountingInv, misled \subseteq misled',
         UNCHANGED <<contractView, hasPing, secondsLeft, running, queries, pending>>
  PROVE  CountingInv'
<1>1. Usable' = Usable /\ (misled' = {} => misled = {})
  BY DEF Usable, contractView
<1>2. Counting' = Counting
  BY DEF Counting, contractView
<1>3. QED
  BY <1>1, <1>2 DEF CountingInv

LEMMA TheOnlyOne ==
  ASSUME NEW s, Sequence(s), Len(s) <= 1, NEW i \in DOMAIN s
  PROVE  Len(s) = 1 /\ DOMAIN s = {1} /\ i = 1 /\ s # <<>>
<1>1. Len(s) \in Nat /\ DOMAIN s = 1..Len(s) /\ (s = <<>> <=> Len(s) = 0)
  BY SequenceFacts
<1>2. i \in 1..Len(s)
  BY <1>1
<1>3. Len(s) = 1
  BY <1>1, <1>2
<1>4. DOMAIN s = {1}
  BY <1>1, <1>3
<1>5. QED
  BY <1>1, <1>3, <1>4

(* A transaction that becomes pending with nothing on its way before it.   *)
LEMMA PendCounts ==
  ASSUME CountdownInv, CountingInv, NEW e, Track(Append(pending, e)),
         UNCHANGED <<contractView, hasPing, secondsLeft, running>>,
         misled' = {} => misled = {} /\ pending = <<>> /\ queries = <<>>
  PROVE  CountingInv'
<1> SUFFICES ASSUME misled' = {}, Usable'
             PROVE  Counting'
  BY DEF CountingInv
<1>1. misled = {} /\ pending = <<>> /\ queries = <<>> /\ Usable
  BY DEF Usable, contractView
<1>2. Counting /\ (hasPing \/ pinged)
  BY <1>1 DEF CountingInv, Counting
<1>3. Len(pending') <= 1
  <2>1. <<>> \in Seq({e}) /\ Len(<<>>) = 0
    BY EmptySeq
  <2>2. Len(Append(<<>>, e)) = 1
    BY <2>1, AppendProperties
  <2>3. QED
    BY <1>1, <2>2 DEF Track
<1>4. QED
  BY <1>2, <1>3 DEF Counting, contractView

LEMMA CompletedCounts ==
  ASSUME CountdownInv, CountingInv, NEW i \in DOMAIN pending, Completed(i)
  PROVE  CountingInv'
<1> SUFFICES ASSUME misled' = {}, Usable'
             PROVE  Counting'
  BY DEF CountingInv
<1>1. /\ UNCHANGED <<contractView, hasPing, secondsLeft, running, misled>>
      /\ Track(RemoveAt(pending, i))
  BY DEF Completed, contractVars, contractView, widgetVars
<1>2. Usable /\ Counting
  BY <1>1 DEF Usable, CountingInv, contractView
<1>3. PICK S : pending \in Seq(S)
  BY DEF CountdownInv, WidgetOK, Sequence
<1>4. Len(pending) = 1 /\ pending # <<>>
  <2>1. Len(pending) <= 1 /\ Sequence(pending)
    BY <1>2 DEF Counting, CountdownInv, WidgetOK
  <2>2. QED
    BY <2>1, TheOnlyOne
<1>5. RemoveAt(pending, i) = <<>>
  <2>1. RemoveAt(pending, i) \in Seq(S) /\ Len(RemoveAt(pending, i)) = 0
    BY <1>3, <1>4, RemoveAtKeeps
  <2>2. QED
    BY <2>1, EmptySeq
<1>6. pending' = <<>> /\ queries' = Ask(queries)
  BY <1>1, <1>4, <1>5 DEF Track
<1>7. queries' # <<>>
  BY <1>2, <1>6, AskIs DEF CountdownInv, WidgetOK
<1>8. Len(pending') <= 1 /\ DOMAIN pending' = {}
  BY <1>6, EmptySeq
<1>9. QED
  BY <1>1, <1>2, <1>7, <1>8 DEF Counting, contractView

(* A ping is executed only while the widget offers one.                    *)
LEMMA ExecuteCounts ==
  ASSUME CountdownInv, CountingInv, NEW i \in DOMAIN pending, Execute(i)
  PROVE  CountingInv'
<1> SUFFICES ASSUME misled' = {}, Usable'
             PROVE  Counting'
  BY DEF CountingInv
<1> DEFINE g == [pending EXCEPT ![i].status = "executed"]
<1>1. /\ UNCHANGED <<variant, token, hasPing, secondsLeft, running, queries, misled>>
      /\ pending' = g /\ pending[i].status = "proposed"
      /\ \/ UNCHANGED <<pinged, remaining>>
         \/ pinged' = TRUE /\ ~pinged
         \/ pinged' = FALSE
  BY DEF Execute, widgetVars, contractVars
<1>2. Usable /\ Counting
  BY <1>1 DEF Usable, CountingInv
<1>3. Sequence(pending) /\ Len(pending) <= 1
  BY <1>2 DEF Counting, CountdownInv, WidgetOK
<1>4. DOMAIN pending = {1} /\ i = 1
  BY <1>3, TheOnlyOne
<1>5. Len(g) = 1 /\ DOMAIN g = {1} /\ g # <<>> /\ g[1].status = "executed"
  <2>1. DOMAIN g = DOMAIN pending /\ g = [k \in DOMAIN g |-> g[k]]
    OBVIOUS
  <2>2. g[1] = [pending[1] EXCEPT !.status = "executed"]
    BY <1>4
  <2> HIDE DEF g
  <2>3. Sequence(g) /\ DOMAIN g = {1}
    BY <1>3, <1>4, <2>1, RewrittenSequence
  <2>4. Len(g) \in Nat /\ DOMAIN g = 1..Len(g) /\ (g = <<>> <=> Len(g) = 0)
    BY <2>3, SequenceFacts
  <2>5. Len(g) = 1
    BY <2>3, <2>4
  <2>6. g[1].status = "executed"
    BY <2>2
  <2>7. QED
    BY <2>3, <2>4, <2>5, <2>6
<1> HIDE DEF g
<1>6. hasPing \/ pinged
  BY <1>1, <1>2, <1>4 DEF Counting
<1>7. QED
  BY <1>1, <1>2, <1>5, <1>6 DEF Counting

LEMMA SecondCounts ==
  ASSUME CountdownInv, CountingInv, Second \/ SecondHidden
  PROVE  CountingInv'
<1> SUFFICES ASSUME misled' = {}, Usable'
             PROVE  Counting'
  BY DEF CountingInv
<1>1. /\ UNCHANGED <<pinged, variant, token, hasPing, queries, misled>>
      /\ remaining' = Tick(remaining)
      /\ \/ secondsLeft' = Countdown[1] /\ running' = Countdown[2]
         \/ secondsLeft' = secondsLeft /\ running' = running
  BY DEF Second, SecondHidden, widgetVars, Tick, CountdownInv, WidgetOK
<1>2. Usable /\ Counting
  BY <1>1 DEF Usable, CountingInv
<1>3. running <= 1
  BY <1>1 DEF CountdownInv, OneInterval, NotMisled, WidgetOK
<1>4. /\ remaining \in Nat /\ secondsLeft \in Nat /\ running \in Nat
  BY DEF CountdownInv, WidgetOK
<1>5. /\ secondsLeft > 0 /\ running > 0 => (secondsLeft' > 0 => running' > 0)
      /\ secondsLeft' > 0 => secondsLeft > 0
      /\ remaining <= secondsLeft => remaining' <= secondsLeft'
  BY <1>1, <1>3, <1>4 DEF Tick, Countdown
<1>6. /\ Len(pending') = Len(pending) /\ DOMAIN pending' = DOMAIN pending
      /\ pending' = <<>> <=> pending = <<>>
      /\ \A i \in DOMAIN pending : pending[i].status = "executed"
                                     => pending'[i].status = "executed"
  <2>1. CASE pending' = pending
    BY <2>1
  <2>2. CASE Second
    <3> DEFINE g == [i \in DOMAIN pending |->
                       IF pending[i].status = "sent"
                       THEN [pending[i] EXCEPT !.status = "proposed"] ELSE pending[i]]
    <3>1. pending' = g
      BY <2>2 DEF Second
    <3>2. DOMAIN g = DOMAIN pending /\ g = [i \in DOMAIN g |-> g[i]]
      OBVIOUS
    <3>3. \A i \in DOMAIN pending : pending[i].status = "executed" => g[i] = pending[i]
      OBVIOUS
    <3> HIDE DEF g
    <3>4. Sequence(pending) /\ Sequence(g) /\ (g = <<>> <=> pending = <<>>)
      BY <3>2, RewrittenSequence DEF CountdownInv, WidgetOK
    <3>5. Len(g) = Len(pending)
      BY <3>2, <3>4, SequenceFacts
    <3>6. QED
      BY <3>1, <3>2, <3>3, <3>4, <3>5
  <2>3. QED
    BY <2>1, <2>2 DEF SecondHidden, sendVars
<1>7. QED
  BY <1>1, <1>2, <1>5, <1>6 DEF Counting

LEMMA AnswerCounts ==
  ASSUME CountdownInv, CountingInv, NEW i \in DOMAIN queries, AnswerQuery(i)
  PROVE  CountingInv'
<1> SUFFICES ASSUME misled' = {}, Usable'
             PROVE  Counting'
  BY DEF CountingInv
<1>1. /\ UNCHANGED <<contractView, hasPing, secondsLeft, running, pending, misled>>
      /\ queries' = [queries EXCEPT ![i] = TimeToPong(ReturnData)]
  BY DEF AnswerQuery, contractVars, contractView, widgetVars, sendVars
<1>2. Usable /\ Counting
  BY <1>1 DEF Usable, CountingInv, contractView
<1>3. queries' # <<>>
  <2>1. DOMAIN queries' = DOMAIN queries
    BY <1>1
  <2>2. QED
    BY <2>1, EmptySeq
<1>4. QED
  BY <1>1, <1>2, <1>3 DEF Counting, contractView

(* An answer starts the interval of a deposit the widget did not know of;  *)
(* that of the one it knows is running.                                    *)
LEMMA ShowCounts ==
  ASSUME CountdownInv, CountingInv, NEW i \in DOMAIN queries, Arrive(i) \/ QueryFails(i)
  PROVE  CountingInv'
<1> SUFFICES ASSUME misled' = {}, Usable'
             PROVE  Counting'
  BY DEF CountingInv
<1>1. UNCHANGED <<contractView, pending>> /\ misled = {}
  BY DEF Arrive, QueryFails, contractVars, sendVars, contractView
<1>2. Usable /\ Counting
  BY <1>1 DEF Usable, CountingInv, contractView
<1> DEFINE r == IF pinged THEN remaining ELSE Null
<1>3. Show(r)
  <2>1. Arrive(i) /\ queries[i] = TimeToPong(ReturnData)
    BY DEF Arrive, QueryFails
  <2>2. TimeToPong(ReturnData) = r
    BY DEF TimeToPong, RawTimeToPong, AbiTimeToPong, ServiceTimeToPong, ReturnData,
           CountdownInv, WidgetOK
  <2>3. QED
    BY <2>1, <2>2 DEF Arrive
<1>4. remaining \in Nat /\ secondsLeft \in Nat /\ running \in Nat
      /\ pinged \in BOOLEAN /\ hasPing \in BOOLEAN
  BY DEF CountdownInv, WidgetOK
<1>5. /\ hasPing' = ~pinged
      /\ secondsLeft' = IF pinged /\ remaining > 0 THEN remaining ELSE secondsLeft
      /\ running' = IF hasPing # hasPing' /\ secondsLeft' # 0 THEN running + 1 ELSE running
  <2>1. SetTimeRemaining(r).canPing = ~pinged
        /\ SetTimeRemaining(r).timeRemaining = IF pinged THEN remaining ELSE 0
    BY <1>4 DEF SetTimeRemaining, Null
  <2>2. QED
    BY <1>3, <1>4, <2>1 DEF Show, Intervals
<1>6. ~hasPing' => pinged
  BY <1>5
<1>7. ~hasPing' => remaining <= secondsLeft'
  BY <1>4, <1>5, <1>6
<1>8. ~hasPing' /\ secondsLeft' > 0 => running' > 0
  <2> SUFFICES ASSUME ~hasPing', secondsLeft' > 0
               PROVE  running' > 0
    OBVIOUS
  <2>1. CASE hasPing
    <3>1. hasPing # hasPing'
      BY <2>1
    <3>2. secondsLeft' # 0
      BY <1>4
    <3>3. running' = running + 1
      BY <1>5, <3>1, <3>2
    <3>4. QED
      BY <1>4, <3>3
  <2>2. CASE ~hasPing
    <3>1. running' = running
      BY <1>4, <1>5, <2>2
    <3>2. secondsLeft > 0
      BY <1>2, <1>4, <1>5, <1>6, <2>2 DEF Counting
    <3>3. QED
      BY <1>2, <2>2, <3>1, <3>2 DEF Counting
  <2>3. QED
    BY <2>1, <2>2
<1>9. QED
  BY <1>1, <1>2, <1>6, <1>7, <1>8 DEF Counting, contractView

LEMMA ReloadCounts ==
  ASSUME CountdownInv, Reload
  PROVE  CountingInv'
<1>1. Len(pending) \in Nat
  BY SequenceFacts DEF CountdownInv, WidgetOK
<1>2. misled' = {} => Len(pending') <= 1
  BY <1>1 DEF Reload
<1>3. hasPing' = TRUE
  BY DEF Reload
<1>4. QED
  BY <1>2, <1>3 DEF CountingInv, Counting

LEMMA CountingStep ==
  ASSUME CountdownInv, CountingInv, [DashboardNext]_dashboardVars
  PROVE  CountingInv'
<1>1. CASE Second \/ SecondHidden
  BY <1>1, SecondCounts
<1>2. CASE \E i \in DOMAIN queries : AnswerQuery(i) \/ Arrive(i) \/ QueryFails(i)
  BY <1>2, AnswerCounts, ShowCounts
<1>3. CASE \E i \in DOMAIN pending : Execute(i) \/ Completed(i)
  BY <1>3, ExecuteCounts, CompletedCounts
<1>4. CASE Sign \/ SignAuto \/ \E i \in DOMAIN sending : SendReturns(i)
  <2>1. UNCHANGED <<contractView, hasPing, secondsLeft, running>>
    BY <1>4 DEF Sign, SignAuto, SendReturns, elsewhere, contractVars, contractView, widgetVars
  <2>2. misled' = {} => misled = {} /\ pending = <<>> /\ queries = <<>>
    BY <1>4 DEF Sign, SignAuto, SendReturns, Pend, HasPendingTransactions
  <2>3. PICK e : Track(Append(pending, e))
    BY <1>4 DEF Sign, SignAuto, SendReturns, Pend
  <2>4. QED
    BY <2>1, <2>2, <2>3, PendCounts
<1>5. CASE \E status \in {"none", "signed", "cancelled"} : LoadPage(status)
  BY <1>5, ReloadCounts DEF LoadPage
<1>6. CASE \/ RawPingAmount \/ AbiPingAmount \/ Cancel
           \/ ClickRaw \/ ClickAbi \/ ClickService
           \/ \E i \in DOMAIN building : HandOver(i) \/ Lost(i) \/ Fetched(i)
  BY <1>6, CountingFrame DEF RawPingAmount, AbiPingAmount, Amount, Cancel, ClickRaw, ClickAbi,
       ClickService, Click, HandOver, Lost, Fetched, contractVars, contractView, widgetVars,
       sendVars
<1>7. CASE \/ SignAndAutoSendBatchTransactions
           \/ ExecuteBatchTransactions
           \/ ExecuteSwapAndLockTransactions
  BY <1>7, CountingFrame DEF SignAndAutoSendBatchTransactions, ExecuteBatchTransactions,
       ExecuteSwapAndLockTransactions, Start, elsewhere, contractVars, contractView, widgetVars
<1>8. CASE \E i \in DOMAIN asking : AutoAsked(i) \/ Asked(i) \/ AskFails(i)
  BY <1>8, CountingFrame DEF AutoAsked, Asked, AskFails, elsewhere, vars, contractVars,
       contractView, widgetVars, sendVars
<1>9. CASE \/ \E status \in {"signed", "cancelled"} : SignSession(status)
           \/ NothingSigned \/ CancelFlow \/ SendTransactions
           \/ \E i \in DOMAIN sending : SendFails(i)
  BY <1>9, CountingFrame DEF SignSession, NothingSigned, CancelFlow, SendTransactions,
       SendFails, elsewhere, vars, contractVars, contractView, widgetVars, sendVars
<1>10. CASE UNCHANGED dashboardVars
  BY <1>10, CountingFrame DEF dashboardVars, vars, contractVars, contractView, widgetVars,
       sendVars
<1>11. QED
  BY <1>1, <1>2, <1>3, <1>4, <1>5, <1>6, <1>7, <1>8, <1>9, <1>10
     DEF DashboardNext, PingPongStep, Clears

(* The countdown of a deposit does not freeze, for any deadline and any    *)
(* number of clicks, reloads and questions (the part of PongOffered that is*)
(* no liveness).                                                           *)
THEOREM CountdownNeverFreezes == DashboardSpec => []CountdownRuns
<1>1. DashboardInit => CountingInv
  BY CountingStarts
<1>2. CountdownInv /\ CountingInv /\ [DashboardNext]_dashboardVars => CountingInv'
  BY CountingStep
<1>3. CountingInv => CountdownRuns
  BY DEF CountingInv, Counting, CountdownRuns
<1>4. QED
  BY <1>1, <1>2, <1>3, CountdownFollows, PTL DEF DashboardSpec
=============================================================================
