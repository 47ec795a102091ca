---------------------------- MODULE Outbox_proofs ----------------------------
(***************************************************************************)
(* The outbound mail queue, for every number of members, requests and      *)
(* passes, whatever the attempts cap, the timeouts and the faults.         *)
(***************************************************************************)
EXTENDS Outbox, FiniteSetTheorems, TLAPS

-----------------------------------------------------------------------------
(* Type correctness.                                                       *)

LEMMA AgeFacts == 0 \in Ages /\ (\A a \in Ages : Older(a) \in Ages)
  BY OutboxAssumption DEF Ages, Older

LEMMA IdleFacts ==
  /\ IdleDrainer \in DrainerState
  /\ \A S \in SUBSET Member : [IdleDrainer EXCEPT !.pc = "query", !.due = S] \in DrainerState
<1>1. 0 \in 0 .. MaxAttempts
  BY OutboxAssumption
<1>2. IdleDrainer \in DrainerState
  BY <1>1, AgeFacts DEF IdleDrainer, DrainerState
<1>3. ASSUME NEW x \in DrainerState, NEW S \in SUBSET Member
      PROVE  [x EXCEPT !.pc = "query", !.due = S] \in DrainerState
  BY DEF DrainerState
<1> QED
  BY <1>2, <1>3

LEMMA TypeInit == Init => TypeOK
<1>1. 0 \in 0 .. MaxAttempts /\ 0 \in 0 .. Retry /\ 0 \in 0 .. MaxFaults
  BY OutboxAssumption
<1>2. NoMail \in Mail
  BY <1>1, AgeFacts DEF NoMail, Mail
<1>3. Init => mail \in [Member -> Mail] /\ drainer \in [Drainer -> DrainerState]
  BY <1>2, IdleFacts DEF Init
<1>4. Init => sent \in [Member -> Nat] /\ request \in [Request -> SUBSET Member]
  BY DEF Init, NoMember
<1> QED
  BY <1>1, <1>3, <1>4 DEF Init, TypeOK

LEMMA TypeRequests ==
  ASSUME TypeOK, NEW r \in Request
  PROVE  /\ \A m \in Member : Enqueues(r, m) \/ (\E votes \in BOOLEAN : SignsUp(r, m, votes)) => TypeOK'
         /\ RequestDies(r) => TypeOK'
<1>1. ASSUME NEW m \in Member, NEW votes \in BOOLEAN, SignsUp(r, m, votes) PROVE TypeOK'
  BY <1>1 DEF SignsUp, TypeOK, drainVars
<1>2. ASSUME NEW m \in Member, Enqueues(r, m) PROVE TypeOK'
  BY <1>2 DEF Enqueues, TypeOK, drainVars, NoMember, Mail
<1>3. ASSUME RequestDies(r) PROVE TypeOK'
  BY <1>3, OutboxAssumption DEF RequestDies, TypeOK, drainVars, NoMember, Fault
<1> QED
  BY <1>1, <1>2, <1>3

LEMMA TypeStartPass == ASSUME TypeOK, NEW d \in Drainer, StartPass(d) PROVE TypeOK'
<1>1. ASSUME NEW m \in Member PROVE Reaped(m) \in Mail
  <2>1. mail[m] \in Mail /\ 0 \in Ages
    BY AgeFacts DEF TypeOK
  <2> DEFINE st == IF mail[m].attempts >= MaxAttempts THEN "FAILED" ELSE "PENDING"
  <2>2. st \in {"PENDING", "SENDING"} \cup Final
    BY DEF Final
  <2>3. Reaped(m) = [mail[m] EXCEPT !.state = st, !.age = 0]
    BY DEF Reaped
  <2> HIDE DEF st
  <2> QED
    BY <2>1, <2>2, <2>3 DEF Mail
<1>2. mail' \in [Member -> Mail]
  BY <1>1 DEF StartPass, TypeOK
<1>3. drainer' \in [Drainer -> DrainerState]
  BY IdleFacts DEF StartPass, Becomes, TypeOK
<1> QED
  BY <1>2, <1>3 DEF StartPass, TypeOK, listVars

LEMMA TypePass ==
  ASSUME TypeOK, NEW d \in Drainer,
         Queries(d) \/ MarkRaises(d) \/ EndsPass(d) \/ PassDies(d)
  PROVE  TypeOK'
<1>1. drainer[d] \in DrainerState
  BY DEF TypeOK
<1>2. ASSUME NEW x \in DrainerState PROVE [drainer EXCEPT ![d] = x] \in [Drainer -> DrainerState]
  BY DEF TypeOK
<1>3. NextMail(d) \in DrainerState
  <2>1. 0 \in 0 .. MaxAttempts
    BY OutboxAssumption
  <2> QED
    BY <1>1, <2>1 DEF NextMail, DrainerState
<1>4. CASE Queries(d)
  <2>1. [drainer[d] EXCEPT !.pc = "next", !.todo = {n \in Member : IsDue(d, n)}] \in DrainerState
    BY <1>1 DEF DrainerState
  <2> QED
    BY <1>2, <1>4, <2>1 DEF Queries, Becomes, TypeOK, listVars
<1>5. CASE MarkRaises(d)
  BY <1>2, <1>3, <1>5, OutboxAssumption DEF MarkRaises, Becomes, Fault, TypeOK, listVars
<1>6. CASE EndsPass(d) \/ PassDies(d)
  <2>1. Released(d) \in Drainer \cup {Nobody}
    BY DEF Released, TypeOK
  <2>2. faults' \in 0 .. MaxFaults
    BY <1>6, OutboxAssumption DEF EndsPass, PassDies, Fault, TypeOK
  <2> QED
    BY <1>2, <1>6, <2>1, <2>2, IdleFacts DEF EndsPass, PassDies, Becomes, TypeOK, listVars
<1> QED
  BY <1>4, <1>5, <1>6

LEMMA TypeMail ==
  ASSUME TypeOK, NEW d \in Drainer, NEW m \in Member,
         \/ Claims(d, m) \/ Refreshes(d, m) \/ Sends(d, m)
         \/ SendRaises(d, m) \/ RaisesBehind(d, m)
  PROVE  TypeOK'
<1>1. drainer[d] \in DrainerState /\ mail[m] \in Mail
  BY DEF TypeOK
<1>2. ASSUME NEW x \in DrainerState PROVE [drainer EXCEPT ![d] = x] \in [Drainer -> DrainerState]
  BY DEF TypeOK
<1>3. CASE Claims(d, m)
  <2>1. drainer[d].todo \ {m} \in SUBSET Member /\ drainer[d].began \in Ages
    BY <1>1 DEF DrainerState
  <2>2. ASSUME ClaimWins(m) PROVE Claimed(d, m) \in Mail
    <3>1. mail[m].attempts + 1 \in 0 .. MaxAttempts
      BY <1>1, <2>2, OutboxAssumption DEF ClaimWins, Mail
    <3> QED
      BY <1>1, <2>1, <3>1 DEF Claimed, Mail
  <2>3. mail' \in [Member -> Mail]
    BY <1>3, <2>2 DEF Claims, TypeOK
  <2>4. [drainer[d] EXCEPT !.pc = "refresh", !.todo = @ \ {m}, !.cur = {m}, !.claimed = TRUE]
          \in DrainerState
    BY <1>1, <2>1 DEF DrainerState
  <2>5. [drainer[d] EXCEPT !.todo = @ \ {m}] \in DrainerState
    BY <1>1, <2>1 DEF DrainerState
  <2>6. drainer' \in [Drainer -> DrainerState]
    BY <1>2, <1>3, <2>4, <2>5 DEF Claims, Becomes
  <2> QED
    BY <1>3, <2>3, <2>6 DEF Claims, TypeOK, listVars
<1>4. CASE Refreshes(d, m)
  <2>1. mail[m].attempts \in 0 .. MaxAttempts
    BY <1>1 DEF Mail
  <2>2. [drainer[d] EXCEPT !.pc = "send", !.fence = mail[m].attempts] \in DrainerState
    BY <1>1, <2>1 DEF DrainerState
  <2> QED
    BY <1>2, <1>4, <2>2 DEF Refreshes, Becomes, TypeOK, listVars
<1>5. CASE Sends(d, m) \/ SendRaises(d, m) \/ RaisesBehind(d, m)
  <2>1. /\ [drainer[d] EXCEPT !.pc = "mark"] \in DrainerState
        /\ [drainer[d] EXCEPT !.pc = "fail"] \in DrainerState
    BY <1>1 DEF DrainerState
  <2>2. drainer' \in [Drainer -> DrainerState]
    BY <1>2, <1>5, <2>1 DEF Sends, SendRaises, RaisesBehind, OnError, Becomes
  <2>3. sent' \in [Member -> Nat]
    BY <1>5 DEF Sends, SendRaises, RaisesBehind, TypeOK
  <2>4. faults' \in 0 .. MaxFaults
    BY <1>5, OutboxAssumption DEF Sends, SendRaises, RaisesBehind, Fault, TypeOK
  <2> QED
    BY <1>5, <2>2, <2>3, <2>4 DEF Sends, SendRaises, RaisesBehind, TypeOK, listVars
<1> QED
  BY <1>3, <1>4, <1>5

(* What a mark and a recorded failure leave in the row.                    *)
LEMMA MailClosed ==
  ASSUME TypeOK, NEW d \in Drainer, NEW m \in Member, Marks(d, m) \/ Records(d, m)
  PROVE  /\ \A n \in Member \ {m} : mail'[n] = mail[n]
         /\ mail'[m] \in Mail
         /\ mail'[m].attempts = mail[m].attempts
         /\ mail'[m] = mail[m] \/ HoldsClaim(d, m)
         /\ mail'[m] = mail[m] \/ mail'[m].state \in {"PENDING"} \cup Final
         /\ mail'[m].state = "PENDING" /\ mail'[m] # mail[m] => mail[m].attempts < MaxAttempts
  BY OutboxAssumption, AgeFacts DEF Marks, Records, HoldsClaim, TypeOK, Mail, Final, DrainerState

LEMMA TypeClose ==
  ASSUME TypeOK, NEW d \in Drainer, NEW m \in Member, Marks(d, m) \/ Records(d, m)
  PROVE  TypeOK'
<1>1. NextMail(d) \in DrainerState
  <2>1. 0 \in 0 .. MaxAttempts /\ drainer[d] \in DrainerState
    BY OutboxAssumption DEF TypeOK
  <2> QED
    BY <2>1 DEF NextMail, DrainerState
<1>2. drainer' \in [Drainer -> DrainerState]
  BY <1>1 DEF Marks, Records, Becomes, TypeOK
<1>3. mail' \in [Member -> Mail]
  <2>1. DOMAIN mail' = Member /\ mail' = [n \in Member |-> mail'[n]]
    BY DEF Marks, Records, TypeOK
  <2> QED
    BY <2>1, MailClosed DEF TypeOK
<1> QED
  BY <1>2, <1>3 DEF Marks, Records, TypeOK, listVars

LEMMA TypeTick == ASSUME TypeOK, Tick PROVE TypeOK'
<1>1. ASSUME NEW m \in Member PROVE mail'[m] \in Mail
  <2>1. mail[m] \in Mail
    BY DEF TypeOK
  <2> DEFINE t == IF mail[m].wait = 0 THEN 0 ELSE mail[m].wait - 1
             a == IF mail[m].state = "SENDING" THEN Older(mail[m].age) ELSE mail[m].age
  <2>2. t \in 0 .. Retry /\ a \in Ages
    BY <2>1, AgeFacts, OutboxAssumption DEF Mail
  <2>3. mail'[m] = [mail[m] EXCEPT !.wait = t, !.age = a]
    BY DEF Tick
  <2> HIDE DEF t, a
  <2> QED
    BY <2>1, <2>2, <2>3 DEF Mail
<1>2. ASSUME NEW d \in Drainer PROVE drainer'[d] \in DrainerState
  BY AgeFacts DEF Tick, TypeOK, DrainerState
<1> QED
  BY <1>1, <1>2 DEF Tick, TypeOK, listVars

LEMMA TypeClears == ASSUME TypeOK, ClearsDead \/ ClearsLive PROVE TypeOK'
  BY OutboxAssumption DEF ClearsDead, ClearsLive, Fault, TypeOK, listVars

LEMMA TypeNext == TypeOK /\ [Next]_vars => TypeOK'
<1> SUFFICES ASSUME TypeOK, [Next]_vars PROVE TypeOK'
  OBVIOUS
<1>1. CASE UNCHANGED vars
  BY <1>1 DEF TypeOK, vars
<1>2. CASE Next
  <2>1. ASSUME NEW r \in Request, NEW m \in Member,
               Enqueues(r, m) \/ \E votes \in BOOLEAN : SignsUp(r, m, votes)
        PROVE  TypeOK'
    BY <2>1, TypeRequests
  <2>2. ASSUME NEW r \in Request, RequestDies(r) PROVE TypeOK'
    BY <2>2, TypeRequests
  <2>3. ASSUME NEW d \in Drainer, NEW m \in Member,
               \/ Claims(d, m) \/ Refreshes(d, m) \/ Sends(d, m) \/ SendRaises(d, m)
               \/ RaisesBehind(d, m) \/ Marks(d, m) \/ Records(d, m)
        PROVE  TypeOK'
    BY <2>3, TypeMail, TypeClose
  <2>4. ASSUME NEW d \in Drainer,
               StartPass(d) \/ Queries(d) \/ EndsPass(d) \/ MarkRaises(d) \/ PassDies(d)
        PROVE  TypeOK'
    BY <2>4, TypeStartPass, TypePass
  <2> QED
    BY <1>2, <2>1, <2>2, <2>3, <2>4, TypeTick, TypeClears DEF Next, Steps
<1> QED
  BY <1>1, <1>2

(* The rows of the waitlist and the queue, the passes, the lock and the    *)
(* counters keep their types, whatever dies.                               *)
THEOREM TypeCorrect == Spec => []TypeOK
<1> QED
  BY TypeInit, TypeNext, PTL DEF Spec

-----------------------------------------------------------------------------
(* What a step does to the rows: the frame the invariants below rest on.   *)

(* Nothing but a claim, a mark, a recorded failure, a reap and an enqueue  *)
(* changes a row's state or attempts.                                      *)
RowStays(m) == mail'[m].state = mail[m].state /\ mail'[m].attempts = mail[m].attempts

RowEnqueued(m) == mail[m].state = "none" /\ mail'[m].state = "PENDING"
                  /\ mail'[m].attempts = mail[m].attempts

RowReaped(m) == (\E d \in Drainer : StartPass(d)) /\ mail[m].state = "SENDING" /\ mail'[m].attempts = mail[m].attempts
                /\ mail'[m].state = IF mail[m].attempts >= MaxAttempts THEN "FAILED" ELSE "PENDING"

RowClaimed(m) == ClaimWins(m) /\ mail'[m].state = "SENDING"
                 /\ mail'[m].attempts = mail[m].attempts + 1 /\ \E d \in Drainer : Claims(d, m)

RowMarked(m) == mail[m].state = "SENDING" /\ mail'[m].attempts = mail[m].attempts
                /\ mail'[m].state = "SENT" /\ \E d \in Drainer : Marks(d, m)

RowFailed(m) == (\E d \in Drainer : Records(d, m)) /\ mail[m].state = "SENDING" /\ mail'[m].attempts = mail[m].attempts
                /\ mail'[m].state = IF mail[m].attempts >= MaxAttempts THEN "FAILED" ELSE "PENDING"

LEMMA RowSteps ==
  ASSUME TypeOK, [Next]_vars, NEW n \in Member
  PROVE  \/ RowStays(n) \/ RowEnqueued(n) \/ RowReaped(n)
         \/ RowClaimed(n) \/ RowMarked(n) \/ RowFailed(n)
<1> USE DEF RowStays
<1>0. mail[n] \in Mail
  BY DEF TypeOK
<1>1. ASSUME NEW m \in Member, NEW r \in Request, Enqueues(r, m)
      PROVE  RowStays(n) \/ RowEnqueued(n)
  BY <1>1 DEF Enqueues, RowEnqueued, TypeOK, Mail
<1>2. ASSUME NEW d \in Drainer, StartPass(d) PROVE RowStays(n) \/ RowReaped(n)
  BY <1>0, <1>2 DEF StartPass, Reaped, RowReaped, Mail
<1>3. ASSUME NEW d \in Drainer, NEW m \in Member, Claims(d, m)
      PROVE  RowStays(n) \/ RowClaimed(n)
  <2>1. CASE ClaimWins(m) /\ n = m
    <3>1. mail'[n] = Claimed(d, m)
      BY <1>3, <2>1 DEF Claims, TypeOK
    <3> QED
      BY <1>0, <1>3, <2>1, <3>1 DEF Claimed, RowClaimed, Mail
  <2>2. CASE ~(ClaimWins(m) /\ n = m)
    BY <1>3, <2>2 DEF Claims, TypeOK
  <2> QED
    BY <2>1, <2>2
<1>4. ASSUME NEW d \in Drainer, NEW m \in Member, Marks(d, m)
      PROVE  RowStays(n) \/ RowMarked(n)
  <2>1. CASE HoldsClaim(d, m) /\ n = m
    <3>1. mail'[n] = [mail[n] EXCEPT !.state = "SENT", !.age = 0]
      BY <1>4, <2>1 DEF Marks, TypeOK
    <3> QED
      BY <1>0, <1>4, <2>1, <3>1 DEF HoldsClaim, RowMarked, Mail
  <2>2. CASE ~(HoldsClaim(d, m) /\ n = m)
    BY <1>4, <2>2 DEF Marks, TypeOK
  <2> QED
    BY <2>1, <2>2
<1>5. ASSUME NEW d \in Drainer, NEW m \in Member, Records(d, m)
      PROVE  RowStays(n) \/ RowFailed(n)
  <2>1. CASE HoldsClaim(d, m) /\ n = m
    <3>1. mail'[n] = IF drainer[d].fence >= MaxAttempts
                     THEN [mail[n] EXCEPT !.state = "FAILED", !.age = 0]
                     ELSE [mail[n] EXCEPT !.state = "PENDING", !.age = 0, !.wait = Retry]
      BY <1>5, <2>1 DEF Records, TypeOK
    <3> QED
      BY <1>0, <1>5, <2>1, <3>1 DEF HoldsClaim, RowFailed, Mail
  <2>2. CASE ~(HoldsClaim(d, m) /\ n = m)
    BY <1>5, <2>2 DEF Records, TypeOK
  <2> QED
    BY <2>1, <2>2
<1>6. ASSUME Tick PROVE RowStays(n)
  BY <1>0, <1>6 DEF Tick, Mail
<1>7. ASSUME mail' = mail PROVE RowStays(n)
  BY <1>7
<1>8. CASE UNCHANGED vars
  BY <1>7, <1>8 DEF vars
<1>9. CASE Next
  <2>1. ASSUME NEW r \in Request, RequestDies(r) \/ \E m \in Member, v \in BOOLEAN : SignsUp(r, m, v)
        PROVE  mail' = mail
    BY <2>1 DEF RequestDies, SignsUp
  <2>2. ASSUME NEW d \in Drainer,
               \/ Queries(d) \/ EndsPass(d) \/ MarkRaises(d) \/ PassDies(d)
               \/ \E m \in Member : Refreshes(d, m) \/ Sends(d, m) \/ SendRaises(d, m) \/ RaisesBehind(d, m)
        PROVE  mail' = mail
    BY <2>2 DEF Queries, EndsPass, MarkRaises, PassDies, Refreshes, Sends, SendRaises, RaisesBehind
  <2>3. ASSUME ClearsDead \/ ClearsLive PROVE mail' = mail
    BY <2>3 DEF ClearsDead, ClearsLive
  <2> QED
    BY <1>1, <1>2, <1>3, <1>4, <1>5, <1>6, <1>7, <1>9, <2>1, <2>2, <2>3 DEF Next, Steps
<1> QED
  BY <1>8, <1>9

LEMMA FinalRowStays == TypeOK /\ [Next]_vars =>
  \A m \in Member : mail[m].state \in Final => mail'[m].state = mail[m].state
  BY RowSteps DEF RowStays, RowEnqueued, RowReaped, RowClaimed, RowMarked, RowFailed, ClaimWins, Final

(* SENT and FAILED stay, whatever a pass that lost its claim still does:   *)
(* complete_sent and fail look at the state and the attempts they write.   *)
THEOREM FinalRowsStay == Spec => FinalStays
<1>1. TypeOK /\ [Next]_vars =>
        [\A m \in Member : mail[m].state \in Final => mail'[m].state = mail[m].state]_vars
  BY FinalRowStays
<1> QED
  BY <1>1, TypeCorrect, PTL DEF Spec, FinalStays

-----------------------------------------------------------------------------
(* A row at the cap is not PENDING.                                        *)

(* Waiting for its first claim or another one, a row has attempts left.    *)
AttemptsLeft == \A m \in Member : mail[m].state \in {"none", "PENDING"} => mail[m].attempts < MaxAttempts

LEMMA AttemptsLeftInit == Init => AttemptsLeft
  BY OutboxAssumption DEF Init, NoMail, AttemptsLeft

LEMMA AttemptsLeftNext == TypeOK /\ AttemptsLeft /\ [Next]_vars => AttemptsLeft'
<1> SUFFICES ASSUME TypeOK, AttemptsLeft, [Next]_vars, NEW m \in Member,
                    mail'[m].state \in {"none", "PENDING"}
             PROVE  mail'[m].attempts < MaxAttempts
  BY DEF AttemptsLeft
<1>1. mail[m].attempts \in 0 .. MaxAttempts
  BY DEF TypeOK, Mail
<1> QED
  BY <1>1, RowSteps, OutboxAssumption
  DEF AttemptsLeft, RowStays, RowEnqueued, RowReaped, RowClaimed, RowMarked, RowFailed

(* No row waits at the attempts cap, where neither a drain nor the query   *)
(* for failures would meet it (reap_stale, fail).                          *)
THEOREM NoneIsStuck == Spec => []NoneStuck
<1>1. AttemptsLeft => NoneStuck
  BY DEF AttemptsLeft, NoneStuck
<1> QED
  BY <1>1, AttemptsLeftInit, AttemptsLeftNext, TypeCorrect, PTL DEF Spec

-----------------------------------------------------------------------------
(* A member on the list has a mail, a request at work, or a dead request.  *)

LEMMA WelcomeSignUps ==
  ASSUME TypeOK, WelcomeFollows, NEW r \in Request
  PROVE  /\ \A m \in Member, v \in BOOLEAN : SignsUp(r, m, v) => WelcomeFollows'
         /\ \A m \in Member : Enqueues(r, m) => WelcomeFollows'
         /\ RequestDies(r) => WelcomeFollows'
<1>1. ASSUME NEW m \in Member, NEW v \in BOOLEAN, SignsUp(r, m, v) PROVE WelcomeFollows'
  <2> SUFFICES ASSUME NEW n \in listed', mail'[n].state = "none", n \notin lost'
               PROVE  \E q \in Request : request'[q] = {n}
    BY DEF WelcomeFollows
  <2>1. mail' = mail /\ lost' = lost /\ listed' = listed \cup {m} /\ request[r] = NoMember
    BY <1>1 DEF SignsUp
  <2>2. CASE n \in listed
    <3>1. PICK q \in Request : request[q] = {n}
      BY <2>1, <2>2 DEF WelcomeFollows
    <3>2. q # r
      BY <2>1, <3>1 DEF NoMember
    <3> QED
      BY <1>1, <3>1, <3>2 DEF SignsUp, TypeOK
  <2>3. CASE n \notin listed
    BY <1>1, <2>1, <2>3 DEF SignsUp, First, TypeOK
  <2> QED
    BY <2>2, <2>3
<1>2. ASSUME NEW m \in Member, Enqueues(r, m) PROVE WelcomeFollows'
  <2> SUFFICES ASSUME NEW n \in listed, mail'[n].state = "none", n \notin lost
               PROVE  \E q \in Request : request'[q] = {n}
    BY <1>2 DEF WelcomeFollows, Enqueues
  <2>1. mail'[m].state # "none"
    BY <1>2 DEF Enqueues, TypeOK, Mail
  <2>2. n # m /\ n \in Member
    BY <2>1 DEF TypeOK
  <2>3. mail[n].state = "none"
    BY <1>2, <2>2 DEF Enqueues, TypeOK
  <2>4. PICK q \in Request : request[q] = {n}
    BY <2>3 DEF WelcomeFollows
  <2>5. q # r
    BY <1>2, <2>2, <2>4 DEF Enqueues
  <2> QED
    BY <1>2, <2>4, <2>5 DEF Enqueues, TypeOK
<1>3. ASSUME RequestDies(r) PROVE WelcomeFollows'
  <2> SUFFICES ASSUME NEW n \in listed, mail[n].state = "none", n \notin lost'
               PROVE  \E q \in Request : request'[q] = {n}
    BY <1>3 DEF WelcomeFollows, RequestDies
  <2>1. n \notin lost /\ n \notin request[r]
    BY <1>3 DEF RequestDies
  <2>2. PICK q \in Request : request[q] = {n}
    BY <2>1 DEF WelcomeFollows
  <2>3. q # r
    BY <2>1, <2>2
  <2> QED
    BY <1>3, <2>2, <2>3 DEF RequestDies, TypeOK
<1> QED
  BY <1>1, <1>2, <1>3

LEMMA WelcomeNext == TypeOK /\ WelcomeFollows /\ [Next]_vars => WelcomeFollows'
<1> SUFFICES ASSUME TypeOK, WelcomeFollows, [Next]_vars PROVE WelcomeFollows'
  OBVIOUS
<1>1. ASSUME listed' = listed, request' = request, lost' = lost PROVE WelcomeFollows'
  <2>1. \A m \in Member : mail[m].state # "none" => mail'[m].state # "none"
    BY RowSteps DEF RowStays, RowEnqueued, RowReaped, RowClaimed, RowMarked, RowFailed
  <2> QED
    BY <1>1, <2>1 DEF WelcomeFollows, TypeOK
<1>2. CASE UNCHANGED vars
  BY <1>1, <1>2 DEF vars
<1>3. CASE Next
  <2>1. ASSUME NEW r \in Request,
               \/ RequestDies(r)
               \/ \E m \in Member : Enqueues(r, m) \/ \E v \in BOOLEAN : SignsUp(r, m, v)
        PROVE  WelcomeFollows'
    BY <2>1, WelcomeSignUps
  <2>2. ASSUME NEW d \in Drainer,
               StartPass(d) \/ Queries(d) \/ EndsPass(d) \/ MarkRaises(d) \/ PassDies(d)
        PROVE  UNCHANGED listVars
    BY <2>2 DEF StartPass, Queries, EndsPass, MarkRaises, PassDies
  <2>3. ASSUME NEW d \in Drainer, NEW m \in Member,
               \/ Claims(d, m) \/ Refreshes(d, m) \/ Sends(d, m) \/ SendRaises(d, m)
               \/ RaisesBehind(d, m) \/ Marks(d, m) \/ Records(d, m)
        PROVE  UNCHANGED listVars
    BY <2>3 DEF Claims, Refreshes, Sends, SendRaises, RaisesBehind, Marks, Records
  <2>4. ASSUME ClearsDead \/ ClearsLive \/ Tick PROVE UNCHANGED listVars
    BY <2>4 DEF ClearsDead, ClearsLive, Tick
  <2>5. UNCHANGED listVars => WelcomeFollows'
    BY <1>1 DEF listVars
  <2> QED
    BY <1>3, <2>1, <2>2, <2>3, <2>4, <2>5 DEF Next, Steps
<1> QED
  BY <1>2, <1>3

(* Only a request that dies between its two writes costs a welcome mail.   *)
THEOREM WelcomeAlwaysFollows == Spec => []WelcomeFollows
<1>1. Init => WelcomeFollows
  BY DEF Init, WelcomeFollows
<1> QED
  BY <1>1, WelcomeNext, TypeCorrect, PTL DEF Spec

-----------------------------------------------------------------------------
(* Every mail out has an attempt of its own.                               *)

(* The passes that have claimed m and not sent it: each holds an attempt.  *)
Unsent(m) == {d \in Drainer : drainer[d].pc \in {"refresh", "send"} /\ m \in drainer[d].cur}

AttemptsCover == \A m \in Member : sent[m] + Cardinality(Unsent(m)) <= mail[m].attempts

LEMMA UnsentFinite == ASSUME NEW m \in Member
                      PROVE  IsFiniteSet(Unsent(m)) /\ Cardinality(Unsent(m)) \in Nat
  BY OutboxAssumption, FS_Subset, FS_CardinalityType DEF Unsent

(* A step that sends nothing and takes no mail in hand.                    *)
Idles(m) == sent'[m] = sent[m] /\ Unsent(m)' \subseteq Unsent(m)

LEMMA CoverIdles ==
  ASSUME TypeOK, TypeOK', AttemptsCover, [Next]_vars, NEW m \in Member, Idles(m)
  PROVE  sent'[m] + Cardinality(Unsent(m)') <= mail'[m].attempts
<1>1. mail'[m].attempts >= mail[m].attempts
  <2>1. mail[m].attempts \in Int
    BY OutboxAssumption DEF TypeOK, Mail
  <2> QED
    BY <2>1, RowSteps DEF RowStays, RowEnqueued, RowReaped, RowClaimed, RowMarked, RowFailed
<1>2. IsFiniteSet(Unsent(m)) /\ Cardinality(Unsent(m)) \in Nat
  BY UnsentFinite
<1>3. Cardinality(Unsent(m)') <= Cardinality(Unsent(m)) /\ Cardinality(Unsent(m)') \in Nat
  BY <1>2, FS_Subset, FS_CardinalityType DEF Idles
<1>4. sent[m] \in Nat /\ mail[m].attempts \in Int /\ mail'[m].attempts \in Int
  BY OutboxAssumption DEF TypeOK, Mail
<1>5. sent[m] + Cardinality(Unsent(m)) <= mail[m].attempts
  BY DEF AttemptsCover
<1> QED
  BY <1>1, <1>2, <1>3, <1>4, <1>5 DEF Idles

LEMMA CoverSends ==
  ASSUME TypeOK, AttemptsCover, NEW d \in Drainer, NEW m \in Member,
         Sends(d, m) \/ RaisesBehind(d, m)
  PROVE  sent'[m] + Cardinality(Unsent(m)') <= mail'[m].attempts
<1>1. Unsent(m)' = Unsent(m) \ {d} /\ d \in Unsent(m)
  BY DEF Sends, RaisesBehind, OnError, Becomes, Unsent, TypeOK, DrainerState
<1>2. IsFiniteSet(Unsent(m)) /\ Cardinality(Unsent(m)) \in Nat
  BY UnsentFinite
<1>3. Cardinality(Unsent(m)') = Cardinality(Unsent(m)) - 1
  BY <1>1, <1>2, FS_RemoveElement
<1>4. sent'[m] = sent[m] + 1 /\ mail' = mail
  BY DEF Sends, RaisesBehind, TypeOK
<1>5. sent[m] \in Nat /\ mail[m].attempts \in Int
  BY OutboxAssumption DEF TypeOK, Mail
<1>6. sent[m] + Cardinality(Unsent(m)) <= mail[m].attempts
  BY DEF AttemptsCover
<1> QED
  BY <1>2, <1>3, <1>4, <1>5, <1>6

LEMMA CoverClaims ==
  ASSUME TypeOK, AttemptsCover, NEW d \in Drainer, NEW m \in Member, Claims(d, m), ClaimWins(m)
  PROVE  sent'[m] + Cardinality(Unsent(m)') <= mail'[m].attempts
<1>1. Unsent(m)' = Unsent(m) \cup {d} /\ d \notin Unsent(m)
  <2> DEFINE x == [drainer[d] EXCEPT !.pc = "refresh", !.todo = @ \ {m}, !.cur = {m}, !.claimed = TRUE]
  <2>1. drainer' = [drainer EXCEPT ![d] = x] /\ drainer[d].pc = "next"
    BY DEF Claims, Becomes
  <2>2. x.pc = "refresh" /\ x.cur = {m}
    BY DEF TypeOK, DrainerState
  <2> HIDE DEF x
  <2> QED
    BY <2>1, <2>2 DEF Unsent, TypeOK
<1>2. IsFiniteSet(Unsent(m)) /\ Cardinality(Unsent(m)) \in Nat
  BY UnsentFinite
<1>3. Cardinality(Unsent(m)') = Cardinality(Unsent(m)) + 1
  BY <1>1, <1>2, FS_AddElement
<1>4. mail'[m].attempts = mail[m].attempts + 1 /\ sent' = sent
  <2>1. mail'[m] = Claimed(d, m) /\ sent' = sent /\ mail[m] \in Mail
    BY DEF Claims, TypeOK
  <2> QED
    BY <2>1 DEF Claimed, Mail
<1>5. sent[m] \in Nat /\ mail[m].attempts \in Int
  BY OutboxAssumption DEF TypeOK, Mail
<1>6. sent[m] + Cardinality(Unsent(m)) <= mail[m].attempts
  BY DEF AttemptsCover
<1> QED
  BY <1>2, <1>3, <1>4, <1>5, <1>6

LEMMA IdlesWhen ==
  ASSUME TypeOK, NEW m \in Member, sent'[m] = sent[m], NEW d \in Drainer, NEW x, Becomes(d, x),
         x.pc \in {"refresh", "send"} /\ m \in x.cur => d \in Unsent(m)
  PROVE  Idles(m)
  BY DEF Idles, Unsent, Becomes, TypeOK

(* Every step idles, sends or claims, as far as m goes.                    *)
LEMMA SendSteps ==
  ASSUME TypeOK, [Next]_vars, NEW m \in Member
  PROVE  \/ Idles(m)
         \/ \E d \in Drainer : \/ Sends(d, m) \/ RaisesBehind(d, m)
                               \/ Claims(d, m) /\ ClaimWins(m)
<1> USE DEF Unsent
<1>1. ASSUME NEW d \in Drainer, NEW n \in Member, Claims(d, n), ~(n = m /\ ClaimWins(m)) PROVE Idles(m)
  <2>1. sent' = sent /\ drainer[d].pc = "next" /\ drainer[d] \in DrainerState
    BY <1>1 DEF Claims, TypeOK
  <2>2. CASE ClaimWins(n)
    <3> DEFINE x == [drainer[d] EXCEPT !.pc = "refresh", !.todo = @ \ {n}, !.cur = {n}, !.claimed = TRUE]
    <3>1. Becomes(d, x)
      BY <1>1, <2>2 DEF Claims
    <3>2. x.cur = {n}
      BY <2>1 DEF DrainerState
    <3> HIDE DEF x
    <3> QED
      BY <1>1, <2>1, <2>2, <3>1, <3>2, IdlesWhen
  <2>3. CASE ~ClaimWins(n)
    <3> DEFINE x == [drainer[d] EXCEPT !.todo = @ \ {n}]
    <3>1. Becomes(d, x)
      BY <1>1, <2>3 DEF Claims
    <3>2. x.pc = "next"
      BY <2>1 DEF DrainerState
    <3> HIDE DEF x
    <3> QED
      BY <2>1, <3>1, <3>2, IdlesWhen
  <2> QED
    BY <2>2, <2>3
<1>2. ASSUME NEW d \in Drainer, NEW n \in Member, n # m, Sends(d, n) \/ RaisesBehind(d, n) PROVE Idles(m)
  <2>1. sent'[m] = sent[m] /\ drainer[d].pc = "send" /\ drainer[d] \in DrainerState
    BY <1>2 DEF Sends, RaisesBehind, TypeOK
  <2>2. PICK pc \in {"mark", "fail"} : Becomes(d, [drainer[d] EXCEPT !.pc = pc])
    BY <1>2 DEF Sends, RaisesBehind, OnError
  <2>3. [drainer[d] EXCEPT !.pc = pc].pc = pc
    BY <2>1 DEF DrainerState
  <2> QED
    BY <2>1, <2>2, <2>3, IdlesWhen
<1>3. ASSUME NEW d \in Drainer, NEW n \in Member,
             Refreshes(d, n) \/ SendRaises(d, n) \/ Marks(d, n) \/ Records(d, n)
      PROVE  Idles(m)
  <2>1. sent' = sent /\ drainer[d] \in DrainerState
    BY <1>3 DEF Refreshes, SendRaises, Marks, Records, TypeOK
  <2>2. CASE Refreshes(d, n)
    <3> DEFINE x == [drainer[d] EXCEPT !.pc = "send", !.fence = mail[n].attempts]
    <3>1. Becomes(d, x) /\ drainer[d].pc = "refresh"
      BY <2>2 DEF Refreshes
    <3>2. x.cur = drainer[d].cur
      BY <2>1 DEF DrainerState
    <3> HIDE DEF x
    <3> QED
      BY <2>1, <3>1, <3>2, IdlesWhen
  <2>3. CASE SendRaises(d, n)
    <3>1. [drainer[d] EXCEPT !.pc = "fail"].pc = "fail"
      BY <2>1 DEF DrainerState
    <3> QED
      BY <2>1, <2>3, <3>1, IdlesWhen DEF SendRaises, OnError
  <2>4. CASE Marks(d, n) \/ Records(d, n)
    <3>1. NextMail(d).pc = "next"
      BY <2>1 DEF NextMail, DrainerState
    <3> QED
      BY <2>1, <2>4, <3>1, IdlesWhen DEF Marks, Records
  <2> QED
    BY <1>3, <2>2, <2>3, <2>4
<1>4. ASSUME NEW d \in Drainer,
             StartPass(d) \/ Queries(d) \/ EndsPass(d) \/ MarkRaises(d) \/ PassDies(d)
      PROVE  Idles(m)
  <2>1. sent' = sent /\ drainer[d] \in DrainerState
    BY <1>4 DEF StartPass, Queries, EndsPass, MarkRaises, PassDies, TypeOK
  <2>2. PICK x : Becomes(d, x) /\ x.pc \notin {"refresh", "send"}
    <3>1. StartPass(d) => \E S : Becomes(d, [IdleDrainer EXCEPT !.pc = "query", !.due = S])
      BY DEF StartPass
    <3>2. \A S : [IdleDrainer EXCEPT !.pc = "query", !.due = S].pc = "query"
      BY DEF IdleDrainer
    <3>3. Queries(d) => \E S : Becomes(d, [drainer[d] EXCEPT !.pc = "next", !.todo = S])
      BY DEF Queries
    <3>4. \A S : [drainer[d] EXCEPT !.pc = "next", !.todo = S].pc = "next"
      BY <2>1 DEF DrainerState
    <3>5. EndsPass(d) \/ PassDies(d) => Becomes(d, IdleDrainer)
      BY DEF EndsPass, PassDies
    <3>6. MarkRaises(d) => Becomes(d, NextMail(d))
      BY DEF MarkRaises
    <3>7. NextMail(d).pc = "next" /\ IdleDrainer.pc = "idle"
      BY <2>1 DEF NextMail, IdleDrainer, DrainerState
    <3> QED
      BY <1>4, <3>1, <3>2, <3>3, <3>4, <3>5, <3>6, <3>7
  <2> QED
    BY <2>1, <2>2, IdlesWhen
<1>5. ASSUME Tick PROVE Idles(m)
  BY <1>5 DEF Tick, Idles, TypeOK, DrainerState
<1>6. ASSUME drainer' = drainer, sent' = sent PROVE Idles(m)
  BY <1>6 DEF Idles
<1>7. CASE UNCHANGED vars
  BY <1>6, <1>7 DEF vars
<1>8. CASE Next
  <2>1. ASSUME NEW r \in Request,
               \/ RequestDies(r)
               \/ \E n \in Member : Enqueues(r, n) \/ \E v \in BOOLEAN : SignsUp(r, n, v)
        PROVE  Idles(m)
    BY <1>6, <2>1 DEF RequestDies, Enqueues, SignsUp, drainVars
  <2>2. ASSUME ClearsDead \/ ClearsLive PROVE Idles(m)
    BY <1>6, <2>2 DEF ClearsDead, ClearsLive
  <2> HIDE DEF Unsent
  <2> QED
    BY <1>1, <1>2, <1>3, <1>4, <1>5, <1>8, <2>1, <2>2 DEF Next, Steps
<1> QED
  BY <1>7, <1>8

LEMMA AttemptsCoverNext == TypeOK /\ TypeOK' /\ AttemptsCover /\ [Next]_vars => AttemptsCover'
  BY SendSteps, CoverIdles, CoverSends, CoverClaims DEF AttemptsCover

LEMMA AttemptsCoverInit == Init => AttemptsCover
<1> SUFFICES ASSUME Init, NEW m \in Member PROVE sent[m] + Cardinality(Unsent(m)) <= mail[m].attempts
  BY DEF AttemptsCover
<1>1. Unsent(m) = {}
  BY DEF Init, IdleDrainer, Unsent
<1> QED
  BY <1>1, FS_EmptySet DEF Init, NoMail

(* Nobody is sent more mails than EMAIL_SEND_MAX_ATTEMPTS, whatever dies   *)
(* and however passes overlap: the claim counts, not the failure.          *)
THEOREM SentIsBounded == Spec => []SentWithinAttempts
<1>1. TypeOK /\ AttemptsCover => SentWithinAttempts
  <2> SUFFICES ASSUME TypeOK, AttemptsCover, NEW m \in Member PROVE sent[m] <= mail[m].attempts
    BY DEF SentWithinAttempts
  <2>1. sent[m] \in Nat /\ mail[m].attempts \in Int /\ Cardinality(Unsent(m)) \in Nat
    BY UnsentFinite, OutboxAssumption DEF TypeOK, Mail
  <2> QED
    BY <2>1 DEF AttemptsCover
<1> QED
  BY <1>1, AttemptsCoverInit, AttemptsCoverNext, TypeCorrect, PTL DEF Spec

-----------------------------------------------------------------------------
(* What a step does to a pass, and what it was told.                       *)
Holding == {"refresh", "send", "mark", "fail"}

PassStays(d) == /\ drainer'[d].pc = drainer[d].pc
                /\ drainer'[d].cur = drainer[d].cur
                /\ drainer'[d].fence = drainer[d].fence

PassLetsGo(d) == /\ drainer'[d].pc \notin Holding /\ drainer'[d].cur \subseteq drainer[d].cur
                 /\ drainer[d].pc \in Holding /\ faults' = faults =>
                      \E m \in Member : Marks(d, m) \/ Records(d, m)

PassClaims(d, m) == /\ Claims(d, m) /\ ClaimWins(m)
                    /\ drainer'[d].pc = "refresh" /\ drainer'[d].cur = {m}

PassKeeps(d, pc) == drainer'[d].pc = pc /\ drainer'[d].cur = drainer[d].cur

PassReads(d, m) == Refreshes(d, m) /\ PassKeeps(d, "send") /\ drainer'[d].fence = mail[m].attempts

PassSends(d, m) == Sends(d, m) /\ PassKeeps(d, "mark") /\ drainer'[d].fence = drainer[d].fence

PassRaises(d, m) == /\ SendRaises(d, m) \/ RaisesBehind(d, m)
                    /\ PassKeeps(d, "fail") /\ drainer'[d].fence = drainer[d].fence

LEMMA PassOwn ==
  ASSUME TypeOK, NEW d \in Drainer
  PROVE  /\ \A m \in Member : Claims(d, m) => IF ClaimWins(m) THEN PassClaims(d, m) ELSE PassLetsGo(d)
         /\ \A m \in Member : Refreshes(d, m) => PassReads(d, m)
         /\ \A m \in Member : Sends(d, m) => PassSends(d, m)
         /\ \A m \in Member : SendRaises(d, m) \/ RaisesBehind(d, m) => PassRaises(d, m)
         /\ \A m \in Member : Marks(d, m) \/ Records(d, m) => PassLetsGo(d)
         /\ StartPass(d) \/ Queries(d) \/ EndsPass(d) \/ MarkRaises(d) \/ PassDies(d) => PassLetsGo(d)
<1>1. drainer[d] \in DrainerState
  BY DEF TypeOK
<1>2. ASSUME NEW x, Becomes(d, x) PROVE drainer'[d] = x
  BY <1>2 DEF Becomes, TypeOK
<1>3. ASSUME NEW m \in Member, Claims(d, m) PROVE IF ClaimWins(m) THEN PassClaims(d, m) ELSE PassLetsGo(d)
  <2>1. CASE ClaimWins(m)
    <3>1. drainer'[d] = [drainer[d] EXCEPT !.pc = "refresh", !.todo = @ \ {m}, !.cur = {m}, !.claimed = TRUE]
      BY <1>2, <1>3, <2>1 DEF Claims
    <3>2. drainer'[d].pc = "refresh" /\ drainer'[d].cur = {m}
      BY <1>1, <3>1 DEF DrainerState
    <3> QED
      BY <1>3, <2>1, <3>2 DEF PassClaims
  <2>2. CASE ~ClaimWins(m)
    <3>1. drainer'[d] = [drainer[d] EXCEPT !.todo = @ \ {m}] /\ drainer[d].pc = "next"
      BY <1>2, <1>3, <2>2 DEF Claims
    <3> QED
      BY <1>1, <2>2, <3>1 DEF DrainerState, PassLetsGo, Holding
  <2> QED
    BY <2>1, <2>2
<1>4. ASSUME NEW m \in Member, Refreshes(d, m) PROVE PassReads(d, m)
  <2>1. drainer'[d] = [drainer[d] EXCEPT !.pc = "send", !.fence = mail[m].attempts]
    BY <1>2, <1>4 DEF Refreshes
  <2> QED
    BY <1>1, <1>4, <2>1 DEF PassReads, PassKeeps, DrainerState
<1>5. ASSUME NEW m \in Member, Sends(d, m) PROVE PassSends(d, m)
  <2>1. drainer'[d] = [drainer[d] EXCEPT !.pc = "mark"]
    BY <1>2, <1>5 DEF Sends
  <2> QED
    BY <1>1, <1>5, <2>1 DEF PassSends, PassKeeps, DrainerState
<1>6. ASSUME NEW m \in Member, SendRaises(d, m) \/ RaisesBehind(d, m) PROVE PassRaises(d, m)
  <2>1. drainer'[d] = [drainer[d] EXCEPT !.pc = "fail"]
    BY <1>2, <1>6 DEF SendRaises, RaisesBehind, OnError
  <2> QED
    BY <1>1, <1>6, <2>1 DEF PassRaises, PassKeeps, DrainerState
<1>7. NextMail(d).pc = "next" /\ NextMail(d).cur = {} /\ IdleDrainer.pc = "idle" /\ IdleDrainer.cur = {}
  BY <1>1 DEF NextMail, IdleDrainer, DrainerState
<1>8. ASSUME NEW m \in Member, Marks(d, m) \/ Records(d, m) PROVE PassLetsGo(d)
  <2>1. drainer'[d] = NextMail(d)
    BY <1>2, <1>8 DEF Marks, Records
  <2> QED
    BY <1>7, <1>8, <2>1 DEF PassLetsGo, Holding
<1>9. Fault => faults' # faults
  BY OutboxAssumption DEF Fault, TypeOK
<1>10. ASSUME StartPass(d) \/ Queries(d) \/ EndsPass(d) \/ MarkRaises(d) \/ PassDies(d) PROVE PassLetsGo(d)
  <2>1. CASE StartPass(d)
    <3>1. drainer'[d] = [IdleDrainer EXCEPT !.pc = "query", !.due = {m \in Member : mail[m].wait = 0}]
      BY <1>2, <2>1 DEF StartPass
    <3> QED
      BY <2>1, <3>1 DEF StartPass, IdleDrainer, PassLetsGo, Holding
  <2>2. CASE Queries(d)
    <3>1. drainer'[d] = [drainer[d] EXCEPT !.pc = "next", !.todo = {m \in Member : IsDue(d, m)}]
      BY <1>2, <2>2 DEF Queries
    <3> QED
      BY <1>1, <2>2, <3>1 DEF Queries, DrainerState, PassLetsGo, Holding
  <2>3. CASE EndsPass(d) \/ PassDies(d)
    BY <1>2, <1>7, <1>9, <2>3 DEF EndsPass, PassDies, PassLetsGo, Holding
  <2>4. CASE MarkRaises(d)
    BY <1>2, <1>7, <1>9, <2>4 DEF MarkRaises, PassLetsGo, Holding
  <2> QED
    BY <1>10, <2>1, <2>2, <2>3, <2>4
<1> QED
  BY <1>3, <1>4, <1>5, <1>6, <1>8, <1>10

LEMMA PassSteps ==
  ASSUME TypeOK, [Next]_vars, NEW d \in Drainer
  PROVE  \/ PassStays(d) \/ PassLetsGo(d)
         \/ \E m \in Member : PassClaims(d, m) \/ PassReads(d, m) \/ PassSends(d, m) \/ PassRaises(d, m)
<1>1. ASSUME NEW e \in Drainer, e # d, NEW x, Becomes(e, x) PROVE PassStays(d)
  BY <1>1 DEF Becomes, PassStays, TypeOK
<1>2. ASSUME Tick PROVE PassStays(d)
  BY <1>2 DEF Tick, PassStays, TypeOK, DrainerState
<1>3. ASSUME drainer' = drainer PROVE PassStays(d)
  BY <1>3 DEF PassStays
<1>4. CASE UNCHANGED vars
  BY <1>3, <1>4 DEF vars
<1>5. CASE Next
  <2>1. ASSUME NEW r \in Request,
               \/ RequestDies(r)
               \/ \E m \in Member : Enqueues(r, m) \/ \E v \in BOOLEAN : SignsUp(r, m, v)
        PROVE  drainer' = drainer
    BY <2>1 DEF RequestDies, Enqueues, SignsUp, drainVars
  <2>2. ASSUME ClearsDead \/ ClearsLive PROVE drainer' = drainer
    BY <2>2 DEF ClearsDead, ClearsLive
  <2>3. ASSUME NEW e \in Drainer, e # d,
               \/ StartPass(e) \/ Queries(e) \/ EndsPass(e) \/ MarkRaises(e) \/ PassDies(e)
               \/ \E m \in Member : \/ Claims(e, m) \/ Refreshes(e, m) \/ Sends(e, m) \/ SendRaises(e, m)
                                   \/ RaisesBehind(e, m) \/ Marks(e, m) \/ Records(e, m)
        PROVE  PassStays(d)
    <3>1. \E x : Becomes(e, x)
      BY <2>3 DEF StartPass, Queries, EndsPass, MarkRaises, PassDies, Claims, Refreshes, Sends,
                  SendRaises, RaisesBehind, Marks, Records
    <3> QED
      BY <1>1, <2>3, <3>1
  <2> QED
    BY <1>2, <1>3, <1>5, <2>1, <2>2, <2>3, PassOwn DEF Next, Steps
<1> QED
  BY <1>4, <1>5

LEMMA SentGrows == TypeOK /\ [Next]_vars => \A m \in Member : sent'[m] >= sent[m]
<1> SUFFICES ASSUME TypeOK, [Next]_vars, NEW m \in Member PROVE sent'[m] >= sent[m]
  OBVIOUS
<1>1. sent[m] \in Nat
  BY DEF TypeOK
<1>2. ASSUME NEW d \in Drainer, Sends(d, m) \/ RaisesBehind(d, m) PROVE sent'[m] = sent[m] + 1
  BY <1>2 DEF Sends, RaisesBehind, TypeOK
<1>3. ASSUME NEW d \in Drainer, Claims(d, m) PROVE sent'[m] = sent[m]
  BY <1>3 DEF Claims
<1>4. ASSUME Idles(m) PROVE sent'[m] = sent[m]
  BY <1>4 DEF Idles
<1> QED
  BY <1>1, <1>2, <1>3, <1>4, SendSteps

-----------------------------------------------------------------------------
(* A row is marked SENT behind a send.                                     *)
OneInHand == \A d \in Drainer : \A m, n \in drainer[d].cur : m = n

MarkBehindSend ==
  \A d \in Drainer : \A m \in Member : drainer[d].pc = "mark" /\ m \in drainer[d].cur => sent[m] > 0

LEMMA OneInHandNext == TypeOK /\ OneInHand /\ [Next]_vars => OneInHand'
<1> SUFFICES ASSUME TypeOK, OneInHand, [Next]_vars, NEW d \in Drainer
             PROVE  \A m, n \in drainer'[d].cur : m = n
  BY DEF OneInHand
<1>1. drainer'[d].cur \subseteq drainer[d].cur \/ \E m : drainer'[d].cur = {m}
  BY PassSteps DEF PassStays, PassLetsGo, PassClaims, PassReads, PassSends, PassRaises, PassKeeps
<1> QED
  BY <1>1 DEF OneInHand

LEMMA MarkBehindSendNext ==
  TypeOK /\ TypeOK' /\ OneInHand /\ MarkBehindSend /\ [Next]_vars => MarkBehindSend'
<1> SUFFICES ASSUME TypeOK, TypeOK', OneInHand, MarkBehindSend, [Next]_vars,
                    NEW d \in Drainer, NEW m \in Member,
                    drainer'[d].pc = "mark", m \in drainer'[d].cur
             PROVE  sent'[m] > 0
  BY DEF MarkBehindSend
<1>0. sent[m] \in Nat /\ sent'[m] \in Nat /\ sent'[m] >= sent[m]
  BY SentGrows DEF TypeOK
<1>1. CASE PassStays(d)
  BY <1>0, <1>1 DEF PassStays, MarkBehindSend
<1>2. CASE \E n \in Member : PassSends(d, n)
  <2>1. PICK n \in Member : PassSends(d, n)
    BY <1>2
  <2>2. n \in drainer[d].cur /\ m \in drainer[d].cur
    BY <2>1 DEF PassSends, PassKeeps, Sends
  <2>3. n = m
    BY <2>2 DEF OneInHand
  <2> QED
    BY <1>0, <2>1, <2>3 DEF PassSends, Sends, TypeOK
<1> QED
  BY <1>1, <1>2, PassSteps DEF PassLetsGo, Holding, PassClaims, PassReads, PassRaises, PassKeeps

LEMMA SentIsSentNext ==
  TypeOK /\ TypeOK' /\ MarkBehindSend /\ SentIsSent /\ [Next]_vars => SentIsSent'
<1> SUFFICES ASSUME TypeOK, TypeOK', MarkBehindSend, SentIsSent, [Next]_vars,
                    NEW m \in Member, mail'[m].state = "SENT"
             PROVE  sent'[m] > 0
  BY DEF SentIsSent
<1>0. sent[m] \in Nat /\ sent'[m] \in Nat /\ sent'[m] >= sent[m]
  BY SentGrows DEF TypeOK
<1>1. CASE mail[m].state = "SENT"
  BY <1>0, <1>1 DEF SentIsSent
<1>2. CASE RowMarked(m)
  BY <1>0, <1>2 DEF RowMarked, Marks, MarkBehindSend
<1> QED
  BY <1>1, <1>2, RowSteps DEF RowStays, RowEnqueued, RowReaped, RowClaimed, RowFailed

(* A row says SENT only if the server has the mail, though a pass may hold *)
(* another's fence (claim_due refreshes behind its compare-and-set).       *)
THEOREM MarkedIsSent == Spec => []SentIsSent
<1>1. Init => OneInHand /\ MarkBehindSend /\ SentIsSent
  BY DEF Init, IdleDrainer, NoMail, OneInHand, MarkBehindSend, SentIsSent
<1> QED
  BY <1>1, OneInHandNext, MarkBehindSendNext, SentIsSentNext, TypeCorrect, PTL DEF Spec

-----------------------------------------------------------------------------
(* Without a fault a mail goes out once: the lock keeps passes apart, and  *)
(* the one pass at work answers for every row that is SENDING.             *)
Calm == faults = 0
Alone == \A d \in Drainer : drainer[d].pc # "idle" => lock = d
InHand(d, m) == drainer[d].pc \in Holding /\ m \in drainer[d].cur

HeldRows ==
  \A d \in Drainer, m \in Member : InHand(d, m) =>
     /\ mail[m].state = "SENDING"
     /\ drainer[d].pc # "refresh" => drainer[d].fence = mail[m].attempts
     /\ drainer[d].pc # "mark" => sent[m] = 0
SendingIsHeld == \A m \in Member : mail[m].state = "SENDING" => \E d \in Drainer : InHand(d, m)
UnsentRows == \A m \in Member : mail[m].state \notin {"SENT", "SENDING"} => sent[m] = 0
OnceEach == \A m \in Member : sent[m] <= 1

CalmInv == Calm => Alone /\ HeldRows /\ SendingIsHeld /\ UnsentRows /\ OnceEach

LEMMA StaysCalm == TypeOK /\ [Next]_vars /\ Calm' => Calm /\ faults' = faults /\ ~Fault
<1>1. Fault => faults' = faults + 1
  BY DEF Fault
<1>2. TypeOK => faults \in Nat
  BY OutboxAssumption DEF TypeOK
<1>3. [Next]_vars => Fault \/ faults' = faults
  BY DEF Next, Steps, vars, RequestDies, Enqueues, SignsUp, StartPass, Queries, EndsPass, MarkRaises,
         PassDies, Claims, Refreshes, Sends, SendRaises, RaisesBehind, Marks, Records, ClearsDead,
         ClearsLive, Tick
<1> QED
  BY <1>1, <1>2, <1>3 DEF Calm

(* Who starts, ends or clears is the only one to move the lock.            *)
LEMMA LockSteps ==
  ASSUME TypeOK, [Next]_vars, ~Fault, NEW d \in Drainer, drainer'[d].pc # "idle"
  PROVE  \/ drainer[d].pc # "idle" /\ lock' = lock
         \/ StartPass(d)
         \/ \E e \in Drainer : e # d /\ (StartPass(e) \/ EndsPass(e))
         \/ ClearsDead
<1>1. drainer[d].pc = "idle" => StartPass(d) \/ PassStays(d) \/ drainer'[d].pc = "idle"
  <2> SUFFICES ASSUME drainer[d].pc = "idle", ~PassStays(d) PROVE StartPass(d) \/ drainer'[d].pc = "idle"
    OBVIOUS
  <2>1. ASSUME NEW e \in Drainer, e # d, NEW x, Becomes(e, x) PROVE PassStays(d)
    BY <2>1 DEF Becomes, PassStays, TypeOK
  <2>2. ASSUME drainer' = drainer PROVE PassStays(d)
    BY <2>2 DEF PassStays
  <2>3. ASSUME Tick PROVE PassStays(d)
    BY <2>3 DEF Tick, PassStays, TypeOK, DrainerState
  <2>4. ASSUME NEW e \in Drainer, e # d,
               \/ StartPass(e) \/ Queries(e) \/ EndsPass(e) \/ MarkRaises(e) \/ PassDies(e)
               \/ \E m \in Member : \/ Claims(e, m) \/ Refreshes(e, m) \/ Sends(e, m) \/ SendRaises(e, m)
                                   \/ RaisesBehind(e, m) \/ Marks(e, m) \/ Records(e, m)
        PROVE  PassStays(d)
    <3>1. \E x : Becomes(e, x)
      BY <2>4 DEF StartPass, Queries, EndsPass, MarkRaises, PassDies, Claims, Refreshes, Sends,
                  SendRaises, RaisesBehind, Marks, Records
    <3> QED
      BY <2>1, <2>4, <3>1
  <2>5. /\ ~(Queries(d) \/ EndsPass(d) \/ MarkRaises(d) \/ PassDies(d))
        /\ \A m \in Member : ~(\/ Claims(d, m) \/ Refreshes(d, m) \/ Sends(d, m) \/ SendRaises(d, m)
                               \/ RaisesBehind(d, m) \/ Marks(d, m) \/ Records(d, m))
    BY DEF Queries, EndsPass, MarkRaises, PassDies, Claims, Refreshes, Sends, SendRaises, RaisesBehind,
           Marks, Records
  <2>6. ASSUME NEW r \in Request,
               \/ RequestDies(r)
               \/ \E m \in Member : Enqueues(r, m) \/ \E v \in BOOLEAN : SignsUp(r, m, v)
        PROVE  drainer' = drainer
    BY <2>6 DEF RequestDies, Enqueues, SignsUp, drainVars
  <2>7. ASSUME ClearsDead \/ ClearsLive \/ UNCHANGED vars PROVE drainer' = drainer
    BY <2>7 DEF ClearsDead, ClearsLive, vars
  <2> QED
    BY <2>2, <2>3, <2>4, <2>5, <2>6, <2>7 DEF Next, Steps
<1>2. \/ lock' = lock \/ ClearsDead \/ \E e \in Drainer : StartPass(e) \/ EndsPass(e)
  BY DEF Next, Steps, vars, drainVars, RequestDies, Enqueues, SignsUp, Queries, MarkRaises,
        PassDies, Claims, Refreshes, Sends, SendRaises, RaisesBehind, Marks, Records, ClearsLive, Tick
<1>3. EndsPass(d) => drainer'[d].pc = "idle"
  BY DEF EndsPass, Becomes, IdleDrainer, TypeOK
<1>4. PassStays(d) => drainer[d].pc # "idle"
  BY DEF PassStays
<1> QED
  BY <1>1, <1>2, <1>3, <1>4

LEMMA AloneNext == ASSUME TypeOK, Alone, [Next]_vars, ~Fault PROVE Alone'
<1> SUFFICES ASSUME NEW d \in Drainer, drainer'[d].pc # "idle" PROVE lock' = d
  BY DEF Alone
<1>1. CASE drainer[d].pc # "idle" /\ lock' = lock
  BY <1>1 DEF Alone
<1>2. CASE StartPass(d)
  BY <1>2 DEF StartPass
<1>3. ASSUME NEW e \in Drainer, e # d, StartPass(e) \/ EndsPass(e) PROVE FALSE
  <2>1. drainer'[d] = drainer[d]
    BY <1>3 DEF StartPass, EndsPass, Becomes, TypeOK
  <2>2. lock = d
    BY <2>1 DEF Alone
  <2> QED
    BY <1>3, <2>2, OutboxAssumption DEF StartPass, EndsPass, MayStart, Alone
<1>4. ASSUME ClearsDead PROVE FALSE
  <2>1. drainer'[d] = drainer[d]
    BY <1>4 DEF ClearsDead
  <2> QED
    BY <1>4, <2>1 DEF Alone, ClearsDead
<1> QED
  BY <1>1, <1>2, <1>3, <1>4, LockSteps

(* While a pass has a mail in hand, no other acts.                         *)
LEMMA OthersIdle ==
  ASSUME TypeOK, Alone, NEW d \in Drainer, drainer[d].pc # "idle"
  PROVE  /\ \A e \in Drainer : ~StartPass(e)
         /\ \A e \in Drainer, m \in Member :
              \/ Claims(e, m) \/ Sends(e, m) \/ Marks(e, m) \/ Records(e, m) => e = d
<1>1. lock = d /\ lock # Nobody
  BY OutboxAssumption DEF Alone
<1> QED
  BY <1>1 DEF StartPass, MayStart, Claims, Sends, Marks, Records, Alone

LEMMA HeldRowsNext ==
  ASSUME TypeOK, TypeOK', OneInHand, Alone, HeldRows, UnsentRows, [Next]_vars, ~Fault
  PROVE  HeldRows'
<1> SUFFICES ASSUME NEW d \in Drainer, NEW m \in Member,
                    drainer'[d].pc \in Holding, m \in drainer'[d].cur
             PROVE  /\ mail'[m].state = "SENDING"
                    /\ drainer'[d].pc # "refresh" => drainer'[d].fence = mail'[m].attempts
                    /\ drainer'[d].pc # "mark" => sent'[m] = 0
  BY DEF HeldRows, InHand
<1>1. CASE PassStays(d)
  <2>1. InHand(d, m) /\ drainer[d].pc # "idle"
    BY <1>1 DEF InHand, PassStays, Holding
  <2>2. /\ mail[m].state = "SENDING"
        /\ drainer[d].pc # "refresh" => drainer[d].fence = mail[m].attempts
        /\ drainer[d].pc # "mark" => sent[m] = 0
    BY <2>1 DEF HeldRows
  <2>3. \A n \in Member : ~Sends(d, n) /\ ~Marks(d, n) /\ ~Records(d, n)
    BY <1>1, PassOwn DEF PassStays, PassSends, PassKeeps, PassLetsGo, Sends
  <2>4. RowStays(m)
    BY <2>1, <2>2, <2>3, RowSteps, OthersIdle
    DEF RowEnqueued, RowReaped, RowClaimed, ClaimWins, RowMarked, RowFailed
  <2>5. sent'[m] = sent[m]
    <3>1. ~\E e \in Drainer : Sends(e, m)
      BY <2>1, <2>3, OthersIdle
    <3>2. \A e \in Drainer : ~RaisesBehind(e, m) /\ (Claims(e, m) => sent' = sent)
      BY DEF RaisesBehind, Claims
    <3> QED
      BY <3>1, <3>2, SendSteps DEF Idles
  <2> QED
    BY <1>1, <2>2, <2>4, <2>5 DEF PassStays, RowStays
<1>2. ASSUME NEW n \in Member, PassClaims(d, n)
      PROVE  mail'[m].state = "SENDING" /\ sent'[m] = 0 /\ drainer'[d].pc = "refresh"
  <2>1. n = m /\ drainer'[d].pc = "refresh" /\ ClaimWins(m) /\ sent' = sent
    BY <1>2 DEF PassClaims, Claims
  <2>2. mail'[m] = Claimed(d, m) /\ mail[m] \in Mail
    BY <1>2, <2>1 DEF PassClaims, Claims, TypeOK
  <2> QED
    BY <2>1, <2>2 DEF Claimed, Mail, ClaimWins, UnsentRows
<1>3. ASSUME NEW n \in Member, PassReads(d, n) \/ PassSends(d, n) \/ PassRaises(d, n)
      PROVE  n = m /\ InHand(d, m) /\ mail' = mail
  <2>1. n \in drainer[d].cur /\ m \in drainer[d].cur /\ mail' = mail /\ drainer[d].pc \in Holding
    BY <1>3 DEF PassReads, PassSends, PassRaises, PassKeeps, Refreshes, Sends, SendRaises, RaisesBehind, Holding
  <2> QED
    BY <2>1 DEF OneInHand, InHand
<1>4. CASE \E n \in Member : PassReads(d, n)
  BY <1>3, <1>4 DEF PassReads, PassKeeps, Refreshes, HeldRows
<1>5. CASE \E n \in Member : PassSends(d, n)
  BY <1>3, <1>5 DEF PassSends, PassKeeps, Sends, HeldRows
<1>6. CASE \E n \in Member : PassRaises(d, n)
  BY <1>3, <1>6 DEF PassRaises, PassKeeps, SendRaises, RaisesBehind, HeldRows
<1> QED
  BY <1>1, <1>2, <1>4, <1>5, <1>6, PassSteps DEF PassLetsGo

LEMMA SendingIsHeldNext ==
  ASSUME TypeOK, OneInHand, Alone, HeldRows, SendingIsHeld, [Next]_vars, ~Fault, faults' = faults
  PROVE  SendingIsHeld'
<1> SUFFICES ASSUME NEW m \in Member, mail'[m].state = "SENDING"
             PROVE  \E d \in Drainer : InHand(d, m)'
  BY DEF SendingIsHeld
<1>1. CASE RowClaimed(m)
  <2>1. PICK d \in Drainer : Claims(d, m) /\ ClaimWins(m)
    BY <1>1 DEF RowClaimed
  <2>2. PassClaims(d, m)
    BY <2>1, PassOwn
  <2> QED
    BY <2>2 DEF PassClaims, InHand, Holding
<1>2. CASE RowStays(m)
  <2>1. mail[m].state = "SENDING"
    BY <1>2 DEF RowStays
  <2>2. PICK d \in Drainer : InHand(d, m)
    BY <2>1 DEF SendingIsHeld
  <2>3. ~\E n \in Member : Marks(d, n) \/ Records(d, n)
    <3> SUFFICES ASSUME NEW n \in Member, Marks(d, n) \/ Records(d, n) PROVE FALSE
      OBVIOUS
    <3>1. n = m /\ drainer[d].pc \in {"mark", "fail"}
      BY <2>2 DEF Marks, Records, InHand, OneInHand
    <3>2. HoldsClaim(d, m)
      BY <2>2, <3>1 DEF HeldRows, HoldsClaim
    <3>3. mail'[m].state # "SENDING"
      BY <3>1, <3>2 DEF Marks, Records, TypeOK, Mail
    <3> QED
      BY <3>3
  <2>4. ~PassLetsGo(d)
    BY <2>2, <2>3 DEF PassLetsGo, InHand
  <2>5. InHand(d, m)'
    <3>1. CASE PassStays(d)
      BY <2>2, <3>1 DEF PassStays, InHand
    <3>2. ASSUME NEW n \in Member, PassClaims(d, n) PROVE FALSE
      BY <2>2, <3>2 DEF PassClaims, Claims, InHand, Holding
    <3>3. ASSUME NEW n \in Member, PassReads(d, n) \/ PassSends(d, n) \/ PassRaises(d, n) PROVE InHand(d, m)'
      BY <2>2, <3>3 DEF PassReads, PassSends, PassRaises, PassKeeps, InHand, Holding
    <3> QED
      BY <2>4, <3>1, <3>2, <3>3, PassSteps
  <2> QED
    BY <2>5
<1> QED
  BY <1>1, <1>2, RowSteps DEF RowEnqueued, RowReaped, RowMarked, RowFailed

LEMMA UnsentRowsNext ==
  ASSUME TypeOK, Alone, HeldRows, SendingIsHeld, UnsentRows, OnceEach, [Next]_vars, ~Fault
  PROVE  UnsentRows' /\ OnceEach'
<1>1. ASSUME NEW m \in Member, NEW d \in Drainer, Sends(d, m)
      PROVE  mail[m].state = "SENDING" /\ mail' = mail /\ sent[m] = 0 /\ sent'[m] = sent[m] + 1
  BY <1>1 DEF Sends, HeldRows, InHand, Holding, TypeOK
<1>2. ASSUME NEW m \in Member, ~\E d \in Drainer : Sends(d, m) PROVE sent'[m] = sent[m]
  <2>1. \A e \in Drainer : ~RaisesBehind(e, m) /\ (Claims(e, m) => sent' = sent)
    BY DEF RaisesBehind, Claims
  <2> QED
    BY <1>2, <2>1, SendSteps DEF Idles
<1>3. OnceEach'
  BY <1>1, <1>2 DEF OnceEach
<1>4. ASSUME NEW m \in Member, mail'[m].state \notin {"SENT", "SENDING"} PROVE sent'[m] = 0
  <2>1. ~\E d \in Drainer : Sends(d, m)
    BY <1>1, <1>4
  <2>2. ~RowReaped(m)
    <3> SUFFICES ASSUME RowReaped(m) PROVE FALSE
      OBVIOUS
    <3>1. PICK d \in Drainer : InHand(d, m)
      BY DEF RowReaped, SendingIsHeld
    <3>2. drainer[d].pc # "idle"
      BY <3>1 DEF InHand, Holding
    <3> QED
      BY <3>2, OthersIdle DEF RowReaped
  <2>3. CASE RowFailed(m)
    BY <1>2, <2>1, <2>3 DEF RowFailed, Records, HeldRows, InHand, Holding
  <2>4. CASE RowStays(m) \/ RowEnqueued(m)
    BY <1>2, <1>4, <2>1, <2>4 DEF RowStays, RowEnqueued, UnsentRows
  <2> QED
    BY <1>4, <2>2, <2>3, <2>4, RowSteps DEF RowClaimed, RowMarked
<1> QED
  BY <1>3, <1>4 DEF UnsentRows

LEMMA CalmNext == TypeOK /\ TypeOK' /\ OneInHand /\ CalmInv /\ [Next]_vars => CalmInv'
<1> SUFFICES ASSUME TypeOK, TypeOK', OneInHand, CalmInv, [Next]_vars, Calm' PROVE CalmInv'
  BY DEF CalmInv
<1>1. Calm /\ ~Fault /\ faults' = faults
  BY StaysCalm
<1>2. Alone /\ HeldRows /\ SendingIsHeld /\ UnsentRows /\ OnceEach
  BY <1>1 DEF CalmInv
<1> QED
  BY <1>1, <1>2, AloneNext, HeldRowsNext, SendingIsHeldNext, UnsentRowsNext DEF CalmInv

LEMMA CalmInit == Init => CalmInv
  BY DEF Init, IdleDrainer, NoMail, CalmInv, Alone, HeldRows, InHand, Holding, SendingIsHeld,
         UnsentRows, OnceEach

(* As long as nothing fails, every mail goes out at most once: passes that *)
(* overlap skip (SingleFlightCommand), and a marked row is never sent.     *)
THEOREM SentOnceWhenCalm == Spec => []SentOnce
<1>1. Init => OneInHand
  BY DEF Init, IdleDrainer, OneInHand
<1>2. CalmInv => SentOnce
  BY DEF CalmInv, Calm, OnceEach, SentOnce
<1> QED
  BY <1>1, <1>2, CalmInit, CalmNext, OneInHandNext, TypeCorrect, PTL DEF Spec
=============================================================================
