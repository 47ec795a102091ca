------------------------------- MODULE Outbox -------------------------------
(***************************************************************************)
(* The waitlist and the outbound mail queue.                               *)
(*                                                                         *)
(* A sign-up request inserts the member's row and then, if the row is new, *)
(* enqueues the welcome mail.  Drain passes (send_outbound_emails, one at  *)
(* a time under a job lock) take back mails whose sender died, claim due   *)
(* ones by compare-and-set, send each, and mark it behind the send.        *)
(*                                                                         *)
(* Times are kept as distances: how long a mail has to wait, how long ago  *)
(* it was claimed and a pass began, capped where nothing tells more apart. *)
(***************************************************************************)
EXTENDS Integers, FiniteSets

CONSTANTS
  Member,       \* addresses
  Request,      \* sign-up requests that may run at once
  Drainer,      \* drain passes that may run at once
  MaxAttempts,  \* EMAIL_SEND_MAX_ATTEMPTS
  Stale,        \* EMAIL_SEND_STALE_SECONDS
  Retry,        \* EMAIL_SEND_RETRY_SECONDS
  MaxFaults,    \* bound: processes that die, answers and marks that are lost,
                \* locks cleared under a live pass
  Nobody        \* the lock is free

ASSUME OutboxAssumption ==
  /\ MaxAttempts \in Nat \ {0}
  /\ Stale \in Nat
  /\ Retry \in Nat
  /\ MaxFaults \in Nat
  /\ Nobody \notin Drainer
  /\ IsFiniteSet(Drainer)

VARIABLES
  listed,   \* members with a WaitlistSignup row
  voted,    \* members with a vote on record
  request,  \* the member a request has inserted and not enqueued
  mail,     \* OutboundEmail rows, by member
  sent,     \* history: mails the SMTP server accepted, by member
  drainer,  \* drain passes
  lock,     \* the job lock of the drain
  lost,     \* history: members whose request died before it enqueued
  faults    \* faults so far

listVars == <<listed, voted, request, lost>>
drainVars == <<drainer, lock>>
vars == <<listed, voted, request, mail, sent, drainer, lock, lost, faults>>

Final == {"SENT", "FAILED"}
Ages == 0 .. Stale + 1
NoMember == {}

Mail == [state : {"none", "PENDING", "SENDING"} \cup Final,
         attempts : 0 .. MaxAttempts, wait : 0 .. Retry, age : Ages]
NoMail == [state |-> "none", attempts |-> 0, wait |-> 0, age |-> 0]

DrainerState ==
  [pc : {"idle", "query", "next", "refresh", "send", "mark", "fail"},
   due : SUBSET Member,    \* scheduled_at has elapsed at the pass's `now`
   todo : SUBSET Member,   \* candidates left in the iterator
   cur : SUBSET Member,    \* the mail in hand, at most one
   fence : 0 .. MaxAttempts,  \* its attempts, as refresh_from_db read them
   began : Ages,           \* how long ago the pass took its `now`
   claimed : BOOLEAN]      \* it has claimed a mail
IdleDrainer == [pc |-> "idle", due |-> {}, todo |-> {}, cur |-> {}, fence |-> 0,
                began |-> 0, claimed |-> FALSE]

TypeOK ==
  /\ voted \subseteq listed /\ listed \subseteq Member /\ lost \subseteq Member
  /\ request \in [Request -> SUBSET Member]
  /\ mail \in [Member -> Mail]
  /\ sent \in [Member -> Nat]
  /\ drainer \in [Drainer -> DrainerState]
  /\ lock \in Drainer \cup {Nobody}
  /\ faults \in 0 .. MaxFaults

Init ==
  /\ listed = {} /\ voted = {} /\ lost = {}
  /\ request = [r \in Request |-> NoMember]
  /\ mail = [m \in Member |-> NoMail]
  /\ sent = [m \in Member |-> 0]
  /\ drainer = [d \in Drainer |-> IdleDrainer]
  /\ lock = Nobody
  /\ faults = 0

Fault == faults < MaxFaults /\ faults' = faults + 1

-----------------------------------------------------------------------------
(* WaitlistService.signup, with or without votes.                          *)

(* Mutant: only a sign-up without votes counts as a first one.             *)
FirstVoteless(m, votes) == m \notin listed /\ ~votes

(* get_or_create: was the row created?                                     *)
First(m, votes) == m \notin listed

SignsUp(r, m, votes) ==
  /\ request[r] = NoMember
  /\ listed' = listed \cup {m}
  /\ voted' = IF votes THEN voted \cup {m} ELSE voted
  /\ request' = IF First(m, votes) THEN [request EXCEPT ![r] = {m}] ELSE request
  /\ UNCHANGED <<mail, sent, lost, faults, drainVars>>

(* MailerService.enqueue, idempotent on the key of the sign-up.            *)
Enqueues(r, m) ==
  /\ request[r] = {m}
  /\ mail' = IF mail[m].state = "none" THEN [mail EXCEPT ![m].state = "PENDING"] ELSE mail
  /\ request' = [request EXCEPT ![r] = NoMember]
  /\ UNCHANGED <<listed, voted, sent, lost, faults, drainVars>>

(* The two writes are not one transaction.                                 *)
RequestDies(r) ==
  /\ request[r] # NoMember
  /\ Fault
  /\ lost' = lost \cup request[r]
  /\ request' = [request EXCEPT ![r] = NoMember]
  /\ UNCHANGED <<listed, voted, mail, sent, drainVars>>

-----------------------------------------------------------------------------
(* The drain.                                                              *)
Becomes(d, x) == drainer' = [drainer EXCEPT ![d] = x]

(* The pass is at its next candidate.                                      *)
NextMail(d) == [drainer[d] EXCEPT !.pc = "next", !.cur = {}, !.fence = 0]

(* Mutant: overlapping passes do not skip.                                 *)
MayStartAlways == TRUE

(* SingleFlightCommand skips if the lock is held.                          *)
MayStart == lock = Nobody

(* Mutant: every stale row goes back to PENDING.                           *)
ReapedAll(m) == [mail[m] EXCEPT !.state = "PENDING", !.age = 0]

(* reap_stale: FAILED at the cap, else PENDING.                            *)
Reaped(m) ==
  [mail[m] EXCEPT !.state = IF mail[m].attempts >= MaxAttempts THEN "FAILED" ELSE "PENDING",
                  !.age = 0]

(* The pass takes its `now`, and reaps what was claimed too long before.   *)
StartPass(d) ==
  /\ drainer[d].pc = "idle"
  /\ MayStart
  /\ lock' = d
  /\ mail' = [m \in Member |-> IF mail[m].state = "SENDING" /\ mail[m].age > Stale
                                THEN Reaped(m) ELSE mail[m]]
  /\ Becomes(d, [IdleDrainer EXCEPT !.pc = "query",
                                    !.due = {m \in Member : mail[m].wait = 0}])
  /\ UNCHANGED <<sent, faults, listVars>>

(* Mutant: the last attempt is not offered.                                *)
IsDueButLast(d, m) ==
  /\ mail[m].state = "PENDING"
  /\ mail[m].attempts < MaxAttempts - 1
  /\ m \in drainer[d].due

IsDue(d, m) ==
  /\ mail[m].state = "PENDING"
  /\ mail[m].attempts < MaxAttempts
  /\ m \in drainer[d].due

(* iter_due: the candidates, as one query saw them.                        *)
Queries(d) ==
  /\ drainer[d].pc = "query"
  /\ Becomes(d, [drainer[d] EXCEPT !.pc = "next", !.todo = {m \in Member : IsDue(d, m)}])
  /\ UNCHANGED <<mail, sent, lock, faults, listVars>>

(* Mutant: the UPDATE does not look at the state.                          *)
ClaimWinsAlways(m) == mail[m].attempts < MaxAttempts

(* claim_due's compare-and-set.                                            *)
ClaimWins(m) == mail[m].state = "PENDING" /\ mail[m].attempts < MaxAttempts

(* Mutant: a retry is not counted.                                         *)
ClaimedUncounted(d, m) ==
  [mail[m] EXCEPT !.state = "SENDING", !.attempts = IF @ = 0 THEN 1 ELSE @,
                  !.age = drainer[d].began]

(* A claim is an attempt, stamped with the pass's `now`.                   *)
Claimed(d, m) ==
  [mail[m] EXCEPT !.state = "SENDING", !.attempts = @ + 1, !.age = drainer[d].began]

Claims(d, m) ==
  /\ drainer[d].pc = "next"
  /\ m \in drainer[d].todo
  /\ IF ClaimWins(m)
     THEN /\ mail' = [mail EXCEPT ![m] = Claimed(d, m)]
          /\ Becomes(d, [drainer[d] EXCEPT !.pc = "refresh", !.todo = @ \ {m},
                                           !.cur = {m}, !.claimed = TRUE])
     ELSE /\ mail' = mail
          /\ Becomes(d, [drainer[d] EXCEPT !.todo = @ \ {m}])
  /\ UNCHANGED <<sent, lock, faults, listVars>>

(* refresh_from_db: what it finds may be another pass's claim by now.      *)
Refreshes(d, m) ==
  /\ drainer[d].pc = "refresh"
  /\ m \in drainer[d].cur
  /\ Becomes(d, [drainer[d] EXCEPT !.pc = "send", !.fence = mail[m].attempts])
  /\ UNCHANGED <<mail, sent, lock, faults, listVars>>

Sends(d, m) ==
  /\ drainer[d].pc = "send"
  /\ m \in drainer[d].cur
  /\ sent' = [sent EXCEPT ![m] = @ + 1]
  /\ Becomes(d, [drainer[d] EXCEPT !.pc = "mark"])
  /\ UNCHANGED <<mail, lock, faults, listVars>>

(* Mutant: the error of a send is swallowed.                               *)
OnErrorMark == "mark"

OnError == "fail"

(* The render or the SMTP dialogue raises, perhaps behind the server's     *)
(* acceptance of the mail.                                                 *)
SendRaises(d, m) ==
  /\ drainer[d].pc = "send"
  /\ m \in drainer[d].cur
  /\ Becomes(d, [drainer[d] EXCEPT !.pc = OnError])
  /\ UNCHANGED <<mail, sent, lock, faults, listVars>>

RaisesBehind(d, m) ==
  /\ drainer[d].pc = "send"
  /\ m \in drainer[d].cur
  /\ Fault
  /\ sent' = [sent EXCEPT ![m] = @ + 1]
  /\ Becomes(d, [drainer[d] EXCEPT !.pc = OnError])
  /\ UNCHANGED <<mail, lock, listVars>>

(* Mutant: the update is keyed on the row only.                            *)
HoldsClaimAnyhow(d, m) == TRUE

(* The claim of complete_sent and fail: this state, these attempts.        *)
HoldsClaim(d, m) == mail[m].state = "SENDING" /\ mail[m].attempts = drainer[d].fence

(* complete_sent; a claim that was lost leaves the row to its new owner.   *)
Marks(d, m) ==
  /\ drainer[d].pc = "mark"
  /\ m \in drainer[d].cur
  /\ mail' = IF HoldsClaim(d, m) THEN [mail EXCEPT ![m].state = "SENT", ![m].age = 0]
                                 ELSE mail
  /\ Becomes(d, NextMail(d))
  /\ UNCHANGED <<sent, lock, faults, listVars>>

(* complete_sent raises: the mail is out, and its row stays SENDING.       *)
MarkRaises(d) ==
  /\ drainer[d].pc = "mark"
  /\ Fault
  /\ Becomes(d, NextMail(d))
  /\ UNCHANGED <<mail, sent, lock, listVars>>

(* fail: a later attempt, or none.                                         *)
Records(d, m) ==
  /\ drainer[d].pc = "fail"
  /\ m \in drainer[d].cur
  /\ mail' = IF ~HoldsClaim(d, m) THEN mail
             ELSE IF drainer[d].fence >= MaxAttempts
             THEN [mail EXCEPT ![m].state = "FAILED", ![m].age = 0]
             ELSE [mail EXCEPT ![m].state = "PENDING", ![m].age = 0, ![m].wait = Retry]
  /\ Becomes(d, NextMail(d))
  /\ UNCHANGED <<sent, lock, faults, listVars>>

Released(d) == IF lock = d THEN Nobody ELSE lock

(* The iterator is empty, or the pass has claimed its --limit.             *)
EndsPass(d) ==
  /\ drainer[d].pc = "next"
  /\ drainer[d].todo = {} \/ drainer[d].claimed
  /\ Becomes(d, IdleDrainer)
  /\ lock' = Released(d)
  /\ UNCHANGED <<mail, sent, faults, listVars>>

(* SIGKILL leaves the lock, SIGTERM and an error of the database do not.   *)
PassDies(d) ==
  /\ drainer[d].pc # "idle"
  /\ Fault
  /\ Becomes(d, IdleDrainer)
  /\ lock' \in {lock, Released(d)}
  /\ UNCHANGED <<mail, sent, listVars>>

(* clear_job_locks, or the lock's TTL: of a dead pass, or by mistake.      *)
ClearsDead ==
  /\ lock # Nobody
  /\ drainer[lock].pc = "idle"
  /\ lock' = Nobody
  /\ UNCHANGED <<mail, sent, drainer, faults, listVars>>

ClearsLive ==
  /\ lock # Nobody
  /\ drainer[lock].pc # "idle"
  /\ Fault
  /\ lock' = Nobody
  /\ UNCHANGED <<mail, sent, drainer, listVars>>

Older(a) == IF a > Stale THEN a ELSE a + 1

Tick ==
  /\ mail' = [m \in Member |->
                [mail[m] EXCEPT !.wait = IF @ = 0 THEN 0 ELSE @ - 1,
                                !.age = IF mail[m].state = "SENDING" THEN Older(@) ELSE @]]
  /\ drainer' = [d \in Drainer |->
                   [drainer[d] EXCEPT !.began = IF drainer[d].pc = "idle" THEN @ ELSE Older(@)]]
  /\ UNCHANGED <<sent, lock, faults, listVars>>

-----------------------------------------------------------------------------
Steps(d) ==
  \/ Queries(d) \/ EndsPass(d)
  \/ \E m \in Member : \/ Claims(d, m) \/ Refreshes(d, m) \/ Sends(d, m)
                        \/ SendRaises(d, m) \/ Marks(d, m) \/ Records(d, m)

Next ==
  \/ \E r \in Request : \/ RequestDies(r)
                         \/ \E m \in Member : \/ Enqueues(r, m)
                                               \/ \E votes \in BOOLEAN : SignsUp(r, m, votes)
  \/ \E d \in Drainer : \/ StartPass(d) \/ Steps(d) \/ MarkRaises(d) \/ PassDies(d)
                         \/ \E m \in Member : RaisesBehind(d, m)
  \/ ClearsDead \/ ClearsLive \/ Tick

(* The ticker starts passes, a pass goes on, time passes, and the lock of  *)
(* a pass that died is cleared or expires.                                 *)
Fairness ==
  /\ WF_vars(\E d \in Drainer : StartPass(d))
  /\ \A d \in Drainer : WF_vars(Steps(d))
  /\ WF_vars(ClearsDead)
  /\ WF_vars(Tick)

Spec == Init /\ [][Next]_vars /\ Fairness

-----------------------------------------------------------------------------
(* Properties                                                              *)

(* Every mail out costs an attempt, so nobody gets more than MaxAttempts,  *)
(* whatever dies and however passes overlap.                               *)
SentWithinAttempts == \A m \in Member : sent[m] <= mail[m].attempts

(* Without a fault a mail goes out once: overlapping passes skip.          *)
SentOnce == faults = 0 => \A m \in Member : sent[m] <= 1

(* A row marked SENT was sent, though a pass may hold another's fence.     *)
SentIsSent == \A m \in Member : mail[m].state = "SENT" => sent[m] > 0

(* mailer.py:95, a row at the cap is never PENDING: no drain would claim   *)
(* it and no query for FAILED would find it.                               *)
NoneStuck == \A m \in Member : mail[m].state = "PENDING" => mail[m].attempts < MaxAttempts

(* Who is on the list has a mail, or a request is about to enqueue it, or  *)
(* that request died; a repeated sign-up does not make up for it.          *)
WelcomeFollows ==
  \A m \in listed : mail[m].state # "none" \/ m \in lost \/ \E r \in Request : request[r] = {m}

(* SENT and FAILED are final, whatever a pass that lost its claim does.    *)
FinalStays ==
  [][\A m \in Member : mail[m].state \in Final => mail'[m].state = mail[m].state]_vars

(* A queued mail comes to rest.                                            *)
MailRests == \A m \in Member : (mail[m].state = "PENDING") ~> (mail[m].state \in Final)
=============================================================================
