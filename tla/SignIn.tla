------------------------------- MODULE SignIn -------------------------------
(***************************************************************************)
(* The credentials of a CLI user: token pairs on the server, config.json   *)
(* at home, and what moves them.                                           *)
(*                                                                         *)
(*   - every CLI command is a process that loads config.json when it       *)
(*     starts, rotates the pair when its access token is refused or about  *)
(*     to expire, and saves what it got;                                   *)
(*   - `auth login` opens a device session, a cache entry, and polls it    *)
(*     while a browser tab completes or denies it;                         *)
(*   - `auth logout` revokes the pair and clears the file.                 *)
(*                                                                         *)
(* A refresh request is served under a lock on the token it presents; the  *)
(* model keeps it in the record of the process that waits for its answer.  *)
(***************************************************************************)
EXTENDS Integers, FiniteSets

CONSTANTS
  Cli, Tab,
  MaxPairs,     \* bound: pairs minted
  MaxSessions,  \* bound: device sessions opened
  MaxPolls,     \* polls before the login's deadline
  MaxFaults,    \* bound: lost answers, failed mints, processes that die, locks
                \* that expire under a live request
  Nobody        \* the lock is free

Pairs == 1 .. MaxPairs
Sessions == 1 .. MaxSessions

ASSUME SignInAssumption ==
  /\ MaxPairs \in Nat \ {0}
  /\ MaxSessions \in Nat
  /\ MaxPolls \in Nat
  /\ MaxFaults \in Nat
  /\ Nobody \notin Cli

VARIABLES
  pair,     \* AccessToken and RefreshToken rows, and the pair they replaced
  file,     \* the pair in config.json; 0: signed out
  cli,      \* the CLI processes
  lock,     \* refresh_token_lock of each pair's refresh token
  bag,      \* device sessions in the cache
  tab,      \* the session a browser request is about to complete; 0: none
  ended,    \* history: pairs whose logout the server confirmed
  denied,   \* history: sessions denied while nothing was completing them
  faults,   \* faults so far
  lapsed,   \* history: a lock expired under a live request
  raced     \* history: a logout crossed a refresh of its pair

tokenVars == <<pair, lock>>
loginVars == <<bag, tab, denied>>
histVars == <<ended, faults, lapsed, raced>>
vars == <<pair, file, cli, lock, bag, tab, ended, denied, faults,
          lapsed, raced>>

CliPc == {"idle", "send", "checks", "rotates", "saves", "rejected", "revokes",
          "clears", "polling", "signs"}

IdleCli == [pc |-> "idle", cmd |-> "call", mem |-> 0, got |-> 0, tries |-> 0,
            session |-> 0, polls |-> 0]

Gone == [status |-> "gone", pair |-> 0]
NoPair == [access |-> "none", refresh |-> "none", parent |-> 0]
NewPair(p) == [access |-> "live", refresh |-> "live", parent |-> p]

TypeOK ==
  /\ pair \in [Pairs -> [access : {"none", "live", "expired", "gone"},
                         refresh : {"none", "live", "revoked"},
                         parent : 0 .. MaxPairs]]
  /\ file \in 0 .. MaxPairs
  /\ cli \in [Cli -> [pc : CliPc, cmd : {"call", "logout", "login"},
                      mem : 0 .. MaxPairs, got : 0 .. MaxPairs, tries : 0 .. 2,
                      session : 0 .. MaxSessions, polls : 0 .. MaxPolls]]
  /\ lock \in [Pairs -> Cli \cup {Nobody}]
  /\ bag \in [Sessions -> [status : {"new", "pending", "completed", "gone"},
                           pair : 0 .. MaxPairs]]
  /\ tab \in [Tab -> 0 .. MaxSessions]
  /\ ended \subseteq Pairs
  /\ denied \subseteq Sessions
  /\ faults \in 0 .. MaxFaults
  /\ lapsed \in BOOLEAN
  /\ raced \in BOOLEAN

(* Signed in by an earlier login.                                          *)
Init ==
  /\ file = 1
  /\ pair = [p \in Pairs |-> IF p = 1 THEN NewPair(0) ELSE NoPair]
  /\ cli = [c \in Cli |-> IdleCli]
  /\ lock = [p \in Pairs |-> Nobody]
  /\ bag = [n \in Sessions |-> [status |-> "new", pair |-> 0]]
  /\ tab = [t \in Tab |-> 0]
  /\ ended = {}
  /\ denied = {}
  /\ faults = 0
  /\ lapsed = FALSE
  /\ raced = FALSE

-----------------------------------------------------------------------------
Becomes(c, x) == cli' = [cli EXCEPT ![c] = x]

(* The pair a mint writes: the next one.                                   *)
Unminted == {p \in Pairs : pair[p].access = "none"}
Fresh == CHOOSE p \in Unminted : \A q \in Unminted : p <= q

Fault == /\ faults < MaxFaults
         /\ faults' = faults + 1

(* The command ends with an error; a logout goes on to clear the file.     *)
Fails(c) == IF cli[c].cmd = "logout" THEN [IdleCli EXCEPT !.pc = "clears", !.cmd = "logout"]
                                     ELSE IdleCli

(* TTL of an access token.                                                 *)
AccessExpires(p) ==
  /\ pair[p].access = "live"
  /\ pair' = [pair EXCEPT ![p].access = "expired"]
  /\ UNCHANGED <<file, cli, lock, histVars, loginVars>>

(* AppContext: config.json is loaded once.                                 *)
Starts(c, cmd) ==
  /\ cli[c].pc = "idle"
  /\ file # 0
  /\ Becomes(c, [IdleCli EXCEPT !.pc = "send", !.cmd = cmd, !.mem = file])
  /\ UNCHANGED <<file, histVars, tokenVars, loginVars>>

(* The bearer is valid: a call is done, a logout goes on to its view.      *)
Served(c) ==
  /\ cli[c].pc = "send"
  /\ pair[cli[c].mem].access = "live"
  /\ Becomes(c, IF cli[c].cmd = "logout" THEN [cli[c] EXCEPT !.pc = "revokes"] ELSE IdleCli)
  /\ UNCHANGED <<file, histVars, tokenVars, loginVars>>

(* 401, and no retry is left.                                              *)
Unauthorized(c) ==
  /\ cli[c].pc = "send"
  /\ pair[cli[c].mem].access # "live"
  /\ cli[c].tries = 2
  /\ Becomes(c, Fails(c))
  /\ UNCHANGED <<file, histVars, tokenVars, loginVars>>

-----------------------------------------------------------------------------
(* TokensRefreshView.                                                      *)

Release(c) == [p \in Pairs |-> IF p = cli[c].mem /\ lock[p] = c THEN Nobody ELSE lock[p]]

(* Mutant: the view goes on without the lock.                              *)
MayRotateAlways(p) == TRUE

(* refresh_token_lock is a try-lock.                                       *)
MayRotate(p) == lock[p] = Nobody

(* Mutant: the client takes the 409 for a dead token.                      *)
ConflictWipes(c) == [cli[c] EXCEPT !.pc = "rejected"]

(* 409: the error is shown and the credentials stay.                       *)
Conflict(c) == Fails(c)

(* A refresh is asked for before the request, when the access token is     *)
(* about to end by the client's clock (_ensure_fresh_token), and once more *)
(* when the request gets a 401.                                            *)
Refresh(c) ==
  /\ cli[c].pc = "send"
  /\ \E k \in {1, 2} :
       /\ IF k = 1 THEN cli[c].tries = 0
                   ELSE cli[c].tries < 2 /\ pair[cli[c].mem].access # "live"
       /\ IF MayRotate(cli[c].mem)
          THEN /\ lock' = [lock EXCEPT ![cli[c].mem] = c]
               /\ Becomes(c, [cli[c] EXCEPT !.pc = "checks", !.tries = k])
          ELSE /\ lock' = lock
               /\ Becomes(c, Conflict(c))
  /\ UNCHANGED <<pair, file, histVars, loginVars>>

Checks(c) ==
  /\ cli[c].pc = "checks"
  /\ IF pair[cli[c].mem].refresh = "live"
     THEN /\ lock' = lock
          /\ Becomes(c, [cli[c] EXCEPT !.pc = "rotates"])
     ELSE /\ lock' = Release(c)
          /\ Becomes(c, [cli[c] EXCEPT !.pc = "rejected"])
  /\ UNCHANGED <<pair, file, histVars, loginVars>>

(* RefreshToken.revoke of the toolkit, with the access token it came with; *)
(* no error if it is revoked already.                                      *)
Revoked(p) == [pair EXCEPT ![p].access = "gone", ![p].refresh = "revoked"]

(* One transaction: revoke, and mint for the same user.  The lock goes     *)
(* behind it.                                                              *)
Rotates(c) ==
  LET p == cli[c].mem
  IN /\ cli[c].pc = "rotates"
     /\ Unminted # {}
     /\ pair' = [Revoked(p) EXCEPT ![Fresh] = NewPair(p)]
     /\ lock' = Release(c)
     /\ Becomes(c, [cli[c] EXCEPT !.pc = "saves", !.got = Fresh])
     /\ UNCHANGED <<file, histVars, loginVars>>

(* Mutant: the revocation is committed before the mint.                    *)
AfterFailureRevoked(p) == Revoked(p)

(* The transaction rolls back.                                             *)
AfterFailure(p) == pair

(* The mint raises, and the client sees a 500.                             *)
MintFails(c) ==
  /\ cli[c].pc = "rotates"
  /\ Fault
  /\ pair' = AfterFailure(cli[c].mem)
  /\ lock' = Release(c)
  /\ Becomes(c, Fails(c))
  /\ UNCHANGED <<file, ended, lapsed, raced, loginVars>>

(* The answer of a rotation is lost.                                       *)
AnswerLost(c) ==
  /\ cli[c].pc = "saves"
  /\ Fault
  /\ Becomes(c, Fails(c))
  /\ UNCHANGED <<file, ended, lapsed, raced, tokenVars, loginVars>>

(* The web worker dies with the lock; the cache drops it after its TTL.    *)
WorkerDies(c) ==
  /\ cli[c].pc \in {"checks", "rotates"}
  /\ Fault
  /\ Becomes(c, Fails(c))
  /\ UNCHANGED <<file, ended, lapsed, raced, tokenVars, loginVars>>

InRefresh(c, p) == cli[c].mem = p /\ cli[c].pc \in {"checks", "rotates"}

LockExpires(p) ==
  /\ lock[p] # Nobody
  /\ IF InRefresh(lock[p], p)
     THEN Fault /\ lapsed' = TRUE
     ELSE UNCHANGED <<faults, lapsed>>
  /\ lock' = [lock EXCEPT ![p] = Nobody]
  /\ UNCHANGED <<pair, file, cli, ended, raced, loginVars>>

(* Back in the client: apply_credentials and save.                         *)
Saves(c) ==
  /\ cli[c].pc = "saves"
  /\ file' = cli[c].got
  /\ Becomes(c, [cli[c] EXCEPT !.pc = "send", !.mem = cli[c].got, !.got = 0])
  /\ UNCHANGED <<histVars, tokenVars, loginVars>>

(* A 401 clears the credentials, whatever the file holds by now.           *)
Wipes(c) ==
  /\ cli[c].pc = "rejected"
  /\ file' = 0
  /\ Becomes(c, Fails(c))
  /\ UNCHANGED <<histVars, tokenVars, loginVars>>

-----------------------------------------------------------------------------
(* Logout.                                                                 *)

(* Mutant: only the access row is removed.                                 *)
LoggedOutAccess(p) == [pair EXCEPT ![p].access = "gone"]

(* TokenService.revoke, when the access row is still there.                *)
LoggedOut(p) == Revoked(p)

Revokes(c) ==
  LET p == cli[c].mem
  IN /\ cli[c].pc = "revokes"
     /\ pair' = IF pair[p].access = "gone" THEN pair ELSE LoggedOut(p)
     /\ ended' = ended \cup {p}
     /\ raced' = (raced \/ pair[p].access = "gone"
                        \/ \E d \in Cli : cli[d].mem = p /\ cli[d].pc = "rotates")
     /\ Becomes(c, [cli[c] EXCEPT !.pc = "clears"])
     /\ UNCHANGED <<file, lock, faults, lapsed, loginVars>>

Clears(c) ==
  /\ cli[c].pc = "clears"
  /\ file' = 0
  /\ Becomes(c, IdleCli)
  /\ UNCHANGED <<histVars, tokenVars, loginVars>>

(* Ctrl-C, where it leaves something undone.                               *)
CliDies(c) ==
  /\ cli[c].pc \in {"saves", "rejected", "clears", "polling", "signs"}
  /\ Fault
  /\ Becomes(c, IdleCli)
  /\ UNCHANGED <<file, ended, lapsed, raced, tokenVars, loginVars>>

-----------------------------------------------------------------------------
(* Login: the device session and its poll.                                 *)
Opens(c) ==
  /\ cli[c].pc = "idle"
  /\ \E n \in Sessions :
       /\ bag[n].status = "new"
       /\ \A m \in Sessions : m < n => bag[m].status # "new"
       /\ bag' = [bag EXCEPT ![n].status = "pending"]
       /\ Becomes(c, [IdleCli EXCEPT !.pc = "polling", !.cmd = "login",
                                     !.session = n, !.polls = MaxPolls])
  /\ UNCHANGED <<file, tab, denied, histVars, tokenVars>>

(* Mutant: the loop does not look at the clock.                            *)
PollAgainForever(x) == x

(* One round of the loop less before its deadline.                         *)
PollAgain(x) == [x EXCEPT !.polls = @ - 1]

PollDue(c) == cli[c].pc = "polling" /\ cli[c].polls > 0

(* A completed session is deleted when it is read.                         *)
Polls(c) ==
  LET n == cli[c].session
      done == bag[n].status = "completed"
  IN /\ PollDue(c)
     /\ bag' = IF done THEN [bag EXCEPT ![n] = Gone] ELSE bag
     /\ Becomes(c, CASE done -> [cli[c] EXCEPT !.pc = "signs", !.got = bag[n].pair]
                     [] bag[n].status = "pending" -> PollAgain(cli[c])
                     [] OTHER -> IdleCli)
     /\ UNCHANGED <<file, tab, denied, histVars, tokenVars>>

(* A transport error is taken for transient, also when it is the answer    *)
(* that was lost and the session is deleted.                               *)
PollFails(c) ==
  LET n == cli[c].session
  IN /\ PollDue(c)
     /\ bag' \in {bag, IF bag[n].status = "completed" THEN [bag EXCEPT ![n] = Gone] ELSE bag}
     /\ Becomes(c, PollAgain(cli[c]))
     /\ UNCHANGED <<file, tab, denied, histVars, tokenVars>>

SignsIn(c) ==
  /\ cli[c].pc = "signs"
  /\ file' = cli[c].got
  /\ Becomes(c, IdleCli)
  /\ UNCHANGED <<histVars, tokenVars, loginVars>>

TimesOut(c) ==
  /\ cli[c].pc = "polling"
  /\ cli[c].polls = 0
  /\ Becomes(c, IdleCli)
  /\ UNCHANGED <<file, histVars, tokenVars, loginVars>>

BagExpires(n) ==
  /\ bag[n].status \in {"pending", "completed"}
  /\ bag' = [bag EXCEPT ![n] = Gone]
  /\ UNCHANGED <<file, cli, tab, denied, histVars, tokenVars>>

(* Mutant: any session is completed.                                       *)
MayCompleteAny(n) == bag[n].status # "new"

(* DeviceSessionCompleteView: 404 without a session, 409 if it is done.    *)
MayComplete(n) == bag[n].status = "pending"

CompleteReads(t, n) ==
  /\ tab[t] = 0
  /\ MayComplete(n)
  /\ tab' = [tab EXCEPT ![t] = n]
  /\ UNCHANGED <<file, cli, bag, denied, histVars, tokenVars>>

(* The mint, and the put that follows it without another look.             *)
CompletePuts(t) ==
  /\ tab[t] # 0
  /\ Unminted # {}
  /\ pair' = [pair EXCEPT ![Fresh] = NewPair(0)]
  /\ bag' = [bag EXCEPT ![tab[t]] = [status |-> "completed", pair |-> Fresh]]
  /\ tab' = [tab EXCEPT ![t] = 0]
  /\ UNCHANGED <<file, cli, lock, denied, histVars>>

Completing(n) == \E t \in Tab : tab[t] = n

(* DeviceSessionDenyView deletes the bag, whatever its state.              *)
Denies(n) ==
  /\ bag[n].status \in {"pending", "completed"}
  /\ bag' = [bag EXCEPT ![n] = Gone]
  /\ denied' = IF Completing(n) THEN denied ELSE denied \cup {n}
  /\ UNCHANGED <<file, cli, tab, histVars, tokenVars>>

-----------------------------------------------------------------------------
Refreshes(c) ==
  \/ Refresh(c) \/ Checks(c) \/ Rotates(c) \/ MintFails(c) \/ AnswerLost(c)
  \/ WorkerDies(c)

Login(c) == Polls(c) \/ PollFails(c) \/ SignsIn(c) \/ TimesOut(c)

Runs(c) ==
  \/ \E cmd \in {"call", "logout"} : Starts(c, cmd)
  \/ Served(c) \/ Unauthorized(c) \/ Saves(c) \/ Wipes(c) \/ Revokes(c)
  \/ Clears(c) \/ CliDies(c)

Browses(t) == CompletePuts(t) \/ \E n \in Sessions : CompleteReads(t, n)

Next ==
  \/ \E c \in Cli : Refreshes(c) \/ Login(c) \/ Opens(c) \/ Runs(c)
  \/ \E t \in Tab : Browses(t)
  \/ \E n \in Sessions : Denies(n) \/ BagExpires(n)
  \/ \E p \in Pairs : AccessExpires(p) \/ LockExpires(p)

(* A login that waits goes on: the loop sleeps and polls.                  *)
Fairness == \A c \in Cli : WF_vars(Login(c))

Spec == Init /\ [][Next]_vars /\ Fairness

-----------------------------------------------------------------------------
(* Properties                                                              *)

(* A refresh token is exchanged for one pair, however many clients present *)
(* it at once, as long as the lock outlives its request.                   *)
RotatedOnce ==
  ~lapsed =>
    \A p, q \in Pairs : pair[p].parent # 0 /\ pair[p].parent = pair[q].parent => p = q

(* A revoked refresh token was exchanged, or its user logged out: a        *)
(* rotation that fails half way logs nobody out.                           *)
RevokedForCause ==
  \A p \in Pairs :
    pair[p].refresh = "revoked" => p \in ended \/ \E q \in Pairs : pair[q].parent = p

(* After a logout that the server confirmed the session is over: nothing   *)
(* that came from the pair is live, unless a refresh of the same pair was  *)
(* between its check and its mint, or came before the revocation.          *)
LogoutHolds ==
  ~raced =>
    \A p \in ended : /\ pair[p].refresh # "live"
                     /\ \A q \in Pairs : pair[q].parent # p

(* Credentials that still work leave config.json by a logout, a login, a   *)
(* rotation, or a process that holds others; no error answer drops them.   *)
(* The docstring of _refresh lets every answer but a 2xx drop them; its    *)
(* code does so on a 401 only.                                             *)
KeptWhileGood ==
  [][(file' # file /\ file # 0 /\ pair[file].refresh = "live") =>
       \E c \in Cli : cli'[c] # cli[c] /\ (cli[c].cmd # "call" \/ cli[c].mem # file)]_vars

(* A denied session is never completed, unless a tab was completing it     *)
(* when it was denied.                                                     *)
DeniedStays == \A n \in denied : bag[n].status # "completed"

(* A login ends, whatever the network and the browser do.                  *)
LoginEnds == \A c \in Cli : (cli[c].cmd = "login") ~> (cli[c].pc = "idle")
=============================================================================
