---------------------------- MODULE SignIn_proofs ----------------------------
(***************************************************************************)
(* Token pairs and device sessions, for every number of processes, tabs,   *)
(* pairs and sessions.                                                     *)
(***************************************************************************)
EXTENDS SignIn, WellFoundedInduction, TLAPS

(* A mint writes a row that was not there.                                 *)
LEMMA FreshIsUnminted == Unminted # {} => Fresh \in Unminted
<1> SUFFICES ASSUME Unminted # {} PROVE \E p \in Unminted : \A q \in Unminted : p <= q
  BY DEF Fresh
<1>1. Unminted \subseteq Nat
  BY DEF Unminted, Pairs
<1>2. PICK p \in Unminted : \A q \in Unminted : <<q, p>> \notin OpToRel(<, Nat)
  BY <1>1, WFMin, NatLessThanWellFounded
<1>3. ASSUME NEW q \in Unminted PROVE p <= q
  <2>1. <<q, p>> \notin {ss \in Nat \X Nat : ss[1] < ss[2]}
    BY <1>2 DEF OpToRel
  <2>2. ~(q < p) /\ q \in Nat /\ p \in Nat
    BY <1>1, <2>1
  <2> QED
    BY <2>2
<1> QED
  BY <1>3

-----------------------------------------------------------------------------
(* Type correctness.                                                       *)
Row == [access : {"none", "live", "expired", "gone"},
        refresh : {"none", "live", "revoked"},
        parent : 0 .. MaxPairs]
Process == [pc : CliPc, cmd : {"call", "logout", "login"},
            mem : 0 .. MaxPairs, got : 0 .. MaxPairs, tries : 0 .. 2,
            session : 0 .. MaxSessions, polls : 0 .. MaxPolls]
Session == [status : {"new", "pending", "completed", "gone"}, pair : 0 .. MaxPairs]

LEMMA Constants ==
  /\ 0 \in 0 .. MaxPairs /\ 1 \in Pairs /\ Pairs \subseteq 0 .. MaxPairs
  /\ 0 \in 0 .. MaxSessions /\ Sessions \subseteq 0 .. MaxSessions
  /\ 0 \in 0 .. MaxPolls /\ MaxPolls \in 0 .. MaxPolls /\ 0 \in 0 .. MaxFaults
  BY SignInAssumption DEF Pairs, Sessions

LEMMA IdleIsProcess == IdleCli \in Process
  BY Constants DEF IdleCli, Process, CliPc

LEMMA TypeInit == Init => TypeOK
<1>1. NoPair \in Row /\ NewPair(0) \in Row
  BY Constants DEF NoPair, NewPair, Row
<1>2. [status |-> "new", pair |-> 0] \in Session
  BY Constants DEF Session
<1>3. Init => /\ pair \in [Pairs -> Row] /\ cli \in [Cli -> Process]
              /\ bag \in [Sessions -> Session] /\ tab \in [Tab -> 0 .. MaxSessions]
              /\ lock \in [Pairs -> Cli \cup {Nobody}]
  BY <1>1, <1>2, Constants, IdleIsProcess DEF Init
<1> QED
  BY <1>3, Constants DEF Init, TypeOK, Row, Process, Session

(* What an action does to the process that takes it.                       *)
LEMMA ProcessWritten ==
  ASSUME TypeOK, NEW c \in Cli
  PROVE  /\ \A x \in Process : Becomes(c, x) => cli' \in [Cli -> Process]
         /\ Fails(c) \in Process
         /\ \A pc \in CliPc : [cli[c] EXCEPT !.pc = pc] \in Process
         /\ \A pc \in CliPc, k \in 0 .. 2 : [cli[c] EXCEPT !.pc = pc, !.tries = k] \in Process
         /\ \A pc \in CliPc, p \in 0 .. MaxPairs : [cli[c] EXCEPT !.pc = pc, !.got = p] \in Process
<1>1. cli[c] \in Process /\ cli \in [Cli -> Process]
  BY DEF TypeOK, Process
<1>2. ASSUME NEW x \in Process, Becomes(c, x) PROVE cli' \in [Cli -> Process]
  BY <1>1, <1>2 DEF Becomes
<1>3. Fails(c) \in Process
  <2>1. [IdleCli EXCEPT !.pc = "clears", !.cmd = "logout"] \in Process
    BY IdleIsProcess DEF Process, CliPc
  <2> QED
    BY <2>1, IdleIsProcess DEF Fails
<1>4. ASSUME NEW pc \in CliPc PROVE [cli[c] EXCEPT !.pc = pc] \in Process
  BY <1>1 DEF Process
<1>5. ASSUME NEW pc \in CliPc, NEW k \in 0 .. 2 PROVE [cli[c] EXCEPT !.pc = pc, !.tries = k] \in Process
  BY <1>1 DEF Process
<1>6. ASSUME NEW pc \in CliPc, NEW p \in 0 .. MaxPairs PROVE [cli[c] EXCEPT !.pc = pc, !.got = p] \in Process
  BY <1>1 DEF Process
<1> QED
  BY <1>2, <1>3, <1>4, <1>5, <1>6

(* What a step writes to the rows of the pairs.                            *)
LEMMA RowsWritten ==
  ASSUME TypeOK, NEW p \in 0 .. MaxPairs
  PROVE  /\ Revoked(p) \in [Pairs -> Row]
         /\ Unminted # {} => /\ [pair EXCEPT ![Fresh] = NewPair(p)] \in [Pairs -> Row]
                            /\ [Revoked(p) EXCEPT ![Fresh] = NewPair(p)] \in [Pairs -> Row]
                            /\ Fresh \in Pairs /\ Fresh \in 0 .. MaxPairs
<1>1. pair \in [Pairs -> Row]
  BY DEF TypeOK, Row
<1>2. Revoked(p) \in [Pairs -> Row]
  BY <1>1 DEF Revoked, Row
<1>3. NewPair(p) \in Row
  BY DEF NewPair, Row
<1>4. Unminted # {} => Fresh \in Pairs
  BY FreshIsUnminted DEF Unminted
<1> QED
  BY <1>1, <1>2, <1>3, <1>4, Constants

LEMMA LocksWritten ==
  ASSUME TypeOK, NEW c \in Cli
  PROVE  /\ Release(c) \in [Pairs -> Cli \cup {Nobody}]
         /\ \A p : [lock EXCEPT ![p] = c] \in [Pairs -> Cli \cup {Nobody}]
         /\ \A p : [lock EXCEPT ![p] = Nobody] \in [Pairs -> Cli \cup {Nobody}]
  BY DEF Release, TypeOK

LEMMA FaultCounts == TypeOK /\ Fault => faults' \in 0 .. MaxFaults
  BY SignInAssumption DEF TypeOK, Fault

LEMMA TypeRefreshes ==
  ASSUME TypeOK, NEW c \in Cli, Refreshes(c)
  PROVE  TypeOK'
<1>1. cli[c].mem \in 0 .. MaxPairs /\ {"checks", "rotates", "rejected", "saves"} \subseteq CliPc
  BY DEF TypeOK, CliPc
<1>2. CASE Refresh(c)
  <2>1. cli' \in [Cli -> Process]
    <3>1. PICK k \in {1, 2} :
            Becomes(c, [cli[c] EXCEPT !.pc = "checks", !.tries = k]) \/ Becomes(c, Conflict(c))
      BY <1>2 DEF Refresh
    <3>2. k \in 0 .. 2
      OBVIOUS
    <3> QED
      BY <1>1, <3>1, <3>2, ProcessWritten DEF Conflict
  <2>2. lock' \in [Pairs -> Cli \cup {Nobody}]
    BY <1>2, LocksWritten DEF Refresh, TypeOK
  <2> QED
    BY <1>2, <2>1, <2>2 DEF Refresh, TypeOK, Process, histVars, loginVars
<1>3. CASE Checks(c)
  <2>1. cli' \in [Cli -> Process]
    BY <1>1, <1>3, ProcessWritten DEF Checks
  <2>2. lock' \in [Pairs -> Cli \cup {Nobody}]
    BY <1>3, LocksWritten DEF Checks, TypeOK
  <2> QED
    BY <1>3, <2>1, <2>2 DEF Checks, TypeOK, Process, histVars, loginVars
<1>4. CASE Rotates(c)
  <2>1. pair' \in [Pairs -> Row] /\ Fresh \in 0 .. MaxPairs
    BY <1>1, <1>4, RowsWritten DEF Rotates
  <2>2. cli' \in [Cli -> Process]
    BY <1>1, <1>4, <2>1, ProcessWritten DEF Rotates
  <2>3. lock' \in [Pairs -> Cli \cup {Nobody}]
    BY <1>4, LocksWritten DEF Rotates
  <2> QED
    BY <1>4, <2>1, <2>2, <2>3 DEF Rotates, TypeOK, Process, Row, histVars, loginVars
<1>5. CASE MintFails(c)
  <2>1. cli' \in [Cli -> Process]
    BY <1>5, ProcessWritten DEF MintFails
  <2>2. lock' \in [Pairs -> Cli \cup {Nobody}]
    BY <1>5, LocksWritten DEF MintFails
  <2> QED
    BY <1>5, <2>1, <2>2, FaultCounts DEF MintFails, AfterFailure, TypeOK, Process, loginVars
<1>6. CASE AnswerLost(c) \/ WorkerDies(c)
  <2>1. cli' \in [Cli -> Process]
    BY <1>6, ProcessWritten DEF AnswerLost, WorkerDies
  <2> QED
    BY <1>6, <2>1, FaultCounts DEF AnswerLost, WorkerDies, TypeOK, Process, tokenVars, loginVars
<1> QED
  BY <1>2, <1>3, <1>4, <1>5, <1>6 DEF Refreshes

(* Every pair that the file, a process or a session names was minted, and  *)
(* a login polls a session.                                                *)
Minted(p) == p \in Pairs /\ pair[p].access # "none"
Bearing == {"send", "checks", "rotates", "saves", "rejected", "revokes"}
Known(x) ==
  /\ x.pc \in Bearing => Minted(x.mem)
  /\ x.pc \in {"saves", "signs"} => Minted(x.got)
  /\ x.pc = "polling" => x.session \in Sessions
IdsKnown ==
  /\ file # 0 => Minted(file)
  /\ \A c \in Cli : Known(cli[c])
  /\ \A n \in Sessions : bag[n].status = "completed" => Minted(bag[n].pair)

LEMMA TypeRuns ==
  ASSUME TypeOK, IdsKnown, NEW c \in Cli, Runs(c)
  PROVE  TypeOK'
<1>1. cli[c] \in Process /\ cli[c].mem \in 0 .. MaxPairs /\ cli[c].got \in 0 .. MaxPairs
      /\ {"send", "revokes", "clears"} \subseteq CliPc /\ file \in 0 .. MaxPairs
  BY DEF TypeOK, CliPc, Process
<1>2. ASSUME NEW cmd \in {"call", "logout"}, Starts(c, cmd) PROVE TypeOK'
  <2>1. [IdleCli EXCEPT !.pc = "send", !.cmd = cmd, !.mem = file] \in Process
    BY <1>1, IdleIsProcess DEF Process
  <2>2. cli' \in [Cli -> Process]
    BY <1>2, <2>1, ProcessWritten DEF Starts
  <2> QED
    BY <1>2, <2>2 DEF Starts, TypeOK, Process, histVars, tokenVars, loginVars
<1>3. CASE Served(c) \/ Unauthorized(c)
  <2>1. cli' \in [Cli -> Process]
    BY <1>1, <1>3, IdleIsProcess, ProcessWritten DEF Served, Unauthorized
  <2> QED
    BY <1>3, <2>1 DEF Served, Unauthorized, TypeOK, Process, histVars, tokenVars, loginVars
<1>4. CASE Saves(c)
  <2>1. [cli[c] EXCEPT !.pc = "send", !.mem = cli[c].got, !.got = 0] \in Process
    BY <1>1, Constants DEF Process
  <2>2. cli' \in [Cli -> Process]
    BY <1>4, <2>1, ProcessWritten DEF Saves
  <2> QED
    BY <1>1, <1>4, <2>2 DEF Saves, TypeOK, Process, histVars, tokenVars, loginVars
<1>5. CASE Wipes(c) \/ Clears(c)
  <2>1. cli' \in [Cli -> Process]
    BY <1>5, IdleIsProcess, ProcessWritten DEF Wipes, Clears
  <2> QED
    BY <1>5, <2>1, Constants DEF Wipes, Clears, TypeOK, Process, histVars, tokenVars, loginVars
<1>6. CASE Revokes(c)
  <2>1. cli' \in [Cli -> Process]
    BY <1>1, <1>6, ProcessWritten DEF Revokes
  <2>2. cli[c].mem \in Pairs /\ ended' \subseteq Pairs
    BY <1>6 DEF Revokes, TypeOK, IdsKnown, Known, Bearing, Minted
  <2>3. pair' \in [Pairs -> Row]
    BY <1>1, <1>6, RowsWritten DEF Revokes, LoggedOut, TypeOK, Row
  <2>4. raced' \in BOOLEAN
    BY <1>6 DEF Revokes, TypeOK
  <2> QED
    BY <1>6, <2>1, <2>2, <2>3, <2>4 DEF Revokes, TypeOK, Process, Row, loginVars
<1>7. CASE CliDies(c)
  <2>1. cli' \in [Cli -> Process]
    BY <1>7, IdleIsProcess, ProcessWritten DEF CliDies
  <2> QED
    BY <1>7, <2>1, FaultCounts DEF CliDies, TypeOK, Process, tokenVars, loginVars
<1> QED
  BY <1>2, <1>3, <1>4, <1>5, <1>6, <1>7 DEF Runs

LEMMA TypeLogin ==
  ASSUME TypeOK, IdsKnown, NEW c \in Cli, Login(c) \/ Opens(c)
  PROVE  TypeOK'
<1>1. cli[c] \in Process /\ cli[c].got \in 0 .. MaxPairs /\ cli[c].polls \in 0 .. MaxPolls
      /\ {"polling", "signs"} \subseteq CliPc
  BY DEF TypeOK, CliPc, Process
<1>2. bag \in [Sessions -> Session] /\ Gone \in Session
  BY Constants DEF TypeOK, Session, Gone
<1>3. PollDue(c) => PollAgain(cli[c]) \in Process
  <2> SUFFICES ASSUME PollDue(c) PROVE PollAgain(cli[c]) \in Process
    OBVIOUS
  <2>1. cli[c].polls - 1 \in 0 .. MaxPolls
    BY <1>1, SignInAssumption DEF PollDue
  <2> QED
    BY <1>1, <2>1 DEF PollAgain, Process
<1>4. CASE Opens(c)
  <2>1. PICK n \in Sessions : /\ bag' = [bag EXCEPT ![n].status = "pending"]
                            /\ Becomes(c, [IdleCli EXCEPT !.pc = "polling", !.cmd = "login",
                                                          !.session = n, !.polls = MaxPolls])
    BY <1>4 DEF Opens
  <2>2. [IdleCli EXCEPT !.pc = "polling", !.cmd = "login", !.session = n, !.polls = MaxPolls] \in Process
    BY <1>1, IdleIsProcess, Constants DEF Process
  <2>3. cli' \in [Cli -> Process]
    BY <2>1, <2>2, ProcessWritten
  <2>4. bag' \in [Sessions -> Session]
    BY <1>2, <2>1 DEF Session
  <2> QED
    BY <1>4, <2>3, <2>4 DEF Opens, TypeOK, Process, Session, histVars, tokenVars
<1>5. CASE Polls(c)
  <2> DEFINE n == cli[c].session
  <2>1. n \in Sessions /\ bag' \in [Sessions -> Session]
    BY <1>2, <1>5 DEF Polls, PollDue, IdsKnown, Known
  <2>2. bag[n].pair \in 0 .. MaxPairs
    BY <1>2, <2>1 DEF Session
  <2>3. \/ Becomes(c, [cli[c] EXCEPT !.pc = "signs", !.got = bag[n].pair])
        \/ Becomes(c, PollAgain(cli[c])) /\ PollDue(c)
        \/ Becomes(c, IdleCli)
    BY <1>5 DEF Polls
  <2>4. cli' \in [Cli -> Process]
    BY <1>1, <1>3, <2>2, <2>3, IdleIsProcess, ProcessWritten
  <2> QED
    BY <1>5, <2>1, <2>4 DEF Polls, TypeOK, Process, Session, histVars, tokenVars
<1>6. CASE PollFails(c)
  <2>1. bag' \in [Sessions -> Session]
    BY <1>2, <1>6 DEF PollFails
  <2>2. cli' \in [Cli -> Process]
    BY <1>3, <1>6, ProcessWritten DEF PollFails
  <2> QED
    BY <1>6, <2>1, <2>2 DEF PollFails, TypeOK, Process, Session, histVars, tokenVars
<1>7. CASE SignsIn(c) \/ TimesOut(c)
  <2>1. cli' \in [Cli -> Process]
    BY <1>7, IdleIsProcess, ProcessWritten DEF SignsIn, TimesOut
  <2> QED
    BY <1>1, <1>7, <2>1 DEF SignsIn, TimesOut, TypeOK, Process, histVars, tokenVars, loginVars
<1> QED
  BY <1>4, <1>5, <1>6, <1>7 DEF Login

(* The browser, the cache and the clock.                                   *)
World == \/ \E t \in Tab : Browses(t)
         \/ \E n \in Sessions : Denies(n) \/ BagExpires(n)
         \/ \E p \in Pairs : AccessExpires(p) \/ LockExpires(p)

LEMMA TypeWorld == ASSUME TypeOK, World PROVE TypeOK'
<1>1. bag \in [Sessions -> Session] /\ Gone \in Session /\ pair \in [Pairs -> Row]
  BY Constants DEF TypeOK, Session, Gone, Row
<1>2. ASSUME NEW t \in Tab, CompletePuts(t) PROVE TypeOK'
  <2>1. pair' \in [Pairs -> Row] /\ Fresh \in 0 .. MaxPairs
    BY <1>2, Constants, RowsWritten DEF CompletePuts
  <2>2. [status |-> "completed", pair |-> Fresh] \in Session
    BY <2>1 DEF Session
  <2>3. bag' \in [Sessions -> Session]
    BY <1>1, <1>2, <2>2 DEF CompletePuts
  <2> QED
    BY <1>2, <2>1, <2>3, Constants DEF CompletePuts, TypeOK, Row, Session, histVars
<1>3. ASSUME NEW t \in Tab, NEW n \in Sessions, CompleteReads(t, n) PROVE TypeOK'
  BY <1>3, Constants DEF CompleteReads, TypeOK, histVars, tokenVars
<1>4. ASSUME NEW n \in Sessions, Denies(n) \/ BagExpires(n) PROVE TypeOK'
  <2>1. bag' \in [Sessions -> Session]
    BY <1>1, <1>4 DEF Denies, BagExpires
  <2> QED
    BY <1>4, <2>1 DEF Denies, BagExpires, TypeOK, Session, histVars, tokenVars
<1>5. ASSUME NEW p \in Pairs, AccessExpires(p) PROVE TypeOK'
  <2>1. pair' \in [Pairs -> Row]
    BY <1>1, <1>5 DEF AccessExpires, Row
  <2> QED
    BY <1>5, <2>1 DEF AccessExpires, TypeOK, Row, histVars, loginVars
<1>6. ASSUME NEW p \in Pairs, LockExpires(p) PROVE TypeOK'
  <2>1. faults' \in 0 .. MaxFaults /\ lapsed' \in BOOLEAN
    BY <1>6, FaultCounts DEF LockExpires, TypeOK
  <2> QED
    BY <1>6, <2>1, LocksWritten DEF LockExpires, TypeOK, loginVars
<1> QED
  BY <1>2, <1>3, <1>4, <1>5, <1>6 DEF World, Browses

LEMMA NextShape ==
  [Next]_vars => \/ UNCHANGED vars \/ World
                 \/ \E c \in Cli : Refreshes(c) \/ Login(c) \/ Opens(c) \/ Runs(c)
  BY DEF Next, World

LEMMA TypeNext == TypeOK /\ IdsKnown /\ [Next]_vars => TypeOK'
<1> SUFFICES ASSUME TypeOK, IdsKnown, [Next]_vars PROVE TypeOK'
  OBVIOUS
<1>1. CASE UNCHANGED vars
  BY <1>1 DEF TypeOK, vars
<1> QED
  BY <1>1, NextShape, TypeRefreshes, TypeLogin, TypeRuns, TypeWorld

-----------------------------------------------------------------------------
(* A pair stays minted, and whoever names one got it from a mint.          *)

MintedNext(p) == p \in Pairs /\ pair'[p].access # "none"

LEMMA MintedStays ==
  ASSUME TypeOK, [Next]_vars, NEW p, Minted(p)
  PROVE  MintedNext(p)
<1>1. pair \in [Pairs -> Row] /\ p \in Pairs /\ pair[p].access # "none"
  BY DEF TypeOK, Row, Minted
<1>2. ASSUME NEW q PROVE /\ Revoked(q)[p].access # "none"
                         /\ [Revoked(q) EXCEPT ![Fresh] = NewPair(q)][p].access # "none"
                         /\ [pair EXCEPT ![Fresh] = NewPair(q)][p].access # "none"
                         /\ [pair EXCEPT ![q].access = "expired"][p].access # "none"
  <2>1. Revoked(q) \in [Pairs -> Row] /\ Revoked(q)[p].access # "none"
    BY <1>1 DEF Revoked, Row
  <2>2. NewPair(q).access # "none"
    BY DEF NewPair
  <2>3. [pair EXCEPT ![q].access = "expired"][p].access # "none"
    BY <1>1 DEF Row
  <2> QED
    BY <1>1, <2>1, <2>2, <2>3
<1>3. \/ pair' = pair
      \/ \E q : \/ pair' = Revoked(q)
                \/ pair' = [Revoked(q) EXCEPT ![Fresh] = NewPair(q)]
                \/ pair' = [pair EXCEPT ![Fresh] = NewPair(q)]
                \/ pair' = [pair EXCEPT ![q].access = "expired"]
  BY NextShape DEF World, Browses, Refreshes, Login, Runs, vars, tokenVars, Refresh, Checks, Rotates,
     MintFails, AfterFailure, AnswerLost, WorkerDies, Starts, Served, Unauthorized, Saves, Wipes, Revokes,
     LoggedOut, Clears, CliDies, Opens, Polls, PollFails, SignsIn, TimesOut, CompleteReads, CompletePuts,
     Denies, BagExpires, AccessExpires, LockExpires
<1> QED
  BY <1>1, <1>2, <1>3 DEF MintedNext

(* The process that acts knows what it names.                              *)
KnownNext(x) ==
  /\ x.pc \in Bearing => MintedNext(x.mem)
  /\ x.pc \in {"saves", "signs"} => MintedNext(x.got)
  /\ x.pc = "polling" => x.session \in Sessions

LEMMA KnownAfter ==
  ASSUME TypeOK, IdsKnown, [Next]_vars, NEW c \in Cli,
         Refreshes(c) \/ Login(c) \/ Opens(c) \/ Runs(c)
  PROVE  KnownNext(cli'[c]) /\ (file' = file \/ file' = 0 \/ MintedNext(file'))
<1> DEFINE x == cli[c]
<1>1. x \in Process /\ Known(x)
  BY DEF TypeOK, Process, IdsKnown
<1>2. ASSUME NEW y, Becomes(c, y) PROVE cli'[c] = y
  BY <1>2 DEF Becomes, TypeOK
<1>3. KnownNext(IdleCli) /\ KnownNext(Fails(c))
  BY DEF IdleCli, Fails, KnownNext, Bearing
<1>4. ASSUME NEW pc \in Bearing \ {"saves"}, x.pc \in Bearing
      PROVE  /\ KnownNext([x EXCEPT !.pc = pc])
             /\ \A k : KnownNext([x EXCEPT !.pc = pc, !.tries = k])
  <2>1. MintedNext(x.mem)
    BY <1>1, <1>4, MintedStays DEF Known
  <2> QED
    BY <1>1, <1>4, <2>1 DEF KnownNext, Process, Bearing
<1>5. CASE Refreshes(c)
  <2>1. file' = file
    BY <1>5 DEF Refreshes, Refresh, Checks, Rotates, MintFails, AnswerLost, WorkerDies
  <2>2. ASSUME Refresh(c) PROVE KnownNext(cli'[c])
    <3>1. PICK k : \/ Becomes(c, [x EXCEPT !.pc = "checks", !.tries = k])
                   \/ Becomes(c, Conflict(c))
      BY <2>2 DEF Refresh
    <3>2. x.pc = "send"
      BY <2>2 DEF Refresh
    <3>3. KnownNext([x EXCEPT !.pc = "checks", !.tries = k]) /\ KnownNext(Conflict(c))
      <4>1. "checks" \in Bearing \ {"saves"} /\ x.pc \in Bearing
        BY <3>2 DEF Bearing
      <4> QED
        BY <1>3, <1>4, <4>1 DEF Conflict
    <3> QED
      BY <1>2, <3>1, <3>3
  <2>3. ASSUME Checks(c) PROVE KnownNext(cli'[c])
    <3>1. x.pc = "checks" /\ \E pc \in {"rotates", "rejected"} : Becomes(c, [x EXCEPT !.pc = pc])
      BY <2>3 DEF Checks
    <3> QED
      BY <1>2, <1>4, <3>1 DEF Bearing
  <2>4. ASSUME Rotates(c) PROVE KnownNext(cli'[c])
    <3>1. Becomes(c, [x EXCEPT !.pc = "saves", !.got = Fresh]) /\ x.pc = "rotates"
      BY <2>4 DEF Rotates
    <3>2. MintedNext(x.mem)
      BY <1>1, <3>1, MintedStays DEF Known, Bearing
    <3>3. MintedNext(Fresh)
      <4>1. Fresh \in Pairs /\ Revoked(x.mem) \in [Pairs -> Row]
        BY <1>1, <2>4, FreshIsUnminted, RowsWritten DEF Rotates, Unminted, Process
      <4>2. pair'[Fresh] = NewPair(x.mem)
        BY <2>4, <4>1 DEF Rotates
      <4> QED
        BY <4>1, <4>2 DEF MintedNext, NewPair
    <3> QED
      BY <1>1, <1>2, <3>1, <3>2, <3>3 DEF KnownNext, Process, Bearing
  <2>5. ASSUME MintFails(c) \/ AnswerLost(c) \/ WorkerDies(c) PROVE KnownNext(cli'[c])
    <3>1. Becomes(c, Fails(c))
      BY <2>5 DEF MintFails, AnswerLost, WorkerDies
    <3> QED
      BY <1>2, <1>3, <3>1
  <2> QED
    BY <1>5, <2>1, <2>2, <2>3, <2>4, <2>5 DEF Refreshes
<1>6. CASE Login(c) \/ Opens(c)
  <2>1. ASSUME Opens(c) PROVE KnownNext(cli'[c]) /\ file' = file
    <3>1. PICK n \in Sessions : Becomes(c, [IdleCli EXCEPT !.pc = "polling", !.cmd = "login",
                                                          !.session = n, !.polls = MaxPolls])
      BY <2>1 DEF Opens
    <3>2. KnownNext([IdleCli EXCEPT !.pc = "polling", !.cmd = "login", !.session = n, !.polls = MaxPolls])
      BY DEF IdleCli, KnownNext, Bearing
    <3> QED
      BY <1>2, <2>1, <3>1, <3>2 DEF Opens
  <2>2. PollDue(c) => KnownNext(PollAgain(x))
    BY <1>1 DEF PollDue, PollAgain, Process, Known, KnownNext, Bearing
  <2>3. ASSUME Polls(c) PROVE KnownNext(cli'[c]) /\ file' = file
    <3> DEFINE n == x.session
    <3>1. PollDue(c) /\ file' = file /\ n \in Sessions
      BY <1>1, <2>3 DEF Polls, PollDue, Known
    <3>2. CASE bag[n].status = "completed"
      <4>1. Becomes(c, [x EXCEPT !.pc = "signs", !.got = bag[n].pair])
        BY <2>3, <3>2 DEF Polls
      <4>2. MintedNext(bag[n].pair)
        BY <3>1, <3>2, MintedStays DEF IdsKnown
      <4>3. KnownNext([x EXCEPT !.pc = "signs", !.got = bag[n].pair])
        BY <1>1, <4>2 DEF KnownNext, Process, Bearing
      <4> QED
        BY <1>2, <3>1, <4>1, <4>3
    <3>3. CASE bag[n].status # "completed"
      BY <1>2, <1>3, <2>2, <2>3, <3>1, <3>3 DEF Polls
    <3> QED
      BY <3>2, <3>3
  <2>4. ASSUME PollFails(c) PROVE KnownNext(cli'[c]) /\ file' = file
    BY <1>2, <2>2, <2>4 DEF PollFails
  <2>5. ASSUME SignsIn(c) PROVE KnownNext(cli'[c]) /\ MintedNext(file')
    <3>1. file' = x.got /\ Minted(x.got) /\ Becomes(c, IdleCli)
      BY <1>1, <2>5 DEF SignsIn, Known
    <3> QED
      BY <1>2, <1>3, <3>1, MintedStays
  <2>6. ASSUME TimesOut(c) PROVE KnownNext(cli'[c]) /\ file' = file
    BY <1>2, <1>3, <2>6 DEF TimesOut
  <2> QED
    BY <1>6, <2>1, <2>3, <2>4, <2>5, <2>6 DEF Login
<1>7. CASE Runs(c)
  <2>1. ASSUME NEW cmd, Starts(c, cmd) PROVE KnownNext(cli'[c]) /\ file' = file
    <3>1. Minted(file) /\ file' = file
      BY <2>1 DEF Starts, IdsKnown
    <3>2. KnownNext([IdleCli EXCEPT !.pc = "send", !.cmd = cmd, !.mem = file])
      BY <3>1, MintedStays DEF IdleCli, KnownNext, Bearing
    <3> QED
      BY <1>2, <2>1, <3>1, <3>2 DEF Starts
  <2>2. ASSUME Served(c) \/ Unauthorized(c) PROVE KnownNext(cli'[c]) /\ file' = file
    BY <1>2, <1>3, <1>4, <2>2 DEF Served, Unauthorized, Bearing
  <2>3. ASSUME Saves(c) PROVE KnownNext(cli'[c]) /\ MintedNext(file')
    <3>1. file' = x.got /\ Minted(x.got)
      BY <1>1, <2>3 DEF Saves, Known
    <3>2. MintedNext(x.got)
      BY <3>1, MintedStays
    <3>3. KnownNext([x EXCEPT !.pc = "send", !.mem = x.got, !.got = 0])
      BY <1>1, <3>2 DEF KnownNext, Process, Bearing
    <3> QED
      BY <1>2, <2>3, <3>1, <3>2, <3>3 DEF Saves
  <2>4. ASSUME Wipes(c) \/ Clears(c) PROVE KnownNext(cli'[c]) /\ file' = 0
    BY <1>2, <1>3, <2>4 DEF Wipes, Clears
  <2>5. ASSUME Revokes(c) PROVE KnownNext(cli'[c]) /\ file' = file
    <3>1. KnownNext([x EXCEPT !.pc = "clears"])
      BY <1>1 DEF KnownNext, Process, Bearing
    <3> QED
      BY <1>2, <2>5, <3>1 DEF Revokes
  <2>6. ASSUME CliDies(c) PROVE KnownNext(cli'[c]) /\ file' = file
    BY <1>2, <1>3, <2>6 DEF CliDies
  <2> QED
    BY <1>7, <2>1, <2>2, <2>3, <2>4, <2>5, <2>6 DEF Runs
<1> QED
  BY <1>5, <1>6, <1>7

(* What a step leaves a completed session with.                            *)
LEMMA BagAfter ==
  ASSUME TypeOK, IdsKnown, [Next]_vars, NEW n \in Sessions, bag'[n].status = "completed"
  PROVE  MintedNext(bag'[n].pair)
<1>1. bag \in [Sessions -> Session] /\ Gone.status = "gone"
  BY DEF TypeOK, Session, Gone
<1>2. CASE bag' = bag
  BY <1>2, MintedStays DEF IdsKnown
<1>3. ASSUME NEW m \in Sessions, bag' = [bag EXCEPT ![m].status = "pending"] PROVE MintedNext(bag'[n].pair)
  <2>1. bag'[n] = bag[n]
    BY <1>1, <1>3 DEF Session
  <2> QED
    BY <2>1, MintedStays DEF IdsKnown
<1>4. ASSUME NEW m, bag' = [bag EXCEPT ![m] = Gone] PROVE MintedNext(bag'[n].pair)
  <2>1. bag'[n] = bag[n]
    BY <1>1, <1>4
  <2> QED
    BY <2>1, MintedStays DEF IdsKnown
<1>5. ASSUME NEW t \in Tab, CompletePuts(t) PROVE MintedNext(bag'[n].pair)
  <2>1. CASE n = tab[t]
    <3>1. bag'[n] = [status |-> "completed", pair |-> Fresh] /\ Fresh \in Pairs
      BY <1>1, <1>5, <2>1, FreshIsUnminted DEF CompletePuts, Unminted
    <3>2. pair'[Fresh] = NewPair(0)
      BY <1>5, <3>1 DEF CompletePuts, TypeOK
    <3> QED
      BY <3>1, <3>2 DEF MintedNext, NewPair
  <2>2. CASE n # tab[t]
    <3>1. bag'[n] = bag[n]
      BY <1>1, <1>5, <2>2 DEF CompletePuts
    <3> QED
      BY <3>1, MintedStays DEF IdsKnown
  <2> QED
    BY <2>1, <2>2
<1>6. ASSUME NEW c \in Cli, Opens(c)
      PROVE  \E m \in Sessions : bag' = [bag EXCEPT ![m].status = "pending"]
  BY <1>6 DEF Opens
<1>7. ASSUME NEW c \in Cli, Login(c) PROVE bag' = bag \/ \E m : bag' = [bag EXCEPT ![m] = Gone]
  BY <1>7 DEF Login, Polls, PollFails, SignsIn, TimesOut, loginVars
<1>8. ASSUME NEW c \in Cli, Refreshes(c) \/ Runs(c) PROVE bag' = bag
  BY <1>8 DEF Refreshes, Refresh, Checks, Rotates, MintFails, AnswerLost, WorkerDies, Runs, Starts, Served,
     Unauthorized, Saves, Wipes, Revokes, Clears, CliDies, loginVars
<1>9. CASE World
  BY <1>2, <1>4, <1>5, <1>9 DEF World, Browses, CompleteReads, Denies, BagExpires, AccessExpires,
     LockExpires, loginVars
<1> QED
  BY <1>2, <1>3, <1>4, <1>6, <1>7, <1>8, <1>9, NextShape DEF vars

LEMMA IdsKnownNext == TypeOK /\ IdsKnown /\ [Next]_vars => IdsKnown'
<1> SUFFICES ASSUME TypeOK, IdsKnown, [Next]_vars PROVE IdsKnown'
  OBVIOUS
<1>1. \A n \in Sessions : bag'[n].status = "completed" => MintedNext(bag'[n].pair)
  BY BagAfter
<1>2. ASSUME NEW c \in Cli, cli'[c] = cli[c] PROVE KnownNext(cli'[c])
  BY <1>2, MintedStays DEF IdsKnown, Known, KnownNext
<1>3. CASE file' = file /\ cli' = cli
  <2>1. file' # 0 => MintedNext(file')
    BY <1>3, MintedStays DEF IdsKnown
  <2> QED
    BY <1>1, <1>2, <1>3, <2>1 DEF IdsKnown, Known, KnownNext, Minted, MintedNext
<1>4. ASSUME NEW c \in Cli, Refreshes(c) \/ Login(c) \/ Opens(c) \/ Runs(c) PROVE IdsKnown'
  <2>1. KnownNext(cli'[c]) /\ (file' # 0 => MintedNext(file'))
    BY <1>4, KnownAfter, MintedStays DEF IdsKnown
  <2>2. \A d \in Cli \ {c} : cli'[d] = cli[d]
    <3>1. \E y : Becomes(c, y)
      BY <1>4 DEF Refreshes, Refresh, Checks, Rotates, MintFails, AnswerLost, WorkerDies, Runs, Starts, Served,
         Unauthorized, Saves, Wipes, Revokes, Clears, CliDies, Opens, Login, Polls, PollFails, SignsIn, TimesOut
    <3> QED
      BY <3>1 DEF Becomes, TypeOK
  <2>3. \A d \in Cli : KnownNext(cli'[d])
    BY <1>2, <2>1, <2>2
  <2> QED
    BY <1>1, <2>1, <2>3 DEF IdsKnown, Known, KnownNext, Minted, MintedNext
<1>5. UNCHANGED vars \/ World => file' = file /\ cli' = cli
  BY DEF vars, World, Browses, CompleteReads, CompletePuts, Denies, BagExpires, AccessExpires, LockExpires
<1> QED
  BY <1>3, <1>4, <1>5, NextShape

LEMMA IdsKnownInit == Init => IdsKnown
  BY Constants DEF Init, IdsKnown, Known, Bearing, Minted, IdleCli, NewPair

(* The rows, the file, the processes, the locks and the sessions keep      *)
(* their types, and nobody names a pair that was not minted.               *)
THEOREM TypeCorrect == Spec => [](TypeOK /\ IdsKnown)
<1> QED
  BY TypeInit, IdsKnownInit, TypeNext, IdsKnownNext, PTL DEF Spec

-----------------------------------------------------------------------------
(* A denied session.                                                       *)

(* It is gone from the cache, and no tab is completing it.                 *)
DeniedGone == \A n \in denied : n \in Sessions /\ bag[n].status = "gone" /\ \A t \in Tab : tab[t] # n

LEMMA DeniedGoneNext == TypeOK /\ DeniedGone /\ [Next]_vars => DeniedGone'
<1> SUFFICES ASSUME TypeOK, DeniedGone, [Next]_vars, NEW n \in denied'
             PROVE  n \in Sessions /\ bag'[n].status = "gone" /\ \A t \in Tab : tab'[t] # n
  BY DEF DeniedGone
<1>1. bag \in [Sessions -> Session] /\ Gone.status = "gone" /\ tab \in [Tab -> 0 .. MaxSessions]
  BY DEF TypeOK, Session, Gone
<1>2. ASSUME n \in denied, bag' = bag \/ (\E m : bag' = [bag EXCEPT ![m] = Gone]), tab' = tab
      PROVE  n \in Sessions /\ bag'[n].status = "gone" /\ \A t \in Tab : tab'[t] # n
  BY <1>1, <1>2 DEF DeniedGone
<1>3. ASSUME NEW c \in Cli, Opens(c)
      PROVE  n \in Sessions /\ bag'[n].status = "gone" /\ \A t \in Tab : tab'[t] # n
  <2>1. n \in denied /\ tab' = tab /\ n \in Sessions /\ bag[n].status = "gone"
    BY <1>3 DEF Opens, DeniedGone
  <2>2. PICK m \in Sessions : bag[m].status = "new" /\ bag' = [bag EXCEPT ![m].status = "pending"]
    BY <1>3 DEF Opens
  <2>3. bag'[n] = bag[n]
    BY <1>1, <2>1, <2>2
  <2> QED
    BY <2>1, <2>3 DEF DeniedGone
<1>4. ASSUME NEW c \in Cli, Login(c) \/ Refreshes(c) \/ Runs(c)
      PROVE  n \in denied /\ tab' = tab /\ (bag' = bag \/ \E m : bag' = [bag EXCEPT ![m] = Gone])
  BY <1>4 DEF Login, Polls, PollFails, SignsIn, TimesOut, Refreshes, Refresh, Checks, Rotates, MintFails,
     AnswerLost, WorkerDies, Runs, Starts, Served, Unauthorized, Saves, Wipes, Revokes, Clears, CliDies,
     loginVars
<1>5. ASSUME NEW t \in Tab, CompletePuts(t)
      PROVE  n \in Sessions /\ bag'[n].status = "gone" /\ \A u \in Tab : tab'[u] # n
  <2>1. n \in denied /\ n \in Sessions /\ n # tab[t] /\ n # 0
    BY <1>5, SignInAssumption DEF CompletePuts, DeniedGone, Sessions
  <2> QED
    BY <1>1, <1>5, <2>1 DEF CompletePuts, DeniedGone
<1>6. ASSUME NEW t \in Tab, NEW m \in Sessions, CompleteReads(t, m)
      PROVE  n \in Sessions /\ bag'[n].status = "gone" /\ \A u \in Tab : tab'[u] # n
  BY <1>1, <1>6 DEF CompleteReads, MayComplete, DeniedGone
<1>7. ASSUME NEW m \in Sessions, Denies(m)
      PROVE  n \in Sessions /\ bag'[n].status = "gone" /\ \A u \in Tab : tab'[u] # n
  BY <1>1, <1>7 DEF Denies, Completing, DeniedGone
<1>8. ASSUME NEW m \in Sessions, BagExpires(m)
      PROVE  n \in denied /\ tab' = tab /\ bag' = [bag EXCEPT ![m] = Gone]
  BY <1>8 DEF BagExpires
<1>9. ASSUME NEW p \in Pairs, AccessExpires(p) \/ LockExpires(p)
      PROVE  n \in denied /\ tab' = tab /\ bag' = bag
  BY <1>9 DEF AccessExpires, LockExpires, loginVars
<1>10. UNCHANGED vars => n \in denied /\ tab' = tab /\ bag' = bag
  BY DEF vars
<1> QED
  BY <1>2, <1>3, <1>4, <1>5, <1>6, <1>7, <1>8, <1>9, <1>10, NextShape DEF World, Browses

(* A session that was denied stays so: what completes it must have read it *)
(* before the denial (DeviceSessionCompleteView.post).                     *)
THEOREM DeniedForGood == Spec => []DeniedStays
<1>1. Init => DeniedGone
  BY DEF Init, DeniedGone
<1>2. DeniedGone => DeniedStays
  BY DEF DeniedGone, DeniedStays
<1> QED
  BY <1>1, <1>2, DeniedGoneNext, TypeCorrect, PTL DEF Spec

-----------------------------------------------------------------------------
(* What a step does to a pair.                                             *)
RowRevoked(p) ==
  /\ Minted(p)
  /\ pair'[p] = [pair[p] EXCEPT !.access = "gone", !.refresh = "revoked"]
  /\ \E c \in Cli : cli[c].mem = p /\ \/ Revokes(c) /\ pair[p].access # "gone"
                                      \/ Rotates(c)
RowMinted(p) ==
  /\ pair[p].access = "none"
  /\ \/ pair'[p] = NewPair(0)
     \/ \E c \in Cli : Rotates(c) /\ pair'[p] = NewPair(cli[c].mem)
RowExpired(p) == pair[p].access = "live" /\ pair'[p] = [pair[p] EXCEPT !.access = "expired"]

LEMMA RotationSteps ==
  ASSUME TypeOK, IdsKnown, NEW c \in Cli, Rotates(c)
  PROVE  /\ Minted(cli[c].mem) /\ Fresh \in Pairs /\ Fresh # cli[c].mem /\ pair[Fresh].access = "none"
         /\ pair'[Fresh] = NewPair(cli[c].mem)
         /\ pair'[cli[c].mem] = [pair[cli[c].mem] EXCEPT !.access = "gone", !.refresh = "revoked"]
         /\ \A p \in Pairs \ {Fresh, cli[c].mem} : pair'[p] = pair[p]
<1>1. pair \in [Pairs -> Row] /\ Minted(cli[c].mem) /\ Fresh \in Unminted
  BY FreshIsUnminted DEF TypeOK, Row, IdsKnown, Known, Bearing, Rotates
<1>2. Fresh \in Pairs /\ Fresh # cli[c].mem /\ cli[c].mem \in Pairs /\ pair[Fresh].access = "none"
  BY <1>1 DEF Unminted, Minted
<1> QED
  BY <1>1, <1>2 DEF Rotates, Revoked

LEMMA RowSteps ==
  ASSUME TypeOK, IdsKnown, [Next]_vars, NEW p \in Pairs
  PROVE  pair'[p] = pair[p] \/ RowRevoked(p) \/ RowMinted(p) \/ RowExpired(p)
<1>1. pair \in [Pairs -> Row]
  BY DEF TypeOK, Row
<1>2. ASSUME NEW c \in Cli, Rotates(c) PROVE pair'[p] = pair[p] \/ RowRevoked(p) \/ RowMinted(p)
  BY <1>2, RotationSteps DEF RowRevoked, RowMinted
<1>3. ASSUME NEW c \in Cli, Revokes(c) PROVE pair'[p] = pair[p] \/ RowRevoked(p)
  <2>1. Minted(cli[c].mem)
    BY <1>3 DEF Revokes, IdsKnown, Known, Bearing
  <2> QED
    BY <1>1, <1>3, <2>1 DEF Revokes, LoggedOut, Revoked, RowRevoked
<1>4. ASSUME NEW t \in Tab, CompletePuts(t) PROVE pair'[p] = pair[p] \/ RowMinted(p)
  <2>1. Fresh \in Unminted
    BY <1>4, FreshIsUnminted DEF CompletePuts
  <2> QED
    BY <1>1, <1>4, <2>1 DEF CompletePuts, Unminted, RowMinted
<1>5. ASSUME NEW q \in Pairs, AccessExpires(q) PROVE pair'[p] = pair[p] \/ RowExpired(p)
  BY <1>1, <1>5 DEF AccessExpires, RowExpired
<1>6. ASSUME NEW c \in Cli, Refreshes(c), ~Rotates(c) PROVE pair' = pair
  BY <1>6 DEF Refreshes, Refresh, Checks, MintFails, AfterFailure, AnswerLost, WorkerDies, tokenVars
<1>7. ASSUME NEW c \in Cli, Login(c) \/ Opens(c) \/ (Runs(c) /\ ~Revokes(c)) PROVE pair' = pair
  BY <1>7 DEF Login, Opens, Polls, PollFails, SignsIn, TimesOut, Runs, Starts, Served, Unauthorized, Saves,
     Wipes, Clears, CliDies, tokenVars
<1>8. CASE World
  <2>1. ASSUME NEW t \in Tab, NEW n \in Sessions, CompleteReads(t, n) PROVE pair' = pair
    BY <2>1 DEF CompleteReads, tokenVars
  <2>2. ASSUME NEW n \in Sessions, Denies(n) \/ BagExpires(n) PROVE pair' = pair
    BY <2>2 DEF Denies, BagExpires, tokenVars
  <2>3. ASSUME NEW q \in Pairs, LockExpires(q) PROVE pair' = pair
    BY <2>3 DEF LockExpires
  <2> QED
    BY <1>4, <1>5, <1>8, <2>1, <2>2, <2>3 DEF World, Browses
<1> QED
  BY <1>2, <1>3, <1>6, <1>7, <1>8, NextShape DEF vars

-----------------------------------------------------------------------------
(* Pairs and what replaced them.                                           *)

(* A row that was not minted is clean; a revoked refresh token has no      *)
(* access token; a pair that was replaced is revoked.                      *)
PairRules ==
  \A p \in Pairs :
    /\ pair[p].access = "none" => pair[p].refresh = "none" /\ pair[p].parent = 0
    /\ pair[p].refresh = "revoked" => pair[p].access = "gone"
    /\ pair[p].parent # 0 => pair[p].parent \in Pairs /\ pair[pair[p].parent].refresh = "revoked"

LEMMA MintedRow ==
  ASSUME NEW p \in Pairs, RowMinted(p)
  PROVE  pair'[p].access = "live" /\ pair'[p].refresh = "live"
<1>1. \A x : NewPair(x).access = "live" /\ NewPair(x).refresh = "live"
  BY DEF NewPair
<1>2. CASE pair'[p] = NewPair(0)
  BY <1>1, <1>2
<1>3. ASSUME NEW c \in Cli, pair'[p] = NewPair(cli[c].mem)
      PROVE  pair'[p].access = "live" /\ pair'[p].refresh = "live"
  BY <1>1, <1>3
<1> QED
  BY <1>2, <1>3 DEF RowMinted

LEMMA RevokedStays ==
  ASSUME TypeOK, IdsKnown, PairRules, [Next]_vars, NEW p \in Pairs, pair[p].refresh = "revoked"
  PROVE  pair'[p].refresh = "revoked"
<1>1. pair[p] \in Row /\ pair[p].access = "gone"
  BY DEF TypeOK, Row, PairRules
<1>2. ~RowMinted(p) /\ ~RowExpired(p)
  BY <1>1 DEF RowMinted, RowExpired
<1>3. RowRevoked(p) => pair'[p].refresh = "revoked"
  BY <1>1 DEF RowRevoked, Row
<1> QED
  BY <1>2, <1>3, RowSteps

LEMMA ParentStays ==
  ASSUME TypeOK, IdsKnown, PairRules, [Next]_vars, NEW p \in Pairs, Minted(p)
  PROVE  pair'[p].parent = pair[p].parent
<1>1. pair[p] \in Row /\ ~RowMinted(p)
  BY DEF TypeOK, Row, Minted, RowMinted
<1>2. RowRevoked(p) \/ RowExpired(p) => pair'[p].parent = pair[p].parent
  BY <1>1 DEF RowRevoked, RowExpired, Row
<1> QED
  BY <1>1, <1>2, RowSteps

(* Only a rotation gives a pair a parent.                                  *)
LEMMA ParentSteps ==
  ASSUME TypeOK, IdsKnown, PairRules, [Next]_vars, NEW p \in Pairs, pair'[p].parent # 0
  PROVE  \/ pair'[p].parent = pair[p].parent
         \/ \E c \in Cli : Rotates(c) /\ p = Fresh /\ pair'[p].parent = cli[c].mem
<1>1. pair \in [Pairs -> Row]
  BY DEF TypeOK, Row
<1>2. CASE RowMinted(p)
  <2>1. PICK c \in Cli : Rotates(c) /\ pair'[p] = NewPair(cli[c].mem)
    BY <1>2 DEF RowMinted, NewPair
  <2>2. p # cli[c].mem /\ (p = Fresh \/ pair'[p] = pair[p])
    BY <1>2, <2>1, RotationSteps DEF RowMinted, Minted
  <2> QED
    BY <2>1, <2>2 DEF NewPair
<1>3. CASE RowRevoked(p) \/ RowExpired(p)
  BY <1>1, <1>3 DEF RowRevoked, RowExpired, Row
<1> QED
  BY <1>2, <1>3, RowSteps

LEMMA PairRulesInit == Init => PairRules
  BY DEF Init, PairRules, NewPair, NoPair

LEMMA PairRulesNext == TypeOK /\ IdsKnown /\ PairRules /\ [Next]_vars => PairRules'
<1> SUFFICES ASSUME TypeOK, IdsKnown, PairRules, [Next]_vars, NEW p \in Pairs
             PROVE  /\ pair'[p].access = "none" => pair'[p].refresh = "none" /\ pair'[p].parent = 0
                    /\ pair'[p].refresh = "revoked" => pair'[p].access = "gone"
                    /\ pair'[p].parent # 0 => /\ pair'[p].parent \in Pairs
                                              /\ pair'[pair'[p].parent].refresh = "revoked"
  BY DEF PairRules
<1>1. pair[p] \in Row
  BY DEF TypeOK, Row
<1>2. /\ pair'[p].access = "none" => pair'[p].refresh = "none" /\ pair'[p].parent = 0
      /\ pair'[p].refresh = "revoked" => pair'[p].access = "gone"
  <2>1. CASE RowMinted(p)
    BY <2>1, MintedRow
  <2>2. CASE pair'[p] = pair[p]
    BY <2>2 DEF PairRules
  <2>3. CASE RowRevoked(p)
    BY <1>1, <2>3 DEF RowRevoked, Row
  <2>4. CASE RowExpired(p)
    <3>1. pair[p].refresh # "revoked" /\ pair'[p].access = "expired" /\ pair'[p].refresh = pair[p].refresh
      BY <1>1, <2>4 DEF RowExpired, PairRules, Row
    <3> QED
      BY <3>1
  <2> QED
    BY <2>1, <2>2, <2>3, <2>4, RowSteps
<1>3. ASSUME pair'[p].parent # 0
      PROVE  pair'[p].parent \in Pairs /\ pair'[pair'[p].parent].refresh = "revoked"
  <2>1. CASE pair'[p].parent = pair[p].parent
    BY <1>3, <2>1, RevokedStays DEF PairRules
  <2>2. ASSUME NEW c \in Cli, Rotates(c), pair'[p].parent = cli[c].mem
        PROVE  pair'[p].parent \in Pairs /\ pair'[pair'[p].parent].refresh = "revoked"
    <3>1. /\ cli[c].mem \in Pairs
          /\ pair'[cli[c].mem] = [pair[cli[c].mem] EXCEPT !.access = "gone", !.refresh = "revoked"]
      BY <2>2, RotationSteps DEF Minted
    <3>2. pair[cli[c].mem] \in Row
      BY <3>1 DEF TypeOK, Row
    <3> QED
      BY <2>2, <3>1, <3>2 DEF Row
  <2> QED
    BY <1>3, <2>1, <2>2, ParentSteps
<1> QED
  BY <1>2, <1>3

LEMMA EndedGrows ==
  ASSUME [Next]_vars
  PROVE  /\ ended \subseteq ended' /\ (lapsed => lapsed') /\ (raced => raced')
         /\ \A c \in Cli : Revokes(c) => cli[c].mem \in ended'
         /\ (\A c \in Cli : ~Revokes(c)) => ended' = ended
<1>1. ASSUME NEW c \in Cli, Refreshes(c) \/ Login(c) \/ Opens(c) PROVE UNCHANGED <<ended, lapsed, raced>>
  BY <1>1 DEF Refreshes, Refresh, Checks, Rotates, MintFails, AnswerLost, WorkerDies, Login, Opens, Polls,
     PollFails, SignsIn, TimesOut, histVars
<1>2. ASSUME NEW c \in Cli, Runs(c), ~Revokes(c) PROVE UNCHANGED <<ended, lapsed, raced>>
  BY <1>2 DEF Runs, Starts, Served, Unauthorized, Saves, Wipes, Clears, CliDies, histVars
<1>3. ASSUME NEW c \in Cli, Revokes(c)
      PROVE  ended' = ended \cup {cli[c].mem} /\ lapsed' = lapsed /\ (raced => raced')
  BY <1>3 DEF Revokes
<1>4. World => ended' = ended /\ (lapsed => lapsed') /\ raced' = raced
  BY DEF World, Browses, CompleteReads, CompletePuts, Denies, BagExpires, AccessExpires, LockExpires, histVars
<1>5. \A c \in Cli : Revokes(c) => cli[c].mem \in ended'
  BY DEF Revokes
<1> QED
  BY <1>1, <1>2, <1>3, <1>4, <1>5, NextShape DEF vars

LEMMA CauseNext == TypeOK /\ IdsKnown /\ PairRules /\ RevokedForCause /\ [Next]_vars => RevokedForCause'
<1> SUFFICES ASSUME TypeOK, IdsKnown, PairRules, RevokedForCause, [Next]_vars,
                    NEW p \in Pairs, pair'[p].refresh = "revoked"
             PROVE  p \in ended' \/ \E q \in Pairs : pair'[q].parent = p
  BY DEF RevokedForCause
<1>1. pair[p] \in Row
  BY DEF TypeOK, Row
<1>2. CASE pair[p].refresh = "revoked"
  <2>1. CASE p \in ended
    BY <2>1, EndedGrows
  <2>2. CASE \E q \in Pairs : pair[q].parent = p
    <3>1. PICK q \in Pairs : pair[q].parent = p
      BY <2>2
    <3>2. Minted(q)
      BY <3>1, SignInAssumption DEF PairRules, Minted, Pairs
    <3> QED
      BY <3>1, <3>2, ParentStays
  <2> QED
    BY <1>2, <2>1, <2>2 DEF RevokedForCause
<1>3. CASE pair[p].refresh # "revoked"
  <2>1. RowRevoked(p)
    <3>1. ~RowMinted(p)
      BY MintedRow
    <3>2. ~RowExpired(p)
      BY <1>1, <1>3 DEF RowExpired, Row
    <3> QED
      BY <1>3, <3>1, <3>2, RowSteps
  <2>2. PICK c \in Cli : cli[c].mem = p /\ (Revokes(c) \/ Rotates(c))
    BY <2>1 DEF RowRevoked
  <2>3. CASE Revokes(c)
    BY <2>2, <2>3, EndedGrows
  <2>4. CASE Rotates(c)
    <3>1. Fresh \in Pairs /\ pair'[Fresh] = NewPair(p)
      BY <2>2, <2>4, RotationSteps
    <3> QED
      BY <3>1 DEF NewPair
  <2> QED
    BY <2>2, <2>3, <2>4
<1> QED
  BY <1>2, <1>3

(* A revoked refresh token was exchanged or its user logged out: the       *)
(* rotation is one transaction (TokensRefreshView.post), and a mint that   *)
(* fails takes its revocation back.                                        *)
THEOREM RevokedWithCause == Spec => []RevokedForCause
<1>1. Init => RevokedForCause
  BY DEF Init, RevokedForCause, NewPair, NoPair
<1> QED
  BY <1>1, CauseNext, PairRulesInit, PairRulesNext, TypeCorrect, PTL DEF Spec

-----------------------------------------------------------------------------
(* Rotations.                                                              *)
AtWork(c) == cli[c].pc \in {"checks", "rotates"}

LEMMA OneActs ==
  ASSUME TypeOK, [Next]_vars, NEW c \in Cli, cli'[c] # cli[c]
  PROVE  (Refreshes(c) \/ Login(c) \/ Opens(c) \/ Runs(c)) /\ \E x : Becomes(c, x)
<1>1. cli' = cli \/ \E d \in Cli : (Refreshes(d) \/ Login(d) \/ Opens(d) \/ Runs(d)) /\ \E x : Becomes(d, x)
  <2>1. UNCHANGED vars \/ World => cli' = cli
    BY DEF vars, World, Browses, CompleteReads, CompletePuts, Denies, BagExpires, AccessExpires, LockExpires
  <2>2. ASSUME NEW d \in Cli, Refreshes(d) \/ Login(d) \/ Opens(d) \/ Runs(d) PROVE \E x : Becomes(d, x)
    BY <2>2 DEF Refreshes, Refresh, Checks, Rotates, MintFails, AnswerLost, WorkerDies, Runs, Starts, Served,
       Unauthorized, Saves, Wipes, Revokes, Clears, CliDies, Opens, Login, Polls, PollFails, SignsIn, TimesOut
  <2> QED
    BY <2>1, <2>2, NextShape
<1>2. ASSUME NEW d \in Cli, NEW x, Becomes(d, x), d # c PROVE cli'[c] = cli[c]
  BY <1>2 DEF Becomes, TypeOK
<1> QED
  BY <1>1, <1>2

(* How a process comes to be at work on a rotation.                        *)
LEMMA WorkSteps ==
  ASSUME TypeOK, [Next]_vars, NEW c \in Cli, AtWork(c)'
  PROVE  \/ cli'[c] = cli[c]
         \/ /\ cli'[c].pc = "checks" /\ cli'[c].mem = cli[c].mem
            /\ lock' = [lock EXCEPT ![cli[c].mem] = c]
         \/ /\ cli[c].pc = "checks" /\ cli'[c].pc = "rotates" /\ cli'[c].mem = cli[c].mem
            /\ pair[cli[c].mem].refresh = "live" /\ lock' = lock /\ pair' = pair /\ ended' = ended
<1> SUFFICES ASSUME cli'[c] # cli[c]
             PROVE  \/ /\ cli'[c].pc = "checks" /\ cli'[c].mem = cli[c].mem
                       /\ lock' = [lock EXCEPT ![cli[c].mem] = c]
                    \/ /\ cli[c].pc = "checks" /\ cli'[c].pc = "rotates" /\ cli'[c].mem = cli[c].mem
                       /\ pair[cli[c].mem].refresh = "live" /\ lock' = lock /\ pair' = pair /\ ended' = ended
  OBVIOUS
<1>1. cli[c] \in Process /\ \A x : Becomes(c, x) => cli'[c] = x
  BY DEF TypeOK, Process, Becomes
<1>2. ~AtWork(c)' <=> cli'[c].pc \notin {"checks", "rotates"}
  BY DEF AtWork
<1>3. IdleCli.pc = "idle" /\ Fails(c).pc \in {"idle", "clears"}
  BY DEF IdleCli, Fails
<1>4. CASE Refresh(c)
  <2>1. PICK k \in {1, 2} : \/ /\ Becomes(c, [cli[c] EXCEPT !.pc = "checks", !.tries = k])
                               /\ lock' = [lock EXCEPT ![cli[c].mem] = c]
                            \/ Becomes(c, Fails(c))
    BY <1>4 DEF Refresh, Conflict
  <2> QED
    BY <1>1, <1>2, <1>3, <2>1 DEF Process
<1>5. CASE Checks(c)
  <2>1. cli[c].pc = "checks" /\ pair' = pair /\ ended' = ended
    BY <1>5 DEF Checks, histVars
  <2>2. CASE pair[cli[c].mem].refresh = "live"
    <3>1. lock' = lock /\ Becomes(c, [cli[c] EXCEPT !.pc = "rotates"])
      BY <1>5, <2>2 DEF Checks
    <3> QED
      BY <1>1, <2>1, <2>2, <3>1 DEF Process
  <2>3. CASE pair[cli[c].mem].refresh # "live"
    <3>1. Becomes(c, [cli[c] EXCEPT !.pc = "rejected"])
      BY <1>5, <2>3 DEF Checks
    <3> QED
      BY <1>1, <1>2, <3>1 DEF Process
  <2> QED
    BY <2>2, <2>3
<1>6. CASE Rotates(c) \/ MintFails(c) \/ AnswerLost(c) \/ WorkerDies(c)
  <2>1. Becomes(c, Fails(c)) \/ \E p : Becomes(c, [cli[c] EXCEPT !.pc = "saves", !.got = p])
    BY <1>6 DEF Rotates, MintFails, AnswerLost, WorkerDies
  <2> QED
    BY <1>1, <1>2, <1>3, <2>1 DEF Process
<1>7. CASE Login(c)
  <2>1. cli'[c].pc \notin {"checks", "rotates"}
    <3>1. CASE Polls(c) \/ PollFails(c)
      <4>1. \/ Becomes(c, PollAgain(cli[c])) \/ Becomes(c, IdleCli)
            \/ \E p : Becomes(c, [cli[c] EXCEPT !.pc = "signs", !.got = p])
        BY <3>1 DEF Polls, PollFails
      <4>2. PollAgain(cli[c]).pc = "polling"
        BY <1>1, <3>1 DEF PollAgain, Polls, PollFails, PollDue, Process
      <4> QED
        BY <1>1, <1>3, <4>1, <4>2 DEF Process
    <3>2. CASE SignsIn(c) \/ TimesOut(c)
      BY <1>1, <1>3, <3>2 DEF SignsIn, TimesOut
    <3> QED
      BY <1>7, <3>1, <3>2 DEF Login
  <2> QED
    BY <1>2, <2>1
<1>8. CASE Opens(c)
  <2>1. \E n : Becomes(c, [IdleCli EXCEPT !.pc = "polling", !.cmd = "login", !.session = n, !.polls = MaxPolls])
    BY <1>8 DEF Opens
  <2> QED
    BY <1>1, <1>2, <2>1 DEF IdleCli
<1>9. CASE Runs(c)
  <2>1. ASSUME NEW cmd, Starts(c, cmd) PROVE cli'[c].pc = "send"
    <3>1. \E p : Becomes(c, [IdleCli EXCEPT !.pc = "send", !.cmd = cmd, !.mem = p])
      BY <2>1 DEF Starts
    <3> QED
      BY <1>1, <3>1 DEF IdleCli
  <2>2. ASSUME Saves(c) PROVE cli'[c].pc = "send"
    BY <1>1, <2>2 DEF Saves, Process
  <2>3. ASSUME Revokes(c) PROVE cli'[c].pc = "clears"
    BY <1>1, <2>3 DEF Revokes, Process
  <2>4. ASSUME Served(c) PROVE cli'[c].pc \in {"revokes", "idle"}
    BY <1>1, <1>3, <2>4 DEF Served, Process
  <2>5. ASSUME Unauthorized(c) \/ Wipes(c) \/ Clears(c) \/ CliDies(c) PROVE cli'[c].pc \in {"idle", "clears"}
    BY <1>1, <1>3, <2>5 DEF Unauthorized, Wipes, Clears, CliDies
  <2> QED
    BY <1>2, <1>9, <2>1, <2>2, <2>3, <2>4, <2>5 DEF Runs
<1> QED
  BY <1>4, <1>5, <1>6, <1>7, <1>8, <1>9, OneActs DEF Refreshes

(* As long as no lock expired under a request: a process at work on a      *)
(* rotation holds the lock of its token, and past its check the token has  *)
(* not been exchanged.                                                     *)
Guarded ==
  ~lapsed => \A c \in Cli : AtWork(c) =>
    /\ lock[cli[c].mem] = c
    /\ cli[c].pc = "rotates" => \A q \in Pairs : pair[q].parent # cli[c].mem

LEMMA LockStays ==
  ASSUME TypeOK, IdsKnown, Guarded, [Next]_vars, ~lapsed', NEW c \in Cli, AtWork(c), cli'[c] = cli[c]
  PROVE  lock'[cli[c].mem] = c
<1> DEFINE p == cli[c].mem
<1>1. lock[p] = c /\ p \in Pairs /\ ~lapsed
  BY EndedGrows DEF Guarded, AtWork, IdsKnown, Known, Bearing, Minted
<1>2. lock \in [Pairs -> Cli \cup {Nobody}] /\ c # Nobody
  BY SignInAssumption DEF TypeOK
<1>3. ASSUME NEW d \in Cli, lock' = Release(d), cli'[d] # cli[d] PROVE lock'[p] = c
  BY <1>1, <1>3 DEF Release
<1>4. ASSUME NEW d \in Cli, Refresh(d) PROVE lock'[p] = c
  BY <1>1, <1>2, <1>4 DEF Refresh, MayRotate
<1>5. ASSUME NEW q \in Pairs, LockExpires(q) PROVE lock'[p] = c
  <2>1. CASE q = p
    BY <1>1, <1>2, <1>5, <2>1 DEF LockExpires, InRefresh, AtWork
  <2>2. CASE q # p
    BY <1>1, <1>2, <1>5, <2>2 DEF LockExpires
  <2> QED
    BY <2>1, <2>2
<1>6. ASSUME NEW d \in Cli, Checks(d) \/ Rotates(d) \/ MintFails(d)
      PROVE  lock' = lock \/ (lock' = Release(d) /\ cli'[d] # cli[d])
  <2>1. cli[d] \in Process /\ \A x : Becomes(d, x) => cli'[d] = x
    BY DEF TypeOK, Process, Becomes
  <2>2. Fails(d).pc \in {"idle", "clears"}
    BY DEF IdleCli, Fails
  <2> QED
    BY <1>6, <2>1, <2>2 DEF Checks, Rotates, MintFails, Process
<1>7. ASSUME NEW d \in Cli, AnswerLost(d) \/ WorkerDies(d) \/ Login(d) \/ Opens(d) \/ Runs(d)
      PROVE  lock' = lock
  BY <1>7 DEF AnswerLost, WorkerDies, Login, Opens, Polls, PollFails, SignsIn, TimesOut, Runs, Starts, Served,
     Unauthorized, Saves, Wipes, Revokes, Clears, CliDies, tokenVars
<1>8. ASSUME World, ~\E q \in Pairs : LockExpires(q) PROVE lock' = lock
  BY <1>8 DEF World, Browses, CompleteReads, CompletePuts, Denies, BagExpires, AccessExpires, tokenVars
<1> QED
  BY <1>1, <1>3, <1>4, <1>5, <1>6, <1>7, <1>8, NextShape DEF Refreshes, vars

LEMMA GuardedNext == TypeOK /\ IdsKnown /\ PairRules /\ Guarded /\ [Next]_vars => Guarded'
<1> SUFFICES ASSUME TypeOK, IdsKnown, PairRules, Guarded, [Next]_vars, ~lapsed', NEW c \in Cli, AtWork(c)'
             PROVE  /\ lock'[cli'[c].mem] = c
                    /\ cli'[c].pc = "rotates" => \A q \in Pairs : pair'[q].parent # cli'[c].mem
  BY DEF Guarded
<1> DEFINE p == cli[c].mem
<1>1. lock \in [Pairs -> Cli \cup {Nobody}] /\ ~lapsed
  BY EndedGrows DEF TypeOK
<1>2. CASE cli'[c] = cli[c]
  <2>1. AtWork(c) /\ lock'[p] = c /\ p \in Pairs /\ p # 0
    BY <1>2, LockStays, SignInAssumption DEF AtWork, IdsKnown, Known, Bearing, Minted, Pairs
  <2>2. ASSUME cli[c].pc = "rotates", NEW q \in Pairs, pair'[q].parent = p PROVE FALSE
    <3>1. pair[q].parent # p
      BY <1>1, <2>1, <2>2 DEF Guarded
    <3>2. PICK d \in Cli : Rotates(d) /\ cli[d].mem = p
      BY <2>1, <2>2, <3>1, ParentSteps
    <3>3. AtWork(d) /\ cli'[d] # cli[d]
      BY <3>2 DEF Rotates, AtWork, Becomes, TypeOK
    <3> QED
      BY <1>1, <1>2, <2>1, <3>2, <3>3 DEF Guarded
  <2> QED
    BY <1>2, <2>1, <2>2
<1>3. CASE /\ cli'[c].pc = "checks" /\ cli'[c].mem = cli[c].mem
           /\ lock' = [lock EXCEPT ![cli[c].mem] = c]
  <2>1. p \in Pairs
    <3>1. KnownNext(cli'[c]) \/ cli'[c] = cli[c]
      BY KnownAfter, OneActs
    <3> QED
      BY <1>3, <3>1 DEF KnownNext, MintedNext, IdsKnown, Known, Minted, Bearing
  <2> QED
    BY <1>1, <1>3, <2>1
<1>4. CASE /\ cli[c].pc = "checks" /\ cli'[c].pc = "rotates" /\ cli'[c].mem = cli[c].mem
           /\ pair[cli[c].mem].refresh = "live" /\ lock' = lock /\ pair' = pair
  <2>1. p \in Pairs /\ p # 0 /\ lock[p] = c
    BY <1>1, <1>4, SignInAssumption DEF Guarded, AtWork, IdsKnown, Known, Bearing, Minted, Pairs
  <2>2. \A q \in Pairs : pair[q].parent # p
    BY <1>4, <2>1 DEF PairRules
  <2> QED
    BY <1>4, <2>1, <2>2
<1> QED
  BY <1>2, <1>3, <1>4, WorkSteps

LEMMA RotatedOnceNext ==
  TypeOK /\ IdsKnown /\ PairRules /\ Guarded /\ RotatedOnce /\ [Next]_vars => RotatedOnce'
<1> SUFFICES ASSUME TypeOK, IdsKnown, PairRules, Guarded, RotatedOnce, [Next]_vars, ~lapsed',
                    NEW p \in Pairs, NEW q \in Pairs, pair'[p].parent # 0, pair'[p].parent = pair'[q].parent
             PROVE  p = q
  BY DEF RotatedOnce
<1>1. ~lapsed
  BY EndedGrows
<1>2. ASSUME NEW c \in Cli, Rotates(c), NEW x \in Pairs, pair'[x].parent = cli[c].mem PROVE x = Fresh
  <2>1. \A y \in Pairs : pair[y].parent # cli[c].mem
    BY <1>1, <1>2 DEF Guarded, AtWork, Rotates
  <2>2. pair'[x] = pair[x] \/ x = Fresh \/ x = cli[c].mem
    BY <1>2, RotationSteps
  <2>3. Minted(cli[c].mem)
    BY <1>2, RotationSteps
  <2> QED
    BY <1>2, <2>1, <2>2, <2>3, ParentStays DEF Minted
<1>3. CASE pair'[p].parent = pair[p].parent /\ pair'[q].parent = pair[q].parent
  BY <1>1, <1>3 DEF RotatedOnce
<1>4. ASSUME NEW c \in Cli, Rotates(c), p = Fresh, pair'[p].parent = cli[c].mem PROVE p = q
  BY <1>2, <1>4
<1>5. ASSUME NEW c \in Cli, Rotates(c), q = Fresh, pair'[q].parent = cli[c].mem PROVE p = q
  BY <1>2, <1>5
<1> QED
  BY <1>3, <1>4, <1>5, ParentSteps

(* A refresh token is exchanged for one pair, whoever presents it and how  *)
(* often, as long as its lock (refresh_token_lock) outlives the request.   *)
THEOREM ExchangedOnce == Spec => []RotatedOnce
<1>1. Init => Guarded /\ RotatedOnce
  BY DEF Init, Guarded, RotatedOnce, AtWork, IdleCli, NewPair, NoPair
<1> QED
  BY <1>1, GuardedNext, RotatedOnceNext, PairRulesInit, PairRulesNext, TypeCorrect, PTL DEF Spec

-----------------------------------------------------------------------------
(* Logout.                                                                 *)

(* An ended pair is revoked, has not been exchanged, and nobody is past    *)
(* the check of its refresh token.                                         *)
EndedForGood ==
  ~raced => \A p \in ended : /\ pair[p].refresh = "revoked"
                             /\ \A q \in Pairs : pair[q].parent # p
                             /\ \A c \in Cli : cli[c].pc = "rotates" => cli[c].mem # p

LEMMA EndedNext == TypeOK /\ IdsKnown /\ PairRules /\ EndedForGood /\ [Next]_vars => EndedForGood'
<1> SUFFICES ASSUME TypeOK, IdsKnown, PairRules, EndedForGood, [Next]_vars, ~raced', NEW p \in ended'
             PROVE  /\ pair'[p].refresh = "revoked"
                    /\ \A q \in Pairs : pair'[q].parent # p
                    /\ \A c \in Cli : cli'[c].pc = "rotates" => cli'[c].mem # p
  BY DEF EndedForGood
<1>1. pair \in [Pairs -> Row] /\ ended \subseteq Pairs /\ ~raced
  BY EndedGrows DEF TypeOK, Row
<1>2. CASE p \in ended
  <2>1. p \in Pairs /\ p # 0 /\ pair[p].refresh = "revoked" /\ pair'[p].refresh = "revoked"
    <3>1. p \in Pairs /\ pair[p].refresh = "revoked"
      BY <1>1, <1>2 DEF EndedForGood
    <3> QED
      BY <3>1, RevokedStays, SignInAssumption DEF Pairs
  <2>2. ASSUME NEW q \in Pairs, pair'[q].parent = p PROVE FALSE
    <3>1. pair[q].parent # p
      BY <1>1, <1>2, <2>2 DEF EndedForGood
    <3>2. PICK d \in Cli : Rotates(d) /\ cli[d].mem = p
      BY <2>1, <2>2, <3>1, ParentSteps
    <3> QED
      BY <1>1, <1>2, <3>2 DEF EndedForGood, Rotates
  <2>3. ASSUME NEW c \in Cli, cli'[c].pc = "rotates", cli'[c].mem = p PROVE FALSE
    <3>1. AtWork(c)'
      BY <2>3 DEF AtWork
    <3>2. cli'[c] # cli[c]
      BY <1>1, <1>2, <2>3 DEF EndedForGood
    <3>3. pair[p].refresh = "live"
      BY <2>3, <3>1, <3>2, WorkSteps
    <3> QED
      BY <2>1, <3>3
  <2> QED
    BY <2>1, <2>2, <2>3
<1>3. CASE p \notin ended
  <2>1. PICK c \in Cli : Revokes(c)
    BY <1>3, EndedGrows
  <2>2. p = cli[c].mem /\ pair[p].access # "gone" /\ pair' = LoggedOut(p)
    BY <1>3, <2>1 DEF Revokes
  <2>3. Minted(p) /\ ~\E d \in Cli : cli[d].mem = p /\ cli[d].pc = "rotates"
    BY <2>1, <2>2 DEF Revokes, IdsKnown, Known, Bearing
  <2>4. /\ pair'[p].refresh = "revoked"
        /\ \A q \in Pairs : pair'[q].parent = pair[q].parent
    BY <1>1, <2>2, <2>3 DEF LoggedOut, Revoked, Minted, Row
  <2>5. \A q \in Pairs : pair[q].parent # p
    BY <2>2, <2>3, SignInAssumption DEF PairRules, Minted, Pairs
  <2>6. ASSUME NEW d \in Cli, cli'[d].pc = "rotates", cli'[d].mem = p PROVE FALSE
    <3>1. AtWork(d)' /\ cli'[d] # cli[d]
      BY <2>3, <2>6 DEF AtWork
    <3>2. pair' = pair
      BY <2>6, <3>1, WorkSteps
    <3> QED
      BY <1>3, <2>6, <3>1, WorkSteps
  <2> QED
    BY <2>4, <2>5, <2>6
<1> QED
  BY <1>2, <1>3

(* Once the server has confirmed a logout nothing that came from the pair  *)
(* is live (TokenService.revoke), unless a refresh of it was past its      *)
(* check or had been through.                                              *)
THEOREM LogoutIsFinal == Spec => []LogoutHolds
<1>1. Init => EndedForGood
  BY DEF Init, EndedForGood
<1>2. EndedForGood => LogoutHolds
  BY DEF EndedForGood, LogoutHolds
<1> QED
  BY <1>1, <1>2, EndedNext, PairRulesInit, PairRulesNext, TypeCorrect, PTL DEF Spec
-----------------------------------------------------------------------------
(* The credentials at home.                                                *)

(* What a process is about, and what the answer it acts on says of its     *)
(* refresh token.                                                          *)
Errand(x) == /\ x.pc \in {"revokes", "clears"} => x.cmd = "logout"
             /\ x.pc \in {"polling", "signs"} => x.cmd = "login"
Spent(x) == x.pc \in {"saves", "rejected"} => pair[x.mem].refresh # "live"
Excused == \A c \in Cli : Errand(cli[c]) /\ Spent(cli[c])

LEMMA NotLiveStays ==
  ASSUME TypeOK, IdsKnown, [Next]_vars, NEW p \in Pairs, Minted(p), pair[p].refresh # "live"
  PROVE  pair'[p].refresh # "live"
<1>1. pair[p] \in Row /\ ~RowMinted(p)
  BY DEF TypeOK, Row, Minted, RowMinted
<1>2. RowRevoked(p) \/ RowExpired(p) => pair'[p].refresh # "live"
  BY <1>1 DEF RowRevoked, RowExpired, Row
<1> QED
  BY <1>1, <1>2, RowSteps

(* The process that acts keeps its errand.                                 *)
LEMMA ErrandAfter ==
  ASSUME TypeOK, NEW c \in Cli, Errand(cli[c]),
         Refreshes(c) \/ Login(c) \/ Opens(c) \/ Runs(c)
  PROVE  Errand(cli'[c])
<1> DEFINE x == cli[c]
<1>1. x \in Process /\ Errand(x)
  BY DEF TypeOK, Process
<1>2. ASSUME NEW y, Becomes(c, y) PROVE cli'[c] = y
  BY <1>2 DEF Becomes, TypeOK
<1>3. Errand(IdleCli) /\ Errand(Fails(c))
  BY DEF IdleCli, Fails, Errand
<1>4. ASSUME NEW pc \in {"checks", "rotates", "rejected", "saves"}
      PROVE  /\ Errand([x EXCEPT !.pc = pc])
             /\ \A k : Errand([x EXCEPT !.pc = pc, !.tries = k])
             /\ \A p : Errand([x EXCEPT !.pc = pc, !.got = p])
  BY <1>1, <1>4 DEF Errand, Process
<1>5. CASE Refreshes(c)
  <2>1. ASSUME Refresh(c) PROVE Errand(cli'[c])
    <3>1. PICK k : \/ Becomes(c, [x EXCEPT !.pc = "checks", !.tries = k])
                   \/ Becomes(c, Conflict(c))
      BY <2>1 DEF Refresh
    <3> QED
      BY <1>2, <1>3, <1>4, <3>1 DEF Conflict
  <2>2. ASSUME Checks(c) PROVE Errand(cli'[c])
    BY <1>2, <1>4, <2>2 DEF Checks
  <2>3. ASSUME Rotates(c) PROVE Errand(cli'[c])
    BY <1>2, <1>4, <2>3 DEF Rotates
  <2>4. ASSUME MintFails(c) \/ AnswerLost(c) \/ WorkerDies(c) PROVE Errand(cli'[c])
    BY <1>2, <1>3, <2>4 DEF MintFails, AnswerLost, WorkerDies
  <2> QED
    BY <1>5, <2>1, <2>2, <2>3, <2>4 DEF Refreshes
<1>6. CASE Login(c) \/ Opens(c)
  <2>1. ASSUME Opens(c) PROVE Errand(cli'[c])
    <3>1. PICK n \in Sessions : Becomes(c, [IdleCli EXCEPT !.pc = "polling", !.cmd = "login",
                                                          !.session = n, !.polls = MaxPolls])
      BY <2>1 DEF Opens
    <3>2. Errand([IdleCli EXCEPT !.pc = "polling", !.cmd = "login", !.session = n, !.polls = MaxPolls])
      BY DEF IdleCli, Errand
    <3> QED
      BY <1>2, <3>1, <3>2
  <2>2. x.cmd = "login" => Errand(PollAgain(x))
    BY <1>1 DEF PollAgain, Process, Errand
  <2>3. \A p : x.cmd = "login" => Errand([x EXCEPT !.pc = "signs", !.got = p])
    BY <1>1 DEF Process, Errand
  <2>4. ASSUME Polls(c) PROVE Errand(cli'[c])
    <3>1. x.cmd = "login"
      BY <1>1, <2>4 DEF Polls, PollDue, Errand
    <3>2. \/ Becomes(c, [x EXCEPT !.pc = "signs", !.got = bag[x.session].pair])
          \/ Becomes(c, PollAgain(x)) \/ Becomes(c, IdleCli)
      BY <2>4 DEF Polls
    <3>3. /\ Errand([x EXCEPT !.pc = "signs", !.got = bag[x.session].pair])
          /\ Errand(PollAgain(x)) /\ Errand(IdleCli)
      BY <1>3, <2>2, <2>3, <3>1
    <3> QED
      BY <1>2, <3>2, <3>3
  <2>5. ASSUME PollFails(c) PROVE Errand(cli'[c])
    <3>1. x.cmd = "login"
      BY <1>1, <2>5 DEF PollFails, PollDue, Errand
    <3> QED
      BY <1>2, <2>2, <2>5, <3>1 DEF PollFails
  <2>6. ASSUME SignsIn(c) \/ TimesOut(c) PROVE Errand(cli'[c])
    BY <1>2, <1>3, <2>6 DEF SignsIn, TimesOut
  <2> QED
    BY <1>6, <2>1, <2>4, <2>5, <2>6 DEF Login
<1>7. CASE Runs(c)
  <2>1. ASSUME NEW cmd, Starts(c, cmd) PROVE Errand(cli'[c])
    <3>1. Errand([IdleCli EXCEPT !.pc = "send", !.cmd = cmd, !.mem = file])
      BY DEF IdleCli, Errand
    <3> QED
      BY <1>2, <2>1, <3>1 DEF Starts
  <2>2. ASSUME Served(c) PROVE Errand(cli'[c])
    <3>1. x.cmd = "logout" => Errand([x EXCEPT !.pc = "revokes"])
      BY <1>1 DEF Errand, Process
    <3> QED
      BY <1>2, <1>3, <2>2, <3>1 DEF Served
  <2>3. ASSUME Unauthorized(c) \/ Wipes(c) \/ Clears(c) \/ CliDies(c) PROVE Errand(cli'[c])
    BY <1>2, <1>3, <2>3 DEF Unauthorized, Wipes, Clears, CliDies
  <2>4. ASSUME Saves(c) PROVE Errand(cli'[c])
    <3>1. Becomes(c, [x EXCEPT !.pc = "send", !.mem = x.got, !.got = 0])
      BY <2>4 DEF Saves
    <3>2. Errand([x EXCEPT !.pc = "send", !.mem = x.got, !.got = 0])
      BY <1>1 DEF Errand, Process
    <3> QED
      BY <1>2, <3>1, <3>2
  <2>5. ASSUME Revokes(c) PROVE Errand(cli'[c])
    <3>1. Errand([x EXCEPT !.pc = "clears"])
      BY <1>1, <2>5 DEF Errand, Process, Revokes
    <3> QED
      BY <1>2, <2>5, <3>1 DEF Revokes
  <2> QED
    BY <1>7, <2>1, <2>2, <2>3, <2>4, <2>5 DEF Runs
<1> QED
  BY <1>5, <1>6, <1>7

(* A process comes to save behind its rotation, and to be rejected by a    *)
(* refresh token that is not live.                                         *)
LEMMA SpentAfter ==
  ASSUME TypeOK, IdsKnown, [Next]_vars, NEW c \in Cli, cli'[c] # cli[c],
         cli'[c].pc \in {"saves", "rejected"}
  PROVE  pair'[cli'[c].mem].refresh # "live"
<1>1. cli[c] \in Process /\ \A y : Becomes(c, y) => cli'[c] = y
  BY DEF TypeOK, Process, Becomes
<1>2. IdleCli.pc = "idle" /\ Fails(c).pc \in {"idle", "clears"}
  BY DEF IdleCli, Fails
<1>3. Refreshes(c) \/ Login(c) \/ Opens(c) \/ Runs(c)
  BY OneActs
<1>4. CASE Rotates(c)
  <2>1. cli'[c].mem = cli[c].mem
    BY <1>1, <1>4 DEF Rotates, Process
  <2>2. pair[cli[c].mem] \in Row /\ pair'[cli[c].mem] = [pair[cli[c].mem] EXCEPT !.access = "gone", !.refresh = "revoked"]
    BY <1>4, RotationSteps DEF TypeOK, Row, Minted
  <2>3. pair'[cli[c].mem].refresh = "revoked"
    BY <2>2 DEF Row
  <2> QED
    BY <2>1, <2>3
<1>5. CASE Checks(c)
  <2>1. cli'[c] = [cli[c] EXCEPT !.pc = "rejected"] /\ pair[cli[c].mem].refresh # "live"
    <3>1. cli'[c] = [cli[c] EXCEPT !.pc = "rotates"] => cli'[c].pc = "rotates"
      BY <1>1 DEF Process
    <3> QED
      BY <1>1, <1>5, <3>1 DEF Checks
  <2>2. pair' = pair /\ cli'[c].mem = cli[c].mem
    BY <1>1, <1>5, <2>1 DEF Checks, Process
  <2> QED
    BY <2>1, <2>2
<1>6. ASSUME Refresh(c) PROVE FALSE
  <2>1. PICK k : \/ Becomes(c, [cli[c] EXCEPT !.pc = "checks", !.tries = k])
                 \/ Becomes(c, Fails(c))
    BY <1>6 DEF Refresh, Conflict
  <2>2. [cli[c] EXCEPT !.pc = "checks", !.tries = k].pc = "checks"
    BY <1>1 DEF Process
  <2> QED
    BY <1>1, <1>2, <2>1, <2>2
<1>7. ASSUME MintFails(c) \/ AnswerLost(c) \/ WorkerDies(c) \/ Unauthorized(c) \/ Wipes(c)
             \/ Clears(c) \/ CliDies(c) \/ SignsIn(c) \/ TimesOut(c)
      PROVE  FALSE
  BY <1>1, <1>2, <1>7 DEF MintFails, AnswerLost, WorkerDies, Unauthorized, Wipes, Clears, CliDies,
     SignsIn, TimesOut
<1>8. ASSUME Served(c) \/ Saves(c) \/ Revokes(c) PROVE FALSE
  <2>1. \/ Becomes(c, [cli[c] EXCEPT !.pc = "revokes"]) \/ Becomes(c, IdleCli)
        \/ Becomes(c, [cli[c] EXCEPT !.pc = "send", !.mem = cli[c].got, !.got = 0])
        \/ Becomes(c, [cli[c] EXCEPT !.pc = "clears"])
    BY <1>8 DEF Served, Saves, Revokes
  <2>2. /\ [cli[c] EXCEPT !.pc = "revokes"].pc = "revokes"
        /\ [cli[c] EXCEPT !.pc = "clears"].pc = "clears"
        /\ [cli[c] EXCEPT !.pc = "send", !.mem = cli[c].got, !.got = 0].pc = "send"
    BY <1>1 DEF Process
  <2> QED
    BY <1>1, <1>2, <2>1, <2>2
<1>9. ASSUME Polls(c) \/ PollFails(c) PROVE FALSE
  <2>1. \/ \E p : Becomes(c, [cli[c] EXCEPT !.pc = "signs", !.got = p])
        \/ Becomes(c, PollAgain(cli[c])) \/ Becomes(c, IdleCli)
    BY <1>9 DEF Polls, PollFails
  <2>2. cli[c].pc = "polling" /\ PollAgain(cli[c]).pc = cli[c].pc
    BY <1>1, <1>9 DEF Polls, PollFails, PollDue, PollAgain, Process
  <2>3. \A p : [cli[c] EXCEPT !.pc = "signs", !.got = p].pc = "signs"
    BY <1>1 DEF Process
  <2> QED
    BY <1>1, <1>2, <2>1, <2>2, <2>3
<1>10. ASSUME Opens(c) \/ \E cmd : Starts(c, cmd) PROVE FALSE
  <2>1. \/ \E n : Becomes(c, [IdleCli EXCEPT !.pc = "polling", !.cmd = "login",
                                            !.session = n, !.polls = MaxPolls])
        \/ \E cmd : Becomes(c, [IdleCli EXCEPT !.pc = "send", !.cmd = cmd, !.mem = file])
    BY <1>10 DEF Opens, Starts
  <2>2. \A n : /\ [IdleCli EXCEPT !.pc = "polling", !.cmd = "login",
                                  !.session = n, !.polls = MaxPolls].pc = "polling"
               /\ [IdleCli EXCEPT !.pc = "send", !.cmd = n, !.mem = file].pc = "send"
    BY DEF IdleCli
  <2> QED
    BY <1>1, <2>1, <2>2
<1> QED
  BY <1>3, <1>4, <1>5, <1>6, <1>7, <1>8, <1>9, <1>10 DEF Refreshes, Login, Runs

LEMMA ExcusedNext == TypeOK /\ IdsKnown /\ Excused /\ [Next]_vars => Excused'
<1> SUFFICES ASSUME TypeOK, IdsKnown, Excused, [Next]_vars, NEW c \in Cli
             PROVE  Errand(cli'[c]) /\ (cli'[c].pc \in {"saves", "rejected"}
                                          => pair'[cli'[c].mem].refresh # "live")
  BY DEF Excused, Errand, Spent
<1>1. CASE cli'[c] = cli[c]
  <2>1. cli[c].pc \in {"saves", "rejected"} => /\ Minted(cli[c].mem) /\ cli[c].mem \in Pairs
                                             /\ pair[cli[c].mem].refresh # "live"
    BY DEF Excused, Spent, IdsKnown, Known, Bearing, Minted
  <2> QED
    BY <1>1, <2>1, NotLiveStays DEF Excused
<1>2. CASE cli'[c] # cli[c]
  BY <1>2, OneActs, ErrandAfter, SpentAfter DEF Excused
<1> QED
  BY <1>1, <1>2

(* Who writes config.json: a process that saves its rotation, that was     *)
(* rejected, that logs out or that signs in.                               *)
LEMMA FileSteps ==
  ASSUME [Next]_vars, file' # file
  PROVE  \E c \in Cli : Saves(c) \/ Wipes(c) \/ Clears(c) \/ SignsIn(c)
<1>1. UNCHANGED vars \/ World => file' = file
  BY DEF vars, World, Browses, CompleteReads, CompletePuts, Denies, BagExpires, AccessExpires, LockExpires
<1>2. ASSUME NEW c \in Cli, Refreshes(c) \/ Opens(c) PROVE file' = file
  BY <1>2 DEF Refreshes, Refresh, Checks, Rotates, MintFails, AnswerLost, WorkerDies, Opens
<1>3. ASSUME NEW c \in Cli, Login(c) PROVE file' = file \/ SignsIn(c)
  BY <1>3 DEF Login, Polls, PollFails, TimesOut
<1>4. ASSUME NEW c \in Cli, Runs(c) PROVE file' = file \/ Saves(c) \/ Wipes(c) \/ Clears(c)
  BY <1>4 DEF Runs, Starts, Served, Unauthorized, Revokes, CliDies
<1> QED
  BY <1>1, <1>2, <1>3, <1>4, NextShape

(* No error answer makes a client drop credentials that still work: a pair *)
(* whose refresh token is live leaves config.json by a login, a logout or  *)
(* a process that holds another one.                                       *)
THEOREM GoodCredentialsKept == Spec => KeptWhileGood
<1> DEFINE Keeps == (file' # file /\ file # 0 /\ pair[file].refresh = "live") =>
             \E c \in Cli : cli'[c] # cli[c] /\ (cli[c].cmd # "call" \/ cli[c].mem # file)
<1>1. ASSUME TypeOK, IdsKnown, Excused, [Next]_vars PROVE Keeps
  <2> SUFFICES ASSUME file' # file, file # 0, pair[file].refresh = "live"
               PROVE  \E c \in Cli : cli'[c] # cli[c] /\ (cli[c].cmd # "call" \/ cli[c].mem # file)
    OBVIOUS
  <2>1. PICK c \in Cli : Saves(c) \/ Wipes(c) \/ Clears(c) \/ SignsIn(c)
    BY <1>1, FileSteps
  <2>2. cli[c] \in Process /\ \A y : Becomes(c, y) => cli'[c] = y
    BY <1>1 DEF TypeOK, Process, Becomes
  <2>3. cli[c].pc \in {"saves", "rejected", "clears", "signs"}
    BY <2>1 DEF Saves, Wipes, Clears, SignsIn
  <2>4. cli'[c].pc \in {"send", "idle", "clears"} /\ (cli[c].pc = "clears" => cli'[c].pc = "idle")
    <3>1. Saves(c) => cli'[c].pc = "send"
      BY <2>2 DEF Saves, Process
    <3>2. Wipes(c) => cli'[c].pc \in {"idle", "clears"} /\ cli[c].pc = "rejected"
      <4>1. Fails(c).pc \in {"idle", "clears"}
        BY DEF Fails, IdleCli
      <4> QED
        BY <2>2, <4>1 DEF Wipes
    <3>3. Clears(c) \/ SignsIn(c) => cli'[c].pc = "idle"
      BY <2>2 DEF Clears, SignsIn, IdleCli
    <3>4. Saves(c) => cli[c].pc = "saves"
      BY DEF Saves
    <3> QED
      BY <2>1, <3>1, <3>2, <3>3, <3>4
  <2>5. cli'[c] # cli[c]
    BY <2>3, <2>4
  <2>6. cli[c].pc \in {"clears", "signs"} => cli[c].cmd # "call"
    BY <1>1 DEF Excused, Errand
  <2>7. cli[c].pc \in {"saves", "rejected"} => cli[c].mem # file
    BY <1>1 DEF Excused, Spent
  <2> QED
    BY <2>3, <2>5, <2>6, <2>7
<1>2. Init => Excused
  BY DEF Init, Excused, Errand, Spent, IdleCli
<1>3. TypeOK /\ IdsKnown /\ Excused /\ [Next]_vars => [Keeps]_vars
  BY <1>1
<1> QED
  BY <1>2, <1>3, ExcusedNext, TypeCorrect, PTL DEF Spec, KeptWhileGood
=============================================================================
