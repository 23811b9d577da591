---------------------------- MODULE IpRateLimiter ----------------------------
(***************************************************************************)
(* IpRateLimiter of lib.rs, as the decrypt worker uses it: check_ban for   *)
(* every datagram of an unknown peer, record_attempt once its cookie is    *)
(* valid, purge in every round of the loop.  The clock is Instant::now.    *)
(* `log` records what record_attempt answered and is read by the promise   *)
(* RateLimit only.                                                         *)
(***************************************************************************)
EXTENDS Integers, Sequences, FiniteSets

CONSTANTS
  Ips,          \* IPv4 source addresses
  Limit,        \* attempts within Window that lead to a ban
  Window,       \* window
  Ban,          \* ban_duration
  MaxTime,      \* bound on the clock
  MaxAttempts   \* bound on the attempts made

(* server.rs makes the limiter with 30 attempts, 60 s and 600 s. *)
ASSUME RateAssumption ==
  /\ Limit \in Nat \ {0}
  /\ Window \in Nat \ {0}
  /\ Ban \in Nat /\ Ban >= Window
  /\ MaxTime \in Nat /\ MaxAttempts \in Nat

(* banned_until: None *)
NoBan == -1

VARIABLES
  states,   \* HashMap from an address to its attempts and banned_until
  now,
  log

vars == <<states, now, log>>

Fresh == [attempts |-> <<>>, banned_until |-> NoBan]

BannedState(s) == s.banned_until > now

(* Mutant of Unexpired: an attempt as old as the window still counts. *)
UnexpiredInclusive(attempts) == SelectSeq(attempts, LAMBDA t : now - t <= Window)

(* The attempts left when those at the front older than Window are popped. *)
Unexpired(attempts) ==
  IF \A i \in DOMAIN attempts : now - attempts[i] >= Window
  THEN <<>>
  ELSE LET first == CHOOSE i \in DOMAIN attempts :
                      /\ now - attempts[i] < Window
                      /\ \A j \in 1..(i - 1) : now - attempts[j] >= Window
       IN  SubSeq(attempts, first, Len(attempts))

(* What check_ban leaves of an entry that is not banned. *)
Checked(s) == [attempts |-> Unexpired(s.attempts), banned_until |-> NoBan]

Insert(ip, s) == [a \in DOMAIN states \cup {ip} |-> IF a = ip THEN s ELSE states[a]]

(* check_ban called for a datagram that gets no further. *)
CheckBan(ip) ==
  /\ ip \in DOMAIN states
  /\ ~BannedState(states[ip])
  /\ states' = [states EXCEPT ![ip] = Checked(@)]
  /\ UNCHANGED <<now, log>>

(* Mutant of Record: the end of the window is kept instead of the attempt. *)
RecordDeadline(s) ==
  LET attempts == Append(s.attempts, now + Window)
  IN  IF Len(attempts) >= Limit
      THEN [state |-> [attempts |-> <<>>, banned_until |-> now + Ban], decision |-> "BannedNow"]
      ELSE [state |-> [s EXCEPT !.attempts = attempts], decision |-> "Allowed"]

(* The entry and the decision of an attempt by an address that is not banned. *)
Record(s) ==
  LET attempts == Append(s.attempts, now)
  IN  IF Len(attempts) >= Limit
      THEN [state |-> [attempts |-> <<>>, banned_until |-> now + Ban], decision |-> "BannedNow"]
      ELSE [state |-> [s EXCEPT !.attempts = attempts], decision |-> "Allowed"]

RecordAttempt(ip) ==
  LET known  == ip \in DOMAIN states
      banned == known /\ BannedState(states[ip])
      record == Record(IF known THEN Checked(states[ip]) ELSE Fresh)
  IN  /\ Len(log) < MaxAttempts
      /\ states' = IF banned THEN states ELSE Insert(ip, record.state)
      /\ log' = Append(log, [ip |-> ip, time |-> now,
                             decision |-> IF banned THEN "Banned" ELSE record.decision])
      /\ UNCHANGED now

(* Mutant of Purge: entries without attempts go, banned or not. *)
PurgeBans ==
  LET trimmed == [ip \in DOMAIN states |->
                    [states[ip] EXCEPT !.attempts = Unexpired(@)]]
      kept    == {ip \in DOMAIN states : trimmed[ip].attempts # <<>>}
  IN  /\ states' = [ip \in kept |-> trimmed[ip]]
      /\ UNCHANGED <<now, log>>

(* retain: drop expired attempts, then entries with neither ban nor attempt. *)
Purge ==
  LET trimmed == [ip \in DOMAIN states |->
                    [states[ip] EXCEPT !.attempts = Unexpired(@)]]
      kept    == {ip \in DOMAIN states : BannedState(states[ip]) \/ trimmed[ip].attempts # <<>>}
  IN  /\ states' = [ip \in kept |-> trimmed[ip]]
      /\ UNCHANGED <<now, log>>

ClockTick ==
  /\ now < MaxTime
  /\ now' = now + 1
  /\ UNCHANGED <<states, log>>

Init ==
  /\ states = << >>
  /\ now = 0
  /\ log = <<>>

Next ==
  \/ \E ip \in Ips : CheckBan(ip) \/ RecordAttempt(ip)
  \/ Purge
  \/ ClockTick

Spec == Init /\ [][Next]_vars

-----------------------------------------------------------------------------
(* Properties *)

(* Every variable has its type: attempts lie in the past and are fewer than  *)
(* the limit, and no ban of the table ends later than ban_duration from now. *)
TypeOK ==
  /\ DOMAIN states \subseteq Ips
  /\ \A ip \in DOMAIN states :
       /\ states[ip] \in [attempts : Seq(0..now), banned_until : {NoBan} \cup (0..now + Ban)]
       /\ Len(states[ip].attempts) < Limit
  /\ now \in 0..MaxTime

(* README: "an address that reaches 30 attempts within a rolling minute is   *)
(* banned for 10 minutes".  Dropping expired attempts one by one, clearing   *)
(* them on a ban and purging entries never changes a decision: each is the   *)
(* one the full record of attempts calls for.                                *)
Promise == INSTANCE RateLimit WITH Ips <- Ips, Limit <- Limit, Window <- Window, Ban <- Ban,
                                   now <- now, log <- log
KeepsPromise == Promise!Spec

(* No ban is forgotten, prolonged or given to another address: the table and *)
(* the record agree on who is banned in every state, also after purge.       *)
BansRemembered ==
  \A ip \in Ips : Promise!IsBanned(ip) <=> ip \in DOMAIN states /\ BannedState(states[ip])
=============================================================================
