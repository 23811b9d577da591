------------------------------ MODULE RateLimit ------------------------------
(***************************************************************************)
(* What the rate limiter of the server promises, stated on the full record *)
(* of the handshake attempts: the attempt that is the Limit-th of one      *)
(* address within Window bans the address for Ban time units.              *)
(***************************************************************************)
EXTENDS Integers, Sequences, FiniteSets

CONSTANTS
  Ips,      \* IPv4 source addresses
  Limit,    \* attempts that lead to a ban
  Window,   \* length of the rolling window
  Ban       \* ban_duration

Decision == {"Allowed", "BannedNow", "Banned"}

VARIABLES
  now,   \* the monotonic clock
  log    \* every attempt: its address, its time and the decision

promise == <<now, log>>

Of(ip, decision) == {i \in DOMAIN log : log[i].ip = ip /\ log[i].decision = decision}

IsBanned(ip) == \E i \in Of(ip, "BannedNow") : log[i].time + Ban > now

Recent(ip) == {i \in Of(ip, "Allowed") : now - log[i].time < Window}

Decide(ip) ==
  IF IsBanned(ip) THEN "Banned"
  ELSE IF Cardinality(Recent(ip)) + 1 >= Limit THEN "BannedNow" ELSE "Allowed"

Init == now = 0 /\ log = <<>>

Attempt(ip) ==
  /\ log' = Append(log, [ip |-> ip, time |-> now, decision |-> Decide(ip)])
  /\ UNCHANGED now

ClockTick ==
  /\ now' = now + 1
  /\ UNCHANGED log

Next == ClockTick \/ \E ip \in Ips : Attempt(ip)

Spec == Init /\ [][Next]_promise
=============================================================================
