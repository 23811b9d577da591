-------------------------- MODULE RateLimiterProofs --------------------------
(***************************************************************************)
(* IpRateLimiter implements RateLimit, for any limit, window and ban.      *)
(***************************************************************************)
EXTENDS IpRateLimiter, FiniteSetTheorems, SequenceTheorems, WellFoundedInduction, TLAPS

(* An entry of the record, and what an entry of the table needs to be. *)
Entry == [ip : Ips, time : Nat, decision : Promise!Decision]

IsState(s) ==
  /\ s = [attempts |-> s.attempts, banned_until |-> s.banned_until]
  /\ s.banned_until \in Int

(* The entries the limiter keeps and the record it is compared with. *)
Shape ==
  /\ now \in Nat
  /\ DOMAIN states \subseteq Ips
  /\ states = [ip \in DOMAIN states |-> states[ip]]
  /\ \A ip \in DOMAIN states : IsState(states[ip])
  /\ log \in Seq(Entry)

(* A ban of the record that has not run out is the one the table keeps. *)
BanKept ==
  \A i \in DOMAIN log : log[i].decision = "BannedNow" /\ log[i].time + Ban > now =>
    log[i].ip \in DOMAIN states /\ states[log[i].ip].banned_until = log[i].time + Ban

(* A ban in force is one of the record. *)
BanRecorded ==
  \A ip \in DOMAIN states : BannedState(states[ip]) =>
    \E i \in DOMAIN log : /\ log[i].ip = ip
                          /\ log[i].decision = "BannedNow"
                          /\ log[i].time + Ban = states[ip].banned_until

BanInv == Shape /\ BanKept /\ BanRecorded

(* The limiter starts without entries. *)
LEMMA InitBan == Init => BanInv
  BY DEF Init, BanInv, Shape, BanKept, BanRecorded

(* Facts of the record that the arithmetic of the steps needs. *)
LEMMA LogTypes ==
  ASSUME Shape
  PROVE  /\ DOMAIN log = 1..Len(log) /\ Len(log) \in Nat
         /\ \A i \in DOMAIN log : log[i].time \in Nat /\ log[i].time + Ban \in Nat
<1>1. DOMAIN log = 1..Len(log) /\ Len(log) \in Nat
  BY DEF Shape
<1>2. \A i \in DOMAIN log : log[i] \in Entry
  BY <1>1 DEF Shape
<1>3. \A i \in DOMAIN log : log[i].time \in Nat
  BY <1>2 DEF Entry
<1> QED
  BY <1>1, <1>3, RateAssumption

(* check_ban and purge drop only what a ban in force does not need, and an   *)
(* attempt adds an entry to the table and to the record together.            *)
LEMMA NextBan == BanInv /\ [Next]_vars => BanInv'
<1> SUFFICES ASSUME BanInv, [Next]_vars PROVE BanInv'
  OBVIOUS
<1>0. /\ Shape /\ BanKept /\ BanRecorded
      /\ DOMAIN log = 1..Len(log) /\ Len(log) \in Nat
      /\ \A i \in DOMAIN log : log[i].time \in Nat /\ log[i].time + Ban \in Nat
  BY LogTypes DEF BanInv
<1>1. ASSUME NEW ip \in Ips, CheckBan(ip) PROVE BanInv'
  <2>1. /\ DOMAIN states' = DOMAIN states
        /\ states' = [a \in DOMAIN states' |-> states'[a]]
        /\ IsState(states'[ip]) /\ states'[ip].banned_until = NoBan
        /\ \A a \in DOMAIN states \ {ip} : states'[a] = states[a]
        /\ log' = log /\ now' = now
    <3>1. states' = [states EXCEPT ![ip] = Checked(states[ip])] /\ ip \in DOMAIN states
      BY <1>1 DEF CheckBan
    <3>2. IsState(Checked(states[ip])) /\ Checked(states[ip]).banned_until = NoBan
      BY DEF Checked, IsState, NoBan
    <3>3. states = [a \in DOMAIN states |-> states[a]]
      BY <1>0 DEF Shape
    <3>4. states' = [a \in DOMAIN states |-> IF a = ip THEN Checked(states[ip]) ELSE states[a]]
      BY <3>1, <3>3
    <3>5. log' = log /\ now' = now
      BY <1>1 DEF CheckBan
    <3> QED
      BY <3>1, <3>2, <3>4, <3>5
  <2>2. ~BannedState(states[ip]) /\ ip \in DOMAIN states
    BY <1>1 DEF CheckBan
  <2>3. Shape'
    BY <1>0, <2>1, <2>2 DEF Shape
  <2>4. BanKept'
    BY <1>0, <2>1, <2>2 DEF BanKept, BannedState
  <2>5. BanRecorded'
    <3> SUFFICES ASSUME NEW a \in DOMAIN states, states'[a].banned_until > now
                 PROVE  \E i \in DOMAIN log : /\ log[i].ip = a
                                              /\ log[i].decision = "BannedNow"
                                              /\ log[i].time + Ban = states'[a].banned_until
      BY <2>1 DEF BanRecorded, BannedState
    <3>1. a # ip
      BY <1>0, <2>1 DEF NoBan, Shape
    <3> QED
      BY <1>0, <2>1, <3>1 DEF BanRecorded, BannedState
  <2> QED
    BY <2>3, <2>4, <2>5 DEF BanInv
<1>2. ASSUME NEW ip \in Ips, RecordAttempt(ip) PROVE BanInv'
  <2> DEFINE entry == log'[Len(log) + 1]
  <2>1. PICK decision \in Promise!Decision :
          /\ log' = Append(log, [ip |-> ip, time |-> now, decision |-> decision])
          /\ decision = "Banned" <=> ip \in DOMAIN states /\ BannedState(states[ip])
          /\ decision = "Banned" => states' = states
          /\ decision = "BannedNow" =>
               \E s : IsState(s) /\ s.banned_until = now + Ban /\ states' = Insert(ip, s)
          /\ decision = "Allowed" =>
               \E s : IsState(s) /\ s.banned_until = NoBan /\ states' = Insert(ip, s)
    <3> DEFINE known  == ip \in DOMAIN states
               banned == known /\ BannedState(states[ip])
               old    == IF known THEN Checked(states[ip]) ELSE Fresh
               record == Record(old)
    <3>1. /\ states' = IF banned THEN states ELSE Insert(ip, record.state)
          /\ log' = Append(log, [ip |-> ip, time |-> now,
                                 decision |-> IF banned THEN "Banned" ELSE record.decision])
      BY <1>2 DEF RecordAttempt
    <3>2. /\ old = [attempts |-> old.attempts, banned_until |-> NoBan]
      BY DEF Checked, Fresh
    <3> HIDE DEF old
    <3>3. \/ record.decision = "BannedNow" /\ record.state.banned_until = now + Ban
          \/ record.decision = "Allowed" /\ record.state.banned_until = NoBan
      BY <3>2 DEF Record
    <3>r. IsState(record.state)
      <4>1. now + Ban \in Int /\ NoBan \in Int
        BY <1>0, RateAssumption DEF Shape, NoBan
      <4>2. \/ record.state = [attempts |-> <<>>, banned_until |-> now + Ban]
            \/ record.state = [old EXCEPT !.attempts = Append(old.attempts, now)]
        BY DEF Record
      <4>3. [old EXCEPT !.attempts = Append(old.attempts, now)] =
              [attempts |-> Append(old.attempts, now), banned_until |-> NoBan]
        BY <3>2
      <4> QED
        BY <4>1, <4>2, <4>3 DEF IsState
    <3> HIDE DEF record
    <3>4. CASE banned
      <4>1. states' = states
        BY <3>1, <3>4
      <4>2. log' = Append(log, [ip |-> ip, time |-> now, decision |-> "Banned"])
        BY <3>1, <3>4
      <4> QED
        BY <3>4, <4>1, <4>2 DEF Promise!Decision
    <3>5. CASE ~banned
      <4>1. states' = Insert(ip, record.state)
        BY <3>1, <3>5
      <4>2. log' = Append(log, [ip |-> ip, time |-> now, decision |-> record.decision])
        BY <3>1, <3>5
      <4> QED
        BY <3>3, <3>5, <3>r, <4>1, <4>2 DEF Promise!Decision
    <3> QED
      BY <3>4, <3>5
  <2>2. now' = now
    BY <1>2 DEF RecordAttempt
  <2>3. /\ DOMAIN log' = 1..(Len(log) + 1)
        /\ \A i \in DOMAIN log : log'[i] = log[i]
        /\ entry = [ip |-> ip, time |-> now, decision |-> decision]
        /\ log' \in Seq(Entry)
    <3>1. [ip |-> ip, time |-> now, decision |-> decision] \in Entry
      BY <1>0 DEF Entry, Shape
    <3> QED
      BY <1>0, <2>1, <3>1 DEF Shape
  <2> HIDE DEF entry
  <2>a. \A i \in DOMAIN log' : i \in DOMAIN log \/ i = Len(log) + 1
    BY <1>0, <2>3
  <2>4. CASE decision = "Banned"
    <3>1. states' = states
      BY <2>1, <2>4
    <3>2. Shape'
      BY <1>0, <2>2, <2>3, <3>1 DEF Shape
    <3>3. BanKept'
      BY <1>0, <2>2, <2>3, <2>4, <2>a, <3>1 DEF BanKept, entry
    <3>4. BanRecorded'
      BY <1>0, <2>2, <2>3, <3>1 DEF BanRecorded, BannedState
    <3> QED
      BY <3>2, <3>3, <3>4 DEF BanInv
  <2>5. ASSUME NEW s, IsState(s), decision # "Banned", states' = Insert(ip, s),
               \/ decision = "BannedNow" /\ s.banned_until = now + Ban
               \/ decision = "Allowed" /\ s.banned_until = NoBan
        PROVE  BanInv'
    <3>1. /\ DOMAIN states' = DOMAIN states \cup {ip}
          /\ states' = [a \in DOMAIN states' |-> states'[a]]
          /\ states'[ip] = s
          /\ \A a \in DOMAIN states \ {ip} : states'[a] = states[a]
      BY <2>5 DEF Insert
    <3>2. ~(ip \in DOMAIN states /\ BannedState(states[ip]))
      BY <2>1, <2>5
    <3>3. s.banned_until \in Int /\ now \in Nat
      BY <1>0, <2>5 DEF Shape, IsState
    <3>4. Shape'
      BY <1>0, <2>2, <2>3, <2>5, <3>1 DEF Shape
    <3>5. BanKept'
      <4> SUFFICES ASSUME NEW i \in DOMAIN log', log'[i].decision = "BannedNow",
                          log'[i].time + Ban > now
                   PROVE  /\ log'[i].ip \in DOMAIN states'
                          /\ states'[log'[i].ip].banned_until = log'[i].time + Ban
        BY <2>2 DEF BanKept
      <4>1. CASE i = Len(log) + 1
        BY <2>3, <2>5, <3>1, <4>1 DEF entry
      <4>2. CASE i \in DOMAIN log
        <5>1. /\ log'[i] = log[i] /\ log[i].ip \in DOMAIN states
              /\ states[log[i].ip].banned_until = log[i].time + Ban
          BY <1>0, <2>3, <4>2 DEF BanKept
        <5>2. log[i].ip # ip
          BY <3>2, <5>1 DEF BannedState
        <5> QED
          BY <3>1, <5>1, <5>2
      <4> QED
        BY <2>a, <4>1, <4>2
    <3>6. BanRecorded'
      <4> SUFFICES ASSUME NEW a \in DOMAIN states', states'[a].banned_until > now
                   PROVE  \E i \in DOMAIN log' : /\ log'[i].ip = a
                                                 /\ log'[i].decision = "BannedNow"
                                                 /\ log'[i].time + Ban = states'[a].banned_until
        BY <2>2 DEF BanRecorded, BannedState
      <4>1. CASE a = ip
        <5>1. decision = "BannedNow" /\ states'[a].banned_until = now + Ban
          BY <2>5, <3>1, <3>3, <4>1 DEF NoBan
        <5>2. Len(log) + 1 \in DOMAIN log'
          BY <1>0, <2>3
        <5> QED
          BY <2>3, <4>1, <5>1, <5>2 DEF entry
      <4>2. CASE a # ip
        <5>1. a \in DOMAIN states /\ states'[a] = states[a]
          BY <3>1, <4>2
        <5>2. DOMAIN log \subseteq DOMAIN log'
          BY <1>0, <2>3
        <5> QED
          BY <1>0, <2>3, <5>1, <5>2 DEF BanRecorded, BannedState
      <4> QED
        BY <4>1, <4>2
    <3> QED
      BY <3>4, <3>5, <3>6 DEF BanInv
  <2> QED
    BY <2>1, <2>4, <2>5 DEF Promise!Decision
<1>3. CASE Purge
  <2>1. PICK kept \in SUBSET DOMAIN states :
          /\ DOMAIN states' = kept
          /\ states' = [a \in kept |-> states'[a]]
          /\ \A a \in DOMAIN states : BannedState(states[a]) => a \in kept
          /\ \A a \in kept : /\ IsState(states'[a])
                             /\ states'[a].banned_until = states[a].banned_until
    <3> DEFINE trimmed == [a \in DOMAIN states |-> [states[a] EXCEPT !.attempts = Unexpired(@)]]
               kept == {a \in DOMAIN states : BannedState(states[a]) \/ trimmed[a].attempts # <<>>}
    <3>1. states' = [a \in kept |-> trimmed[a]]
      BY <1>3 DEF Purge
    <3>2. \A a \in DOMAIN states : /\ IsState(trimmed[a])
                                   /\ trimmed[a].banned_until = states[a].banned_until
      BY <1>0 DEF Shape, IsState
    <3>3. \A a \in DOMAIN states : BannedState(states[a]) => a \in kept
      OBVIOUS
    <3>4. kept \subseteq DOMAIN states
      OBVIOUS
    <3> HIDE DEF trimmed, kept
    <3> QED
      BY <3>1, <3>2, <3>3, <3>4
  <2>2. log' = log /\ now' = now
    BY <1>3 DEF Purge
  <2>3. Shape'
    BY <1>0, <2>1, <2>2 DEF Shape
  <2>4. BanKept'
    BY <1>0, <2>1, <2>2 DEF BanKept, BannedState
  <2>5. BanRecorded'
    BY <1>0, <2>1, <2>2 DEF BanRecorded, BannedState
  <2> QED
    BY <2>3, <2>4, <2>5 DEF BanInv
<1>4. CASE ClockTick
  <2>1. states' = states /\ log' = log /\ now' = now + 1
    BY <1>4 DEF ClockTick
  <2>2. Shape'
    BY <1>0, <2>1 DEF Shape
  <2>3. BanKept'
    BY <1>0, <2>1 DEF BanKept, Shape
  <2>4. BanRecorded'
    <3>1. \A a \in DOMAIN states : BannedState(states[a])' => BannedState(states[a])
      BY <1>0, <2>1 DEF BannedState, Shape, IsState
    <3> QED
      BY <1>0, <2>1, <3>1 DEF BanRecorded
  <2> QED
    BY <2>2, <2>3, <2>4 DEF BanInv
<1>5. CASE UNCHANGED vars
  BY <1>5 DEF vars, BanInv, Shape, BanKept, BanRecorded, BannedState
<1> QED
  BY <1>1, <1>2, <1>3, <1>4, <1>5 DEF Next

(* The table and the record of attempts agree on who is banned, for any      *)
(* interleaving of checks, attempts, purges and the clock.                   *)
THEOREM BansKept == Spec => []BansRemembered
<1>1. BanInv => BansRemembered
  <2> SUFFICES ASSUME BanInv, NEW ip \in Ips
               PROVE  Promise!IsBanned(ip) <=> ip \in DOMAIN states /\ BannedState(states[ip])
    BY DEF BansRemembered
  <2>1. ASSUME Promise!IsBanned(ip)
        PROVE  ip \in DOMAIN states /\ BannedState(states[ip])
    BY <2>1 DEF BanInv, BanKept, Promise!IsBanned, Promise!Of, BannedState
  <2>2. ASSUME ip \in DOMAIN states, BannedState(states[ip])
        PROVE  Promise!IsBanned(ip)
    BY <2>2 DEF BanInv, BanRecorded, Promise!IsBanned, Promise!Of, BannedState
  <2> QED
    BY <2>1, <2>2
<1> QED
  BY <1>1, InitBan, NextBan, PTL DEF Spec

-----------------------------------------------------------------------------
(* Which attempts of the record the limiter keeps *)

Sorted(s) == \A i, j \in 1..Len(s) : i < j => s[i] <= s[j]

AllowedIn(l, ip) == {i \in DOMAIN l : l[i].ip = ip /\ l[i].decision = "Allowed"}

(* f takes each attempt kept in `kept` to its entry in record l; at time t   *)
(* none that counts is missing.                                              *)
Match(f, ip, kept, l, t) ==
  /\ f \in [1..Len(kept) -> AllowedIn(l, ip)]
  /\ \A j, k \in 1..Len(kept) : f[j] = f[k] => j = k
  /\ \A k \in 1..Len(kept) : l[f[k]].time = kept[k]
  /\ \A i \in AllowedIn(l, ip) : t - l[i].time < Window => \E k \in 1..Len(kept) : f[k] = i

(* A nonempty set of natural numbers has a least element. *)
LEMMA LeastNatural ==
  ASSUME NEW S \in SUBSET Nat, S # {}
  PROVE  \E m \in S : \A n \in S : m <= n
<1>1. PICK m \in S : \A n \in S : ~(<<n, m>> \in OpToRel(<, Nat))
  BY NatLessThanWellFounded, WFMin
<1>2. \A n \in S : ~(n < m)
  BY <1>1 DEF OpToRel
<1> QED
  BY <1>2

(* Popping expired attempts from the front leaves exactly the ones that are  *)
(* not expired: the attempts are in the order of their times.                *)
LEMMA Trim ==
  ASSUME now \in Nat, NEW a \in Seq(0..now), Sorted(a)
  PROVE  \E d \in 0..Len(a) :
           /\ Unexpired(a) \in Seq(0..now) /\ Sorted(Unexpired(a))
           /\ Len(Unexpired(a)) = Len(a) - d
           /\ \A k \in 1..Len(Unexpired(a)) :
                Unexpired(a)[k] = a[k + d] /\ now - Unexpired(a)[k] < Window
           /\ \A k \in 1..d : now - a[k] >= Window
<1>0. DOMAIN a = 1..Len(a) /\ Len(a) \in Nat /\ \A i \in 1..Len(a) : a[i] \in 0..now
  OBVIOUS
<1>n. now \in Int /\ Window \in Int /\ \A i \in 1..Len(a) : a[i] \in Int
  BY <1>0, RateAssumption
<1>1. CASE \A i \in DOMAIN a : now - a[i] >= Window
  <2>1. Unexpired(a) = <<>>
    BY <1>1 DEF Unexpired
  <2>2. Len(a) \in 0..Len(a) /\ \A k \in 1..Len(a) : now - a[k] >= Window
    BY <1>0, <1>1
  <2>3. Unexpired(a) \in Seq(0..now) /\ Len(Unexpired(a)) = 0 /\ Len(a) - Len(a) = 0
    BY <1>0, <2>1
  <2>4. Sorted(Unexpired(a))
    BY <2>3 DEF Sorted
  <2> QED
    BY <2>2, <2>3, <2>4
<1>2. CASE ~(\A i \in DOMAIN a : now - a[i] >= Window)
  <2> DEFINE S == {i \in DOMAIN a : now - a[i] < Window}
  <2>1. S \in SUBSET Nat /\ S # {}
    BY <1>0, <1>2, RateAssumption
  <2>2. PICK m \in S : \A n \in S : m <= n
    BY <2>1, LeastNatural
  <2>3. /\ m \in DOMAIN a /\ now - a[m] < Window
        /\ \A j \in 1..(m - 1) : now - a[j] >= Window
    <3>1. m \in 1..Len(a) /\ now - a[m] < Window
      BY <1>0, <2>2
    <3>2. ASSUME NEW j \in 1..(m - 1), now - a[j] < Window PROVE FALSE
      <4>1. j \in 1..Len(a) /\ j < m
        BY <1>0, <3>1
      <4>2. j \in S
        BY <1>0, <3>2, <4>1
      <4> QED
        BY <2>2, <3>1, <4>1, <4>2
    <3>3. \A j \in 1..(m - 1) : a[j] \in Int
      BY <1>0, <1>n, <3>1
    <3> QED
      BY <1>0, <1>n, <3>1, <3>2, <3>3
  <2> HIDE DEF S
  <2>4. PICK first \in 1..Len(a) :
          /\ now - a[first] < Window
          /\ \A j \in 1..(first - 1) : now - a[j] >= Window
          /\ Unexpired(a) = SubSeq(a, first, Len(a))
    BY <1>0, <1>2, <2>3, Zenon DEF Unexpired
  <2> DEFINE u == SubSeq(a, first, Len(a))
             d == first - 1
  <2>5. d \in 0..Len(a) /\ first = d + 1 /\ d \in Nat
    BY <1>0
  <2>6. u \in Seq(0..now) /\ Len(u) = Len(a) - d /\ \A k \in 1..Len(u) : u[k] = a[k + d]
    <3>1. /\ Len(u) = IF first <= Len(a) THEN Len(a) - first + 1 ELSE 0
          /\ u \in Seq(0..now)
          /\ \A i \in 1 .. Len(a) - first + 1 : u[i] = a[first + i - 1]
      BY <1>0, SubSeqProperties
    <3>2. Len(u) = Len(a) - d /\ Len(a) - first + 1 = Len(a) - d
      BY <1>0, <3>1
    <3>3. \A k \in 1..Len(u) : first + k - 1 = k + d
      BY <1>0
    <3> QED
      BY <3>1, <3>2, <3>3
  <2> HIDE DEF u, d
  <2>8. \A k \in 1..Len(u) : k + d \in 1..Len(a) /\ u[k] \in Int
    <3>1. \A k \in 1..Len(u) : k + d \in 1..Len(a)
      BY <1>0, <2>5, <2>6
    <3> QED
      BY <1>n, <2>6, <3>1
  <2>9. Sorted(u)
    <3> SUFFICES ASSUME NEW i \in 1..Len(u), NEW j \in 1..Len(u), i < j PROVE u[i] <= u[j]
      BY DEF Sorted
    <3>1. i + d < j + d
      BY <2>5
    <3> QED
      BY <2>6, <2>8, <3>1 DEF Sorted
  <2>10. ASSUME NEW k \in 1..Len(u) PROVE now - u[k] < Window
    <3>1. a[first] <= a[k + d]
      <4>1. CASE k = 1
        BY <1>0, <2>5, <4>1
      <4>2. CASE k # 1
        <5>1. first < k + d
          BY <2>5, <4>2
        <5> QED
          BY <2>8, <5>1 DEF Sorted
      <4> QED
        BY <4>1, <4>2
    <3>2. a[first] \in Int /\ a[k + d] \in Int /\ now - a[first] < Window /\ u[k] = a[k + d]
      BY <1>n, <2>4, <2>6, <2>8
    <3> QED
      BY <1>n, <3>1, <3>2
  <2>11. \A k \in 1..d : now - a[k] >= Window
    BY <2>4 DEF d
  <2> QED
    BY <2>4, <2>5, <2>6, <2>9, <2>10, <2>11 DEF u
<1> QED
  BY <1>1, <1>2

(* Dropping expired attempts. *)
LEMMA TrimMatch ==
  ASSUME NEW ip, NEW a \in Seq(Nat), NEW u \in Seq(Nat), NEW d \in 0..Len(a), NEW l, NEW f,
         now \in Nat, Len(u) = Len(a) - d,
         \A k \in 1..Len(u) : u[k] = a[k + d],
         \A k \in 1..d : now - a[k] >= Window,
         Match(f, ip, a, l, now)
  PROVE  \E g : Match(g, ip, u, l, now)
<1> DEFINE g == [k \in 1..Len(u) |-> f[k + d]]
<1>0. Len(a) \in Nat /\ Len(u) \in Nat /\ d \in Nat
  OBVIOUS
<1>1. \A k \in 1..Len(u) : k + d \in 1..Len(a) /\ g[k] = f[k + d]
  BY <1>0
<1>2. g \in [1..Len(u) -> AllowedIn(l, ip)]
  BY <1>1 DEF Match
<1> HIDE DEF g
<1>3. \A j, k \in 1..Len(u) : g[j] = g[k] => j = k
  <2> SUFFICES ASSUME NEW j \in 1..Len(u), NEW k \in 1..Len(u), g[j] = g[k] PROVE j = k
    OBVIOUS
  <2>1. j + d = k + d
    BY <1>1 DEF Match
  <2> QED
    BY <1>0, <2>1
<1>4. \A k \in 1..Len(u) : l[g[k]].time = u[k]
  <2>1. \A k \in 1..Len(a) : l[f[k]].time = a[k]
    BY Zenon DEF Match
  <2> QED
    BY <1>1, <2>1, Zenon
<1>5. ASSUME NEW i \in AllowedIn(l, ip), now - l[i].time < Window
      PROVE  \E k \in 1..Len(u) : g[k] = i
  <2>1. PICK k \in 1..Len(a) : f[k] = i
    BY <1>5 DEF Match
  <2>2. l[i].time = a[k] /\ a[k] \in Nat
    BY <2>1 DEF Match
  <2>3. k \notin 1..d
    BY <1>5, <2>2, RateAssumption
  <2>4. k - d \in 1..Len(u) /\ (k - d) + d = k
    BY <1>0, <2>1, <2>3
  <2> QED
    BY <1>1, <2>1, <2>4
<1>6. Match(g, ip, u, l, now)
  BY <1>2, <1>3, <1>4, <1>5 DEF Match
<1> QED
  BY <1>6

(* An entry of the record that is not an allowed attempt of ip. *)
LEMMA OtherMatch ==
  ASSUME NEW ip, NEW a \in Seq(Nat), NEW l \in Seq(Entry), NEW e \in Entry, NEW f, NEW t,
         ~(e.ip = ip /\ e.decision = "Allowed"), Match(f, ip, a, l, t)
  PROVE  Match(f, ip, a, Append(l, e), t)
<1>1. /\ DOMAIN Append(l, e) = 1..(Len(l) + 1) /\ DOMAIN l = 1..Len(l) /\ Len(l) \in Nat
      /\ \A i \in 1..Len(l) : Append(l, e)[i] = l[i]
      /\ Append(l, e)[Len(l) + 1] = e
  BY AppendProperties
<1>2. \A i \in 1..(Len(l) + 1) : i \in 1..Len(l) \/ i = Len(l) + 1
  BY <1>1
<1>3. AllowedIn(Append(l, e), ip) = AllowedIn(l, ip)
  BY <1>1, <1>2 DEF AllowedIn
<1>4. \A i \in AllowedIn(l, ip) : Append(l, e)[i] = l[i]
  BY <1>1 DEF AllowedIn
<1> QED
  BY <1>3, <1>4 DEF Match

(* An allowed attempt is kept and recorded. *)
LEMMA AppendMatch ==
  ASSUME NEW ip, NEW a \in Seq(Nat), NEW l \in Seq(Entry), NEW e \in Entry, NEW f, NEW t,
         e.ip = ip, e.decision = "Allowed", Match(f, ip, a, l, t)
  PROVE  \E g : Match(g, ip, Append(a, e.time), Append(l, e), t)
<1> DEFINE n == Len(l) + 1
           b == Append(a, e.time)
           h == Append(l, e)
           g == [k \in 1..Len(b) |-> IF k = Len(a) + 1 THEN n ELSE f[k]]
<1>0. e.time \in Nat
  BY DEF Entry
<1>1. /\ DOMAIN h = 1..(Len(l) + 1) /\ DOMAIN l = 1..Len(l) /\ Len(l) \in Nat
      /\ \A i \in 1..Len(l) : h[i] = l[i]
      /\ h[n] = e
  BY AppendProperties
<1>2. /\ Len(b) = Len(a) + 1 /\ Len(a) \in Nat
      /\ \A k \in 1..Len(a) : b[k] = a[k]
      /\ b[Len(a) + 1] = e.time
  BY <1>0, AppendProperties
<1>3. n \in AllowedIn(h, ip) /\ n \notin DOMAIN l
  BY <1>1 DEF AllowedIn
<1>4. \A i \in AllowedIn(l, ip) : i \in AllowedIn(h, ip) /\ h[i] = l[i] /\ i # n
  BY <1>1 DEF AllowedIn
<1>5. \A i \in AllowedIn(h, ip) : i \in AllowedIn(l, ip) \/ i = n
  BY <1>1 DEF AllowedIn
<1> HIDE DEF n, b, h
<1>6. \A k \in 1..Len(b) : k \in 1..Len(a) \/ k = Len(a) + 1
  BY <1>2
<1>7. \A k \in 1..Len(a) : k \in 1..Len(b) /\ k # Len(a) + 1
  BY <1>2
<1>8. Len(a) + 1 \in 1..Len(b)
  BY <1>2
<1>9. /\ g[Len(a) + 1] = n
      /\ \A k \in 1..Len(a) : g[k] = f[k] /\ f[k] \in AllowedIn(l, ip)
  BY <1>7, <1>8 DEF Match
<1>10. g \in [1..Len(b) -> AllowedIn(h, ip)]
  BY <1>3, <1>4, <1>6, <1>9
<1> HIDE DEF g
<1>11. \A j, k \in 1..Len(b) : g[j] = g[k] => j = k
  BY <1>4, <1>6, <1>9 DEF Match
<1>12. \A k \in 1..Len(b) : h[g[k]].time = b[k]
  <2>1. \A k \in 1..Len(a) : l[f[k]].time = a[k]
    BY Zenon DEF Match
  <2>2. ASSUME NEW k \in 1..Len(a)
        PROVE  h[g[k]].time = b[k]
    BY <1>2, <1>4, <1>9, <2>1, Zenon
  <2>3. h[g[Len(a) + 1]].time = b[Len(a) + 1]
    BY <1>1, <1>2, <1>9, Zenon
  <2> QED
    BY <1>6, <2>2, <2>3, Zenon
<1>13. \A i \in AllowedIn(h, ip) : t - h[i].time < Window => \E k \in 1..Len(b) : g[k] = i
  BY <1>4, <1>5, <1>7, <1>8, <1>9 DEF Match
<1>14. Match(g, ip, b, h, t)
  BY <1>10, <1>11, <1>12, <1>13 DEF Match
<1> QED
  BY <1>14 DEF b, h

(* When every attempt kept counts, there are as many as the promise counts. *)
LEMMA CountMatch ==
  ASSUME NEW ip, NEW u \in Seq(Nat), NEW f, Match(f, ip, u, log, now),
         \A k \in 1..Len(u) : now - u[k] < Window
  PROVE  Cardinality(Promise!Recent(ip)) = Len(u)
<1>1. \A i : i \in Promise!Recent(ip) <=> i \in AllowedIn(log, ip) /\ now - log[i].time < Window
  BY DEF Promise!Recent, Promise!Of, AllowedIn
<1>2. f \in [1..Len(u) -> Promise!Recent(ip)]
  BY <1>1 DEF Match
<1>3. \A i \in Promise!Recent(ip) : \E k \in 1..Len(u) : f[k] = i
  BY <1>1 DEF Match
<1>4. \A j, k \in 1..Len(u) : f[j] = f[k] => j = k
  BY DEF Match
<1>5. f \in Bijection(1..Len(u), Promise!Recent(ip))
  BY <1>2, <1>3, <1>4 DEF Bijection, Injection, Surjection, IsInjective
<1>6. ExistsBijection(1..Len(u), Promise!Recent(ip)) /\ Len(u) \in Nat
  BY <1>5 DEF ExistsBijection
<1> QED
  BY <1>6, FS_CountingElements

-----------------------------------------------------------------------------
(* The promise *)

Kept(ip) == IF ip \in DOMAIN states THEN states[ip].attempts ELSE <<>>

InForce(ip) == ip \in DOMAIN states /\ BannedState(states[ip])

(* An entry of the table at time t. *)
EntryOK(s, t) ==
  /\ s.attempts \in Seq(0..t) /\ Sorted(s.attempts) /\ Len(s.attempts) < Limit
  /\ s.banned_until \in {NoBan} \cup (0..(t + Ban))

(* For an address that is not banned nothing that counts was dropped; the    *)
(* attempts before a ban are too old once the ban is over.                   *)
CountInv ==
  /\ now \in 0..MaxTime
  /\ \A ip \in DOMAIN states : EntryOK(states[ip], now)
  /\ \A i \in DOMAIN log : log[i].time <= now
  /\ \A ip \in Ips : ~InForce(ip) => \E f : Match(f, ip, Kept(ip), log, now)
  /\ \A ip \in Ips : InForce(ip) =>
       /\ Kept(ip) = <<>>
       /\ \A i \in AllowedIn(log, ip) : log[i].time + Ban <= states[ip].banned_until

(* The attempts kept for any address. *)
LEMMA KeptType ==
  ASSUME CountInv, NEW ip
  PROVE  /\ Kept(ip) \in Seq(0..now) /\ Kept(ip) \in Seq(Nat) /\ Sorted(Kept(ip))
         /\ Len(Kept(ip)) < Limit /\ now \in Nat
<1>0. now \in Nat
  BY RateAssumption DEF CountInv
<1>1. Kept(ip) \in Seq(0..now) /\ Sorted(Kept(ip)) /\ Len(Kept(ip)) < Limit
  <2>1. CASE ip \in DOMAIN states
    BY <2>1 DEF Kept, CountInv, EntryOK
  <2>2. CASE ip \notin DOMAIN states
    <3>1. Kept(ip) = <<>>
      BY <2>2 DEF Kept
    <3> QED
      BY <3>1, RateAssumption DEF Sorted
  <2> QED
    BY <2>1, <2>2
<1> QED
  BY <1>0, <1>1

(* What is left when the expired ones are dropped. *)
LEMMA KeptTrim ==
  ASSUME CountInv, NEW ip \in Ips
  PROVE  LET u == Unexpired(Kept(ip))
         IN  /\ u \in Seq(0..now) /\ u \in Seq(Nat) /\ Sorted(u) /\ Len(u) < Limit /\ Len(u) \in Nat
             /\ \A k \in 1..Len(u) : now - u[k] < Window
             /\ ~InForce(ip) => \E f : Match(f, ip, u, log, now)
<1> DEFINE u == Unexpired(Kept(ip))
<1>0. /\ Kept(ip) \in Seq(0..now) /\ Kept(ip) \in Seq(Nat) /\ Sorted(Kept(ip))
      /\ Len(Kept(ip)) < Limit /\ now \in Nat
  BY KeptType
<1>1. PICK d \in 0..Len(Kept(ip)) :
        /\ u \in Seq(0..now) /\ Sorted(u) /\ Len(u) = Len(Kept(ip)) - d
        /\ \A k \in 1..Len(u) : u[k] = Kept(ip)[k + d] /\ now - u[k] < Window
        /\ \A k \in 1..d : now - Kept(ip)[k] >= Window
  BY <1>0, Trim
<1> HIDE DEF u
<1>2. u \in Seq(Nat) /\ Len(u) \in Nat /\ Len(u) < Limit
  BY <1>0, <1>1, RateAssumption
<1>3. ASSUME ~InForce(ip) PROVE \E f : Match(f, ip, u, log, now)
  <2>1. PICK f : Match(f, ip, Kept(ip), log, now)
    BY <1>3 DEF CountInv
  <2>2. \A k \in 1..Len(u) : u[k] = Kept(ip)[k + d]
    BY <1>1
  <2>3. Len(u) = Len(Kept(ip)) - d /\ \A k \in 1..d : now - Kept(ip)[k] >= Window
    BY <1>1
  <2> QED
    BY <1>0, <1>2, <2>1, <2>2, <2>3, TrimMatch
<1> QED
  BY <1>1, <1>2, <1>3 DEF u

(* The decision of the table on an attempt of an address that is not banned. *)
LEMMA Recorded ==
  ASSUME CountInv, NEW ip \in Ips, RecordAttempt(ip), ~InForce(ip)
  PROVE  LET u == Unexpired(Kept(ip))
         IN  \/ /\ Len(u) + 1 >= Limit
                /\ states' = Insert(ip, [attempts |-> <<>>, banned_until |-> now + Ban])
                /\ log' = Append(log, [ip |-> ip, time |-> now, decision |-> "BannedNow"])
             \/ /\ Len(u) + 1 < Limit
                /\ states' = Insert(ip, [attempts |-> Append(u, now), banned_until |-> NoBan])
                /\ log' = Append(log, [ip |-> ip, time |-> now, decision |-> "Allowed"])
<1> DEFINE u     == Unexpired(Kept(ip))
           known == ip \in DOMAIN states
           old   == IF known THEN Checked(states[ip]) ELSE Fresh
<1>1. u \in Seq(Nat) /\ Len(u) \in Nat /\ now \in Nat
  BY KeptTrim, KeptType
<1>2. Unexpired(<<>>) = <<>>
  BY DEF Unexpired
<1>3. old = [attempts |-> u, banned_until |-> NoBan]
  BY <1>2 DEF Checked, Fresh, Kept
<1>4. /\ states' = Insert(ip, Record(old).state)
      /\ log' = Append(log, [ip |-> ip, time |-> now, decision |-> Record(old).decision])
  BY DEF RecordAttempt, InForce
<1> HIDE DEF u, old
<1>5. Len(Append(u, now)) = Len(u) + 1
  BY <1>1
<1>6. CASE Len(u) + 1 >= Limit
  BY <1>3, <1>4, <1>5, <1>6 DEF Record, u
<1>7. CASE ~(Len(u) + 1 >= Limit)
  <2>1. Record(old) = [state |-> [old EXCEPT !.attempts = Append(u, now)], decision |-> "Allowed"]
    BY <1>3, <1>5, <1>7 DEF Record
  <2>2. [old EXCEPT !.attempts = Append(u, now)] = [attempts |-> Append(u, now), banned_until |-> NoBan]
    BY <1>3
  <2>3. Len(u) + 1 < Limit
    BY <1>1, <1>7, RateAssumption
  <2> QED
    BY <1>4, <2>1, <2>2, <2>3 DEF u
<1> QED
  BY <1>6, <1>7

(* check_ban and purge: expired attempts go, entries without any may go. *)
LEMMA TrimStep ==
  ASSUME Shape, CountInv, log' = log, now' = now,
         DOMAIN states' \subseteq DOMAIN states,
         \A ip \in DOMAIN states' :
           /\ states'[ip].attempts = Unexpired(states[ip].attempts) \/ states'[ip] = states[ip]
           /\ states'[ip].banned_until \in {NoBan, states[ip].banned_until},
         \A ip \in Ips : InForce(ip) => ip \in DOMAIN states' /\ states'[ip].banned_until = states[ip].banned_until,
         \A ip \in DOMAIN states : ip \notin DOMAIN states' => Unexpired(states[ip].attempts) = <<>>
  PROVE  CountInv'
<1>0. now \in Nat /\ NoBan \in Int /\ NoBan <= now /\ DOMAIN states \subseteq Ips
  BY KeptType DEF NoBan, Shape
<1>1. ASSUME NEW ip \in Ips PROVE Kept(ip)' \in {Kept(ip), Unexpired(Kept(ip))}
  <2>1. CASE ip \in DOMAIN states'
    BY <2>1 DEF Kept
  <2>2. CASE ip \in DOMAIN states /\ ip \notin DOMAIN states'
    BY <2>2 DEF Kept
  <2>3. CASE ip \notin DOMAIN states
    BY <2>3 DEF Kept
  <2> QED
    BY <2>1, <2>2, <2>3
<1>2. \A ip \in Ips : InForce(ip)' <=> InForce(ip)
  BY <1>0 DEF InForce, BannedState
<1>3. ASSUME NEW ip \in DOMAIN states' PROVE EntryOK(states'[ip], now)
  <2>1. Kept(ip)' = states'[ip].attempts /\ ip \in Ips /\ ip \in DOMAIN states
    BY <1>0, <1>3 DEF Kept
  <2>2. states'[ip].attempts \in Seq(0..now) /\ Sorted(states'[ip].attempts) /\ Len(states'[ip].attempts) < Limit
    BY <1>1, <2>1, KeptType, KeptTrim
  <2>3. states'[ip].banned_until \in {NoBan} \cup (0..(now + Ban))
    BY <2>1 DEF CountInv, EntryOK
  <2> QED
    BY <2>2, <2>3 DEF EntryOK
<1>4. ASSUME NEW ip \in Ips, ~InForce(ip) PROVE \E f : Match(f, ip, Kept(ip)', log, now)
  <2>1. \E f : Match(f, ip, Kept(ip), log, now)
    BY <1>4 DEF CountInv
  <2>2. \E f : Match(f, ip, Unexpired(Kept(ip)), log, now)
    BY <1>4, KeptTrim
  <2> QED
    BY <1>1, <2>1, <2>2
<1>5. ASSUME NEW ip \in Ips, InForce(ip)
      PROVE  /\ Kept(ip)' = <<>>
             /\ \A i \in AllowedIn(log, ip) : log[i].time + Ban <= states'[ip].banned_until
  <2>1. Kept(ip) = <<>> /\ Unexpired(<<>>) = <<>>
    BY <1>5 DEF CountInv, Unexpired
  <2>2. Kept(ip)' = <<>>
    BY <1>1, <2>1
  <2> QED
    BY <1>5, <2>2 DEF CountInv
<1>6. (now \in 0..MaxTime)' /\ (\A i \in DOMAIN log : log[i].time <= now)'
  BY DEF CountInv
<1> QED
  BY <1>2, <1>3, <1>4, <1>5, <1>6 DEF CountInv

(* An attempt: the new entry of the table belongs to the new one of the      *)
(* record.                                                                   *)
LEMMA RecordStep ==
  ASSUME Shape, CountInv, NEW ip \in Ips, RecordAttempt(ip)
  PROVE  CountInv'
<1>0. /\ now \in Nat /\ now' = now /\ log \in Seq(Entry) /\ Len(log) \in Nat
      /\ DOMAIN log = 1..Len(log) /\ Ban \in Nat /\ now \in 0..MaxTime
      /\ \A i \in DOMAIN log : log[i].time <= now
  BY KeptType, RateAssumption DEF Shape, RecordAttempt, CountInv
<1>1. ASSUME NEW decision \in Promise!Decision,
             log' = Append(log, [ip |-> ip, time |-> now, decision |-> decision])
      PROVE  /\ [ip |-> ip, time |-> now, decision |-> decision] \in Entry
             /\ DOMAIN log' = 1..(Len(log) + 1)
             /\ \A i \in DOMAIN log : log'[i] = log[i]
             /\ log'[Len(log) + 1] = [ip |-> ip, time |-> now, decision |-> decision]
             /\ \A i \in DOMAIN log' : log'[i].time <= now
             /\ \A a : a # ip \/ decision # "Allowed" => AllowedIn(log', a) = AllowedIn(log, a)
             /\ \A a \in Ips : a # ip \/ decision # "Allowed" =>
                  \A f : Match(f, a, Kept(a), log, now) => Match(f, a, Kept(a), log', now)
  <2> DEFINE e == [ip |-> ip, time |-> now, decision |-> decision]
  <2>1. e \in Entry /\ e.ip = ip /\ e.time = now /\ e.decision = decision
    BY <1>0 DEF Entry
  <2> HIDE DEF e
  <2>2. /\ DOMAIN log' = 1..(Len(log) + 1)
        /\ \A i \in DOMAIN log : log'[i] = log[i]
        /\ log'[Len(log) + 1] = e
    BY <1>0, <1>1, <2>1, AppendProperties DEF e
  <2>3. \A i \in DOMAIN log' : i \in DOMAIN log \/ i = Len(log) + 1
    BY <1>0, <2>2
  <2>4. \A i \in DOMAIN log' : log'[i].time <= now
    BY <1>0, <2>1, <2>2, <2>3
  <2>5. \A a : a # ip \/ decision # "Allowed" => AllowedIn(log', a) = AllowedIn(log, a)
    BY <1>0, <2>1, <2>2, <2>3 DEF AllowedIn
  <2>6. ASSUME NEW a \in Ips, a # ip \/ decision # "Allowed", NEW f, Match(f, a, Kept(a), log, now)
        PROVE  Match(f, a, Kept(a), log', now)
    <3>1. log' = Append(log, e) /\ ~(e.ip = a /\ e.decision = "Allowed") /\ Kept(a) \in Seq(Nat)
      BY <1>1, <2>1, <2>6, KeptType DEF e
    <3> QED
      BY <1>0, <2>1, <2>6, <3>1, OtherMatch
  <2> QED
    BY <2>1, <2>2, <2>4, <2>5, <2>6 DEF e
<1>2. CASE InForce(ip)
  <2>1. states' = states /\ log' = Append(log, [ip |-> ip, time |-> now, decision |-> "Banned"])
    BY <1>2 DEF RecordAttempt, InForce
  <2>2. "Banned" \in Promise!Decision
    BY DEF Promise!Decision
  <2>3. /\ \A i \in DOMAIN log' : log'[i].time <= now
        /\ \A i \in DOMAIN log : log'[i] = log[i]
        /\ \A a : AllowedIn(log', a) = AllowedIn(log, a)
        /\ \A a \in Ips : \A f : Match(f, a, Kept(a), log, now) => Match(f, a, Kept(a), log', now)
    BY <1>1, <2>1, <2>2
  <2>4. \A a \in Ips : Kept(a)' = Kept(a) /\ (InForce(a)' <=> InForce(a))
    BY <1>0, <2>1 DEF Kept, InForce, BannedState
  <2>5. \A a \in Ips : \A i \in AllowedIn(log, a) : log'[i] = log[i]
    BY <2>3 DEF AllowedIn
  <2> QED
    BY <1>0, <2>1, <2>3, <2>4, <2>5 DEF CountInv
<1>3. ASSUME ~InForce(ip), NEW s, NEW decision \in Promise!Decision, EntryOK(s, now),
             states' = Insert(ip, s),
             log' = Append(log, [ip |-> ip, time |-> now, decision |-> decision]),
             \/ /\ decision = "BannedNow" /\ s.attempts = <<>> /\ s.banned_until = now + Ban
             \/ /\ decision = "Allowed" /\ s.banned_until = NoBan
                /\ \E f : Match(f, ip, s.attempts, log', now)
      PROVE  CountInv'
  <2>1. /\ DOMAIN states' = DOMAIN states \cup {ip} /\ states'[ip] = s
        /\ \A a \in DOMAIN states \ {ip} : states'[a] = states[a]
    BY <1>3 DEF Insert
  <2>2. /\ \A i \in DOMAIN log' : log'[i].time <= now
        /\ \A i \in DOMAIN log : log'[i] = log[i]
        /\ \A a : a # ip \/ decision # "Allowed" => AllowedIn(log', a) = AllowedIn(log, a)
        /\ \A a \in Ips : a # ip \/ decision # "Allowed" =>
             \A f : Match(f, a, Kept(a), log, now) => Match(f, a, Kept(a), log', now)
    BY <1>1, <1>3
  <2>3. \A a \in Ips \ {ip} : Kept(a)' = Kept(a) /\ (InForce(a)' <=> InForce(a))
    BY <1>0, <2>1 DEF Kept, InForce, BannedState
  <2>4. \A a \in DOMAIN states' : EntryOK(states'[a], now)
    BY <1>3, <2>1 DEF CountInv
  <2>5. ASSUME NEW a \in Ips \ {ip}
        PROVE  /\ ~InForce(a)' => \E f : Match(f, a, Kept(a)', log', now)
               /\ InForce(a)' =>
                    /\ Kept(a)' = <<>>
                    /\ \A i \in AllowedIn(log', a) : log'[i].time + Ban <= states'[a].banned_until
    <3>1. ~InForce(a)' => \E f : Match(f, a, Kept(a)', log', now)
      BY <2>2, <2>3 DEF CountInv
    <3>2. InForce(a)' => states'[a] = states[a] /\ InForce(a)
      BY <2>1, <2>3 DEF InForce
    <3>3. \A i \in AllowedIn(log', a) : i \in AllowedIn(log, a) /\ log'[i] = log[i]
      BY <2>2 DEF AllowedIn
    <3> QED
      BY <2>3, <3>1, <3>2, <3>3 DEF CountInv
  <2>6. CASE decision = "BannedNow"
    <3>1. s.attempts = <<>> /\ s.banned_until = now + Ban
      BY <1>3, <2>6
    <3>2. Kept(ip)' = <<>>
      BY <2>1, <3>1 DEF Kept
    <3>3. ASSUME NEW i \in AllowedIn(log', ip) PROVE log'[i].time + Ban <= states'[ip].banned_until
      <4>1. i \in DOMAIN log' /\ i \in DOMAIN log
        BY <2>2, <2>6 DEF AllowedIn
      <4>2. log'[i] = log[i] /\ log[i] \in Entry /\ log[i].time <= now
        BY <1>0, <2>2, <4>1
      <4>3. log'[i].time \in Nat
        BY <4>2 DEF Entry
      <4> QED
        BY <1>0, <2>1, <3>1, <4>2, <4>3
    <3>4. ~InForce(ip)' => Ban = 0
      BY <1>0, <2>1, <3>1 DEF InForce, BannedState
    <3>5. Ban # 0
      BY RateAssumption
    <3> QED
      BY <1>0, <2>2, <2>4, <2>5, <3>2, <3>3, <3>4, <3>5 DEF CountInv
  <2>7. CASE decision = "Allowed"
    <3>1. PICK f : Match(f, ip, s.attempts, log', now)
      BY <1>3, <2>7
    <3>2. Kept(ip)' = s.attempts
      BY <2>1 DEF Kept
    <3>3. ~InForce(ip)'
      BY <1>0, <1>3, <2>1, <2>7 DEF InForce, BannedState, NoBan
    <3> QED
      BY <1>0, <2>2, <2>4, <2>5, <3>1, <3>2, <3>3 DEF CountInv
  <2> QED
    BY <1>3, <2>6, <2>7
<1>4. CASE ~InForce(ip)
  <2> DEFINE u == Unexpired(Kept(ip))
  <2>1. /\ u \in Seq(0..now) /\ u \in Seq(Nat) /\ Sorted(u) /\ Len(u) < Limit /\ Len(u) \in Nat
        /\ \E f : Match(f, ip, u, log, now)
    BY <1>4, KeptTrim
  <2>2. \/ /\ Len(u) + 1 >= Limit
           /\ states' = Insert(ip, [attempts |-> <<>>, banned_until |-> now + Ban])
           /\ log' = Append(log, [ip |-> ip, time |-> now, decision |-> "BannedNow"])
        \/ /\ Len(u) + 1 < Limit
           /\ states' = Insert(ip, [attempts |-> Append(u, now), banned_until |-> NoBan])
           /\ log' = Append(log, [ip |-> ip, time |-> now, decision |-> "Allowed"])
    BY <1>4, Recorded
  <2> HIDE DEF u
  <2>d. "BannedNow" \in Promise!Decision /\ "Allowed" \in Promise!Decision
    BY DEF Promise!Decision
  <2>3. CASE Len(u) + 1 >= Limit
    <3> DEFINE s == [attempts |-> <<>>, banned_until |-> now + Ban]
    <3>1. EntryOK(s, now)
      BY <1>0, RateAssumption DEF EntryOK, Sorted
    <3>2. /\ states' = Insert(ip, s)
          /\ log' = Append(log, [ip |-> ip, time |-> now, decision |-> "BannedNow"])
      BY <2>1, <2>2, <2>3, RateAssumption
    <3>3. s.attempts = <<>> /\ s.banned_until = now + Ban
      OBVIOUS
    <3> HIDE DEF s
    <3> QED
      BY <1>3, <1>4, <2>d, <3>1, <3>2, <3>3
  <2>4. CASE Len(u) + 1 < Limit
    <3> DEFINE s == [attempts |-> Append(u, now), banned_until |-> NoBan]
               e == [ip |-> ip, time |-> now, decision |-> "Allowed"]
    <3>1. states' = Insert(ip, s) /\ log' = Append(log, e)
      BY <2>1, <2>2, <2>4, RateAssumption
    <3>2. s.attempts = Append(u, now) /\ s.banned_until = NoBan
      OBVIOUS
    <3>3. EntryOK(s, now)
      <4>1. /\ Append(u, now) \in Seq(0..now) /\ Len(Append(u, now)) = Len(u) + 1
            /\ \A k \in 1..Len(u) : Append(u, now)[k] = u[k] /\ u[k] \in 0..now
            /\ Append(u, now)[Len(u) + 1] = now
        BY <1>0, <2>1, AppendProperties
      <4>2. \A k \in 1..(Len(u) + 1) : k \in 1..Len(u) \/ k = Len(u) + 1
        BY <2>1
      <4>3. Sorted(Append(u, now))
        BY <1>0, <2>1, <4>1, <4>2 DEF Sorted
      <4> QED
        BY <2>4, <3>2, <4>1, <4>3 DEF EntryOK
    <3>4. e \in Entry /\ e.ip = ip /\ e.decision = "Allowed" /\ e.time = now
      BY <1>0, <2>d DEF Entry
    <3> HIDE DEF s, e
    <3>5. \E f : Match(f, ip, s.attempts, log', now)
      <4>1. PICK f : Match(f, ip, u, log, now)
        BY <2>1
      <4>2. \E g : Match(g, ip, Append(u, e.time), Append(log, e), now)
        BY <1>0, <2>1, <3>4, <4>1, AppendMatch
      <4> QED
        BY <3>1, <3>2, <3>4, <4>2
    <3>6. log' = Append(log, [ip |-> ip, time |-> now, decision |-> "Allowed"])
      BY <3>1 DEF e
    <3> QED
      BY <1>3, <1>4, <2>d, <3>1, <3>2, <3>3, <3>5, <3>6
  <2> QED
    BY <2>2, <2>3, <2>4
<1> QED
  BY <1>2, <1>4

(* Time passes: fewer attempts count, and a ban that ends leaves none that   *)
(* does, because it lasted no shorter than the window.                       *)
LEMMA TickStep ==
  ASSUME Shape, CountInv, ClockTick
  PROVE  CountInv'
<1>0. /\ now \in Nat /\ now' = now + 1 /\ log' = log /\ states' = states /\ now' \in 0..MaxTime
      /\ Ban \in Nat /\ Window \in Nat /\ Ban >= Window
      /\ \A i \in DOMAIN log : log[i].time \in Nat /\ log[i].time <= now
  BY KeptType, LogTypes, RateAssumption DEF ClockTick, CountInv
<1>1. ASSUME NEW ip \in DOMAIN states PROVE EntryOK(states[ip], now')
  <2>1. /\ states[ip].attempts \in Seq(0..now) /\ Sorted(states[ip].attempts)
        /\ Len(states[ip].attempts) < Limit /\ states[ip].banned_until \in {NoBan} \cup (0..(now + Ban))
    BY DEF CountInv, EntryOK
  <2>2. states[ip].attempts \in Seq(0..now')
    BY <1>0, <2>1
  <2>3. states[ip].banned_until \in {NoBan} \cup (0..(now' + Ban))
    BY <1>0, <2>1
  <2> QED
    BY <2>1, <2>2, <2>3 DEF EntryOK
<1>2. \A ip \in Ips : Kept(ip)' = Kept(ip)
  BY <1>0 DEF Kept
<1>3. \A ip \in Ips : InForce(ip)' => InForce(ip)
  BY <1>0 DEF InForce, BannedState, Shape, IsState
<1>4. ASSUME NEW ip \in Ips, ~InForce(ip)' PROVE \E f : Match(f, ip, Kept(ip), log, now')
  <2>1. CASE InForce(ip)
    <3>1. /\ Kept(ip) = <<>>
          /\ \A i \in AllowedIn(log, ip) : log[i].time + Ban <= states[ip].banned_until
      BY <2>1 DEF CountInv
    <3>2. ip \in DOMAIN states /\ states[ip].banned_until <= now' /\ states[ip].banned_until \in Int
      BY <1>0, <1>4, <2>1 DEF InForce, BannedState, Shape, IsState
    <3>3. \A i \in AllowedIn(log, ip) : ~(now' - log[i].time < Window)
      BY <1>0, <3>1, <3>2 DEF AllowedIn
    <3> DEFINE f == [k \in 1..0 |-> k]
    <3>4. f \in [1..Len(Kept(ip)) -> AllowedIn(log, ip)] /\ Len(Kept(ip)) = 0
      BY <3>1
    <3> HIDE DEF f
    <3>5. Match(f, ip, Kept(ip), log, now')
      BY <3>3, <3>4 DEF Match
    <3> QED
      BY <3>5
  <2>2. CASE ~InForce(ip)
    <3>1. PICK f : Match(f, ip, Kept(ip), log, now)
      BY <2>2 DEF CountInv
    <3>2. \A i \in AllowedIn(log, ip) : now' - log[i].time < Window => now - log[i].time < Window
      BY <1>0 DEF AllowedIn
    <3>3. Match(f, ip, Kept(ip), log, now')
      BY <3>1, <3>2 DEF Match
    <3> QED
      BY <3>3
  <2> QED
    BY <2>1, <2>2
<1>5. \A i \in DOMAIN log : log[i].time <= now'
  BY <1>0
<1> QED
  BY <1>0, <1>1, <1>2, <1>3, <1>4, <1>5 DEF CountInv

(* The limiter starts with an empty table and an empty record. *)
LEMMA InitCount == Init => CountInv
<1> SUFFICES ASSUME Init PROVE CountInv
  OBVIOUS
<1>1. now \in 0..MaxTime /\ DOMAIN states = {} /\ DOMAIN log = {}
  BY RateAssumption DEF Init
<1>2. ASSUME NEW ip \in Ips PROVE ~InForce(ip) /\ \E f : Match(f, ip, Kept(ip), log, now)
  <2>1. Kept(ip) = <<>> /\ AllowedIn(log, ip) = {} /\ ~InForce(ip)
    BY <1>1 DEF Kept, AllowedIn, InForce
  <2> DEFINE f == [k \in 1..0 |-> k]
  <2>2. f \in [1..Len(Kept(ip)) -> AllowedIn(log, ip)] /\ Len(Kept(ip)) = 0
    BY <2>1
  <2> HIDE DEF f
  <2>3. Match(f, ip, Kept(ip), log, now)
    BY <2>1, <2>2 DEF Match
  <2> QED
    BY <2>1, <2>3
<1> QED
  BY <1>1, <1>2 DEF CountInv

(* Every operation keeps the counts. *)
LEMMA NextCount == BanInv /\ CountInv /\ [Next]_vars => CountInv'
<1> SUFFICES ASSUME BanInv, CountInv, [Next]_vars PROVE CountInv'
  OBVIOUS
<1>0. Shape /\ states = [ip \in DOMAIN states |-> states[ip]]
  BY DEF BanInv, Shape
<1>1. ASSUME NEW ip \in Ips, CheckBan(ip) PROVE CountInv'
  <2>1. states' = [states EXCEPT ![ip] = Checked(states[ip])] /\ ip \in DOMAIN states
        /\ ~BannedState(states[ip]) /\ log' = log /\ now' = now
    BY <1>1 DEF CheckBan
  <2>2. /\ DOMAIN states' = DOMAIN states /\ states'[ip] = Checked(states[ip])
        /\ \A a \in DOMAIN states \ {ip} : states'[a] = states[a]
    BY <1>0, <2>1
  <2>3. /\ states'[ip].attempts = Unexpired(states[ip].attempts) /\ states'[ip].banned_until = NoBan
    BY <2>2 DEF Checked
  <2>4. \A a \in Ips : InForce(a) => a # ip /\ a \in DOMAIN states
    BY <2>1 DEF InForce
  <2>5. \A a \in DOMAIN states' :
           /\ states'[a].attempts = Unexpired(states[a].attempts) \/ states'[a] = states[a]
           /\ states'[a].banned_until \in {NoBan, states[a].banned_until}
    BY <2>2, <2>3
  <2> QED
    BY <1>0, <2>1, <2>2, <2>4, <2>5, TrimStep
<1>2. ASSUME NEW ip \in Ips, RecordAttempt(ip) PROVE CountInv'
  BY <1>0, <1>2, RecordStep
<1>3. CASE Purge
  <2> DEFINE trimmed == [a \in DOMAIN states |-> [states[a] EXCEPT !.attempts = Unexpired(@)]]
             kept == {a \in DOMAIN states : BannedState(states[a]) \/ trimmed[a].attempts # <<>>}
  <2>1. states' = [a \in kept |-> trimmed[a]] /\ log' = log /\ now' = now
    BY <1>3 DEF Purge
  <2>2. \A a \in DOMAIN states :
          /\ trimmed[a].attempts = Unexpired(states[a].attempts)
          /\ trimmed[a].banned_until = states[a].banned_until
    BY <1>0 DEF Shape, IsState
  <2>3. /\ kept \subseteq DOMAIN states
        /\ \A a \in DOMAIN states : a \notin kept => Unexpired(states[a].attempts) = <<>>
        /\ \A a \in Ips : InForce(a) => a \in kept
    BY <2>2 DEF InForce
  <2> HIDE DEF trimmed, kept
  <2>4. DOMAIN states' = kept /\ \A a \in kept : states'[a] = trimmed[a]
    BY <2>1
  <2> QED
    BY <1>0, <2>1, <2>2, <2>3, <2>4, TrimStep
<1>4. CASE ClockTick
  BY <1>0, <1>4, TickStep
<1>5. CASE UNCHANGED vars
  BY <1>5 DEF vars, CountInv, Kept, InForce, BannedState
<1> QED
  BY <1>1, <1>2, <1>3, <1>4, <1>5 DEF Next

(* Both invariants hold in every state. *)
LEMMA LimiterInvariant == Spec => [](BanInv /\ CountInv)
  BY InitBan, NextBan, InitCount, NextCount, PTL DEF Spec

(* An entry of the table has fewer attempts than the limit, all in the past, *)
(* and no ban that ends too late.                                            *)
THEOREM LimiterTypeCorrect == Spec => []TypeOK
<1>1. BanInv /\ CountInv => TypeOK
  <2> SUFFICES ASSUME BanInv, CountInv PROVE TypeOK
    OBVIOUS
  <2>1. ASSUME NEW ip \in DOMAIN states
        PROVE  /\ states[ip] \in [attempts : Seq(0..now), banned_until : {NoBan} \cup (0..now + Ban)]
               /\ Len(states[ip].attempts) < Limit
    <3>1. /\ states[ip] = [attempts |-> states[ip].attempts, banned_until |-> states[ip].banned_until]
          /\ states[ip].attempts \in Seq(0..now) /\ Len(states[ip].attempts) < Limit
          /\ states[ip].banned_until \in {NoBan} \cup (0..now + Ban)
      BY DEF BanInv, Shape, IsState, CountInv, EntryOK
    <3> QED
      BY <3>1
  <2> QED
    BY <2>1 DEF TypeOK, BanInv, Shape, CountInv
<1> QED
  BY <1>1, LimiterInvariant, PTL

(* The table and the record agree on a ban. *)
LEMMA BannedAlike ==
  ASSUME BanInv, NEW ip \in Ips
  PROVE  Promise!IsBanned(ip) <=> InForce(ip)
<1>1. ASSUME Promise!IsBanned(ip) PROVE InForce(ip)
  BY <1>1 DEF BanInv, BanKept, Promise!IsBanned, Promise!Of, BannedState, InForce
<1>2. ASSUME InForce(ip) PROVE Promise!IsBanned(ip)
  BY <1>2 DEF BanInv, BanRecorded, Promise!IsBanned, Promise!Of, BannedState, InForce
<1> QED
  BY <1>1, <1>2

(* The limiter decides every attempt as the full record calls for, for any   *)
(* limit, any window and any ban that lasts at least as long.                *)
THEOREM LimiterKeepsPromise == Spec => KeepsPromise
<1>1. Init => Promise!Init
  BY DEF Init, Promise!Init
<1>2. BanInv /\ CountInv /\ [Next]_vars => [Promise!Next]_(Promise!promise)
  <2> SUFFICES ASSUME BanInv, CountInv, [Next]_vars PROVE Promise!Next \/ UNCHANGED <<now, log>>
    BY DEF Promise!promise
  <2>1. ASSUME NEW ip \in Ips, RecordAttempt(ip) PROVE Promise!Attempt(ip)
    <3>1. now' = now
      BY <2>1 DEF RecordAttempt
    <3>2. CASE InForce(ip)
      <4>1. log' = Append(log, [ip |-> ip, time |-> now, decision |-> "Banned"])
        BY <2>1, <3>2 DEF RecordAttempt, InForce
      <4>2. Promise!Decide(ip) = "Banned"
        BY <3>2, BannedAlike DEF Promise!Decide
      <4> QED
        BY <3>1, <4>1, <4>2 DEF Promise!Attempt
    <3>3. CASE ~InForce(ip)
      <4> DEFINE u == Unexpired(Kept(ip))
      <4>1. /\ u \in Seq(Nat) /\ Len(u) \in Nat /\ \A k \in 1..Len(u) : now - u[k] < Window
            /\ \E f : Match(f, ip, u, log, now)
        BY <3>3, KeptTrim
      <4>2. Cardinality(Promise!Recent(ip)) = Len(u)
        BY <4>1, CountMatch
      <4>3. \/ /\ Len(u) + 1 >= Limit
               /\ log' = Append(log, [ip |-> ip, time |-> now, decision |-> "BannedNow"])
            \/ /\ Len(u) + 1 < Limit
               /\ log' = Append(log, [ip |-> ip, time |-> now, decision |-> "Allowed"])
        BY <2>1, <3>3, Recorded
      <4> HIDE DEF u
      <4>4. ~Promise!IsBanned(ip)
        BY <3>3, BannedAlike
      <4>5. Promise!Decide(ip) = IF Len(u) + 1 >= Limit THEN "BannedNow" ELSE "Allowed"
        <5>1. Promise!Decide(ip) = IF Promise!IsBanned(ip) THEN "Banned"
                ELSE IF Cardinality(Promise!Recent(ip)) + 1 >= Limit THEN "BannedNow" ELSE "Allowed"
          BY DEF Promise!Decide, Promise!Cardinality, Cardinality
        <5> QED
          BY <4>2, <4>4, <5>1, Zenon
      <4>6. log' = Append(log, [ip |-> ip, time |-> now, decision |-> Promise!Decide(ip)])
        BY <4>1, <4>3, <4>5, RateAssumption
      <4> QED
        BY <3>1, <4>6 DEF Promise!Attempt
    <3> QED
      BY <3>2, <3>3
  <2>2. CASE ClockTick
    BY <2>2 DEF ClockTick, Promise!Next, Promise!ClockTick
  <2>3. ASSUME NEW ip \in Ips, CheckBan(ip) PROVE UNCHANGED <<now, log>>
    BY <2>3 DEF CheckBan
  <2>4. CASE Purge
    BY <2>4 DEF Purge
  <2>5. CASE UNCHANGED vars
    BY <2>5 DEF vars
  <2> QED
    BY <2>1, <2>2, <2>3, <2>4, <2>5 DEF Next, Promise!Next
<1> QED
  BY <1>1, <1>2, LimiterInvariant, PTL DEF Spec, KeepsPromise, Promise!Spec
=============================================================================
