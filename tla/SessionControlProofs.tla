------------------------ MODULE SessionControlProofs ------------------------
(***************************************************************************)
(* Proofs about the session control thread, for any number of clients and  *)
(* connections and for every choice of the time limits.                    *)
(***************************************************************************)
EXTENDS SessionControl, WellFoundedInduction, TLAPS

States == {"absent", "pending", "established", "authenticated"}
Session == [state : States, idle : Nat, age : Nat, timer : Nat \cup {None}]

(* A connection that does not watch. *)
Plain == [status : {"closed", "queued", "pending", "reloading", "hungup"},
          command : Commands \cup {None}, age : Nat]

-----------------------------------------------------------------------------
(* Least and greatest *)

(* The constants are positive numbers, and the limits grow with a session. *)
LEMMA Constants ==
  /\ MaxPending \in Nat /\ MaxWatchers \in Nat /\ Retransmit \in Nat
  /\ HandshakeTimeout \in Nat /\ LoginTimeout \in Nat /\ IdleTimeout \in Nat
  /\ MaxLifetime \in Nat /\ ReloadInterval \in Nat /\ CommandTimeout \in Nat /\ AckTimeout \in Nat
  /\ HandshakeTimeout > 0 /\ MaxLifetime > 0
  /\ HandshakeTimeout <= LoginTimeout /\ LoginTimeout <= IdleTimeout
  BY SessionControlAssumption, SMT

(* A duration that has run out is zero. *)
LEMMA MaxZero ==
  ASSUME NEW x \in Int
  PROVE  Max({0, x}) = IF x >= 0 THEN x ELSE 0
<1> DEFINE m == IF x >= 0 THEN x ELSE 0
<1>1. m \in {0, x} /\ \A y \in {0, x} : m >= y
  BY SMT
<1>2. ASSUME NEW k \in {0, x}, \A y \in {0, x} : k >= y
      PROVE  k = m
  BY <1>2, SMT
<1> QED
  BY <1>1, <1>2, SMT DEF Max

(* A nonempty set of integers above a bound has a least element. *)
LEMMA LeastInteger ==
  ASSUME NEW S \in SUBSET Int, S # {}, NEW K \in Nat, \A x \in S : x >= -K
  PROVE  Min(S) \in S /\ \A x \in S : Min(S) <= x
<1> DEFINE T == {x + K : x \in S}
<1>1. T \in SUBSET Nat /\ T # {}
  <2>1. \A x \in S : x + K \in Nat
    BY SMT
  <2> QED
    BY <2>1, Zenon
<1>2. PICK m \in T : \A n \in T : ~(<<n, m>> \in OpToRel(<, Nat))
  BY <1>1, NatLessThanWellFounded, WFMin
<1>3. \A n \in T : ~(n < m)
  BY <1>1, <1>2 DEF OpToRel
<1>4. PICK y \in S : m = y + K
  BY <1>2
<1>5. \A x \in S : x + K \in T
  OBVIOUS
<1> HIDE DEF T
<1>6. \A x \in S : y <= x
  BY <1>3, <1>4, <1>5, SMT
<1> QED
  BY <1>6, Zenon DEF Min

-----------------------------------------------------------------------------
(* Type correctness *)

(* A frame is written by and by, and whatever is written was queued. *)
WellQueued(w) == w.begun \in {None, w.pending} /\ (w.pending = None => w.next = None)

ConnsOK(f) ==
  /\ f \in [Conns -> Plain \cup Watching]
  /\ \A c \in Conns : f[c].status = "watching" => WellQueued(f[c])

Places == {"loop", "commands", "timers", "reload", "await", "plan", "poll", "done"}

(* The type invariant, with what the queues of watchers need to keep it. *)
TypeInv ==
  /\ sessions \in [Peers -> Session]
  /\ ConnsOK(conns)
  /\ wake \in BOOLEAN /\ active \in BOOLEAN /\ requested \in BOOLEAN
  /\ joining \in Nat \cup {NotYet}
  /\ pc \in Places
  /\ todo \subseteq Conns
  /\ sinceReload \in Nat /\ waited \in Nat /\ sleep \in Nat
  /\ published \in Frames

(* It is a strengthening of the one that TLC checks. *)
LEMMA TypeInvOK == TypeInv => TypeOK
  BY Zenon DEF TypeInv, TypeOK, ConnsOK, Session, States, Plain, Places, WellQueued, InState

(* The two kinds of connections. *)
LEMMA ConnKinds ==
  ASSUME NEW f, ConnsOK(f), NEW c \in Conns
  PROVE  /\ f[c] \in Plain \cup Watching
         /\ f[c].status = "watching" => f[c] \in Watching /\ WellQueued(f[c])
         /\ f[c].status # "watching" => f[c] \in Plain
<1>1. f[c] \in Plain \cup Watching
  BY DEF ConnsOK
<1>2. \A w \in Watching : w.status = "watching"
  BY SMT DEF Watching
<1>3. \A w \in Plain : w.status # "watching"
  BY SMT DEF Plain
<1> QED
  BY <1>1, <1>2, <1>3 DEF ConnsOK

(* Putting well-formed connections in the places of others. *)
LEMMA ConnsUpdate ==
  ASSUME NEW f \in [Conns -> Plain \cup Watching],
         \A c \in Conns : f[c] \in Plain \/ (f[c] \in Watching /\ WellQueued(f[c]))
  PROVE  ConnsOK(f)
<1>1. \A w \in Plain : w.status # "watching"
  BY SMT DEF Plain
<1> QED
  BY <1>1 DEF ConnsOK

(* The fields of a watcher, one by one. *)
LEMMA WatcherFields ==
  ASSUME NEW w \in Watching
  PROVE  /\ w.room \in BOOLEAN /\ w.missed \in BOOLEAN /\ w.status = "watching"
         /\ w.seen \in Frames \cup {None} /\ w.pending \in Frames \cup {None}
         /\ w.begun \in Frames \cup {None} /\ w.next \in Frames \cup {None}
         /\ w = [status |-> "watching", room |-> w.room, seen |-> w.seen, pending |-> w.pending,
                 begun |-> w.begun, next |-> w.next, missed |-> w.missed]
  BY Zenon DEF Watching

(* What the writes of one frame leave of a watcher. *)
LEMMA WrittenType ==
  ASSUME NEW w \in Watching, w.pending # None, NEW v \in WriteOutcomes(w)
  PROVE  /\ v \in Watching /\ v.missed = w.missed
         /\ WellQueued(w) => WellQueued(v) /\ Newest(v) = Newest(w)
<1> USE WatcherFields
<1>1. CASE \E more \in BOOLEAN : v = [Written(w) EXCEPT !.room = more]
  <2>1. PICK more \in BOOLEAN : v = [Written(w) EXCEPT !.room = more]
    BY <1>1
  <2> DEFINE seen == IF w.next = None THEN w.pending ELSE None
  <2>2. v = [status |-> "watching", room |-> more, seen |-> seen, pending |-> w.next,
             begun |-> None, next |-> None, missed |-> w.missed]
    BY <2>1, Zenon DEF Written, Watching
  <2>3. seen \in Frames \cup {None}
    BY Zenon
  <2>4. /\ v \in Watching /\ v.missed = w.missed
        /\ v.seen = seen /\ v.pending = w.next /\ v.next = None /\ v.begun = None
    BY <2>2, <2>3, Zenon DEF Watching
  <2>5. CASE w.next = None
    <3>1. v.seen = w.pending /\ v.pending = None
      BY <2>4, <2>5
    <3>2. Newest(v) = v.seen /\ Newest(w) = w.pending
      BY <2>4, <2>5, <3>1, Zenon DEF Newest
    <3> QED
      BY <2>4, <3>1, <3>2, Zenon DEF WellQueued
  <2>6. CASE w.next # None
    <3>1. Newest(v) = v.pending /\ Newest(w) = w.next
      BY <2>4, <2>6, Zenon DEF Newest
    <3> QED
      BY <2>4, <2>6, <3>1, Zenon DEF WellQueued
  <2> QED
    BY <2>5, <2>6
<1>2. CASE w.begun = None /\ v = [w EXCEPT !.begun = w.pending, !.room = FALSE]
  <2>1. v = [status |-> "watching", room |-> FALSE, seen |-> w.seen, pending |-> w.pending,
             begun |-> w.pending, next |-> w.next, missed |-> w.missed]
    BY <1>2, Zenon DEF Watching
  <2>2. /\ v \in Watching /\ v.missed = w.missed /\ v.seen = w.seen
        /\ v.pending = w.pending /\ v.next = w.next /\ v.begun = w.pending
    BY <2>1, Zenon DEF Watching
  <2> QED
    BY <2>2, Zenon DEF WellQueued, Newest
<1> QED
  BY <1>1, <1>2, Zenon DEF WriteOutcomes

(* Flushing changes neither what is queued last nor the order. *)
LEMMA FlushType ==
  ASSUME NEW w \in Watching, NEW v \in Flush(w)
  PROVE  /\ v \in Watching /\ v.missed = w.missed
         /\ WellQueued(w) => WellQueued(v) /\ Newest(v) = Newest(w)
<1>1. CASE ~CanWrite(w)
  BY <1>1 DEF Flush
<1>2. CASE CanWrite(w)
  <2>1. PICK u \in WriteOutcomes(w) : v \in (IF CanWrite(u) THEN WriteOutcomes(u) ELSE {u})
    BY <1>2, Zenon DEF Flush
  <2>2. /\ u \in Watching /\ u.missed = w.missed
        /\ WellQueued(w) => WellQueued(u) /\ Newest(u) = Newest(w)
    BY <1>2, <2>1, WrittenType DEF CanWrite
  <2>3. CASE CanWrite(u)
    <3>1. /\ v \in Watching /\ v.missed = u.missed
          /\ WellQueued(u) => WellQueued(v) /\ Newest(v) = Newest(u)
      BY <2>1, <2>2, <2>3, WrittenType DEF CanWrite
    <3> QED
      BY <2>2, <3>1
  <2>4. CASE ~CanWrite(u)
    BY <2>1, <2>2, <2>4
  <2> QED
    BY <2>3, <2>4
<1> QED
  BY <1>1, <1>2

(* A new snapshot becomes the last one queued. *)
LEMMA EnqueueType ==
  ASSUME NEW w \in Watching, NEW frame \in Frames
  PROVE  /\ Enqueue(w, frame) \in Watching /\ Enqueue(w, frame).missed = FALSE
         /\ WellQueued(w) => WellQueued(Enqueue(w, frame)) /\ Newest(Enqueue(w, frame)) = frame
<1> USE WatcherFields
<1> DEFINE v == Enqueue(w, frame)
<1>0. frame # None /\ frame \in Frames \cup {None} /\ None \in Frames \cup {None}
  BY SessionControlAssumption DEF Frames
<1>1. CASE w.pending = None
  <2>1. v = [status |-> "watching", room |-> w.room, seen |-> None, pending |-> frame,
             begun |-> w.begun, next |-> w.next, missed |-> FALSE]
    BY <1>1, Zenon DEF Enqueue, Watching
  <2> HIDE DEF v
  <2>2. /\ v \in Watching /\ v.missed = FALSE /\ v.pending = frame /\ v.next = w.next /\ v.begun = w.begun
    BY <1>0, <2>1, Zenon DEF Watching
  <2>3. /\ WellQueued(w) => v.next = None /\ v.begun = None
    BY <1>1, <2>2, Zenon DEF WellQueued
  <2>4. WellQueued(w) => WellQueued(v) /\ Newest(v) = frame
    BY <1>0, <1>1, <2>2, <2>3, Zenon DEF WellQueued, Newest
  <2> QED
    BY <2>2, <2>4 DEF v
<1>2. CASE w.pending # None
  <2>1. v = [status |-> "watching", room |-> w.room, seen |-> w.seen, pending |-> w.pending,
             begun |-> w.begun, next |-> frame, missed |-> FALSE]
    BY <1>2, Zenon DEF Enqueue, Watching
  <2> HIDE DEF v
  <2>2. /\ v \in Watching /\ v.missed = FALSE /\ v.pending = w.pending /\ v.next = frame /\ v.begun = w.begun
    BY <1>0, <2>1, Zenon DEF Watching
  <2>3. WellQueued(w) => WellQueued(v) /\ Newest(v) = frame
    BY <1>0, <1>2, <2>2, Zenon DEF WellQueued, Newest
  <2> QED
    BY <2>2, <2>3 DEF v
<1> QED
  BY <1>1, <1>2

(* The snapshot for a watcher that joins. *)
LEMMA WatcherType ==
  ASSUME NEW frame \in Frames, NEW v \in Flush(Watcher(frame))
  PROVE  v \in Watching /\ WellQueued(v) /\ Newest(v) = frame /\ v.missed = FALSE
<1> DEFINE w == Watcher(frame)
<1>1. /\ w \in Watching /\ w.missed = FALSE /\ w.pending = frame /\ w.next = None /\ w.begun = None
  BY Zenon DEF Watcher, Watching
<1>2. frame # None
  BY SessionControlAssumption DEF Frames
<1> HIDE DEF w
<1>3. WellQueued(w) /\ Newest(w) = frame
  BY <1>1, <1>2, Zenon DEF WellQueued, Newest
<1> QED
  BY <1>1, <1>3, FlushType, Zenon DEF w

(* No connection. *)
LEMMA NoConnType ==
  /\ NoConn \in Plain /\ NoConn.status = "closed" /\ NoConn.age = 0
  /\ \A status \in {"queued", "reloading", "hungup"} :
       /\ [NoConn EXCEPT !.status = status] \in Plain
       /\ [NoConn EXCEPT !.status = status].status = status
       /\ [NoConn EXCEPT !.status = status].age = 0
  BY SMT DEF NoConn, Plain

(* What a publication does to the connections. *)
LEMMA PublishFacts ==
  ASSUME TypeInv, NEW table, Publish(table)
  PROVE  /\ published' = Identity(table) /\ published' \in Frames
         /\ ConnsOK(conns)'
         /\ \A c \in Conns :
              /\ conns[c].status = "watching" =>
                   /\ conns'[c].status = "watching"
                   /\ Identity(table) = published =>
                        conns'[c].missed = conns[c].missed /\ Newest(conns'[c]) = Newest(conns[c])
                   /\ Identity(table) # published => Newest(conns'[c]) = Identity(table)
              /\ conns[c].status # "watching" =>
                   conns'[c] = conns[c] \/ (conns[c].status = "hungup" /\ conns'[c] = NoConn)
<1> DEFINE frame == Identity(table)
           queued(c) == IF frame = published THEN conns[c] ELSE Enqueue(conns[c], frame)
           after(c) == IF conns[c].status = "hungup" THEN {conns[c], NoConn}
                       ELSE IF conns[c].status # "watching" THEN {conns[c]}
                       ELSE Flush(queued(c))
<1>1. published' = frame /\ frame \in Frames
  BY Zenon DEF Publish, Identity, Frames
<1>2. conns' \in {f \in [Conns -> UNION {after(c) : c \in Conns}] : \A c \in Conns : f[c] \in after(c)}
  BY DEF Publish
<1>3. /\ DOMAIN conns' = Conns /\ conns' = [c \in Conns |-> conns'[c]]
      /\ \A c \in Conns : conns'[c] \in after(c)
  BY <1>2, Zenon
<1>4. ASSUME NEW c \in Conns, conns[c].status = "watching"
      PROVE  /\ conns'[c] \in Watching /\ WellQueued(conns'[c]) /\ conns'[c].status = "watching"
             /\ frame = published =>
                  conns'[c].missed = conns[c].missed /\ Newest(conns'[c]) = Newest(conns[c])
             /\ frame # published => Newest(conns'[c]) = frame
  <2>1. conns[c] \in Watching /\ WellQueued(conns[c])
    BY <1>4, ConnKinds DEF TypeInv
  <2>2. conns'[c] \in Flush(queued(c))
    BY <1>3, <1>4, SMT
  <2>3. CASE frame = published
    <3>1. conns'[c] \in Flush(conns[c])
      BY <2>2, <2>3
    <3> QED
      BY <2>1, <2>3, <3>1, FlushType, WatcherFields, Zenon
  <2>4. CASE frame # published
    <3>1. conns'[c] \in Flush(Enqueue(conns[c], frame))
      BY <2>2, <2>4
    <3>2. /\ Enqueue(conns[c], frame) \in Watching
          /\ WellQueued(Enqueue(conns[c], frame)) /\ Newest(Enqueue(conns[c], frame)) = frame
      BY <1>1, <2>1, EnqueueType, Zenon
    <3> HIDE DEF frame
    <3> QED
      BY <2>4, <3>1, <3>2, FlushType, WatcherFields, Zenon
  <2> QED
    BY <2>3, <2>4
<1>5. ASSUME NEW c \in Conns, conns[c].status # "watching"
      PROVE  /\ conns'[c] = conns[c] \/ (conns[c].status = "hungup" /\ conns'[c] = NoConn)
             /\ conns'[c] \in Plain
  <2>1. conns[c] \in Plain
    BY <1>5, ConnKinds DEF TypeInv
  <2>2. conns'[c] = conns[c] \/ (conns[c].status = "hungup" /\ conns'[c] = NoConn)
    BY <1>3, <1>5, SMT
  <2> QED
    BY <2>1, <2>2, NoConnType
<1>6. conns' \in [Conns -> Plain \cup Watching]
  BY <1>3, <1>4, <1>5, Zenon
<1>7. ConnsOK(conns')
  BY <1>4, <1>5, <1>6, ConnsUpdate, Zenon
<1>8. ConnsOK(conns)'
  BY <1>7 DEF ConnsOK, WellQueued, Plain, Watching, Frames
<1> QED
  BY <1>1, <1>4, <1>5, <1>8

-----------------------------------------------------------------------------
(* What the actions do to sessions and connections *)

(* The limit of a session is a time, and grows as the session proceeds. *)
LEMMA LimitFacts ==
  ASSUME NEW s
  PROVE  /\ Limit(s) \in Nat /\ Limit(s) > 0
         /\ s.state = "authenticated" => Limit(s) = IdleTimeout
         /\ s.state = "established" => Limit(s) = LoginTimeout
         /\ s.state \notin {"authenticated", "established"} => Limit(s) = HandshakeTimeout
  BY Constants, SMT DEF Limit

(* No thread but the passing of time brings a session nearer to its limits. *)
Eases(n, s) ==
  \/ n.state = "absent"
  \/ /\ n.idle = 0 \/ (s.state # "absent" /\ n.idle = s.idle /\ Limit(s) <= Limit(n))
     /\ n.age = 0 \/ (s.state # "absent" /\ n.age = s.age /\ (Dated(s) => Dated(n)))

(* A session that is as it was, or gone. *)
LEMMA EasesSame ==
  ASSUME NEW s \in Session
  PROVE  Eases(s, s) /\ Eases(NoSession, s) /\ NoSession \in Session /\ NoSession.state = "absent"
<1>1. NoSession \in Session /\ NoSession.state = "absent"
  BY SMT DEF NoSession, Session, States
<1> QED
  BY <1>1, LimitFacts, SMT DEF Eases

(* The fields of a session. *)
LEMMA SessionFields ==
  ASSUME NEW s \in Session
  PROVE  /\ s.state \in States /\ s.idle \in Nat /\ s.age \in Nat /\ s.timer \in Nat \cup {None}
         /\ s = [state |-> s.state, idle |-> s.idle, age |-> s.age, timer |-> s.timer]
  BY Zenon DEF Session

(* A session that begins, completes its handshake, or logs in. *)
LEMMA Begun ==
  ASSUME NEW t \in Nat
  PROVE  LET n == [NoSession EXCEPT !.state = "pending", !.timer = t]
         IN  n \in Session /\ n.idle = 0 /\ n.age = 0 /\ n.state = "pending"
<1>1. "pending" \in States /\ 0 \in Nat /\ t \in Nat \cup {None}
  BY DEF States
<1> QED
  BY <1>1, Zenon DEF NoSession, Session

(* The handshake is complete. *)
LEMMA Completed ==
  ASSUME NEW s \in Session, NEW st \in States
  PROVE  LET n == [s EXCEPT !.state = st, !.timer = None]
         IN  n \in Session /\ n.state = st /\ n.idle = s.idle /\ n.age = s.age
  BY Zenon DEF Session

(* The login is accepted. *)
LEMMA LoggedIn ==
  ASSUME NEW s \in Session
  PROVE  LET n == [s EXCEPT !.state = "authenticated", !.idle = 0]
         IN  n \in Session /\ n.state = "authenticated" /\ n.idle = 0 /\ n.age = s.age
<1>1. "authenticated" \in States /\ 0 \in Nat
  BY DEF States
<1> QED
  BY <1>1, Zenon DEF Session

(* Other threads change one session and tell control, unless they only move   *)
(* its deadline back.                                                         *)
LEMMA TableFacts ==
  ASSUME TypeInv, TableNext
  PROVE  \E p \in Peers, n \in Session :
           /\ MutexFree
           /\ sessions' = [sessions EXCEPT ![p] = n]
           /\ Eases(n, sessions[p])
           /\ \/ wake' = TRUE
              \/ /\ wake' = wake
                 /\ n = [sessions[p] EXCEPT !.idle = 0]
           /\ UNCHANGED <<conns, todo, requested, published, active, joining,
                          pc, sinceReload, waited, sleep>>
<1> USE DEF socket, ending, thread
<1>1. PICK p \in Peers :
        \/ \E timeout \in 1..Retransmit : NewSession(p, timeout) \/ HandshakeStep(p, timeout)
        \/ \E login \in BOOLEAN : Establish(p, login)
        \/ Login(p)
        \/ Activity(p)
        \/ RemoveSession(p)
  BY DEF TableNext
<1> DEFINE s == sessions[p]
<1>2. s \in Session /\ sessions \in [Peers -> Session]
  BY DEF TypeInv
<1>3. MutexFree /\ UNCHANGED <<conns, todo, requested, published, active, joining,
                               pc, sinceReload, waited, sleep>>
  BY <1>1 DEF NewSession, HandshakeStep, Establish, Login, Activity, RemoveSession
<1>4. ASSUME NEW timeout \in 1..Retransmit, NewSession(p, timeout)
      PROVE  \E n \in Session :
               sessions' = [sessions EXCEPT ![p] = n] /\ Eases(n, s) /\ wake' = TRUE
  <2> DEFINE n == [NoSession EXCEPT !.state = "pending", !.timer = timeout]
  <2>1. n \in Session /\ n.idle = 0 /\ n.age = 0
    <3>1. timeout \in Nat
      BY Constants, SMT
    <3> QED
      BY <3>1, Begun, Zenon
  <2>2. sessions' = [sessions EXCEPT ![p] = n] /\ wake' = TRUE
    BY <1>4 DEF NewSession
  <2> HIDE DEF n
  <2> QED
    BY <2>1, <2>2 DEF Eases
<1>5. ASSUME NEW timeout \in 1..Retransmit, HandshakeStep(p, timeout)
      PROVE  \E n \in Session :
               sessions' = [sessions EXCEPT ![p] = n] /\ Eases(n, s) /\ wake' = TRUE
  <2> DEFINE n == [s EXCEPT !.timer = timeout]
  <2>1. n \in Session /\ n.idle = s.idle /\ n.age = s.age /\ n.state = s.state /\ s.state = "pending"
    BY <1>2, <1>5, Constants, SMT DEF HandshakeStep, Session, States
  <2>2. sessions' = [sessions EXCEPT ![p] = n] /\ wake' = TRUE
    BY <1>2, <1>5, Zenon DEF HandshakeStep
  <2> HIDE DEF n
  <2>3. Limit(n) = Limit(s) /\ Limit(s) \in Nat
    BY <2>1, LimitFacts, SMT
  <2>4. Eases(n, s)
    BY <2>1, <2>3, SMT DEF Eases, Dated
  <2> QED
    BY <2>1, <2>2, <2>4
<1>6. ASSUME NEW login \in BOOLEAN, Establish(p, login)
      PROVE  \E n \in Session :
               sessions' = [sessions EXCEPT ![p] = n] /\ Eases(n, s) /\ wake' = TRUE
  <2> DEFINE st == IF login THEN "established" ELSE "authenticated"
             n == [s EXCEPT !.state = st, !.timer = None]
  <2>1. /\ n \in Session /\ n.idle = s.idle /\ n.age = s.age /\ n.state = st /\ s.state = "pending"
        /\ st \in {"established", "authenticated"}
    <3>1. st \in States /\ st \in {"established", "authenticated"}
      BY DEF States
    <3>2. s.state = "pending"
      BY <1>6 DEF Establish
    <3> HIDE DEF st, s
    <3> QED
      BY <1>2, <3>1, <3>2, Completed, Zenon
  <2>2. sessions' = [sessions EXCEPT ![p] = n] /\ wake' = TRUE
    BY <1>2, <1>6, Zenon DEF Establish
  <2> HIDE DEF n, st
  <2>3. Limit(s) <= Limit(n)
    BY <2>1, LimitFacts, Constants, SMT
  <2>4. Eases(n, s)
    BY <2>1, <2>3, SMT DEF Eases, Dated
  <2> QED
    BY <2>1, <2>2, <2>4
<1>7. ASSUME Login(p)
      PROVE  \E n \in Session :
               sessions' = [sessions EXCEPT ![p] = n] /\ Eases(n, s) /\ wake' = TRUE
  <2> DEFINE n == [s EXCEPT !.state = "authenticated", !.idle = 0]
  <2>1. /\ n \in Session /\ n.idle = 0 /\ n.age = s.age /\ n.state = "authenticated"
        /\ s.state = "established"
    <3>1. s.state = "established"
      BY <1>7 DEF Login
    <3> HIDE DEF s
    <3> QED
      BY <1>2, <3>1, LoggedIn, Zenon
  <2>2. sessions' = [sessions EXCEPT ![p] = n] /\ wake' = TRUE
    BY <1>2, <1>7, Zenon DEF Login
  <2> HIDE DEF n
  <2>3. Eases(n, s)
    BY <2>1, SMT DEF Eases, Dated
  <2> QED
    BY <2>1, <2>2, <2>3
<1>8. ASSUME Activity(p)
      PROVE  \E n \in Session :
               /\ sessions' = [sessions EXCEPT ![p] = n] /\ Eases(n, s) /\ wake' = wake
               /\ n = [s EXCEPT !.idle = 0]
  <2> DEFINE n == [s EXCEPT !.idle = 0]
  <2>1. n \in Session /\ n.idle = 0 /\ n.age = s.age /\ n.state = s.state /\ s.state = "authenticated"
    BY <1>2, <1>8, SMT DEF Activity, Session, States
  <2>2. sessions' = [sessions EXCEPT ![p] = n] /\ wake' = wake
    BY <1>2, <1>8, Zenon DEF Activity
  <2>3. Eases(n, s)
    <3> HIDE DEF n
    <3> QED
      BY <2>1, SMT DEF Eases, Dated
  <2> QED
    BY <2>1, <2>2, <2>3, Zenon
<1>9. ASSUME RemoveSession(p)
      PROVE  \E n \in Session :
               sessions' = [sessions EXCEPT ![p] = n] /\ Eases(n, s) /\ wake' = TRUE
  BY <1>2, <1>9, EasesSame DEF RemoveSession
<1> QED
  BY <1>1, <1>3, <1>4, <1>5, <1>6, <1>7, <1>8, <1>9

(* A connection after a step that accepts no command and serves none. *)
Carries(n, o) ==
  /\ n.status = "pending" => o.status = "pending" /\ n.age = o.age
  /\ n.status = "queued" => n.age = 0 \/ (o.status = "queued" /\ n.age = o.age)
  /\ n.status = "reloading" => o.status = "reloading"
  /\ n.status = "watching" =>
       o.status = "watching" /\ n.missed = o.missed /\ Newest(n) = Newest(o)

(* Clients of the control socket change their own connection only. *)
LEMMA ClientFacts ==
  ASSUME TypeInv, ClientNext
  PROVE  /\ ConnsOK(conns)' /\ \A c \in Conns : Carries(conns'[c], conns[c])
         /\ UNCHANGED <<sessions, wake, active, joining, pc, sinceReload, waited, sleep,
                        todo, requested, published>>
<1> USE DEF ending, thread
<1>1. PICK c \in Conns :
        \/ Connect(c)
        \/ \E command \in Commands : Send(c, command)
        \/ ClientReads(c)
        \/ WatcherCloses(c)
  BY DEF ClientNext
<1>2. UNCHANGED <<sessions, wake, active, joining, pc, sinceReload, waited, sleep,
                  todo, requested, published>>
  BY <1>1 DEF Connect, Send, ClientReads, WatcherCloses
<1>3. \E n : /\ n \in Plain \/ (n \in Watching /\ WellQueued(n))
             /\ Carries(n, conns[c])
             /\ conns' = [conns EXCEPT ![c] = n]
  <2>0. conns \in [Conns -> Plain \cup Watching]
    BY DEF TypeInv, ConnsOK
  <2>1. CASE Connect(c) \/ WatcherCloses(c)
    <3>1. PICK status \in {"queued", "hungup"} :
            conns' = [conns EXCEPT ![c] = [NoConn EXCEPT !.status = status]]
      BY <2>1 DEF Connect, WatcherCloses
    <3> DEFINE n == [NoConn EXCEPT !.status = status]
    <3>2. n \in Plain /\ n.status = status /\ n.age = 0
      BY NoConnType
    <3> HIDE DEF n
    <3>3. Carries(n, conns[c])
      BY <3>2, SMT DEF Carries
    <3> QED
      BY <3>1, <3>2, <3>3 DEF n
  <2>2. ASSUME NEW command \in Commands, Send(c, command)
        PROVE  \E n : /\ n \in Plain /\ Carries(n, conns[c]) /\ conns' = [conns EXCEPT ![c] = n]
    <3> DEFINE n == [conns[c] EXCEPT !.command = command]
    <3>1. conns[c].status \in {"queued", "pending"} /\ conns[c] \in Plain
      BY <2>2, ConnKinds, SMT DEF Send, TypeInv
    <3>2. n \in Plain /\ n.status = conns[c].status /\ n.age = conns[c].age
      BY <3>1, SMT DEF Plain
    <3>3. conns' = [conns EXCEPT ![c] = n]
      BY <2>0, <2>2, Zenon DEF Send
    <3> HIDE DEF n
    <3>4. Carries(n, conns[c])
      BY <3>1, <3>2, SMT DEF Carries
    <3> QED
      BY <3>2, <3>3, <3>4
  <2>3. CASE ClientReads(c)
    <3> DEFINE n == [conns[c] EXCEPT !.room = TRUE]
               w == conns[c]
    <3>1. w \in Watching /\ WellQueued(w)
      BY <2>3, ConnKinds, SMT DEF ClientReads, TypeInv
    <3>2. n = [status |-> "watching", room |-> TRUE, seen |-> w.seen, pending |-> w.pending,
               begun |-> w.begun, next |-> w.next, missed |-> w.missed]
      <4>1. n = [w EXCEPT !.room = TRUE]
        OBVIOUS
      <4> HIDE DEF n, w
      <4> QED
        BY <3>1, <4>1, WatcherFields, Zenon DEF Watching
    <3>3. conns' = [conns EXCEPT ![c] = n]
      BY <2>0, <2>3, Zenon DEF ClientReads
    <3>4. /\ w.missed \in BOOLEAN /\ w.status = "watching"
          /\ w.seen \in Frames \cup {None} /\ w.pending \in Frames \cup {None}
          /\ w.begun \in Frames \cup {None} /\ w.next \in Frames \cup {None}
      BY <3>1, WatcherFields
    <3> HIDE DEF n, w
    <3>5. /\ n \in Watching /\ n.status = "watching" /\ n.seen = w.seen /\ n.pending = w.pending
          /\ n.begun = w.begun /\ n.next = w.next /\ n.missed = w.missed
      BY <3>2, <3>4, Zenon DEF Watching
    <3>6. WellQueued(n) /\ Newest(n) = Newest(w)
      BY <3>1, <3>5, Zenon DEF WellQueued, Newest
    <3>7. Carries(n, w)
      BY <3>4, <3>5, <3>6, SMT DEF Carries
    <3> QED
      BY <3>3, <3>5, <3>6, <3>7 DEF w
  <2> QED
    BY <1>1, <2>1, <2>2, <2>3
<1>4. PICK n : /\ n \in Plain \/ (n \in Watching /\ WellQueued(n))
               /\ Carries(n, conns[c])
               /\ conns' = [conns EXCEPT ![c] = n]
  BY <1>3
<1>5. /\ conns \in [Conns -> Plain \cup Watching]
      /\ \A d \in Conns : conns[d] \in Plain \/ (conns[d] \in Watching /\ WellQueued(conns[d]))
  BY ConnKinds DEF TypeInv, ConnsOK
<1>6. /\ conns' \in [Conns -> Plain \cup Watching]
      /\ conns'[c] = n /\ \A d \in Conns : d # c => conns'[d] = conns[d]
  BY <1>4, <1>5, Zenon
<1>7. ConnsOK(conns')
  BY <1>4, <1>5, <1>6, ConnsUpdate, Zenon
<1>8. \A d \in Conns : Carries(conns[d], conns[d])
  BY DEF Carries
<1> QED
  BY <1>2, <1>4, <1>6, <1>7, <1>8, Zenon DEF ConnsOK, WellQueued, Plain, Watching, Frames

(* The thread ends and closes its sockets. *)
LEMMA LeaveFacts ==
  ASSUME Leave
  PROVE  /\ pc' = "done" /\ active' = FALSE /\ todo' = {} /\ requested' = FALSE
         /\ waited' = 0 /\ sleep' = 0 /\ UNCHANGED <<joining, sinceReload>>
         /\ ConnsOK(conns)' /\ \A c \in Conns : conns'[c] = NoConn
<1>1. conns' = [c \in Conns |-> NoConn]
  BY DEF Leave
<1>2. ConnsOK(conns')
  <2>1. conns' \in [Conns -> Plain \cup Watching] /\ \A c \in Conns : conns'[c] \in Plain
    BY <1>1, NoConnType, Zenon
  <2> QED
    BY <2>1, ConnsUpdate, Zenon
<1> QED
  BY <1>1, <1>2, Zenon DEF Leave, ConnsOK, WellQueued, Plain, Watching, Frames

(* Connections that are accepted, and those that find the list full. *)
LEMMA AcceptFacts ==
  ASSUME TypeInv, Accept
  PROVE  /\ ConnsOK(conns)'
         /\ todo' \subseteq Conns
         /\ \A c \in Conns :
              /\ conns'[c].status = "pending" =>
                   /\ c \in todo'
                   /\ conns[c].status \in {"queued", "pending"} /\ conns'[c].age = conns[c].age
              /\ conns'[c].status # "pending" => Carries(conns'[c], conns[c])
<1> DEFINE Q == InState("queued")
<1>1. PICK kept \in SUBSET Q :
        /\ conns' = [c \in Conns |->
             CASE c \in kept     -> [conns[c] EXCEPT !.status = "pending"]
               [] c \in Q \ kept -> NoConn
               [] OTHER          -> conns[c]]
        /\ todo' = InState("pending") \cup kept
  BY Zenon DEF Accept
<1>2. ASSUME NEW c \in Conns
      PROVE  /\ c \in kept => conns'[c] = [conns[c] EXCEPT !.status = "pending"]
             /\ c \in Q \ kept => conns'[c] = NoConn
             /\ c \notin Q => conns'[c] = conns[c]
  BY <1>1, <1>2, Zenon
<1>3. ASSUME NEW c \in Conns, conns[c].status # "watching"
      PROVE  conns[c] \in Plain
  BY <1>3, ConnKinds DEF TypeInv
<1>4. ASSUME NEW c \in kept
      PROVE  /\ c \in Conns /\ conns[c].status = "queued"
             /\ conns'[c] \in Plain /\ conns'[c].status = "pending" /\ conns'[c].age = conns[c].age
  <2>1. c \in Conns /\ conns[c].status = "queued"
    BY DEF InState
  <2>2. conns[c] \in Plain
    BY <1>3, <2>1
  <2>3. conns'[c] = [conns[c] EXCEPT !.status = "pending"]
    BY <1>2, <1>4, <2>1
  <2> QED
    BY <2>1, <2>2, <2>3, SMT DEF Plain
<1>5. ASSUME NEW c \in Conns
      PROVE  /\ conns'[c] \in Plain \/ (conns'[c] \in Watching /\ WellQueued(conns'[c]))
             /\ conns'[c].status = "pending" =>
                   /\ c \in todo'
                   /\ conns[c].status \in {"queued", "pending"} /\ conns'[c].age = conns[c].age
             /\ conns'[c].status # "pending" => Carries(conns'[c], conns[c])
  <2>1. CASE c \in kept
    BY <1>1, <1>4, <2>1
  <2>2. CASE c \in Q \ kept
    <3>1. conns'[c] = NoConn
      BY <1>2, <2>2
    <3>2. NoConn \in Plain /\ NoConn.status = "closed"
      BY NoConnType
    <3>3. Carries(NoConn, conns[c])
      BY <3>2 DEF Carries
    <3> QED
      BY <3>1, <3>2, <3>3
  <2>3. CASE c \notin Q
    <3>1. conns'[c] = conns[c]
      BY <1>2, <2>3
    <3>2. conns[c] \in Plain \/ (conns[c] \in Watching /\ WellQueued(conns[c]))
      BY ConnKinds DEF TypeInv
    <3>3. Carries(conns[c], conns[c])
      BY DEF Carries
    <3>4. conns[c].status = "pending" => c \in todo'
      BY <1>1 DEF InState
    <3> QED
      BY <3>1, <3>2, <3>3, <3>4
  <2> QED
    BY <2>1, <2>2, <2>3
<1>6. conns' \in [Conns -> Plain \cup Watching]
  <2>1. DOMAIN conns' = Conns /\ conns' = [c \in Conns |-> conns'[c]]
    BY <1>1, Zenon
  <2> QED
    BY <1>5, <2>1, Zenon
<1>7. ConnsOK(conns')
  BY <1>5, <1>6, ConnsUpdate, Zenon
<1>8. todo' \subseteq Conns
  BY <1>1 DEF InState
<1> QED
  BY <1>5, <1>7, <1>8, Zenon DEF ConnsOK, WellQueued, Plain, Watching, Frames

(* The table after a DISCONNECT, a filter or an expiry. *)
LEMMA EasesTable ==
  ASSUME TypeInv, NEW t, t = [p \in Peers |-> t[p]],
         \A p \in Peers : t[p] = sessions[p] \/ t[p] = NoSession
  PROVE  /\ t \in [Peers -> Session]
         /\ \A p \in Peers : Eases(t[p], sessions[p])
<1>1. \A p \in Peers : sessions[p] \in Session
  BY DEF TypeInv
<1>2. ASSUME NEW p \in Peers
      PROVE  t[p] \in Session /\ Eases(t[p], sessions[p])
  BY <1>1, EasesSame, Zenon
<1> QED
  BY <1>2, Zenon

(* The command of one connection. *)
LEMMA LookFacts ==
  ASSUME TypeInv, NEW c \in Conns, Look(c)
  PROVE  /\ sessions' \in [Peers -> Session] /\ \A p \in Peers : Eases(sessions'[p], sessions[p])
         /\ wake' \in BOOLEAN /\ (wake => wake')
         /\ requested' \in BOOLEAN /\ (requested => requested')
         /\ ConnsOK(conns)'
         /\ \/ conns'[c] = NoConn
            \/ conns'[c] \in Plain /\ conns'[c].status = "reloading" /\ requested'
            \/ /\ conns'[c] \in Watching /\ sessions' = sessions
               /\ Newest(conns'[c]) = Identity(sessions)
            \/ conns'[c] = conns[c] /\ conns[c].age < CommandTimeout /\ sessions' = sessions
         /\ \A d \in Conns : d # c =>
              \/ conns'[d] = conns[d] /\ (sessions' = sessions \/
                   (conns[d].status = "watching" => Newest(conns[d]) = published))
              \/ conns'[d] \in Watching /\ conns[d].status = "watching" /\ conns'[d].missed = TRUE
<1> USE DEF thread, ending
<1>t. /\ sessions \in [Peers -> Session] /\ wake \in BOOLEAN /\ requested \in BOOLEAN
      /\ conns \in [Conns -> Plain \cup Watching]
      /\ \A d \in Conns : conns[d] \in Plain \/ (conns[d] \in Watching /\ WellQueued(conns[d]))
  BY ConnKinds DEF TypeInv, ConnsOK
<1>e. \A p \in Peers : Eases(sessions[p], sessions[p])
  BY <1>t, EasesSame
<1>1. ASSUME NEW n, n \in Plain \/ (n \in Watching /\ WellQueued(n)), conns' = [conns EXCEPT ![c] = n]
      PROVE  /\ conns'[c] = n /\ \A d \in Conns : d # c => conns'[d] = conns[d]
             /\ ConnsOK(conns)'
  <2>1. /\ conns' \in [Conns -> Plain \cup Watching]
        /\ conns'[c] = n /\ \A d \in Conns : d # c => conns'[d] = conns[d]
    BY <1>t, <1>1, Zenon
  <2>2. ConnsOK(conns')
    BY <1>t, <1>1, <2>1, ConnsUpdate, Zenon
  <2> QED
    BY <2>1, <2>2, Zenon DEF ConnsOK, WellQueued, Plain, Watching, Frames
<1>2. CASE conns' = [conns EXCEPT ![c] = NoConn] /\ UNCHANGED <<sessions, wake, requested>>
  BY <1>t, <1>e, <1>1, <1>2, NoConnType
<1>3. CASE Watch(c)
  <2>1. PICK w \in Flush(Watcher(Identity(sessions))) : conns' = [conns EXCEPT ![c] = w]
    BY <1>3 DEF Watch
  <2>2. Identity(sessions) \in Frames
    BY DEF Identity, Frames
  <2>3. w \in Watching /\ WellQueued(w) /\ Newest(w) = Identity(sessions)
    BY <2>1, <2>2, WatcherType
  <2>4. UNCHANGED <<sessions, wake, requested>>
    BY <1>3 DEF Watch
  <2>5. conns'[c] = w /\ (\A d \in Conns : d # c => conns'[d] = conns[d]) /\ ConnsOK(conns)'
    BY <1>1, <2>1, <2>3
  <2> QED
    BY <1>t, <1>e, <2>3, <2>4, <2>5
<1>4. CASE Reload(c)
  <2> DEFINE n == [NoConn EXCEPT !.status = "reloading"]
  <2>1. n \in Plain /\ n.status = "reloading"
    BY NoConnType
  <2>2. conns' = [conns EXCEPT ![c] = n] /\ requested' = TRUE /\ UNCHANGED <<sessions, wake>>
    BY <1>4 DEF Reload
  <2> HIDE DEF n
  <2>3. conns'[c] = n /\ (\A d \in Conns : d # c => conns'[d] = conns[d]) /\ ConnsOK(conns)'
    BY <1>1, <2>1, <2>2
  <2> QED
    BY <1>t, <1>e, <2>1, <2>2, <2>3
<1>5. ASSUME NEW p \in Peers, Disconnect(c, p)
      PROVE  /\ sessions' \in [Peers -> Session] /\ \A q \in Peers : Eases(sessions'[q], sessions[q])
             /\ wake' \in BOOLEAN /\ (wake => wake') /\ requested' = requested
             /\ ConnsOK(conns)' /\ conns'[c] = NoConn
             /\ \A d \in Conns : d # c =>
                  \/ conns'[d] = conns[d] /\ (sessions' = sessions \/
                       (conns[d].status = "watching" => Newest(conns[d]) = published))
                  \/ conns'[d] \in Watching /\ conns[d].status = "watching" /\ conns'[d].missed = TRUE
  <2>1. \/ sessions' = sessions
        \/ sessions' = [sessions EXCEPT ![p] = NoSession] /\ Dated(sessions[p])
    BY <1>5 DEF Disconnect
  <2>2. \A q \in Peers : sessions'[q] = sessions[q] \/ sessions'[q] = NoSession
    BY <1>t, <2>1, Zenon
  <2>3. sessions' = [q \in Peers |-> sessions'[q]]
    BY <1>t, <2>1, Zenon
  <2>4. sessions' \in [Peers -> Session] /\ \A q \in Peers : Eases(sessions'[q], sessions[q])
    BY <2>2, <2>3, EasesTable, Zenon
  <2>5. sessions' = sessions \/ Dropped(sessions')
    <3>1. CASE sessions' = [sessions EXCEPT ![p] = NoSession] /\ Dated(sessions[p])
      <4>1. sessions'[p] = NoSession
        BY <1>t, <3>1, Zenon
      <4>2. p \in Live
        BY <3>1, SMT DEF Live, Dated
      <4> QED
        BY <4>1, <4>2 DEF Dropped, NoSession
    <3> QED
      BY <2>1, <3>1
  <2>6. wake' = (wake \/ Dropped(sessions')) /\ requested' = requested
    BY <1>5 DEF Disconnect
  <2>7. conns' = [d \in Conns |->
          IF d = c THEN NoConn
          ELSE IF conns[d].status = "watching" /\ Newest(conns[d]) # published /\ Dropped(sessions')
               THEN [conns[d] EXCEPT !.missed = TRUE]
               ELSE conns[d]]
    BY <1>5 DEF Disconnect
  <2>8. ASSUME NEW d \in Conns, conns[d].status = "watching"
        PROVE  /\ [conns[d] EXCEPT !.missed = TRUE] \in Watching
               /\ WellQueued([conns[d] EXCEPT !.missed = TRUE])
               /\ [conns[d] EXCEPT !.missed = TRUE].missed = TRUE
    <3> DEFINE w == conns[d]
               n == [w EXCEPT !.missed = TRUE]
    <3>1. w \in Watching /\ WellQueued(w)
      BY <2>8, ConnKinds DEF TypeInv
    <3> HIDE DEF w
    <3>2. n \in Watching /\ n.missed = TRUE /\ n.begun = w.begun /\ n.pending = w.pending /\ n.next = w.next
      BY <3>1, Zenon DEF Watching
    <3> HIDE DEF n
    <3>3. WellQueued(n)
      BY <3>1, <3>2, Zenon DEF WellQueued
    <3> QED
      BY <3>2, <3>3 DEF w, n
  <2>9. ASSUME NEW d \in Conns, d # c
        PROVE  \/ conns'[d] = conns[d] /\ (sessions' = sessions \/
                    (conns[d].status = "watching" => Newest(conns[d]) = published))
               \/ /\ conns'[d] \in Watching /\ conns[d].status = "watching" /\ conns'[d].missed = TRUE
                  /\ WellQueued(conns'[d])
    <3>1. CASE conns[d].status = "watching" /\ Newest(conns[d]) # published /\ Dropped(sessions')
      <4>1. conns'[d] = [conns[d] EXCEPT !.missed = TRUE]
        BY <2>7, <2>9, <3>1, Zenon
      <4> QED
        BY <2>8, <3>1, <4>1
    <3>2. CASE ~(conns[d].status = "watching" /\ Newest(conns[d]) # published /\ Dropped(sessions'))
      <4>1. conns'[d] = conns[d]
        BY <2>7, <2>9, <3>2, Zenon
      <4> QED
        BY <2>5, <3>2, <4>1
    <3> QED
      BY <3>1, <3>2
  <2>10. conns'[c] = NoConn
    BY <2>7, Zenon
  <2>11. conns' \in [Conns -> Plain \cup Watching]
    <3>1. conns' = [d \in Conns |-> conns'[d]]
      BY <2>7, Zenon
    <3>2. \A d \in Conns : conns'[d] \in Plain \cup Watching
      BY <1>t, <2>9, <2>10, NoConnType, Zenon
    <3> QED
      BY <3>1, <3>2, Zenon
  <2>12. ConnsOK(conns')
    BY <1>t, <2>9, <2>10, <2>11, NoConnType, ConnsUpdate, Zenon
  <2>13. wake' \in BOOLEAN /\ (wake => wake')
    BY <2>6, Zenon
  <2> QED
    BY <2>4, <2>6, <2>9, <2>10, <2>12, <2>13, Zenon DEF ConnsOK, WellQueued, Plain, Watching, Frames
<1>6. CASE conns[c].age < CommandTimeout /\ UNCHANGED <<sessions, conns, wake, requested>>
  <2>1. ConnsOK(conns)'
    BY <1>6, Zenon DEF TypeInv, ConnsOK, WellQueued, Plain, Watching, Frames
  <2> QED
    BY <1>t, <1>e, <1>6, <2>1
<1>7. \/ conns' = [conns EXCEPT ![c] = NoConn] /\ UNCHANGED <<sessions, wake, requested>>
      \/ HandleCommand(c)
      \/ conns[c].age < CommandTimeout /\ UNCHANGED <<sessions, conns, wake, requested>>
  BY DEF Look
<1>8. CASE HandleCommand(c)
  <2>1. \/ conns' = [conns EXCEPT ![c] = NoConn] /\ UNCHANGED <<sessions, wake, requested>>
        \/ Watch(c)
        \/ Reload(c)
        \/ \E p \in Peers : Disconnect(c, p)
    BY <1>8, Zenon DEF HandleCommand
  <2> QED
    BY <1>t, <1>2, <1>3, <1>4, <1>5, <2>1
<1> QED
  BY <1>2, <1>6, <1>7, <1>8

(* The table after the time limits are applied. *)
LEMMA ExpireFacts ==
  ASSUME TypeInv, NEW failed \in SUBSET Peers, NEW timeout \in 1..Retransmit, Expire(failed, timeout)
  PROVE  /\ sessions' \in [Peers -> Session]
         /\ wake' \in BOOLEAN /\ (wake => wake')
         /\ \A p \in Peers :
              /\ Eases(sessions'[p], sessions[p])
              /\ sessions'[p].state # "absent" =>
                   /\ sessions'[p].idle < Limit(sessions'[p])
                   /\ Dated(sessions'[p]) => sessions'[p].age < MaxLifetime
<1>0. sessions \in [Peers -> Session] /\ wake \in BOOLEAN /\ timeout \in Nat
  BY Constants, SMT DEF TypeInv
<1>1. /\ sessions' = [p \in Peers |->
           IF p \in failed \/ (p \in Live /\ Overdue(sessions[p])) THEN NoSession
           ELSE IF sessions[p].state = "pending" /\ sessions[p].timer = 0
                THEN [sessions[p] EXCEPT !.timer = timeout]
                ELSE sessions[p]]
      /\ wake' = (wake \/ Dropped(sessions'))
  BY DEF Expire
<1>2. ASSUME NEW p \in Peers
      PROVE  /\ sessions'[p] \in Session /\ Eases(sessions'[p], sessions[p])
             /\ sessions'[p].state # "absent" =>
                  /\ sessions'[p].idle < Limit(sessions'[p])
                  /\ Dated(sessions'[p]) => sessions'[p].age < MaxLifetime
  <2> DEFINE s == sessions[p]
             n == [s EXCEPT !.timer = timeout]
  <2>0. s \in Session
    BY <1>0
  <2>1. \/ sessions'[p] = NoSession
        \/ /\ sessions'[p] = n \/ sessions'[p] = s
           /\ ~(p \in Live /\ Overdue(s))
    BY <1>1, Zenon
  <2>2. CASE sessions'[p] = NoSession
    BY <2>0, <2>2, EasesSame
  <2>3. ASSUME s.state # "absent", ~(p \in Live /\ Overdue(s))
        PROVE  s.idle < Limit(s) /\ (Dated(s) => s.age < MaxLifetime)
    <3>1. ~(s.idle >= Limit(s)) /\ ~(Dated(s) /\ s.age >= MaxLifetime)
      BY <2>3 DEF Live, Overdue
    <3>2. s.idle \in Nat /\ s.age \in Nat /\ Limit(s) \in Nat /\ MaxLifetime \in Nat
      BY <2>0, SessionFields, LimitFacts, Constants
    <3> HIDE DEF s
    <3> QED
      BY <3>1, <3>2, SMT
  <2>4. n \in Session /\ n.state = s.state /\ n.idle = s.idle /\ n.age = s.age
    BY <1>0, <2>0, SMT DEF Session, States
  <2> HIDE DEF n
  <2>5. Limit(n) = Limit(s) /\ (Dated(n) <=> Dated(s)) /\ Limit(s) \in Nat
    BY <2>4, LimitFacts, SMT DEF Dated
  <2>6. Eases(n, s) /\ Eases(s, s)
    <3>1. Eases(s, s)
      BY <2>0, EasesSame
    <3> HIDE DEF s
    <3> QED
      BY <2>4, <2>5, <3>1, SMT DEF Eases
  <2>7. CASE sessions'[p] = n /\ ~(p \in Live /\ Overdue(s))
    BY <2>3, <2>4, <2>5, <2>6, <2>7
  <2>8. CASE sessions'[p] = s /\ ~(p \in Live /\ Overdue(s))
    BY <2>0, <2>3, <2>6, <2>8
  <2> QED
    BY <2>1, <2>2, <2>7, <2>8
<1>3. sessions' = [p \in Peers |-> sessions'[p]]
  BY <1>1, Zenon
<1>4. sessions' \in [Peers -> Session]
  BY <1>2, <1>3, Zenon
<1>5. wake' \in BOOLEAN /\ (wake => wake')
  BY <1>0, <1>1, Zenon
<1> QED
  BY <1>2, <1>4, <1>5

(* The table after a reload has filtered it. *)
LEMMA FilterFacts ==
  ASSUME TypeInv, NEW revoked \in SUBSET Peers, Filter(revoked)
  PROVE  /\ sessions' \in [Peers -> Session] /\ \A p \in Peers : Eases(sessions'[p], sessions[p])
         /\ wake' \in BOOLEAN /\ (wake => wake')
<1>1. sessions' = [p \in Peers |->
        IF p \in revoked \/ sessions[p].state = "pending" THEN NoSession ELSE sessions[p]]
  BY DEF Filter
<1>2. /\ \A p \in Peers : sessions'[p] = sessions[p] \/ sessions'[p] = NoSession
      /\ sessions' = [p \in Peers |-> sessions'[p]]
  BY <1>1, Zenon
<1>3. wake' = (wake \/ Dropped(sessions')) /\ wake \in BOOLEAN
  BY DEF Filter, TypeInv
<1>4. wake' \in BOOLEAN /\ (wake => wake')
  BY <1>3, Zenon
<1> QED
  BY <1>2, <1>4, EasesTable, Zenon

(* Connections of one kind are closed, the others left alone. *)
LEMMA ConnsClosed ==
  ASSUME TypeInv, NEW S, conns' = [c \in Conns |-> IF conns[c].status = S THEN NoConn ELSE conns[c]]
  PROVE  /\ ConnsOK(conns)'
         /\ \A c \in Conns : Carries(conns'[c], conns[c])
         /\ S # "closed" => \A c \in Conns : conns'[c].status # S
<1>1. \A c \in Conns : conns'[c] = IF conns[c].status = S THEN NoConn ELSE conns[c]
  BY Zenon
<1>2. NoConn \in Plain /\ NoConn.status = "closed"
  BY NoConnType
<1>3. ASSUME NEW c \in Conns
      PROVE  /\ conns'[c] \in Plain \/ (conns'[c] \in Watching /\ WellQueued(conns'[c]))
             /\ Carries(conns'[c], conns[c])
             /\ S # "closed" => conns'[c].status # S
  <2>1. conns[c] \in Plain \/ (conns[c] \in Watching /\ WellQueued(conns[c]))
    BY ConnKinds DEF TypeInv
  <2>2. Carries(NoConn, conns[c]) /\ Carries(conns[c], conns[c])
    BY <1>2 DEF Carries
  <2>3. CASE conns[c].status = S
    <3>1. conns'[c] = NoConn
      BY <1>1, <2>3
    <3> QED
      BY <1>2, <2>2, <3>1
  <2>4. CASE conns[c].status # S
    <3>1. conns'[c] = conns[c]
      BY <1>1, <2>4
    <3> QED
      BY <2>1, <2>2, <2>4, <3>1
  <2> QED
    BY <2>3, <2>4
<1>4. conns' \in [Conns -> Plain \cup Watching]
  <2>1. conns' = [c \in Conns |-> conns'[c]]
    BY Zenon
  <2> QED
    BY <1>3, <2>1, Zenon
<1>5. ConnsOK(conns')
  BY <1>3, <1>4, ConnsUpdate, Zenon
<1> QED
  BY <1>3, <1>5, Zenon DEF ConnsOK, WellQueued, Plain, Watching, Frames

(* A session one unit of time later. *)
LEMMA OlderFacts ==
  ASSUME NEW s \in Session
  PROVE  LET n == Older(s)
         IN  /\ n \in Session /\ n.state = s.state
             /\ s.state # "absent" =>
                  /\ n.idle = s.idle + 1
                  /\ n.age = IF Dated(s) THEN s.age + 1 ELSE s.age
                  /\ s.timer = None => n.timer = None
                  /\ s.timer # None => s.timer \in Nat /\ n.timer \in Nat /\ n.timer >= s.timer - 1
<1> DEFINE age == IF Dated(s) THEN s.age + 1 ELSE s.age
           timer == IF s.timer = None THEN None ELSE Max({0, s.timer - 1})
           idle == s.idle + 1
<1>1. /\ s.state \in States /\ s.idle \in Nat /\ s.age \in Nat /\ s.timer \in Nat \cup {None}
  BY SessionFields
<1>2. idle \in Nat /\ age \in Nat
  BY <1>1, SMT
<1>3. /\ s.timer = None => timer = None
      /\ s.timer # None => s.timer \in Nat /\ timer \in Nat /\ timer >= s.timer - 1
  <2>1. CASE s.timer = None
    BY <2>1
  <2>2. CASE s.timer # None
    <3>1. s.timer \in Nat
      BY <1>1, <2>2
    <3>2. timer = IF s.timer - 1 >= 0 THEN s.timer - 1 ELSE 0
      BY <2>2, <3>1, MaxZero, SMT
    <3> HIDE DEF timer
    <3> QED
      BY <2>2, <3>1, <3>2, SMT
  <2> QED
    BY <2>1, <2>2
<1>4. timer \in Nat \cup {None}
  BY <1>3
<1>5. CASE s.state = "absent"
  <2>1. Older(s) = s
    BY <1>5, Zenon DEF Older
  <2> QED
    BY <1>5, <2>1
<1>6. CASE s.state # "absent"
  <2>1. Older(s) = [s EXCEPT !.idle = idle, !.age = age, !.timer = timer]
    BY <1>6, Zenon DEF Older
  <2> HIDE DEF idle, age, timer
  <2>2. /\ Older(s) \in Session /\ Older(s).state = s.state
        /\ Older(s).idle = idle /\ Older(s).age = age /\ Older(s).timer = timer
    BY <1>2, <1>4, <2>1, Zenon DEF Session
  <2> QED
    BY <1>3, <2>2 DEF idle, age
<1> QED
  BY <1>5, <1>6

(* Time passes for the sessions and the connections. *)
LEMMA TickFacts ==
  ASSUME TypeInv, Tick
  PROVE  /\ sessions' \in [Peers -> Session] /\ \A p \in Peers : sessions'[p] = Older(sessions[p])
         /\ Identity(sessions)' = Identity(sessions)
         /\ ConnsOK(conns)'
         /\ \A c \in Conns :
              /\ conns'[c].status = conns[c].status
              /\ conns[c].status = "pending" => conns'[c].age = conns[c].age + 1 /\ conns[c].age \in Nat
              /\ conns[c].status # "pending" => conns'[c] = conns[c]
<1>1. sessions' = [p \in Peers |-> Older(sessions[p])]
  BY DEF Tick
<1>2. \A p \in Peers : sessions[p] \in Session
  BY DEF TypeInv
<1>3. \A p \in Peers : sessions'[p] = Older(sessions[p])
  BY <1>1, Zenon
<1>4. \A p \in Peers : sessions'[p] \in Session /\ sessions'[p].state = sessions[p].state
  BY <1>2, <1>3, OlderFacts, Zenon
<1>5. sessions' = [p \in Peers |-> sessions'[p]]
  BY <1>1, Zenon
<1>6. sessions' \in [Peers -> Session]
  BY <1>4, <1>5, Zenon
<1>7. Identity(sessions') = Identity(sessions)
  BY <1>4, Zenon DEF Identity
<1>8. conns' = [c \in Conns |->
        IF conns[c].status = "pending" THEN [conns[c] EXCEPT !.age = @ + 1] ELSE conns[c]]
  BY DEF Tick
<1>9. ASSUME NEW c \in Conns
      PROVE  /\ conns'[c] \in Plain \/ (conns'[c] \in Watching /\ WellQueued(conns'[c]))
             /\ conns'[c].status = conns[c].status
             /\ conns[c].status = "pending" => conns'[c].age = conns[c].age + 1 /\ conns[c].age \in Nat
             /\ conns[c].status # "pending" => conns'[c] = conns[c]
  <2>1. conns[c] \in Plain \/ (conns[c] \in Watching /\ WellQueued(conns[c]))
    BY ConnKinds DEF TypeInv
  <2>2. CASE conns[c].status = "pending"
    <3> DEFINE o == conns[c]
    <3>1. o \in Plain
      BY <2>2, ConnKinds, SMT DEF TypeInv
    <3>2. conns'[c] = [o EXCEPT !.age = o.age + 1]
      BY <1>8, <2>2, Zenon
    <3>3. conns'[c] \in Plain /\ conns'[c].status = o.status /\ conns'[c].age = o.age + 1 /\ o.age \in Nat
      <4> HIDE DEF o
      <4> QED
        BY <3>1, <3>2, SMT DEF Plain
    <3> QED
      BY <2>2, <3>3
  <2>3. CASE conns[c].status # "pending"
    <3>1. conns'[c] = conns[c]
      BY <1>8, <2>3, Zenon
    <3> QED
      BY <2>1, <2>3, <3>1
  <2> QED
    BY <2>2, <2>3
<1>10. conns' \in [Conns -> Plain \cup Watching]
  <2>1. conns' = [c \in Conns |-> conns'[c]]
    BY <1>8, Zenon
  <2> QED
    BY <1>9, <2>1, Zenon
<1>11. ConnsOK(conns')
  BY <1>9, <1>10, ConnsUpdate, Zenon
<1>12. ConnsOK(conns)' /\ Identity(sessions)' = Identity(sessions)
  BY <1>7, <1>11, Zenon DEF ConnsOK, WellQueued, Plain, Watching, Frames, Identity
<1> QED
  BY <1>3, <1>6, <1>9, <1>12

-----------------------------------------------------------------------------
(* The inductive invariants *)

(* The acknowledgement is waited for in one place only. *)
WaitInv ==
  /\ waited <= AckTimeout
  /\ pc # "await" => waited = 0

(* Once the main thread joins this one, control runs to the end of its round  *)
(* and does not sleep again.                                                  *)
JoinInv ==
  joining # NotYet /\ pc # "done" =>
    /\ ~active
    /\ wake \/ pc = "loop"
    /\ pc \in {"commands", "timers", "reload"} => joining = 0
    /\ pc = "await" => joining <= waited
    /\ joining <= AckTimeout

(* How far a session may be past its limits: not at all when a round has      *)
(* looked at it, and then by what the wait for an acknowledgement took.       *)
LimInv ==
  /\ \A p \in Live : ~Dated(sessions[p]) => sessions[p].age = 0
  /\ pc \in {"reload", "await"} =>
       \A p \in Live : /\ sessions[p].idle <= Limit(sessions[p]) + waited
                       /\ sessions[p].age <= MaxLifetime + waited
  /\ pc # "done" =>
       \A p \in Live : /\ sessions[p].idle <= Limit(sessions[p]) + AckTimeout
                       /\ sessions[p].age <= MaxLifetime + AckTimeout

(* The same of the connections whose command is not complete. *)
AgeInv ==
  \A c \in Conns :
    /\ conns[c].status = "queued" => conns[c].age = 0
    /\ conns[c].status = "pending" =>
         /\ conns[c].age <= CommandTimeout + AckTimeout
         /\ pc = "commands" /\ c \notin todo => conns[c].age <= CommandTimeout
         /\ pc \in {"timers", "reload", "await"} => conns[c].age <= CommandTimeout + waited

(* A RELOAD that waits for its answer keeps the round from ending. *)
ReqInv ==
  /\ \A c \in Conns : conns[c].status = "reloading" => requested
  /\ pc \in {"plan", "poll", "loop"} => ~requested

(* The reload of the configuration is due at most once. *)
SinceInv == pc # "done" => sinceReload <= ReloadInterval + waited

(* NoOversleep without sets of deadlines. *)
SleepInv ==
  pc = "poll" /\ ~wake /\ sleep > 0 =>
    /\ \A p \in Live : /\ sessions[p].idle + sleep <= Limit(sessions[p])
                       /\ Dated(sessions[p]) => sessions[p].age + sleep <= MaxLifetime
                       /\ sessions[p].timer # None => sleep <= sessions[p].timer
    /\ \A c \in Conns : conns[c].status = "pending" => conns[c].age + sleep <= CommandTimeout
    /\ sinceReload + sleep <= ReloadInterval

(* What a watcher was told last is what was published last, and that is the   *)
(* table as it is or a wake-up is on its way.                                 *)
InfoInv ==
  /\ \A c \in Conns : conns[c].status = "watching" =>
       \/ conns[c].missed
       \/ Newest(conns[c]) = published
       \/ pc = "commands" /\ Newest(conns[c]) = Identity(sessions)
  /\ pc = "timers" => published = Identity(sessions)
  /\ pc \in {"reload", "await", "plan", "poll"} => wake \/ published = Identity(sessions)

(* The conjunction is inductive. *)
Inv == TypeInv /\ WaitInv /\ JoinInv /\ LimInv /\ AgeInv /\ ReqInv /\ SinceInv /\ SleepInv /\ InfoInv

-----------------------------------------------------------------------------
(* The poll *)

(* The deadlines one by one. *)
LEMMA InDeadlines ==
  ASSUME NEW d
  PROVE  d \in Deadlines <=>
           \/ \E p \in Live : d \in Remaining(sessions[p])
           \/ \E c \in InState("pending") : d = CommandTimeout - conns[c].age
           \/ d = ReloadInterval - sinceReload
<1> DEFINE A == UNION {Remaining(sessions[p]) : p \in Live}
           B == {CommandTimeout - conns[c].age : c \in InState("pending")}
           C == {ReloadInterval - sinceReload}
<1>1. Deadlines = A \cup B \cup C
  BY DEF Deadlines
<1>2. d \in A <=> \E p \in Live : d \in Remaining(sessions[p])
  OBVIOUS
<1>3. d \in B <=> \E c \in InState("pending") : d = CommandTimeout - conns[c].age
  OBVIOUS
<1>4. d \in C <=> d = ReloadInterval - sinceReload
  OBVIOUS
<1> HIDE DEF A, B, C
<1>5. d \in Deadlines <=> d \in A \/ d \in B \/ d \in C
  BY <1>1
<1> QED
  BY <1>2, <1>3, <1>4, <1>5

(* The deadlines are integers, at least one, and none is long past. *)
LEMMA DeadlineFacts ==
  ASSUME TypeInv
  PROVE  /\ Deadlines \in SUBSET Int /\ Deadlines # {}
         /\ WaitInv /\ LimInv /\ AgeInv /\ SinceInv /\ pc = "plan" =>
              \A d \in Deadlines : d >= -AckTimeout
<1>1. ASSUME NEW p \in Live
      PROVE  /\ Remaining(sessions[p]) \subseteq Int
             /\ LimInv /\ pc = "plan" => \A d \in Remaining(sessions[p]) : d >= -AckTimeout
  <2> DEFINE s == sessions[p]
  <2>1. s \in Session /\ p \in Peers
    BY DEF TypeInv, Live
  <2>2. s.idle \in Nat /\ s.age \in Nat /\ s.timer \in Nat \cup {None} /\ Limit(s) \in Nat
    BY <2>1, SessionFields, LimitFacts
  <2>3. LimInv /\ pc = "plan" => s.idle <= Limit(s) + AckTimeout /\ s.age <= MaxLifetime + AckTimeout
    BY DEF LimInv
  <2> HIDE DEF s
  <2>4. ASSUME NEW d \in Remaining(s)
        PROVE  \/ d = Limit(s) - s.idle
               \/ d = MaxLifetime - s.age
               \/ d = s.timer /\ s.timer # None
    BY <2>4, Zenon DEF Remaining
  <2>5. ASSUME NEW d \in Remaining(s)
        PROVE  d \in Int /\ (LimInv /\ pc = "plan" => d >= -AckTimeout)
    BY <2>2, <2>3, <2>4, Constants, SMT
  <2> QED
    BY <2>5 DEF s
<1>2. ASSUME NEW c \in InState("pending")
      PROVE  /\ CommandTimeout - conns[c].age \in Int
             /\ AgeInv => CommandTimeout - conns[c].age >= -AckTimeout
  <2>1. c \in Conns /\ conns[c].status = "pending"
    BY DEF InState
  <2>2. conns[c] \in Plain
    BY <2>1, ConnKinds, SMT DEF TypeInv
  <2>3. conns[c].age \in Nat
    BY <2>2, SMT DEF Plain
  <2>4. AgeInv => conns[c].age <= CommandTimeout + AckTimeout
    BY <2>1 DEF AgeInv
  <2> QED
    BY <2>3, <2>4, Constants, SMT
<1>3. /\ ReloadInterval - sinceReload \in Int
      /\ WaitInv /\ SinceInv /\ pc = "plan" => ReloadInterval - sinceReload >= -AckTimeout
  <2>1. sinceReload \in Nat
    BY DEF TypeInv
  <2>2. WaitInv /\ SinceInv /\ pc = "plan" => sinceReload <= ReloadInterval
    BY Constants, SMT DEF WaitInv, SinceInv
  <2> QED
    BY <2>1, <2>2, Constants, SMT
<1>4. ASSUME NEW d \in Deadlines
      PROVE  \/ \E p \in Live : d \in Remaining(sessions[p])
             \/ \E c \in InState("pending") : d = CommandTimeout - conns[c].age
             \/ d = ReloadInterval - sinceReload
  BY <1>4, InDeadlines, Zenon
<1>5. ReloadInterval - sinceReload \in Deadlines
  BY InDeadlines, Zenon
<1>6. ASSUME NEW d \in Deadlines
      PROVE  /\ d \in Int
             /\ WaitInv /\ LimInv /\ AgeInv /\ SinceInv /\ pc = "plan" => d >= -AckTimeout
  BY <1>1, <1>2, <1>3, <1>4, Zenon
<1> QED
  BY <1>5, <1>6

(* next_wake is the least of them, or now. *)
LEMMA PlanFacts ==
  ASSUME TypeInv, WaitInv, LimInv, AgeInv, SinceInv, Plan
  PROVE  sleep' \in Nat /\ (sleep' > 0 => \A d \in Deadlines : sleep' <= d)
<1>1. /\ Deadlines \in SUBSET Int /\ Deadlines # {}
      /\ \A d \in Deadlines : d >= -AckTimeout
  BY DeadlineFacts DEF Plan, At
<1>2. sleep' = Max({0, Min(Deadlines)})
  BY DEF Plan
<1>3. Min(Deadlines) \in Deadlines /\ \A d \in Deadlines : Min(Deadlines) <= d
  BY <1>1, LeastInteger, Constants
<1>4. Min(Deadlines) \in Int
  BY <1>1, <1>3
<1>5. sleep' = IF Min(Deadlines) >= 0 THEN Min(Deadlines) ELSE 0
  BY <1>2, <1>4, MaxZero
<1> QED
  BY <1>1, <1>3, <1>4, <1>5, SMT

(* The deadlines of the sessions, the connections and the configuration. *)
LEMMA EveryDeadline ==
  ASSUME TypeInv, NEW t \in Nat
  PROVE  (\A d \in Deadlines : t <= d) <=>
           /\ \A p \in Live : /\ sessions[p].idle + t <= Limit(sessions[p])
                              /\ Dated(sessions[p]) => sessions[p].age + t <= MaxLifetime
                              /\ sessions[p].timer # None => t <= sessions[p].timer
           /\ \A c \in Conns : conns[c].status = "pending" => conns[c].age + t <= CommandTimeout
           /\ sinceReload + t <= ReloadInterval
<1>1. ASSUME NEW p \in Live
      PROVE  (\A d \in Remaining(sessions[p]) : t <= d) <=>
               /\ sessions[p].idle + t <= Limit(sessions[p])
               /\ Dated(sessions[p]) => sessions[p].age + t <= MaxLifetime
               /\ sessions[p].timer # None => t <= sessions[p].timer
  <2> DEFINE s == sessions[p]
  <2>1. s \in Session
    BY DEF TypeInv, Live
  <2>2. s.idle \in Nat /\ s.age \in Nat /\ s.timer \in Nat \cup {None} /\ Limit(s) \in Nat
    BY <2>1, SessionFields, LimitFacts
  <2> HIDE DEF s
  <2>3. (\A d \in Remaining(s) : t <= d) <=>
          /\ t <= Limit(s) - s.idle
          /\ Dated(s) => t <= MaxLifetime - s.age
          /\ s.timer # None => t <= s.timer
    BY Zenon DEF Remaining
  <2>4. /\ s.idle + t <= Limit(s) <=> t <= Limit(s) - s.idle
        /\ s.age + t <= MaxLifetime <=> t <= MaxLifetime - s.age
    BY <2>2, Constants, SMT
  <2>5. (\A d \in Remaining(s) : t <= d) <=>
          /\ s.idle + t <= Limit(s)
          /\ Dated(s) => s.age + t <= MaxLifetime
          /\ s.timer # None => t <= s.timer
    BY <2>3, <2>4, Zenon
  <2> QED
    BY <2>5 DEF s
<1>2. ASSUME NEW c \in InState("pending")
      PROVE  t <= CommandTimeout - conns[c].age <=> conns[c].age + t <= CommandTimeout
  <2>1. c \in Conns /\ conns[c].status = "pending"
    BY DEF InState
  <2>2. conns[c] \in Plain
    BY <2>1, ConnKinds, SMT DEF TypeInv
  <2>3. conns[c].age \in Nat
    BY <2>2, SMT DEF Plain
  <2> QED
    BY <2>3, Constants, SMT
<1>3. t <= ReloadInterval - sinceReload <=> sinceReload + t <= ReloadInterval
  BY Constants, SMT DEF TypeInv
<1>4. (\A d \in Deadlines : t <= d) <=>
        /\ \A p \in Live : \A d \in Remaining(sessions[p]) : t <= d
        /\ \A c \in InState("pending") : t <= CommandTimeout - conns[c].age
        /\ t <= ReloadInterval - sinceReload
  BY InDeadlines, Zenon
<1>5. (\A c \in InState("pending") : t <= CommandTimeout - conns[c].age) <=>
        \A c \in Conns : conns[c].status = "pending" => conns[c].age + t <= CommandTimeout
  BY <1>2, Zenon DEF InState
<1>6. (\A p \in Live : \A d \in Remaining(sessions[p]) : t <= d) <=>
        \A p \in Live : /\ sessions[p].idle + t <= Limit(sessions[p])
                        /\ Dated(sessions[p]) => sessions[p].age + t <= MaxLifetime
                        /\ sessions[p].timer # None => t <= sessions[p].timer
  BY <1>1, Zenon
<1> QED
  BY <1>3, <1>4, <1>5, <1>6, Zenon

(* SleepInv is NoOversleep. *)
LEMMA SleepIsNoOversleep ==
  ASSUME TypeInv
  PROVE  SleepInv <=> NoOversleep
<1>1. sleep \in Nat
  BY DEF TypeInv
<1>2. \A d \in Deadlines : d \in Int
  BY DeadlineFacts
<1>3. \A d \in Deadlines : sleep <= Max({0, d}) <=> (sleep > 0 => sleep <= d)
  BY <1>1, <1>2, MaxZero, SMT
<1>4. (\A d \in Deadlines : sleep <= Max({0, d})) <=> (sleep > 0 => \A d \in Deadlines : sleep <= d)
  BY <1>3, Zenon
<1> QED
  BY <1>1, <1>4, EveryDeadline, Zenon DEF SleepInv, NoOversleep

-----------------------------------------------------------------------------
(* The course of a round, without what it does to the table and the socket *)

(* Where control may go from where it is, and what that leaves alone. *)
Moves ==
  \/ /\ pc' = "done" /\ waited' = 0 /\ ~requested'
  \/ /\ pc = "loop" /\ pc' = "commands" /\ active
     /\ UNCHANGED <<wake, active, joining, requested, sinceReload, waited>>
  \/ /\ pc = "commands" /\ pc' = "commands" /\ (wake => wake')
     /\ UNCHANGED <<active, joining, sinceReload, waited>>
  \/ /\ pc = "commands" /\ pc' = "timers"
     /\ UNCHANGED <<wake, active, joining, requested, sinceReload, waited>>
  \/ /\ pc = "timers" /\ (wake => wake')
     /\ pc' = "reload" \/ (pc' = "plan" /\ ~requested /\ ~(sinceReload >= ReloadInterval))
     /\ UNCHANGED <<active, joining, requested, sinceReload, waited>>
  \/ /\ pc = "reload" /\ (wake => wake')
     /\ pc' = "plan" /\ ~requested' /\ sinceReload' = 0 /\ (waited' = waited \/ waited' = 0)
     /\ UNCHANGED <<active, joining>>
  \/ /\ pc = "reload" /\ pc' = "await" /\ waited' = 0 /\ (wake => wake')
     /\ UNCHANGED <<active, joining, requested, sinceReload>>
  \/ /\ pc = "await" /\ pc' = "plan" /\ ~requested' /\ sinceReload' = 0 /\ waited' = 0
     /\ UNCHANGED <<wake, active, joining>>
  \/ /\ pc = "plan" /\ pc' = "poll"
     /\ UNCHANGED <<wake, active, joining, requested, sinceReload, waited>>
  \/ /\ pc = "poll" /\ pc' = "loop"
     /\ UNCHANGED <<active, joining, requested, sinceReload, waited>>
  \/ /\ (wake => wake') /\ (active' => active)
     /\ UNCHANGED <<pc, joining, requested, sinceReload, waited>>
  \/ /\ ~active /\ joining = NotYet /\ joining' = 0 /\ wake'
     /\ UNCHANGED <<pc, active, requested, sinceReload, waited>>
  \/ Tick

(* Every step is one of these. *)
LEMMA Skeleton ==
  ASSUME TypeInv, Next
  PROVE  Moves
<1> USE DEF thread, ending, socket, At
<1>0. wake \in BOOLEAN /\ requested \in BOOLEAN /\ active \in BOOLEAN
  BY DEF TypeInv
<1>1. CASE Ends
  BY <1>1, LeaveFacts, Zenon DEF Ends, Moves
<1>2. CASE Accept
  BY <1>2, Zenon DEF Accept, Moves
<1>3. ASSUME NEW c \in Conns, Look(c)
      PROVE  Moves
  <2>1. wake => wake'
    BY <1>3, LookFacts
  <2>2. pc = "commands" /\ UNCHANGED <<active, joining, pc, sinceReload, waited>>
    BY <1>3, Zenon DEF Look
  <2> QED
    BY <2>1, <2>2, Zenon DEF Moves
<1>4. CASE EndCommands
  BY <1>4, Zenon DEF EndCommands, Moves
<1>5. ASSUME NEW failed \in SUBSET Peers, NEW timeout \in 1..Retransmit, Expire(failed, timeout)
      PROVE  Moves
  <2>1. wake => wake'
    BY <1>5, ExpireFacts
  <2>2. /\ pc = "timers"
        /\ pc' = "reload" \/ (pc' = "plan" /\ ~requested /\ ~(sinceReload >= ReloadInterval))
        /\ UNCHANGED <<active, joining, requested, sinceReload, waited>>
    BY <1>5, Zenon DEF Expire
  <2> QED
    BY <2>1, <2>2, Zenon DEF Moves
<1>6. CASE RejectReload
  BY <1>6, Zenon DEF RejectReload, Moves
<1>7. ASSUME NEW revoked \in SUBSET Peers, ApplyReload(revoked)
      PROVE  Moves
  <2>1. wake => wake'
    BY <1>7, FilterFacts DEF ApplyReload
  <2>2. CASE requested
    BY <1>7, <2>1, <2>2, Zenon DEF ApplyReload, Moves
  <2>3. CASE ~requested
    <3>1. requested = FALSE
      BY <1>0, <2>3, Zenon
    <3>2. pc = "reload" /\ pc' = "plan" /\ sinceReload' = 0 /\ waited' = 0 /\ requested' = requested
          /\ UNCHANGED <<active, joining>>
      BY <1>7, <2>3, Zenon DEF ApplyReload
    <3> QED
      BY <2>1, <2>3, <3>2, Zenon DEF Moves
  <2> QED
    BY <2>2, <2>3
<1>8. ASSUME NEW revoked \in SUBSET Peers, SendFails(revoked)
      PROVE  Moves
  <2>1. Leave
    BY <1>8 DEF SendFails
  <2> QED
    BY <2>1, LeaveFacts, Zenon DEF Moves
<1>9. CASE Answer
  BY <1>9, Zenon DEF Answer, Moves
<1>10. CASE Plan
  BY <1>10, Zenon DEF Plan, Moves
<1>11. CASE PollReturns
  BY <1>11, Zenon DEF PollReturns, Moves
<1>12. CASE TableNext
  <2>1. wake => wake'
    BY <1>12, TableFacts, Zenon
  <2>2. UNCHANGED <<pc, active, joining, requested, sinceReload, waited>>
    BY <1>12, TableFacts, Zenon
  <2> QED
    BY <2>1, <2>2, Zenon DEF Moves
<1>13. CASE ClientNext
  BY <1>13, ClientFacts, Zenon DEF Moves
<1>14. CASE Deactivate
  BY <1>14, Zenon DEF Deactivate, Moves
<1>15. CASE Cleanup
  BY <1>15, Zenon DEF Cleanup, Moves
<1>16. CASE Tick
  BY <1>16, Zenon DEF Moves
<1> QED
  BY <1>1, <1>2, <1>3, <1>4, <1>5, <1>6, <1>7, <1>8, <1>9, <1>10, <1>11, <1>12, <1>13, <1>14,
     <1>15, <1>16 DEF Next, ControlNext

(* The wait for an acknowledgement keeps to its bound. *)
LEMMA WaitStep ==
  ASSUME TypeInv, WaitInv, Next
  PROVE  WaitInv'
<1>1. waited \in Nat /\ AckTimeout \in Nat
  BY Constants DEF TypeInv
<1>2. CASE Tick
  BY <1>1, <1>2, SMT DEF Tick, At, WaitInv
<1>3. (waited' = waited /\ (pc' # "await" => pc # "await" \/ waited = 0)) \/ waited' = 0 \/ Tick
  BY Skeleton, Zenon DEF Moves, WaitInv
<1> QED
  BY <1>1, <1>2, <1>3, SMT DEF WaitInv

(* Once control is joined it does not sleep again. *)
LEMMA JoinStep ==
  ASSUME TypeInv, WaitInv, JoinInv, Next
  PROVE  JoinInv'
<1>0. waited \in Nat /\ AckTimeout \in Nat /\ joining \in Nat \cup {NotYet} /\ wake \in BOOLEAN
  BY Constants DEF TypeInv
<1>1. CASE Tick
  <2>1. CASE joining = NotYet
    <3>1. joining' = NotYet
      BY <1>1, <2>1 DEF Tick
    <3> QED
      BY <3>1, Zenon DEF JoinInv, NotYet
  <2>2. CASE joining # NotYet
    <3>1. pc # "done" /\ UNCHANGED <<pc, wake, active>>
      BY <1>1, Zenon DEF Tick, At
    <3>2. ~active /\ (wake \/ pc = "loop") /\ (pc = "await" => joining <= waited)
      BY <2>2, <3>1 DEF JoinInv
    <3>3. pc = "await" /\ waited < AckTimeout /\ waited' = waited + 1 /\ joining' = joining + 1
      BY <1>1, <2>2, <3>2, Zenon DEF Tick, At, Ready
    <3>4. joining \in Nat
      BY <1>0, <2>2
    <3>5. joining' <= waited' /\ joining' <= AckTimeout
      BY <1>0, <3>2, <3>3, <3>4, SMT
    <3> QED
      BY <3>1, <3>2, <3>3, <3>5, Zenon DEF JoinInv
  <2> QED
    BY <2>1, <2>2
<1>2. CASE ~Tick
  <2>1. 0 <= AckTimeout /\ 0 <= waited /\ 0 <= 0 /\ NotYet # 0
    BY <1>0, SMT DEF NotYet
  <2>2. NotYet' = NotYet
    BY DEF NotYet
  <2>3. ASSUME joining' # NotYet, pc' # "done"
        PROVE  /\ ~active'
               /\ wake' \/ pc' = "loop"
               /\ pc' \in {"commands", "timers", "reload"} => joining' = 0
               /\ pc' = "await" => joining' <= waited'
               /\ joining' <= AckTimeout
    <3>1. \/ joining' = joining /\ joining # NotYet /\ pc # "done"
          \/ ~active /\ active' = active /\ joining' = 0 /\ wake' /\ pc' = pc /\ waited' = waited
      BY <1>2, <2>3, Skeleton, Zenon DEF Moves
    <3>2. CASE joining' = joining /\ joining # NotYet /\ pc # "done"
      <4>1. /\ ~active /\ (wake \/ pc = "loop") /\ joining <= AckTimeout
            /\ pc \in {"commands", "timers", "reload"} => joining = 0
            /\ pc = "await" => joining <= waited
        BY <3>2 DEF JoinInv
      <4>2. ~active' /\ (wake' \/ pc' = "loop")
        <5>1. active' => active
          BY <1>2, <2>3, Skeleton, Zenon DEF Moves
        <5>2. (wake => wake') \/ pc' = "loop"
          BY <1>2, <2>3, Skeleton, Zenon DEF Moves
        <5>3. pc = "loop" => pc' = "loop" \/ active
          BY <1>2, <2>3, Skeleton, Zenon DEF Moves
        <5> QED
          BY <4>1, <5>1, <5>2, <5>3
      <4>3. pc' \in {"commands", "timers", "reload"} => joining = 0
        BY <1>2, <2>1, <2>3, <3>2, <4>1, Skeleton, Zenon DEF Moves
      <4>4. pc' = "await" => joining <= waited'
        BY <1>2, <2>1, <2>3, <3>2, <4>1, Skeleton, Zenon DEF Moves
      <4> QED
        BY <3>2, <4>1, <4>2, <4>3, <4>4
    <3>3. CASE ~active /\ active' = active /\ joining' = 0 /\ wake' /\ pc' = pc /\ waited' = waited
      BY <2>1, <3>3
    <3> QED
      BY <3>1, <3>2, <3>3
  <2> QED
    BY <2>2, <2>3 DEF JoinInv
<1> QED
  BY <1>1, <1>2

(* The reload is never overdue by more than that wait. *)
LEMMA SinceStep ==
  ASSUME TypeInv, WaitInv, SleepInv, SinceInv, Next
  PROVE  SinceInv'
<1>0. /\ waited \in Nat /\ sinceReload \in Nat /\ sleep \in Nat /\ ReloadInterval \in Nat
      /\ WaitInv' /\ waited' \in Int
  <2>1. waited' \in Int
    BY Skeleton, SMT DEF Moves, Tick, TypeInv
  <2> QED
    BY <2>1, Constants, WaitStep DEF TypeInv
<1>1. CASE Tick
  <2>1. CASE pc = "await"
    <3>1. waited' = waited + 1 /\ sinceReload' = sinceReload + 1 /\ pc' = pc
      BY <1>1, <2>1 DEF Tick, At
    <3> QED
      BY <1>0, <2>1, <3>1, SMT DEF SinceInv
  <2>2. CASE pc # "await"
    <3>1. /\ waited' = waited /\ sinceReload' = sinceReload + 1 /\ pc' = pc
          /\ pc = "poll" /\ ~wake /\ sleep > 0
      BY <1>1, <2>2 DEF Tick, At, Ready
    <3>2. sinceReload + sleep <= ReloadInterval
      BY <3>1 DEF SleepInv
    <3> QED
      BY <1>0, <3>1, <3>2, SMT DEF SinceInv
  <2> QED
    BY <2>1, <2>2
<1>2. CASE ~Tick
  <2>1. \/ pc' = "done"
        \/ sinceReload' = 0
        \/ sinceReload' = sinceReload /\ pc # "done" /\ (waited' = waited \/ pc # "await")
    BY <1>2, Skeleton, Zenon DEF Moves
  <2>2. waited' >= 0
    BY <1>0, <1>2, Skeleton, SMT DEF Moves
  <2> QED
    BY <1>0, <2>1, <2>2, SMT DEF SinceInv, WaitInv
<1> QED
  BY <1>1, <1>2

-----------------------------------------------------------------------------
(* The time limits of sessions *)

(* Only time brings a session nearer to its limits, and a round applies them. *)
LEMMA SessionsEase ==
  ASSUME TypeInv, Next, ~Tick
  PROVE  /\ sessions' \in [Peers -> Session]
         /\ \A p \in Peers : Eases(sessions'[p], sessions[p])
         /\ pc = "timers" /\ pc' # pc =>
              \A p \in Peers : sessions'[p].state # "absent" =>
                /\ sessions'[p].idle < Limit(sessions'[p])
                /\ Dated(sessions'[p]) => sessions'[p].age < MaxLifetime
<1> USE DEF thread, ending, socket, At
<1>0. sessions \in [Peers -> Session] /\ \A p \in Peers : Eases(sessions[p], sessions[p])
  BY EasesSame DEF TypeInv
<1>1. CASE UNCHANGED sessions /\ (pc' = pc \/ pc # "timers")
  BY <1>0, <1>1
<1>2. Ends => UNCHANGED sessions /\ pc # "timers"
  BY Zenon DEF Ends
<1>3. Accept \/ EndCommands \/ RejectReload \/ Answer \/ Plan \/ PollReturns \/ ClientNext
        \/ Deactivate \/ Cleanup => UNCHANGED sessions /\ (pc' = pc \/ pc # "timers")
  BY ClientFacts, Zenon DEF Accept, EndCommands, RejectReload, Answer, Plan, PollReturns, Deactivate, Cleanup
<1>4. ASSUME NEW c \in Conns, Look(c)
      PROVE  /\ sessions' \in [Peers -> Session]
             /\ \A p \in Peers : Eases(sessions'[p], sessions[p])
             /\ pc # "timers"
  BY <1>4, LookFacts, Zenon DEF Look
<1>5. ASSUME NEW revoked \in SUBSET Peers, ApplyReload(revoked) \/ SendFails(revoked)
      PROVE  /\ sessions' \in [Peers -> Session]
             /\ \A p \in Peers : Eases(sessions'[p], sessions[p])
             /\ pc # "timers"
  BY <1>5, FilterFacts, Zenon DEF ApplyReload, SendFails
<1>6. CASE TableNext
  <2>1. PICK p \in Peers, n \in Session :
          sessions' = [sessions EXCEPT ![p] = n] /\ Eases(n, sessions[p]) /\ pc' = pc
    BY <1>6, TableFacts, Zenon
  <2>2. sessions' \in [Peers -> Session] /\ sessions'[p] = n
        /\ \A q \in Peers : q # p => sessions'[q] = sessions[q]
    BY <1>0, <2>1, Zenon
  <2> QED
    BY <1>0, <2>1, <2>2, Zenon
<1>7. ASSUME NEW failed \in SUBSET Peers, NEW timeout \in 1..Retransmit, Expire(failed, timeout)
      PROVE  /\ sessions' \in [Peers -> Session]
             /\ \A p \in Peers : Eases(sessions'[p], sessions[p])
             /\ \A p \in Peers : sessions'[p].state # "absent" =>
                  /\ sessions'[p].idle < Limit(sessions'[p])
                  /\ Dated(sessions'[p]) => sessions'[p].age < MaxLifetime
  BY <1>7, ExpireFacts, Zenon
<1> QED
  BY <1>1, <1>2, <1>3, <1>4, <1>5, <1>6, <1>7, Zenon DEF Next, ControlNext

(* A bound on the times of a session outlasts the steps of other threads. *)
LEMMA EaseBound ==
  ASSUME NEW s \in Session, NEW n \in Session, Eases(n, s), n.state # "absent", NEW K \in Nat,
         s.state # "absent" => s.idle <= Limit(s) + K /\ s.age <= MaxLifetime + K
  PROVE  n.idle <= Limit(n) + K /\ n.age <= MaxLifetime + K
<1>1. /\ s.idle \in Nat /\ n.idle \in Nat /\ s.age \in Nat /\ n.age \in Nat
      /\ Limit(s) \in Nat /\ Limit(n) \in Nat /\ MaxLifetime \in Nat
  BY SessionFields, LimitFacts, Constants
<1> QED
  BY <1>1, SMT DEF Eases

(* Sessions are past their limits by at most that wait. *)
LEMMA LimStep ==
  ASSUME TypeInv, WaitInv, SleepInv, LimInv, Next
  PROVE  LimInv'
<1> USE DEF At
<1>0. /\ waited \in Nat /\ AckTimeout \in Nat /\ MaxLifetime \in Nat /\ sleep \in Nat
      /\ \A p \in Peers : sessions[p] \in Session
  BY Constants DEF TypeInv
<1>1. CASE Tick
  <2>1. ASSUME NEW p \in Peers, sessions'[p].state # "absent"
        PROVE  /\ ~Dated(sessions'[p]) => sessions'[p].age = 0
               /\ pc \in {"reload", "await"} =>
                    /\ sessions'[p].idle <= Limit(sessions'[p]) + waited'
                    /\ sessions'[p].age <= MaxLifetime + waited'
               /\ sessions'[p].idle <= Limit(sessions'[p]) + AckTimeout
               /\ sessions'[p].age <= MaxLifetime + AckTimeout
    <3> DEFINE s == sessions[p]
               n == sessions'[p]
    <3>1. s \in Session /\ n = Older(s)
      BY <1>0, <1>1, TickFacts
    <3>2. /\ n \in Session /\ n.state = s.state /\ n.idle = s.idle + 1
          /\ n.age = IF Dated(s) THEN s.age + 1 ELSE s.age
      BY <2>1, <3>1, OlderFacts
    <3>3. /\ ~Dated(s) => s.age = 0
          /\ pc \in {"reload", "await"} => s.idle <= Limit(s) + waited /\ s.age <= MaxLifetime + waited
          /\ p \in Live
      BY <2>1, <3>2 DEF LimInv, Live
    <3>4. s.idle \in Nat /\ s.age \in Nat /\ Limit(s) \in Nat
      BY <3>1, SessionFields, LimitFacts
    <3>5. CASE pc = "poll"
      <4>1. pc = "poll" /\ ~wake /\ sleep > 0
        BY <1>1, <3>5 DEF Tick, Ready
      <4>2. s.idle + sleep <= Limit(s) /\ (Dated(s) => s.age + sleep <= MaxLifetime)
        BY <3>3, <4>1 DEF SleepInv
      <4> HIDE DEF s, n
      <4>3. Limit(n) = Limit(s) /\ (Dated(n) <=> Dated(s))
        BY <3>2, LimitFacts, SMT DEF Dated
      <4>4. /\ ~Dated(n) => n.age = 0
            /\ n.idle <= Limit(n) + AckTimeout /\ n.age <= MaxLifetime + AckTimeout
        BY <1>0, <3>2, <3>3, <3>4, <4>1, <4>2, <4>3, SMT
      <4> QED
        BY <4>4, <3>5 DEF n
    <3>6. CASE pc = "await"
      <4>1. waited' = waited + 1 /\ waited < AckTimeout
        BY <1>1, <3>6 DEF Tick
      <4> HIDE DEF s, n
      <4>3. Limit(n) = Limit(s) /\ (Dated(n) <=> Dated(s))
        BY <3>2, LimitFacts, SMT DEF Dated
      <4>4. /\ ~Dated(n) => n.age = 0
            /\ n.idle <= Limit(n) + AckTimeout /\ n.age <= MaxLifetime + AckTimeout
            /\ n.idle <= Limit(n) + waited' /\ n.age <= MaxLifetime + waited'
        BY <1>0, <3>2, <3>3, <3>4, <3>6, <4>1, <4>3, SMT
      <4> QED
        BY <4>4 DEF n
    <3> QED
      BY <1>1, <3>5, <3>6 DEF Tick
  <2>2. pc' = pc
    BY <1>1 DEF Tick
  <2> QED
    BY <2>1, <2>2, Zenon DEF LimInv, Live, Limit, Dated
<1>2. CASE ~Tick
  <2>1. /\ \A p \in Peers : sessions'[p] \in Session /\ Eases(sessions'[p], sessions[p])
        /\ pc = "timers" /\ pc' # pc =>
             \A p \in Peers : sessions'[p].state # "absent" =>
               /\ sessions'[p].idle < Limit(sessions'[p])
               /\ Dated(sessions'[p]) => sessions'[p].age < MaxLifetime
    BY <1>2, SessionsEase
  <2>2. /\ pc' # "done" => pc # "done"
        /\ pc' \in {"reload", "await"} =>
             \/ pc \in {"reload", "await"} /\ (waited' = waited \/ (pc = "reload" /\ waited' = 0))
             \/ pc = "timers" /\ waited' = waited
    BY <1>2, Skeleton, Zenon DEF Moves
  <2>3. ASSUME NEW p \in Peers, sessions'[p].state # "absent"
        PROVE  /\ ~Dated(sessions'[p]) => sessions'[p].age = 0
               /\ pc' \in {"reload", "await"} =>
                    /\ sessions'[p].idle <= Limit(sessions'[p]) + waited'
                    /\ sessions'[p].age <= MaxLifetime + waited'
               /\ pc' # "done" =>
                    /\ sessions'[p].idle <= Limit(sessions'[p]) + AckTimeout
                    /\ sessions'[p].age <= MaxLifetime + AckTimeout
    <3> DEFINE s == sessions[p]
               n == sessions'[p]
    <3>1. s \in Session /\ n \in Session /\ Eases(n, s)
      BY <1>0, <2>1
    <3>2. s.state # "absent" => p \in Live
      BY DEF Live
    <3>3. /\ s.idle \in Nat /\ s.age \in Nat /\ Limit(s) \in Nat
          /\ n.idle \in Nat /\ n.age \in Nat /\ Limit(n) \in Nat
      BY <3>1, SessionFields, LimitFacts
    <3>4. ~Dated(n) => n.age = 0
      <4>1. s.state # "absent" /\ ~Dated(s) => s.age = 0
        BY <3>2 DEF LimInv
      <4> HIDE DEF s, n
      <4> QED
        BY <2>3, <3>1, <4>1 DEF Eases, n
    <3>5. pc' # "done" => n.idle <= Limit(n) + AckTimeout /\ n.age <= MaxLifetime + AckTimeout
      <4>1. pc' # "done" /\ s.state # "absent" =>
              s.idle <= Limit(s) + AckTimeout /\ s.age <= MaxLifetime + AckTimeout
        BY <2>2, <3>2 DEF LimInv
      <4> QED
        BY <1>0, <2>3, <3>1, <4>1, EaseBound
    <3>6. ASSUME pc' \in {"reload", "await"}
          PROVE  n.idle <= Limit(n) + waited' /\ n.age <= MaxLifetime + waited'
      <4>1. CASE pc \in {"reload", "await"}
        <5>1. waited' = waited
          BY <2>2, <3>6, <4>1 DEF WaitInv
        <5>2. s.state # "absent" => s.idle <= Limit(s) + waited /\ s.age <= MaxLifetime + waited
          BY <3>2, <4>1 DEF LimInv
        <5>3. n.idle <= Limit(n) + waited /\ n.age <= MaxLifetime + waited
          BY <1>0, <2>3, <3>1, <5>2, EaseBound
        <5> QED
          BY <5>1, <5>3
      <4>2. CASE pc = "timers" /\ waited' = waited
        <5>1. n.idle < Limit(n) /\ (Dated(n) => n.age < MaxLifetime)
          BY <2>1, <2>3, <3>6, <4>2
        <5> HIDE DEF n
        <5> QED
          BY <1>0, <3>3, <3>4, <4>2, <5>1, SMT
      <4> QED
        BY <2>2, <3>6, <4>1, <4>2
    <3> QED
      BY <3>4, <3>5, <3>6
  <2> QED
    BY <2>3, Zenon DEF LimInv, Live, Limit, Dated
<1> QED
  BY <1>1, <1>2

-----------------------------------------------------------------------------
(* The connections *)

(* A connection after a step that is not about its command. *)
Keeps(n, o) ==
  /\ n.status = "pending" => o.status = "pending" /\ n.age = o.age
  /\ n.status = "queued" => n.age = 0 \/ (o.status = "queued" /\ n.age = o.age)
  /\ n.status = "reloading" => o.status = "reloading"

(* A publication is not about commands. *)
LEMMA PublishKeeps ==
  ASSUME TypeInv, NEW table, Publish(table)
  PROVE  ConnsOK(conns)' /\ \A c \in Conns : Keeps(conns'[c], conns[c])
<1>1. NoConn.status = "closed"
  BY NoConnType
<1>2. ASSUME NEW c \in Conns
      PROVE  Keeps(conns'[c], conns[c])
  <2>1. conns'[c].status = "watching" \/ conns'[c] = conns[c] \/ conns'[c] = NoConn
    BY PublishFacts, Zenon
  <2> QED
    BY <1>1, <2>1 DEF Keeps
<1> QED
  BY <1>2, PublishFacts

(* Steps that neither accept connections nor serve commands. *)
LEMMA ConnsKeep ==
  ASSUME TypeInv, Next, ~Tick, ~Accept, ~(\E c \in Conns : Look(c))
  PROVE  /\ ConnsOK(conns)'
         /\ \A c \in Conns : Keeps(conns'[c], conns[c])
         /\ (requested => requested') \/ \A c \in Conns : conns'[c].status # "reloading"
         /\ pc' = "commands" => pc = "commands" /\ todo' = todo
         /\ pc = "commands" /\ pc' # pc => todo = {}
<1> USE DEF thread, ending, socket, At
<1>c. \A c \in Conns : Carries(conns'[c], conns[c]) => Keeps(conns'[c], conns[c])
  BY DEF Carries, Keeps
<1>n. NoConn.status = "closed" /\ \A c \in Conns : Keeps(NoConn, conns[c]) /\ Keeps(conns[c], conns[c])
  BY NoConnType DEF Keeps
<1>k. ASSUME UNCHANGED conns
      PROVE  ConnsOK(conns)' /\ \A c \in Conns : Keeps(conns'[c], conns[c])
  BY <1>k, <1>n, Zenon DEF TypeInv, ConnsOK, WellQueued, Plain, Watching, Frames
<1>1. ASSUME Leave, pc # "commands"
      PROVE  /\ ConnsOK(conns)'
             /\ \A c \in Conns : Keeps(conns'[c], conns[c])
             /\ \A c \in Conns : conns'[c].status # "reloading"
             /\ pc' # "commands"
  BY <1>1, <1>n, LeaveFacts
<1>2. CASE Ends
  BY <1>1, <1>2, Zenon DEF Ends
<1>3. CASE EndCommands
  BY <1>3, PublishKeeps, Zenon DEF EndCommands
<1>4. ASSUME NEW failed \in SUBSET Peers, NEW timeout \in 1..Retransmit, Expire(failed, timeout)
      PROVE  /\ ConnsOK(conns)'
             /\ \A c \in Conns : Keeps(conns'[c], conns[c])
             /\ requested' = requested
             /\ pc' # "commands" /\ pc # "commands"
  <2>1. Publish(sessions') /\ requested' = requested /\ pc' # "commands" /\ pc # "commands"
    BY <1>4, Zenon DEF Expire
  <2> QED
    BY <2>1, PublishKeeps
<1>5. CASE RejectReload \/ Answer
  <2>1. conns' = Responded /\ pc' # "commands" /\ pc # "commands"
    BY <1>5, Zenon DEF RejectReload, Answer
  <2>2. conns' = [c \in Conns |-> IF conns[c].status = "reloading" THEN NoConn ELSE conns[c]]
    BY <2>1 DEF Responded
  <2>3. /\ ConnsOK(conns)'
        /\ \A c \in Conns : Carries(conns'[c], conns[c])
        /\ \A c \in Conns : conns'[c].status # "reloading"
    BY <2>2, ConnsClosed
  <2> QED
    BY <1>c, <2>1, <2>3, Zenon
<1>6. ASSUME NEW revoked \in SUBSET Peers, ApplyReload(revoked)
      PROVE  /\ ConnsOK(conns)'
             /\ \A c \in Conns : Keeps(conns'[c], conns[c])
             /\ requested' = requested
             /\ pc' # "commands" /\ pc # "commands"
  <2>1. Publish(sessions') /\ requested' = requested /\ pc' # "commands" /\ pc # "commands"
    BY <1>6, Zenon DEF ApplyReload
  <2> QED
    BY <2>1, PublishKeeps
<1>7. ASSUME NEW revoked \in SUBSET Peers, SendFails(revoked)
      PROVE  /\ ConnsOK(conns)'
             /\ \A c \in Conns : Keeps(conns'[c], conns[c])
             /\ \A c \in Conns : conns'[c].status # "reloading"
             /\ pc' # "commands" /\ pc # "commands"
  BY <1>1, <1>7, Zenon DEF SendFails
<1>8. CASE PollReturns
  <2>1. /\ conns' = [c \in Conns |-> IF conns[c].status = "hungup" THEN NoConn ELSE conns[c]]
        /\ pc' # "commands" /\ pc # "commands" /\ requested' = requested
    BY <1>8, Zenon DEF PollReturns
  <2>2. ConnsOK(conns)' /\ \A c \in Conns : Carries(conns'[c], conns[c])
    BY <2>1, ConnsClosed
  <2> QED
    BY <1>c, <2>1, <2>2, Zenon
<1>9. CASE ClientNext
  <2>1. ConnsOK(conns)' /\ \A c \in Conns : Keeps(conns'[c], conns[c])
    BY <1>9, <1>c, ClientFacts, Zenon
  <2>2. UNCHANGED <<requested, pc, todo>>
    BY <1>9, ClientFacts, Zenon
  <2> QED
    BY <2>1, <2>2
<1>10. Plan \/ Deactivate \/ Cleanup =>
         /\ UNCHANGED conns /\ requested' = requested /\ todo' = todo
         /\ pc' = pc \/ (pc' # "commands" /\ pc # "commands")
  BY Zenon DEF Plan, Deactivate, Cleanup
<1>11. TableNext => UNCHANGED <<conns, requested, todo, pc>>
  BY TableFacts, Zenon
<1>12. CASE Plan \/ Deactivate \/ Cleanup \/ TableNext
  <2>1. /\ UNCHANGED <<conns, requested, todo>>
        /\ pc' = pc \/ (pc' # "commands" /\ pc # "commands")
    BY <1>10, <1>11, <1>12, Zenon
  <2>2. ConnsOK(conns)' /\ \A c \in Conns : Keeps(conns'[c], conns[c])
    BY <1>k, <2>1
  <2> QED
    BY <2>1, <2>2
<1> QED
  BY <1>2, <1>3, <1>4, <1>5, <1>6, <1>7, <1>8, <1>9, <1>12, Zenon DEF Next, ControlNext

(* And so are commands that do not arrive. *)
LEMMA AgeStep ==
  ASSUME TypeInv, WaitInv, SleepInv, AgeInv, Next
  PROVE  AgeInv'
<1> USE DEF thread, ending, socket, At
<1>0. /\ waited \in Nat /\ AckTimeout \in Nat /\ CommandTimeout \in Nat /\ sleep \in Nat
      /\ \A c \in Conns : conns[c].status = "pending" => conns[c].age \in Nat
  <2>1. \A c \in Conns : conns[c].status = "pending" => conns[c] \in Plain
    BY ConnKinds, SMT DEF TypeInv
  <2>2. \A o \in Plain : o.age \in Nat
    BY SMT DEF Plain
  <2> QED
    BY <2>1, <2>2, Constants DEF TypeInv
<1>1. SUFFICES ASSUME NEW c \in Conns
               PROVE  /\ conns'[c].status = "queued" => conns'[c].age = 0
                      /\ conns'[c].status = "pending" =>
                           /\ conns'[c].age <= CommandTimeout + AckTimeout
                           /\ pc' = "commands" /\ c \notin todo' => conns'[c].age <= CommandTimeout
                           /\ pc' \in {"timers", "reload", "await"} =>
                                conns'[c].age <= CommandTimeout + waited'
  BY Zenon DEF AgeInv
<1> DEFINE o == conns[c]
           n == conns'[c]
<1>i. /\ o.status = "queued" => o.age = 0
      /\ o.status = "pending" =>
           /\ o.age <= CommandTimeout + AckTimeout
           /\ pc = "commands" /\ c \notin todo => o.age <= CommandTimeout
           /\ pc \in {"timers", "reload", "await"} => o.age <= CommandTimeout + waited
           /\ o.age \in Nat
  BY <1>0 DEF AgeInv
<1>2. CASE Tick
  <2>1. /\ n.status = o.status
        /\ o.status = "pending" => n.age = o.age + 1
        /\ o.status # "pending" => n = o
    BY <1>2, TickFacts
  <2>2. CASE pc = "poll"
    <3>1. ~wake /\ sleep > 0 /\ pc' = pc
      BY <1>2, <2>2 DEF Tick, Ready
    <3>2. o.status = "pending" => o.age + sleep <= CommandTimeout
      BY <2>2, <3>1 DEF SleepInv
    <3> HIDE DEF o, n
    <3>3. n.status = "pending" => n.age <= CommandTimeout + AckTimeout
      BY <1>0, <1>i, <2>1, <3>1, <3>2, SMT
    <3>4. n.status = "queued" => n.age = 0
      BY <1>i, <2>1
    <3> QED
      BY <2>2, <3>1, <3>3, <3>4 DEF n
  <2>3. CASE pc = "await"
    <3>1. waited < AckTimeout /\ waited' = waited + 1 /\ pc' = pc
      BY <1>2, <2>3 DEF Tick
    <3> HIDE DEF o, n
    <3>2. n.status = "pending" => n.age <= CommandTimeout + AckTimeout /\ n.age <= CommandTimeout + waited'
      BY <1>0, <1>i, <2>1, <2>3, <3>1, SMT
    <3>3. n.status = "queued" => n.age = 0
      BY <1>i, <2>1
    <3> QED
      BY <2>3, <3>1, <3>2, <3>3 DEF n
  <2> QED
    BY <1>2, <2>2, <2>3 DEF Tick
<1>3. CASE Accept
  <2>1. /\ n.status = "pending" => c \in todo' /\ o.status \in {"queued", "pending"} /\ n.age = o.age
        /\ n.status # "pending" => Carries(n, o)
        /\ pc' = "commands"
    BY <1>3, AcceptFacts DEF Accept
  <2> HIDE DEF o, n
  <2>2. n.status = "queued" => n.age = 0
    BY <1>i, <2>1 DEF Carries
  <2>3. n.status = "pending" => n.age <= CommandTimeout + AckTimeout
    BY <1>0, <1>i, <2>1, SMT
  <2> QED
    BY <2>1, <2>2, <2>3 DEF n
<1>4. ASSUME NEW d \in Conns, Look(d)
      PROVE  /\ n.status = "queued" => n.age = 0
             /\ n.status = "pending" =>
                  n.age <= CommandTimeout + AckTimeout /\ (c \notin todo' => n.age <= CommandTimeout)
             /\ pc' = "commands"
  <2>1. pc = "commands" /\ pc' = "commands" /\ todo' = todo \ {d}
    BY <1>4 DEF Look
  <2>2. \A w \in Watching : w.status = "watching"
    BY SMT DEF Watching
  <2>3. NoConn.status = "closed"
    BY NoConnType
  <2>4. CASE d = c
    <3>1. n.status \notin {"queued", "pending"} \/ (n = o /\ o.age < CommandTimeout)
      BY <1>4, <2>2, <2>3, <2>4, LookFacts
    <3> HIDE DEF o, n
    <3>2. n = o /\ o.age < CommandTimeout /\ n.status = "pending" => n.age <= CommandTimeout
      BY <1>0, <1>i, SMT
    <3> QED
      BY <1>i, <2>1, <3>1, <3>2
  <2>5. CASE d # c
    <3>1. n = o \/ n.status = "watching"
      BY <1>4, <2>2, <2>5, LookFacts
    <3>2. c \notin todo' => c \notin todo
      BY <2>1, <2>5
    <3> HIDE DEF o, n
    <3> QED
      BY <1>i, <2>1, <3>1, <3>2
  <2> QED
    BY <2>4, <2>5
<1>5. CASE ~Tick /\ ~Accept /\ ~(\E d \in Conns : Look(d))
  <2>1. /\ Keeps(n, o)
        /\ pc' = "commands" => pc = "commands" /\ todo' = todo
        /\ pc = "commands" /\ pc' # pc => todo = {}
    BY <1>5, ConnsKeep
  <2>2. pc' \in {"timers", "reload", "await"} =>
          \/ pc \in {"timers", "reload", "await"} /\ (waited' = waited \/ (pc = "reload" /\ waited' = 0))
          \/ pc = "commands" /\ pc' # pc /\ waited' = waited
    BY <1>5, Skeleton, Zenon DEF Moves
  <2>3. pc' \in {"timers", "reload", "await"} /\ o.status = "pending" => o.age <= CommandTimeout + waited'
    <3>1. CASE pc \in {"timers", "reload", "await"} /\ waited' = waited
      BY <1>i, <3>1
    <3>2. CASE pc = "reload" /\ waited' = 0
      <4>1. waited' = waited
        BY <3>2 DEF WaitInv
      <4> QED
        BY <1>i, <3>2, <4>1
    <3>3. CASE pc = "commands" /\ pc' # pc /\ waited' = waited
      <4>1. o.status = "pending" => o.age <= CommandTimeout
        BY <1>i, <2>1, <3>3
      <4> HIDE DEF o
      <4> QED
        BY <1>0, <1>i, <3>3, <4>1, SMT
    <3> QED
      BY <2>2, <3>1, <3>2, <3>3
  <2> HIDE DEF o, n
  <2>4. n.status = "queued" => n.age = 0
    BY <1>i, <2>1 DEF Keeps
  <2>5. n.status = "pending" => o.status = "pending" /\ n.age = o.age
    BY <2>1 DEF Keeps
  <2> QED
    BY <1>i, <2>1, <2>3, <2>4, <2>5 DEF n
<1> QED
  BY <1>2, <1>3, <1>4, <1>5

(* A RELOAD that waits for its answer keeps reload_requested set. *)
LEMMA ReqStep ==
  ASSUME TypeInv, ReqInv, Next
  PROVE  ReqInv'
<1> USE DEF thread, ending, socket, At
<1>1. pc' \in {"plan", "poll", "loop"} => ~requested'
  <2>1. Tick => UNCHANGED <<pc, requested>>
    BY Zenon DEF Tick
  <2> QED
    BY <2>1, Skeleton, Zenon DEF Moves, ReqInv
<1>2. ASSUME NEW c \in Conns, conns'[c].status = "reloading"
      PROVE  requested'
  <2>1. CASE Tick
    <3>1. conns'[c].status = conns[c].status
      BY <2>1, TickFacts
    <3>2. requested' = requested
      BY <2>1 DEF Tick
    <3> QED
      BY <1>2, <3>1, <3>2 DEF ReqInv
  <2>2. CASE Accept
    <3>1. Carries(conns'[c], conns[c])
      BY <1>2, <2>2, AcceptFacts
    <3>2. requested' = requested
      BY <2>2 DEF Accept
    <3> QED
      BY <1>2, <3>1, <3>2 DEF ReqInv, Carries
  <2>3. ASSUME NEW d \in Conns, Look(d)
        PROVE  requested'
    <3>1. \A w \in Watching : w.status = "watching"
      BY SMT DEF Watching
    <3>2. NoConn.status = "closed"
      BY NoConnType
    <3>3. requested => requested'
      BY <2>3, LookFacts
    <3>4. requested' \/ conns'[c] = conns[c]
      BY <1>2, <2>3, <3>1, <3>2, LookFacts, Zenon
    <3> QED
      BY <1>2, <3>3, <3>4 DEF ReqInv
  <2>4. CASE ~Tick /\ ~Accept /\ ~(\E d \in Conns : Look(d))
    <3>1. Keeps(conns'[c], conns[c]) /\ (requested => requested')
      BY <1>2, <2>4, ConnsKeep
    <3> QED
      BY <1>2, <3>1 DEF ReqInv, Keeps
  <2> QED
    BY <2>1, <2>2, <2>3, <2>4
<1> QED
  BY <1>1, <1>2 DEF ReqInv

-----------------------------------------------------------------------------
(* The poll never outlasts a deadline *)

(* A deadline that moves nearer comes with a wake-up. *)
LEMMA SleepStep ==
  ASSUME TypeInv, WaitInv, LimInv, AgeInv, SinceInv, SleepInv, Next
  PROVE  SleepInv'
<1> USE DEF thread, ending, socket, At
<1>0. /\ sleep \in Nat /\ sinceReload \in Nat /\ wake \in BOOLEAN
      /\ \A p \in Peers : sessions[p] \in Session
      /\ CommandTimeout \in Nat /\ ReloadInterval \in Nat /\ MaxLifetime \in Nat
  BY Constants DEF TypeInv
<1>1. SUFFICES ASSUME pc' = "poll", ~wake', sleep' > 0
               PROVE  /\ \A p \in Peers : sessions'[p].state # "absent" =>
                           /\ sessions'[p].idle + sleep' <= Limit(sessions'[p])
                           /\ Dated(sessions'[p]) => sessions'[p].age + sleep' <= MaxLifetime
                           /\ sessions'[p].timer # None => sleep' <= sessions'[p].timer
                      /\ \A c \in Conns :
                           conns'[c].status = "pending" => conns'[c].age + sleep' <= CommandTimeout
                      /\ sinceReload' + sleep' <= ReloadInterval
  BY Zenon DEF SleepInv, Live, Limit, Dated
<1>i. ASSUME pc = "poll", ~wake, sleep > 0
      PROVE  /\ \A p \in Peers : sessions[p].state # "absent" =>
                  /\ sessions[p].idle + sleep <= Limit(sessions[p])
                  /\ Dated(sessions[p]) => sessions[p].age + sleep <= MaxLifetime
                  /\ sessions[p].timer # None => sleep <= sessions[p].timer
             /\ \A c \in Conns : conns[c].status = "pending" => conns[c].age + sleep <= CommandTimeout
             /\ sinceReload + sleep <= ReloadInterval
  BY <1>i, Zenon DEF SleepInv, Live
<1>2. CASE Plan
  <2>1. UNCHANGED <<sessions, conns, sinceReload>>
    BY <1>2 DEF Plan
  <2>2. sleep' \in Nat /\ \A d \in Deadlines : sleep' <= d
    BY <1>1, <1>2, PlanFacts
  <2>3. /\ \A p \in Live : /\ sessions[p].idle + sleep' <= Limit(sessions[p])
                           /\ Dated(sessions[p]) => sessions[p].age + sleep' <= MaxLifetime
                           /\ sessions[p].timer # None => sleep' <= sessions[p].timer
        /\ \A c \in Conns : conns[c].status = "pending" => conns[c].age + sleep' <= CommandTimeout
        /\ sinceReload + sleep' <= ReloadInterval
    BY <2>2, EveryDeadline, Zenon
  <2> QED
    BY <2>1, <2>3, Zenon DEF Live
<1>3. CASE Tick
  <2>1. /\ pc = "poll" /\ ~wake /\ sleep > 0 /\ sleep' = sleep - 1
        /\ sinceReload' = sinceReload + 1
    BY <1>1, <1>3 DEF Tick, Ready
  <2>2. ASSUME NEW p \in Peers, sessions'[p].state # "absent"
        PROVE  /\ sessions'[p].idle + sleep' <= Limit(sessions'[p])
               /\ Dated(sessions'[p]) => sessions'[p].age + sleep' <= MaxLifetime
               /\ sessions'[p].timer # None => sleep' <= sessions'[p].timer
    <3> DEFINE s == sessions[p]
               n == sessions'[p]
    <3>1. s \in Session /\ n = Older(s)
      BY <1>0, <1>3, TickFacts
    <3>2. /\ n \in Session /\ n.state = s.state /\ n.idle = s.idle + 1
          /\ n.age = IF Dated(s) THEN s.age + 1 ELSE s.age
          /\ s.timer = None => n.timer = None
          /\ s.timer # None => s.timer \in Nat /\ n.timer \in Nat /\ n.timer >= s.timer - 1
      BY <2>2, <3>1, OlderFacts
    <3>3. /\ s.idle + sleep <= Limit(s)
          /\ Dated(s) => s.age + sleep <= MaxLifetime
          /\ s.timer # None => sleep <= s.timer
      BY <1>i, <2>1, <2>2, <3>2
    <3>4. s.idle \in Nat /\ s.age \in Nat /\ Limit(s) \in Nat
      BY <3>1, SessionFields, LimitFacts
    <3> HIDE DEF s, n
    <3>5. Limit(n) = Limit(s) /\ (Dated(n) <=> Dated(s))
      BY <3>2, LimitFacts, SMT DEF Dated
    <3>6. n.idle + sleep' <= Limit(n) /\ (Dated(n) => n.age + sleep' <= MaxLifetime)
      BY <1>0, <2>1, <3>2, <3>3, <3>4, <3>5, SMT
    <3>7. n.timer # None => sleep' <= n.timer
      BY <1>0, <2>1, <3>2, <3>3, SMT
    <3> QED
      BY <3>6, <3>7 DEF n
  <2>3. ASSUME NEW c \in Conns, conns'[c].status = "pending"
        PROVE  conns'[c].age + sleep' <= CommandTimeout
    <3>1. conns[c].status = "pending" /\ conns'[c].age = conns[c].age + 1 /\ conns[c].age \in Nat
      BY <1>3, <2>3, TickFacts
    <3>2. conns[c].age + sleep <= CommandTimeout
      BY <1>i, <2>1, <3>1
    <3> QED
      BY <1>0, <2>1, <3>1, <3>2, SMT
  <2>4. sinceReload' + sleep' <= ReloadInterval
    BY <1>0, <1>i, <2>1, SMT
  <2> QED
    BY <2>2, <2>3, <2>4
<1>4. CASE TableNext
  <2>1. PICK p \in Peers, n \in Session :
          /\ sessions' = [sessions EXCEPT ![p] = n]
          /\ wake' = wake /\ n = [sessions[p] EXCEPT !.idle = 0]
          /\ UNCHANGED <<conns, pc, sinceReload, sleep>>
    BY <1>1, <1>4, TableFacts, Zenon
  <2> DEFINE s == sessions[p]
  <2>2. /\ sessions'[p] = n /\ \A q \in Peers : q # p => sessions'[q] = sessions[q]
    BY <2>1, Zenon DEF TypeInv
  <2>3. s \in Session /\ s.idle \in Nat /\ Limit(s) \in Nat
    BY <1>0, SessionFields, LimitFacts
  <2>4. n.state = s.state /\ n.idle = 0 /\ n.age = s.age /\ n.timer = s.timer
    <3>1. n = [s EXCEPT !.idle = 0]
      BY <2>1
    <3> HIDE DEF s
    <3> QED
      BY <2>3, <3>1, Zenon DEF Session
  <2>5. pc = "poll" /\ ~wake /\ sleep > 0 /\ sleep' = sleep
    BY <1>1, <2>1
  <2>6. n.state # "absent" => s.idle + sleep <= Limit(s)
                              /\ (Dated(s) => s.age + sleep <= MaxLifetime)
                              /\ (s.timer # None => sleep <= s.timer)
    BY <1>i, <2>4, <2>5
  <2>7. n.state # "absent" => n.idle + sleep' <= Limit(n)
                              /\ (Dated(n) => n.age + sleep' <= MaxLifetime)
                              /\ (n.timer # None => sleep' <= n.timer)
    <3> HIDE DEF s
    <3>1. Limit(n) = Limit(s) /\ (Dated(n) <=> Dated(s))
      BY <2>4, LimitFacts, SMT DEF Dated
    <3>2. n.state # "absent" => n.idle + sleep' <= Limit(n)
      BY <1>0, <2>3, <2>4, <2>5, <2>6, <3>1, SMT
    <3> QED
      BY <2>4, <2>5, <2>6, <3>1, <3>2
  <2>8. \A q \in Peers : sessions'[q].state # "absent" =>
          /\ sessions'[q].idle + sleep' <= Limit(sessions'[q])
          /\ Dated(sessions'[q]) => sessions'[q].age + sleep' <= MaxLifetime
          /\ sessions'[q].timer # None => sleep' <= sessions'[q].timer
    <3> TAKE q \in Peers
    <3>1. CASE q = p
      BY <2>2, <2>7, <3>1
    <3>2. CASE q # p
      <4>1. sessions'[q] = sessions[q]
        BY <2>2, <3>2
      <4> QED
        BY <1>i, <2>5, <4>1
    <3> QED
      BY <3>1, <3>2
  <2>9. UNCHANGED <<conns, sinceReload>>
    BY <2>1
  <2> QED
    BY <1>i, <2>5, <2>8, <2>9
<1>5. CASE ClientNext
  <2>1. /\ UNCHANGED <<sessions, sinceReload, sleep>>
        /\ pc = "poll" /\ ~wake /\ sleep > 0
        /\ \A c \in Conns : Carries(conns'[c], conns[c])
    BY <1>1, <1>5, ClientFacts
  <2>2. \A c \in Conns : conns'[c].status = "pending" =>
                           conns[c].status = "pending" /\ conns'[c].age = conns[c].age
    BY <2>1 DEF Carries
  <2> QED
    BY <1>i, <2>1, <2>2
<1>6. CASE Deactivate
  BY <1>1, <1>6, <1>i DEF Deactivate
<1>7. ~Cleanup /\ ~Accept /\ ~EndCommands /\ ~RejectReload /\ ~Answer /\ ~PollReturns
  BY <1>1 DEF Cleanup, Accept, EndCommands, RejectReload, Answer, PollReturns
<1>8. ~Ends /\ \A revoked \in SUBSET Peers : ~SendFails(revoked)
  BY <1>1 DEF Ends, SendFails, Leave
<1>9. /\ \A c \in Conns : ~Look(c)
      /\ \A revoked \in SUBSET Peers : ~ApplyReload(revoked)
      /\ \A failed \in SUBSET Peers, timeout \in 1..Retransmit : ~Expire(failed, timeout)
  BY <1>1 DEF Look, ApplyReload, Expire
<1> QED
  BY <1>2, <1>3, <1>4, <1>5, <1>6, <1>7, <1>8, <1>9, Zenon DEF Next, ControlNext

-----------------------------------------------------------------------------
(* Watchers *)

(* A watcher knows what was published, or is excused. *)
Told(w, frame) == w.status = "watching" => w.missed \/ Newest(w) = frame

(* A publication tells every watcher that was not told before. *)
LEMMA PublishTells ==
  ASSUME TypeInv, NEW table, Publish(table), NEW c \in Conns,
         Told(conns[c], published) \/ Told(conns[c], Identity(table))
  PROVE  Told(conns'[c], published')
<1>1. published' = Identity(table)
  BY PublishFacts
<1>2. CASE conns[c].status = "watching"
  <2>1. CASE Identity(table) = published
    <3>1. conns'[c].missed = conns[c].missed /\ Newest(conns'[c]) = Newest(conns[c])
      BY <1>2, <2>1, PublishFacts, Zenon
    <3>2. conns[c].missed \/ Newest(conns[c]) = published
      BY <1>2, <2>1 DEF Told
    <3> QED
      BY <1>1, <2>1, <3>1, <3>2, Zenon DEF Told
  <2>2. CASE Identity(table) # published
    <3>1. Newest(conns'[c]) = Identity(table)
      BY <1>2, <2>2, PublishFacts, Zenon
    <3> QED
      BY <1>1, <3>1 DEF Told
  <2> QED
    BY <2>1, <2>2
<1>3. CASE conns[c].status # "watching"
  <2>1. conns'[c] = conns[c] \/ conns'[c] = NoConn
    BY <1>3, PublishFacts, Zenon
  <2>2. NoConn.status = "closed"
    BY NoConnType
  <2>3. conns'[c].status # "watching"
    BY <1>3, <2>1, <2>2
  <2> QED
    BY <2>3 DEF Told
<1> QED
  BY <1>2, <1>3

(* The two halves of InfoInv. *)
LEMMA InfoParts ==
  InfoInv <=>
    /\ \A c \in Conns : Told(conns[c], published) \/ (pc = "commands" /\ Told(conns[c], Identity(sessions)))
    /\ pc = "timers" => published = Identity(sessions)
    /\ pc \in {"reload", "await", "plan", "poll"} => wake \/ published = Identity(sessions)
  BY Zenon DEF InfoInv, Told

(* A change of the table is published, or a wake-up is on its way. *)
LEMMA InfoStep ==
  ASSUME TypeInv, InfoInv, Next
  PROVE  InfoInv'
<1> USE DEF thread, ending, socket, At
<1>i. /\ \A c \in Conns : Told(conns[c], published) \/ (pc = "commands" /\ Told(conns[c], Identity(sessions)))
      /\ pc = "timers" => published = Identity(sessions)
      /\ pc \in {"reload", "await", "plan", "poll"} => wake \/ published = Identity(sessions)
  BY InfoParts
<1>g. SUFFICES
        /\ \A c \in Conns :
             Told(conns'[c], published') \/ (pc' = "commands" /\ Told(conns'[c], Identity(sessions')))
        /\ pc' = "timers" => published' = Identity(sessions')
        /\ pc' \in {"reload", "await", "plan", "poll"} => wake' \/ published' = Identity(sessions')
  BY Zenon DEF InfoInv, Told, Newest, Identity
<1>n. \A frame : Told(NoConn, frame)
  BY NoConnType DEF Told
<1>c. ASSUME NEW c \in Conns, NEW frame, Carries(conns'[c], conns[c]), Told(conns[c], frame)
      PROVE  Told(conns'[c], frame)
  BY <1>c, Zenon DEF Carries, Told
<1>1. ASSUME Leave
      PROVE  /\ \A c \in Conns : Told(conns'[c], published')
             /\ pc' = "done"
  BY <1>1, <1>n, LeaveFacts
<1>2. CASE Ends
  BY <1>1, <1>2 DEF Ends
<1>3. CASE Accept
  <2>1. pc = "loop" /\ pc' = "commands" /\ published' = published
    BY <1>3 DEF Accept
  <2>2. ASSUME NEW c \in Conns
        PROVE  Told(conns'[c], published)
    <3>1. CASE conns'[c].status = "pending"
      BY <3>1 DEF Told
    <3>2. CASE conns'[c].status # "pending"
      <4>1. Carries(conns'[c], conns[c])
        BY <1>3, <3>2, AcceptFacts
      <4>2. Told(conns[c], published)
        BY <1>i, <2>1
      <4> QED
        BY <1>c, <4>1, <4>2
    <3> QED
      BY <3>1, <3>2
  <2> QED
    BY <2>1, <2>2
<1>4. ASSUME NEW d \in Conns, Look(d)
      PROVE  /\ \A c \in Conns : Told(conns'[c], published') \/ Told(conns'[c], Identity(sessions'))
             /\ pc' = "commands"
  <2>1. pc = "commands" /\ pc' = "commands" /\ published' = published
    BY <1>4 DEF Look
  <2>2. ASSUME NEW c \in Conns
        PROVE  Told(conns'[c], published) \/ Told(conns'[c], Identity(sessions'))
    <3>0. Told(conns[c], published) \/ Told(conns[c], Identity(sessions))
      BY <1>i
    <3>1. CASE conns'[c] = conns[c] /\ sessions' = sessions
      BY <3>0, <3>1
    <3>2. CASE conns'[c] = NoConn
      BY <1>n, <3>2
    <3>3. CASE conns'[c].status = "reloading"
      BY <3>3 DEF Told
    <3>4. CASE sessions' = sessions /\ Newest(conns'[c]) = Identity(sessions)
      BY <3>4 DEF Told
    <3>5. CASE conns'[c] = conns[c] /\ (conns[c].status = "watching" => Newest(conns[c]) = published)
      BY <3>5 DEF Told
    <3>6. CASE conns'[c].missed = TRUE
      BY <3>6 DEF Told
    <3>7. \/ conns'[c] = conns[c] /\ sessions' = sessions
          \/ conns'[c] = NoConn
          \/ conns'[c].status = "reloading"
          \/ sessions' = sessions /\ Newest(conns'[c]) = Identity(sessions)
          \/ conns'[c] = conns[c] /\ (conns[c].status = "watching" => Newest(conns[c]) = published)
          \/ conns'[c].missed = TRUE
      <4>1. CASE c = d
        BY <1>4, <4>1, LookFacts, Zenon
      <4>2. CASE c # d
        BY <1>4, <4>2, LookFacts, Zenon
      <4> QED
        BY <4>1, <4>2
    <3> QED
      BY <3>1, <3>2, <3>3, <3>4, <3>5, <3>6, <3>7
  <2> QED
    BY <2>1, <2>2
<1>5. CASE EndCommands
  <2>1. Publish(sessions) /\ UNCHANGED sessions /\ pc' = "timers"
    BY <1>5 DEF EndCommands
  <2>2. \A c \in Conns : Told(conns'[c], published')
    BY <1>i, <2>1, PublishTells
  <2>3. published' = Identity(sessions')
    BY <2>1, PublishFacts
  <2> QED
    BY <2>1, <2>2, <2>3
<1>6. ASSUME Publish(sessions'), pc # "commands"
      PROVE  (\A c \in Conns : Told(conns'[c], published')) /\ published' = Identity(sessions')
  BY <1>i, <1>6, PublishTells, PublishFacts
<1>7. ASSUME NEW failed \in SUBSET Peers, NEW timeout \in 1..Retransmit, Expire(failed, timeout)
      PROVE  (\A c \in Conns : Told(conns'[c], published')) /\ published' = Identity(sessions')
  <2>1. Publish(sessions') /\ pc = "timers"
    BY <1>7 DEF Expire
  <2> QED
    BY <1>6, <2>1
<1>8. ASSUME NEW revoked \in SUBSET Peers, ApplyReload(revoked)
      PROVE  (\A c \in Conns : Told(conns'[c], published')) /\ published' = Identity(sessions')
  <2>1. Publish(sessions') /\ pc = "reload"
    BY <1>8 DEF ApplyReload
  <2> QED
    BY <1>6, <2>1
<1>9. ASSUME NEW revoked \in SUBSET Peers, SendFails(revoked)
      PROVE  (\A c \in Conns : Told(conns'[c], published')) /\ pc' = "done"
  BY <1>1, <1>9 DEF SendFails
<1>10. CASE RejectReload \/ Answer
  <2>1. /\ conns' = Responded /\ pc \in {"reload", "await"} /\ pc' = "plan"
        /\ UNCHANGED <<sessions, published, wake>>
    BY <1>10 DEF RejectReload, Answer
  <2>2. conns' = [c \in Conns |-> IF conns[c].status = "reloading" THEN NoConn ELSE conns[c]]
    BY <2>1 DEF Responded
  <2>3. \A c \in Conns : Carries(conns'[c], conns[c])
    BY <2>2, ConnsClosed
  <2>4. \A c \in Conns : Told(conns'[c], published)
    BY <1>i, <1>c, <2>1, <2>3
  <2> QED
    BY <1>i, <2>1, <2>4
<1>11. CASE Plan
  <2>1. UNCHANGED <<sessions, conns, published, wake>> /\ pc = "plan" /\ pc' = "poll"
    BY <1>11 DEF Plan
  <2> QED
    BY <1>i, <2>1
<1>12. CASE PollReturns
  <2>1. /\ conns' = [c \in Conns |-> IF conns[c].status = "hungup" THEN NoConn ELSE conns[c]]
        /\ pc = "poll" /\ pc' = "loop" /\ published' = published
    BY <1>12 DEF PollReturns
  <2>2. \A c \in Conns : Carries(conns'[c], conns[c])
    BY <2>1, ConnsClosed
  <2>3. \A c \in Conns : Told(conns'[c], published)
    BY <1>i, <1>c, <2>1, <2>2
  <2> QED
    BY <2>1, <2>3
<1>13. CASE TableNext
  <2>1. PICK p \in Peers, n \in Session :
          /\ MutexFree
          /\ sessions' = [sessions EXCEPT ![p] = n]
          /\ wake' = TRUE \/ (wake' = wake /\ n = [sessions[p] EXCEPT !.idle = 0])
          /\ UNCHANGED <<conns, published, pc>>
    BY <1>13, TableFacts, Zenon
  <2>2. pc \notin {"commands", "timers"}
    BY <2>1 DEF MutexFree
  <2>3. CASE wake' = TRUE
    BY <1>i, <2>1, <2>2, <2>3
  <2>4. CASE wake' = wake /\ n = [sessions[p] EXCEPT !.idle = 0]
    <3>1. n.state = sessions[p].state
      BY <2>4, Zenon DEF TypeInv, Session
    <3>2. /\ sessions'[p] = n /\ \A q \in Peers : q # p => sessions'[q] = sessions[q]
      BY <2>1, Zenon DEF TypeInv
    <3>3. \A q \in Peers : sessions'[q].state = sessions[q].state
      BY <3>1, <3>2, Zenon
    <3>4. Identity(sessions') = Identity(sessions)
      BY <3>3, Zenon DEF Identity
    <3> QED
      BY <1>i, <2>1, <2>2, <2>4, <3>4
  <2> QED
    BY <2>1, <2>3, <2>4
<1>14. CASE ClientNext
  <2>1. /\ UNCHANGED <<sessions, published, wake, pc>>
        /\ \A c \in Conns : Carries(conns'[c], conns[c])
    BY <1>14, ClientFacts
  <2>2. ASSUME NEW c \in Conns
        PROVE  Told(conns'[c], published) \/ (pc = "commands" /\ Told(conns'[c], Identity(sessions)))
    BY <1>i, <1>c, <2>1
  <2> QED
    BY <1>i, <2>1, <2>2
<1>15. CASE Deactivate \/ Cleanup
  <2>1. UNCHANGED <<sessions, published, pc, conns>> /\ (wake' = wake \/ wake' = TRUE)
    BY <1>15 DEF Deactivate, Cleanup
  <2> QED
    BY <1>i, <2>1
<1>16. CASE Tick
  <2>1. UNCHANGED <<published, pc, wake>> /\ pc # "commands"
    BY <1>16, Zenon DEF Tick
  <2>2. Identity(sessions') = Identity(sessions)
    BY <1>16, TickFacts DEF Identity
  <2>3. ASSUME NEW c \in Conns
        PROVE  Told(conns'[c], published)
    <3>1. CASE conns[c].status = "pending"
      <4>1. conns'[c].status = "pending"
        BY <1>16, <3>1, TickFacts
      <4> QED
        BY <4>1 DEF Told
    <3>2. CASE conns[c].status # "pending"
      <4>1. conns'[c] = conns[c]
        BY <1>16, <3>2, TickFacts
      <4> QED
        BY <1>i, <2>1, <4>1
    <3> QED
      BY <3>1, <3>2
  <2> QED
    BY <1>i, <2>1, <2>2, <2>3
<1> QED
  BY <1>2, <1>3, <1>4, <1>5, <1>7, <1>8, <1>9, <1>10, <1>11, <1>12, <1>13, <1>14, <1>15, <1>16
  DEF Next, ControlNext

-----------------------------------------------------------------------------
(* The theorems *)

(* Every step keeps the types. *)
LEMMA TypeStep ==
  ASSUME TypeInv, WaitInv, LimInv, AgeInv, SinceInv, Next
  PROVE  TypeInv'
<1> USE DEF thread, ending, socket, At
<1>0. /\ wake \in BOOLEAN /\ active \in BOOLEAN /\ requested \in BOOLEAN
      /\ joining \in Nat \cup {NotYet} /\ pc \in Places /\ todo \subseteq Conns
      /\ sinceReload \in Nat /\ waited \in Nat /\ sleep \in Nat /\ published \in Frames
  BY DEF TypeInv
<1>1. sessions' \in [Peers -> Session]
  BY SessionsEase, TickFacts
<1>2. ConnsOK(conns)'
  BY ConnsKeep, AcceptFacts, LookFacts, TickFacts
<1>3. wake' \in BOOLEAN
  <2>1. \A c \in Conns : Look(c) => wake' \in BOOLEAN
    BY LookFacts
  <2>2. \A failed \in SUBSET Peers, timeout \in 1..Retransmit : Expire(failed, timeout) => wake' \in BOOLEAN
    BY ExpireFacts
  <2>3. \A revoked \in SUBSET Peers : ApplyReload(revoked) \/ SendFails(revoked) => wake' \in BOOLEAN
    BY FilterFacts DEF ApplyReload, SendFails
  <2>4. TableNext => wake' \in BOOLEAN
    BY <1>0, TableFacts, Zenon
  <2>5. ClientNext => wake' \in BOOLEAN
    BY <1>0, ClientFacts, Zenon
  <2>6. Ends \/ Accept \/ EndCommands \/ RejectReload \/ Answer \/ Plan \/ PollReturns \/ Deactivate
          \/ Cleanup \/ Tick => wake' = wake \/ wake' = TRUE \/ wake' = FALSE
    BY Zenon DEF Ends, Accept, EndCommands, RejectReload, Answer, Plan, PollReturns, Deactivate, Cleanup, Tick
  <2> QED
    BY <1>0, <2>1, <2>2, <2>3, <2>4, <2>5, <2>6, Zenon DEF Next, ControlNext
<1>4. /\ active' \in BOOLEAN /\ todo' \subseteq Conns
      /\ published' \in Frames /\ sleep' \in Nat /\ requested' \in BOOLEAN
  <2>t. CASE Tick
    <3>1. UNCHANGED <<active, todo, published, requested>> /\ sleep' \in Nat
      BY <1>0, <2>t, SMT DEF Tick
    <3> QED
      BY <1>0, <3>1
  <2>1. ASSUME Leave
        PROVE  active' \in BOOLEAN /\ todo' \subseteq Conns /\ sleep' \in Nat /\ requested' \in BOOLEAN
    BY <2>1, LeaveFacts
  <2>2. CASE Ends
    <3>1. Leave /\ UNCHANGED published
      BY <2>2 DEF Ends
    <3> QED
      BY <1>0, <2>1, <3>1
  <2>3. CASE Accept
    <3>1. UNCHANGED <<active, published, requested, sleep>> /\ todo' \subseteq Conns
      BY <2>3, AcceptFacts, Zenon DEF Accept
    <3> QED
      BY <1>0, <3>1
  <2>4. ASSUME NEW c \in Conns, Look(c)
        PROVE  /\ UNCHANGED <<active, published, sleep>>
               /\ todo' \subseteq Conns /\ requested' \in BOOLEAN
    <3>1. UNCHANGED <<active, published, sleep>> /\ todo' = todo \ {c}
      BY <2>4, Zenon DEF Look
    <3> QED
      BY <1>0, <2>4, <3>1, LookFacts
  <2>5. CASE EndCommands
    <3>1. UNCHANGED <<active, todo, requested, sleep>> /\ Publish(sessions)
      BY <2>5 DEF EndCommands
    <3> QED
      BY <1>0, <3>1, PublishFacts
  <2>6. ASSUME NEW failed \in SUBSET Peers, NEW timeout \in 1..Retransmit, Expire(failed, timeout)
        PROVE  UNCHANGED <<active, todo, requested, sleep>> /\ published' \in Frames
    <3>1. UNCHANGED <<active, todo, requested, sleep>> /\ Publish(sessions')
      BY <2>6 DEF Expire
    <3> QED
      BY <3>1, PublishFacts
  <2>7. ASSUME NEW revoked \in SUBSET Peers, ApplyReload(revoked)
        PROVE  UNCHANGED <<active, todo, requested, sleep>> /\ published' \in Frames
    <3>1. UNCHANGED <<active, todo, requested, sleep>> /\ Publish(sessions')
      BY <2>7 DEF ApplyReload
    <3> QED
      BY <3>1, PublishFacts
  <2>8. ASSUME NEW revoked \in SUBSET Peers, SendFails(revoked)
        PROVE  Leave /\ published' \in Frames
    BY <2>8 DEF SendFails, Identity, Frames
  <2>9. CASE RejectReload \/ Answer
    <3>1. UNCHANGED <<active, todo, published, sleep>> /\ requested' = FALSE
      BY <2>9 DEF RejectReload, Answer
    <3> QED
      BY <1>0, <3>1
  <2>10. CASE Plan
    <3>1. UNCHANGED <<active, todo, published, requested>>
      BY <2>10 DEF Plan
    <3>2. sleep' \in Nat
      BY <2>10, PlanFacts
    <3> QED
      BY <1>0, <3>1, <3>2
  <2>11. CASE PollReturns
    <3>1. UNCHANGED <<active, todo, published, requested>> /\ sleep' = 0
      BY <2>11 DEF PollReturns
    <3> QED
      BY <1>0, <3>1
  <2>12. CASE TableNext
    <3>1. UNCHANGED <<active, todo, published, requested, sleep>>
      BY <2>12, TableFacts, Zenon
    <3> QED
      BY <1>0, <3>1
  <2>13. CASE ClientNext
    <3>1. UNCHANGED <<active, todo, published, requested, sleep>>
      BY <2>13, ClientFacts, Zenon
    <3> QED
      BY <1>0, <3>1
  <2>14. CASE Deactivate \/ Cleanup
    <3>1. UNCHANGED <<todo, published, requested, sleep>> /\ (active' = active \/ active' = FALSE)
      BY <2>14 DEF Deactivate, Cleanup
    <3> QED
      BY <1>0, <3>1
  <2> QED
    BY <1>0, <2>t, <2>1, <2>2, <2>3, <2>4, <2>5, <2>6, <2>7, <2>8, <2>9, <2>10, <2>11, <2>12, <2>13, <2>14
    DEF Next, ControlNext
<1>5. joining' \in Nat \cup {NotYet} /\ sinceReload' \in Nat /\ waited' \in Nat
  <2>1. CASE Tick
    <3>1. /\ joining' = IF joining = NotYet THEN NotYet ELSE joining + 1
          /\ sinceReload' = sinceReload + 1
          /\ waited' = IF pc = "await" THEN waited + 1 ELSE waited
      BY <2>1 DEF Tick
    <3> QED
      BY <1>0, <3>1, SMT
  <2>2. CASE ~Tick
    <3>1. waited' = waited \/ waited' = 0
      BY <2>2, Skeleton, Zenon DEF Moves
    <3>2. joining' = joining \/ joining' = 0
      <4>1. Leave => joining' = joining
        BY DEF Leave
      <4> QED
        BY <2>2, <4>1, TableFacts, ClientFacts, Zenon
        DEF Next, ControlNext, Ends, Accept, Look, EndCommands, Expire, RejectReload, ApplyReload,
            SendFails, Answer, Plan, PollReturns, Deactivate, Cleanup
    <3>3. sinceReload' = sinceReload \/ sinceReload' = 0
      <4>1. Leave => sinceReload' = sinceReload
        BY DEF Leave
      <4> QED
        BY <2>2, <4>1, TableFacts, ClientFacts, Zenon
        DEF Next, ControlNext, Ends, Accept, Look, EndCommands, Expire, RejectReload, ApplyReload,
            SendFails, Answer, Plan, PollReturns, Deactivate, Cleanup
    <3> QED
      BY <1>0, <3>1, <3>2, <3>3
  <2> QED
    BY <2>1, <2>2
<1>6. pc' \in Places
  <2>1. CASE Tick
    BY <1>0, <2>1 DEF Tick
  <2>2. CASE ~Tick
    <3>1. pc' = pc \/ pc' \in {"loop", "commands", "timers", "reload", "await", "plan", "poll", "done"}
      BY <2>2, Skeleton, Zenon DEF Moves
    <3> QED
      BY <1>0, <3>1 DEF Places
  <2> QED
    BY <2>1, <2>2
<1> QED
  BY <1>1, <1>2, <1>3, <1>4, <1>5, <1>6, Zenon DEF TypeInv, Session, States, Places, Frames, NotYet

(* The invariant holds when the thread starts. *)
LEMMA InvInit == Init => Inv
<1> SUFFICES ASSUME Init PROVE Inv
  OBVIOUS
<1>0. /\ NoSession \in Session /\ NoSession.state = "absent"
  BY SMT DEF NoSession, Session, States
<1>1. /\ \A p \in Peers : sessions[p] = NoSession
      /\ \A c \in Conns : conns[c] = NoConn
      /\ sessions \in [Peers -> Session] /\ conns \in [Conns -> Plain \cup Watching]
  BY <1>0, NoConnType, Zenon DEF Init
<1>2. Live = {} /\ \A c \in Conns : conns[c] \in Plain /\ conns[c].status = "closed"
  BY <1>0, <1>1, NoConnType DEF Live
<1>3. ConnsOK(conns)
  BY <1>1, <1>2, ConnsUpdate, Zenon
<1>4. TypeInv
  <2>1. 0 \in Nat /\ {} \in Frames /\ "loop" \in Places
    BY DEF Frames, Places
  <2>2. /\ wake = FALSE /\ active = TRUE /\ requested = FALSE /\ joining = NotYet /\ pc = "loop"
        /\ todo = {} /\ sinceReload = 0 /\ waited = 0 /\ sleep = 0 /\ published = {}
    BY DEF Init
  <2> QED
    BY <1>1, <1>3, <2>1, <2>2, Zenon DEF TypeInv
<1>5. WaitInv /\ SinceInv
  BY Constants, SMT DEF Init, WaitInv, SinceInv
<1>6. JoinInv /\ SleepInv
  BY Zenon DEF Init, JoinInv, SleepInv
<1>7. LimInv /\ AgeInv /\ ReqInv /\ InfoInv
  BY <1>2 DEF Init, LimInv, AgeInv, ReqInv, InfoInv
<1> QED
  BY <1>4, <1>5, <1>6, <1>7 DEF Inv

(* Every step preserves it. *)
LEMMA InvStep == Inv /\ [Next]_vars => Inv'
<1>1. ASSUME Inv, Next
      PROVE  Inv'
  <2>1. TypeInv /\ WaitInv /\ JoinInv /\ LimInv /\ AgeInv /\ ReqInv /\ SinceInv /\ SleepInv /\ InfoInv
    BY <1>1 DEF Inv
  <2> QED
    BY <1>1, <2>1, TypeStep, WaitStep, JoinStep, LimStep, AgeStep, ReqStep, SinceStep, SleepStep, InfoStep
    DEF Inv
<1>2. ASSUME Inv, UNCHANGED vars
      PROVE  Inv'
  BY <1>2, Zenon
  DEF Inv, vars, TypeInv, WaitInv, JoinInv, LimInv, AgeInv, ReqInv, SinceInv, SleepInv, InfoInv,
      ConnsOK, WellQueued, Live, Newest, Identity, Limit, Dated, NotYet, Session, States, Plain,
      Watching, Frames, Places
<1> QED
  BY <1>1, <1>2

(* The conjunction is an invariant of the specification. *)
LEMMA Invariance == Spec => []Inv
  BY InvInit, InvStep, PTL DEF Spec

(* The variables of control.rs keep their types, a passed deadline is kept as *)
(* zero and a frame that is partly written is the one written on.             *)
THEOREM ControlTypeCorrect == Spec => []TypeOK
<1>1. Inv => TypeOK
  BY TypeInvOK DEF Inv
<1> QED
  BY <1>1, Invariance, PTL

(* check_sessions: no session outlives its limits by more than the wait for   *)
(* the decrypt worker, however many sessions there are and whatever other     *)
(* threads do to them.                                                        *)
THEOREM LimitsHold == Spec => []LimitsEnforced
<1>1. Inv => LimitsEnforced
  BY DEF Inv, LimInv, LimitsEnforced
<1> QED
  BY <1>1, Invariance, PTL

(* next_wake: control never sleeps past a deadline it has not been told of.   *)
THEOREM ControlNeverOversleeps == Spec => []NoOversleep
<1>1. Inv => NoOversleep
  BY SleepIsNoOversleep DEF Inv
<1> QED
  BY <1>1, Invariance, PTL

(* Commands that do not arrive in time are dropped, and nobody waits for the  *)
(* outcome of a RELOAD while control sleeps.                                  *)
THEOREM EveryCommandEnds == Spec => []CommandsEnd
<1>1. Inv => CommandsEnd
  <2>1. AgeInv => \A c \in InState("pending") : conns[c].age <= CommandTimeout + AckTimeout
    BY DEF AgeInv, InState
  <2>2. ReqInv => (pc = "poll" => InState("reloading") = {})
    BY DEF ReqInv, InState
  <2> QED
    BY <2>1, <2>2 DEF Inv, CommandsEnd
<1> QED
  BY <1>1, Invariance, PTL

(* publish_if_changed: while control sleeps every watcher has been queued the *)
(* table as it is, apart from the excused case.                               *)
THEOREM WatchersStayInformed == Spec => []WatchersInformed
<1>1. Inv => WatchersInformed
  <2>1. ASSUME InfoInv, pc = "poll", ~wake, NEW c \in InState("watching")
        PROVE  conns[c].missed \/ Newest(conns[c]) = Identity(sessions)
    <3>1. published = Identity(sessions)
      BY <2>1 DEF InfoInv
    <3>2. c \in Conns /\ conns[c].status = "watching"
      BY DEF InState
    <3> QED
      BY <2>1, <3>1, <3>2 DEF InfoInv
  <2> QED
    BY <2>1 DEF Inv, WatchersInformed
<1> QED
  BY <1>1, Invariance, PTL

(* Watcher::flush and the poll's events: a slow reader's last snapshot is     *)
(* written or waits for room.                                                 *)
THEOREM NoFrameLeftBehind == Spec => []NoFrameStuck
<1>1. Inv => NoFrameStuck
  <2>1. ASSUME TypeInv, ~Ready, NEW c \in InState("watching")
        PROVE  conns[c].seen = Newest(conns[c]) \/ ~conns[c].room
    <3>1. c \in Conns /\ conns[c].status = "watching"
      BY DEF InState
    <3>2. WellQueued(conns[c])
      BY <2>1, <3>1, ConnKinds DEF TypeInv
    <3>3. ~conns[c].room \/ conns[c].pending = None
      BY <2>1 DEF Ready, CanWrite
    <3> QED
      BY <3>2, <3>3, Zenon DEF WellQueued, Newest
  <2> QED
    BY <2>1 DEF Inv, NoFrameStuck
<1> QED
  BY <1>1, Invariance, PTL

(* The join of the main thread waits no longer than an acknowledgement may.   *)
THEOREM JoinIsPrompt == Spec => []JoinPrompt
<1>1. Inv => JoinPrompt
  <2>1. ASSUME TypeInv, JoinInv, pc # "done"
        PROVE  joining <= AckTimeout
    <3>1. CASE joining = NotYet
      BY <3>1, Constants, SMT DEF NotYet
    <3>2. CASE joining # NotYet
      BY <2>1, <3>2 DEF JoinInv
    <3> QED
      BY <3>1, <3>2
  <2> QED
    BY <2>1 DEF Inv, JoinPrompt
<1> QED
  BY <1>1, Invariance, PTL
=============================================================================
