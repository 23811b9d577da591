------------------------- MODULE SessionTableProofs -------------------------
(***************************************************************************)
(* What SessionTable guarantees for every set of peers, addresses and      *)
(* configurations and for every value of the limits.                       *)
(***************************************************************************)
EXTENDS SessionTable, FiniteSetTheorems, SequenceTheorems, TLAPS

-----------------------------------------------------------------------------
(* Operators on the table *)

(* Removing sessions from a table gives a table. *)
LEMMA WithoutType ==
  ASSUME NEW t \in [Peers -> Session], NEW gone
  PROVE  Without(t, gone) \in [Peers -> Session]
  BY DEF Without, NoSession, Fresh, Session

(* A new pending session is a session. *)
LEMMA FreshType == Fresh("pending") \in Session /\ NoSession \in Session
  BY DEF Fresh, NoSession, Session

(* The table after a handshake completed is a table. *)
LEMMA CompleteType ==
  ASSUME TypeOK, NEW t \in [Peers -> Session], NEW p \in Peers, NEW a \in Addresses
  PROVE  Complete(t, p, a) \in [Peers -> Session]
<1> DEFINE new == [status      |-> IF decrypt.logins[a] # NoLogin
                                   THEN "established" ELSE "authenticated",
                   address     |-> a,
                   fingerprint |-> decrypt.bindings[a],
                   attempted   |-> FALSE]
           joined == [t EXCEPT ![p] = new]
<1>1. new \in Session
  BY DEF TypeOK, Session
<1>2. joined \in [Peers -> Session]
  BY <1>1
<1> HIDE DEF new
<1>3. Without(joined, Others(t, p, a)) \in [Peers -> Session]
  BY <1>2, WithoutType
<1>4. Without(t, {p}) \in [Peers -> Session]
  BY WithoutType
<1> QED
  BY <1>2, <1>3, <1>4 DEF Complete, new

(* A handshake step leaves a table. *)
LEMMA HandshakeType ==
  ASSUME TypeOK, NEW t \in [Peers -> Session], NEW p \in Peers, Handshake(t, p)
  PROVE  sessions' \in [Peers -> Session]
  BY WithoutType, CompleteType DEF Handshake

(* The table a new peer's handshake starts from is a table. *)
LEMMA AdmittedType ==
  ASSUME TypeOK, NEW p \in Peers, NEW evicted
  PROVE  [q \in Peers |-> IF q = p THEN Fresh("pending") ELSE Without(sessions, evicted)[q]] \in [Peers -> Session]
  BY WithoutType, FreshType DEF TypeOK

(* Reading records leaves a table. *)
LEMMA ReadType ==
  ASSUME TypeOK, NEW tried, NEW accepted, ReadRecords(tried, accepted)
  PROVE  sessions' \in [Peers -> Session]
<1>1. ASSUME NEW p \in Peers PROVE sessions'[p] \in Session
  <2>1. sessions[p] \in Session
    BY DEF TypeOK
  <2>2. /\ [sessions[p] EXCEPT !.attempted = TRUE, !.status = "authenticated"] \in Session
        /\ [sessions[p] EXCEPT !.attempted = TRUE, !.status = @] \in Session
    BY <2>1 DEF Session
  <2> QED
    BY <2>1, <2>2 DEF ReadRecords
<1> QED
  BY <1>1 DEF ReadRecords

-----------------------------------------------------------------------------
(* Type correctness *)

(* The end of the decrypt worker keeps the types of what it touches. *)
LEMMA StopType ==
  ASSUME TypeOK, Stop, sessions' \in [Peers -> Session], UNCHANGED <<config, control>>
  PROVE  TypeOK'
<1>1. reloads' \in Seq(Update)
  BY DEF Stop
<1> QED
  BY <1>1 DEF Stop, Goto, TypeOK

(* Every step of the decrypt worker keeps the types. *)
LEMMA DecryptType == ASSUME TypeOK, DecryptNext PROVE TypeOK'
<1>1. ASSUME NEW tried \in SUBSET Peers, NEW accepted \in SUBSET tried,
             Drain(tried, accepted)
      PROVE  TypeOK'
  <2>1. sessions' \in [Peers -> Session]
    BY <1>1, ReadType DEF Drain
  <2> QED
    BY <1>1, <2>1 DEF Drain, TypeOK
<1>2. ASSUME NEW gone \in SUBSET Peers, Dedupe(gone)
      PROVE  TypeOK'
  BY <1>2, WithoutType DEF Dedupe, TypeOK, Goto
<1>3. CASE Adopt
  <2>1. reloads # <<>> => reloads[Len(reloads)].config \in Config
    <3> SUFFICES ASSUME reloads # <<>> PROVE reloads[Len(reloads)].config \in Config
      OBVIOUS
    <3>1. Len(reloads) \in 1..Len(reloads)
      BY DEF TypeOK
    <3>2. reloads[Len(reloads)] \in Update
      BY <3>1 DEF TypeOK
    <3> QED
      BY <3>2, ConfigsAssumption DEF Update
  <2>2. /\ reloads # <<>> => reloads[Len(reloads)].config.bindings
                                \in [Addresses -> Fingerprints \cup {NoFingerprint}]
        /\ reloads # <<>> => reloads[Len(reloads)].config.logins
                                \in [Addresses -> Logins \cup {NoLogin}]
    BY <2>1 DEF Config
  <2>3. reloads' \in Seq(Update)
    BY <1>3 DEF Adopt
  <2> QED
    BY <1>3, <2>2, <2>3 DEF Adopt, TypeOK
<1>4. ASSUME NEW pending_session_input \in BOOLEAN, ReceiveEmpty(pending_session_input)
      PROVE  TypeOK'
  BY <1>4 DEF ReceiveEmpty, TypeOK, Goto
<1>5. CASE Wake
  BY <1>5 DEF Wake, TypeOK, Goto
<1>6. ASSUME NEW p \in Peers, KnownPeer(p) PROVE TypeOK'
  <2>1. sessions' \in [Peers -> Session]
    BY <1>6, HandshakeType DEF KnownPeer, TypeOK
  <2> QED
    BY <1>6, <2>1 DEF KnownPeer, TypeOK, Goto
<1>7. ASSUME NEW p \in Peers, RefusePeer(p) PROVE TypeOK'
  BY <1>7 DEF RefusePeer, TypeOK, Goto
<1>8. ASSUME NEW p \in Peers, BanPeer(p) PROVE TypeOK'
  BY <1>8, WithoutType DEF BanPeer, TypeOK, Goto
<1>9. ASSUME NEW p \in Peers, NEW evicted \in SUBSET Peers, AdmitPeer(p, evicted)
      PROVE  TypeOK'
  <2>1. sessions' \in [Peers -> Session]
    BY <1>9, AdmittedType, HandshakeType DEF AdmitPeer, Admissible
  <2> QED
    BY <1>9, <2>1 DEF AdmitPeer, Admissible, TypeOK, Goto
<1> QED
  BY <1>1, <1>2, <1>3, <1>4, <1>5, <1>6, <1>7, <1>8, <1>9 DEF DecryptNext

(* Every step of the control thread keeps the types. *)
LEMMA ControlType == ASSUME TypeOK, ControlNext PROVE TypeOK'
<1>1. ASSUME NEW kicked \in SUBSET Addresses, NEW failed \in SUBSET Peers,
             NEW expired \in SUBSET Peers, NEW reload \in BOOLEAN,
             Tick(kicked, failed, expired, reload)
      PROVE  TypeOK'
  BY <1>1, WithoutType DEF Tick, TypeOK
<1>2. CASE NoReload
  BY <1>2 DEF NoReload, TypeOK
<1>3. CASE ParseConfig
  BY <1>3 DEF ParseConfig, TypeOK
<1>4. CASE RejectConfig
  BY <1>4 DEF RejectConfig, TypeOK
<1>5. CASE FilterSessions
  <2>1. /\ control.new.bindings \in [Addresses -> Fingerprints \cup {NoFingerprint}]
        /\ control.new.logins \in [Addresses -> Logins \cup {NoLogin}]
    BY ConfigsAssumption DEF TypeOK, Config
  <2> QED
    BY <1>5, <2>1, WithoutType DEF FilterSessions, TypeOK
<1>6. CASE SendReload
  <2>1. [config |-> control.new, ack |-> control.requested] \in Update
    BY DEF TypeOK, Update
  <2>2. Append(reloads, [config |-> control.new, ack |-> control.requested]) \in Seq(Update)
    BY <2>1 DEF TypeOK
  <2>3. CASE At("stopped")
    BY <1>6, <2>3 DEF SendReload, TypeOK
  <2>4. CASE ~At("stopped")
    <3>1. reloads' \in Seq(Update)
      BY <1>6, <2>2, <2>4 DEF SendReload
    <3>2. /\ control' = [control EXCEPT !.pc = "notify"]
          /\ UNCHANGED <<sessions, config, decrypt>>
      BY <1>6, <2>4 DEF SendReload
    <3> QED
      BY <3>1, <3>2 DEF TypeOK
  <2> QED
    BY <2>3, <2>4
<1>7. CASE NotifyDecrypt
  BY <1>7 DEF NotifyDecrypt, TypeOK
<1>8. CASE ReloadAcked
  BY <1>8 DEF ReloadAcked, TypeOK
<1>9. CASE ReloadTimeout
  <2>1. reloads' \in Seq(Update)
    <3>1. ASSUME NEW i \in 1..Len(reloads)
          PROVE  [reloads[i] EXCEPT !.ack = FALSE] \in Update
      <4>1. reloads[i] \in Update
        BY DEF TypeOK
      <4> QED
        BY <4>1 DEF Update
    <3>2. Len(reloads) \in Nat
      BY DEF TypeOK
    <3>3. reloads' \in [1..Len(reloads) -> Update]
      BY <1>9, <3>1 DEF ReloadTimeout
    <3> QED
      BY <3>2, <3>3, SeqDef
  <2> QED
    BY <1>9, <2>1 DEF ReloadTimeout, TypeOK
<1> QED
  BY <1>1, <1>2, <1>3, <1>4, <1>5, <1>6, <1>7, <1>8, <1>9 DEF ControlNext, ReloadNext

(* Every variable of the table, of the two threads and of the reload channel *)
(* keeps its type.                                                           *)
THEOREM TypeCorrect == Spec => []TypeOK
<1>1. Init => TypeOK
  <2> SUFFICES ASSUME Init PROVE TypeOK
    OBVIOUS
  <2>1. config \in Config
    BY ConfigsAssumption DEF Init
  <2>2. /\ config.bindings \in [Addresses -> Fingerprints \cup {NoFingerprint}]
        /\ config.logins \in [Addresses -> Logins \cup {NoLogin}]
    BY <2>1 DEF Config
  <2> QED
    BY <2>2, FreshType DEF Init, TypeOK
<1>2. TypeOK /\ [Next]_vars => TypeOK'
  <2> SUFFICES ASSUME TypeOK, [Next]_vars PROVE TypeOK'
    OBVIOUS
  <2>1. CASE DecryptNext
    BY <2>1, DecryptType
  <2>2. CASE ControlNext
    BY <2>2, ControlType
  <2>3. ASSUME NEW gone \in SUBSET Peers, UdpWriteError(gone) PROVE TypeOK'
    BY <2>3, WithoutType DEF UdpWriteError, TypeOK
  <2>4. CASE DatagramArrives
    BY <2>4 DEF DatagramArrives, TypeOK
  <2>5. CASE DecryptStops
    BY <2>5, StopType DEF DecryptStops, TypeOK
  <2>9. ASSUME NEW tried, NEW accepted, TunWriteFails(tried, accepted) PROVE TypeOK'
    BY <2>9, ReadType, StopType DEF TunWriteFails
  <2>10. ASSUME NEW p \in Peers, NEW evicted \in SUBSET Peers, AcceptorFails(p, evicted)
         PROVE  TypeOK'
    BY <2>10, WithoutType, StopType DEF AcceptorFails, TypeOK
  <2>6. CASE ControlStops
    BY <2>6 DEF ControlStops, TypeOK
  <2>7. ASSUME NEW c \in Configs, EditConfig(c) PROVE TypeOK'
    BY <2>7 DEF EditConfig, TypeOK
  <2>8. CASE UNCHANGED vars
    BY <2>8 DEF vars, TypeOK
  <2> QED
    BY <2>1, <2>2, <2>3, <2>4, <2>5, <2>6, <2>7, <2>8, <2>9, <2>10 DEF Next
<1> QED
  BY <1>1, <1>2, PTL DEF Spec

-----------------------------------------------------------------------------
(* What the steps do to the table *)

(* u is t without some of its sessions. *)
Shrinks(t, u) == \A q \in Peers : u[q] = t[q] \/ u[q] = NoSession

(* u is t after the handshake of p was accepted for address a. *)
Joins(t, u, p, a) ==
  /\ p \in Pending(t)
  /\ u[p].status \in {"established", "authenticated"}
  /\ u[p].address = a
  /\ \A q \in Peers \ {p} : u[q] = t[q] \/ u[q] = NoSession
  /\ Others(t, p, a) = {} => Cardinality(Established(t)) < MaxClients
  /\ u[p].status = "authenticated" =>
       \A q \in Established(u) \ {p} : u[q].address # a

(* No two authenticated sessions of t have the same address. *)
Unique(t) ==
  \A p, q \in Authenticated(t) : t[p].address = t[q].address => p = q

(* The bounds of the admission path, of a table. *)
Bounded(t) ==
  /\ Cardinality(Pending(t)) <= MaxPendingHandshakes
  /\ \A ip \in Ips : Cardinality(PendingFrom(t, ip)) <= MaxPendingPerIp
  /\ Cardinality(Live(t)) < MaxClients + MaxPendingHandshakes

(* Removing sessions shrinks the table. *)
LEMMA WithoutShrinks ==
  ASSUME NEW t \in [Peers -> Session], NEW gone
  PROVE  Shrinks(t, Without(t, gone))
  BY DEF Without, Shrinks

(* A handshake step removes sessions or lets p join. *)
LEMMA HandshakeCases ==
  ASSUME TypeOK, NEW t \in [Peers -> Session], NEW p \in Pending(t), Handshake(t, p)
  PROVE  Shrinks(t, sessions') \/ \E a \in Addresses : Joins(t, sessions', p, a)
<1>1. CASE sessions' = Without(t, {p})
  BY <1>1, WithoutShrinks
<1>2. CASE sessions' = t
  BY <1>2 DEF Shrinks
<1>3. ASSUME NEW a \in Addresses, sessions' = Complete(t, p, a)
      PROVE  Shrinks(t, sessions') \/ Joins(t, sessions', p, a)
  <2> DEFINE new == [status      |-> IF decrypt.logins[a] # NoLogin
                                     THEN "established" ELSE "authenticated",
                     address     |-> a,
                     fingerprint |-> decrypt.bindings[a],
                     attempted   |-> FALSE]
             joined == [t EXCEPT ![p] = new]
             full == Cardinality(Established(t)) >= MaxClients /\ Others(t, p, a) = {}
  <2>0. p \in Peers
    BY DEF Pending
  <2>1. CASE full
    BY <1>3, <2>1, WithoutShrinks DEF Complete
  <2>2. CASE ~full /\ decrypt.logins[a] # NoLogin
    <3>1. sessions' = joined
      BY <1>3, <2>2 DEF Complete
    <3>2. sessions'[p] = new /\ \A q \in Peers \ {p} : sessions'[q] = t[q]
      BY <2>0, <3>1
    <3>3. new.status = "established" /\ new.address = a
      BY <2>2
    <3>4. Others(t, p, a) = {} => Cardinality(Established(t)) < MaxClients
      <4>1. IsFiniteSet(Established(t))
        BY PeersAssumption, FS_Subset DEF Established
      <4>2. Cardinality(Established(t)) \in Nat
        BY <4>1, FS_CardinalityType
      <4> QED
        BY <2>2, <4>2, LimitsAssumption
    <3> QED
      BY <3>2, <3>3, <3>4 DEF Joins
  <2>3. CASE ~full /\ decrypt.logins[a] = NoLogin
    <3>1. sessions' = Without(joined, Others(t, p, a))
      BY <1>3, <2>3 DEF Complete
    <3>2. p \notin Others(t, p, a)
      BY DEF Others
    <3>3. sessions'[p] = new
      BY <2>0, <3>1, <3>2 DEF Without
    <3>4. \A q \in Peers \ {p} :
            sessions'[q] = IF q \in Others(t, p, a) THEN NoSession ELSE t[q]
      BY <2>0, <3>1 DEF Without
    <3>5. new.status = "authenticated" /\ new.address = a
      BY <2>3
    <3>6. Others(t, p, a) = {} => Cardinality(Established(t)) < MaxClients
      <4>1. IsFiniteSet(Established(t))
        BY PeersAssumption, FS_Subset DEF Established
      <4>2. Cardinality(Established(t)) \in Nat
        BY <4>1, FS_CardinalityType
      <4> QED
        BY <2>3, <4>2, LimitsAssumption
    <3>7. ASSUME NEW q \in Established(sessions') \ {p}
          PROVE  sessions'[q].address # a
      <4>1. q \in Peers \ {p} /\ q \notin Others(t, p, a)
        BY <3>4 DEF Established, NoSession, Fresh
      <4>2. sessions'[q] = t[q] /\ q \in Established(t)
        BY <3>4, <4>1 DEF Established
      <4> QED
        BY <4>1, <4>2 DEF Others
    <3> QED
      BY <3>3, <3>4, <3>5, <3>6, <3>7 DEF Joins
  <2> QED
    BY <2>1, <2>2, <2>3
<1> QED
  BY <1>1, <1>2, <1>3 DEF Handshake

-----------------------------------------------------------------------------
(* What they preserve *)

(* The sets a table is counted by are finite. *)
LEMMA TableFinite ==
  ASSUME NEW t
  PROVE  /\ IsFiniteSet(Live(t)) /\ Cardinality(Live(t)) \in Nat
         /\ IsFiniteSet(Pending(t)) /\ Cardinality(Pending(t)) \in Nat
         /\ IsFiniteSet(Established(t)) /\ Cardinality(Established(t)) \in Nat
         /\ IsFiniteSet(Authenticated(t)) /\ Cardinality(Authenticated(t)) \in Nat
         /\ \A ip : IsFiniteSet(PendingFrom(t, ip)) /\ Cardinality(PendingFrom(t, ip)) \in Nat
<1>1. /\ Live(t) \in SUBSET Peers /\ Pending(t) \in SUBSET Peers
      /\ Established(t) \in SUBSET Peers /\ Authenticated(t) \in SUBSET Peers
      /\ \A ip : PendingFrom(t, ip) \in SUBSET Peers
  BY DEF Live, Pending, Established, Authenticated, PendingFrom
<1>2. \A S \in SUBSET Peers : IsFiniteSet(S)
  BY PeersAssumption, FS_Subset
<1>3. \A S \in SUBSET Peers : Cardinality(S) \in Nat
  BY <1>2, FS_CardinalityType
<1> QED
  BY <1>1, <1>2, <1>3

(* There are at most as many addresses as established sessions. *)
LEMMA AddressesFinite ==
  ASSUME NEW t
  PROVE  /\ IsFiniteSet(AddressesOf(t)) /\ Cardinality(AddressesOf(t)) \in Nat
         /\ Cardinality(AddressesOf(t)) <= Cardinality(Established(t))
<1> DEFINE f == [p \in Established(t) |-> t[p].address]
<1>1. f \in Surjection(Established(t), AddressesOf(t))
  BY DEF Surjection, AddressesOf
<1>2. IsFiniteSet(Established(t))
  BY TableFinite
<1> HIDE DEF f
<1>3. IsFiniteSet(AddressesOf(t)) /\ Cardinality(AddressesOf(t)) <= Cardinality(Established(t))
  BY <1>1, <1>2, FS_Surjection
<1> QED
  BY <1>3, FS_CardinalityType

(* The sets of a table without some of its sessions are subsets. *)
LEMMA ShrinkSubsets ==
  ASSUME NEW t, NEW u, Shrinks(t, u)
  PROVE  /\ Live(u) \subseteq Live(t)
         /\ Pending(u) \subseteq Pending(t)
         /\ Established(u) \subseteq Established(t)
         /\ Authenticated(u) \subseteq Authenticated(t)
         /\ \A q \in Live(u) : u[q] = t[q]
         /\ AddressesOf(u) \subseteq AddressesOf(t)
         /\ \A ip : PendingFrom(u, ip) \subseteq PendingFrom(t, ip)
<1>1. /\ Live(u) \subseteq Live(t)
      /\ Pending(u) \subseteq Pending(t)
      /\ Established(u) \subseteq Established(t)
      /\ Authenticated(u) \subseteq Authenticated(t)
      /\ \A q \in Live(u) : u[q] = t[q]
  BY DEF Shrinks, Live, Pending, Established, Authenticated, NoSession, Fresh
<1>2. Established(u) \subseteq Live(u)
  BY DEF Established, Live
<1>3. AddressesOf(u) \subseteq AddressesOf(t)
  BY <1>1, <1>2 DEF AddressesOf
<1> QED
  BY <1>1, <1>3 DEF PendingFrom

(* Removal leaves addresses as unique as they were. *)
LEMMA ShrinkUnique ==
  ASSUME NEW t, NEW u, Shrinks(t, u), Unique(t)
  PROVE  Unique(u)
<1>1. Authenticated(u) \subseteq Live(u)
  BY DEF Authenticated, Live
<1> QED
  BY <1>1, ShrinkSubsets DEF Unique

(* Removal adds no address. *)
LEMMA ShrinkAddresses ==
  ASSUME NEW t, NEW u, Shrinks(t, u), Cardinality(AddressesOf(t)) <= MaxClients
  PROVE  Cardinality(AddressesOf(u)) <= MaxClients
<1>1. Cardinality(AddressesOf(u)) <= Cardinality(AddressesOf(t))
  BY ShrinkSubsets, AddressesFinite, FS_Subset
<1> QED
  BY <1>1, AddressesFinite, LimitsAssumption

(* A table with fewer sessions and fewer pending ones stays within the bounds. *)
LEMMA ShrinkBounded ==
  ASSUME NEW t, NEW u, Bounded(t),
         Live(u) \subseteq Live(t), Pending(u) \subseteq Pending(t)
  PROVE  Bounded(u)
<1>1. /\ Cardinality(Live(u)) <= Cardinality(Live(t))
      /\ Cardinality(Pending(u)) <= Cardinality(Pending(t))
  BY TableFinite, FS_Subset
<1>2. ASSUME NEW ip \in Ips
      PROVE  Cardinality(PendingFrom(u, ip)) <= Cardinality(PendingFrom(t, ip))
  <2>1. PendingFrom(u, ip) \subseteq PendingFrom(t, ip)
    BY DEF PendingFrom
  <2> QED
    BY <2>1, TableFinite, FS_Subset
<1>3. Cardinality(Live(u)) < MaxClients + MaxPendingHandshakes
  BY <1>1, TableFinite, LimitsAssumption DEF Bounded
<1>4. Cardinality(Pending(u)) <= MaxPendingHandshakes
  BY <1>1, TableFinite, LimitsAssumption DEF Bounded
<1>5. ASSUME NEW ip \in Ips
      PROVE  Cardinality(PendingFrom(u, ip)) <= MaxPendingPerIp
  BY <1>2, TableFinite, LimitsAssumption DEF Bounded
<1> QED
  BY <1>3, <1>4, <1>5 DEF Bounded

(* A session that joins authenticated leaves no other of its address. *)
LEMMA JoinUnique ==
  ASSUME NEW t, NEW u, NEW p, NEW a, Joins(t, u, p, a), Unique(t)
  PROVE  Unique(u)
<1> SUFFICES ASSUME NEW q \in Authenticated(u), NEW r \in Authenticated(u),
                    u[q].address = u[r].address
             PROVE  q = r
  BY DEF Unique
<1>1. \A s \in Authenticated(u) \ {p} : u[s] = t[s] /\ s \in Authenticated(t)
  BY DEF Joins, Authenticated, NoSession, Fresh
<1>2. CASE q # p /\ r # p
  BY <1>1, <1>2 DEF Unique
<1>3. Authenticated(u) \subseteq Established(u)
  BY DEF Authenticated, Established
<1>4. CASE q = p
  BY <1>3, <1>4 DEF Joins, Authenticated
<1>5. CASE r = p
  BY <1>3, <1>5 DEF Joins, Authenticated
<1> QED
  BY <1>2, <1>4, <1>5

(* A session joins an address already in use, or below the limit. *)
LEMMA JoinAddresses ==
  ASSUME NEW t, NEW u, NEW p, NEW a, Joins(t, u, p, a),
         Cardinality(AddressesOf(t)) <= MaxClients
  PROVE  Cardinality(AddressesOf(u)) <= MaxClients
<1>1. \A q \in Established(u) \ {p} : u[q] = t[q] /\ q \in Established(t)
  BY DEF Joins, Established, NoSession, Fresh
<1>2. AddressesOf(u) \subseteq AddressesOf(t) \cup {a}
  BY <1>1 DEF AddressesOf, Joins
<1>3. /\ IsFiniteSet(AddressesOf(t) \cup {a})
      /\ Cardinality(AddressesOf(t) \cup {a}) =
           IF a \in AddressesOf(t) THEN Cardinality(AddressesOf(t))
           ELSE Cardinality(AddressesOf(t)) + 1
  BY AddressesFinite, FS_AddElement
<1>4. Cardinality(AddressesOf(u)) <= Cardinality(AddressesOf(t) \cup {a})
  BY <1>2, <1>3, FS_Subset
<1>5. a \notin AddressesOf(t) => Cardinality(Established(t)) < MaxClients
  BY DEF Joins, Others, AddressesOf
<1> QED
  BY <1>3, <1>4, <1>5, AddressesFinite, TableFinite, LimitsAssumption

(* A session that completes its handshake was live and is pending no more. *)
LEMMA JoinSubsets ==
  ASSUME NEW t, NEW u, NEW p, NEW a, Joins(t, u, p, a)
  PROVE  Live(u) \subseteq Live(t) /\ Pending(u) \subseteq Pending(t)
  BY DEF Joins, Live, Pending, NoSession, Fresh

-----------------------------------------------------------------------------
(* The invariant: the first part is what the decrypt worker restores between *)
(* its sections, the others hold in every state.                             *)

TableInv ==
  /\ Settled => Unique(sessions)
  /\ Cardinality(AddressesOf(sessions)) <= MaxClients
  /\ Bounded(sessions)

(* A step that only removes sessions keeps the invariant. *)
LEMMA ShrinkInv ==
  ASSUME TableInv, Shrinks(sessions, sessions'), Settled' => Settled
  PROVE  TableInv'
<1>1. Settled' => Unique(sessions')
  BY ShrinkUnique DEF TableInv
<1>2. Cardinality(AddressesOf(sessions')) <= MaxClients
  BY ShrinkAddresses DEF TableInv
<1>3. Bounded(sessions')
  BY ShrinkBounded, ShrinkSubsets DEF TableInv
<1> QED
  BY <1>1, <1>2, <1>3 DEF TableInv, Unique, Bounded

(* A handshake that starts from a table with the invariant keeps it. *)
LEMMA HandshakeInv ==
  ASSUME TypeOK, NEW t \in [Peers -> Session], NEW p \in Pending(t), Handshake(t, p),
         Unique(t), Cardinality(AddressesOf(t)) <= MaxClients, Bounded(t)
  PROVE  TableInv'
<1>1. CASE Shrinks(t, sessions')
  <2>1. Unique(sessions')
    BY <1>1, ShrinkUnique
  <2>2. Cardinality(AddressesOf(sessions')) <= MaxClients
    BY <1>1, ShrinkAddresses
  <2>3. Bounded(sessions')
    BY <1>1, ShrinkBounded, ShrinkSubsets
  <2> QED
    BY <2>1, <2>2, <2>3 DEF TableInv
<1>2. ASSUME NEW a \in Addresses, Joins(t, sessions', p, a) PROVE TableInv'
  <2>1. Unique(sessions')
    BY <1>2, JoinUnique
  <2>2. Cardinality(AddressesOf(sessions')) <= MaxClients
    BY <1>2, JoinAddresses
  <2>3. Bounded(sessions')
    BY <1>2, ShrinkBounded, JoinSubsets
  <2> QED
    BY <2>1, <2>2, <2>3 DEF TableInv
<1> QED
  BY <1>1, <1>2, HandshakeCases

(* A login changes neither the established sessions nor their addresses. *)
LEMMA ReadInv ==
  ASSUME TypeOK, TableInv, NEW tried, NEW accepted, ReadRecords(tried, accepted), ~Settled'
  PROVE  TableInv'
<1>2. ASSUME NEW q \in Peers
      PROVE  /\ sessions'[q].address = sessions[q].address
             /\ q \notin tried => sessions'[q] = sessions[q]
             /\ q \in tried => /\ sessions[q].status = "established"
                               /\ sessions'[q].status \in {"established", "authenticated"}
  <2>1. sessions[q] \in Session
    BY DEF TypeOK
  <2>2. q \notin tried => sessions'[q] = sessions[q]
    BY DEF ReadRecords
  <2>3. ASSUME q \in tried
        PROVE  /\ sessions[q].status = "established"
               /\ sessions'[q].status \in {"established", "authenticated"}
               /\ sessions'[q].address = sessions[q].address
    <3>1. sessions[q].status = "established"
      BY <2>3 DEF ReadRecords, Established, Authenticated
    <3>2. \/ sessions'[q] = [sessions[q] EXCEPT !.attempted = TRUE, !.status = "authenticated"]
          \/ sessions'[q] = [sessions[q] EXCEPT !.attempted = TRUE, !.status = @]
      BY <2>3 DEF ReadRecords
    <3> QED
      BY <2>1, <3>1, <3>2 DEF Session
  <2> QED
    BY <2>2, <2>3
<1>3. /\ Live(sessions') = Live(sessions)
      /\ Pending(sessions') = Pending(sessions)
      /\ Established(sessions') = Established(sessions)
  BY <1>2 DEF Live, Pending, Established
<1>4. AddressesOf(sessions') = AddressesOf(sessions)
  BY <1>2, <1>3 DEF AddressesOf, Established
<1>5. Bounded(sessions')
  BY <1>3, ShrinkBounded DEF TableInv
<1> QED
  BY <1>4, <1>5 DEF TableInv

(* The duplicate check leaves one authenticated session of each address. *)
LEMMA DedupeInv ==
  ASSUME TypeOK, TableInv, NEW gone, Dedupe(gone)
  PROVE  TableInv'
<1>1. Shrinks(sessions, sessions')
  BY WithoutShrinks DEF Dedupe, TypeOK
<1>2. Unique(sessions')
  <2> SUFFICES ASSUME NEW p \in Authenticated(sessions'), NEW q \in Authenticated(sessions'),
                      sessions'[p].address = sessions'[q].address
               PROVE  p = q
    BY DEF Unique
  <2>1. \A r \in Authenticated(sessions') :
          r \in Authenticated(sessions) \ gone /\ sessions'[r] = sessions[r]
    BY DEF Dedupe, Without, Authenticated, NoSession, Fresh
  <2>2. PICK r \in Authenticated(sessions) \ gone :
          \A s \in Authenticated(sessions) \ gone :
            sessions[s].address = sessions[p].address => s = r
    BY <2>1 DEF Dedupe
  <2> QED
    BY <2>1, <2>2
<1>3. Cardinality(AddressesOf(sessions')) <= MaxClients
  BY <1>1, ShrinkAddresses DEF TableInv
<1>4. Bounded(sessions')
  BY <1>1, ShrinkBounded, ShrinkSubsets DEF TableInv
<1> QED
  BY <1>2, <1>3, <1>4 DEF TableInv

(* One more element adds at most one to the size of a finite set. *)
LEMMA AddOne ==
  ASSUME NEW S, IsFiniteSet(S), NEW x
  PROVE  /\ IsFiniteSet(S \cup {x})
         /\ Cardinality(S) \in Nat
         /\ Cardinality(S \cup {x}) \in Nat
         /\ Cardinality(S \cup {x}) <= Cardinality(S) + 1
<1>1. Cardinality(S) \in Nat
  BY FS_CardinalityType
<1>2. /\ IsFiniteSet(S \cup {x})
      /\ Cardinality(S \cup {x}) = Cardinality(S) \/ Cardinality(S \cup {x}) = Cardinality(S) + 1
  BY FS_AddElement
<1> QED
  BY <1>1, <1>2

(* The table a new peer's handshake starts from keeps the bounds: admission  *)
(* checks each of them before it adds the session.                           *)
LEMMA AdmittedInv ==
  ASSUME TypeOK, TableInv, NEW p \in Peers, NEW evicted \in SUBSET Peers,
         AdmitPeer(p, evicted)
  PROVE  LET t == [q \in Peers |-> IF q = p THEN Fresh("pending") ELSE Without(sessions, evicted)[q]]
         IN  /\ p \in Pending(t) /\ Unique(t)
             /\ Cardinality(AddressesOf(t)) <= MaxClients
             /\ Bounded(t)
<1> DEFINE t == [q \in Peers |-> IF q = p THEN Fresh("pending") ELSE Without(sessions, evicted)[q]]
<1>1. evicted \subseteq Pending(sessions)
  BY DEF AdmitPeer, Admissible
<1>2. /\ t[p] = Fresh("pending")
      /\ \A q \in Peers \ {p} : t[q] = IF q \in evicted THEN NoSession ELSE sessions[q]
  BY DEF Without
<1> HIDE DEF t
<1>3. p \notin Live(sessions)
  BY DEF AdmitPeer, Admissible
<1>4. /\ Pending(t) = (Pending(sessions) \ evicted) \cup {p}
      /\ Established(t) = Established(sessions)
      /\ Authenticated(t) = Authenticated(sessions)
      /\ Live(t) = Established(sessions) \cup Pending(t)
  <2>1. \A q \in evicted : sessions[q].status = "pending" /\ NoSession.status = "absent"
    BY <1>1 DEF Pending, NoSession, Fresh
  <2>2. sessions[p].status = "absent" /\ t[p].status = "pending"
    BY <1>2, <1>3 DEF Live, Fresh
  <2>3. \A q \in Peers : sessions[q].status \in
          {"absent", "pending", "established", "authenticated"}
    BY DEF TypeOK, Session
  <2> QED
    BY <1>2, <2>1, <2>2, <2>3 DEF Pending, Established, Authenticated, Live
<1>5. \A q \in Established(sessions) : t[q] = sessions[q]
  BY <1>1, <1>2, <1>3 DEF Established, Pending, Live
<1>6. Unique(t)
  <2>1. Settled
    BY DEF AdmitPeer, Admissible, At, Settled
  <2>2. Authenticated(sessions) \subseteq Established(sessions)
    BY DEF Authenticated, Established
  <2> QED
    BY <1>4, <1>5, <2>1, <2>2 DEF TableInv, Unique
<1>7. AddressesOf(t) = AddressesOf(sessions)
  BY <1>4, <1>5 DEF AddressesOf
<1>8. Cardinality(Pending(t)) <= MaxPendingHandshakes
  <2>1. /\ IsFiniteSet(Pending(sessions) \ evicted)
        /\ Cardinality(Pending(sessions) \ evicted) < MaxPendingHandshakes
    <3>1. CASE Cardinality(Pending(sessions)) >= MaxPendingHandshakes
      <4>1. PICK q \in Pending(sessions) : evicted = {q}
        BY <3>1 DEF AdmitPeer, Admissible
      <4>2. /\ IsFiniteSet(Pending(sessions) \ evicted)
            /\ Cardinality(Pending(sessions) \ evicted) = Cardinality(Pending(sessions)) - 1
        BY <4>1, TableFinite, FS_RemoveElement
      <4> QED
        BY <4>2, TableFinite, LimitsAssumption DEF TableInv, Bounded
    <3>2. CASE ~(Cardinality(Pending(sessions)) >= MaxPendingHandshakes)
      <4>1. Pending(sessions) \ evicted = Pending(sessions)
        BY <3>2 DEF AdmitPeer, Admissible
      <4> QED
        BY <3>2, <4>1, TableFinite, LimitsAssumption
    <3> QED
      BY <3>1, <3>2
  <2>2. Cardinality(Pending(t)) <= Cardinality(Pending(sessions) \ evicted) + 1
    BY <1>4, <2>1, AddOne
  <2>3. Cardinality(Pending(sessions) \ evicted) \in Nat
    BY <2>1, FS_CardinalityType
  <2>4. Cardinality(Pending(t)) \in Nat
    BY TableFinite
  <2> QED
    BY <2>1, <2>2, <2>3, <2>4, LimitsAssumption
<1>9. ASSUME NEW ip \in Ips
      PROVE  Cardinality(PendingFrom(t, ip)) <= MaxPendingPerIp
  <2>1. CASE ip = IpOf[p]
    <3>1. PendingFrom(t, ip) \subseteq PendingFrom(sessions, ip) \cup {p}
      BY <1>4 DEF PendingFrom
    <3>2. /\ IsFiniteSet(PendingFrom(sessions, ip) \cup {p})
          /\ Cardinality(PendingFrom(sessions, ip)) \in Nat
          /\ Cardinality(PendingFrom(sessions, ip) \cup {p}) \in Nat
          /\ Cardinality(PendingFrom(sessions, ip) \cup {p})
               <= Cardinality(PendingFrom(sessions, ip)) + 1
      BY TableFinite, AddOne
    <3>3. Cardinality(PendingFrom(t, ip)) <= Cardinality(PendingFrom(sessions, ip) \cup {p})
      BY <3>1, <3>2, FS_Subset
    <3>4. Cardinality(PendingFrom(sessions, ip)) < MaxPendingPerIp
      BY <2>1 DEF AdmitPeer, Admissible
    <3>5. Cardinality(PendingFrom(t, ip)) \in Nat
      BY TableFinite
    <3> QED
      BY <3>2, <3>3, <3>4, <3>5, LimitsAssumption
  <2>2. CASE ip # IpOf[p]
    <3>1. PendingFrom(t, ip) \subseteq PendingFrom(sessions, ip)
      BY <1>4, <2>2 DEF PendingFrom
    <3>2. Cardinality(PendingFrom(t, ip)) <= Cardinality(PendingFrom(sessions, ip))
      BY <3>1, TableFinite, FS_Subset
    <3>3. Cardinality(PendingFrom(sessions, ip)) <= MaxPendingPerIp
      BY DEF TableInv, Bounded
    <3>4. /\ Cardinality(PendingFrom(t, ip)) \in Nat
          /\ Cardinality(PendingFrom(sessions, ip)) \in Nat
      BY TableFinite
    <3> QED
      BY <3>2, <3>3, <3>4, LimitsAssumption
  <2> QED
    BY <2>1, <2>2
<1>10. Cardinality(Live(t)) < MaxClients + MaxPendingHandshakes
  <2>1. Cardinality(Live(t)) = Cardinality(Established(sessions)) + Cardinality(Pending(t))
                                 - Cardinality(Established(sessions) \cap Pending(t))
    BY <1>4, TableFinite, FS_Union
  <2>2. Cardinality(Established(sessions) \cap Pending(t)) \in Nat
    BY TableFinite, FS_Intersection, FS_CardinalityType
  <2>3. Cardinality(Established(sessions)) < MaxClients
    BY DEF AdmitPeer, Admissible
  <2> QED
    BY <1>8, <2>1, <2>2, <2>3, TableFinite, LimitsAssumption
<1>11. p \in Pending(t) /\ Cardinality(AddressesOf(t)) <= MaxClients /\ Bounded(t)
  BY <1>4, <1>7, <1>8, <1>9, <1>10 DEF TableInv, Bounded
<1> QED
  BY <1>6, <1>11 DEF t
-----------------------------------------------------------------------------
(* Theorems *)

(* The server starts with an empty table. *)
LEMMA InitInv == Init => TableInv
<1> SUFFICES ASSUME Init PROVE TableInv
  OBVIOUS
<1>1. /\ Live(sessions) = {} /\ Pending(sessions) = {}
      /\ Established(sessions) = {} /\ Authenticated(sessions) = {}
  BY DEF Init, Live, Pending, Established, Authenticated, NoSession, Fresh
<1>2. AddressesOf(sessions) = {} /\ \A ip : PendingFrom(sessions, ip) = {}
  BY <1>1 DEF AddressesOf, PendingFrom
<1>3. Cardinality({}) = 0
  BY FS_EmptySet
<1>4. Unique(sessions)
  BY <1>1 DEF Unique
<1>5. Bounded(sessions)
  BY <1>1, <1>2, <1>3, LimitsAssumption DEF Bounded
<1> QED
  BY <1>2, <1>3, <1>4, <1>5, LimitsAssumption DEF TableInv

(* Every step of every thread keeps the invariant. *)
LEMMA NextInv == TypeOK /\ TableInv /\ [Next]_vars => TableInv'
<1> SUFFICES ASSUME TypeOK, TableInv, [Next]_vars PROVE TableInv'
  OBVIOUS
<1>1. ASSUME NEW gone, sessions' = Without(sessions, gone), Settled' => Settled
      PROVE  TableInv'
  BY <1>1, WithoutShrinks, ShrinkInv DEF TypeOK
<1>2. ASSUME UNCHANGED sessions, Settled' => Settled
      PROVE  TableInv'
  <2>1. Shrinks(sessions, sessions')
    BY <1>2 DEF Shrinks, TypeOK
  <2> QED
    BY <1>2, <2>1, ShrinkInv
<1>3. ASSUME NEW tried, NEW accepted, Drain(tried, accepted)
      PROVE  TableInv'
  <2>1. ~Settled'
    BY <1>3 DEF Drain, Settled, TypeOK
  <2> QED
    BY <1>3, <2>1, ReadInv DEF Drain
<1>4. ASSUME NEW gone, Dedupe(gone)
      PROVE  TableInv'
  BY <1>4, DedupeInv
<1>5. CASE Adopt
  <2>1. Settled
    BY <1>5 DEF Adopt, At, Settled
  <2> QED
    BY <1>2, <1>5, <2>1 DEF Adopt
<1>6. ASSUME NEW i \in BOOLEAN, ReceiveEmpty(i)
      PROVE  TableInv'
  <2>1. Settled
    BY <1>6 DEF ReceiveEmpty, At, Settled
  <2> QED
    BY <1>2, <1>6, <2>1 DEF ReceiveEmpty
<1>7. CASE Wake
  <2>1. Settled
    BY <1>7 DEF Wake, At, Settled
  <2> QED
    BY <1>2, <1>7, <2>1 DEF Wake
<1>8. ASSUME NEW p \in Peers, KnownPeer(p)
      PROVE  TableInv'
  <2>1. Settled
    BY <1>8 DEF KnownPeer, At, Settled
  <2>2. CASE p \in Pending(sessions)
    <3>1. Handshake(sessions, p)
      BY <1>8, <2>2 DEF KnownPeer
    <3> QED
      BY <2>1, <2>2, <3>1, HandshakeInv DEF TypeOK, TableInv
  <2>3. CASE p \notin Pending(sessions)
    BY <1>2, <1>8, <2>1, <2>3 DEF KnownPeer
  <2> QED
    BY <2>2, <2>3
<1>9. ASSUME NEW p \in Peers, RefusePeer(p)
      PROVE  TableInv'
  <2>1. Settled
    BY <1>9 DEF RefusePeer, At, Settled
  <2> QED
    BY <1>2, <1>9, <2>1 DEF RefusePeer
<1>10. ASSUME NEW p \in Peers, BanPeer(p)
       PROVE  TableInv'
  <2>1. Settled
    BY <1>10 DEF BanPeer, At, Settled
  <2> QED
    BY <1>1, <1>10, <2>1 DEF BanPeer
<1>11. ASSUME NEW p \in Peers, NEW evicted \in SUBSET Peers, AdmitPeer(p, evicted)
       PROVE  TableInv'
  <2> DEFINE t == [q \in Peers |-> IF q = p THEN Fresh("pending") ELSE Without(sessions, evicted)[q]]
  <2>1. t \in [Peers -> Session]
    BY AdmittedType DEF TypeOK
  <2>2. /\ p \in Pending(t) /\ Unique(t)
        /\ Cardinality(AddressesOf(t)) <= MaxClients /\ Bounded(t)
    BY <1>11, AdmittedInv
  <2>3. Handshake(t, p)
    BY <1>11 DEF AdmitPeer, Admissible
  <2> HIDE DEF t
  <2> QED
    BY <2>1, <2>2, <2>3, HandshakeInv
<1>12. CASE DatagramArrives
  BY <1>2, <1>12 DEF DatagramArrives, Settled, TypeOK
<1>stop. Stop => ~Settled'
  BY DEF Stop, Goto, Settled, TypeOK
<1>13. CASE DecryptStops
  BY <1>2, <1>13, <1>stop DEF DecryptStops
<1>tun. ASSUME NEW tried, NEW accepted, TunWriteFails(tried, accepted)
       PROVE  TableInv'
  BY <1>stop, <1>tun, ReadInv DEF TunWriteFails
<1>acceptor. ASSUME NEW p, NEW evicted, AcceptorFails(p, evicted)
       PROVE  TableInv'
  BY <1>1, <1>stop, <1>acceptor DEF AcceptorFails
<1>14. ASSUME NEW gone, UdpWriteError(gone)
       PROVE  TableInv'
  BY <1>1, <1>14 DEF UdpWriteError, Settled
<1>15. ASSUME NEW kicked, NEW failed, NEW expired, NEW reload, Tick(kicked, failed, expired, reload)
       PROVE  TableInv'
  BY <1>1, <1>15 DEF Tick, Settled
<1>16. CASE NoReload \/ ParseConfig \/ RejectConfig \/ SendReload \/ ReloadAcked
             \/ ReloadTimeout \/ ControlStops
  BY <1>2, <1>16 DEF NoReload, ParseConfig, RejectConfig, SendReload, ReloadAcked,
                     ReloadTimeout, ControlStops, Settled
<1>17. CASE FilterSessions
  BY <1>1, <1>17 DEF FilterSessions, Settled
<1>18. CASE NotifyDecrypt
  BY <1>2, <1>18 DEF NotifyDecrypt, Settled, TypeOK
<1>19. ASSUME NEW c, EditConfig(c)
       PROVE  TableInv'
  BY <1>2, <1>19 DEF EditConfig, Settled
<1>20. CASE UNCHANGED vars
  BY <1>2, <1>20 DEF vars, Settled
<1>21. CASE DecryptNext
  BY <1>3, <1>4, <1>5, <1>6, <1>7, <1>8, <1>9, <1>10, <1>11, <1>21 DEF DecryptNext
<1>22. CASE ControlNext
  BY <1>15, <1>16, <1>17, <1>18, <1>22 DEF ControlNext, ReloadNext
<1> QED
  BY <1>12, <1>13, <1>14, <1>16, <1>19, <1>20, <1>21, <1>22, <1>tun, <1>acceptor DEF Next

(* The invariant holds in every state of every execution. *)
LEMMA TableInvariant == Spec => []TableInv
<1> QED
  BY TypeCorrect, InitInv, NextInv, PTL DEF Spec

(* While the decrypt worker is not between the section that accepts a login  *)
(* and the one that removes duplicates, each VPN address has at most one     *)
(* authenticated session, whatever control and UDP write remove meanwhile.   *)
THEOREM OneActive == Spec => []AtMostOneActive
<1>1. TableInv => AtMostOneActive
  BY DEF TableInv, Unique, AtMostOneActive
<1> QED
  BY <1>1, TableInvariant, PTL

(* The VPN addresses in use never outnumber max_clients. *)
THEOREM AddressLimit == Spec => []AddressesWithinLimit
<1>1. TableInv => AddressesWithinLimit
  BY DEF TableInv, AddressesWithinLimit
<1> QED
  BY <1>1, TableInvariant, PTL

(* The admission checks of the decrypt worker bound the whole table. *)
THEOREM TableLimit == Spec => []TableBounded
<1>1. TableInv => TableBounded
  BY DEF TableInv, Bounded, TableBounded
<1> QED
  BY <1>1, TableInvariant, PTL

(* Authenticated sessions respect max_clients: they have distinct addresses  *)
(* and the addresses do.                                                     *)
THEOREM AuthenticatedLimit == Spec => []AuthenticatedWithinLimit
<1>1. TableInv => AuthenticatedWithinLimit
  <2> SUFFICES ASSUME TableInv, Settled
               PROVE  Cardinality(Authenticated(sessions)) <= MaxClients
    BY DEF AuthenticatedWithinLimit
  <2> DEFINE f == [p \in Authenticated(sessions) |-> sessions[p].address]
  <2>1. Authenticated(sessions) \subseteq Established(sessions)
    BY DEF Authenticated, Established
  <2>2. f \in [Authenticated(sessions) -> AddressesOf(sessions)]
    BY <2>1 DEF AddressesOf
  <2>3. \A p, q \in Authenticated(sessions) : f[p] = f[q] => p = q
    BY DEF TableInv, Unique
  <2>4. f \in Injection(Authenticated(sessions), AddressesOf(sessions))
    BY <2>2, <2>3 DEF Injection, IsInjective
  <2> HIDE DEF f
  <2>5. Cardinality(Authenticated(sessions)) <= Cardinality(AddressesOf(sessions))
    BY <2>4, AddressesFinite, FS_Injection
  <2>6. Cardinality(Authenticated(sessions)) \in Nat /\ Cardinality(AddressesOf(sessions)) \in Nat
    BY TableFinite, AddressesFinite
  <2> QED
    BY <2>5, <2>6, LimitsAssumption DEF TableInv
<1> QED
  BY <1>1, TableInvariant, PTL

(* Both limits of max_clients at once. *)
THEOREM ClientLimit == Spec => []ClientsWithinLimit
<1>1. AddressesWithinLimit /\ AuthenticatedWithinLimit => ClientsWithinLimit
  BY DEF ClientsWithinLimit
<1> QED
  BY <1>1, AddressLimit, AuthenticatedLimit, PTL

-----------------------------------------------------------------------------
(* The hand-over of a reloaded configuration from the control thread to the   *)
(* decrypt worker, for any number of updates in the channel                   *)

(* An update that will be acknowledged is the last of the channel and is the *)
(* one control waits for.                                                    *)
AckedUpdateIsLast ==
  \A i \in 1..Len(reloads) : reloads[i].ack =>
    /\ control.pc \in {"notify", "await"} /\ control.requested
    /\ i = Len(reloads)
    /\ reloads[i].config = control.new

(* After the acknowledgement nothing is left in the channel, and the decrypt *)
(* worker has the configuration control waits for.                           *)
AckedUpdateIsAdopted ==
  control.acked =>
    /\ control.pc \in {"notify", "await"} /\ control.requested
    /\ reloads = <<>>
    /\ decrypt.bindings = control.new.bindings
    /\ decrypt.logins = control.new.logins

AckInv == AckedUpdateIsLast /\ AckedUpdateIsAdopted

(* An update the decrypt worker has not seen in this round will wake it. *)
WakeInv ==
  decrypt.pc \in {"receive", "wait"} /\ reloads # <<>> =>
    decrypt.changed \/ ControlAt("notify")

(* Neither thread has anything to hand over at the start. *)
LEMMA InitReload == Init => AckInv /\ WakeInv
  BY DEF Init, AckInv, AckedUpdateIsLast, AckedUpdateIsAdopted, WakeInv

(* A step that changes neither the channel nor what the acknowledgement is   *)
(* about keeps the invariant.                                                *)
LEMMA SameAck ==
  ASSUME AckInv, UNCHANGED reloads, control'.acked = control.acked,
         control'.new = control.new,
         control.pc \in {"notify", "await"} /\ control.requested =>
           control'.pc \in {"notify", "await"} /\ control'.requested,
         decrypt'.bindings = decrypt.bindings, decrypt'.logins = decrypt.logins
  PROVE  AckInv'
  BY DEF AckInv, AckedUpdateIsLast, AckedUpdateIsAdopted

(* Every step keeps the acknowledgement honest: the interesting ones are the *)
(* decrypt worker emptying the channel, control sending, and the timeout.    *)
LEMMA NextAck == TypeOK /\ AckInv /\ [Next]_vars => AckInv'
<1> SUFFICES ASSUME TypeOK, AckInv, [Next]_vars PROVE AckInv'
  OBVIOUS
<1>1. ASSUME NEW tried, NEW accepted, Drain(tried, accepted) PROVE AckInv'
  BY <1>1, SameAck DEF Drain, TypeOK
<1>2. ASSUME NEW gone, Dedupe(gone) PROVE AckInv'
  BY <1>2, SameAck DEF Dedupe, Goto, TypeOK
<1>3. CASE Adopt
  <2>1. CASE reloads = <<>>
    <3>1. /\ control'.acked = control.acked /\ control'.new = control.new
          /\ control'.pc = control.pc /\ control'.requested = control.requested
          /\ decrypt'.bindings = decrypt.bindings /\ decrypt'.logins = decrypt.logins
          /\ reloads' = reloads
      BY <1>3, <2>1 DEF Adopt, TypeOK
    <3> QED
      BY <3>1, SameAck
  <2>2. CASE reloads # <<>>
    <3>1. ~control.acked
      BY <2>2 DEF AckInv, AckedUpdateIsAdopted
    <3>2. /\ reloads' = <<>>
          /\ control'.pc = control.pc /\ control'.new = control.new
          /\ control'.requested = control.requested
          /\ control'.acked = (control.acked \/ \E i \in 1..Len(reloads) : reloads[i].ack)
          /\ decrypt'.bindings = reloads[Len(reloads)].config.bindings
          /\ decrypt'.logins = reloads[Len(reloads)].config.logins
      BY <1>3, <2>2 DEF Adopt, TypeOK
    <3>3. AckedUpdateIsLast'
      BY <3>2 DEF AckedUpdateIsLast
    <3>4. ASSUME control'.acked PROVE AckedUpdateIsAdopted'
      <4>1. PICK i \in 1..Len(reloads) : reloads[i].ack
        BY <3>1, <3>2, <3>4
      <4>2. /\ control.pc \in {"notify", "await"} /\ control.requested
            /\ reloads[Len(reloads)].config = control.new
        BY <4>1 DEF AckInv, AckedUpdateIsLast
      <4> QED
        BY <3>2, <4>2 DEF AckedUpdateIsAdopted
    <3> QED
      BY <3>3, <3>4 DEF AckInv, AckedUpdateIsAdopted
  <2> QED
    BY <2>1, <2>2
<1>4. ASSUME NEW i \in BOOLEAN, ReceiveEmpty(i) PROVE AckInv'
  BY <1>4, SameAck DEF ReceiveEmpty, Goto, TypeOK
<1>5. CASE Wake
  BY <1>5, SameAck DEF Wake, Goto, TypeOK
<1>6. ASSUME NEW p \in Peers, KnownPeer(p) \/ RefusePeer(p) \/ BanPeer(p) PROVE AckInv'
  BY <1>6, SameAck DEF KnownPeer, RefusePeer, BanPeer, Goto, TypeOK
<1>7. ASSUME NEW p \in Peers, NEW evicted \in SUBSET Peers, AdmitPeer(p, evicted) PROVE AckInv'
  BY <1>7, SameAck DEF AdmitPeer, Goto, TypeOK
<1>8. CASE DatagramArrives
  BY <1>8, SameAck DEF DatagramArrives, TypeOK
<1>9. ASSUME Stop, UNCHANGED control PROVE AckInv'
  BY <1>9 DEF Stop, Goto, TypeOK, AckInv, AckedUpdateIsLast, AckedUpdateIsAdopted
<1>stops. ASSUME \/ DecryptStops
              \/ \E tried, accepted : TunWriteFails(tried, accepted)
              \/ \E p, evicted : AcceptorFails(p, evicted)
       PROVE  AckInv'
  BY <1>9, <1>stops DEF DecryptStops, TunWriteFails, AcceptorFails
<1>10. ASSUME NEW gone, UdpWriteError(gone) PROVE AckInv'
  BY <1>10, SameAck DEF UdpWriteError
<1>11. ASSUME NEW kicked, NEW failed, NEW expired, NEW reload, Tick(kicked, failed, expired, reload)
       PROVE  AckInv'
  BY <1>11, SameAck DEF Tick, ControlAt, TypeOK
<1>12. CASE NoReload \/ RejectConfig \/ FilterSessions \/ ControlStops
  BY <1>12, SameAck DEF NoReload, RejectConfig, FilterSessions, ControlStops, ControlAt, TypeOK
<1>13. CASE ParseConfig
  BY <1>13 DEF ParseConfig, ControlAt, TypeOK, AckInv, AckedUpdateIsLast, AckedUpdateIsAdopted
<1>14. CASE SendReload
  <2>1. /\ control.pc = "send" /\ ~control.acked
        /\ \A i \in 1..Len(reloads) : ~reloads[i].ack
    BY <1>14 DEF SendReload, ControlAt, AckInv, AckedUpdateIsLast, AckedUpdateIsAdopted
  <2>2. CASE At("stopped")
    BY <1>14, <2>1, <2>2, SameAck DEF SendReload, TypeOK
  <2>3. CASE ~At("stopped")
    <3>1. /\ control'.pc = "notify" /\ control'.new = control.new /\ ~control'.acked
          /\ control'.requested = control.requested
          /\ reloads' = Append(reloads, [config |-> control.new, ack |-> control.requested])
      BY <1>14, <2>1, <2>3 DEF SendReload, TypeOK
    <3>2. /\ Len(reloads') = Len(reloads) + 1
          /\ \A i \in 1..Len(reloads) : reloads'[i] = reloads[i]
          /\ reloads'[Len(reloads) + 1].config = control.new
          /\ reloads'[Len(reloads) + 1].ack = control.requested
      BY <3>1 DEF TypeOK, Update
    <3>3. ASSUME NEW i \in 1..Len(reloads'), reloads'[i].ack
          PROVE  i = Len(reloads')
      BY <2>1, <3>2, <3>3 DEF TypeOK
    <3> QED
      BY <3>1, <3>2, <3>3 DEF AckInv, AckedUpdateIsLast, AckedUpdateIsAdopted
  <2> QED
    BY <2>2, <2>3
<1>15. CASE NotifyDecrypt
  BY <1>15, SameAck DEF NotifyDecrypt, ControlAt, TypeOK
<1>16. CASE ReloadAcked
  <2>1. reloads = <<>>
    BY <1>16 DEF ReloadAcked, AckInv, AckedUpdateIsAdopted
  <2> QED
    BY <1>16, <2>1 DEF ReloadAcked, TypeOK, AckInv, AckedUpdateIsLast, AckedUpdateIsAdopted
<1>17. CASE ReloadTimeout
  <2>1. ~control'.acked
    BY <1>17 DEF ReloadTimeout, TypeOK
  <2>2. reloads' = [i \in 1..Len(reloads) |-> [reloads[i] EXCEPT !.ack = FALSE]]
    BY <1>17 DEF ReloadTimeout
  <2>3. Len(reloads) \in Nat /\ \A i \in 1..Len(reloads) : reloads[i] \in Update
    BY DEF TypeOK
  <2>4. Len(reloads') = Len(reloads)
    BY <2>2, <2>3
  <2>5. \A i \in 1..Len(reloads') : ~reloads'[i].ack
    BY <2>2, <2>3, <2>4 DEF Update
  <2> QED
    BY <2>1, <2>5 DEF AckInv, AckedUpdateIsLast, AckedUpdateIsAdopted
<1>18. ASSUME NEW c, EditConfig(c) PROVE AckInv'
  BY <1>18, SameAck DEF EditConfig
<1>19. CASE UNCHANGED vars
  BY <1>19, SameAck DEF vars
<1>20. CASE DecryptNext
  BY <1>1, <1>2, <1>3, <1>4, <1>5, <1>6, <1>7, <1>20 DEF DecryptNext
<1>21. CASE ControlNext
  BY <1>11, <1>12, <1>13, <1>14, <1>15, <1>16, <1>17, <1>21 DEF ControlNext, ReloadNext
<1> QED
  BY <1>8, <1>10, <1>12, <1>18, <1>19, <1>20, <1>21, <1>stops DEF Next

(* Every step keeps the wake-up: only the decrypt worker's own reading of    *)
(* the generation forgets a change, and it looks into the channel after it.  *)
LEMMA NextWake == TypeOK /\ WakeInv /\ [Next]_vars => WakeInv'
<1> SUFFICES ASSUME TypeOK, WakeInv, [Next]_vars PROVE WakeInv'
  OBVIOUS
<1>1. ASSUME NEW tried, NEW accepted, Drain(tried, accepted) PROVE WakeInv'
  BY <1>1 DEF Drain, TypeOK, WakeInv
<1>2. ASSUME NEW gone, Dedupe(gone) PROVE WakeInv'
  BY <1>2 DEF Dedupe, Goto, TypeOK, WakeInv
<1>3. CASE Adopt
  BY <1>3 DEF Adopt, WakeInv
<1>4. ASSUME NEW i \in BOOLEAN, ReceiveEmpty(i) PROVE WakeInv'
  BY <1>4 DEF ReceiveEmpty, At, Goto, TypeOK, WakeInv, ControlAt
<1>5. CASE Wake
  BY <1>5 DEF Wake, Goto, TypeOK, WakeInv
<1>6. ASSUME NEW p \in Peers, KnownPeer(p) \/ RefusePeer(p) \/ BanPeer(p) PROVE WakeInv'
  BY <1>6 DEF KnownPeer, RefusePeer, BanPeer, Goto, TypeOK, WakeInv
<1>7. ASSUME NEW p \in Peers, NEW evicted \in SUBSET Peers, AdmitPeer(p, evicted) PROVE WakeInv'
  BY <1>7 DEF AdmitPeer, Goto, TypeOK, WakeInv
<1>8. CASE DatagramArrives
  BY <1>8 DEF DatagramArrives, TypeOK, WakeInv
<1>9. ASSUME \/ DecryptStops
             \/ \E tried, accepted : TunWriteFails(tried, accepted)
             \/ \E p, evicted : AcceptorFails(p, evicted)
      PROVE  WakeInv'
  BY <1>9 DEF DecryptStops, TunWriteFails, AcceptorFails, Stop, WakeInv
<1>10. ASSUME NEW gone, UdpWriteError(gone) PROVE WakeInv'
  BY <1>10 DEF UdpWriteError, WakeInv, ControlAt
<1>11. ASSUME NEW kicked, NEW failed, NEW expired, NEW reload, Tick(kicked, failed, expired, reload)
       PROVE  WakeInv'
  BY <1>11 DEF Tick, ControlAt, TypeOK, WakeInv
<1>12. CASE NoReload \/ RejectConfig \/ ParseConfig \/ FilterSessions \/ ControlStops \/ ReloadAcked
  BY <1>12 DEF NoReload, RejectConfig, ParseConfig, FilterSessions, ControlStops, ReloadAcked,
               ControlAt, TypeOK, WakeInv
<1>13. CASE SendReload
  BY <1>13 DEF SendReload, At, ControlAt, TypeOK, WakeInv
<1>14. CASE NotifyDecrypt
  BY <1>14 DEF NotifyDecrypt, TypeOK, WakeInv
<1>15. CASE ReloadTimeout
  <2>1. reloads = <<>> => reloads' = <<>>
    BY <1>15 DEF ReloadTimeout
  <2> QED
    BY <1>15, <2>1 DEF ReloadTimeout, ControlAt, TypeOK, WakeInv
<1>16. ASSUME NEW c, EditConfig(c) PROVE WakeInv'
  BY <1>16 DEF EditConfig, WakeInv, ControlAt
<1>17. CASE UNCHANGED vars
  BY <1>17 DEF vars, WakeInv, ControlAt
<1>18. CASE DecryptNext
  BY <1>1, <1>2, <1>3, <1>4, <1>5, <1>6, <1>7, <1>18 DEF DecryptNext
<1>19. CASE ControlNext
  BY <1>11, <1>12, <1>13, <1>14, <1>15, <1>19 DEF ControlNext, ReloadNext
<1> QED
  BY <1>8, <1>9, <1>10, <1>12, <1>16, <1>17, <1>18, <1>19 DEF Next

(* A RELOAD that is answered with success has been adopted: no update of an  *)
(* earlier, timed-out reload can take its place or its acknowledgement.      *)
THEOREM ReloadAcknowledged == Spec => []AckMeansAdopted
<1>1. AckInv => AckMeansAdopted
  BY DEF AckInv, AckedUpdateIsAdopted, AckMeansAdopted
<1> QED
  BY <1>1, TypeCorrect, InitReload, NextAck, PTL DEF Spec

(* No wake-up is lost: the decrypt worker never sleeps over an update. *)
THEOREM ReloadWakes == Spec => []NoSleepOverReload
<1>1. WakeInv => NoSleepOverReload
  BY DEF WakeInv, NoSleepOverReload, At
<1> QED
  BY <1>1, TypeCorrect, InitReload, NextWake, PTL DEF Spec

(* How far the decrypt worker is from the place where it reads the channel. *)
StepsToAdopt(pc) ==
  CASE pc = "adopt"   -> 0
    [] pc = "dedupe"  -> 1
    [] pc = "drain"   -> 2
    [] pc = "wait"    -> 3
    [] pc = "receive" -> 4

(* An ended decrypt worker has dropped the channel. *)
EndedIsEmpty == At("stopped") => reloads = <<>>

(* While an update waits, every step the decrypt worker takes in its loop     *)
(* brings it nearer to reading the channel: datagrams, logins and removals by *)
(* other threads never lead it round past it, and only reading the channel,   *)
(* or its end, empties it.                                                    *)
UpdateComesNearer ==
  [][reloads # <<>> =>
       /\ decrypt.pc # "stopped"
       /\ reloads' # <<>> /\ decrypt'.pc # decrypt.pc =>
            StepsToAdopt(decrypt'.pc) < StepsToAdopt(decrypt.pc)
       /\ reloads' = <<>> => decrypt.pc = "adopt" \/ decrypt'.pc = "stopped"]_vars

LEMMA NextEnded == TypeOK /\ EndedIsEmpty /\ [Next]_vars => EndedIsEmpty'
<1> SUFFICES ASSUME TypeOK, EndedIsEmpty, [Next]_vars PROVE EndedIsEmpty'
  OBVIOUS
<1> USE DEF EndedIsEmpty, At
<1>1. CASE DecryptNext
  <2>1. decrypt'.pc # "stopped" \/ UNCHANGED <<decrypt, reloads>>
    BY <1>1 DEF DecryptNext, Drain, Dedupe, Adopt, ReceiveEmpty, Wake, KnownPeer, RefusePeer, BanPeer,
                AdmitPeer, Goto, TypeOK
  <2> QED
    BY <2>1
<1>2. CASE \/ DecryptStops
           \/ \E tried \in SUBSET Peers : \E accepted \in SUBSET tried : TunWriteFails(tried, accepted)
           \/ \E p \in Peers : \E evicted \in SUBSET Peers : AcceptorFails(p, evicted)
  BY <1>2 DEF DecryptStops, TunWriteFails, AcceptorFails, Stop
<1>3. CASE DatagramArrives
  BY <1>3 DEF DatagramArrives, TypeOK
<1>4. CASE SendReload
  BY <1>4 DEF SendReload
<1>5. CASE NotifyDecrypt
  BY <1>5 DEF NotifyDecrypt, TypeOK
<1>6. CASE ReloadTimeout
  BY <1>6 DEF ReloadTimeout
<1>7. CASE \/ \E kicked \in SUBSET Addresses, failed, expired \in SUBSET Peers, reload \in BOOLEAN :
                Tick(kicked, failed, expired, reload)
           \/ NoReload \/ ParseConfig \/ RejectConfig \/ FilterSessions \/ ReloadAcked
           \/ \E gone \in SUBSET Peers : UdpWriteError(gone)
           \/ ControlStops
           \/ \E c \in Configs : EditConfig(c)
           \/ UNCHANGED vars
  BY <1>7 DEF Tick, NoReload, ParseConfig, RejectConfig, FilterSessions, ReloadAcked, UdpWriteError,
              ControlStops, EditConfig, vars
<1> QED
  BY <1>1, <1>2, <1>3, <1>4, <1>5, <1>6, <1>7 DEF Next, ControlNext, ReloadNext

LEMMA NextNearer ==
  ASSUME TypeOK, EndedIsEmpty, [Next]_vars, reloads # <<>>
  PROVE  /\ decrypt.pc # "stopped"
         /\ reloads' # <<>> /\ decrypt'.pc # decrypt.pc =>
              StepsToAdopt(decrypt'.pc) < StepsToAdopt(decrypt.pc)
         /\ reloads' = <<>> => decrypt.pc = "adopt" \/ decrypt'.pc = "stopped"
<1>0. decrypt.pc # "stopped"
  BY DEF EndedIsEmpty, At
<1>1. CASE DecryptNext
  <2>1. CASE Adopt
    BY <1>0, <2>1 DEF Adopt, At
  <2>2. CASE ~Adopt
    <3>1. <<decrypt.pc, decrypt'.pc>> \in {<<"drain", "dedupe">>, <<"dedupe", "adopt">>,
            <<"receive", "drain">>, <<"receive", "wait">>, <<"wait", "drain">>}
      BY <1>1, <2>2 DEF DecryptNext, Drain, ReadRecords, Dedupe, ReceiveEmpty, Wake, KnownPeer, RefusePeer,
                        BanPeer, AdmitPeer, Admissible, Goto, At, TypeOK
    <3>2. reloads' = reloads
      BY <1>1, <2>2 DEF DecryptNext, Drain, Dedupe, ReceiveEmpty, Wake, KnownPeer, RefusePeer, BanPeer, AdmitPeer
    <3>3. StepsToAdopt(decrypt'.pc) < StepsToAdopt(decrypt.pc)
      BY <3>1 DEF StepsToAdopt
    <3> QED
      BY <1>0, <3>2, <3>3
  <2> QED
    BY <2>1, <2>2
<1>2. CASE \/ DecryptStops
           \/ \E tried \in SUBSET Peers : \E accepted \in SUBSET tried : TunWriteFails(tried, accepted)
           \/ \E p \in Peers : \E evicted \in SUBSET Peers : AcceptorFails(p, evicted)
  <2>1. Stop
    BY <1>2 DEF DecryptStops, TunWriteFails, AcceptorFails
  <2> QED
    BY <1>0, <2>1 DEF Stop, Goto, TypeOK
<1>3. CASE DatagramArrives \/ NotifyDecrypt
  BY <1>0, <1>3 DEF DatagramArrives, NotifyDecrypt, TypeOK
<1>4. CASE SendReload
  <2>1. reloads' # <<>>
    BY <1>0, <1>4, AppendProperties DEF SendReload, At, TypeOK
  <2> QED
    BY <1>0, <1>4, <2>1 DEF SendReload
<1>5. CASE ReloadTimeout
  <2>1. Len(reloads) \in Nat /\ Len(reloads) # 0
    BY DEF TypeOK
  <2>2. DOMAIN reloads' = 1..Len(reloads) /\ 1 \in 1..Len(reloads)
    BY <1>5, <2>1 DEF ReloadTimeout
  <2>3. reloads' # <<>>
    BY <2>2
  <2> QED
    BY <1>0, <1>5, <2>3 DEF ReloadTimeout
<1>6. CASE \/ \E kicked \in SUBSET Addresses, failed, expired \in SUBSET Peers, reload \in BOOLEAN :
                Tick(kicked, failed, expired, reload)
           \/ NoReload \/ ParseConfig \/ RejectConfig \/ FilterSessions \/ ReloadAcked
           \/ \E gone \in SUBSET Peers : UdpWriteError(gone)
           \/ ControlStops
           \/ \E c \in Configs : EditConfig(c)
           \/ UNCHANGED vars
  <2>1. UNCHANGED <<decrypt, reloads>>
    BY <1>6 DEF Tick, NoReload, ParseConfig, RejectConfig, FilterSessions, ReloadAcked, UdpWriteError,
                ControlStops, EditConfig, vars
  <2> QED
    BY <1>0, <2>1
<1> QED
  BY <1>1, <1>2, <1>3, <1>4, <1>5, <1>6 DEF Next, ControlNext, ReloadNext

(* An update is read after at most four steps of the decrypt worker's loop,   *)
(* and with ReloadWakes none of them is a sleep that nobody ends.             *)
THEOREM UpdateBounded == Spec => UpdateComesNearer
<1>1. Init => EndedIsEmpty
  BY DEF Init, EndedIsEmpty
<1>2. Spec => []EndedIsEmpty
  BY <1>1, NextEnded, TypeCorrect, PTL DEF Spec
<1>3. TypeOK /\ EndedIsEmpty /\ [Next]_vars =>
        [reloads # <<>> =>
           /\ decrypt.pc # "stopped"
           /\ reloads' # <<>> /\ decrypt'.pc # decrypt.pc =>
                StepsToAdopt(decrypt'.pc) < StepsToAdopt(decrypt.pc)
           /\ reloads' = <<>> => decrypt.pc = "adopt" \/ decrypt'.pc = "stopped"]_vars
  BY NextNearer
<1> QED
  BY <1>2, <1>3, TypeCorrect, PTL DEF Spec, UpdateComesNearer

-----------------------------------------------------------------------------
(* Sessions the bindings contradict *)

(* Removing sessions adds no stale one. *)
LEMMA ShrinkStale ==
  ASSUME Shrinks(sessions, sessions'), control'.bindings = control.bindings
  PROVE  Stale' \subseteq Stale
<1>1. Established(sessions') \subseteq Established(sessions)
  BY ShrinkSubsets
<1>2. \A q \in Established(sessions') : sessions'[q] = sessions[q]
  BY DEF Established, Shrinks, NoSession, Fresh
<1> QED
  BY <1>1, <1>2 DEF Stale

(* A handshake accepts only the certificate bound to the address. *)
LEMMA HandshakeStale ==
  ASSUME TypeOK, NEW t \in [Peers -> Session], NEW p \in Pending(t), Handshake(t, p),
         Established(t) \subseteq Established(sessions),
         \A q \in Established(t) : t[q] = sessions[q],
         decrypt.bindings = control.bindings, control'.bindings = control.bindings
  PROVE  Stale' \subseteq Stale
<1> SUFFICES ASSUME NEW q \in Established(sessions'),
                    sessions'[q].fingerprint # control.bindings[sessions'[q].address]
             PROVE  q \in Stale
  BY DEF Stale
<1>1. ASSUME sessions'[q] = t[q] \/ sessions'[q] = NoSession
      PROVE  q \in Stale
  <2>1. q \in Established(t) /\ sessions'[q] = t[q]
    BY <1>1 DEF Established, NoSession, Fresh
  <2> QED
    BY <2>1 DEF Stale
<1>2. CASE Shrinks(t, sessions')
  <2>1. q \in Peers
    BY DEF Established
  <2> QED
    BY <1>1, <1>2, <2>1 DEF Shrinks
<1>3. ASSUME NEW a \in Addresses, sessions' = Complete(t, p, a), ~Shrinks(t, sessions')
      PROVE  q \in Stale
  <2>1. CASE q = p
    <3> DEFINE new == [status      |-> IF decrypt.logins[a] # NoLogin
                                       THEN "established" ELSE "authenticated",
                       address     |-> a,
                       fingerprint |-> decrypt.bindings[a],
                       attempted   |-> FALSE]
    <3>1. sessions'[p] = new \/ sessions'[p] = NoSession
      BY <1>3 DEF Complete, Without, Pending
    <3>2. sessions'[p] # NoSession
      BY <2>1 DEF Established, NoSession, Fresh
    <3> QED
      BY <2>1, <3>1, <3>2
  <2>2. CASE q # p
    <3>1. q \in Peers /\ p \in Peers
      BY DEF Established, Pending
    <3>2. sessions'[q] = t[q] \/ sessions'[q] = NoSession
      BY <1>3, <2>2, <3>1 DEF Complete, Without
    <3> QED
      BY <1>1, <3>2
  <2> QED
    BY <2>1, <2>2
<1>4. CASE sessions' = Without(t, {p})
  BY <1>2, <1>4, WithoutShrinks
<1>5. CASE sessions' = t
  BY <1>2, <1>5 DEF Shrinks
<1> QED
  BY <1>2, <1>3, <1>4, <1>5 DEF Handshake

(* A login does not change the certificate of a session. *)
LEMMA ReadStale ==
  ASSUME TypeOK, NEW tried, NEW accepted, ReadRecords(tried, accepted), UNCHANGED control
  PROVE  Stale' \subseteq Stale
<1>1. ASSUME NEW q \in Peers
      PROVE  /\ sessions'[q].address = sessions[q].address
             /\ sessions'[q].fingerprint = sessions[q].fingerprint
             /\ q \in tried => q \in Established(sessions)
             /\ q \notin tried => sessions'[q] = sessions[q]
  <2>1. sessions[q] \in Session
    BY DEF TypeOK
  <2>2. \/ sessions'[q] = sessions[q]
        \/ sessions'[q] = [sessions[q] EXCEPT !.attempted = TRUE, !.status = "authenticated"]
        \/ sessions'[q] = [sessions[q] EXCEPT !.attempted = TRUE, !.status = @]
    BY DEF ReadRecords
  <2>3. sessions'[q].address = sessions[q].address /\ sessions'[q].fingerprint = sessions[q].fingerprint
    BY <2>1, <2>2 DEF Session
  <2> QED
    BY <2>3 DEF ReadRecords
<1>2. Established(sessions') \subseteq Established(sessions)
  BY <1>1 DEF Established
<1> QED
  BY <1>1, <1>2 DEF Stale, Established

(* No step adds a stale session while both threads use the same bindings. *)
LEMMA NextStale ==
  ASSUME TypeOK, [Next]_vars,
         decrypt.bindings = control.bindings, control'.bindings = control.bindings
  PROVE  Stale' \subseteq Stale
<1>1. ASSUME NEW gone, sessions' = Without(sessions, gone) PROVE Stale' \subseteq Stale
  BY <1>1, WithoutShrinks, ShrinkStale DEF TypeOK
<1>2. ASSUME UNCHANGED sessions PROVE Stale' \subseteq Stale
  BY <1>2, ShrinkStale DEF Shrinks
<1>3. ASSUME NEW tried, NEW accepted, Drain(tried, accepted) PROVE Stale' \subseteq Stale
  BY <1>3, ReadStale DEF Drain
<1>4. ASSUME NEW p \in Peers, KnownPeer(p) PROVE Stale' \subseteq Stale
  <2>1. CASE p \in Pending(sessions)
    <3>1. Handshake(sessions, p)
      BY <1>4, <2>1 DEF KnownPeer
    <3> QED
      BY <2>1, <3>1, HandshakeStale DEF TypeOK
  <2>2. CASE p \notin Pending(sessions)
    BY <1>2, <1>4, <2>2 DEF KnownPeer
  <2> QED
    BY <2>1, <2>2
<1>5. ASSUME NEW p \in Peers, NEW evicted \in SUBSET Peers, AdmitPeer(p, evicted)
      PROVE  Stale' \subseteq Stale
  <2> DEFINE t == [q \in Peers |-> IF q = p THEN Fresh("pending") ELSE Without(sessions, evicted)[q]]
  <2>1. t \in [Peers -> Session]
    BY AdmittedType DEF TypeOK
  <2>2. /\ p \in Pending(t)
        /\ \A q \in Peers \ {p} : t[q] = sessions[q] \/ t[q] = NoSession
    BY DEF Pending, Without, Fresh
  <2>3. Handshake(t, p)
    BY <1>5 DEF AdmitPeer
  <2> HIDE DEF t
  <2>4. ASSUME NEW q \in Established(t)
        PROVE  q \in Established(sessions) /\ t[q] = sessions[q]
    BY <2>2 DEF Established, Pending, NoSession, Fresh
  <2> QED
    BY <2>1, <2>2, <2>3, <2>4, HandshakeStale
<1>6. ASSUME NEW p \in Peers, RefusePeer(p) \/ BanPeer(p) PROVE Stale' \subseteq Stale
  BY <1>1, <1>2, <1>6 DEF RefusePeer, BanPeer
<1>7. CASE DecryptNext
  BY <1>1, <1>2, <1>3, <1>4, <1>5, <1>6, <1>7
     DEF DecryptNext, Dedupe, Adopt, ReceiveEmpty, Wake
<1>8. CASE ControlNext
  BY <1>1, <1>2, <1>8 DEF ControlNext, ReloadNext, Tick, NoReload, ParseConfig, RejectConfig,
                          FilterSessions, SendReload, NotifyDecrypt, ReloadAcked, ReloadTimeout
<1>9. CASE Next /\ ~DecryptNext /\ ~ControlNext
  <2>1. ASSUME NEW tried, NEW accepted, TunWriteFails(tried, accepted)
        PROVE  Stale' \subseteq Stale
    BY <2>1, ReadStale DEF TunWriteFails
  <2> QED
    BY <1>1, <1>2, <1>9, <2>1 DEF Next, UdpWriteError, DatagramArrives, AcceptorFails, DecryptStops,
                                  ControlStops, EditConfig
<1>10. CASE UNCHANGED vars
  BY <1>2, <1>10 DEF vars
<1> QED
  BY <1>7, <1>8, <1>9, <1>10

(* After both threads agree on the bindings, no session appears that they    *)
(* contradict: what a reload can miss is confined to the handshakes that     *)
(* complete between its filter and the decrypt worker's adoption.            *)
THEOREM NoLateStaleSession == Spec => NoNewStaleSession
<1>1. TypeOK /\ [Next]_vars =>
        [decrypt.bindings = control.bindings /\ control'.bindings = control.bindings
           => Stale' \subseteq Stale]_vars
  BY NextStale
<1> QED
  BY <1>1, TypeCorrect, PTL DEF Spec, NoNewStaleSession
=============================================================================
