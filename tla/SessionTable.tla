---------------------------- MODULE SessionTable ----------------------------
(***************************************************************************)
(* The server's session table and the threads that change it.              *)
(*                                                                         *)
(* `sessions: Arc<Mutex<Vec<Session>>>` is shared by the decrypt worker,   *)
(* the session control thread and the UDP write worker.  Every section     *)
(* between lock and unlock is one action.  A session is found by its peer  *)
(* (same_peer), so the table is a function on peers; the order of the Vec  *)
(* is added by SessionVec.                                                 *)
(*                                                                         *)
(* Left to choice: what wolfSSL answers (cookie, handshake progress,       *)
(* certificate), what the rate limiter answers (see IpRateLimiter), which  *)
(* sessions are past a time limit, what a client sends.  A configuration   *)
(* is what the reload reads from the [client] section: the fingerprint     *)
(* bound to a VPN address and the login required for it.                   *)
(***************************************************************************)
EXTENDS Integers, FiniteSets, Sequences

CONSTANTS
  Peers,           \* UDP source endpoints (IPv4 address and port)
  Ips,             \* their IPv4 addresses
  IpOf,            \* peer_ipv4
  Addresses,       \* VPN addresses a [client] entry can bind
  Fingerprints,    \* certificate fingerprints
  Logins,          \* (id, password) pairs of a [client] entry
  NoAddress,       \* Ipv4Addr::UNSPECIFIED
  NoFingerprint,   \* no binding, or None
  NoLogin,         \* no login required
  Configs,         \* contents the [client] section can have
  MaxClients,              \* max_clients
  MaxPendingHandshakes,    \* max_pending_handshakes
  MaxPendingPerIp,         \* MAX_PENDING_PER_IP
  MaxQueuedReloads         \* bound on updates not yet read by the decrypt worker

ASSUME PeersAssumption ==
  /\ IsFiniteSet(Peers)
  /\ IpOf \in [Peers -> Ips]

ASSUME LimitsAssumption ==
  /\ MaxClients \in Nat \ {0}
  /\ MaxPendingHandshakes \in Nat \ {0}
  /\ MaxPendingPerIp \in Nat \ {0}
  /\ MaxQueuedReloads \in Nat \ {0}

Config == [bindings : [Addresses -> Fingerprints \cup {NoFingerprint}],
           logins   : [Addresses -> Logins \cup {NoLogin}]]

ASSUME ConfigsAssumption ==
  /\ Configs \subseteq Config
  /\ NoAddress \notin Addresses

(* A message of the reload channel; ack: its sender waits for the answer. *)
Update == [config : Configs, ack : BOOLEAN]

VARIABLES
  sessions,   \* the table: what the server keeps for each peer
  config,     \* the [client] section of server.ini on disk
  decrypt,    \* decrypt worker: where it is, bindings, logins, changed
  control,    \* control thread: where it is, bindings, logins, the reload in hand
  reloads     \* reload channel from control to decrypt, oldest first

vars == <<sessions, config, decrypt, control, reloads>>

-----------------------------------------------------------------------------
(* The table *)

Session == [status      : {"absent", "pending", "established", "authenticated"},
            address     : Addresses \cup {NoAddress},
            fingerprint : Fingerprints \cup {NoFingerprint},
            attempted   : BOOLEAN]

Fresh(status) == [status |-> status, address |-> NoAddress,
                  fingerprint |-> NoFingerprint, attempted |-> FALSE]

(* Mutant of NoSession: a removed session stays in the table, marked. *)
Tombstone == Fresh("closed")

NoSession == Fresh("absent")

Live(t)          == {p \in Peers : t[p].status # "absent"}
Pending(t)       == {p \in Peers : t[p].status = "pending"}
Established(t)   == {p \in Peers : t[p].status \in {"established", "authenticated"}}
Authenticated(t) == {p \in Peers : t[p].status = "authenticated"}

PendingFrom(t, ip) == {p \in Pending(t) : IpOf[p] = ip}

Without(t, gone) == [p \in Peers |-> IF p \in gone THEN NoSession ELSE t[p]]

AddressesOf(t) == {t[p].address : p \in Established(t)}

(* Established sessions of address a that a new session of peer p replaces. *)
Others(t, p, a) == {q \in Established(t) \ {p} : t[q].address = a}

-----------------------------------------------------------------------------
(* Decrypt worker.  Its loop is drain, dedupe, adopt, receive; `changed` says *)
(* that the generation of udp_rx_queue moved since the loop read it.          *)

At(pc) == decrypt.pc = pc

Goto(pc) == decrypt' = [decrypt EXCEPT !.pc = pc]

(* The loop ends: its end of the reload channel is dropped, and with it every *)
(* update and acknowledgement in it.                                          *)
Stop ==
  /\ Goto("stopped")
  /\ reloads' = <<>>

(* Read one record of every established session with input.  `tried` are the *)
(* sessions whose first record before authentication was read as a login,    *)
(* `accepted` those whose login matched the one required for their address.  *)
ReadRecords(tried, accepted) ==
  /\ At("drain")
  /\ tried \subseteq {p \in Established(sessions) \ Authenticated(sessions) :
                        ~sessions[p].attempted}
  /\ accepted \subseteq {p \in tried :
                           decrypt.logins[sessions[p].address] # NoLogin}
  /\ sessions' = [p \in Peers |->
       IF p \in tried
       THEN [sessions[p] EXCEPT !.attempted = TRUE,
                                !.status = IF p \in accepted THEN "authenticated" ELSE @]
       ELSE sessions[p]]

Drain(tried, accepted) ==
  /\ ReadRecords(tried, accepted)
  /\ decrypt' = [decrypt EXCEPT !.pc = "dedupe", !.changed = FALSE]
  /\ UNCHANGED <<config, control, reloads>>

(* The packet of an authenticated session cannot be written to the TUN device: *)
(* the loop ends with the logins read before it accepted.                      *)
TunWriteFails(tried, accepted) ==
  /\ Authenticated(sessions) # {}
  /\ ReadRecords(tried, accepted)
  /\ Stop
  /\ UNCHANGED <<config, control>>

(* Keep one authenticated session of each address; `gone` are the others. *)
Dedupe(gone) ==
  /\ At("dedupe")
  /\ gone \subseteq Authenticated(sessions)
  /\ \A p \in Authenticated(sessions) :
       \E q \in Authenticated(sessions) \ gone :
         /\ sessions[q].address = sessions[p].address
         /\ \A r \in Authenticated(sessions) \ gone :
              sessions[r].address = sessions[p].address => r = q
  /\ sessions' = Without(sessions, gone)
  /\ Goto("adopt")
  /\ UNCHANGED <<config, control, reloads>>

(* Take every update out of the reload channel; the last one counts, and an *)
(* update whose sender still waits is acknowledged.                         *)
Adopt ==
  /\ At("adopt")
  /\ decrypt' = [decrypt EXCEPT
       !.pc = "receive",
       !.bindings = IF reloads = <<>> THEN @ ELSE reloads[Len(reloads)].config.bindings,
       !.logins   = IF reloads = <<>> THEN @ ELSE reloads[Len(reloads)].config.logins]
  /\ control' = [control EXCEPT
       !.acked = @ \/ \E i \in 1..Len(reloads) : reloads[i].ack]
  /\ reloads' = <<>>
  /\ UNCHANGED <<sessions, config>>

(* Mutant of ReceiveEmpty: the generation is read just before the wait. *)
ReceiveObservingLate(pending_session_input) ==
  /\ At("receive")
  /\ decrypt' = IF pending_session_input
                THEN [decrypt EXCEPT !.pc = "drain"]
                ELSE [decrypt EXCEPT !.pc = "wait", !.changed = FALSE]
  /\ UNCHANGED <<sessions, config, control, reloads>>

(* No datagram: go round again if a session still has input, else sleep. *)
ReceiveEmpty(pending_session_input) ==
  /\ At("receive")
  /\ Goto(IF pending_session_input THEN "drain" ELSE "wait")
  /\ UNCHANGED <<sessions, config, control, reloads>>

(* wait_for_change returns: the generation is not the observed one. *)
Wake ==
  /\ At("wait")
  /\ decrypt.changed
  /\ Goto("drain")
  /\ UNCHANGED <<sessions, config, control, reloads>>

(* Mutants of Complete: the earlier session stays; the limit is not looked at *)
(* again; the session does not keep its fingerprint.                          *)
Joined(t, p, a, fingerprint) ==
  [t EXCEPT ![p] = [status |-> IF decrypt.logins[a] # NoLogin THEN "established" ELSE "authenticated",
                    address |-> a, fingerprint |-> fingerprint, attempted |-> FALSE]]

CompleteBeside(t, p, a) ==
  IF Cardinality(Established(t)) >= MaxClients /\ Others(t, p, a) = {}
  THEN Without(t, {p})
  ELSE Joined(t, p, a, decrypt.bindings[a])

CompleteUnlimited(t, p, a) ==
  Without(Joined(t, p, a, decrypt.bindings[a]),
          IF decrypt.logins[a] # NoLogin THEN {} ELSE Others(t, p, a))

CompleteUnbound(t, p, a) ==
  IF Cardinality(Established(t)) >= MaxClients /\ Others(t, p, a) = {}
  THEN Without(t, {p})
  ELSE Without(Joined(t, p, a, NoFingerprint),
               IF decrypt.logins[a] # NoLogin THEN {} ELSE Others(t, p, a))

(* The table after the handshake of p completed with the certificate bound *)
(* to address a.                                                           *)
Complete(t, p, a) ==
  LET required == decrypt.logins[a] # NoLogin
      joined   == [t EXCEPT ![p] =
                     [status      |-> IF required THEN "established" ELSE "authenticated",
                      address     |-> a,
                      fingerprint |-> decrypt.bindings[a],
                      attempted   |-> FALSE]]
  IN  IF Cardinality(Established(t)) >= MaxClients /\ Others(t, p, a) = {}
      THEN Without(t, {p})
      ELSE IF required THEN joined ELSE Without(joined, Others(t, p, a))

(* A call of dtls.handshake for p, pending in t: it fails or a check of the  *)
(* certificate does, it needs another flight, or it completes.               *)
Handshake(t, p) ==
  \/ sessions' = Without(t, {p})
  \/ sessions' = t
  \/ \E a \in Addresses :
       /\ decrypt.bindings[a] # NoFingerprint
       /\ sessions' = Complete(t, p, a)

(* A datagram of a peer that has a session. *)
KnownPeer(p) ==
  /\ At("receive")
  /\ p \in Live(sessions)
  /\ IF p \in Pending(sessions) THEN Handshake(sessions, p) ELSE UNCHANGED sessions
  /\ Goto("drain")
  /\ UNCHANGED <<config, control, reloads>>

(* A datagram of an unknown peer that is not answered with a session: its   *)
(* address is banned, the cookie is missing, or a limit is reached.         *)
RefusePeer(p) ==
  /\ At("receive")
  /\ p \notin Live(sessions)
  /\ Goto("drain")
  /\ UNCHANGED <<sessions, config, control, reloads>>

(* The attempt of p gets its address banned (RateLimitDecision::BannedNow). *)
BanPeer(p) ==
  /\ At("receive")
  /\ p \notin Live(sessions)
  /\ sessions' = Without(sessions, PendingFrom(sessions, IpOf[p]))
  /\ Goto("drain")
  /\ UNCHANGED <<config, control, reloads>>

(* Mutant of Admissible: the pending sessions of the address are not counted. *)
AdmissibleCrowded(p, evicted) ==
  /\ At("receive")
  /\ p \notin Live(sessions)
  /\ Cardinality(Established(sessions)) < MaxClients
  /\ IF Cardinality(Pending(sessions)) >= MaxPendingHandshakes
     THEN \E q \in Pending(sessions) : evicted = {q}
     ELSE evicted = {}

(* The cookie of p is valid and no limit is reached; the oldest pending      *)
(* session makes room if it must (`evicted`).                                *)
Admissible(p, evicted) ==
  /\ At("receive")
  /\ p \notin Live(sessions)
  /\ Cardinality(Established(sessions)) < MaxClients
  /\ Cardinality(PendingFrom(sessions, IpOf[p])) < MaxPendingPerIp
  /\ IF Cardinality(Pending(sessions)) >= MaxPendingHandshakes
     THEN \E q \in Pending(sessions) : evicted = {q}
     ELSE evicted = {}

(* p gets a session and the datagram is the first of its handshake. *)
AdmitPeer(p, evicted) ==
  /\ Admissible(p, evicted)
  /\ Handshake([q \in Peers |-> IF q = p THEN Fresh("pending") ELSE Without(sessions, evicted)[q]], p)
  /\ Goto("drain")
  /\ UNCHANGED <<config, control, reloads>>

(* No new stateless acceptor: the loop ends when room was already made. *)
AcceptorFails(p, evicted) ==
  /\ Admissible(p, evicted)
  /\ sessions' = Without(sessions, evicted)
  /\ Stop
  /\ UNCHANGED <<config, control>>

(* A datagram is pushed to udp_rx_queue by the main thread. *)
DatagramArrives ==
  /\ ~decrypt.changed
  /\ decrypt' = [decrypt EXCEPT !.changed = TRUE]
  /\ UNCHANGED <<sessions, config, control, reloads>>

(* The loop ends with the table as it is: shutdown is seen at its head, an    *)
(* error of another worker or the closed queue after the reloads, or the      *)
(* acceptor of a refused datagram cannot be replaced.                         *)
DecryptStops ==
  /\ decrypt.pc \in {"drain", "receive", "wait"}
  /\ Stop
  /\ UNCHANGED <<sessions, config, control>>

-----------------------------------------------------------------------------
(* UDP write worker *)

(* Sessions whose datagram could not be sent are removed. *)
UdpWriteError(gone) ==
  /\ gone # {}
  /\ gone \subseteq Live(sessions)
  /\ sessions' = Without(sessions, gone)
  /\ UNCHANGED <<config, decrypt, control, reloads>>

-----------------------------------------------------------------------------
(* Session control thread *)

ControlAt(pc) == control.pc = pc

(* The first section of the loop: commands, retransmission timers and time   *)
(* limits.  `kicked` are the addresses of DISCONNECT commands, `failed` the  *)
(* pending sessions whose retransmission failed, `expired` those past their  *)
(* idle limit or lifetime, `reload` that a RELOAD command came.              *)
Tick(kicked, failed, expired, reload) ==
  /\ ControlAt("tick")
  /\ failed \subseteq Pending(sessions)
  /\ expired \subseteq Live(sessions)
  /\ sessions' = Without(sessions,
       {p \in Established(sessions) : sessions[p].address \in kicked}
         \cup failed \cup expired)
  /\ control' = [control EXCEPT !.pc = "reload", !.requested = reload]
  /\ UNCHANGED <<config, decrypt, reloads>>

(* Nothing to reload: neither requested nor due. *)
NoReload ==
  /\ ControlAt("reload")
  /\ ~control.requested
  /\ control' = [control EXCEPT !.pc = "tick"]
  /\ UNCHANGED <<sessions, config, decrypt, reloads>>

(* The section is read and valid. *)
ParseConfig ==
  /\ ControlAt("reload")
  /\ control' = [control EXCEPT !.pc = "filter", !.new = config]
  /\ UNCHANGED <<sessions, config, decrypt, reloads>>

(* It is not: the current configuration stays, the command gets a failure. *)
RejectConfig ==
  /\ ControlAt("reload")
  /\ control' = [control EXCEPT !.pc = "tick", !.requested = FALSE]
  /\ UNCHANGED <<sessions, config, decrypt, reloads>>

(* May session s stay under the configuration being loaded? *)
Authorized(s) ==
  /\ s.fingerprint = control.new.bindings[s.address]
  /\ control.logins[s.address] = control.new.logins[s.address]

(* Remove pending sessions and those no longer authorized, then keep the new *)
(* configuration as the control thread's own.                                *)
FilterSessions ==
  /\ ControlAt("filter")
  /\ sessions' = Without(sessions,
       Pending(sessions) \cup {p \in Established(sessions) : ~Authorized(sessions[p])})
  /\ control' = [control EXCEPT !.pc = "send",
                                !.bindings = control.new.bindings,
                                !.logins = control.new.logins]
  /\ UNCHANGED <<config, decrypt, reloads>>

(* Send the update; without a receiver the control thread ends. *)
SendReload ==
  /\ ControlAt("send")
  /\ IF At("stopped")
     THEN /\ control' = [control EXCEPT !.pc = "stopped"]
          /\ UNCHANGED reloads
     ELSE /\ Len(reloads) < MaxQueuedReloads
          /\ reloads' = Append(reloads, [config |-> control.new, ack |-> control.requested])
          /\ control' = [control EXCEPT !.pc = "notify"]
  /\ UNCHANGED <<sessions, config, decrypt>>

(* Mutant of NotifyDecrypt: the generation does not change. *)
NotifyNobody ==
  /\ ControlAt("notify")
  /\ control' = [control EXCEPT !.pc = IF control.requested THEN "await" ELSE "tick"]
  /\ UNCHANGED <<sessions, config, decrypt, reloads>>

(* udp_rx_queue.notify_change *)
NotifyDecrypt ==
  /\ ControlAt("notify")
  /\ decrypt' = [decrypt EXCEPT !.changed = TRUE]
  /\ control' = [control EXCEPT !.pc = IF control.requested THEN "await" ELSE "tick"]
  /\ UNCHANGED <<sessions, config, reloads>>

(* The acknowledgement came within two seconds: RELOAD is answered ok. *)
ReloadAcked ==
  /\ ControlAt("await")
  /\ control.acked
  /\ control' = [control EXCEPT !.pc = "tick", !.requested = FALSE, !.acked = FALSE]
  /\ UNCHANGED <<sessions, config, decrypt, reloads>>

(* Mutant of ReloadTimeout: one acknowledgement channel for all reloads. *)
TimeoutKeepsReceiver ==
  /\ ControlAt("await")
  /\ ~control.acked
  /\ control' = [control EXCEPT !.pc = "tick", !.requested = FALSE]
  /\ UNCHANGED <<sessions, config, decrypt, reloads>>

(* It did not, or its sender is gone: RELOAD is answered reload_failed and the *)
(* receiver dropped, so that a later acknowledgement of this update goes       *)
(* nowhere.                                                                    *)
ReloadTimeout ==
  /\ ControlAt("await")
  /\ ~control.acked
  /\ control' = [control EXCEPT !.pc = "tick", !.requested = FALSE]
  /\ reloads' = [i \in 1..Len(reloads) |-> [reloads[i] EXCEPT !.ack = FALSE]]
  /\ UNCHANGED <<sessions, config, decrypt>>

(* The control socket or poll fails, or the server shuts down. *)
ControlStops ==
  /\ ControlAt("tick")
  /\ control' = [control EXCEPT !.pc = "stopped"]
  /\ UNCHANGED <<sessions, config, decrypt, reloads>>

(* The administrator or the web service rewrites server.ini. *)
EditConfig(c) ==
  /\ config' = c
  /\ UNCHANGED <<sessions, decrypt, control, reloads>>

-----------------------------------------------------------------------------
(* Both threads start with the configuration read by server.rs. *)
Init ==
  /\ config \in Configs
  /\ sessions = [p \in Peers |-> NoSession]
  /\ decrypt = [pc |-> "drain", bindings |-> config.bindings,
                logins |-> config.logins, changed |-> FALSE]
  /\ control = [pc |-> "tick", bindings |-> config.bindings,
                logins |-> config.logins, new |-> config,
                requested |-> FALSE, acked |-> FALSE]
  /\ reloads = <<>>

DecryptNext ==
  \/ \E tried \in SUBSET Peers : \E accepted \in SUBSET tried : Drain(tried, accepted)
  \/ \E gone \in SUBSET Peers : Dedupe(gone)
  \/ Adopt
  \/ \E pending_session_input \in BOOLEAN : ReceiveEmpty(pending_session_input)
  \/ Wake
  \/ \E p \in Peers : KnownPeer(p) \/ RefusePeer(p) \/ BanPeer(p)
  \/ \E p \in Peers : \E evicted \in SUBSET Peers : AdmitPeer(p, evicted)

ReloadNext ==
  \/ NoReload
  \/ ParseConfig
  \/ RejectConfig
  \/ FilterSessions
  \/ SendReload
  \/ NotifyDecrypt
  \/ ReloadAcked
  \/ ReloadTimeout

ControlNext ==
  \/ \E kicked \in SUBSET Addresses, failed, expired \in SUBSET Peers, reload \in BOOLEAN :
       Tick(kicked, failed, expired, reload)
  \/ ReloadNext

Next ==
  \/ DecryptNext
  \/ ControlNext
  \/ \E gone \in SUBSET Peers : UdpWriteError(gone)
  \/ DatagramArrives
  \/ \E tried \in SUBSET Peers : \E accepted \in SUBSET tried : TunWriteFails(tried, accepted)
  \/ \E p \in Peers : \E evicted \in SUBSET Peers : AcceptorFails(p, evicted)
  \/ DecryptStops
  \/ ControlStops
  \/ \E c \in Configs : EditConfig(c)

Spec == Init /\ [][Next]_vars

(* Both threads keep running while they have something to do: Rust threads  *)
(* are scheduled preemptively.  Nothing is assumed of the network, of the   *)
(* administrator, or of which answer wolfSSL gives.                         *)
FairSpec == Spec /\ WF_vars(DecryptNext) /\ WF_vars(ReloadNext)

-----------------------------------------------------------------------------
(* Properties *)

(* Every variable has its type: in particular a session removed by any of   *)
(* the three threads leaves nothing behind in the table.                    *)
TypeOK ==
  /\ sessions \in [Peers -> Session]
  /\ config \in Configs
  /\ decrypt \in [pc : {"drain", "dedupe", "adopt", "receive", "wait", "stopped"},
                  bindings : [Addresses -> Fingerprints \cup {NoFingerprint}],
                  logins   : [Addresses -> Logins \cup {NoLogin}],
                  changed  : BOOLEAN]
  /\ control \in [pc : {"tick", "reload", "filter", "send", "notify", "await", "stopped"},
                  bindings : [Addresses -> Fingerprints \cup {NoFingerprint}],
                  logins   : [Addresses -> Logins \cup {NoLogin}],
                  new : Configs,
                  requested : BOOLEAN, acked : BOOLEAN]
  /\ reloads \in Seq(Update)

(* The decrypt worker is not between accepting a login and removing the     *)
(* session it replaces, and has not ended there.                            *)
Settled == decrypt.pc \in {"drain", "adopt", "receive", "wait"}

(* Two authenticated sessions of one VPN address exist only between the     *)
(* section that accepts a login and the one that removes duplicates: the    *)
(* handshake and the login path of the decrypt worker, with control and     *)
(* UDP write removing sessions in between, never leave a second one.        *)
AtMostOneActive ==
  Settled =>
    \A p, q \in Authenticated(sessions) :
      sessions[p].address = sessions[q].address => p = q

(* The VPN addresses of established sessions never outnumber max_clients,   *)
(* although the sessions themselves may: a handshake admitted below the     *)
(* limit may complete above it when its address already has a session.      *)
AddressesWithinLimit ==
  Cardinality(AddressesOf(sessions)) <= MaxClients

(* The number of authenticated sessions respects max_clients whenever the   *)
(* decrypt worker is not between accepting a login and removing duplicates. *)
AuthenticatedWithinLimit ==
  Settled => Cardinality(Authenticated(sessions)) <= MaxClients

(* max_clients holds for what it is about: the VPN addresses in use, and the *)
(* authenticated sessions once a replaced one is gone.  It is checked before *)
(* a handshake and again when the handshake completes, while other           *)
(* handshakes, logins and removals come in between.                          *)
ClientsWithinLimit == AddressesWithinLimit /\ AuthenticatedWithinLimit

(* The limits of the admission path bound the table: handshakes in progress *)
(* in all and per source address, and sessions of every kind together       *)
(* although an established session outlives the count it was admitted by.   *)
TableBounded ==
  /\ Cardinality(Pending(sessions)) <= MaxPendingHandshakes
  /\ \A ip \in Ips : Cardinality(PendingFrom(sessions, ip)) <= MaxPendingPerIp
  /\ Cardinality(Live(sessions)) < MaxClients + MaxPendingHandshakes

(* When a RELOAD command is about to be answered with success, the decrypt  *)
(* worker accepts clients by the very configuration that reload read, even  *)
(* if updates of earlier reloads that timed out were still in the channel.  *)
AckMeansAdopted ==
  ControlAt("await") /\ control.acked =>
    /\ decrypt.bindings = control.new.bindings
    /\ decrypt.logins = control.new.logins

(* The decrypt worker never sleeps on an update: the generation it observed *)
(* was read before it looked into the channel, and control sends before it  *)
(* notifies.                                                                *)
NoSleepOverReload ==
  At("wait") /\ reloads # <<>> => decrypt.changed \/ ControlAt("notify")

(* A session whose fingerprint is not the one bound to its address. *)
Stale == {p \in Established(sessions) :
            sessions[p].fingerprint # control.bindings[sessions[p].address]}

(* Once the decrypt worker has adopted the bindings control filtered by, no *)
(* further session appears that contradicts them.  Until then one may: its  *)
(* handshake is accepted by the old bindings after the filter ran.          *)
NoNewStaleSession ==
  [][decrypt.bindings = control.bindings /\ control'.bindings = control.bindings
       => Stale' \subseteq Stale]_vars

(* Every update sent is read by the decrypt worker, or the worker ends. *)
ReloadAdopted == reloads # <<>> ~> reloads = <<>>

(* README: "active sessions of changed login data are removed".  After the  *)
(* filter of a reload, a session of an address that requires a login is     *)
(* authenticated only if it attempted one.                                  *)
LoginEnforced ==
  [][ControlAt("filter") /\ control'.pc = "send" =>
       \A p \in Authenticated(sessions') :
         control'.logins[sessions'[p].address] # NoLogin => sessions'[p].attempted]_vars
=============================================================================
