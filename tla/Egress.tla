------------------------------- MODULE Egress -------------------------------
(***************************************************************************)
(* The server's send path.  The encrypt worker routes packets of the TUN   *)
(* device to the sessions' raw_tx_queues and encrypts what is in them; the *)
(* DTLS layer puts datagrams into the sessions' enc_tx_queues; the UDP     *)
(* write worker sends those.  The decrypt worker and session control feed  *)
(* both kinds of queues as well.                                           *)
(*                                                                         *)
(* A worker with nothing to do sleeps: encrypt on the generation of        *)
(* tun_read_queue, UDP write on the generation of dtls_progress.  Each     *)
(* generation appears here as `changed`: it moved since the worker read it.*)
(* The queues of a session are opened only under the mutex of the table;   *)
(* a section that notifies while it holds the mutex is split at each       *)
(* notification.  Whether a session's queue is empty is all that matters   *)
(* for the wake-ups, so raw and enc are sets of sessions.                  *)
(*                                                                         *)
(* Left to choice: what wolfSSL answers to a write, which packets are past *)
(* their two seconds, whether the socket takes a datagram.                 *)
(***************************************************************************)
EXTENDS Integers, Sequences, FiniteSets

CONSTANTS
  Sessions,     \* sessions the table can hold
  TunCapacity   \* capacity of tun_read_queue

ASSUME EgressAssumption == TunCapacity \in Nat \ {0}

VARIABLES
  live,      \* sessions of the table
  raw,       \* those with records in raw_tx_queue
  enc,       \* those with datagrams in enc_tx_queue
  tun,       \* number of packets in tun_read_queue
  closed,    \* tun_read_queue is closed
  active,    \* the workers' running flag
  retry,     \* retry_requested
  holder,    \* the thread inside a section that still has to notify
  owed,      \* what that section will still do, in order
  encrypt,   \* encrypt worker: where it is, changed, pending
  writer,    \* UDP write worker: where it is, changed
  main       \* main thread: where its cleanup is

vars == <<live, raw, enc, tun, closed, active, retry, holder, owed, encrypt, writer, main>>

-----------------------------------------------------------------------------
(* Sections under the mutex of the table *)

(* Take the mutex, do the work and leave the notifications to Announce. *)
Section(who, notes) ==
  /\ holder = "none"
  /\ owed' = notes
  /\ holder' = IF notes = <<>> THEN "none" ELSE who

(* The next notification of the section; the last one releases the mutex. *)
Announce ==
  /\ owed # <<>>
  /\ writer' = IF Head(owed) = "signal" THEN [writer EXCEPT !.changed = TRUE] ELSE writer
  /\ encrypt' = IF Head(owed) = "queue" THEN [encrypt EXCEPT !.changed = TRUE] ELSE encrypt
  /\ retry' = (retry \/ Head(owed) = "retry")
  /\ owed' = Tail(owed)
  /\ holder' = IF Tail(owed) = <<>> THEN "none" ELSE holder
  /\ UNCHANGED <<live, raw, enc, tun, closed, active, main>>

(* Mutant of Emitted: nobody is told of the datagram. *)
EmittedSilently(sent) == <<>>

(* dtls_send: a datagram is queued, then UDP write is notified. *)
Emitted(sent) == IF sent = {} THEN <<>> ELSE <<"signal">>

-----------------------------------------------------------------------------
(* Encrypt worker *)

At(pc) == encrypt.pc = pc

Goto(pc) == encrypt' = [encrypt EXCEPT !.pc = pc]

(* The head of the loop: the flag is looked at ... *)
EncryptLoop ==
  /\ At("head")
  /\ Goto(IF active THEN "observe" ELSE "stopped")
  /\ UNCHANGED <<live, raw, enc, tun, closed, active, retry, holder, owed, writer, main>>

(* ... and then the generation is read. *)
EncryptObserve ==
  /\ At("observe")
  /\ encrypt' = [encrypt EXCEPT !.pc = "pop", !.changed = FALSE]
  /\ UNCHANGED <<live, raw, enc, tun, closed, active, retry, holder, owed, writer, main>>

(* drain_session_plain for each session of S, with the records in `queued`: *)
(* those in `left` keep some for a later try, those in `sent` emit some.    *)
DrainPlain(queued, S, left, sent) ==
  /\ left \subseteq queued \cap S
  /\ sent \subseteq queued \cap S
  /\ raw' = (queued \ S) \cup left
  /\ enc' = enc \cup sent
  /\ Section("encrypt", Emitted(sent))

(* A packet that is not IPv4 is dropped. *)
Discard ==
  /\ At("pop")
  /\ tun > 0
  /\ tun' = tun - 1
  /\ UNCHANGED <<live, raw, enc, closed, active, retry, holder, owed, encrypt, writer, main>>

(* A packet for `targets`: the authenticated session of its destination, every *)
(* authenticated session for a broadcast or multicast, or nobody.              *)
Route(targets, S, left, sent) ==
  /\ At("pop")
  /\ tun > 0
  /\ tun' = tun - 1
  /\ targets \subseteq live
  /\ S = live \/ (S = targets /\ Cardinality(targets) <= 1)
  /\ DrainPlain(raw \cup targets, S, left, sent)
  /\ Goto("routed")
  /\ UNCHANGED <<live, closed, active, retry, writer, main>>

(* signal.notify after the mutex is released. *)
NotifyRouted ==
  /\ At("routed")
  /\ holder # "encrypt"
  /\ writer' = [writer EXCEPT !.changed = TRUE]
  /\ Goto("retry")
  /\ UNCHANGED <<live, raw, enc, tun, closed, active, retry, holder, owed, main>>

(* retry_requested.swap(false) *)
TakeRetry ==
  /\ At("retry")
  /\ retry' = FALSE
  /\ Goto(IF retry THEN "reflush" ELSE "pop")
  /\ UNCHANGED <<live, raw, enc, tun, closed, active, holder, owed, writer, main>>

Reflush(left, sent) ==
  /\ At("reflush")
  /\ DrainPlain(raw, live, left, sent)
  /\ Goto("pop")
  /\ UNCHANGED <<live, tun, closed, active, retry, writer, main>>

(* No packet is left: every session is drained. *)
FlushPending(left, sent) ==
  /\ At("pop")
  /\ tun = 0
  /\ DrainPlain(raw, live, left, sent)
  /\ encrypt' = [encrypt EXCEPT !.pc = "flushed", !.pending = left # {}]
  /\ UNCHANGED <<live, tun, closed, active, retry, writer, main>>

(* signal.notify, then end, go round or sleep. *)
NotifyFlushed ==
  /\ At("flushed")
  /\ holder # "encrypt"
  /\ writer' = [writer EXCEPT !.changed = TRUE]
  /\ Goto(IF closed THEN "stopped" ELSE IF encrypt.pending THEN "head" ELSE "wait")
  /\ active' = (active /\ ~closed)
  /\ UNCHANGED <<live, raw, enc, tun, closed, retry, holder, owed, main>>

EncryptWakes ==
  /\ At("wait")
  /\ encrypt.changed \/ closed
  /\ Goto("head")
  /\ UNCHANGED <<live, raw, enc, tun, closed, active, retry, holder, owed, writer, main>>

-----------------------------------------------------------------------------
(* UDP write worker *)

WriterAt(pc) == writer.pc = pc

WriterGoto(pc) == writer' = [writer EXCEPT !.pc = pc]

WriterLoop ==
  /\ WriterAt("head")
  /\ WriterGoto(IF active THEN "observe" ELSE "stopped")
  /\ UNCHANGED <<live, raw, enc, tun, closed, active, retry, holder, owed, encrypt, main>>

WriterObserve ==
  /\ WriterAt("observe")
  /\ writer' = [writer EXCEPT !.pc = "drain", !.changed = FALSE]
  /\ UNCHANGED <<live, raw, enc, tun, closed, active, retry, holder, owed, encrypt, main>>

(* Send what is queued.  The socket does not take all datagrams of `blocked`, *)
(* a datagram of `failed` cannot be sent: those sessions are removed.         *)
WriterDrain(blocked, failed) ==
  /\ WriterAt("drain")
  /\ Section("writer", <<>>)
  /\ blocked \subseteq enc
  /\ failed \subseteq enc \ blocked
  /\ live' = live \ failed
  /\ raw' = raw \ failed
  /\ enc' = blocked
  /\ WriterGoto(IF blocked # {} THEN "poll"
                ELSE IF enc \ failed # {} THEN "retry" ELSE "check")
  /\ UNCHANGED <<tun, closed, active, retry, encrypt, main>>

(* poll: the socket is writable again, or the time limit of a packet is over. *)
WriterPolls ==
  /\ WriterAt("poll")
  /\ WriterGoto("retry")
  /\ UNCHANGED <<live, raw, enc, tun, closed, active, retry, holder, owed, encrypt, main>>

(* retry_requested.store(true) *)
RequestRetry ==
  /\ WriterAt("retry")
  /\ retry' = TRUE
  /\ WriterGoto("rouse")
  /\ UNCHANGED <<live, raw, enc, tun, closed, active, holder, owed, encrypt, main>>

(* encrypt_queue.notify_change *)
RouseEncrypt ==
  /\ WriterAt("rouse")
  /\ encrypt' = [encrypt EXCEPT !.changed = TRUE]
  /\ WriterGoto("head")
  /\ UNCHANGED <<live, raw, enc, tun, closed, active, retry, holder, owed, main>>

(* Nothing was sent: has something been queued meanwhile? *)
WriterCheck ==
  /\ WriterAt("check")
  /\ Section("writer", <<>>)
  /\ WriterGoto(IF enc = {} THEN "recheck" ELSE "head")
  /\ UNCHANGED <<live, raw, enc, tun, closed, active, retry, encrypt, main>>

(* The flag is looked at again before the worker sleeps: the notification of *)
(* the cleanup may have come before the generation was read.                 *)
WriterRecheck ==
  /\ WriterAt("recheck")
  /\ WriterGoto(IF active THEN "wait" ELSE "head")
  /\ UNCHANGED <<live, raw, enc, tun, closed, active, retry, holder, owed, encrypt, main>>

WriterWakes ==
  /\ WriterAt("wait")
  /\ writer.changed
  /\ WriterGoto("head")
  /\ UNCHANGED <<live, raw, enc, tun, closed, active, retry, holder, owed, encrypt, main>>

-----------------------------------------------------------------------------
(* The other threads *)

(* Decrypt worker: a record of s is read and may be answered (a login, a      *)
(* keepalive); the read itself may emit a datagram.                           *)
DecryptRead(s, sent, answered) ==
  /\ s \in live
  /\ sent \subseteq {s} /\ answered \subseteq {s}
  /\ enc' = enc \cup sent
  /\ raw' = raw \cup answered
  /\ Section("decrypt", Emitted(sent) \o <<"signal", "retry", "queue">>
                          \o IF answered = {} THEN <<>> ELSE <<"queue">>)
  /\ UNCHANGED <<live, tun, closed, active, retry, encrypt, writer, main>>

(* Mutant of Handshake: nobody is told of the answer of a completed handshake. *)
HandshakeSilent(s, sent, completed) ==
  /\ sent \subseteq {s}
  /\ live' = live \cup {s}
  /\ enc' = enc \cup sent
  /\ raw' = IF completed THEN raw \cup {s} ELSE raw
  /\ Section("decrypt", Emitted(sent))
  /\ UNCHANGED <<tun, closed, active, retry, encrypt, writer, main>>

(* Decrypt worker: a handshake step of s, new or known, emits a flight or not; *)
(* a completed handshake is answered with AUTH_OK or AUTH_REQUIRED.            *)
Handshake(s, sent, completed) ==
  /\ sent \subseteq {s}
  /\ live' = live \cup {s}
  /\ enc' = enc \cup sent
  /\ raw' = IF completed THEN raw \cup {s} ELSE raw
  /\ Section("decrypt", Emitted(sent) \o IF completed THEN <<"queue">> ELSE <<>>)
  /\ UNCHANGED <<tun, closed, active, retry, encrypt, writer, main>>

(* Session control: the flight of s is sent again. *)
Retransmit(s) ==
  /\ s \in live
  /\ enc' = enc \cup {s}
  /\ Section("control", Emitted({s}))
  /\ UNCHANGED <<live, raw, tun, closed, active, retry, encrypt, writer, main>>

(* Mutant of RemoveSession: its queues stay open. *)
RemoveOpen(s) ==
  /\ s \in live
  /\ live' = live \ {s}
  /\ Section("control", <<>>)
  /\ UNCHANGED <<raw, enc, tun, closed, active, retry, encrypt, writer, main>>

(* A session is dropped: its queues are closed. *)
RemoveSession(s) ==
  /\ s \in live
  /\ live' = live \ {s}
  /\ raw' = raw \ {s}
  /\ enc' = enc \ {s}
  /\ Section("control", <<>>)
  /\ UNCHANGED <<tun, closed, active, retry, encrypt, writer, main>>

(* TUN reader: a packet is pushed to tun_read_queue, the oldest making room. *)
TunPacket ==
  /\ ~closed
  /\ tun' = IF tun = TunCapacity THEN tun ELSE tun + 1
  /\ encrypt' = [encrypt EXCEPT !.changed = TRUE]
  /\ UNCHANGED <<live, raw, enc, closed, active, retry, holder, owed, writer, main>>

(* Main thread: a datagram is received and dtls_progress notified. *)
UdpReceived ==
  /\ main = "run"
  /\ ~writer.changed
  /\ writer' = [writer EXCEPT !.changed = TRUE]
  /\ UNCHANGED <<live, raw, enc, tun, closed, active, retry, holder, owed, encrypt, main>>

(* A worker ends (StopOnDrop) or a signal asks the server to stop. *)
Deactivate ==
  /\ active
  /\ active' = FALSE
  /\ UNCHANGED <<live, raw, enc, tun, closed, retry, holder, owed, encrypt, writer, main>>

(* Queue::close of tun_read_queue *)
CloseTunQueue ==
  /\ closed' = TRUE
  /\ tun' = 0
  /\ encrypt' = [encrypt EXCEPT !.changed = TRUE]

(* The TUN device fails: the reader has cleared active and closes its queue. *)
TunReaderCloses ==
  /\ ~active
  /\ ~closed
  /\ CloseTunQueue
  /\ UNCHANGED <<live, raw, enc, active, retry, holder, owed, writer, main>>

(* Main thread: its loop is over. *)
Cleanup ==
  /\ main = "run"
  /\ main' = "notify"
  /\ active' = FALSE
  /\ UNCHANGED <<live, raw, enc, tun, closed, retry, holder, owed, encrypt, writer>>

(* Mutant of CleanupNotify: dtls_progress is notified by nobody. *)
CleanupSilent ==
  /\ main = "notify"
  /\ main' = "close"
  /\ UNCHANGED <<live, raw, enc, tun, closed, active, retry, holder, owed, encrypt, writer>>

CleanupNotify ==
  /\ main = "notify"
  /\ main' = "close"
  /\ writer' = [writer EXCEPT !.changed = TRUE]
  /\ UNCHANGED <<live, raw, enc, tun, closed, active, retry, holder, owed, encrypt>>

CleanupClose ==
  /\ main = "close"
  /\ main' = "join"
  /\ CloseTunQueue
  /\ UNCHANGED <<live, raw, enc, active, retry, holder, owed, writer>>

-----------------------------------------------------------------------------
Init ==
  /\ live = {} /\ raw = {} /\ enc = {}
  /\ tun = 0 /\ closed = FALSE
  /\ active = TRUE
  /\ retry = FALSE
  /\ holder = "none" /\ owed = <<>>
  /\ encrypt = [pc |-> "head", changed |-> FALSE, pending |-> FALSE]
  /\ writer = [pc |-> "head", changed |-> FALSE]
  /\ main = "run"

EncryptNext ==
  \/ EncryptLoop
  \/ EncryptObserve
  \/ Discard
  \/ \E targets, S, left, sent \in SUBSET Sessions : Route(targets, S, left, sent)
  \/ NotifyRouted
  \/ TakeRetry
  \/ \E left, sent \in SUBSET Sessions : Reflush(left, sent)
  \/ \E left, sent \in SUBSET Sessions : FlushPending(left, sent)
  \/ NotifyFlushed
  \/ EncryptWakes

WriterNext ==
  \/ WriterLoop
  \/ WriterObserve
  \/ \E blocked, failed \in SUBSET Sessions : WriterDrain(blocked, failed)
  \/ WriterPolls
  \/ RequestRetry
  \/ RouseEncrypt
  \/ WriterCheck
  \/ WriterRecheck
  \/ WriterWakes

MainNext == Cleanup \/ CleanupNotify \/ CleanupClose

Next ==
  \/ Announce
  \/ EncryptNext
  \/ WriterNext
  \/ MainNext
  \/ \E s \in Sessions, sent, answered \in SUBSET Sessions : DecryptRead(s, sent, answered)
  \/ \E s \in Sessions, sent \in SUBSET Sessions, completed \in BOOLEAN : Handshake(s, sent, completed)
  \/ \E s \in Sessions : Retransmit(s) \/ RemoveSession(s)
  \/ TunPacket
  \/ UdpReceived
  \/ Deactivate
  \/ TunReaderCloses

Spec == Init /\ [][Next]_vars

(* Threads are scheduled, and a mutex that is free again and again is taken   *)
(* in the end by the worker that waits for it.  Nothing is assumed of the     *)
(* network, of the TUN device, or of the other threads.                       *)
FairSpec ==
  /\ Spec
  /\ WF_vars(Announce)
  /\ WF_vars(CleanupNotify) /\ WF_vars(CleanupClose)
  /\ SF_vars(EncryptNext)
  /\ SF_vars(WriterNext)

-----------------------------------------------------------------------------
(* Properties *)

Note == {"signal", "retry", "queue"}

(* The mutex is kept exactly while a notification is due. *)
SectionOK ==
  /\ holder \in {"none", "encrypt", "decrypt", "control"}
  /\ owed \in Seq(Note)
  /\ (holder = "none" <=> owed = <<>>)

WorkersOK ==
  /\ encrypt \in [pc : {"head", "observe", "pop", "routed", "retry", "reflush", "flushed", "wait", "stopped"},
                  changed : BOOLEAN, pending : BOOLEAN]
  /\ writer \in [pc : {"head", "observe", "drain", "poll", "retry", "rouse", "check",
                       "recheck", "wait", "stopped"},
                 changed : BOOLEAN]

(* Only sessions of the table have queues; every variable has its type. *)
TypeOK ==
  /\ live \subseteq Sessions /\ raw \subseteq live /\ enc \subseteq live
  /\ tun \in 0..TunCapacity
  /\ closed \in BOOLEAN /\ active \in BOOLEAN /\ retry \in BOOLEAN
  /\ SectionOK
  /\ WorkersOK
  /\ main \in {"run", "notify", "close", "join"}

(* Notifications the section in hand will still give. *)
Due == {owed[i] : i \in 1..Len(owed)}

(* The encrypt worker never sleeps over a packet or over a record that waits *)
(* to be encrypted: the wake-up came or is about to come.                    *)
EncryptAwake ==
  At("wait") /\ (raw # {} \/ tun > 0) => encrypt.changed \/ "queue" \in Due

(* The UDP write worker never sleeps over a datagram, whoever queued it.     *)
WriterAwake ==
  WriterAt("wait") /\ enc # {} => writer.changed \/ "signal" \in Due

(* A datagram that waits is tried: the UDP write worker comes to its queue.  *)
DatagramTried == enc # {} ~> enc = {} \/ writer.pc \in {"drain", "stopped"}

(* After the main thread has cleared active, notified dtls_progress and       *)
(* closed the queues, in that order, both workers end: join returns.          *)
WorkersEnd == main = "join" ~> At("stopped") /\ WriterAt("stopped")
=============================================================================
