------------------------------- MODULE Client -------------------------------
(***************************************************************************)
(* The client: its main thread connects, logs in, runs six workers, cleans *)
(* up after them and connects again; run_with_login decides from the result*)
(* of a connection whether the program ends.                               *)
(*                                                                         *)
(* The workers share the flag `active`, four queues and an error channel.  *)
(* The decrypt worker sleeps on dtls_progress (`changed`: its generation   *)
(* moved since the worker read it), the others in their queue or in a poll *)
(* of 100 ms.  Login messages are single DTLS records: each may be lost or *)
(* overtaken, none arrives twice (the replay window of DTLS).              *)
(*                                                                         *)
(* Left to choice: which calls fail and with which kind of error, timers,  *)
(* whether the server accepts the certificate and the login.  wolfSSL never*)
(* answers WANT_WRITE here: dtls_send only queues.                         *)
(***************************************************************************)
EXTENDS Naturals, FiniteSets

CONSTANT MaxFailing   \* workers that handle an error at the same time

ASSUME ClientAssumption == MaxFailing \in Nat \ {0}

VARIABLES
  running,   \* RUNNING: nobody asked the program to stop
  main,      \* main thread: where it is, the result of the connection
  server,    \* what the server has decided about this connection
  wire,      \* records from the server the client may read next
  active,    \* the workers' running flag
  closed,    \* queues that are closed
  errors,    \* first error in the channel that main may yet receive, or NoError
  workers,   \* where each worker is
  decrypt,   \* decrypt worker: drain, pending
  incoming,  \* encrypted_rx holds datagrams
  changed    \* dtls_progress moved since the decrypt worker read it

vars == <<running, main, server, wire, active, closed, errors, workers, decrypt,
          incoming, changed>>

Workers == {"udp_read", "tun_read", "decrypt", "tun_write", "encrypt", "udp_write"}

Queues == {"encrypted_rx", "raw_tx", "tun_write", "enc_tx"}

(* The io::Errors run_with_login tells apart: PermissionDenied and the ones  *)
(* after which it connects again, at once or after three seconds.            *)
Kinds == {"denied", "retry"}

NoError == "none"

-----------------------------------------------------------------------------
(* Main thread: connect and authenticate *)

Main(pc) == main.pc = pc

Goto(pc) == main' = [main EXCEPT !.pc = pc]

(* run_connection returns, or is about to, with this result. *)
Leave(pc, result) == main' = [pc |-> pc, result |-> result]

pipeline == <<active, closed, errors, workers, decrypt, incoming, changed>>

(* The DTLS handshake completes; the server answers by its configuration, or *)
(* not at all when it has removed the session again.                         *)
Connect(answer) ==
  /\ Main("connect")
  /\ running
  /\ wire' = answer
  /\ server' = IF "AUTH_OK" \in answer THEN "authenticated"
               ELSE IF "AUTH_REQUIRED" \in answer THEN "challenged" ELSE "none"
  /\ Goto("auth")
  /\ UNCHANGED running /\ UNCHANGED pipeline

(* It does not: time limit, the server's address is not in its certificate,  *)
(* any other error, or the program shall stop.                               *)
ConnectFails(kind) ==
  /\ Main("connect")
  /\ running \/ kind = "retry"
  /\ Leave("decide", kind)
  /\ UNCHANGED <<running, server, wire>> /\ UNCHANGED pipeline

(* Mutant of Challenged: a challenge is taken for an acceptance. *)
ChallengeIgnored(record) ==
  /\ Main("auth")
  /\ record \in wire
  /\ wire' = wire \ {record}
  /\ IF record = "packet" THEN Leave("decide", "denied") ELSE Goto("spawn")
  /\ UNCHANGED <<running, server>> /\ UNCHANGED pipeline

(* authenticate: the first record decides. *)
Challenged(record) ==
  /\ Main("auth")
  /\ record \in wire
  /\ wire' = wire \ {record}
  /\ CASE record = "AUTH_OK"       -> Goto("spawn")
       [] record = "AUTH_REQUIRED" -> Goto("login") \/ Leave("decide", "retry")
       [] OTHER                    -> Leave("decide", "denied")
  /\ UNCHANGED <<running, server>> /\ UNCHANGED pipeline

(* The record after the login was sent. *)
LoginAnswered(record) ==
  /\ Main("login")
  /\ record \in wire
  /\ wire' = wire \ {record}
  /\ IF record = "AUTH_OK" THEN Goto("spawn") ELSE Leave("decide", "denied")
  /\ UNCHANGED <<running, server>> /\ UNCHANGED pipeline

(* Ten seconds are over, or reading or writing failed. *)
AuthFails ==
  /\ Main("auth") \/ Main("login")
  /\ Leave("decide", "retry")
  /\ UNCHANGED <<running, server, wire>> /\ UNCHANGED pipeline

-----------------------------------------------------------------------------
(* Server and network *)

(* The login of a challenged session arrives; only the first one counts. *)
LoginArrives(accepted) ==
  /\ Main("login")
  /\ server = "challenged"
  /\ server' = IF accepted THEN "authenticated" ELSE "refused"
  /\ wire' = wire \cup {IF accepted THEN "AUTH_OK" ELSE "AUTH_FAILED"}
  /\ UNCHANGED <<running, main>> /\ UNCHANGED pipeline

(* A packet for the VPN address of an authenticated session. *)
ServerRoutes ==
  /\ server = "authenticated"
  /\ main.pc \in {"auth", "login"}
  /\ "packet" \notin wire
  /\ wire' = wire \cup {"packet"}
  /\ UNCHANGED <<running, main, server>> /\ UNCHANGED pipeline

Lose(record) ==
  /\ record \in wire
  /\ main.pc \in {"auth", "login"}
  /\ wire' = wire \ {record}
  /\ UNCHANGED <<running, main, server>> /\ UNCHANGED pipeline

-----------------------------------------------------------------------------
(* Main thread: the connection *)

(* New queues, signals and channel, and the six workers; from now on records *)
(* are the decrypt worker's.                                                 *)
Spawn ==
  /\ Main("spawn")
  /\ Goto("run")
  /\ active' = TRUE
  /\ closed' = {}
  /\ errors' = NoError
  /\ workers' = [w \in Workers |-> "run"]
  /\ decrypt' = [drain |-> FALSE, pending |-> FALSE]
  /\ incoming' = FALSE /\ changed' = FALSE
  /\ wire' = {}
  /\ UNCHANGED <<running, server>>

(* The workers in the order run_connection starts them. *)
StartOrder == [udp_read |-> 1, tun_read |-> 2, decrypt |-> 3, tun_write |-> 4,
               encrypt |-> 5, udp_write |-> 6]

(* Only the first n workers can be started: run_connection returns with `?`. *)
(* Dropping a JoinHandle ends no thread, so those already started are left   *)
(* behind with `active` set and their own queues; only encrypt is stopped and*)
(* joined, when its QueueWorker is dropped.  Those an earlier connection left*)
(* are followed until the next one starts its own.                           *)
SpawnFails(n) ==
  /\ Main("spawn")
  /\ Leave("decide", "retry")
  /\ workers' = [w \in Workers |-> IF StartOrder[w] <= n /\ w # "encrypt"
                                   THEN "left" ELSE "done"]
  /\ UNCHANGED <<running, server, wire, active, closed, errors, decrypt, incoming, changed>>

(* A worker left behind meets an error of its own or sees RUNNING cleared. *)
LeftEnds(w) ==
  /\ workers[w] = "left"
  /\ workers' = [workers EXCEPT ![w] = "done"]
  /\ UNCHANGED <<running, main, server, wire, active, closed, errors, decrypt, incoming,
                 changed>>

(* The loop: leave when a flag is cleared, when the server was silent too    *)
(* long or the keepalive finds raw_tx closed; nothing is received from the   *)
(* channel any more.                                                         *)
RunLoop ==
  /\ Main("run")
  /\ IF running /\ active
     THEN \/ Goto("receive")
          \/ Leave("stop", "retry")
     ELSE Leave("stop", "ok")
  /\ errors' = IF main'.pc = "stop" THEN NoError ELSE errors
  /\ UNCHANGED <<running, server, wire, active, closed, workers, decrypt, incoming, changed>>

(* Mutant of ReceiveError: a timeout counts as an error. *)
ReceiveAnything ==
  /\ Main("receive")
  /\ Leave("stop", errors)
  /\ UNCHANGED <<running, server, wire>> /\ UNCHANGED pipeline

(* error_receiver.recv_timeout *)
ReceiveError ==
  /\ Main("receive")
  /\ IF errors = NoError THEN Goto("run") ELSE Leave("stop", errors)
  /\ errors' = NoError
  /\ UNCHANGED <<running, server, wire, active, closed, workers, decrypt, incoming, changed>>

(* active.store *)
StopWorkers ==
  /\ Main("stop")
  /\ Goto("close")
  /\ active' = FALSE
  /\ UNCHANGED <<running, server, wire, closed, errors, workers, decrypt, incoming, changed>>

(* Mutant of CloseQueues: only the queue of the UDP reader is closed. *)
CloseReceiving ==
  /\ Main("close")
  /\ Goto("notify")
  /\ closed' = closed \cup {"encrypted_rx"}
  /\ incoming' = FALSE
  /\ UNCHANGED <<running, server, wire, active, errors, workers, decrypt, changed>>

(* ClientQueues::close *)
CloseQueues ==
  /\ Main("close")
  /\ Goto("notify")
  /\ closed' = Queues
  /\ incoming' = FALSE
  /\ UNCHANGED <<running, server, wire, active, errors, workers, decrypt, changed>>

(* dtls_progress.notify *)
NotifyProgress ==
  /\ Main("notify")
  /\ Goto("join")
  /\ changed' = TRUE
  /\ UNCHANGED <<running, server, wire, active, closed, errors, workers, decrypt, incoming>>

(* No connection: its flag, queues, channel and signals do not exist. *)
Dropped ==
  /\ active' = FALSE
  /\ closed' = Queues
  /\ errors' = NoError
  /\ decrypt' = [drain |-> FALSE, pending |-> FALSE]
  /\ incoming' = FALSE /\ changed' = FALSE

(* Mutant of Join: the UDP writer is not waited for. *)
JoinReaders ==
  /\ Main("join")
  /\ \A w \in Workers \ {"udp_write"} : workers[w] = "done"
  /\ Goto("decide")
  /\ Dropped
  /\ UNCHANGED <<running, server, wire, workers>>

Join ==
  /\ Main("join")
  /\ \A w \in Workers : workers[w] = "done"
  /\ Goto("decide")
  /\ Dropped
  /\ UNCHANGED <<running, server, wire, workers>>

(* run_with_login: end, or connect again after the delay if still running. *)
Decide ==
  /\ Main("decide")
  /\ main' = IF main.result = "retry" /\ running
             THEN [pc |-> "connect", result |-> "ok"]
             ELSE [pc |-> "exited",
                   result |-> IF main.result = "denied" THEN "denied" ELSE "ok"]
  /\ server' = "none" /\ wire' = {}
  /\ UNCHANGED running /\ UNCHANGED pipeline

(* A signal handler clears RUNNING. *)
Interrupt ==
  /\ running
  /\ running' = FALSE
  /\ UNCHANGED <<main, server, wire>> /\ UNCHANGED pipeline

-----------------------------------------------------------------------------
(* Workers.  One that meets an error clears active, then sends the error,    *)
(* then closes its queue.                                                    *)

outside == <<running, main, server, wire>>

WorkerAt(w, pc) == workers[w] = pc

Step(w, pc) == workers' = [workers EXCEPT ![w] = pc]

(* The queue a worker closes after it has reported an error. *)
ClosedBy(w) == CASE w \in {"udp_read", "encrypt"} -> {"encrypted_rx"}
                 [] w = "tun_read" -> {"raw_tx"}
                 [] OTHER -> {}

Fails(w) ==
  /\ WorkerAt(w, "run") \/ WorkerAt(w, "read") \/ WorkerAt(w, "inject")
  /\ Cardinality({v \in Workers : workers[v] \in {"failed", "reported"}}) < MaxFailing
  /\ w = "decrypt" => ~WorkerAt(w, "run")
  /\ active' = FALSE
  /\ Step(w, "failed")
  /\ UNCHANGED <<closed, errors, decrypt, incoming, changed>> /\ UNCHANGED outside

Reports(w, kind) ==
  /\ WorkerAt(w, "failed")
  /\ errors' = IF errors = NoError /\ main.pc \in {"run", "receive"}
               THEN kind ELSE errors
  /\ Step(w, "reported")
  /\ UNCHANGED <<active, closed, decrypt, incoming, changed>> /\ UNCHANGED outside

(* encrypt goes on after an error, finds active cleared and drops what is     *)
(* queued; the others end.                                                   *)
Closes(w) ==
  /\ WorkerAt(w, "reported")
  /\ closed' = closed \cup ClosedBy(w)
  /\ incoming' = (incoming /\ "encrypted_rx" \notin closed')
  /\ Step(w, IF w = "encrypt" THEN "drain" ELSE "done")
  /\ UNCHANGED <<active, errors, decrypt, changed>> /\ UNCHANGED outside

(* The readers look at the flags after each poll. *)
ReaderEnds(w) ==
  /\ w \in {"udp_read", "tun_read"}
  /\ WorkerAt(w, "run")
  /\ ~(running /\ active)
  /\ Step(w, "done")
  /\ UNCHANGED <<active, closed, errors, decrypt, incoming, changed>> /\ UNCHANGED outside

(* A push to a closed queue ends a reader. *)
PushRefused(w) ==
  /\ \/ w = "udp_read" /\ "encrypted_rx" \in closed
     \/ w = "tun_read" /\ "raw_tx" \in closed
  /\ WorkerAt(w, "run")
  /\ Step(w, "done")
  /\ UNCHANGED <<active, closed, errors, decrypt, incoming, changed>> /\ UNCHANGED outside

(* Mutant of UdpReceived: the notification comes before the push. *)
UdpReceivedLate ==
  /\ \/ /\ WorkerAt("udp_read", "run")
        /\ changed' = TRUE
        /\ Step("udp_read", "pushed")
        /\ UNCHANGED incoming
     \/ /\ WorkerAt("udp_read", "pushed")
        /\ incoming' = ("encrypted_rx" \notin closed)
        /\ Step("udp_read", "run")
        /\ UNCHANGED changed
  /\ UNCHANGED <<active, closed, errors, decrypt>> /\ UNCHANGED outside

(* UDP reader: a datagram is pushed, then dtls_progress is notified. *)
UdpReceived ==
  /\ \/ /\ WorkerAt("udp_read", "run")
        /\ "encrypted_rx" \notin closed
        /\ incoming' = TRUE
        /\ Step("udp_read", "pushed")
        /\ UNCHANGED changed
     \/ /\ WorkerAt("udp_read", "pushed")
        /\ changed' = TRUE
        /\ Step("udp_read", "run")
        /\ UNCHANGED incoming
  /\ UNCHANGED <<active, closed, errors, decrypt>> /\ UNCHANGED outside

(* encrypt sleeps in raw_tx, the writers in their queues: close ends them. *)
QueueOf(w) == CASE w = "encrypt"   -> "raw_tx"
                [] w = "tun_write" -> "tun_write"
                [] w = "udp_write" -> "enc_tx"

ConsumerEnds(w) ==
  /\ w \in {"encrypt", "tun_write", "udp_write"}
  /\ WorkerAt(w, "run") \/ WorkerAt(w, "drain")
  /\ QueueOf(w) \in closed
  /\ Step(w, "done")
  /\ UNCHANGED <<active, closed, errors, decrypt, incoming, changed>> /\ UNCHANGED outside

(* A writer that is awake sees the cleared flag. *)
WriterStops(w) ==
  /\ w \in {"tun_write", "udp_write"}
  /\ WorkerAt(w, "run")
  /\ ~(running /\ active)
  /\ Step(w, "done")
  /\ UNCHANGED <<active, closed, errors, decrypt, incoming, changed>> /\ UNCHANGED outside

(* UDP writer: a datagram is sent or too old; dtls_progress is notified. *)
UdpSent ==
  /\ WorkerAt("udp_write", "run")
  /\ "enc_tx" \notin closed
  /\ ~changed
  /\ changed' = TRUE
  /\ UNCHANGED <<active, closed, errors, workers, decrypt, incoming>> /\ UNCHANGED outside

-----------------------------------------------------------------------------
(* Decrypt worker *)

(* The head of the loop: the flags are looked at ... *)
DecryptLoop ==
  /\ WorkerAt("decrypt", "run")
  /\ Step("decrypt", IF running /\ active THEN "observe" ELSE "done")
  /\ UNCHANGED <<active, closed, errors, decrypt, incoming, changed>> /\ UNCHANGED outside

(* ... and then the generation is read. *)
DecryptObserve ==
  /\ WorkerAt("decrypt", "observe")
  /\ changed' = FALSE
  /\ Step("decrypt", IF decrypt.drain THEN "read" ELSE "take")
  /\ UNCHANGED <<active, closed, errors, decrypt, incoming>> /\ UNCHANGED outside

(* read_status: a record, for the TUN writer or not, or WANT_READ. *)
DecryptRead ==
  /\ WorkerAt("decrypt", "read")
  /\ \/ Step("decrypt", "run") /\ UNCHANGED <<decrypt, changed>>
     \/ "tun_write" \in closed /\ Step("decrypt", "done") /\ UNCHANGED <<decrypt, changed>>
     \/ /\ decrypt' = [decrypt EXCEPT !.drain = FALSE]
        /\ changed' = TRUE
        /\ Step("decrypt", "take")
  /\ UNCHANGED <<active, closed, errors, incoming>> /\ UNCHANGED outside

(* The datagram in hand or the next one; without either end or sleep. *)
DecryptTake ==
  /\ WorkerAt("decrypt", "take")
  /\ IF decrypt.pending \/ incoming
     THEN /\ decrypt' = [decrypt EXCEPT !.pending = TRUE]
          /\ incoming' \in (IF decrypt.pending THEN {incoming} ELSE BOOLEAN)
          /\ Step("decrypt", "inject")
     ELSE /\ Step("decrypt", IF "encrypted_rx" \in closed THEN "done" ELSE "sleep")
          /\ UNCHANGED <<decrypt, incoming>>
  /\ UNCHANGED <<active, closed, errors, changed>> /\ UNCHANGED outside

(* inject: taken, or to be tried again after reading (APP_DATA_READY). *)
DecryptInject(taken) ==
  /\ WorkerAt("decrypt", "inject")
  /\ decrypt' = [drain |-> TRUE, pending |-> ~taken]
  /\ Step("decrypt", "run")
  /\ UNCHANGED <<active, closed, errors, incoming, changed>> /\ UNCHANGED outside

DecryptWakes ==
  /\ WorkerAt("decrypt", "sleep")
  /\ changed
  /\ Step("decrypt", "run")
  /\ UNCHANGED <<active, closed, errors, decrypt, incoming, changed>> /\ UNCHANGED outside

-----------------------------------------------------------------------------
Init ==
  /\ running = TRUE
  /\ main = [pc |-> "connect", result |-> "ok"]
  /\ server = "none" /\ wire = {}
  /\ active = FALSE
  /\ closed = Queues
  /\ errors = NoError
  /\ workers = [w \in Workers |-> "done"]
  /\ decrypt = [drain |-> FALSE, pending |-> FALSE]
  /\ incoming = FALSE /\ changed = FALSE

Records == {"AUTH_OK", "AUTH_REQUIRED", "AUTH_FAILED", "packet"}

MainNext ==
  \/ \E answer \in {{"AUTH_OK"}, {"AUTH_REQUIRED"}, {}} : Connect(answer)
  \/ \E kind \in Kinds : ConnectFails(kind)
  \/ AuthFails
  \/ \E record \in Records : Challenged(record) \/ LoginAnswered(record)
  \/ Spawn
  \/ \E n \in 0..5 : SpawnFails(n)
  \/ RunLoop
  \/ ReceiveError
  \/ StopWorkers
  \/ CloseQueues
  \/ NotifyProgress
  \/ Join
  \/ Decide

DecryptNext ==
  \/ DecryptLoop
  \/ DecryptObserve
  \/ DecryptRead
  \/ DecryptTake
  \/ \E taken \in BOOLEAN : DecryptInject(taken)
  \/ DecryptWakes

(* What a worker does when it has nothing to wait for. *)
Ends(w) ==
  \/ \E kind \in Kinds : Reports(w, kind)
  \/ Closes(w)
  \/ ReaderEnds(w)
  \/ PushRefused(w)
  \/ ConsumerEnds(w)

Next ==
  \/ MainNext
  \/ \E accepted \in BOOLEAN : LoginArrives(accepted)
  \/ ServerRoutes
  \/ \E record \in Records : Lose(record)
  \/ Interrupt
  \/ \E w \in Workers : Fails(w) \/ Ends(w) \/ WriterStops(w) \/ LeftEnds(w)
  \/ UdpReceived
  \/ UdpSent
  \/ DecryptNext

Spec == Init /\ [][Next]_vars

(* What a thread does without waiting for the network, the server or a user. *)
Runs(w) ==
  \/ Ends(w)
  \/ w = "decrypt" /\ DecryptNext
  \/ w = "udp_read" /\ WorkerAt(w, "pushed") /\ UdpReceived

(* Threads are scheduled, polls and timed waits end.                         *)
FairSpec ==
  /\ Spec
  /\ WF_vars(MainNext)
  /\ \A w \in Workers : WF_vars(Runs(w))

-----------------------------------------------------------------------------
(* Properties *)

(* Every variable has its type: the main thread ends a connection with a     *)
(* result run_with_login knows.                                              *)
TypeOK ==
  /\ running \in BOOLEAN /\ active \in BOOLEAN /\ incoming \in BOOLEAN /\ changed \in BOOLEAN
  /\ main \in [pc : {"connect", "auth", "login", "spawn", "run", "receive", "stop",
                     "close", "notify", "join", "decide", "exited"},
               result : Kinds \cup {"ok"}]
  /\ server \in {"none", "challenged", "refused", "authenticated"}
  /\ wire \subseteq Records
  /\ closed \subseteq Queues
  /\ errors \in Kinds \cup {NoError}
  /\ workers \in [Workers -> {"run", "observe", "read", "take", "inject", "sleep", "pushed",
                              "failed", "reported", "drain", "left", "done"}]
  /\ decrypt \in [drain : BOOLEAN, pending : BOOLEAN]

(* The decrypt worker never sleeps over a datagram of encrypted_rx: it has     *)
(* been notified since it looked, or the UDP reader is about to notify.        *)
DecryptAwake ==
  WorkerAt("decrypt", "sleep") /\ incoming => changed \/ WorkerAt("udp_read", "pushed")

(* When the program connects again or ends, the workers of the last connection *)
(* have ended, joined by the cleanup.  Where one could not be started there is *)
(* no cleanup, against CLIENT.md: readers, the decrypt worker and the TUN      *)
(* writer may be left beside the next connection, but never one that encrypts  *)
(* or sends, so nothing of the last connection leaves the client any more.     *)
NoOverlap ==
  main.pc \in {"connect", "auth", "login", "spawn", "exited"} =>
    \A w \in Workers : \/ WorkerAt(w, "done")
                       \/ WorkerAt(w, "left") /\ w \notin {"encrypt", "udp_write"}

(* Workers run only for a session the server has authenticated, whatever       *)
(* records were lost or overtook each other.                                   *)
Agreement == main.pc \in {"spawn", "run", "receive"} => server = "authenticated"

(* The cleanup ends every worker, wherever it slept or failed: join returns.   *)
JoinReturns == Main("join") ~> Main("decide")

(* CLIENT.md: worker errors are handed to the main thread and the connection   *)
(* is established again.  The program ends without an error only when it was   *)
(* asked to.                                                                   *)
EndsOnlyWhenAsked == Main("exited") /\ main.result = "ok" => ~running
=============================================================================
