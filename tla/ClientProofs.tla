----------------------------- MODULE ClientProofs -----------------------------
(***************************************************************************)
(* Proofs about the client, for any number of workers that fail at once.   *)
(***************************************************************************)
EXTENDS Client, TLAPS

Places == {"run", "observe", "read", "take", "inject", "sleep", "pushed",
           "failed", "reported", "drain", "left", "done"}

(* One worker's step leaves the others where they are. *)
LEMMA StepFacts ==
  ASSUME TypeOK, NEW w \in Workers, NEW pc, Step(w, pc)
  PROVE  /\ workers'[w] = pc
         /\ \A v \in Workers : v # w => workers'[v] = workers[v]
         /\ pc \in Places => workers' \in [Workers -> Places]
  BY SMT DEF Step, TypeOK, Places

(* The main thread's steps. *)
LEMMA GotoType ==
  ASSUME TypeOK, NEW pc \in {"connect", "auth", "login", "spawn", "run", "receive", "stop",
                             "close", "notify", "join", "decide", "exited"}, Goto(pc)
  PROVE  /\ main' \in [pc : {"connect", "auth", "login", "spawn", "run", "receive", "stop",
                             "close", "notify", "join", "decide", "exited"},
                       result : Kinds \cup {"ok"}]
         /\ main'.pc = pc
  BY SMT DEF Goto, TypeOK

(* A result that run_with_login knows is kept as it is. *)
LEMMA LeaveType ==
  ASSUME NEW pc \in {"decide", "stop"}, NEW result \in Kinds \cup {"ok"}, Leave(pc, result)
  PROVE  /\ main' \in [pc : {"connect", "auth", "login", "spawn", "run", "receive", "stop",
                             "close", "notify", "join", "decide", "exited"},
                       result : Kinds \cup {"ok"}]
         /\ main'.pc = pc
  BY SMT DEF Leave

(* Without a connection a worker has ended or was left by a failed start; none *)
(* that encrypts or sends is left, and once a connection runs nobody is.        *)
IdleInv ==
  /\ main.pc \in {"connect", "auth", "login", "spawn", "decide", "exited"} =>
       \A w \in Workers : workers[w] \in {"left", "done"}
  /\ main.pc \in {"run", "receive", "stop", "close", "notify", "join"} =>
       \A w \in Workers : workers[w] # "left"
  /\ workers["encrypt"] # "left" /\ workers["udp_write"] # "left"

(* An acceptance comes only from a server that has authenticated the session. *)
AcceptInv ==
  /\ "AUTH_OK" \in wire => server = "authenticated"
  /\ main.pc \in {"spawn", "run", "receive"} => server = "authenticated"

ClientInv == TypeOK /\ IdleInv /\ AcceptInv /\ DecryptAwake

(* The program starts without a connection. *)
LEMMA ClientInit == Init => ClientInv
<1> SUFFICES ASSUME Init PROVE ClientInv
  OBVIOUS
<1>1. /\ workers \in [Workers -> Places]
      /\ main \in [pc : {"connect"}, result : {"ok"}]
      /\ decrypt \in [drain : BOOLEAN, pending : BOOLEAN]
  BY Zenon DEF Init, Places
<1>2. TypeOK
  BY <1>1, Zenon DEF Init, TypeOK, Places
<1>3. IdleInv /\ AcceptInv /\ DecryptAwake
  BY SMT DEF Init, IdleInv, AcceptInv, DecryptAwake, WorkerAt, Workers
<1> QED
  BY <1>2, <1>3 DEF ClientInv

(* Connecting and logging in: no worker, and the records decide. *)
LEMMA AuthStep ==
  ASSUME ClientInv,
         \/ \E answer \in {{"AUTH_OK"}, {"AUTH_REQUIRED"}, {}} : Connect(answer)
         \/ \E kind \in Kinds : ConnectFails(kind)
         \/ AuthFails
         \/ \E record \in Records : Challenged(record) \/ LoginAnswered(record)
  PROVE  ClientInv'
<1>1. UNCHANGED <<running, active, closed, errors, workers, decrypt, incoming, changed>>
  BY DEF Connect, ConnectFails, AuthFails, Challenged, LoginAnswered, pipeline
<1>2. main.pc \in {"connect", "auth", "login"}
  BY SMT DEF Connect, ConnectFails, AuthFails, Challenged, LoginAnswered, Main
<1>3. /\ \A w \in Workers : workers[w] \in {"left", "done"}
      /\ workers["encrypt"] # "left" /\ workers["udp_write"] # "left"
      /\ workers["decrypt"] # "sleep"
  BY <1>2, SMT DEF ClientInv, IdleInv, Workers
<1>4. ASSUME NEW answer \in {{"AUTH_OK"}, {"AUTH_REQUIRED"}, {}}, Connect(answer)
      PROVE  ClientInv'
  <2>1. Goto("auth") /\ wire' = answer /\ wire' \subseteq Records
    BY <1>4, SMT DEF Connect, Records
  <2>2. /\ server' \in {"none", "challenged", "authenticated"}
        /\ "AUTH_OK" \in answer => server' = "authenticated"
    BY <1>4, Zenon DEF Connect
  <2>3. /\ main'.pc = "auth" /\ TypeOK'
    BY <1>1, <2>1, <2>2, GotoType, SMT DEF ClientInv, TypeOK
  <2> QED
    BY <1>1, <1>3, <2>1, <2>2, <2>3, SMT DEF ClientInv, IdleInv, AcceptInv, DecryptAwake, WorkerAt
<1>5. ASSUME wire' \subseteq wire, server' = server, NEW result \in Kinds, Leave("decide", result)
      PROVE  ClientInv'
  <2>1. main'.pc = "decide" /\ TypeOK'
    BY <1>1, <1>5, LeaveType, SMT DEF ClientInv, TypeOK
  <2> QED
    BY <1>1, <1>3, <1>5, <2>1, SMT DEF ClientInv, IdleInv, AcceptInv, DecryptAwake, WorkerAt
<1>6. ASSUME wire' \subseteq wire, server' = server, NEW pc \in {"login", "spawn"}, Goto(pc),
             pc = "spawn" => "AUTH_OK" \in wire
      PROVE  ClientInv'
  <2>1. main'.pc = pc /\ TypeOK'
    BY <1>1, <1>6, GotoType, SMT DEF ClientInv, TypeOK
  <2> QED
    BY <1>1, <1>3, <1>6, <2>1, SMT DEF ClientInv, IdleInv, AcceptInv, DecryptAwake, WorkerAt
<1>7. ASSUME NEW kind \in Kinds, ConnectFails(kind)
      PROVE  ClientInv'
  BY <1>5, <1>7 DEF ConnectFails
<1>8. CASE AuthFails
  <2>1. "retry" \in Kinds
    BY DEF Kinds
  <2> QED
    BY <1>5, <1>8, <2>1 DEF AuthFails
<1>9. ASSUME NEW record \in Records, Challenged(record) \/ LoginAnswered(record)
      PROVE  ClientInv'
  <2>1. record \in wire /\ wire' \subseteq wire /\ server' = server
    BY <1>9 DEF Challenged, LoginAnswered
  <2>2. \/ record = "AUTH_OK" /\ Goto("spawn")
        \/ Goto("login")
        \/ Leave("decide", "retry")
        \/ Leave("decide", "denied")
    BY <1>9, SMT DEF Challenged, LoginAnswered
  <2>3. "retry" \in Kinds /\ "denied" \in Kinds
    BY DEF Kinds
  <2>4. CASE record = "AUTH_OK" /\ Goto("spawn")
    BY <1>6, <2>1, <2>4
  <2>5. CASE Goto("login")
    BY <1>6, <2>1, <2>5
  <2>6. CASE Leave("decide", "retry") \/ Leave("decide", "denied")
    BY <1>5, <2>1, <2>3, <2>6
  <2> QED
    BY <2>2, <2>4, <2>5, <2>6
<1> QED
  BY <1>4, <1>7, <1>8, <1>9

(* A failed start: what it leaves behind reads, decrypts or writes to the TUN  *)
(* device; the worker that ends is one of those.                               *)
LEMMA LeftStep ==
  ASSUME ClientInv,
         (\E n \in 0..5 : SpawnFails(n)) \/ (\E w \in Workers : LeftEnds(w))
  PROVE  ClientInv'
<1>0. "encrypt" \in Workers /\ "udp_write" \in Workers /\ "decrypt" \in Workers
  BY DEF Workers
<1>1. ASSUME NEW n \in 0..5, SpawnFails(n)
      PROVE  ClientInv'
  <2>1. /\ \A w \in Workers : workers'[w] \in {"left", "done"}
        /\ workers' \in [Workers -> Places]
        /\ workers'["encrypt"] = "done" /\ workers'["udp_write"] = "done"
    BY <1>0, <1>1, SMT DEF SpawnFails, StartOrder, Places
  <2>2. Leave("decide", "retry") /\ "retry" \in Kinds
    BY <1>1, SMT DEF SpawnFails, Kinds
  <2>3. main'.pc = "decide" /\ main' \in [pc : {"connect", "auth", "login", "spawn", "run",
                             "receive", "stop", "close", "notify", "join", "decide", "exited"},
                       result : Kinds \cup {"ok"}]
    BY <2>2, LeaveType, SMT
  <2>4. UNCHANGED <<running, server, wire, active, closed, errors, decrypt, incoming, changed>>
    BY <1>1 DEF SpawnFails
  <2>5. TypeOK'
    BY <2>1, <2>3, <2>4, Zenon DEF ClientInv, TypeOK, Places
  <2> QED
    BY <1>0, <2>1, <2>3, <2>4, <2>5, SMT DEF ClientInv, IdleInv, AcceptInv, DecryptAwake, WorkerAt
<1>2. ASSUME NEW w \in Workers, LeftEnds(w)
      PROVE  ClientInv'
  <2>1. /\ UNCHANGED <<running, main, server, wire, active, closed, errors, decrypt, incoming, changed>>
        /\ Step(w, "done") /\ workers[w] = "left"
    BY <1>2 DEF LeftEnds, Step
  <2>2. /\ workers'[w] = "done" /\ workers' \in [Workers -> Places]
        /\ \A v \in Workers : v # w => workers'[v] = workers[v]
    BY <2>1, StepFacts, SMT DEF ClientInv, Places
  <2>3. TypeOK'
    BY <2>1, <2>2, SMT DEF ClientInv, TypeOK, Places
  <2>4. AcceptInv'
    BY <2>1, SMT DEF ClientInv, AcceptInv
  <2>5. IdleInv'
    BY <1>0, <2>1, <2>2, SMT DEF ClientInv, IdleInv
  <2>6. DecryptAwake'
    <3>1. main.pc \notin {"run", "receive", "stop", "close", "notify", "join"}
      BY <2>1, SMT DEF ClientInv, IdleInv
    <3>2. workers["decrypt"] # "sleep"
      BY <1>0, <3>1, SMT DEF ClientInv, IdleInv, TypeOK
    <3> QED
      BY <1>0, <2>2, <3>2, SMT DEF DecryptAwake, WorkerAt
  <2> QED
    BY <2>3, <2>4, <2>5, <2>6 DEF ClientInv
<1> QED
  BY <1>1, <1>2

(* The server and the network. *)
LEMMA NetworkStep ==
  ASSUME ClientInv,
         \/ \E accepted \in BOOLEAN : LoginArrives(accepted)
         \/ ServerRoutes
         \/ \E record \in Records : Lose(record)
         \/ Interrupt
  PROVE  ClientInv'
<1>1. UNCHANGED <<main, active, closed, errors, workers, decrypt, incoming, changed>>
  BY DEF LoginArrives, ServerRoutes, Lose, Interrupt, pipeline
<1>2. ASSUME NEW accepted \in BOOLEAN, LoginArrives(accepted)
      PROVE  /\ server' \in {"refused", "authenticated"} /\ wire' \subseteq Records
             /\ "AUTH_OK" \in wire' => server' = "authenticated"
             /\ main.pc = "login" /\ running' = running
  BY <1>2, SMT DEF ClientInv, TypeOK, LoginArrives, Main, AcceptInv, Records
<1>3. ASSUME ServerRoutes \/ \E record \in Records : Lose(record)
      PROVE  /\ server' = server /\ wire' \subseteq Records /\ running' = running
             /\ "AUTH_OK" \in wire' => "AUTH_OK" \in wire
  <2>1. /\ server' = server /\ running' = running
        /\ wire' \subseteq wire \cup {"packet"}
    BY <1>3, Zenon DEF ServerRoutes, Lose
  <2>2. wire \subseteq Records /\ "packet" \in Records
    BY DEF ClientInv, TypeOK, Records
  <2>3. "AUTH_OK" # "packet"
    OBVIOUS
  <2> QED
    BY <2>1, <2>2, <2>3, Zenon
<1>4. ASSUME Interrupt
      PROVE  server' = server /\ wire' = wire /\ running' \in BOOLEAN
  BY <1>4 DEF Interrupt
<1>5. /\ server' \in {"none", "challenged", "refused", "authenticated"}
      /\ wire' \subseteq Records /\ running' \in BOOLEAN
      /\ "AUTH_OK" \in wire' => server' = "authenticated"
      /\ server' = server \/ main.pc = "login"
  BY <1>2, <1>3, <1>4, SMT DEF ClientInv, TypeOK, AcceptInv
<1>6. TypeOK'
  BY <1>1, <1>5, Zenon DEF ClientInv, TypeOK
<1>7. IdleInv' /\ DecryptAwake'
  BY <1>1, SMT DEF ClientInv, IdleInv, DecryptAwake, WorkerAt
<1>8. AcceptInv'
  BY <1>1, <1>5, SMT DEF ClientInv, AcceptInv
<1> QED
  BY <1>6, <1>7, <1>8 DEF ClientInv

(* The connection and its cleanup. *)
LEMMA MainStep ==
  ASSUME ClientInv,
         Spawn \/ RunLoop \/ ReceiveError \/ StopWorkers \/ CloseQueues \/ NotifyProgress
           \/ Join \/ Decide
  PROVE  ClientInv'
<1> USE DEF ClientInv
<1>1. CASE Spawn
  <2>1. main'.pc = "run" /\ TypeOK'
    <3>1. Goto("run")
      BY <1>1 DEF Spawn
    <3>2. /\ workers' \in [Workers -> Places]
          /\ decrypt' \in [drain : BOOLEAN, pending : BOOLEAN]
      BY <1>1, Zenon DEF Spawn, Places
    <3> QED
      BY <1>1, <3>1, <3>2, GotoType, Zenon DEF Spawn, TypeOK, Places
  <2> QED
    BY <1>1, <2>1, SMT DEF Spawn, Main, IdleInv, AcceptInv, DecryptAwake, WorkerAt, Workers
<1>2. CASE RunLoop
  <2>1. /\ main.pc = "run"
        /\ Goto("receive") \/ Leave("stop", "retry") \/ Leave("stop", "ok")
        /\ errors' \in {errors, NoError}
        /\ UNCHANGED <<running, server, wire, active, closed, workers, decrypt, incoming, changed>>
    BY <1>2, Zenon DEF RunLoop, Main
  <2>2. main'.pc \in {"receive", "stop"} /\ TypeOK'
    BY <2>1, GotoType, LeaveType, SMT DEF TypeOK, Kinds
  <2> QED
    BY <2>1, <2>2, SMT DEF IdleInv, AcceptInv, DecryptAwake, WorkerAt
<1>3. CASE ReceiveError
  <2>1. /\ main.pc = "receive"
        /\ Goto("run") \/ (errors \in Kinds /\ Leave("stop", errors))
        /\ errors' = NoError
        /\ UNCHANGED <<running, server, wire, active, closed, workers, decrypt, incoming, changed>>
    BY <1>3, SMT DEF ReceiveError, Main, TypeOK
  <2>2. main'.pc \in {"run", "stop"} /\ TypeOK'
    BY <2>1, GotoType, LeaveType, SMT DEF TypeOK, Kinds
  <2> QED
    BY <2>1, <2>2, SMT DEF IdleInv, AcceptInv, DecryptAwake, WorkerAt
<1>4. CASE StopWorkers \/ CloseQueues \/ NotifyProgress
  <2>0. main.pc \in {"stop", "close", "notify"}
    BY <1>4, SMT DEF StopWorkers, CloseQueues, NotifyProgress, Main
  <2>1. /\ Goto("close") \/ Goto("notify") \/ Goto("join")
        /\ active' \in BOOLEAN /\ closed' \subseteq Queues /\ errors' \in Kinds \cup {NoError}
        /\ incoming' \in {incoming, FALSE} /\ changed' \in {changed, TRUE}
        /\ UNCHANGED <<running, server, wire, workers, decrypt>>
    BY <1>4, Zenon DEF StopWorkers, CloseQueues, NotifyProgress, TypeOK
  <2>2. main'.pc \in {"close", "notify", "join"} /\ TypeOK'
    BY <2>1, GotoType, Zenon DEF TypeOK
  <2>3. IdleInv' /\ AcceptInv'
    BY <2>0, <2>1, <2>2, SMT DEF IdleInv, AcceptInv
  <2>4. DecryptAwake'
    <3>1. incoming' => incoming
      <4>1. incoming' = incoming \/ incoming' = FALSE
        BY <2>1, Zenon
      <4> QED
        BY <4>1
    <3>2. changed => changed'
      <4>1. changed' = changed \/ changed' = TRUE
        BY <2>1, Zenon
      <4> QED
        BY <4>1
    <3>3. workers' = workers
      BY <2>1
    <3> QED
      BY <3>1, <3>2, <3>3, SMT DEF DecryptAwake, WorkerAt
  <2> QED
    BY <2>2, <2>3, <2>4
<1>5. CASE Join
  <2>1. main'.pc = "decide" /\ TypeOK'
    <3>1. Goto("decide")
      BY <1>5 DEF Join
    <3>2. decrypt' \in [drain : BOOLEAN, pending : BOOLEAN]
      BY <1>5, Zenon DEF Join, Dropped
    <3> QED
      BY <1>5, <3>1, <3>2, GotoType, Zenon DEF Join, Dropped, TypeOK
  <2> QED
    BY <1>5, <2>1, SMT DEF Join, Dropped, IdleInv, AcceptInv, DecryptAwake, WorkerAt
<1>6. CASE Decide
  <2>1. /\ main.pc = "decide" /\ main'.pc \in {"connect", "exited"}
        /\ main'.result \in Kinds \cup {"ok"}
        /\ main' = [pc |-> main'.pc, result |-> main'.result]
        /\ server' = "none" /\ wire' = {}
        /\ UNCHANGED <<running, active, closed, errors, workers, decrypt, incoming, changed>>
    BY <1>6, SMT DEF Decide, Main, pipeline, Kinds
  <2>2. TypeOK'
    BY <2>1, SMT DEF TypeOK
  <2> QED
    BY <2>1, <2>2, SMT DEF IdleInv, AcceptInv, DecryptAwake, WorkerAt
<1> QED
  BY <1>1, <1>2, <1>3, <1>4, <1>5, <1>6

(* A worker's step: it was not done, so a connection exists; main, server and *)
(* network are as they were.                                                  *)
LEMMA WorkerFrame ==
  ASSUME ClientInv, UNCHANGED outside, NEW w \in Workers, workers[w] \notin {"left", "done"},
         NEW pc \in Places \ {"left"}, Step(w, pc),
         active' \in BOOLEAN, closed' \subseteq Queues, errors' \in Kinds \cup {NoError},
         decrypt' \in [drain : BOOLEAN, pending : BOOLEAN],
         incoming' \in BOOLEAN, changed' \in BOOLEAN,
         DecryptAwake'
  PROVE  ClientInv'
<1>1. /\ workers' \in [Workers -> Places] /\ workers'[w] = pc
      /\ \A v \in Workers : v # w => workers'[v] = workers[v]
  BY StepFacts, Zenon DEF ClientInv
<1>2. TypeOK'
  BY <1>1, Zenon DEF ClientInv, TypeOK, outside, Places
<1>3. "encrypt" \in Workers /\ "udp_write" \in Workers
  BY DEF Workers
<1>4. IdleInv'
  BY <1>1, <1>3, SMT DEF ClientInv, IdleInv, outside
<1>5. AcceptInv'
  BY SMT DEF ClientInv, AcceptInv, outside
<1> QED
  BY <1>2, <1>4, <1>5 DEF ClientInv

(* Failing, reporting, closing and ending. *)
LEMMA EndStep ==
  ASSUME ClientInv, NEW w \in Workers, Fails(w) \/ Ends(w) \/ WriterStops(w)
  PROVE  ClientInv'
<1>1. PICK pc \in {"failed", "reported", "drain", "done"} : Step(w, pc)
  BY Zenon DEF Fails, Ends, Reports, Closes, ReaderEnds, PushRefused, ConsumerEnds, WriterStops
<1>2. workers[w] \in {"run", "read", "inject", "failed", "reported", "drain"}
  BY SMT DEF Fails, Ends, Reports, Closes, ReaderEnds, PushRefused, ConsumerEnds, WriterStops, WorkerAt
<1>3. /\ UNCHANGED outside /\ UNCHANGED <<decrypt, changed>>
      /\ active' \in {active, FALSE}
  BY Zenon DEF Fails, Ends, Reports, Closes, ReaderEnds, PushRefused, ConsumerEnds, WriterStops
<1>4. incoming' \in BOOLEAN /\ (incoming' => incoming)
  <2>1. incoming' = incoming \/ incoming' = (incoming /\ "encrypted_rx" \notin closed')
    BY Zenon DEF Fails, Ends, Reports, Closes, ReaderEnds, PushRefused, ConsumerEnds, WriterStops
  <2>2. incoming \in BOOLEAN
    BY DEF ClientInv, TypeOK
  <2>3. CASE incoming' = incoming
    BY <2>2, <2>3
  <2>4. CASE incoming' = (incoming /\ "encrypted_rx" \notin closed')
    BY <2>4, Zenon
  <2> QED
    BY <2>1, <2>3, <2>4
<1>5. closed' \subseteq Queues
  BY SMT DEF Fails, Ends, Reports, Closes, ReaderEnds, PushRefused, ConsumerEnds, WriterStops,
             ClientInv, TypeOK, ClosedBy, Queues
<1>6. errors' \in Kinds \cup {NoError}
  BY Zenon DEF Fails, Ends, Reports, Closes, ReaderEnds, PushRefused, ConsumerEnds, WriterStops,
               ClientInv, TypeOK
<1>7. /\ workers'[w] = pc
      /\ \A v \in Workers : v # w => workers'[v] = workers[v]
  BY <1>1, StepFacts DEF ClientInv
<1>8. "decrypt" \in Workers /\ "udp_read" \in Workers
  BY DEF Workers
<1>9. DecryptAwake'
  BY <1>1, <1>2, <1>3, <1>4, <1>7, <1>8, SMT DEF ClientInv, DecryptAwake, WorkerAt
<1>10. pc \in Places \ {"left"} /\ workers[w] \notin {"left", "done"}
  BY <1>2, SMT DEF Places
<1>11. /\ active' \in BOOLEAN /\ changed' \in BOOLEAN
       /\ decrypt' \in [drain : BOOLEAN, pending : BOOLEAN]
  BY <1>3, Zenon DEF ClientInv, TypeOK
<1> QED
  BY <1>1, <1>3, <1>4, <1>5, <1>6, <1>9, <1>10, <1>11, WorkerFrame, Zenon

(* The UDP reader pushes before it notifies; the UDP writer only notifies. *)
LEMMA UdpStep ==
  ASSUME ClientInv, UdpReceived \/ UdpSent
  PROVE  ClientInv'
<1>1. "decrypt" \in Workers /\ "udp_read" \in Workers
  BY DEF Workers
<1>2. CASE UdpReceived
  <2>1. PICK pc \in {"pushed", "run"} :
          /\ Step("udp_read", pc)
          /\ pc = "run" => changed' = TRUE
          /\ pc = "pushed" => changed' = changed
          /\ workers["udp_read"] \in {"run", "pushed"}
          /\ incoming' \in {incoming, TRUE} /\ changed' \in {changed, TRUE}
          /\ UNCHANGED <<active, closed, errors, decrypt>> /\ UNCHANGED outside
    BY <1>2, Zenon DEF UdpReceived, WorkerAt
  <2>2. /\ workers'["udp_read"] = pc
        /\ workers'["decrypt"] = workers["decrypt"]
    BY <1>1, <2>1, StepFacts DEF ClientInv
  <2>3. DecryptAwake'
    BY <2>1, <2>2, SMT DEF DecryptAwake, WorkerAt
  <2> QED
    <3>1. pc \in Places \ {"left"} /\ workers["udp_read"] \notin {"left", "done"}
      BY <2>1, SMT DEF Places
    <3>2. /\ active' \in BOOLEAN /\ changed' \in BOOLEAN /\ incoming' \in BOOLEAN
          /\ closed' \subseteq Queues /\ errors' \in Kinds \cup {NoError}
          /\ decrypt' \in [drain : BOOLEAN, pending : BOOLEAN]
      BY <2>1, Zenon DEF ClientInv, TypeOK
    <3> QED
      BY <1>1, <2>1, <2>3, <3>1, <3>2, WorkerFrame, Zenon
<1>3. CASE UdpSent
  <2>1. /\ changed' = TRUE
        /\ UNCHANGED <<active, closed, errors, workers, decrypt, incoming, running, main, server, wire>>
    BY <1>3 DEF UdpSent, outside
  <2> QED
    BY <2>1, SMT DEF ClientInv, TypeOK, IdleInv, AcceptInv, DecryptAwake, WorkerAt
<1> QED
  BY <1>2, <1>3

(* The decrypt worker goes to sleep only without a datagram. *)
LEMMA DecryptStep ==
  ASSUME ClientInv, DecryptNext
  PROVE  ClientInv'
<1>1. "decrypt" \in Workers /\ "udp_read" \in Workers
  BY DEF Workers
<1>2. PICK pc \in {"run", "observe", "read", "take", "inject", "sleep", "done"} : Step("decrypt", pc)
  BY Zenon DEF DecryptNext, DecryptLoop, DecryptObserve, DecryptRead, DecryptTake, DecryptInject, DecryptWakes
<1>3. workers["decrypt"] \in {"run", "observe", "read", "take", "inject", "sleep"}
  BY SMT DEF DecryptNext, DecryptLoop, DecryptObserve, DecryptRead, DecryptTake, DecryptInject, DecryptWakes, WorkerAt
<1>4. UNCHANGED outside /\ UNCHANGED <<active, closed, errors>>
  BY Zenon DEF DecryptNext, DecryptLoop, DecryptObserve, DecryptRead, DecryptTake, DecryptInject, DecryptWakes
<1>5. incoming' \in BOOLEAN /\ changed' \in BOOLEAN
  BY Zenon DEF DecryptNext, DecryptLoop, DecryptObserve, DecryptRead, DecryptTake, DecryptInject, DecryptWakes,
               ClientInv, TypeOK
<1>6. decrypt' \in [drain : BOOLEAN, pending : BOOLEAN]
  <2>1. \/ decrypt' = decrypt
        \/ decrypt' = [decrypt EXCEPT !.drain = FALSE]
        \/ decrypt' = [decrypt EXCEPT !.pending = TRUE]
        \/ \E taken \in BOOLEAN : decrypt' = [drain |-> TRUE, pending |-> ~taken]
    BY Zenon DEF DecryptNext, DecryptLoop, DecryptObserve, DecryptRead, DecryptTake, DecryptInject, DecryptWakes
  <2>2. decrypt \in [drain : BOOLEAN, pending : BOOLEAN]
    BY DEF ClientInv, TypeOK
  <2>3. ASSUME NEW taken \in BOOLEAN, decrypt' = [drain |-> TRUE, pending |-> ~taken]
        PROVE  decrypt' \in [drain : BOOLEAN, pending : BOOLEAN]
    BY <2>3, Zenon
  <2>4. /\ [decrypt EXCEPT !.drain = FALSE] \in [drain : BOOLEAN, pending : BOOLEAN]
        /\ [decrypt EXCEPT !.pending = TRUE] \in [drain : BOOLEAN, pending : BOOLEAN]
    BY <2>2, Zenon
  <2> QED
    BY <2>1, <2>2, <2>3, <2>4
<1>7. workers'["decrypt"] = pc
  BY <1>1, <1>2, StepFacts DEF ClientInv
<1>8. workers'["decrypt"] = "sleep" => ~incoming'
  <2>1. workers'["decrypt"] = "sleep" => DecryptTake
    BY <1>1, StepFacts, SMT DEF ClientInv, DecryptNext, DecryptLoop, DecryptObserve, DecryptRead, DecryptInject, DecryptWakes
  <2>2. DecryptTake /\ incoming => Step("decrypt", "inject")
    BY Zenon DEF DecryptTake
  <2>3. DecryptTake /\ ~incoming /\ ~decrypt.pending => incoming' = incoming
    BY Zenon DEF DecryptTake
  <2>4. DecryptTake /\ decrypt.pending => Step("decrypt", "inject")
    BY Zenon DEF DecryptTake
  <2>5. Step("decrypt", "inject") => workers'["decrypt"] = "inject"
    BY <1>1, StepFacts DEF ClientInv
  <2> QED
    BY <2>1, <2>2, <2>3, <2>4, <2>5, SMT
<1>9. DecryptAwake'
  BY <1>8, Zenon DEF DecryptAwake, WorkerAt
<1> QED
  BY <1>1, <1>2, <1>3, <1>4, <1>5, <1>6, <1>9, WorkerFrame, SMT DEF ClientInv, TypeOK, Places

(* Every step keeps the invariant. *)
LEMMA ClientStep == ClientInv /\ [Next]_vars => ClientInv'
<1> SUFFICES ASSUME ClientInv, [Next]_vars PROVE ClientInv'
  OBVIOUS
<1>1. CASE UNCHANGED vars
  BY <1>1, SMT DEF vars, ClientInv, TypeOK, IdleInv, AcceptInv, DecryptAwake, WorkerAt
<1> QED
  BY <1>1, AuthStep, LeftStep, NetworkStep, MainStep, EndStep, UdpStep, DecryptStep DEF Next, MainNext

(* The state of the client stays well-formed and its workers are never        *)
(* neglected by what they wait for.                                           *)
LEMMA ClientInvariant == Spec => []ClientInv
  BY ClientInit, ClientStep, PTL DEF Spec

(* Every variable keeps its type, so run_with_login knows every result. *)
THEOREM ClientTypeCorrect == Spec => []TypeOK
<1>1. ClientInv => TypeOK
  BY DEF ClientInv
<1> QED
  BY <1>1, ClientInvariant, PTL

(* The decrypt worker never sleeps over a datagram in encrypted_rx. *)
THEOREM DecryptNeverOversleeps == Spec => []DecryptAwake
<1>1. ClientInv => DecryptAwake
  BY DEF ClientInv
<1> QED
  BY <1>1, ClientInvariant, PTL

(* The workers of one connection have ended before the next one begins; of a    *)
(* start that failed only such are left as neither encrypt nor send.            *)
THEOREM ConnectionsDoNotOverlap == Spec => []NoOverlap
<1>1. ClientInv => NoOverlap
  BY SMT DEF ClientInv, IdleInv, NoOverlap, WorkerAt, Workers
<1> QED
  BY <1>1, ClientInvariant, PTL

(* Workers run only for a session that the server has authenticated. *)
THEOREM OnlyAuthenticated == Spec => []Agreement
<1>1. ClientInv => Agreement
  BY DEF ClientInv, AcceptInv, Agreement
<1> QED
  BY <1>1, ClientInvariant, PTL

-----------------------------------------------------------------------------
(* Why join returns: what fairness only has to drive *)

(* After the cleanup nothing is left that a worker could wait for or work on: *)
(* the flag is cleared, every queue closed, no datagram waits, and a decrypt  *)
(* worker that sleeps has been notified.                                      *)
CleanupReachesAll ==
  /\ main.pc \in {"close", "notify", "join"} => ~active
  /\ main.pc \in {"notify", "join"} => closed = Queues /\ ~incoming
  /\ Main("join") /\ WorkerAt("decrypt", "sleep") => changed

(* How many steps a worker is from its end once the cleanup is done. *)
StepsToEnd(place) ==
  CASE place = "done"                           -> 0
    [] place = "drain"                          -> 1
    [] place = "reported"                       -> 2
    [] place = "failed"                         -> 3
    [] place = "run"                            -> 4
    [] place \in {"pushed", "sleep", "inject"}  -> 5
    [] place = "take"                           -> 6
    [] place = "read"                           -> 7
    [] place = "observe"                        -> 8

(* While main waits in join, a worker that moves comes nearer to its end: no  *)
(* worker takes up new work, and none goes back to sleep.                     *)
JoinCountsDown ==
  [][Main("join") =>
       \A w \in Workers : workers'[w] # workers[w] =>
                            StepsToEnd(workers'[w]) < StepsToEnd(workers[w])]_vars

(* What a worker can do while main cleans up. *)
Quiet ==
  /\ main' = main
  /\ active' => active
  /\ closed \subseteq closed'
  /\ incoming' => incoming \/ "encrypted_rx" \notin closed
  /\ workers'["decrypt"] = "sleep" =>
       \/ "encrypted_rx" \notin closed
       \/ workers["decrypt"] = "sleep" /\ (changed => changed')

LEMMA EndQuiet ==
  ASSUME ClientInv, NEW w \in Workers, Fails(w) \/ Ends(w) \/ WriterStops(w)
  PROVE  Quiet
<1> USE DEF Fails, Ends, Reports, Closes, ReaderEnds, PushRefused, ConsumerEnds, WriterStops
<1>1. PICK pc \in {"failed", "reported", "drain", "done"} : Step(w, pc)
  BY Zenon
<1>2. main' = main /\ changed' = changed
  BY Zenon DEF outside
<1>3. active' => active
  <2>1. active' = active \/ active' = FALSE
    BY Zenon
  <2> QED
    BY <2>1
<1>4. closed \subseteq closed'
  <2>1. closed' = closed \/ closed' = closed \cup ClosedBy(w)
    BY Zenon
  <2> QED
    BY <2>1, Zenon
<1>5. incoming' => incoming
  <2>1. incoming' = incoming \/ incoming' = (incoming /\ "encrypted_rx" \notin closed')
    BY Zenon
  <2>2. CASE incoming' = incoming
    BY <2>2
  <2>3. CASE incoming' = (incoming /\ "encrypted_rx" \notin closed')
    BY <2>3, Zenon
  <2> QED
    BY <2>1, <2>2, <2>3
<1>6. workers'["decrypt"] = "sleep" => workers["decrypt"] = "sleep"
  <2>1. workers'[w] = pc /\ \A v \in Workers : v # w => workers'[v] = workers[v]
    BY <1>1, StepFacts DEF ClientInv
  <2>2. "decrypt" \in Workers
    BY DEF Workers
  <2>3. pc # "sleep"
    BY <1>1
  <2> QED
    BY <2>1, <2>2, <2>3, Zenon
<1> QED
  BY <1>2, <1>3, <1>4, <1>5, <1>6, Zenon DEF Quiet

LEMMA UdpQuiet ==
  ASSUME ClientInv, UdpReceived \/ UdpSent
  PROVE  Quiet
<1>1. main' = main /\ active' = active /\ closed' = closed
  BY Zenon DEF UdpReceived, UdpSent, outside
<1>2. incoming' => incoming \/ "encrypted_rx" \notin closed
  <2>1. incoming' = incoming \/ "encrypted_rx" \notin closed
    BY Zenon DEF UdpReceived, UdpSent
  <2> QED
    BY <2>1, Zenon
<1>3. changed => changed'
  <2>1. changed' = changed \/ changed' = TRUE
    BY Zenon DEF UdpReceived, UdpSent
  <2> QED
    BY <2>1
<1>4. workers'["decrypt"] = workers["decrypt"]
  <2>1. CASE UdpReceived
    <3>1. "udp_read" \in Workers /\ "decrypt" \in Workers /\ "decrypt" # "udp_read"
      BY DEF Workers
    <3>2. Step("udp_read", "pushed") \/ Step("udp_read", "run")
      BY <2>1, Zenon DEF UdpReceived
    <3> QED
      BY <3>1, <3>2, StepFacts DEF ClientInv
  <2>2. CASE UdpSent
    BY <2>2, Zenon DEF UdpSent
  <2> QED
    BY <2>1, <2>2
<1> QED
  BY <1>1, <1>2, <1>3, <1>4, Zenon DEF Quiet

LEMMA DecryptQuiet ==
  ASSUME ClientInv, DecryptNext
  PROVE  Quiet
<1> USE DEF DecryptNext, DecryptLoop, DecryptObserve, DecryptRead, DecryptTake, DecryptInject, DecryptWakes
<1>1. main' = main /\ active' = active /\ closed' = closed
  BY Zenon DEF outside
<1>2. incoming' => incoming
  <2>1. incoming' = incoming \/ (incoming /\ incoming' \in BOOLEAN)
    BY Zenon DEF ClientInv, TypeOK
  <2> QED
    BY <2>1
<1>3. workers'["decrypt"] = "sleep" => "encrypted_rx" \notin closed
  <2>1. "decrypt" \in Workers
    BY DEF Workers
  <2>2. \/ \E pc \in {"run", "observe", "read", "take", "inject", "done"} : Step("decrypt", pc)
        \/ "encrypted_rx" \notin closed
    BY Zenon
  <2>3. ASSUME NEW pc \in {"run", "observe", "read", "take", "inject", "done"}, Step("decrypt", pc)
        PROVE  workers'["decrypt"] # "sleep"
    <3>1. workers'["decrypt"] = pc
      BY <2>1, <2>3, StepFacts DEF ClientInv
    <3> QED
      BY <3>1, SMT
  <2> QED
    BY <2>2, <2>3
<1> QED
  BY <1>1, <1>2, <1>3, Zenon DEF Quiet

LEMMA CleanupInit == Init => CleanupReachesAll
  BY SMT DEF Init, CleanupReachesAll, Main, WorkerAt

LEMMA CleanupStep ==
  ASSUME ClientInv, CleanupReachesAll, [Next]_vars
  PROVE  CleanupReachesAll'
<1> USE DEF CleanupReachesAll
<1>1. CASE Quiet
  <2>1. closed' \subseteq Queues
    BY ClientStep DEF ClientInv, TypeOK
  <2>2. "encrypted_rx" \in Queues
    BY DEF Queues
  <2> QED
    BY <1>1, <2>1, <2>2, SMT DEF Quiet, Main, WorkerAt
<1>2. CASE main'.pc \notin {"close", "notify", "join"}
  BY <1>2, SMT DEF Main
<1>3. CASE StopWorkers \/ CloseQueues \/ NotifyProgress
  <2>1. CASE StopWorkers
    <3>1. Goto("close") /\ active' = FALSE
      BY <2>1, Zenon DEF StopWorkers
    <3>2. main'.pc = "close"
      BY <3>1, GotoType, SMT DEF ClientInv
    <3> QED
      BY <3>1, <3>2, SMT DEF Main
  <2>2. CASE CloseQueues
    <3>1. Goto("notify") /\ active' = active /\ main.pc = "close" /\ closed' = Queues /\ incoming' = FALSE
      BY <2>2, Zenon DEF CloseQueues, Main
    <3>2. main'.pc = "notify"
      BY <3>1, GotoType, SMT DEF ClientInv
    <3> QED
      BY <3>1, <3>2, SMT DEF Main
  <2>3. CASE NotifyProgress
    <3>1. /\ Goto("join") /\ active' = active /\ main.pc = "notify"
          /\ closed' = closed /\ incoming' = incoming /\ changed' = TRUE
      BY <2>3, Zenon DEF NotifyProgress, Main
    <3>2. main'.pc = "join"
      BY <3>1, GotoType, SMT DEF ClientInv
    <3> QED
      BY <3>1, <3>2, SMT DEF Main
  <2> QED
    BY <1>3, <2>1, <2>2, <2>3
<1>4. CASE \/ \E accepted \in BOOLEAN : LoginArrives(accepted)
           \/ ServerRoutes
           \/ \E record \in Records : Lose(record)
           \/ Interrupt
           \/ UNCHANGED vars
  <2>1. UNCHANGED <<main, active, closed, incoming, workers, changed>>
    BY <1>4 DEF LoginArrives, ServerRoutes, Lose, Interrupt, pipeline, vars
  <2> QED
    BY <2>1, SMT DEF Main, WorkerAt
<1>5. CASE \/ \E answer \in {{"AUTH_OK"}, {"AUTH_REQUIRED"}, {}} : Connect(answer)
           \/ \E kind \in Kinds : ConnectFails(kind)
           \/ AuthFails
           \/ \E record \in Records : Challenged(record) \/ LoginAnswered(record)
           \/ Spawn \/ (\E n \in 0..5 : SpawnFails(n)) \/ RunLoop \/ ReceiveError \/ Join \/ Decide
  <2>1. \/ \E pc \in {"auth", "spawn", "login", "run", "receive", "decide"} : Goto(pc)
        \/ \E pc \in {"decide", "stop"}, result \in Kinds \cup {"ok", NoError} : Leave(pc, result)
        \/ main'.pc \in {"connect", "exited"}
    <3>1. CASE \/ \E answer \in {{"AUTH_OK"}, {"AUTH_REQUIRED"}, {}} : Connect(answer)
               \/ Spawn \/ Join
      BY <3>1, Zenon DEF Connect, Spawn, Join
    <3>2. CASE (\E kind \in Kinds : ConnectFails(kind)) \/ AuthFails \/ (\E n \in 0..5 : SpawnFails(n))
      BY <3>2, Zenon DEF ConnectFails, AuthFails, SpawnFails, Kinds
    <3>3. CASE \E record \in Records : Challenged(record) \/ LoginAnswered(record)
      BY <3>3, SMT DEF Challenged, LoginAnswered, Records, Kinds
    <3>4. CASE RunLoop \/ ReceiveError
      BY <3>4, Zenon DEF RunLoop, ReceiveError, Kinds, ClientInv, TypeOK
    <3>5. CASE Decide
      BY <3>5, SMT DEF Decide
    <3> QED
      BY <1>5, <3>1, <3>2, <3>3, <3>4, <3>5
  <2>2. main'.pc \notin {"close", "notify", "join"}
    BY <2>1, GotoType, SMT DEF ClientInv, Leave
  <2> QED
    BY <1>2, <2>2
<1>6. ASSUME NEW w \in Workers, LeftEnds(w)
      PROVE  CleanupReachesAll'
  <2>1. main' = main /\ workers[w] = "left"
    BY <1>6 DEF LeftEnds
  <2>2. main.pc \notin {"close", "notify", "join"}
    BY <2>1, SMT DEF ClientInv, IdleInv
  <2> QED
    BY <1>2, <2>1, <2>2
<1> QED
  BY <1>1, <1>3, <1>4, <1>5, <1>6, EndQuiet, UdpQuiet, DecryptQuiet DEF Next, MainNext

LEMMA CleanupInvariant == Spec => [](ClientInv /\ CleanupReachesAll)
  BY ClientInvariant, CleanupInit, CleanupStep, PTL DEF Spec

(* The three steps of the cleanup reach every worker: the flag those that     *)
(* poll, the queues those that take from one, the signal the decrypt worker.  *)
THEOREM CleanupWakesAll == Spec => []CleanupReachesAll
  BY CleanupInvariant, PTL

(* The moves left to a worker after the cleanup. *)
Moves == {<<"run", "failed">>, <<"read", "failed">>, <<"inject", "failed">>,
          <<"failed", "reported">>, <<"reported", "drain">>, <<"reported", "done">>,
          <<"run", "done">>, <<"drain", "done">>, <<"pushed", "run">>, <<"sleep", "run">>,
          <<"read", "run">>, <<"read", "done">>, <<"read", "take">>,
          <<"observe", "read">>, <<"observe", "take">>, <<"take", "inject">>, <<"take", "done">>, <<"inject", "run">>}

LEMMA MovesDown ==
  ASSUME NEW from, NEW to, <<from, to>> \in Moves
  PROVE  StepsToEnd(to) < StepsToEnd(from)
  BY DEF Moves, StepsToEnd

(* A step of worker w alone that is one of the moves. *)
LEMMA MoveOf ==
  ASSUME ClientInv, NEW w \in Workers, NEW from, NEW to,
         workers[w] = from, Step(w, to), <<from, to>> \in Moves
  PROVE  \A v \in Workers : workers'[v] # workers[v] => <<workers[v], workers'[v]>> \in Moves
<1>1. workers'[w] = to /\ \A v \in Workers : v # w => workers'[v] = workers[v]
  BY StepFacts DEF ClientInv
<1> QED
  BY <1>1, Zenon

LEMMA JoinMoves ==
  ASSUME ClientInv, CleanupReachesAll, Main("join"), [Next]_vars, NEW v \in Workers,
         workers'[v] # workers[v]
  PROVE  <<workers[v], workers'[v]>> \in Moves
<1>0. ~active /\ closed = Queues /\ ~incoming
  BY SMT DEF CleanupReachesAll, Main
<1>1. CASE UNCHANGED workers
  BY <1>1
<1>2. ASSUME NEW w \in Workers, Fails(w) \/ Ends(w) \/ WriterStops(w)
      PROVE  <<workers[v], workers'[v]>> \in Moves
  <2>1. \E from, to : workers[w] = from /\ Step(w, to) /\ <<from, to>> \in Moves
    <3>1. CASE Fails(w)
      <4>1. workers[w] \in {"run", "read", "inject"} /\ Step(w, "failed")
        BY <3>1, SMT DEF Fails, WorkerAt
      <4>2. <<workers[w], "failed">> \in Moves
        BY <4>1, SMT DEF Moves
      <4> QED
        BY <4>1, <4>2
    <3>2. CASE \E kind \in Kinds : Reports(w, kind)
      BY <3>2, Zenon DEF Reports, WorkerAt, Moves
    <3>3. CASE Closes(w)
      <4>1. workers[w] = "reported" /\ (Step(w, "drain") \/ Step(w, "done"))
        BY <3>3, Zenon DEF Closes, WorkerAt
      <4>2. <<"reported", "drain">> \in Moves /\ <<"reported", "done">> \in Moves
        BY DEF Moves
      <4> QED
        BY <4>1, <4>2
    <3>4. CASE ReaderEnds(w) \/ PushRefused(w) \/ ConsumerEnds(w) \/ WriterStops(w)
      <4>1. workers[w] \in {"run", "drain"} /\ Step(w, "done")
        BY <3>4, Zenon DEF ReaderEnds, PushRefused, ConsumerEnds, WriterStops, WorkerAt
      <4>2. <<workers[w], "done">> \in Moves
        BY <4>1, SMT DEF Moves
      <4> QED
        BY <4>1, <4>2
    <3> QED
      BY <1>2, <3>1, <3>2, <3>3, <3>4 DEF Ends
  <2> QED
    BY <2>1, MoveOf
<1>3. CASE UdpReceived \/ UdpSent
  <2>1. CASE UdpReceived
    <3>1. "encrypted_rx" \in Queues /\ "udp_read" \in Workers
      BY DEF Queues, Workers
    <3>2. workers["udp_read"] = "pushed" /\ Step("udp_read", "run")
      BY <1>0, <2>1, <3>1, Zenon DEF UdpReceived, WorkerAt
    <3>3. <<"pushed", "run">> \in Moves
      BY DEF Moves
    <3> QED
      BY <3>1, <3>2, <3>3, MoveOf
  <2>2. CASE UdpSent
    BY <1>1, <2>2 DEF UdpSent
  <2> QED
    BY <1>3, <2>1, <2>2
<1>4. CASE DecryptNext
  <2>0. "encrypted_rx" \in Queues /\ "decrypt" \in Workers
    BY DEF Queues, Workers
  <2>1. \E from, to : workers["decrypt"] = from /\ Step("decrypt", to) /\ <<from, to>> \in Moves
    <3>1. CASE DecryptLoop
      <4>1. workers["decrypt"] = "run" /\ Step("decrypt", "done")
        BY <1>0, <3>1, Zenon DEF DecryptLoop, WorkerAt
      <4> QED
        BY <4>1, Zenon DEF Moves
    <3>6. CASE DecryptObserve
      <4>1. workers["decrypt"] = "observe" /\ \E to \in {"read", "take"} : Step("decrypt", to)
        BY <3>6, Zenon DEF DecryptObserve, WorkerAt
      <4>2. \A to \in {"read", "take"} : <<"observe", to>> \in Moves
        BY SMT DEF Moves
      <4> QED
        BY <4>1, <4>2, Zenon
    <3>2. CASE DecryptRead
      <4>1. workers["decrypt"] = "read" /\ \E to \in {"run", "done", "take"} : Step("decrypt", to)
        BY <3>2, Zenon DEF DecryptRead, WorkerAt
      <4>2. \A to \in {"run", "done", "take"} : <<"read", to>> \in Moves
        BY SMT DEF Moves
      <4> QED
        BY <4>1, <4>2, Zenon
    <3>3. CASE DecryptTake
      <4>1. workers["decrypt"] = "take" /\ \E to \in {"inject", "done"} : Step("decrypt", to)
        BY <1>0, <2>0, <3>3, Zenon DEF DecryptTake, WorkerAt
      <4>2. \A to \in {"inject", "done"} : <<"take", to>> \in Moves
        BY SMT DEF Moves
      <4> QED
        BY <4>1, <4>2, Zenon
    <3>4. CASE \E taken \in BOOLEAN : DecryptInject(taken)
      BY <3>4, Zenon DEF DecryptInject, WorkerAt, Moves
    <3>5. CASE DecryptWakes
      BY <3>5, Zenon DEF DecryptWakes, WorkerAt, Moves
    <3> QED
      BY <1>4, <3>1, <3>2, <3>3, <3>4, <3>5, <3>6 DEF DecryptNext
  <2> QED
    BY <2>0, <2>1, MoveOf
<1>5. CASE MainNext
  <2>1. ~Spawn /\ ~(\E n \in 0..5 : SpawnFails(n))
    BY SMT DEF Spawn, SpawnFails, Main
  <2>2. UNCHANGED workers
    BY <1>5, <2>1, Zenon DEF MainNext, Connect, ConnectFails, AuthFails, Challenged, LoginAnswered,
       RunLoop, ReceiveError, StopWorkers, CloseQueues, NotifyProgress, Join, Decide, pipeline
  <2> QED
    BY <1>1, <2>2
<1>6. CASE \/ \E accepted \in BOOLEAN : LoginArrives(accepted)
           \/ ServerRoutes
           \/ \E record \in Records : Lose(record)
           \/ Interrupt
           \/ UNCHANGED vars
  BY <1>1, <1>6 DEF LoginArrives, ServerRoutes, Lose, Interrupt, pipeline, vars
<1>7. ASSUME NEW w \in Workers
      PROVE  ~LeftEnds(w)
  BY SMT DEF LeftEnds, ClientInv, IdleInv, Main
<1> QED
  BY <1>2, <1>3, <1>4, <1>5, <1>6, <1>7 DEF Next

(* A worker takes at most eight steps after the cleanup, so join, which only  *)
(* needs them to be taken, returns.                                           *)
THEOREM JoinBounded == Spec => JoinCountsDown
<1>1. ClientInv /\ CleanupReachesAll /\ [Next]_vars =>
        [Main("join") =>
           \A w \in Workers : workers'[w] # workers[w] =>
                                StepsToEnd(workers'[w]) < StepsToEnd(workers[w])]_vars
  <2> SUFFICES ASSUME ClientInv, CleanupReachesAll, [Next]_vars, Main("join"),
                      NEW w \in Workers, workers'[w] # workers[w]
               PROVE  StepsToEnd(workers'[w]) < StepsToEnd(workers[w])
    OBVIOUS
  <2>1. <<workers[w], workers'[w]>> \in Moves
    BY JoinMoves
  <2> QED
    BY <2>1, MovesDown
<1> QED
  BY <1>1, CleanupInvariant, PTL DEF Spec, JoinCountsDown

=============================================================================
