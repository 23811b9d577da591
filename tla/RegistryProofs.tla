---------------------------- MODULE RegistryProofs ----------------------------
(***************************************************************************)
(* Proofs about the client registry, for every network, every set of       *)
(* requests and any number of updates in the channel.                      *)
(***************************************************************************)
EXTENDS Registry, TLAPS

-----------------------------------------------------------------------------
(* Type correctness *)

(* What a request carries is a client. *)
LEMMA InputIsClient == Input \subseteq Client
  BY InputsAssumption, SMT DEF Input, Client, Logins

(* The bindings made of entries are bindings. *)
LEMMA ParsedType ==
  ASSUME NEW S, S \subseteq Client
  PROVE  Parsed(S) \subseteq Binding
  BY SMT DEF Parsed, Binding, Client, Name, Logins

(* The entries that are left are entries. *)
LEMMA WithoutType ==
  ASSUME NEW n
  PROVE  Without(n) \subseteq file
  BY DEF Without

(* The web process accepts no login that is only half of one. *)
LEMMA AcceptableType ==
  ASSUME NEW c, Acceptable(c)
  PROVE  c.login # "half"
  BY DEF Acceptable

(* The initial state has its types. *)
LEMMA TypeInit == Init => TypeOK
<1> SUFFICES ASSUME Init PROVE TypeOK
  OBVIOUS
<1>1. file \subseteq {c \in Client : c.login # "half"}
  BY InputsAssumption, SMT DEF Init, Loads
<1>2. request \in [Requests -> [kind : {"none", "issue", "delete"}, client : Client,
                               pc : {"idle", "ready", "confirm", "ok", "failed", "unrolled"}]]
  <2>1. ASSUME NEW r \in Requests
        PROVE  NoRequest \in [kind : {"none", "issue", "delete"}, client : Client,
                              pc : {"idle", "ready", "confirm", "ok", "failed", "unrolled"}]
    <3>1. (CHOOSE f \in Fingerprints : TRUE) \in Fingerprints
      BY <2>1, Zenon DEF Fingerprints
    <3>2. [value |-> 0, plain |-> TRUE] \in Name
      BY NetworkAssumption, SMT DEF ValidNetwork, Name
    <3> QED
      BY <3>1, <3>2, SMT DEF NoRequest, Client, Logins
  <2> QED
    BY <2>1, Zenon DEF Init
<1>3. adopted \subseteq Binding
  <2>1. file \subseteq Client
    BY <1>1
  <2> QED
    BY <2>1, ParsedType, Zenon DEF Init
<1> QED
  BY <1>1, <1>2, <1>3, SMT DEF Init, TypeOK

(* Answering the served requests keeps the type of the answers. *)
LEMMA TellType ==
  ASSUME TypeOK, NEW S, NEW v \in {"read", "yes", "no"}, Tell(S, v)
  PROVE  answer' \in [Requests -> {"none", "asked", "read", "yes", "no"}]
  BY SMT DEF TypeOK, Tell

(* A request that goes on keeps its type, and so does an answer. *)
LEMMA MovesType ==
  ASSUME TypeOK, NEW r \in Requests, NEW pc \in {"ready", "confirm", "ok", "failed", "unrolled"},
         request' = [request EXCEPT ![r].pc = pc]
  PROVE  request' \in [Requests -> [kind : {"none", "issue", "delete"}, client : Client,
                                    pc : {"idle", "ready", "confirm", "ok", "failed", "unrolled"}]]
  BY SMT DEF TypeOK

(* A new command keeps the type of the answers. *)
LEMMA AskType ==
  ASSUME TypeOK, NEW r \in Requests, answer' = [answer EXCEPT ![r] = "asked"]
  PROVE  answer' \in [Requests -> {"none", "asked", "read", "yes", "no"}]
  BY SMT DEF TypeOK

(* The last element of a sequence. *)
LEMMA LastType ==
  ASSUME NEW U, NEW s \in Seq(U), s # << >>
  PROVE  s[Len(s)] \in U
  BY SMT

(* An update whose acknowledgement nobody waits for is an update. *)
LEMMA UnackedType ==
  ASSUME NEW B, NEW x \in [bindings : B, ack : BOOLEAN]
  PROVE  /\ [x EXCEPT !.ack = FALSE] \in [bindings : B, ack : BOOLEAN]
         /\ [x EXCEPT !.ack = FALSE].bindings = x.bindings
         /\ [x EXCEPT !.ack = FALSE].ack = FALSE
  BY Zenon

(* Acknowledgements that nobody waits for any more. *)
LEMMA ClearedType ==
  ASSUME NEW B, NEW s \in Seq([bindings : B, ack : BOOLEAN])
  PROVE  [i \in 1..Len(s) |-> [s[i] EXCEPT !.ack = FALSE]] \in Seq([bindings : B, ack : BOOLEAN])
<1> DEFINE U == [bindings : B, ack : BOOLEAN]
           e(i) == [s[i] EXCEPT !.ack = FALSE]
<1>1. ASSUME NEW i \in 1..Len(s) PROVE e(i) \in U
  <2>1. s[i] \in U
    <3>1. s \in Seq(U)
      OBVIOUS
    <3> HIDE DEF U
    <3> QED
      BY <1>1, <3>1, SMT
  <2> QED
    BY <2>1, UnackedType
<1>2. Len(s) \in Nat
  <2>1. s \in Seq(U)
    OBVIOUS
  <2> HIDE DEF U
  <2> QED
    BY <2>1, SMT
<1> SUFFICES [i \in 1..Len(s) |-> e(i)] \in Seq(U)
  OBVIOUS
<1> HIDE DEF U, e
<1> QED
  BY <1>1, <1>2, SMT

(* Every step keeps the types. *)
LEMMA TypeStep == TypeOK /\ [Next]_vars => TypeOK'
<1> SUFFICES ASSUME TypeOK, [Next]_vars PROVE TypeOK'
  OBVIOUS
<1> USE DEF web, server
<1>1. ASSUME NEW r \in Requests, NEW client \in Input, Put(r, client)
      PROVE  TypeOK'
  <2>1. client \in Client
    BY InputIsClient
  <2>2. client.fingerprint \in Fingerprints
    BY <2>1, SMT DEF Client
  <2>3. CASE Acceptable(client)
    <3>1. client.login # "half"
      BY <2>3, AcceptableType
    <3>2. file' = Without(client.name) \cup {client}
      BY <1>1, <2>3 DEF Put
    <3>3. file' \subseteq {c \in Client : c.login # "half"}
      BY <2>1, <3>1, <3>2, WithoutType, Zenon DEF TypeOK
    <3>4. /\ request' = [request EXCEPT ![r].pc = "ok"]
          /\ stands' = [q \in Requests |-> stands[q] /\ request[q].client.name # client.name]
          /\ put' = put \cup {client.fingerprint}
          /\ UNCHANGED <<answer, control, channel, adopted>>
      BY <1>1, <2>3, Zenon DEF Put, Moves
    <3>5. stands' \in [Requests -> BOOLEAN]
      BY <3>4, Zenon DEF TypeOK
    <3> QED
      BY <2>2, <3>3, <3>4, <3>5, SMT DEF TypeOK
  <2>4. CASE ~Acceptable(client)
    <3>1. /\ request' = [request EXCEPT ![r].pc = "failed"]
          /\ UNCHANGED <<file, stands, put, answer, control, channel, adopted>>
      BY <1>1, <2>4, Zenon DEF Put, Moves
    <3> QED
      BY <3>1, MovesType, Zenon DEF TypeOK
  <2> QED
    BY <2>3, <2>4
<1>2. ASSUME NEW r \in Requests, NEW client \in Input, NEW kind \in {"issue", "delete"},
             Arrive(r, kind, client)
      PROVE  TypeOK'
  <2>1. client \in Client
    BY InputIsClient
  <2> QED
    BY <1>2, <2>1, SMT DEF Arrive, Ask, TypeOK
<1>3. ASSUME NEW r \in Requests,
             PutFails(r) \/ NotReady(r) \/ EditFails(r) \/ Confirmed(r) \/ RollbackFails(r)
      PROVE  TypeOK'
  <2>1. /\ \E pc \in {"ok", "failed", "unrolled"} : request' = [request EXCEPT ![r].pc = pc]
        /\ UNCHANGED <<file, stands, answer, put, control, channel, adopted>>
    BY <1>3, Zenon DEF PutFails, NotReady, EditFails, Confirmed, RollbackFails, Moves
  <2>2. request' \in [Requests -> [kind : {"none", "issue", "delete"}, client : Client,
                                   pc : {"idle", "ready", "confirm", "ok", "failed", "unrolled"}]]
    BY <2>1, MovesType
  <2> QED
    BY <2>1, <2>2, Zenon DEF TypeOK
<1>4. ASSUME NEW r \in Requests, NEW S, S \subseteq {c \in Client : c.login # "half"}, Write(r, S)
      PROVE  /\ file' \subseteq {c \in Client : c.login # "half"}
             /\ stands' \in [Requests -> BOOLEAN]
  BY <1>4, SMT DEF Write, TypeOK
<1>5. ASSUME NEW r \in Requests, Issue(r)
      PROVE  TypeOK'
  <2> DEFINE S == Without(request[r].client.name) \cup {request[r].client}
  <2>1. /\ Acceptable(request[r].client) /\ Write(r, S)
        /\ request' = [request EXCEPT ![r].pc = "confirm"]
        /\ answer' = [answer EXCEPT ![r] = "asked"]
        /\ UNCHANGED <<put, control, channel, adopted>>
    BY <1>5, Zenon DEF Issue, Moves, Ask
  <2>2. request[r].client \in Client
    BY SMT DEF TypeOK
  <2>3. S \subseteq {c \in Client : c.login # "half"}
    BY <2>1, <2>2, WithoutType, AcceptableType, Zenon DEF TypeOK
  <2>4. /\ file' \subseteq {c \in Client : c.login # "half"}
        /\ stands' \in [Requests -> BOOLEAN]
    BY <1>4, <2>1, <2>3
  <2> QED
    BY <2>1, <2>4, MovesType, AskType, Zenon DEF TypeOK
<1>6. ASSUME NEW r \in Requests, Remove(r)
      PROVE  TypeOK'
  <2> DEFINE n == request[r].client.name
  <2>1. CASE ValidAddress(n) /\ Registered(n)
    <3>1. /\ Write(r, Without(n))
          /\ request' = [request EXCEPT ![r].pc = "confirm"]
          /\ answer' = [answer EXCEPT ![r] = "asked"]
          /\ UNCHANGED <<put, control, channel, adopted>>
      BY <1>6, <2>1, Zenon DEF Remove, Moves, Ask
    <3>2. Without(n) \subseteq {c \in Client : c.login # "half"}
      BY WithoutType, Zenon DEF TypeOK
    <3>3. /\ file' \subseteq {c \in Client : c.login # "half"}
          /\ stands' \in [Requests -> BOOLEAN]
      BY <1>4, <3>1, <3>2
    <3> QED
      BY <3>1, <3>3, MovesType, AskType, Zenon DEF TypeOK
  <2>2. CASE ~(ValidAddress(n) /\ Registered(n))
    <3>1. /\ request' = [request EXCEPT ![r].pc = "failed"]
          /\ UNCHANGED <<file, stands, answer, put, control, channel, adopted>>
      BY <1>6, <2>2, Zenon DEF Remove, Moves
    <3> QED
      BY <3>1, SMT DEF TypeOK
  <2> QED
    BY <2>1, <2>2
<1>7. ASSUME NEW r \in Requests, Unconfirmed(r)
      PROVE  TypeOK'
  <2> DEFINE n == request[r].client.name
  <2>1. CASE request[r].kind = "issue"
    <3>1. /\ Write(r, Without(n))
          /\ request' = [request EXCEPT ![r].pc = "failed"]
          /\ UNCHANGED <<answer, put, control, channel, adopted>>
      BY <1>7, <2>1, Zenon DEF Unconfirmed, Moves
    <3>2. Without(n) \subseteq {c \in Client : c.login # "half"}
      BY WithoutType, Zenon DEF TypeOK
    <3>3. /\ file' \subseteq {c \in Client : c.login # "half"}
          /\ stands' \in [Requests -> BOOLEAN]
      BY <1>4, <3>1, <3>2
    <3> QED
      BY <3>1, <3>3, MovesType, AskType, Zenon DEF TypeOK
  <2>2. CASE request[r].kind # "issue"
    <3>1. /\ request' = [request EXCEPT ![r].pc = "failed"]
          /\ UNCHANGED <<file, stands, answer, put, control, channel, adopted>>
      BY <1>7, <2>2, Zenon DEF Unconfirmed, Moves
    <3> QED
      BY <3>1, SMT DEF TypeOK
  <2> QED
    BY <2>1, <2>2
<1>8. ASSUME NEW r \in Requests, GiveUp(r)
      PROVE  TypeOK'
  BY <1>8, SMT DEF GiveUp, TypeOK
<1>9. ASSUME NEW served \in SUBSET Requests, NEW commanded \in BOOLEAN, Load(served, commanded)
      PROVE  TypeOK'
  <2>1. answer' \in [Requests -> {"none", "asked", "read", "yes", "no"}]
    BY <1>9, TellType DEF Load
  <2>2. Parsed(file) \subseteq Binding
    <3>1. file \subseteq Client
      BY DEF TypeOK
    <3> QED
      BY <3>1, ParsedType
  <2>3. [bindings |-> Parsed(file), ack |-> commanded] \in [bindings : SUBSET Binding, ack : BOOLEAN]
    BY <2>2
  <2>4. /\ channel \in Seq([bindings : SUBSET Binding, ack : BOOLEAN])
        /\ channel' = Append(channel, [bindings |-> Parsed(file), ack |-> commanded])
    BY <1>9, Zenon DEF Load, TypeOK
  <2>5. channel' \in Seq([bindings : SUBSET Binding, ack : BOOLEAN])
    BY <2>3, <2>4, SMT
  <2>6. control' \in [pc : {"loop", "await"}, served : SUBSET Requests, acked : BOOLEAN]
    BY <1>9, SMT DEF Load, TypeOK
  <2>7. UNCHANGED <<file, request, stands, put, adopted>>
    BY <1>9 DEF Load
  <2> QED
    BY <2>1, <2>5, <2>6, <2>7, Zenon DEF TypeOK
<1>10. ASSUME NEW served \in SUBSET Requests, Reject(served)
       PROVE  TypeOK'
  <2>1. answer' \in [Requests -> {"none", "asked", "read", "yes", "no"}]
    BY <1>10, TellType DEF Reject
  <2> QED
    BY <1>10, <2>1, Zenon DEF Reject, TypeOK
<1>11. CASE Acknowledged
  <2>1. answer' \in [Requests -> {"none", "asked", "read", "yes", "no"}]
    BY <1>11, TellType DEF Acknowledged
  <2>2. control' \in [pc : {"loop", "await"}, served : SUBSET Requests, acked : BOOLEAN]
    BY <1>11, SMT DEF Acknowledged
  <2> QED
    BY <1>11, <2>1, <2>2, Zenon DEF Acknowledged, TypeOK
<1>12. CASE AckTimeout
  <2>1. answer' \in [Requests -> {"none", "asked", "read", "yes", "no"}]
    BY <1>12, TellType DEF AckTimeout
  <2>2. control' \in [pc : {"loop", "await"}, served : SUBSET Requests, acked : BOOLEAN]
    BY <1>12, SMT DEF AckTimeout
  <2>3. channel' \in Seq([bindings : SUBSET Binding, ack : BOOLEAN])
    BY <1>12, ClearedType, Zenon DEF AckTimeout, TypeOK
  <2> QED
    BY <1>12, <2>1, <2>2, <2>3, Zenon DEF AckTimeout, TypeOK
<1>13. CASE Adopt
  <2>1. channel[Len(channel)] \in [bindings : SUBSET Binding, ack : BOOLEAN]
    BY <1>13, LastType, Zenon DEF Adopt, TypeOK
  <2>2. adopted' \subseteq Binding
    BY <1>13, <2>1, SMT DEF Adopt
  <2>3. control' \in [pc : {"loop", "await"}, served : SUBSET Requests, acked : BOOLEAN]
    <3> DEFINE a == control.acked \/ \E i \in 1..Len(channel) : channel[i].ack
    <3>1. a \in BOOLEAN
      BY Zenon
    <3>2. control' = [control EXCEPT !.acked = a]
      BY <1>13 DEF Adopt
    <3> HIDE DEF a
    <3> QED
      BY <3>1, <3>2, Zenon DEF TypeOK
  <2>4. channel' = << >> /\ UNCHANGED <<file, request, stands, put, answer>>
    BY <1>13 DEF Adopt
  <2>5. channel' \in Seq([bindings : SUBSET Binding, ack : BOOLEAN])
    BY <2>4, SMT
  <2> QED
    BY <2>2, <2>3, <2>4, <2>5, Zenon DEF TypeOK
<1>14. CASE UNCHANGED vars
  BY <1>14, SMT DEF vars, TypeOK
<1> QED
  BY <1>1, <1>2, <1>3, <1>5, <1>6, <1>7, <1>8, <1>9, <1>10, <1>11, <1>12, <1>13, <1>14
     DEF Next, Goes, ControlNext

(* Every variable has its type, and an id without a password never gets into  *)
(* the file, whichever checks of saveClient a request meets.                  *)
THEOREM RegistryTypeCorrect == Spec => []TypeOK
  BY TypeInit, TypeStep, PTL DEF Spec

-----------------------------------------------------------------------------
(* What is written can be loaded *)

(* The names that requests use for the server. *)
ServerName == [value |-> ServerAddress, plain |-> TRUE]

InNetwork(n) == Masked(n.value, W - Prefix) = Network

(* Each entry passes the server's checks but for its spelling, and no two     *)
(* entries share a name or a certificate.                                     *)
FileInv ==
  /\ \A c \in file : InNetwork(c.name) /\ c.name # ServerName
  /\ \A c, d \in file : c # d => c.name # d.name /\ c.fingerprint # d.fingerprint

(* The address check of the web process implies the network check of the      *)
(* server, also where the shift of the mask is a shift by none.               *)
LEMMA AddressInNetwork ==
  ASSUME NEW n \in Name, ValidAddress(n)
  PROVE  InNetwork(n) /\ n # ServerName
<1>1. n # ServerName
  BY DEF ValidAddress, ServerName
<1>2. /\ W \in Nat /\ Prefix \in 0..W
      /\ Network \in 0..(2^W - 1) /\ Masked(Network, W - Prefix) = Network
  BY NetworkAssumption DEF ValidNetwork
<1>3. CASE Prefix = 0
  <2> DEFINE m == 2^W
  <2>1. m \in Int
    BY <1>2, SMT
  <2>2. n.value \in 0..(m - 1) /\ Network \in 0..(m - 1)
    BY <1>2, SMT DEF Name
  <2>3. W - Prefix = W
    BY <1>2, <1>3, SMT
  <2>4. Network - (Network % m) = Network
    BY <1>2, <2>3 DEF Masked
  <2>5. n.value - (n.value % m) = Network
    <3> HIDE DEF m
    <3> QED
      BY <2>1, <2>2, <2>4, SMT
  <2> QED
    BY <1>1, <2>3, <2>5 DEF InNetwork, Masked
<1>4. CASE Prefix # 0
  BY <1>1, <1>2, <1>4, Zenon DEF ValidAddress, InNetwork
<1> QED
  BY <1>3, <1>4

(* An entry that was accepted joins the others. *)
LEMMA AcceptedFits ==
  ASSUME FileInv, NEW client \in Client, Acceptable(client),
         file' = Without(client.name) \cup {client}
  PROVE  FileInv'
<1>1. client.name \in Name
  BY SMT DEF Client
<1>2. InNetwork(client.name) /\ client.name # ServerName
  BY <1>1, AddressInNetwork DEF Acceptable
<1>3. \A c \in file' : InNetwork(c.name) /\ c.name # ServerName
  BY <1>2, Zenon DEF FileInv, Without
<1>4. ASSUME NEW c \in Without(client.name)
      PROVE  c.name # client.name /\ c.fingerprint # client.fingerprint
  BY <1>4, Zenon DEF Without, Acceptable
<1>5. ASSUME NEW c \in file', NEW d \in file', c # d
      PROVE  c.name # d.name /\ c.fingerprint # d.fingerprint
  <2>1. CASE c = client
    BY <1>4, <1>5, <2>1, Zenon
  <2>2. CASE d = client
    BY <1>4, <1>5, <2>2, Zenon
  <2>3. CASE c # client /\ d # client
    BY <1>5, <2>3, Zenon DEF FileInv, Without
  <2> QED
    BY <2>1, <2>2, <2>3
<1> QED
  BY <1>3, <1>5, Zenon DEF FileInv, InNetwork, ServerName, Masked

(* Fewer entries fit as well. *)
LEMMA FewerFit ==
  ASSUME FileInv, file' \subseteq file
  PROVE  FileInv'
  BY Zenon DEF FileInv, InNetwork, ServerName, Masked

(* The server starts with a file that it loads. *)
LEMMA FileInit == Init => FileInv
  BY SMT DEF Init, Loads, FileInv, InNetwork, ServerName

(* No request writes an entry that does not fit. *)
LEMMA FileStep == TypeOK /\ FileInv /\ [Next]_vars => FileInv'
<1> SUFFICES ASSUME TypeOK, FileInv, [Next]_vars PROVE FileInv'
  OBVIOUS
<1> USE DEF web, server
<1>1. CASE file' \subseteq file
  BY <1>1, FewerFit
<1>2. ASSUME NEW r \in Requests, NEW client \in Input, Put(r, client)
      PROVE  FileInv'
  <2>1. client \in Client
    BY InputIsClient
  <2>2. CASE Acceptable(client)
    <3>1. file' = Without(client.name) \cup {client}
      BY <1>2, <2>2 DEF Put
    <3> QED
      BY <2>1, <2>2, <3>1, AcceptedFits
  <2>3. CASE ~Acceptable(client)
    BY <1>1, <1>2, <2>3 DEF Put
  <2> QED
    BY <2>2, <2>3
<1>3. ASSUME NEW r \in Requests, Issue(r)
      PROVE  FileInv'
  <2>1. request[r].client \in Client
    BY SMT DEF TypeOK
  <2>2. /\ Acceptable(request[r].client)
        /\ file' = Without(request[r].client.name) \cup {request[r].client}
    BY <1>3 DEF Issue, Write
  <2> QED
    BY <2>1, <2>2, AcceptedFits
<1>4. ASSUME NEW r \in Requests, Remove(r) \/ Unconfirmed(r)
      PROVE  file' \subseteq file
  BY <1>4, WithoutType, Zenon DEF Remove, Unconfirmed, Write
<1>5. ASSUME NEW r \in Requests,
             \/ PutFails(r) \/ NotReady(r) \/ EditFails(r)
             \/ Confirmed(r) \/ RollbackFails(r) \/ GiveUp(r)
      PROVE  file' \subseteq file
  BY <1>5 DEF PutFails, NotReady, EditFails, Confirmed, RollbackFails, GiveUp
<1>6. ASSUME NEW r \in Requests, NEW client \in Input, NEW kind \in {"issue", "delete"},
             Arrive(r, kind, client)
      PROVE  file' \subseteq file
  BY <1>6 DEF Arrive
<1>7. ASSUME ControlNext \/ Adopt \/ UNCHANGED vars
      PROVE  file' \subseteq file
  BY <1>7 DEF ControlNext, Load, Reject, Acknowledged, AckTimeout, Adopt, vars
<1> QED
  BY <1>1, <1>2, <1>3, <1>4, <1>5, <1>6, <1>7 DEF Next, Goes

(* A file whose entries are spelled plainly is one that the server loads. *)
LEMMA FileInvLoads == TypeOK /\ FileInv => FileLoads
<1> SUFFICES ASSUME TypeOK, FileInv, \A c \in file : c.name.plain /\ c.login # "spaced"
             PROVE  Loads(file)
  BY DEF FileLoads
<1>1. \A c \in file : c \in Client /\ c.login \in {"none", "full"} /\ c.name \in Name
  BY SMT DEF TypeOK, Client, Logins
<1>2. ASSUME NEW c \in file, NEW d \in file, c.name.value = d.name.value
      PROVE  c.name = d.name
  BY <1>1, <1>2, SMT DEF Name
<1>3. ASSUME NEW c \in file
      PROVE  c.name.value # ServerAddress
  <2>1. c.name \in Name /\ c.name.plain /\ c.name # ServerName
    BY <1>1, <1>3 DEF FileInv
  <2>2. c.name.plain \in BOOLEAN
    BY <2>1, Zenon DEF Name
  <2>3. c.name.plain = TRUE
    BY <2>1, <2>2, Zenon
  <2>4. c.name = [value |-> c.name.value, plain |-> c.name.plain]
    BY <2>1, Zenon DEF Name
  <2> QED
    BY <2>1, <2>3, <2>4, Zenon DEF ServerName
<1> QED
  BY <1>1, <1>2, <1>3, Zenon DEF FileInv, InNetwork, Loads

(* The web process writes nothing but spellings that the server refuses:      *)
(* validateClientAddress and saveClient on one side, client_logins and        *)
(* validate_client_bindings on the other, for every network and prefix.       *)
THEOREM WrittenFileLoads == Spec => []FileLoads
<1>1. Init => TypeOK /\ FileInv
  BY TypeInit, FileInit
<1>2. TypeOK /\ FileInv /\ [Next]_vars => (TypeOK /\ FileInv)'
  BY TypeStep, FileStep
<1>3. TypeOK /\ FileInv => FileLoads
  BY FileInvLoads
<1> QED
  BY <1>1, <1>2, <1>3, PTL DEF Spec

-----------------------------------------------------------------------------
(* Nothing is left of an issue that failed *)

(* What a step of a request changes of the requests. *)
LEMMA MovesFacts ==
  ASSUME TypeOK, NEW r \in Requests, NEW pc, request' = [request EXCEPT ![r].pc = pc],
         NEW q \in Requests
  PROVE  /\ request'[q].kind = request[q].kind
         /\ request'[q].client = request[q].client
         /\ q # r => request'[q].pc = request[q].pc
         /\ q = r => request'[q].pc = pc
  BY SMT DEF TypeOK

(* A request asks for the certificate it made, and an entry with it that no   *)
(* PUT registered is one that an issue wrote which is under way or done, or   *)
(* which could not be taken back.                                             *)
OrphanInv ==
  /\ \A r \in Requests : request[r].kind # "none" => request[r].client.fingerprint = r
  /\ \A r \in Requests, c \in file : c.fingerprint = r /\ r \notin put =>
       /\ request[r].kind = "issue"
       /\ request[r].pc \in {"confirm", "ok", "unrolled"}
       /\ c.name = request[r].client.name

(* At the start every entry has a certificate made elsewhere. *)
LEMMA OrphanInit == Init => OrphanInv
<1> SUFFICES ASSUME Init PROVE OrphanInv
  OBVIOUS
<1>1. \A r \in Requests : request[r].kind = "none"
  BY SMT DEF Init, NoRequest
<1>2. \A c \in file : c.fingerprint \notin Requests
  BY InputsAssumption, SMT DEF Init
<1> QED
  BY <1>1, <1>2, Zenon DEF OrphanInv

(* Entries come and go with the requests that wrote them. *)
LEMMA OrphanStep == TypeOK /\ OrphanInv /\ [Next]_vars => OrphanInv'
<1> SUFFICES ASSUME TypeOK, OrphanInv, [Next]_vars PROVE OrphanInv'
  OBVIOUS
<1> USE DEF web, server
<1>1. ASSUME NEW r \in Requests, NEW client \in Input, Put(r, client)
      PROVE  OrphanInv'
  <2>1. /\ request[r].pc = "idle"
        /\ \E pc \in {"ok", "failed"} : request' = [request EXCEPT ![r].pc = pc]
    BY <1>1, Zenon DEF Put, Moves
  <2>2. put \subseteq put' /\ \A c \in file' : c \in file \/ c.fingerprint \in put'
    BY <1>1, WithoutType, Zenon DEF Put
  <2> QED
    BY <2>1, <2>2, MovesFacts, SMT DEF OrphanInv
<1>2. ASSUME NEW r \in Requests, NEW client \in Input, NEW kind \in {"issue", "delete"},
             Arrive(r, kind, client)
      PROVE  OrphanInv'
  <2>1. /\ request[r].pc = "idle" /\ client.fingerprint = r
        /\ request' = [request EXCEPT ![r] = [kind |-> kind, client |-> client, pc |-> "ready"]]
        /\ UNCHANGED <<file, put>>
    BY <1>2 DEF Arrive
  <2>2. /\ request'[r].kind = kind /\ request'[r].client = client
        /\ \A q \in Requests : q # r => request'[q] = request[q]
    BY <2>1, SMT DEF TypeOK
  <2>3. \A q \in Requests : request'[q].kind # "none" => request'[q].client.fingerprint = q
    BY <2>1, <2>2, SMT DEF OrphanInv
  <2>4. \A q \in Requests, c \in file : c.fingerprint = q /\ q \notin put => q # r
    BY <2>1, SMT DEF OrphanInv
  <2>5. \A q \in Requests, c \in file' : c.fingerprint = q /\ q \notin put' =>
          /\ request'[q].kind = "issue"
          /\ request'[q].pc \in {"confirm", "ok", "unrolled"}
          /\ c.name = request'[q].client.name
    BY <2>1, <2>2, <2>4, SMT DEF OrphanInv
  <2> QED
    BY <2>3, <2>5 DEF OrphanInv
<1>3. ASSUME NEW r \in Requests, PutFails(r) \/ NotReady(r) \/ EditFails(r)
      PROVE  OrphanInv'
  <2>1. /\ request[r].pc \in {"idle", "ready"}
        /\ request' = [request EXCEPT ![r].pc = "failed"]
        /\ UNCHANGED <<file, put>>
    BY <1>3, Zenon DEF PutFails, NotReady, EditFails, Moves
  <2> QED
    BY <2>1, MovesFacts, SMT DEF OrphanInv
<1>4. ASSUME NEW r \in Requests, Confirmed(r) \/ RollbackFails(r)
      PROVE  OrphanInv'
  <2>1. /\ \E pc \in {"ok", "unrolled"} : request' = [request EXCEPT ![r].pc = pc]
        /\ UNCHANGED <<file, put>>
    BY <1>4, Zenon DEF Confirmed, RollbackFails, Moves
  <2> QED
    BY <2>1, MovesFacts, SMT DEF OrphanInv
<1>5. ASSUME NEW r \in Requests, Issue(r)
      PROVE  OrphanInv'
  <2>1. /\ request[r].kind = "issue" /\ request[r].pc = "ready"
        /\ request' = [request EXCEPT ![r].pc = "confirm"]
        /\ file' = Without(request[r].client.name) \cup {request[r].client}
        /\ put' = put
    BY <1>5, Zenon DEF Issue, Moves, Write
  <2>2. request[r].client.fingerprint = r
    BY <2>1, SMT DEF OrphanInv
  <2>3. \A c \in file' : c \in file \/ c = request[r].client
    BY <2>1, WithoutType, Zenon
  <2>4. ASSUME NEW q \in Requests
        PROVE  /\ request'[q].kind = request[q].kind
               /\ request'[q].client = request[q].client
               /\ q # r => request'[q].pc = request[q].pc
               /\ q = r => request'[q].pc = "confirm"
    <3>1. request' = [request EXCEPT ![r].pc = "confirm"]
      BY <2>1
    <3> QED
      BY <3>1, MovesFacts, Zenon
  <2>5. ASSUME NEW q \in Requests, NEW c \in file', c.fingerprint = q, q \notin put'
        PROVE  /\ request'[q].kind = "issue"
               /\ request'[q].pc \in {"confirm", "ok", "unrolled"}
               /\ c.name = request'[q].client.name
    <3>1. CASE c \in file
      BY <2>1, <2>4, <2>5, <3>1, SMT DEF OrphanInv
    <3>2. CASE c = request[r].client
      <4>1. q = r
        BY <2>2, <2>5, <3>2
      <4> QED
        BY <2>1, <2>4, <3>2, <4>1, SMT
    <3> QED
      BY <2>3, <3>1, <3>2
  <2> QED
    BY <2>4, <2>5, SMT DEF OrphanInv
<1>6. ASSUME NEW r \in Requests, Remove(r)
      PROVE  OrphanInv'
  <2>1. /\ request[r].kind = "delete"
        /\ \E pc \in {"confirm", "failed"} : request' = [request EXCEPT ![r].pc = pc]
        /\ file' \subseteq file
        /\ put' = put
    BY <1>6, WithoutType, Zenon DEF Remove, Moves, Write
  <2> QED
    BY <2>1, MovesFacts, SMT DEF OrphanInv
<1>7. ASSUME NEW r \in Requests, Unconfirmed(r)
      PROVE  OrphanInv'
  <2> DEFINE n == request[r].client.name
  <2>1. /\ request' = [request EXCEPT ![r].pc = "failed"]
        /\ put' = put
        /\ file' \subseteq file
        /\ request[r].kind = "issue" => \A c \in file' : c.name # n
    BY <1>7, WithoutType, Zenon DEF Unconfirmed, Moves, Write, Registered, Without
  <2>2. \A c \in file' : c.fingerprint = r => r \in put
    BY <2>1, Zenon DEF OrphanInv
  <2> QED
    BY <2>1, <2>2, MovesFacts, SMT DEF OrphanInv
<1>8. ASSUME \/ \E r \in Requests : GiveUp(r)
             \/ ControlNext \/ Adopt \/ UNCHANGED vars
      PROVE  OrphanInv'
  <2>1. UNCHANGED <<file, request, put>>
    BY <1>8 DEF GiveUp, ControlNext, Load, Reject, Acknowledged, AckTimeout, Adopt, vars
  <2> QED
    BY <2>1, Zenon DEF OrphanInv
<1> QED
  BY <1>1, <1>2, <1>3, <1>4, <1>5, <1>6, <1>7, <1>8 DEF Next, Goes

(* Wherever an issue fails, its certificate is not registered afterwards,     *)
(* unless a PUT registered it or the rollback failed: one that succeeds       *)
(* removes what the issue wrote, wherever other requests put their entries.   *)
THEOREM FailedIssueLeavesNothing == Spec => []NoOrphans
<1>1. Init => TypeOK /\ OrphanInv
  BY TypeInit, OrphanInit
<1>2. TypeOK /\ OrphanInv /\ [Next]_vars => (TypeOK /\ OrphanInv)'
  BY TypeStep, OrphanStep
<1>3. OrphanInv => NoOrphans
  BY SMT DEF OrphanInv, NoOrphans
<1> QED
  BY <1>1, <1>2, <1>3, PTL DEF Spec

-----------------------------------------------------------------------------
(* What was answered holds *)

(* The bindings B are what a request of this kind wanted. *)
Reflects(kind, client, B) ==
  /\ kind = "issue" => Parsed({client}) \subseteq B
  /\ kind = "delete" /\ client.name.plain => \A b \in B : b.address # client.name.value

(* What a request wrote is in the file while it stands. *)
WrittenInv ==
  \A r \in Requests : stands[r] /\ request[r].pc \in {"confirm", "ok"} =>
    /\ request[r].kind = "issue" => request[r].client \in file
    /\ request[r].kind = "delete" => \A c \in file : c.name # request[r].client.name

(* Only the last update in the channel can be waited for, and only by the     *)
(* requests of this wait.                                                     *)
WaitInv ==
  /\ control.pc = "loop" => ~control.acked /\ \A i \in 1..Len(channel) : ~channel[i].ack
  /\ control.pc = "await" /\ control.acked => channel = << >>
  /\ control.pc = "await" /\ ~control.acked => channel # << >> /\ channel[Len(channel)].ack
  /\ \A r \in Requests : r \in control.served => answer[r] \in {"read", "no"}
  /\ \A r \in Requests : request[r].pc = "idle" => answer[r] = "none" /\ request[r].kind = "none"

(* A request that waits for the update of this wait, ... *)
Awaits(r) ==
  /\ stands[r] /\ request[r].pc = "confirm" /\ answer[r] = "read"
  /\ control.pc = "await" /\ r \in control.served

(* ... and one that was told so. *)
Told(r) ==
  stands[r] /\ (request[r].pc = "ok" \/ (request[r].pc = "confirm" /\ answer[r] = "yes"))

(* The update that is waited for, and every one behind an answer, reflects    *)
(* the request.                                                               *)
ReflectInv ==
  \A r \in Requests :
    /\ Awaits(r) /\ ~control.acked =>
         Reflects(request[r].kind, request[r].client, channel[Len(channel)].bindings)
    /\ Awaits(r) /\ control.acked =>
         Reflects(request[r].kind, request[r].client, adopted)
    /\ Told(r) =>
         /\ Reflects(request[r].kind, request[r].client, adopted)
         /\ \A i \in 1..Len(channel) :
              Reflects(request[r].kind, request[r].client, channel[i].bindings)

AnswerInv == WrittenInv /\ WaitInv /\ ReflectInv

(* Nothing was asked yet. *)
LEMMA AnswerInit == Init => AnswerInv
<1> SUFFICES ASSUME Init PROVE AnswerInv
  OBVIOUS
<1>1. \A r \in Requests : ~stands[r] /\ answer[r] = "none" /\ request[r].kind = "none"
  BY SMT DEF Init, NoRequest
<1>2. control.pc = "loop" /\ ~control.acked /\ control.served = {} /\ channel = << >>
  BY SMT DEF Init
<1>3. Len(channel) = 0
  BY <1>2, SMT
<1>4. WaitInv
  BY <1>1, <1>2, <1>3, SMT DEF WaitInv
<1> QED
  BY <1>1, <1>4, Zenon DEF AnswerInv, WrittenInv, ReflectInv, Awaits, Told

(* What the server loads reflects every request whose work stands. *)
LEMMA LoadedReflects ==
  ASSUME TypeOK, WrittenInv, Loads(file), NEW r \in Requests, stands[r],
         request[r].pc \in {"confirm", "ok"}
  PROVE  Reflects(request[r].kind, request[r].client, Parsed(file))
<1> DEFINE client == request[r].client
<1>1. ASSUME request[r].kind = "issue"
      PROVE  Parsed({client}) \subseteq Parsed(file)
  <2>1. client \in file
    BY <1>1 DEF WrittenInv
  <2> QED
    BY <2>1, Zenon DEF Parsed
<1>2. ASSUME request[r].kind = "delete", client.name.plain, NEW b \in Parsed(file),
             b.address = client.name.value
      PROVE  FALSE
  <2>1. PICK c \in file : b = [address |-> c.name.value, fingerprint |-> c.fingerprint, login |-> c.login]
    BY <1>2, Zenon DEF Parsed
  <2>2. c.name.value = client.name.value
    BY <1>2, <2>1, Zenon
  <2>3. c.name.plain
    BY Zenon DEF Loads
  <2>4. c.name \in Name /\ client.name \in Name
    BY SMT DEF TypeOK, Client
  <2>5. c.name.plain = client.name.plain
    <3>1. c.name.plain \in BOOLEAN /\ client.name.plain \in BOOLEAN
      BY <2>4, Zenon DEF Name
    <3> QED
      BY <1>2, <2>3, <3>1, Zenon
  <2>6. /\ c.name = [value |-> c.name.value, plain |-> c.name.plain]
        /\ client.name = [value |-> client.name.value, plain |-> client.name.plain]
    BY <2>4, Zenon DEF Name
  <2>7. c.name = client.name
    BY <2>2, <2>5, <2>6
  <2> QED
    BY <1>2, <2>7, SMT DEF WrittenInv
<1> QED
  BY <1>1, <1>2, Zenon DEF Reflects

(* Steps that leave the server alone: a request that waits or was told did so *)
(* before, and what it wants is the same.                                     *)
LEMMA WebKeepsReflect ==
  ASSUME ReflectInv, UNCHANGED <<control, channel, adopted>>,
         \A q \in Requests : Awaits(q)' =>
           /\ Awaits(q)
           /\ request'[q].kind = request[q].kind /\ request'[q].client = request[q].client,
         \A q \in Requests : Told(q)' => request'[q].kind = "none" \/
           /\ Told(q)
           /\ request'[q].kind = request[q].kind /\ request'[q].client = request[q].client
  PROVE  ReflectInv'
<1> SUFFICES ASSUME NEW q \in Requests
             PROVE  /\ Awaits(q)' /\ ~control.acked =>
                         Reflects(request'[q].kind, request'[q].client, channel[Len(channel)].bindings)
                    /\ Awaits(q)' /\ control.acked =>
                         Reflects(request'[q].kind, request'[q].client, adopted)
                    /\ Told(q)' =>
                         /\ Reflects(request'[q].kind, request'[q].client, adopted)
                         /\ \A i \in 1..Len(channel) :
                              Reflects(request'[q].kind, request'[q].client, channel[i].bindings)
  BY DEF ReflectInv, Reflects, Parsed
<1>1. ASSUME NEW B, request'[q].kind = "none"
      PROVE  Reflects(request'[q].kind, request'[q].client, B)
  BY <1>1 DEF Reflects
<1> HIDE DEF Awaits, Told, Reflects
<1> QED
  BY <1>1, Zenon DEF ReflectInv

(* Steps of the server leave what a request wants alone.                      *)
LEMMA ServerKeepsReflect ==
  ASSUME UNCHANGED request,
         \A q \in Requests :
           /\ Awaits(q)' /\ ~control'.acked =>
                Reflects(request[q].kind, request[q].client, channel'[Len(channel')].bindings)
           /\ Awaits(q)' /\ control'.acked =>
                Reflects(request[q].kind, request[q].client, adopted')
           /\ Told(q)' =>
                /\ Reflects(request[q].kind, request[q].client, adopted')
                /\ \A i \in 1..Len(channel') :
                     Reflects(request[q].kind, request[q].client, channel'[i].bindings)
  PROVE  ReflectInv'
<1> HIDE DEF Awaits, Told
<1>1. \A q \in Requests :
        /\ Awaits(q)' /\ ~control'.acked =>
             Reflects(request'[q].kind, request'[q].client, channel'[Len(channel')].bindings)
        /\ Awaits(q)' /\ control'.acked =>
             Reflects(request'[q].kind, request'[q].client, adopted')
        /\ Told(q)' =>
             /\ Reflects(request'[q].kind, request'[q].client, adopted')
             /\ \A i \in 1..Len(channel') :
                  Reflects(request'[q].kind, request'[q].client, channel'[i].bindings)
  BY Zenon
<1> QED
  BY <1>1, Zenon DEF ReflectInv, Reflects, Parsed

(* A request that fails without writing has nothing to keep. *)
LEMMA FailKeeps ==
  ASSUME TypeOK, AnswerInv, NEW r \in Requests, NEW pc \in {"failed", "unrolled"},
         request' = [request EXCEPT ![r].pc = pc],
         UNCHANGED <<file, stands, answer, control, channel, adopted>>
  PROVE  AnswerInv'
<1>1. ASSUME NEW q \in Requests
      PROVE  /\ request'[q].kind = request[q].kind
             /\ request'[q].client = request[q].client
             /\ q # r => request'[q].pc = request[q].pc
             /\ q = r => request'[q].pc = pc
  BY MovesFacts, Zenon
<1>2. WrittenInv'
  BY <1>1, SMT DEF AnswerInv, WrittenInv
<1>3. WaitInv'
  BY <1>1, SMT DEF AnswerInv, WaitInv
<1>4. ReflectInv'
  <2>1. \A q \in Requests : Awaits(q)' => Awaits(q)
    BY <1>1, SMT DEF Awaits
  <2>2. \A q \in Requests : Told(q)' => Told(q)
    BY <1>1, SMT DEF Told
  <2> HIDE DEF Awaits, Told
  <2> QED
    BY <1>1, <2>1, <2>2, WebKeepsReflect, Zenon DEF AnswerInv
<1> QED
  BY <1>2, <1>3, <1>4 DEF AnswerInv

(* A request that writes: what others wrote at that address no longer stands, *)
(* and it has not been answered about what it writes.                         *)
LEMMA WriteKeeps ==
  ASSUME TypeOK, AnswerInv, NEW r \in Requests, NEW S, Write(r, S),
         NEW pc \in {"confirm", "failed"}, request' = [request EXCEPT ![r].pc = pc],
         \A c \in file : c.name # request[r].client.name => c \in S,
         \A c \in S : c \in file \/ c = request[r].client,
         pc = "confirm" =>
           /\ request[r].kind = "issue" => request[r].client \in S
           /\ request[r].kind = "delete" => \A c \in S : c.name # request[r].client.name
           /\ answer[r] = "yes" /\ answer' = [answer EXCEPT ![r] = "asked"],
         pc = "failed" => answer' = answer,
         UNCHANGED <<control, channel, adopted>>, request[r].pc # "idle"
  PROVE  AnswerInv'
<1>1. ASSUME NEW q \in Requests
      PROVE  /\ request'[q].kind = request[q].kind
             /\ request'[q].client = request[q].client
             /\ q # r => request'[q].pc = request[q].pc
             /\ q = r => request'[q].pc = pc
  BY MovesFacts, Zenon
<1>2. /\ file' = S
      /\ \A q \in Requests : q # r /\ stands'[q] =>
           stands[q] /\ request[q].client.name # request[r].client.name
  BY Zenon DEF Write
<1>3. /\ \A q \in Requests : q # r => answer'[q] = answer[q]
      /\ pc = "confirm" => answer'[r] = "asked"
  BY SMT DEF TypeOK
<1>4. WrittenInv'
  <2> SUFFICES ASSUME NEW q \in Requests, stands'[q], request'[q].pc \in {"confirm", "ok"}
               PROVE  /\ request[q].kind = "issue" => request[q].client \in S
                      /\ request[q].kind = "delete" => \A c \in S : c.name # request[q].client.name
    BY <1>1, <1>2, SMT DEF WrittenInv
  <2>1. CASE q = r
    BY <1>1, <2>1, SMT
  <2>2. CASE q # r
    <3>1. /\ stands[q] /\ request[q].pc \in {"confirm", "ok"}
          /\ request[q].client.name # request[r].client.name
      BY <1>1, <1>2, <2>2
    <3> QED
      BY <3>1, Zenon DEF AnswerInv, WrittenInv
  <2> QED
    BY <2>1, <2>2
<1>5. WaitInv'
  <2>1. pc = "confirm" => r \notin control.served
    BY SMT DEF AnswerInv, WaitInv
  <2>2. \A q \in Requests : q \in control.served => answer'[q] \in {"read", "no"}
    BY <1>3, <2>1, SMT DEF AnswerInv, WaitInv
  <2>3. \A q \in Requests : request'[q].pc = "idle" => answer'[q] = "none" /\ request'[q].kind = "none"
    BY <1>1, <1>3, SMT DEF AnswerInv, WaitInv
  <2> QED
    BY <2>2, <2>3, Zenon DEF AnswerInv, WaitInv
<1>6. ReflectInv'
  <2>1. \A q \in Requests : Awaits(q)' => Awaits(q)
    BY <1>1, <1>2, <1>3, SMT DEF Awaits
  <2>2. \A q \in Requests : Told(q)' => Told(q)
    BY <1>1, <1>2, <1>3, SMT DEF Told
  <2> HIDE DEF Awaits, Told
  <2> QED
    BY <1>1, <2>1, <2>2, WebKeepsReflect, Zenon DEF AnswerInv
<1> QED
  BY <1>4, <1>5, <1>6 DEF AnswerInv

(* Steps of the web process. *)
LEMMA WebStep ==
  ASSUME TypeOK, AnswerInv, NEW r \in Requests, Goes(r)
  PROVE  AnswerInv'
<1> USE DEF web, server
<1>1. CASE NotReady(r) \/ EditFails(r) \/ RollbackFails(r)
  <2>1. /\ \E pc \in {"failed", "unrolled"} : request' = [request EXCEPT ![r].pc = pc]
        /\ UNCHANGED <<file, stands, answer, control, channel, adopted>>
    BY <1>1, Zenon DEF NotReady, EditFails, RollbackFails, Moves
  <2> QED
    BY <2>1, FailKeeps
<1>2. CASE Issue(r)
  <2> DEFINE client == request[r].client
             S == Without(client.name) \cup {client}
  <2>1. /\ request[r].kind = "issue" /\ request[r].pc = "ready" /\ answer[r] = "yes"
        /\ Write(r, S)
        /\ request' = [request EXCEPT ![r].pc = "confirm"]
        /\ answer' = [answer EXCEPT ![r] = "asked"]
        /\ UNCHANGED <<control, channel, adopted>>
    BY <1>2, Zenon DEF Issue, Moves, Ask
  <2>2. /\ \A c \in file : c.name # client.name => c \in S
        /\ \A c \in S : c \in file \/ c = client
        /\ client \in S
    BY Zenon DEF Without
  <2>3. request[r].kind # "delete" /\ request[r].pc # "idle"
    BY <2>1
  <2> HIDE DEF S
  <2> QED
    BY <2>1, <2>2, <2>3, WriteKeeps, Zenon
<1>3. CASE Remove(r)
  <2> DEFINE n == request[r].client.name
             S == Without(n)
  <2>1. CASE ValidAddress(n) /\ Registered(n)
    <3>1. /\ request[r].kind = "delete" /\ request[r].pc = "ready" /\ answer[r] = "yes"
          /\ Write(r, S)
          /\ request' = [request EXCEPT ![r].pc = "confirm"]
          /\ answer' = [answer EXCEPT ![r] = "asked"]
          /\ UNCHANGED <<control, channel, adopted>>
      BY <1>3, <2>1, Zenon DEF Remove, Moves, Ask
    <3>2. /\ \A c \in file : c.name # n => c \in S
          /\ \A c \in S : c \in file
          /\ \A c \in S : c.name # n
      BY Zenon DEF Without
    <3>3. request[r].kind # "issue" /\ request[r].pc # "idle"
      BY <3>1
    <3> HIDE DEF S
    <3> QED
      BY <3>1, <3>2, <3>3, WriteKeeps, Zenon
  <2>2. CASE ~(ValidAddress(n) /\ Registered(n))
    <3>1. /\ request' = [request EXCEPT ![r].pc = "failed"]
          /\ UNCHANGED <<file, stands, answer, control, channel, adopted>>
      BY <1>3, <2>2, Zenon DEF Remove, Moves
    <3> QED
      BY <3>1, FailKeeps
  <2> QED
    BY <2>1, <2>2
<1>4. CASE Unconfirmed(r)
  <2> DEFINE n == request[r].client.name
             S == Without(n)
  <2>1. CASE request[r].kind = "issue"
    <3>1. /\ request[r].pc = "confirm"
          /\ Write(r, S)
          /\ request' = [request EXCEPT ![r].pc = "failed"]
          /\ UNCHANGED <<answer, control, channel, adopted>>
      BY <1>4, <2>1, Zenon DEF Unconfirmed, Moves
    <3>2. /\ \A c \in file : c.name # n => c \in S
          /\ \A c \in S : c \in file
      BY Zenon DEF Without
    <3>3. request[r].pc # "idle" /\ "failed" # "confirm"
      BY <3>1
    <3> HIDE DEF S
    <3> QED
      BY <3>1, <3>2, <3>3, WriteKeeps, Zenon
  <2>2. CASE request[r].kind # "issue"
    <3>1. /\ request' = [request EXCEPT ![r].pc = "failed"]
          /\ UNCHANGED <<file, stands, answer, control, channel, adopted>>
      BY <1>4, <2>2, Zenon DEF Unconfirmed, Moves
    <3> QED
      BY <3>1, FailKeeps
  <2> QED
    BY <2>1, <2>2
<1>5. CASE Confirmed(r)
  <2>1. /\ request[r].pc = "confirm" /\ answer[r] = "yes"
        /\ request' = [request EXCEPT ![r].pc = "ok"]
        /\ UNCHANGED <<file, stands, answer, control, channel, adopted>>
    BY <1>5, Zenon DEF Confirmed, Moves
  <2>2. ASSUME NEW q \in Requests
        PROVE  /\ request'[q].kind = request[q].kind
               /\ request'[q].client = request[q].client
               /\ q # r => request'[q].pc = request[q].pc
               /\ q = r => request'[q].pc = "ok"
    <3>1. request' = [request EXCEPT ![r].pc = "ok"]
      BY <2>1
    <3> QED
      BY <3>1, MovesFacts, Zenon
  <2>3. WrittenInv'
    BY <2>1, <2>2, SMT DEF AnswerInv, WrittenInv
  <2>4. WaitInv'
    BY <2>1, <2>2, SMT DEF AnswerInv, WaitInv
  <2>5. ReflectInv'
    <3>1. \A q \in Requests : Awaits(q)' => Awaits(q)
      BY <2>1, <2>2, SMT DEF Awaits
    <3>2. \A q \in Requests : Told(q)' => Told(q)
      BY <2>1, <2>2, SMT DEF Told
    <3> HIDE DEF Awaits, Told
    <3> QED
      BY <2>1, <2>2, <3>1, <3>2, WebKeepsReflect, Zenon DEF AnswerInv
  <2> QED
    BY <2>3, <2>4, <2>5 DEF AnswerInv
<1> QED
  BY <1>1, <1>2, <1>3, <1>4, <1>5 DEF Goes

LEMMA PutFailsStep ==
  ASSUME TypeOK, AnswerInv, NEW r \in Requests, PutFails(r)
  PROVE  AnswerInv'
<1>1. /\ request' = [request EXCEPT ![r].pc = "failed"]
      /\ UNCHANGED <<file, stands, answer, control, channel, adopted>>
  BY Zenon DEF PutFails, Moves, server
<1> QED
  BY <1>1, FailKeeps

(* A request that arrives has nothing that stands. *)
LEMMA ArriveStep ==
  ASSUME TypeOK, AnswerInv, NEW r \in Requests, NEW client, NEW kind, Arrive(r, kind, client)
  PROVE  AnswerInv'
<1>1. /\ request[r].pc = "idle"
      /\ request' = [request EXCEPT ![r] = [kind |-> kind, client |-> client, pc |-> "ready"]]
      /\ answer' = [answer EXCEPT ![r] = "asked"]
      /\ UNCHANGED <<file, stands, control, channel, adopted>>
  BY DEF Arrive, Ask, server
<1>2. /\ request'[r].pc = "ready" /\ answer'[r] = "asked"
      /\ \A q \in Requests : q # r => request'[q] = request[q] /\ answer'[q] = answer[q]
  BY <1>1, SMT DEF TypeOK
<1>3. WrittenInv'
  BY <1>1, <1>2, SMT DEF AnswerInv, WrittenInv
<1>4. WaitInv'
  <2>1. r \notin control.served
    BY <1>1, SMT DEF AnswerInv, WaitInv
  <2>2. \A q \in Requests : q \in control.served => answer'[q] \in {"read", "no"}
    BY <1>2, <2>1, SMT DEF AnswerInv, WaitInv
  <2>3. \A q \in Requests : request'[q].pc = "idle" => answer'[q] = "none" /\ request'[q].kind = "none"
    BY <1>2, SMT DEF AnswerInv, WaitInv
  <2> QED
    BY <1>1, <2>2, <2>3, Zenon DEF AnswerInv, WaitInv
<1>5. ReflectInv'
  <2>1. \A q \in Requests : Awaits(q)' => q # r /\ Awaits(q)
    BY <1>1, <1>2, SMT DEF Awaits
  <2>2. \A q \in Requests : Told(q)' => q # r /\ Told(q)
    BY <1>1, <1>2, SMT DEF Told
  <2> HIDE DEF Awaits, Told
  <2> QED
    BY <1>1, <1>2, <2>1, <2>2, WebKeepsReflect, Zenon DEF AnswerInv
<1> QED
  BY <1>3, <1>4, <1>5 DEF AnswerInv

(* A PUT writes over what was registered at its address. *)
LEMMA PutStep ==
  ASSUME TypeOK, AnswerInv, NEW r \in Requests, NEW client, Put(r, client)
  PROVE  AnswerInv'
<1>1. CASE ~Acceptable(client)
  <2>1. /\ request' = [request EXCEPT ![r].pc = "failed"]
        /\ UNCHANGED <<file, stands, answer, control, channel, adopted>>
    BY <1>1, Zenon DEF Put, Moves, server
  <2> QED
    BY <2>1, FailKeeps
<1>2. CASE Acceptable(client)
  <2>1. /\ request[r].pc = "idle"
        /\ request' = [request EXCEPT ![r].pc = "ok"]
        /\ file' = Without(client.name) \cup {client}
        /\ stands' = [q \in Requests |-> stands[q] /\ request[q].client.name # client.name]
        /\ UNCHANGED <<answer, control, channel, adopted>>
    BY <1>2, Zenon DEF Put, Moves, server
  <2>2. ASSUME NEW q \in Requests
        PROVE  /\ request'[q].kind = request[q].kind
               /\ request'[q].client = request[q].client
               /\ q # r => request'[q].pc = request[q].pc
               /\ q = r => request'[q].pc = "ok"
    <3>1. request' = [request EXCEPT ![r].pc = "ok"]
      BY <2>1
    <3> QED
      BY <3>1, MovesFacts, Zenon
  <2>3. ASSUME NEW q \in Requests, stands'[q]
        PROVE  stands[q] /\ request[q].client.name # client.name
    BY <2>1, <2>3, Zenon
  <2>4. request[r].kind = "none" /\ answer[r] = "none"
    BY <2>1, SMT DEF AnswerInv, WaitInv
  <2>5. WrittenInv'
    <3> SUFFICES ASSUME NEW q \in Requests, stands'[q], request'[q].pc \in {"confirm", "ok"}
                 PROVE  /\ request[q].kind = "issue" => request[q].client \in file'
                        /\ request[q].kind = "delete" => \A c \in file' : c.name # request[q].client.name
      BY <2>2, SMT DEF WrittenInv
    <3>1. CASE q = r
      BY <2>4, <3>1
    <3>2. CASE q # r
      <4>1. /\ stands[q] /\ request[q].pc \in {"confirm", "ok"}
            /\ request[q].client.name # client.name
        BY <2>2, <2>3, <3>2
      <4> QED
        BY <2>1, <4>1, Zenon DEF AnswerInv, WrittenInv, Without
    <3> QED
      BY <3>1, <3>2
  <2>6. WaitInv'
    BY <2>1, <2>2, SMT DEF AnswerInv, WaitInv
  <2>7. ReflectInv'
    <3>1. \A q \in Requests : Awaits(q)' => Awaits(q)
      BY <2>1, <2>2, <2>3, SMT DEF Awaits
    <3>2. \A q \in Requests : Told(q)' => q = r \/ Told(q)
      BY <2>1, <2>2, <2>3, SMT DEF Told
    <3>3. request'[r].kind = "none"
      BY <2>2, <2>4
    <3> HIDE DEF Awaits, Told
    <3> QED
      BY <2>1, <2>2, <3>1, <3>2, <3>3, WebKeepsReflect, Zenon DEF AnswerInv
  <2> QED
    BY <2>5, <2>6, <2>7 DEF AnswerInv
<1> QED
  BY <1>1, <1>2

(* A request that gives up waits for nothing. *)
LEMMA GiveUpStep ==
  ASSUME TypeOK, AnswerInv, NEW r \in Requests, GiveUp(r)
  PROVE  AnswerInv'
<1>1. /\ answer[r] \in {"asked", "read"}
      /\ answer' = [answer EXCEPT ![r] = "no"]
      /\ UNCHANGED <<file, request, stands, control, channel, adopted>>
  BY DEF GiveUp, web, server
<1>2. answer'[r] = "no" /\ \A q \in Requests : q # r => answer'[q] = answer[q]
  BY <1>1, SMT DEF TypeOK
<1>3. WrittenInv'
  BY <1>1, SMT DEF AnswerInv, WrittenInv
<1>4. WaitInv'
  <2>1. \A q \in Requests : q \in control.served => answer'[q] \in {"read", "no"}
    BY <1>2, SMT DEF AnswerInv, WaitInv
  <2>2. \A q \in Requests : request[q].pc = "idle" => answer'[q] = "none" /\ request[q].kind = "none"
    BY <1>1, <1>2, SMT DEF AnswerInv, WaitInv
  <2> QED
    BY <1>1, <2>1, <2>2, Zenon DEF AnswerInv, WaitInv
<1>5. ReflectInv'
  <2>1. \A q \in Requests : Awaits(q)' => Awaits(q)
    BY <1>1, <1>2, SMT DEF Awaits
  <2>2. \A q \in Requests : Told(q)' => Told(q)
    BY <1>1, <1>2, SMT DEF Told
  <2> HIDE DEF Awaits, Told
  <2> QED
    BY <1>1, <2>1, <2>2, WebKeepsReflect, Zenon DEF AnswerInv
<1> QED
  BY <1>3, <1>4, <1>5 DEF AnswerInv

(* What the server tells the requests it serves. *)
LEMMA TellFacts ==
  ASSUME NEW S, NEW v, Tell(S, v), NEW q \in Requests
  PROVE  /\ answer'[q] # answer[q] => q \in S /\ answer[q] \in {"asked", "read"} /\ answer'[q] = v
         /\ q \in S /\ answer[q] \in {"asked", "read"} => answer'[q] = v
  BY SMT DEF Tell

(* A longer channel has the old updates and a last one. *)
LEMMA AppendFacts ==
  ASSUME NEW U, NEW s \in Seq(U), NEW e \in U, NEW t, t = Append(s, e)
  PROVE  /\ t # << >> /\ t[Len(t)] = e
         /\ \A i \in 1..Len(t) : t[i] = e \/ (i \in 1..Len(s) /\ t[i] = s[i])
  BY SMT

(* An update that the file makes reflects whoever waits or was answered. *)
LEMMA LoadStep ==
  ASSUME TypeOK, AnswerInv, NEW served \in SUBSET Requests, NEW commanded \in BOOLEAN,
         Load(served, commanded)
  PROVE  AnswerInv'
<1> DEFINE e == [bindings |-> Parsed(file), ack |-> commanded]
           U == [bindings : SUBSET Binding, ack : BOOLEAN]
<1>1. /\ control.pc = "loop" /\ Loads(file)
      /\ \A q \in served : answer[q] = "asked"
      /\ served # {} => commanded
      /\ channel' = Append(channel, e)
      /\ control' = [pc |-> IF commanded THEN "await" ELSE "loop", served |-> served, acked |-> FALSE]
      /\ Tell(served, "read")
      /\ UNCHANGED <<file, request, stands, adopted>>
  BY Zenon DEF Load, web
<1>2. /\ channel \in Seq(U) /\ e \in U
  <2>1. file \subseteq Client
    BY DEF TypeOK
  <2>2. Parsed(file) \subseteq Binding
    BY <2>1, ParsedType
  <2> QED
    BY <2>2, Zenon DEF TypeOK
<1>3. /\ channel' # << >> /\ channel'[Len(channel')] = e
      /\ \A i \in 1..Len(channel') : channel'[i] = e \/ (i \in 1..Len(channel) /\ channel'[i] = channel[i])
  <2>1. channel' = Append(channel, e)
    BY <1>1
  <2> HIDE DEF e, U
  <2> QED
    BY <1>2, <2>1, AppendFacts, SMT
<1>4. e.bindings = Parsed(file) /\ e.ack = commanded
  BY Zenon
<1>5. /\ control'.pc = IF commanded THEN "await" ELSE "loop"
      /\ control'.served = served /\ control'.acked = FALSE
  BY <1>1, Zenon
<1>6. \A q \in Requests : answer'[q] # answer[q] => q \in served /\ answer'[q] = "read"
  BY <1>1, TellFacts, Zenon
<1>7. \A q \in served : answer'[q] = "read"
  BY <1>1, TellFacts, SMT
<1> HIDE DEF e
<1>8. WrittenInv'
  BY <1>1, SMT DEF AnswerInv, WrittenInv
<1>9. WaitInv'
  <2>1. control'.pc = "loop" => ~control'.acked /\ \A i \in 1..Len(channel') : ~channel'[i].ack
    <3> SUFFICES ASSUME ~commanded, NEW i \in 1..Len(channel') PROVE ~channel'[i].ack
      BY <1>5, Zenon
    <3> QED
      BY <1>1, <1>3, <1>4, Zenon DEF AnswerInv, WaitInv
  <2>2. control'.pc = "await" => ~control'.acked /\ channel' # << >> /\ channel'[Len(channel')].ack
    BY <1>3, <1>4, <1>5, Zenon
  <2>3. \A q \in Requests : request[q].pc = "idle" => answer'[q] = "none" /\ request[q].kind = "none"
    BY <1>1, <1>6, SMT DEF AnswerInv, WaitInv
  <2> QED
    BY <1>1, <1>5, <1>7, <2>1, <2>2, <2>3, Zenon DEF WaitInv
<1>10. ASSUME NEW q \in Requests
       PROVE  /\ Awaits(q)' => Reflects(request[q].kind, request[q].client, e.bindings)
              /\ Told(q)' =>
                   /\ Reflects(request[q].kind, request[q].client, adopted)
                   /\ \A i \in 1..Len(channel') :
                        Reflects(request[q].kind, request[q].client, channel'[i].bindings)
  <2>1. ASSUME stands[q], request[q].pc \in {"confirm", "ok"}
        PROVE  Reflects(request[q].kind, request[q].client, e.bindings)
    BY <1>1, <1>4, <2>1, LoadedReflects DEF AnswerInv
  <2>2. Awaits(q)' => Reflects(request[q].kind, request[q].client, e.bindings)
    BY <1>1, <2>1, SMT DEF Awaits
  <2>3. ASSUME Told(q)'
        PROVE  /\ Told(q)
               /\ Reflects(request[q].kind, request[q].client, e.bindings)
    BY <1>1, <1>6, <2>1, <2>3, SMT DEF Told
  <2> HIDE DEF Told, Reflects
  <2>4. Told(q)' =>
          /\ Reflects(request[q].kind, request[q].client, adopted)
          /\ \A i \in 1..Len(channel') :
               Reflects(request[q].kind, request[q].client, channel'[i].bindings)
    BY <1>3, <2>3, Zenon DEF AnswerInv, ReflectInv
  <2> QED
    BY <2>2, <2>4
<1>11. ReflectInv'
  <2> HIDE DEF Awaits, Told, Reflects
  <2> QED
    BY <1>1, <1>3, <1>5, <1>10, ServerKeepsReflect, SMT
<1> QED
  BY <1>8, <1>9, <1>11 DEF AnswerInv

(* A refusal answers no, and the server goes on as it was. *)
LEMMA RejectStep ==
  ASSUME TypeOK, AnswerInv, NEW served \in SUBSET Requests, Reject(served)
  PROVE  AnswerInv'
<1>1. /\ \A q \in served : answer[q] = "asked"
      /\ Tell(served, "no")
      /\ UNCHANGED <<file, request, stands, control, channel, adopted>>
  BY Zenon DEF Reject, web, server
<1>2. \A q \in Requests : answer'[q] # answer[q] => answer[q] = "asked" /\ answer'[q] = "no"
  BY <1>1, TellFacts, Zenon
<1>3. WrittenInv'
  BY <1>1, SMT DEF AnswerInv, WrittenInv
<1>4. WaitInv'
  <2>1. \A q \in Requests : q \in control.served => answer'[q] \in {"read", "no"}
    BY <1>2, SMT DEF AnswerInv, WaitInv
  <2>2. \A q \in Requests : request[q].pc = "idle" => answer'[q] = "none" /\ request[q].kind = "none"
    BY <1>2, SMT DEF AnswerInv, WaitInv
  <2> QED
    BY <1>1, <2>1, <2>2, Zenon DEF AnswerInv, WaitInv
<1>5. ReflectInv'
  <2>1. \A q \in Requests : Awaits(q)' => Awaits(q)
    BY <1>1, <1>2, SMT DEF Awaits
  <2>2. \A q \in Requests : Told(q)' => Told(q)
    BY <1>1, <1>2, SMT DEF Told
  <2> HIDE DEF Awaits, Told
  <2> QED
    BY <1>1, <2>1, <2>2, WebKeepsReflect, Zenon DEF AnswerInv
<1> QED
  BY <1>3, <1>4, <1>5 DEF AnswerInv

(* The worker adopts the last update: the one that is waited for, if any. *)
LEMMA AdoptStep ==
  ASSUME TypeOK, AnswerInv, Adopt
  PROVE  AnswerInv'
<1> DEFINE a == control.acked \/ \E i \in 1..Len(channel) : channel[i].ack
<1>1. /\ channel # << >>
      /\ adopted' = channel[Len(channel)].bindings
      /\ control' = [control EXCEPT !.acked = a]
      /\ channel' = << >>
      /\ UNCHANGED <<file, request, stands, answer>>
  BY DEF Adopt, web
<1>2. Len(channel) \in 1..Len(channel)
  BY <1>1, SMT DEF TypeOK
<1>3. Len(channel') = 0
  BY <1>1, SMT
<1>4. /\ control'.pc = control.pc /\ control'.served = control.served /\ control'.acked = a
  BY <1>1, Zenon DEF TypeOK
<1>5. control.pc = "loop" => ~a
  BY Zenon DEF AnswerInv, WaitInv
<1>6. control.pc = "await" => a /\ ~control.acked
  BY <1>1, <1>2, Zenon DEF AnswerInv, WaitInv
<1> HIDE DEF a
<1>7. WrittenInv'
  BY <1>1, SMT DEF AnswerInv, WrittenInv
<1>8. WaitInv'
  BY <1>1, <1>3, <1>4, <1>5, <1>6, SMT DEF AnswerInv, WaitInv
<1>9. ASSUME NEW q \in Requests
      PROVE  /\ Awaits(q)' => Reflects(request[q].kind, request[q].client, adopted') /\ a
             /\ Told(q)' => Reflects(request[q].kind, request[q].client, adopted')
  <2>1. Awaits(q)' => Awaits(q) /\ control.pc = "await"
    BY <1>1, <1>4, SMT DEF Awaits
  <2>2. Told(q)' => Told(q)
    BY <1>1, SMT DEF Told
  <2> HIDE DEF Awaits, Told, Reflects
  <2> QED
    BY <1>1, <1>2, <1>6, <2>1, <2>2, Zenon DEF AnswerInv, ReflectInv
<1>10. ReflectInv'
  <2> HIDE DEF Awaits, Told, Reflects
  <2> QED
    BY <1>1, <1>3, <1>4, <1>9, ServerKeepsReflect, SMT
<1> QED
  BY <1>7, <1>8, <1>10 DEF AnswerInv

(* The acknowledgement that is waited for is that of the last update. *)
LEMMA AcknowledgedStep ==
  ASSUME TypeOK, AnswerInv, Acknowledged
  PROVE  AnswerInv'
<1>1. /\ control.pc = "await" /\ control.acked
      /\ Tell(control.served, "yes")
      /\ control' = [pc |-> "loop", served |-> {}, acked |-> FALSE]
      /\ UNCHANGED <<file, request, stands, channel, adopted>>
  BY DEF Acknowledged, web
<1>2. channel = << >> /\ Len(channel) = 0
  BY <1>1, SMT DEF AnswerInv, WaitInv
<1>3. \A q \in Requests : answer'[q] # answer[q] =>
        q \in control.served /\ answer[q] = "read" /\ answer'[q] = "yes"
  <2>1. \A q \in Requests : answer'[q] # answer[q] =>
          q \in control.served /\ answer[q] \in {"asked", "read"} /\ answer'[q] = "yes"
    BY <1>1, TellFacts, Zenon
  <2> QED
    BY <2>1, SMT DEF AnswerInv, WaitInv
<1>4. control'.pc = "loop" /\ control'.served = {} /\ control'.acked = FALSE
  BY <1>1, Zenon
<1>5. WrittenInv'
  BY <1>1, SMT DEF AnswerInv, WrittenInv
<1>6. WaitInv'
  BY <1>1, <1>2, <1>3, <1>4, SMT DEF AnswerInv, WaitInv
<1>7. ASSUME NEW q \in Requests
      PROVE  /\ ~Awaits(q)'
             /\ Told(q)' => Reflects(request[q].kind, request[q].client, adopted)
  <2>1. ~Awaits(q)'
    BY <1>4, SMT DEF Awaits
  <2>2. Told(q)' => Told(q) \/ Awaits(q)
    BY <1>1, <1>3, SMT DEF Told, Awaits
  <2> HIDE DEF Awaits, Told, Reflects
  <2> QED
    BY <1>1, <2>1, <2>2, Zenon DEF AnswerInv, ReflectInv
<1>8. ReflectInv'
  <2> HIDE DEF Awaits, Told, Reflects
  <2> QED
    BY <1>1, <1>2, <1>7, ServerKeepsReflect, SMT
<1> QED
  BY <1>5, <1>6, <1>8 DEF AnswerInv

(* A wait that is over leaves its update behind, and nobody waits for it. *)
LEMMA AckTimeoutStep ==
  ASSUME TypeOK, AnswerInv, AckTimeout
  PROVE  AnswerInv'
<1>1. /\ Tell(control.served, "no")
      /\ control' = [pc |-> "loop", served |-> {}, acked |-> FALSE]
      /\ channel' = [i \in 1..Len(channel) |-> [channel[i] EXCEPT !.ack = FALSE]]
      /\ UNCHANGED <<file, request, stands, adopted>>
  BY DEF AckTimeout, web
<1>2. /\ channel \in Seq([bindings : SUBSET Binding, ack : BOOLEAN])
      /\ channel' \in Seq([bindings : SUBSET Binding, ack : BOOLEAN])
  BY <1>1, ClearedType, Zenon DEF TypeOK
<1>3. /\ Len(channel) \in Nat /\ Len(channel') = Len(channel)
      /\ \A i \in 1..Len(channel) : channel[i] \in [bindings : SUBSET Binding, ack : BOOLEAN]
  <2> DEFINE U == [bindings : SUBSET Binding, ack : BOOLEAN]
  <2>1. channel \in Seq(U) /\ channel' \in Seq(U)
    BY <1>2
  <2>2. DOMAIN channel' = 1..Len(channel)
    BY <1>1, Zenon
  <2> HIDE DEF U
  <2>3. /\ Len(channel) \in Nat /\ Len(channel') \in Nat
        /\ 1..Len(channel') = 1..Len(channel)
        /\ \A i \in 1..Len(channel) : channel[i] \in U
    BY <2>1, <2>2, SMT
  <2>4. Len(channel') = Len(channel)
    BY <2>3, SMT
  <2> QED
    BY <2>3, <2>4 DEF U
<1>4. ASSUME NEW i \in 1..Len(channel)
      PROVE  channel'[i].bindings = channel[i].bindings /\ channel'[i].ack = FALSE
  <2>1. channel'[i] = [channel[i] EXCEPT !.ack = FALSE]
    BY <1>1, Zenon
  <2>2. channel[i] \in [bindings : SUBSET Binding, ack : BOOLEAN]
    BY <1>3
  <2> QED
    BY <2>1, <2>2, UnackedType, Zenon
<1>5. \A q \in Requests : answer'[q] # answer[q] => answer[q] \in {"asked", "read"} /\ answer'[q] = "no"
  BY <1>1, TellFacts, Zenon
<1>6. control'.pc = "loop" /\ control'.served = {} /\ control'.acked = FALSE
  BY <1>1, Zenon
<1>7. WrittenInv'
  BY <1>1, SMT DEF AnswerInv, WrittenInv
<1>8. WaitInv'
  <2>1. \A i \in 1..Len(channel') : ~channel'[i].ack
    BY <1>3, <1>4, Zenon
  <2>2. \A q \in Requests : request[q].pc = "idle" => answer'[q] = "none" /\ request[q].kind = "none"
    BY <1>5, SMT DEF AnswerInv, WaitInv
  <2> QED
    BY <1>1, <1>6, <2>1, <2>2, SMT DEF WaitInv
<1>9. ASSUME NEW q \in Requests
      PROVE  /\ ~Awaits(q)'
             /\ Told(q)' =>
                  /\ Reflects(request[q].kind, request[q].client, adopted)
                  /\ \A i \in 1..Len(channel') :
                       Reflects(request[q].kind, request[q].client, channel'[i].bindings)
  <2>1. ~Awaits(q)'
    BY <1>6, SMT DEF Awaits
  <2>2. Told(q)' => Told(q)
    BY <1>1, <1>5, SMT DEF Told
  <2> HIDE DEF Awaits, Told, Reflects
  <2> QED
    BY <1>3, <1>4, <2>1, <2>2, Zenon DEF AnswerInv, ReflectInv
<1>10. ReflectInv'
  <2> HIDE DEF Awaits, Told, Reflects
  <2> QED
    BY <1>1, <1>9, ServerKeepsReflect, Zenon
<1> QED
  BY <1>7, <1>8, <1>10 DEF AnswerInv

(* Every step keeps what was answered true. *)
LEMMA AnswerStep == TypeOK /\ AnswerInv /\ [Next]_vars => AnswerInv'
<1> SUFFICES ASSUME TypeOK, AnswerInv, [Next]_vars PROVE AnswerInv'
  OBVIOUS
<1>1. CASE UNCHANGED vars
  BY <1>1, Zenon DEF vars, AnswerInv, WrittenInv, WaitInv, ReflectInv, Awaits, Told, Reflects, Parsed
<1> QED
  BY <1>1, PutStep, PutFailsStep, ArriveStep, WebStep, GiveUpStep, LoadStep, RejectStep, AdoptStep,
     AcknowledgedStep, AckTimeoutStep, Zenon DEF Next, ControlNext

(* A package that was sent is accepted by the server and a deletion that was  *)
(* reported has left it, and both stay so until the entry is written over,    *)
(* whatever waits time out and whatever updates arrive late.                  *)
THEOREM AnswersStayTrue == Spec => []AnswersHold
<1>1. Init => TypeOK /\ AnswerInv
  BY TypeInit, AnswerInit
<1>2. TypeOK /\ AnswerInv /\ [Next]_vars => (TypeOK /\ AnswerInv)'
  BY TypeStep, AnswerStep
<1>3. AnswerInv => AnswersHold
  BY Zenon DEF AnswerInv, ReflectInv, Told, Reflects, AnswersHold, Delivered, Revoked
<1> QED
  BY <1>1, <1>2, <1>3, PTL DEF Spec

-----------------------------------------------------------------------------
(* Why the server converges: what fairness only has to drive *)

(* The configuration the server ends up with when nothing more is loaded. *)
Newest == IF channel = <<>> THEN adopted ELSE channel[Len(channel)].bindings

(* No step brings an older configuration back: what the server ends up with   *)
(* changes only to what the file says at that moment, the decrypt worker      *)
(* adopts nothing else, and neither a timeout nor an acknowledgement touches  *)
(* it.  So once it equals the file it does until the file is written.         *)
NothingOldReturns ==
  [][/\ Newest' # Newest => Newest' = Parsed(file) /\ file' = file /\ Loads(file)
     /\ adopted' # adopted => adopted' = Newest /\ channel' = <<>>]_vars

LEMMA NewestStep ==
  ASSUME TypeOK, [Next]_vars
  PROVE  /\ Newest' # Newest => Newest' = Parsed(file) /\ file' = file /\ Loads(file)
         /\ adopted' # adopted => adopted' = Newest /\ channel' = <<>>
<1>1. CASE UNCHANGED <<channel, adopted>>
  BY <1>1, Zenon DEF Newest
<1>2. ASSUME NEW served, NEW commanded \in BOOLEAN, Load(served, commanded)
      PROVE  /\ Newest' = Parsed(file) /\ file' = file /\ Loads(file)
             /\ adopted' = adopted
  <2>1. /\ channel' = Append(channel, [bindings |-> Parsed(file), ack |-> commanded])
        /\ file' = file /\ Loads(file) /\ adopted' = adopted
    BY <1>2, Zenon DEF Load, web
  <2> DEFINE e == [bindings |-> Parsed(file), ack |-> commanded]
             U == [bindings : SUBSET Binding, ack : BOOLEAN]
  <2>2. e \in U
    <3>1. Parsed(file) \in SUBSET Binding
      BY ParsedType, Zenon DEF TypeOK
    <3> QED
      BY <3>1, Zenon
  <2>3. channel \in Seq(U)
    BY Zenon DEF TypeOK
  <2>4. e.bindings = Parsed(file)
    BY Zenon
  <2> HIDE DEF e, U
  <2>5. channel' # <<>> /\ channel'[Len(channel')] = e
    BY <2>1, <2>2, <2>3, AppendFacts DEF e
  <2> QED
    BY <2>1, <2>4, <2>5, Zenon DEF Newest
<1>3. CASE Adopt
  <2>1. channel # <<>> /\ adopted' = channel[Len(channel)].bindings /\ channel' = <<>>
    BY <1>3, Zenon DEF Adopt
  <2> QED
    BY <2>1, Zenon DEF Newest
<1>4. CASE AckTimeout
  <2>1. channel' = [i \in 1..Len(channel) |-> [channel[i] EXCEPT !.ack = FALSE]] /\ adopted' = adopted
    BY <1>4, Zenon DEF AckTimeout
  <2> DEFINE U == [bindings : SUBSET Binding, ack : BOOLEAN]
  <2>2. channel \in Seq(U) /\ channel' \in Seq(U)
    <3>1. channel \in Seq(U)
      BY Zenon DEF TypeOK
    <3> QED
      BY <2>1, <3>1, ClearedType, Zenon
  <2>3. ASSUME NEW i \in 1..Len(channel) PROVE channel'[i].bindings = channel[i].bindings
    <3>1. channel[i] \in U
      <4> HIDE DEF U
      <4> QED
        BY <2>2, SMT
    <3> QED
      BY <2>1, <3>1, UnackedType, Zenon
  <2> HIDE DEF U
  <2>4. Len(channel') = Len(channel) /\ Len(channel) \in Nat
    BY <2>1, <2>2, SMT
  <2>5. CASE channel = <<>>
    <3>1. channel' = <<>>
      BY <2>2, <2>4, <2>5, SMT
    <3> QED
      BY <2>1, <2>5, <3>1, Zenon DEF Newest
  <2>6. CASE channel # <<>>
    <3>1. Len(channel) \in 1..Len(channel) /\ channel' # <<>>
      BY <2>2, <2>4, <2>6, SMT
    <3> QED
      BY <2>1, <2>3, <2>4, <2>6, <3>1, Zenon DEF Newest
  <2> QED
    BY <2>5, <2>6
<1>5. CASE \/ \E r \in Requests, client \in Input :
                Put(r, client) \/ \E kind \in {"issue", "delete"} : Arrive(r, kind, client)
           \/ \E r \in Requests : PutFails(r) \/ Goes(r) \/ GiveUp(r)
           \/ \E served \in SUBSET Requests : Reject(served)
           \/ Acknowledged
           \/ UNCHANGED vars
  <2>1. UNCHANGED <<channel, adopted>>
    BY <1>5, Zenon DEF Put, Arrive, Goes, NotReady, EditFails, Issue, Remove, Confirmed, Unconfirmed,
                PutFails, RollbackFails, GiveUp, Reject, Acknowledged, server, vars
  <2> QED
    BY <1>1, <2>1
<1> QED
  BY <1>2, <1>3, <1>4, <1>5, Zenon DEF Next, ControlNext

(* Updates that arrive late or whose sender gave up never win over a later    *)
(* state of the file.                                                         *)
THEOREM OldUpdatesNeverWin == Spec => NothingOldReturns
  BY RegistryTypeCorrect, NewestStep, PTL DEF Spec, NothingOldReturns
=============================================================================
