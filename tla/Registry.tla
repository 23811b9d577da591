------------------------------- MODULE Registry -------------------------------
(***************************************************************************)
(* The client registry: the [client] section of server.ini, written by the *)
(* web process and loaded by the VPN server.                               *)
(*                                                                         *)
(* The web process is one thread: what a request does between two awaits   *)
(* is one action, and requests interleave at the RELOAD commands they      *)
(* await.  The file is replaced by a rename, so a reader sees one version. *)
(* On the server the control thread loads the file on a RELOAD or when its *)
(* interval is over, sends what it read to the decrypt worker and waits    *)
(* for the acknowledgement only on a RELOAD.                               *)
(***************************************************************************)
EXTENDS Integers, Sequences, FiniteSets

CONSTANTS
  Requests,       \* requests to the web process; each issues its own certificate
  Foreign,        \* fingerprints of certificates made elsewhere
  W,              \* bits of an IPv4 address
  Network,        \* vpn_network: its address ...
  Prefix,         \* ... and prefix
  ServerAddress,  \* vpn_address
  Names,          \* address texts that requests carry
  Initial,        \* contents of the section when the server starts
  MaxUpdates      \* bound on the updates not yet taken by the decrypt worker

(* A text is an IPv4 address with or without leading zeros in a part. *)
Name == [value : 0..(2^W - 1), plain : BOOLEAN]

(* address & mask, for a mask with n low bits clear. *)
Masked(address, n) == address - (address % 2^n)

(* parse_ipv4_cidr and run_server refuse a network with host bits and a       *)
(* server address outside it.                                                 *)
ValidNetwork ==
  /\ Prefix \in 0..W
  /\ Network \in 0..(2^W - 1)
  /\ Masked(Network, W - Prefix) = Network
  /\ ServerAddress \in 0..(2^W - 1)
  /\ Masked(ServerAddress, W - Prefix) = Network

ASSUME NetworkAssumption == W \in Nat \ {0} /\ ValidNetwork

Fingerprints == Requests \cup Foreign

(* A login is an id and a password; "half" is one without the other, "spaced" *)
(* has a U+0085 inside the password: whitespace to the server, not to the web *)
(* process.                                                                   *)
Logins == {"none", "half", "full", "spaced"}

Client == [name : Name, fingerprint : Fingerprints, login : Logins]

ASSUME InputsAssumption ==
  /\ Names \subseteq Name
  /\ Requests \cap Foreign = {}
  /\ Initial \subseteq SUBSET {c \in Client : c.fingerprint \in Foreign}
  /\ MaxUpdates \in Nat \ {0}

Binding == [address : 0..(2^W - 1), fingerprint : Fingerprints, login : Logins]

VARIABLES
  file,      \* the entries of the [client] section
  request,   \* what each request asked for and how far it is
  answer,    \* the RELOAD each request awaits
  stands,    \* history: what a request wrote has not been written over
  put,       \* history: fingerprints that were registered by a PUT
  control,   \* control thread: where it is, the requests it serves, acknowledged
  channel,   \* updates on their way to the decrypt worker
  adopted    \* the bindings and logins the decrypt worker accepts clients by

vars == <<file, request, answer, stands, put, control, channel, adopted>>

web == <<file, request, stands, put>>
server == <<control, channel, adopted>>

-----------------------------------------------------------------------------
(* What the web process accepts *)

(* validateClientAddress.  A shift by 32 bits is a shift by none, and the     *)
(* server's own address is compared as text.                                  *)
ValidAddress(name) ==
  LET host   == IF Prefix = 0 THEN 0 ELSE W - Prefix
      subnet == Masked(Network, host)
  IN  /\ Masked(name.value, host) = subnet
      /\ name.value \notin {subnet, subnet + 2^host - 1}
      /\ name # [value |-> ServerAddress, plain |-> TRUE]

(* Mutant of Acceptable: the same certificate for two addresses. *)
AcceptableTwice(client) == ValidAddress(client.name) /\ client.login # "half"

(* The checks of saveClient. *)
Acceptable(client) ==
  /\ ValidAddress(client.name)
  /\ \A c \in file : c.fingerprint = client.fingerprint => c.name = client.name
  /\ client.login # "half"

Registered(name) == \E c \in file : c.name = name

Without(name) == {c \in file : c.name # name}

(* What the server accepts: client_logins and validate_client_bindings. *)
Loads(clients) ==
  /\ \A c \in clients :
       /\ c.login \in {"none", "full"}
       /\ c.name.plain
       /\ Masked(c.name.value, W - Prefix) = Network
       /\ c.name.value # ServerAddress
  /\ \A c, d \in clients : c # d =>
       c.name.value # d.name.value /\ c.fingerprint # d.fingerprint

(* What it makes of the entries. *)
Parsed(clients) ==
  {[address |-> c.name.value, fingerprint |-> c.fingerprint, login |-> c.login] : c \in clients}

-----------------------------------------------------------------------------
(* Web process *)

Moves(r, pc) == request' = [request EXCEPT ![r].pc = pc]

Ask(r) == answer' = [answer EXCEPT ![r] = "asked"]

(* The file is written; other requests' work at that address is over. *)
Write(r, clients) ==
  /\ file' = clients
  /\ stands' = [q \in Requests |->
       q = r \/ (stands[q] /\ request[q].client.name # request[r].client.name)]

(* POST /api/clients/issue and DELETE /api/clients/:vpnAddress begin with a   *)
(* RELOAD that tells whether the server answers.                              *)
Arrive(r, kind, client) ==
  /\ request[r].pc = "idle"
  /\ client.fingerprint = r
  /\ kind = "delete" => client.login = "none"
  /\ request' = [request EXCEPT ![r] = [kind |-> kind, client |-> client, pc |-> "ready"]]
  /\ Ask(r)
  /\ UNCHANGED <<file, stands, put, server>>

(* PUT /api/clients/:vpnAddress saves and leaves the reload to the server. *)
Put(r, client) ==
  /\ request[r].pc = "idle"
  /\ Moves(r, IF Acceptable(client) THEN "ok" ELSE "failed")
  /\ IF Acceptable(client)
     THEN /\ file' = Without(client.name) \cup {client}
          /\ stands' = [q \in Requests |-> stands[q] /\ request[q].client.name # client.name]
          /\ put' = put \cup {client.fingerprint}
     ELSE UNCHANGED <<file, stands, put>>
  /\ UNCHANGED <<answer, server>>

(* Reading or writing the file fails; until the rename it is as it was. *)
PutFails(r) ==
  /\ request[r].pc = "idle"
  /\ Moves(r, "failed")
  /\ UNCHANGED <<file, answer, stands, put, server>>

NotReady(r) ==
  /\ request[r].pc = "ready" /\ answer[r] = "no"
  /\ Moves(r, "failed")
  /\ UNCHANGED <<file, answer, stands, put, server>>

(* The address of an issue is taken, the issuer or saveClient refuses; or, for *)
(* a removal too, reading or writing the file fails.                           *)
EditFails(r) ==
  /\ request[r].pc = "ready" /\ answer[r] = "yes"
  /\ Moves(r, "failed")
  /\ UNCHANGED <<file, answer, stands, put, server>>

Issue(r) ==
  LET client == request[r].client
  IN  /\ request[r].kind = "issue" /\ request[r].pc = "ready" /\ answer[r] = "yes"
      /\ ~Registered(client.name)
      /\ Acceptable(client)
      /\ Write(r, Without(client.name) \cup {client})
      /\ Moves(r, "confirm")
      /\ Ask(r)
      /\ UNCHANGED <<put, server>>

(* Mutant of Remove: the answer does not wait for the second RELOAD. *)
RemoveOnly(r) ==
  LET name == request[r].client.name
  IN  /\ request[r].kind = "delete" /\ request[r].pc = "ready" /\ answer[r] = "yes"
      /\ IF ValidAddress(name) /\ Registered(name)
         THEN Write(r, Without(name)) /\ Moves(r, "ok")
         ELSE Moves(r, "failed") /\ UNCHANGED <<file, stands>>
      /\ UNCHANGED <<answer, put, server>>

Remove(r) ==
  LET name == request[r].client.name
  IN  /\ request[r].kind = "delete" /\ request[r].pc = "ready" /\ answer[r] = "yes"
      /\ IF ValidAddress(name) /\ Registered(name)
         THEN Write(r, Without(name)) /\ Moves(r, "confirm") /\ Ask(r)
         ELSE Moves(r, "failed") /\ UNCHANGED <<file, stands, answer>>
      /\ UNCHANGED <<put, server>>

Confirmed(r) ==
  /\ request[r].pc = "confirm" /\ answer[r] = "yes"
  /\ Moves(r, "ok")
  /\ UNCHANGED <<file, answer, stands, put, server>>

(* Mutant of Unconfirmed: the entry stays. *)
UnconfirmedKept(r) ==
  /\ request[r].pc = "confirm" /\ answer[r] = "no"
  /\ Moves(r, "failed")
  /\ UNCHANGED <<file, answer, stands, put, server>>

(* An issue is taken back: whatever is registered for its address goes, and   *)
(* nobody tells the server.  A removal stays.                                 *)
Unconfirmed(r) ==
  LET name == request[r].client.name
  IN  /\ request[r].pc = "confirm" /\ answer[r] = "no"
      /\ Moves(r, "failed")
      /\ IF request[r].kind = "issue"
         THEN Registered(name) /\ Write(r, Without(name))
         ELSE UNCHANGED <<file, stands>>
      /\ UNCHANGED <<answer, put, server>>

(* The removal that takes an issue back throws: nothing is registered for the *)
(* address any more, or the file cannot be read or written.  Its error is the *)
(* answer instead of vpn_reload_failed.                                       *)
RollbackFails(r) ==
  /\ request[r].kind = "issue" /\ request[r].pc = "confirm" /\ answer[r] = "no"
  /\ Moves(r, "unrolled")
  /\ UNCHANGED <<file, answer, stands, put, server>>

(* VpnControl.command: no connection, or no answer in time.  The command may  *)
(* be served all the same.                                                    *)
GiveUp(r) ==
  /\ answer[r] \in {"asked", "read"}
  /\ answer' = [answer EXCEPT ![r] = "no"]
  /\ UNCHANGED <<web, server>>

-----------------------------------------------------------------------------
(* VPN server *)

(* The requests of `served` still listen for what they are told. *)
Tell(served, result) ==
  answer' = [r \in Requests |-> IF r \in served /\ answer[r] \in {"asked", "read"}
                                THEN result ELSE answer[r]]

(* Mutant of Load: the interval alone loads nothing. *)
LoadServed(served, commanded) ==
  /\ control.pc = "loop"
  /\ served \subseteq {r \in Requests : answer[r] = "asked"}
  /\ served # {} /\ commanded
  /\ Loads(file)
  /\ Len(channel) < MaxUpdates
  /\ channel' = Append(channel, [bindings |-> Parsed(file), ack |-> TRUE])
  /\ control' = [pc |-> "await", served |-> served, acked |-> FALSE]
  /\ Tell(served, "read")
  /\ UNCHANGED <<web, adopted>>

(* A loop of the control thread that loads the file: for the RELOAD commands  *)
(* of `served`, for one nobody waits for any more, or because it is time.     *)
Load(served, commanded) ==
  /\ control.pc = "loop"
  /\ served \subseteq {r \in Requests : answer[r] = "asked"}
  /\ served # {} => commanded
  /\ Loads(file)
  /\ Len(channel) < MaxUpdates
  /\ channel' = Append(channel, [bindings |-> Parsed(file), ack |-> commanded])
  /\ control' = [pc |-> IF commanded THEN "await" ELSE "loop", served |-> served, acked |-> FALSE]
  /\ Tell(served, "read")
  /\ UNCHANGED <<web, adopted>>

(* The file is not accepted, or no stateless acceptor can be made. *)
Reject(served) ==
  /\ control.pc = "loop"
  /\ served \subseteq {r \in Requests : answer[r] = "asked"}
  /\ Tell(served, "no")
  /\ UNCHANGED <<web, server>>

(* The decrypt worker takes every update; the last one counts. *)
Adopt ==
  /\ channel # <<>>
  /\ adopted' = channel[Len(channel)].bindings
  /\ control' = [control EXCEPT !.acked = @ \/ \E i \in 1..Len(channel) : channel[i].ack]
  /\ channel' = <<>>
  /\ UNCHANGED <<web, answer>>

Acknowledged ==
  /\ control.pc = "await" /\ control.acked
  /\ Tell(control.served, "yes")
  /\ control' = [pc |-> "loop", served |-> {}, acked |-> FALSE]
  /\ UNCHANGED <<web, channel, adopted>>

(* Two seconds without it: the receiver is dropped, the update is not. *)
AckTimeout ==
  /\ control.pc = "await"
  /\ Tell(control.served, "no")
  /\ control' = [pc |-> "loop", served |-> {}, acked |-> FALSE]
  /\ channel' = [i \in 1..Len(channel) |-> [channel[i] EXCEPT !.ack = FALSE]]
  /\ UNCHANGED <<web, adopted>>

-----------------------------------------------------------------------------
NoRequest == [kind |-> "none", pc |-> "idle",
              client |-> [name |-> [value |-> 0, plain |-> TRUE],
                          fingerprint |-> CHOOSE f \in Fingerprints : TRUE, login |-> "none"]]

Init ==
  /\ file \in Initial
  /\ Loads(file)
  /\ request = [r \in Requests |-> NoRequest]
  /\ answer = [r \in Requests |-> "none"]
  /\ stands = [r \in Requests |-> FALSE]
  /\ put = {}
  /\ control = [pc |-> "loop", served |-> {}, acked |-> FALSE]
  /\ channel = <<>>
  /\ adopted = Parsed(file)

Input == [name : Names, fingerprint : Fingerprints, login : Logins]

Goes(r) ==
  \/ NotReady(r)
  \/ EditFails(r)
  \/ Issue(r)
  \/ Remove(r)
  \/ Confirmed(r)
  \/ Unconfirmed(r)
  \/ RollbackFails(r)

ControlNext ==
  \/ \E served \in SUBSET Requests, commanded \in BOOLEAN : Load(served, commanded)
  \/ \E served \in SUBSET Requests : Reject(served)
  \/ Acknowledged
  \/ AckTimeout

Next ==
  \/ \E r \in Requests, client \in Input :
       Put(r, client) \/ \E kind \in {"issue", "delete"} : Arrive(r, kind, client)
  \/ \E r \in Requests : PutFails(r) \/ Goes(r) \/ GiveUp(r)
  \/ ControlNext
  \/ Adopt

Spec == Init /\ [][Next]_vars

(* The web process goes on when an answer is there and gives up after its     *)
(* timeout; the server loads the file again and again, its decrypt worker      *)
(* looks at the channel in every round, and a wait for it is bounded.          *)
FairSpec ==
  /\ Spec
  /\ \A r \in Requests : WF_vars(Goes(r)) /\ WF_vars(GiveUp(r))
  /\ WF_vars(\E served \in SUBSET Requests, commanded \in BOOLEAN : Load(served, commanded))
  /\ WF_vars(Adopt)
  /\ WF_vars(Acknowledged \/ AckTimeout)

-----------------------------------------------------------------------------
(* Properties *)

(* Every variable has its type; an id without a password never gets into the *)
(* file.                                                                     *)
TypeOK ==
  /\ file \subseteq {c \in Client : c.login # "half"}
  /\ request \in [Requests -> [kind : {"none", "issue", "delete"}, client : Client,
                               pc : {"idle", "ready", "confirm", "ok", "failed", "unrolled"}]]
  /\ answer \in [Requests -> {"none", "asked", "read", "yes", "no"}]
  /\ stands \in [Requests -> BOOLEAN]
  /\ put \subseteq Fingerprints
  /\ control \in [pc : {"loop", "await"}, served : SUBSET Requests, acked : BOOLEAN]
  /\ channel \in Seq([bindings : SUBSET Binding, ack : BOOLEAN])
  /\ adopted \subseteq Binding

(* The two sides check the entries differently, and yet whatever requests do *)
(* in whatever order, the server loads what the web process wrote.  Two      *)
(* things alone make the file unreadable: a part of an address with leading  *)
(* zeros, which the web process takes and Ipv4Addr does not, and a password  *)
(* that the server splits at a U+0085.                                       *)
FileLoads == (\A c \in file : c.name.plain /\ c.login # "spaced") => Loads(file)

(* A package is sent only when the server accepts the new client, and goes   *)
(* on accepting it until its entry is written over, whatever other requests, *)
(* late acknowledgements and reloads of the interval do.                     *)
Delivered ==
  \A r \in Requests :
    request[r].kind = "issue" /\ request[r].pc = "ok" /\ stands[r] =>
      Parsed({request[r].client}) \subseteq adopted

(* A DELETE that succeeded has left the server: no update on its way brings  *)
(* the binding back.                                                         *)
Revoked ==
  \A r \in Requests :
    request[r].kind = "delete" /\ request[r].pc = "ok" /\ stands[r] /\ request[r].client.name.plain =>
      \A b \in adopted : b.address # request[r].client.name.value

(* What the web process answered keeps being true of the server. *)
AnswersHold == Delivered /\ Revoked

(* The certificate of an issue that failed is not registered, at whichever   *)
(* await it failed, unless a PUT registered it.  Only when taking it back    *)
(* failed too, which the answer then says, may it stay, and at no address    *)
(* but its own.                                                              *)
NoOrphans ==
  \A r \in Requests :
    request[r].kind = "issue" /\ request[r].pc \in {"failed", "unrolled"} /\ r \notin put =>
      \A c \in file : c.fingerprint = r =>
        request[r].pc = "unrolled" /\ c.name = request[r].client.name

(* The server ends up with what the file says: a PUT, which sends no RELOAD, *)
(* reaches it, and an issue that was taken back after its update went out is *)
(* withdrawn.                                                                *)
Converges == <>[](Loads(file) => adopted = Parsed(file))

=============================================================================
