--------------------------- MODULE SessionControl ---------------------------
(***************************************************************************)
(* The session control thread of server/control.rs: the time limits of     *)
(* sessions, the control socket with its commands and watchers, and the    *)
(* poll between two rounds.                                                *)
(*                                                                         *)
(* Instants are kept as ages and remaining times, so that time has no      *)
(* bound.  Time passes only while the thread sleeps or waits for an        *)
(* acknowledgement; everything else takes no time.  A round holds the      *)
(* table's mutex from `Accept` to `Expire`: no other thread changes the    *)
(* table meanwhile.  What a reload does is in SessionTable; here it may    *)
(* remove any sessions.  A frame is the set of authenticated clients, which *)
(* is what write_session_identity compares.                                *)
(***************************************************************************)
EXTENDS Integers, FiniteSets, FiniteSetsExt

CONSTANTS
  None,               \* no deadline, no frame, no command yet
  Peers,              \* clients, each with its address, fingerprint and source
  Conns,              \* connections to the control socket
  MaxPending,         \* 64
  MaxWatchers,        \* bound on the connections that watch at one time
  Retransmit,         \* longest retransmission timeout of wolfSSL
  HandshakeTimeout,   \* HANDSHAKE_TIMEOUT
  LoginTimeout,       \* 120 s
  IdleTimeout,        \* SESSION_IDLE_TIMEOUT
  MaxLifetime,        \* max_session_lifetime
  ReloadInterval,     \* config_reload_interval
  CommandTimeout,     \* 3 s
  AckTimeout          \* 2 s

ASSUME SessionControlAssumption ==
  /\ IsFiniteSet(Peers) /\ IsFiniteSet(Conns)
  /\ \A frame \in SUBSET Peers : frame # None
  /\ \A t \in {MaxPending, MaxWatchers, Retransmit, HandshakeTimeout, LoginTimeout, IdleTimeout,
               MaxLifetime, ReloadInterval, CommandTimeout, AckTimeout} : t \in Nat \ {0}
  /\ HandshakeTimeout <= LoginTimeout /\ LoginTimeout <= IdleTimeout

VARIABLES
  sessions,    \* peer -> Session
  conns,       \* connection -> its state on both ends
  wake,        \* wake_reader holds a datagram
  active,      \* RUNNING and active
  joining,     \* how long the main thread has joined this one, or NotYet
  pc,          \* where the thread is
  todo,        \* pending commands this round has not looked at yet
  requested,   \* reload_requested
  sinceReload, \* next_config_reload, as the time since it was set
  waited,      \* time spent in recv_timeout
  sleep,       \* time left of the poll
  published    \* last_identity

vars == <<sessions, conns, wake, active, joining, pc, todo, requested,
          sinceReload, waited, sleep, published>>

socket == <<conns, todo, requested, published>>
thread == <<pc, sinceReload, waited, sleep>>
ending == <<active, joining>>

-----------------------------------------------------------------------------
NotYet == -1

NoSession == [state |-> "absent", idle |-> 0, age |-> 0, timer |-> None]

Live == {p \in Peers : sessions[p].state # "absent"}

Identity(table) == {p \in Peers : table[p].state = "authenticated"}

(* The limit on the time since last_activity. *)
Limit(s) ==
  CASE s.state = "authenticated" -> IdleTimeout
    [] s.state = "established"   -> LoginTimeout
    [] OTHER                     -> HandshakeTimeout

(* established_at is set. *)
Dated(s) == s.state \in {"established", "authenticated"}

(* What is left of each time limit of a session. *)
Remaining(s) ==
  {Limit(s) - s.idle}
    \cup (IF Dated(s) THEN {MaxLifetime - s.age} ELSE {})
    \cup (IF s.timer = None THEN {} ELSE {s.timer})

-----------------------------------------------------------------------------
(* Connections *)

NoConn == [status |-> "closed", command |-> None, age |-> 0]

(* STATUS stands for every command that is answered at once and changes       *)
(* nothing, invalid ones included.                                            *)
Commands == {"WATCH", "STATUS", "RELOAD", "DISCONNECT"}

InState(status) == {c \in Conns : conns[c].status = status}

(* `seen` is the last frame written, once no other is queued; `missed` is a    *)
(* history variable, see Disconnect.                                           *)
Watcher(frame) ==
  [status |-> "watching", room |-> TRUE, seen |-> None,
   pending |-> frame, begun |-> None, next |-> None, missed |-> FALSE]

(* The last frame queued for a watcher. *)
Newest(w) ==
  IF w.next # None THEN w.next ELSE IF w.pending # None THEN w.pending ELSE w.seen

(* Watcher::enqueue_latest *)
Enqueue(w, frame) ==
  IF w.pending = None
  THEN [w EXCEPT !.seen = None, !.pending = frame, !.missed = FALSE]
  ELSE [w EXCEPT !.next = frame, !.missed = FALSE]

(* Mutant of Written: the frame that waits is left where it is. *)
WrittenOnly(w) == [w EXCEPT !.seen = w.pending, !.pending = None, !.begun = None]

(* The pending frame is written, the next one takes its place. *)
Written(w) ==
  [w EXCEPT !.seen = IF w.next = None THEN w.pending ELSE None,
            !.pending = w.next, !.next = None, !.begun = None]

(* What the writes of one frame can come to: part of it, or all of it with    *)
(* or without room for more.  The second part of a frame is its rest.         *)
WriteOutcomes(w) ==
  {[Written(w) EXCEPT !.room = more] : more \in BOOLEAN}
    \cup (IF w.begun # None THEN {} ELSE {[w EXCEPT !.begun = w.pending, !.room = FALSE]})

CanWrite(w) == w.room /\ w.pending # None

(* Watcher::flush: it goes on until the socket is full or nothing is left. *)
Flush(w) ==
  IF ~CanWrite(w) THEN {w}
  ELSE UNION {IF CanWrite(v) THEN WriteOutcomes(v) ELSE {v} : v \in WriteOutcomes(w)}

(* publish_if_changed *)
Publish(table) ==
  LET frame == Identity(table)
      after(c) ==
        IF conns[c].status = "hungup" THEN {conns[c], NoConn}
        ELSE IF conns[c].status # "watching" THEN {conns[c]}
        ELSE Flush(IF frame = published THEN conns[c] ELSE Enqueue(conns[c], frame))
  IN  /\ published' = frame
      /\ conns' \in {f \in [Conns -> UNION {after(c) : c \in Conns}] :
                       \A c \in Conns : f[c] \in after(c)}

(* respond_reload: the answer ends the connection. *)
Responded == [c \in Conns |-> IF conns[c].status = "reloading" THEN NoConn ELSE conns[c]]

-----------------------------------------------------------------------------
(* Clients of the control socket *)

Connect(c) ==
  /\ pc # "done"
  /\ conns[c].status = "closed"
  /\ conns' = [conns EXCEPT ![c] = [NoConn EXCEPT !.status = "queued"]]
  /\ UNCHANGED <<sessions, wake, ending, thread, todo, requested, published>>

(* Connections that watch or have asked to. *)
Subscribed == {c \in Conns : conns[c].status \in {"watching", "hungup"} \/ conns[c].command = "WATCH"}

(* The last byte of a command arrives.  A client that closes its connection    *)
(* or sends 256 bytes without a line end has sent an invalid command.          *)
Send(c, command) ==
  /\ conns[c].status \in {"queued", "pending"}
  /\ conns[c].command = None
  /\ command = "WATCH" => Cardinality(Subscribed) < MaxWatchers
  /\ conns' = [conns EXCEPT ![c].command = command]
  /\ UNCHANGED <<sessions, wake, ending, thread, todo, requested, published>>

(* A watcher reads what its socket holds. *)
ClientReads(c) ==
  /\ conns[c].status = "watching"
  /\ ~conns[c].room
  /\ conns' = [conns EXCEPT ![c].room = TRUE]
  /\ UNCHANGED <<sessions, wake, ending, thread, todo, requested, published>>

(* A watcher hangs up: the next write or poll will tell. *)
WatcherCloses(c) ==
  /\ conns[c].status = "watching"
  /\ conns' = [conns EXCEPT ![c] = [NoConn EXCEPT !.status = "hungup"]]
  /\ UNCHANGED <<sessions, wake, ending, thread, todo, requested, published>>

-----------------------------------------------------------------------------
(* Other threads and the table *)

MutexFree == pc \notin {"commands", "timers"}

(* Mutant of NewSession: control is not told. *)
NewSessionSilently(p, timeout) ==
  /\ MutexFree
  /\ sessions[p].state = "absent"
  /\ sessions' = [sessions EXCEPT ![p] =
       [NoSession EXCEPT !.state = "pending", !.timer = timeout]]
  /\ UNCHANGED <<socket, wake, ending, thread>>

(* A peer is admitted and its handshake begins. *)
NewSession(p, timeout) ==
  /\ MutexFree
  /\ sessions[p].state = "absent"
  /\ sessions' = [sessions EXCEPT ![p] =
       [NoSession EXCEPT !.state = "pending", !.timer = timeout]]
  /\ wake' = TRUE
  /\ UNCHANGED <<socket, ending, thread>>

HandshakeStep(p, timeout) ==
  /\ MutexFree
  /\ sessions[p].state = "pending"
  /\ sessions' = [sessions EXCEPT ![p].timer = timeout]
  /\ wake' = TRUE
  /\ UNCHANGED <<socket, ending, thread>>

(* The handshake is complete; last_activity stays that of the creation. *)
Establish(p, login) ==
  /\ MutexFree
  /\ sessions[p].state = "pending"
  /\ sessions' = [sessions EXCEPT
       ![p].state = IF login THEN "established" ELSE "authenticated",
       ![p].timer = None]
  /\ wake' = TRUE
  /\ UNCHANGED <<socket, ending, thread>>

(* Mutant of Login: control is not told. *)
LoginSilently(p) ==
  /\ MutexFree
  /\ sessions[p].state = "established"
  /\ sessions' = [sessions EXCEPT ![p].state = "authenticated", ![p].idle = 0]
  /\ UNCHANGED <<socket, wake, ending, thread>>

Login(p) ==
  /\ MutexFree
  /\ sessions[p].state = "established"
  /\ sessions' = [sessions EXCEPT ![p].state = "authenticated", ![p].idle = 0]
  /\ wake' = TRUE
  /\ UNCHANGED <<socket, ending, thread>>

(* A keepalive or a packet moves a deadline back; nobody is told. *)
Activity(p) ==
  /\ MutexFree
  /\ sessions[p].state = "authenticated"
  /\ sessions' = [sessions EXCEPT ![p].idle = 0]
  /\ UNCHANGED <<socket, wake, ending, thread>>

(* Another thread removes a session; its Drop notifies. *)
RemoveSession(p) ==
  /\ MutexFree
  /\ p \in Live
  /\ sessions' = [sessions EXCEPT ![p] = NoSession]
  /\ wake' = TRUE
  /\ UNCHANGED <<socket, ending, thread>>

(* A signal, or the end of another thread. *)
Deactivate ==
  /\ active
  /\ active' = FALSE
  /\ UNCHANGED <<sessions, socket, wake, joining, thread>>

(* Mutant of Cleanup: it forgets this thread. *)
CleanupSilently ==
  /\ ~active /\ joining = NotYet
  /\ joining' = 0
  /\ UNCHANGED <<sessions, socket, wake, active, thread>>

(* The main thread notifies control_wake and joins. *)
Cleanup ==
  /\ ~active /\ joining = NotYet
  /\ joining' = 0
  /\ wake' = TRUE
  /\ UNCHANGED <<sessions, socket, active, thread>>

-----------------------------------------------------------------------------
(* The control thread *)

At(l) == pc = l

Dropped(table) == \E p \in Live : table[p].state = "absent"

(* The thread ends: its StopOnDrop clears active, its sockets are closed. *)
Leave ==
  /\ pc' = "done"
  /\ active' = FALSE
  /\ conns' = [c \in Conns |-> NoConn]
  /\ todo' = {}
  /\ requested' = FALSE
  /\ waited' = 0
  /\ sleep' = 0
  /\ UNCHANGED <<joining, sinceReload>>

(* The loop's condition, or an error of accept or poll. *)
Ends ==
  /\ At("loop") \/ At("poll")
  /\ At("poll") => active
  /\ Leave
  /\ UNCHANGED <<sessions, wake, published>>

(* process takes the mutex and accepts what is queued; a connection that      *)
(* finds the list full is closed.                                             *)
Accept ==
  /\ At("loop") /\ active
  /\ pc' = "commands"
  /\ LET room == MaxPending - Cardinality(InState("pending"))
     IN  \E kept \in SUBSET InState("queued") :
           /\ \/ kept = InState("queued") /\ Cardinality(kept) <= room
              \/ Cardinality(kept) = room
           /\ conns' = [c \in Conns |->
                CASE c \in kept                     -> [conns[c] EXCEPT !.status = "pending"]
                  [] c \in InState("queued") \ kept -> NoConn
                  [] OTHER                          -> conns[c]]
           /\ todo' = InState("pending") \cup kept
  /\ UNCHANGED <<sessions, wake, ending, requested, published, sinceReload, waited, sleep>>

(* A watcher that joins gets a snapshot that is written at once. *)
Watch(c) ==
  /\ \E w \in Flush(Watcher(Identity(sessions))) : conns' = [conns EXCEPT ![c] = w]
  /\ UNCHANGED <<sessions, wake, requested>>

Reload(c) ==
  /\ conns' = [conns EXCEPT ![c] = [NoConn EXCEPT !.status = "reloading"]]
  /\ requested' = TRUE
  /\ UNCHANGED <<sessions, wake>>

(* DISCONNECT removes the established session of an address.  A watcher that  *)
(* has not been sent the removed session by a publication misses its end.     *)
Disconnect(c, p) ==
  /\ sessions' = IF Dated(sessions[p]) THEN [sessions EXCEPT ![p] = NoSession] ELSE sessions
  /\ wake' = (wake \/ Dropped(sessions'))
  /\ conns' = [d \in Conns |->
       IF d = c THEN NoConn
       ELSE IF conns[d].status = "watching" /\ Newest(conns[d]) # published /\ Dropped(sessions')
            THEN [conns[d] EXCEPT !.missed = TRUE]
            ELSE conns[d]]
  /\ UNCHANGED requested

(* handle_command *)
HandleCommand(c) ==
  CASE conns[c].command = "WATCH"      -> Watch(c)
    [] conns[c].command = "RELOAD"     -> Reload(c)
    [] conns[c].command = "DISCONNECT" -> \E p \in Peers : Disconnect(c, p)
    [] OTHER -> conns' = [conns EXCEPT ![c] = NoConn] /\ UNCHANGED <<sessions, wake, requested>>

(* One pending command: too old, complete, or kept for the next round. *)
Look(c) ==
  /\ At("commands") /\ c \in todo
  /\ todo' = todo \ {c}
  /\ \/ /\ conns[c].age >= CommandTimeout
        /\ conns' = [conns EXCEPT ![c] = NoConn]
        /\ UNCHANGED <<sessions, wake, requested>>
     \/ /\ conns[c].age < CommandTimeout
        /\ conns[c].command # None
        /\ HandleCommand(c)
     \/ /\ conns[c].age < CommandTimeout
        /\ conns[c].command = None
        /\ UNCHANGED <<sessions, conns, wake, requested>>
  /\ UNCHANGED <<ending, published, thread>>

EndCommands ==
  /\ At("commands") /\ todo = {}
  /\ pc' = "timers"
  /\ Publish(sessions)
  /\ UNCHANGED <<sessions, wake, ending, todo, requested, sinceReload, waited, sleep>>

(* Mutant of Overdue: max_session_lifetime is forgotten. *)
OverdueIdle(s) == s.idle >= Limit(s)

Overdue(s) == s.idle >= Limit(s) \/ (Dated(s) /\ s.age >= MaxLifetime)

(* Retransmissions that are due, the ones in `failed` ending their session,   *)
(* then the time limits; the mutex is released.  A reload follows if somebody *)
(* asked for one or next_config_reload is reached.                            *)
Expire(failed, timeout) ==
  /\ At("timers")
  /\ \A p \in failed : sessions[p].state = "pending" /\ sessions[p].timer = 0
  /\ pc' = IF requested \/ sinceReload >= ReloadInterval THEN "reload" ELSE "plan"
  /\ sessions' = [p \in Peers |->
       IF p \in failed \/ (p \in Live /\ Overdue(sessions[p])) THEN NoSession
       ELSE IF sessions[p].state = "pending" /\ sessions[p].timer = 0
            THEN [sessions[p] EXCEPT !.timer = timeout]
            ELSE sessions[p]]
  /\ wake' = (wake \/ Dropped(sessions'))
  /\ Publish(sessions')
  /\ UNCHANGED <<ending, todo, requested, sinceReload, waited, sleep>>

(* The configuration cannot be read. *)
RejectReload ==
  /\ At("reload")
  /\ pc' = "plan"
  /\ requested' = FALSE
  /\ conns' = Responded
  /\ sinceReload' = 0
  /\ UNCHANGED <<sessions, todo, published, wake, ending, waited, sleep>>

(* The configuration is read; pending sessions and the ones it no longer      *)
(* allows are removed.                                                        *)
Filter(revoked) ==
  /\ sessions' = [p \in Peers |->
       IF p \in revoked \/ sessions[p].state = "pending" THEN NoSession ELSE sessions[p]]
  /\ wake' = (wake \/ Dropped(sessions'))

(* The update is sent; an answer waits for the decrypt worker. *)
ApplyReload(revoked) ==
  /\ At("reload")
  /\ Filter(revoked)
  /\ Publish(sessions')
  /\ pc' = IF requested THEN "await" ELSE "plan"
  /\ sinceReload' = IF requested THEN sinceReload ELSE 0
  /\ waited' = 0
  /\ UNCHANGED <<todo, requested, ending, sleep>>

(* The decrypt worker has ended: the update cannot be sent. *)
SendFails(revoked) ==
  /\ At("reload")
  /\ Filter(revoked)
  /\ published' = Identity(sessions')
  /\ Leave

(* The acknowledgement arrives, or its time is over. *)
Answer ==
  /\ At("await")
  /\ pc' = "plan"
  /\ requested' = FALSE
  /\ conns' = Responded
  /\ sinceReload' = 0
  /\ waited' = 0
  /\ UNCHANGED <<sessions, todo, published, wake, ending, sleep>>

(* Mutant of Deadlines: pending commands have none. *)
DeadlinesOfSessions ==
  (UNION {Remaining(sessions[p]) : p \in Live}) \cup {ReloadInterval - sinceReload}

(* What is left until each of the deadlines. *)
Deadlines ==
  (UNION {Remaining(sessions[p]) : p \in Live})
    \cup {CommandTimeout - conns[c].age : c \in InState("pending")}
    \cup {ReloadInterval - sinceReload}

(* Mutant of Plan: the duration does not saturate. *)
PlanUnsaturated ==
  /\ At("plan")
  /\ pc' = "poll"
  /\ sleep' = Min(Deadlines)
  /\ UNCHANGED <<sessions, socket, wake, ending, sinceReload, waited>>

(* next_wake *)
Plan ==
  /\ At("plan")
  /\ pc' = "poll"
  /\ sleep' = Max({0, Min(Deadlines)})
  /\ UNCHANGED <<sessions, socket, wake, ending, sinceReload, waited>>

(* A descriptor of the poll is ready. *)
Ready ==
  \/ wake
  \/ InState("queued") # {}
  \/ \E c \in InState("pending") : conns[c].command # None
  \/ InState("hungup") # {}
  \/ \E c \in InState("watching") : CanWrite(conns[c])

(* The poll returns, by a descriptor, its timeout or a signal; the wake-ups   *)
(* are drained and closed watchers dropped.                                   *)
PollReturns ==
  /\ At("poll")
  /\ pc' = "loop"
  /\ wake' = FALSE
  /\ sleep' = 0
  /\ conns' = [c \in Conns |->
       IF conns[c].status = "hungup" THEN NoConn ELSE conns[c]]
  /\ UNCHANGED <<sessions, todo, requested, published, ending, sinceReload, waited>>

-----------------------------------------------------------------------------
(* Time passes while the thread sleeps or waits. *)

Older(s) ==
  IF s.state = "absent" THEN s
  ELSE [s EXCEPT !.idle = s.idle + 1,
                 !.age = IF Dated(s) THEN s.age + 1 ELSE s.age,
                 !.timer = IF s.timer = None THEN None ELSE Max({0, s.timer - 1})]

Tick ==
  /\ \/ At("poll") /\ ~Ready /\ sleep > 0
     \/ At("await") /\ waited < AckTimeout
  /\ sessions' = [p \in Peers |-> Older(sessions[p])]
  /\ conns' = [c \in Conns |->
       IF conns[c].status = "pending" THEN [conns[c] EXCEPT !.age = @ + 1] ELSE conns[c]]
  /\ sinceReload' = sinceReload + 1
  /\ sleep' = IF At("poll") THEN sleep - 1 ELSE sleep
  /\ waited' = IF At("await") THEN waited + 1 ELSE waited
  /\ joining' = IF joining = NotYet THEN NotYet ELSE joining + 1
  /\ UNCHANGED <<pc, wake, active, todo, requested, published>>

-----------------------------------------------------------------------------
Init ==
  /\ sessions = [p \in Peers |-> NoSession]
  /\ conns = [c \in Conns |-> NoConn]
  /\ wake = FALSE
  /\ active = TRUE
  /\ joining = NotYet
  /\ pc = "loop"
  /\ todo = {}
  /\ requested = FALSE
  /\ sinceReload = 0
  /\ waited = 0
  /\ sleep = 0
  /\ published = {}

ControlNext ==
  \/ Ends
  \/ Accept
  \/ \E c \in Conns : Look(c)
  \/ EndCommands
  \/ \E failed \in SUBSET Peers, timeout \in 1..Retransmit : Expire(failed, timeout)
  \/ RejectReload
  \/ \E revoked \in SUBSET Peers : ApplyReload(revoked) \/ SendFails(revoked)
  \/ Answer
  \/ Plan

TableNext ==
  \E p \in Peers :
    \/ \E timeout \in 1..Retransmit : NewSession(p, timeout) \/ HandshakeStep(p, timeout)
    \/ \E login \in BOOLEAN : Establish(p, login)
    \/ Login(p)
    \/ Activity(p)
    \/ RemoveSession(p)

ClientNext ==
  \E c \in Conns :
    \/ Connect(c)
    \/ \E command \in Commands : Send(c, command)
    \/ ClientReads(c)
    \/ WatcherCloses(c)

Next ==
  \/ ControlNext
  \/ PollReturns
  \/ TableNext
  \/ ClientNext
  \/ Deactivate
  \/ Cleanup
  \/ Tick

Spec == Init /\ [][Next]_vars

-----------------------------------------------------------------------------
(* Properties *)

Frames == SUBSET Peers

Watching ==
  [status : {"watching"}, room : BOOLEAN, seen : Frames \cup {None},
   pending : Frames \cup {None}, begun : Frames \cup {None}, next : Frames \cup {None},
   missed : BOOLEAN]

(* Every variable has its type; a deadline that has passed is kept as 0, and  *)
(* a frame of which a part is written is the one that is written on: newer    *)
(* snapshots wait behind it.                                                  *)
TypeOK ==
  /\ sessions \in [Peers -> [state : {"absent", "pending", "established", "authenticated"},
                             idle : Nat, age : Nat, timer : Nat \cup {None}]]
  /\ conns \in [Conns -> [status : {"closed", "queued", "pending", "reloading", "hungup"},
                          command : Commands \cup {None}, age : Nat] \cup Watching]
  /\ wake \in BOOLEAN
  /\ active \in BOOLEAN
  /\ joining \in Nat \cup {NotYet}
  /\ pc \in {"loop", "commands", "timers", "reload", "await", "plan", "poll", "done"}
  /\ todo \subseteq Conns
  /\ requested \in BOOLEAN
  /\ sinceReload \in Nat
  /\ waited \in Nat
  /\ sleep \in Nat
  /\ published \in Frames
  /\ \A c \in InState("watching") : conns[c].begun \in {None, conns[c].pending}

(* README: handshakes end after ten seconds, silent clients after 300,        *)
(* sessions after max_session_lifetime.  No session outlives its limits by    *)
(* more than the time control may wait for the decrypt worker, although the   *)
(* limits are set by other threads while control sleeps.                      *)
LimitsEnforced ==
  pc # "done" =>
    \A p \in Live : /\ sessions[p].idle <= Limit(sessions[p]) + AckTimeout
                    /\ sessions[p].age <= MaxLifetime + AckTimeout

(* Control never sleeps past a deadline: one that was set after it computed   *)
(* next_wake comes with a wake-up that it has not drained.                    *)
NoOversleep ==
  pc = "poll" /\ ~wake => \A d \in Deadlines : sleep <= Max({0, d})

(* A connection is answered or closed in time, whatever its client sends and  *)
(* whatever others ask meanwhile, and control does not go to sleep while       *)
(* somebody waits for the outcome of a RELOAD.                                 *)
CommandsEnd ==
  /\ \A c \in InState("pending") : conns[c].age <= CommandTimeout + AckTimeout
  /\ pc = "poll" => InState("reloading") = {}

(* README.md:420: after WATCH a new snapshot is pushed whenever the list of     *)
(* connections changes.  Read as: while control sleeps without a wake-up, the  *)
(* last frame queued for every watcher shows the table as it is.  The code     *)
(* compares with what was published last (control.rs:262) and does not keep    *)
(* this: a watcher may have joined with a newer list than that.                *)
SnapshotsPushed ==
  pc = "poll" /\ ~wake =>
    \A c \in InState("watching") : Newest(conns[c]) = Identity(sessions)

(* What the code does keep: a watcher lacks the table as it is only when, in   *)
(* the very round in which it joined, a later DISCONNECT took the table back   *)
(* to what was published before.  No other order of commands, time limits and  *)
(* steps of other threads leaves a watcher behind.                             *)
WatchersInformed ==
  pc = "poll" /\ ~wake =>
    \A c \in InState("watching") :
      conns[c].missed \/ Newest(conns[c]) = Identity(sessions)

(* The join of this thread takes no longer than an acknowledgement may.       *)
JoinPrompt == pc # "done" => joining <= AckTimeout

(* However slowly a watcher reads, its last snapshot is not left behind: when *)
(* control sleeps with nothing to wake it, the watcher has that snapshot or    *)
(* its socket is full, and the poll will tell when there is room.              *)
NoFrameStuck ==
  pc = "poll" /\ ~Ready =>
    \A c \in InState("watching") : conns[c].seen = Newest(conns[c]) \/ ~conns[c].room
=============================================================================
