# Specifications of autobricks-vpn

TLA+ specifications of the VPN server and client in `src/src` and of the client
registry that the web application in `src/web` shares with the server, the TLC models
that check them on small instances, and TLAPS proofs of the results that hold
for every instance. Module, operator and variable names follow the code;
`PROJECT.json` maps every definition to the lines it models.

- [The system](#the-system)
- [Modules](#modules)
- [Runs](#runs)
- [Where code and documents disagree](#where-code-and-documents-disagree)
- [What else the models show](#what-else-the-models-show)
- [Proofs](#proofs)
- [Not modelled](#not-modelled)

## The system

A DTLS 1.2 VPN. Clients send IPv4 packets of a TUN device through wolfSSL to a
server, which routes them between clients and its own TUN device. Certificates
are bound to VPN addresses; an address may require a login as well. A web
application issues certificates and edits the server's configuration.

### Server

Six threads share a table of sessions, a few queues and a few signals.

| Part | State | Operations |
|---|---|---|
| UDP reader (`server/udp_read.rs`, on the main thread) | the socket | receive datagrams, push to `udp_rx_queue`, stop |
| Decrypt worker (`server/decrypt.rs`) | its copy of bindings and logins, the rate limiter, the generation of `udp_rx_queue` it observed | read records of sessions, check logins, remove duplicates, adopt a reload, admit or refuse a peer, drive handshakes |
| Session table (`server/session.rs`) | `Vec<Session>` under a mutex: peer, address, fingerprint, state, two queues per session | insert, remove by index, find by peer or address |
| Session control (`server/control.rs`) | bindings and logins, timers, control socket, watchers, pending commands | time out sessions, retransmit, answer commands, reload the configuration |
| Encrypt worker (`server/encrypt.rs`) | `pending` | route TUN packets to sessions, write records, flush what waits |
| UDP write worker (`server/udp_write.rs`) | poll set | send datagrams of all sessions, remove sessions whose socket fails |
| TUN reader (`server/tun_read.rs`) | the device | push packets to `tun_read_queue`, close it on an error |
| Main thread (`server.rs`) | error channel, `active` | parse the configuration, start the threads, clean up and join |

`lib.rs` holds the DTLS wrapper around wolfSSL, the handshake rate limiter and
the packet helpers; `base/queue.rs` the bounded queue with reservations
(`QueueFront`) and a change generation; `base/worker.rs` the generation counter
`WorkerSignal` and the queue workers.

### Client

The main thread connects, logs in, starts six workers (UDP reader and writer,
TUN reader and writer, encrypt, decrypt) around four queues, watches the
server's activity and the error channel, cleans up and decides whether to
connect again (`client/mod.rs`).

### Management web

An Express application (`web/src`) that issues certificates, writes bindings
and logins into `server.ini`, and asks the server over its control socket to
reload, with rollback when a step fails.

### What is hard here

- **Three threads remove sessions from one Vec**, by index, with `swap_remove`,
  while two paths of the decrypt worker authenticate sessions.
- **A reload is spread over two threads**: control filters the table by the
  new configuration before the decrypt worker knows it, with a channel, an
  acknowledgement and a time limit of two seconds in between.
- **Workers sleep on one object and look for work in others.** The decrypt
  worker sleeps on a queue and must notice a reload channel; the encrypt worker
  sleeps on the TUN queue and must notice every session's queue; the UDP writer
  sleeps on a signal that three threads must remember to notify.
- **Shutdown** sets a flag, notifies and closes in a certain order and joins
  threads that may be asleep, about to sleep, or failing.
- **Limits** (`max_clients`, pending handshakes in all and per address, queue
  capacities, the rate limit) are checked at one time and relied on later.
- **Deadlines set by others.** Control computes how long it may sleep from a table
  that other threads change the moment it releases the mutex.
- **Two programs check one file** by rules of their own, and a request of the web
  application spans several awaits in which others write the file.
- **UDP** loses and reorders; login messages are not retransmitted.

The list `hazards` in `PROJECT.json` gives each one with its line.

### What makes each part correct

| Part | Properties |
|---|---|
| Session table | one authenticated session per VPN address; limits; removal by index removes what was meant; the newest session survives |
| Reload | an answered RELOAD is in force; no update is slept over or lost; revoked clients are gone |
| Session control | no session outlives its limits, no deadline is slept over, every command ends, watchers have the last snapshot, the thread can be joined |
| Rate limiter | bans exactly as promised, whatever is purged when |
| Queue and its workers | capacity, order, at-most-once delivery, empty after close, no lost wake-up; the retry timer belongs to the item it was started for; a stop ends the worker |
| Send path | no worker sleeps over work; a queued datagram is tried; joins return |
| Registry | the server loads what the web process writes; what a request was answered stays true; a failed issue leaves no certificate registered unless its rollback fails too; the server converges to the file |
| Client | login agreement with the server; connections do not overlap; cleanup ends; errors lead to a new connection |

## Modules

| Module | Models | Depends on |
|---|---|---|
| `SessionTable` | table, decrypt worker, session control's filter and reload, UDP writer's removals | |
| `SessionVec` | `SessionTable` with the order of the Vec | `SessionTable` |
| `MCSessionTable`, `MCSessionVec` | small instances of the two | |
| `SessionControl` | the control thread: time limits, control socket, watchers, deadlines, poll, shutdown | |
| `RateLimit` | the promise of the handshake rate limit | |
| `IpRateLimiter` | the limiter of `lib.rs`, which implements `RateLimit` | `RateLimit` |
| `Queue` | `Queue<T>` with producers and its consumer | |
| `QueueWorker` | the three loops of `QueueWorker<T>` as that consumer, the retry timer and the stop | `Queue` |
| `Egress` | encrypt worker, UDP writer, whoever feeds them, and the server's cleanup | |
| `Registry` | the `[client]` section: web requests, file, server's checks, reload | |
| `MCRegistry` | a small instance of it | `Registry` |
| `Client` | the client's main thread, its workers, and the server as it sees it | |
| `SessionTableProofs`, `SessionVecProofs`, `SessionControlProofs`, `RateLimiterProofs`, `QueueProofs`, `EgressProofs`, `RegistryProofs`, `ClientProofs` | theorems | the module proved about |

### Common conventions

One section between lock and unlock of a mutex is one action; so is each store
to an atomic, each send to a channel and each notification outside a mutex. An
action does all that the section does. wolfSSL, sockets, timers, users and
networks are choices. A generation counter (`WorkerSignal`, `Queue`) appears as
`changed`: it moved since the sleeping thread read it; that is all `wait`
compares. In `Queue` itself the counter is kept as a number.

Next to some definitions stands a variant commented as its mutant: the form a
plausible mistake in the code would give it. `PROJECT.json` names the property
that each mutant breaks; no specification uses them.

### SessionTable

`sessions` maps each peer (UDP source endpoint) to absent, pending, established
or authenticated with its address and fingerprint. The decrypt worker's loop is
`Drain`, `Dedupe`, `Adopt`, then one of the outcomes of receiving:
`ReceiveEmpty`, `KnownPeer` (a handshake step, possibly `Complete`),
`RefusePeer`, `BanPeer`, `AdmitPeer`, `AcceptorFails`. The control thread is
`Tick` (timeouts), then `NoReload` or `ParseConfig`/`RejectConfig`,
`FilterSessions`, `SendReload`, `NotifyDecrypt` and, for a requested reload,
`ReloadAcked` or `ReloadTimeout`. `UdpWriteError` removes sessions from the third
thread, `EditConfig` is the web application or an editor. `DecryptStops`,
`TunWriteFails` and `ControlStops` end the threads.

A configuration is the pair of bindings and logins a reload reads. Time is
abstracted to "any set of sessions may be past its limit now"; the limits as
times are in `SessionControl`.

### SessionVec

Adds `order` (the Vec), `arrivals` (pending sessions by `last_activity`) and
the history variable `latest`. Every action is the one of `SessionTable` in
conjunction with what the code does to the Vec: `swap_remove` in scans
(`ScanRemove`), `swap_remove` over collected indices in reverse
(`RemoveCollected`), `retain` (`RetainOnly`). Each loop is a recursive function of
the number of its rounds, which is the form the proofs induct on.

### SessionControl

One round of the loop is `Accept` (connections, up to the list of 64),
`Look` for each pending command (too old, complete: `HandleCommand`, or kept),
`EndCommands` (`publish_if_changed`), `Expire` (retransmissions, time limits, a
second publication), then `RejectReload`, `ApplyReload` or `SendFails` if a reload
is due or asked for, `Answer` after the wait for the decrypt worker, `Plan`
(`next_wake`) and the poll, which ends with `PollReturns`. `Ends` leaves the loop.
The mutex of the table is held from `Accept` to `Expire`: `MutexFree` guards what
other threads do to the table (`NewSession`, `HandshakeStep`, `Establish`, `Login`,
`Activity`, `RemoveSession`). Each of these notifies `control_wake`, except
`Activity`, which only moves a deadline back.

Instants are kept as ages and times left, so time is unbounded without a clock.
`Tick` is the passing of time; it happens in the two places where the thread
waits: the poll, while no descriptor is ready and the timeout is not over, and
`recv_timeout`. A watcher has the frame being written, the one queued behind it and
whether its socket has room; a frame is the set of authenticated clients, which is
what `write_session_identity` compares. A write may come to a part of a frame.
`missed` is a history variable that marks a watcher left behind by a DISCONNECT in
the round it joined in: `SnapshotsPushed` is what the README promises and fails for
it, `WatchersInformed` says that it is the only one.

### IpRateLimiter and RateLimit

`states` is the HashMap; `CheckBan`, `RecordAttempt` and `Purge` are the three
methods; `ClockTick` is `Instant::now` moving. `RateLimit` states the promise on
the complete record of attempts, with no purge and no table: the `Limit`-th
attempt of one address within `Window` bans it for `Ban`. `KeepsPromise` is the
refinement. `check_ban` is asked for every datagram of an unknown peer and does
not count as an attempt.

### Queue

Producers push, close and `notify_change`; each releases the mutex and then
notifies (`Notify`). The consumer is the most general one of a single thread:
`pop`, `peek`, `try_*`, timed pops, `wait_for_change`, and a reservation it may
commit (`Commit`) or drop (`Restore`). Items carry their push number, so order
and loss are visible.

### QueueWorker

Extends `Queue`: every step of a worker is a step of the queue's consumer, in the
order of `spawn`, `spawn_peek` or `spawn_scan_peek` (`kind`); a queue of kind
`direct` has a consumer that calls it in any order. `FailedPeek` is the failed
attempt of `spawn_peek` with its retry timer, `GiveUp` the end of the retry timeout,
`SignalWaitEnds` the wait on the worker's signal. `CheckStop` and `ReadSignal` are the
second test of the stop bit and the reading of the signal's generation; the three
steps of `request_stop` (`SetStop`, `StopCloses`, `StopNotifies`) may all come between
them.

### Egress

`raw` and `enc` are the sessions with something in their plain and encrypted
queues. A section that notifies while it holds the table's mutex is split:
`Section` takes the mutex and does the work, `Announce` gives one notification
after another, the last one releases the mutex. The encrypt worker goes through
`EncryptLoop`, `EncryptObserve`, `Route` or `Discard`, `NotifyRouted`, `TakeRetry`, `Reflush`,
`FlushPending`, `NotifyFlushed` and `EncryptWakes`; the UDP writer through
`WriterLoop`, `WriterObserve`, `WriterDrain`, `WriterPolls`, `RequestRetry`,
`RouseEncrypt`, `WriterCheck`, `WriterRecheck` and `WriterWakes`. The test of the flag
and the reading of the generation are two steps of either worker. `DecryptRead`, `Handshake`, `Retransmit`,
`TunPacket` and `UdpReceived` are the other threads; `Deactivate`, `Cleanup`,
`CleanupNotify` and `CleanupClose` the shutdown.

### Registry

The web process is one thread, so what a request does between two awaits is one
action and requests interleave where they await a RELOAD. An issue creates a
certificate, writes the entry, awaits the RELOAD and sends the package, or takes
the entry back; a DELETE awaits a RELOAD before and after; a PUT writes and sends no
RELOAD. Reading and writing the file may fail wherever a request does it: `PutFails`,
`EditFails` and, for the removal that takes an issue back, `RollbackFails`, after which
the request is `unrolled`. The file is replaced by a rename, so a failed write changes
nothing. The server's control thread loads the file (`Load`) for a RELOAD or its
interval, sends what it read through the channel and waits for `Acknowledged` or
`AckTimeout`; `Adopt` is the decrypt worker. The two sides check the entries by
their own rules, `Acceptable` and `Loads`: the network arithmetic is that of the
code over words of `W` bits, the difference between an address and its text is kept
in `plain`, and a password that only one side splits at white space is the login
`spaced`.

### Client

`main` follows `run_with_login`, `connect`, `authenticate` and
`run_connection`. `wire` holds the records on their way to a client that logs
in; any may be lost (`Lose`) or overtaken, none comes twice (DTLS replay
window). A worker that fails does it in the three steps of the code: clear
`active` (`Fails`), send the error (`Reports`), close its queue (`Closes`).
The decrypt worker is modelled step by step, since it sleeps on a signal; the
others by the conditions that end them. Only the first error matters to the
main thread, so `errors` holds one. When only the first few workers can be started
(`SpawnFails`), those stay behind as `left`, with `active` set and queues nobody
closes, until an error of their own or a stop ends them (`LeftEnds`); the encrypt
worker is stopped and joined as its `QueueWorker` is dropped. They are followed until
the next connection starts its workers. Four queues are represented by whether
they are closed, `encrypted_rx` also by whether it is empty.

## Runs

| Run | Question |
|---|---|
| `table` | Four peers behind three source addresses, two VPN addresses, `max_clients` 1: do the limits, the uniqueness of the authenticated session and the removals by index survive all interleavings of the three threads? |
| `table_reload` | Configurations that add and drop a login and revoke a binding: what does an acknowledged reload mean, can an update be slept over, is it always read? |
| `control` | Are the time limits kept, does control sleep past a deadline, do commands end, do watchers get the last snapshot, does the join return in time? |
| `rate_limiter` | Does the limiter with its purges implement the promise? |
| `queue` | Capacity, order, closing, wake-ups, the retry timer, and the end of blocking calls and of workers that are stopped. |
| `egress` | Does any worker sleep over work, and do the joins return? |
| `registry` | Two requests and the server's own reloads in any order: does the server load what is written, are answers true, does it converge? |
| `client` | Login over a lossy channel, failing workers, cleanup and reconnection. |
| `watch_missed`, `login_race`, `vec_newest`, `client_exit` | What the documents say and the code does not do; see below. |

### Bounds

- `table`: four peers, two of them behind one source address: the limit
  per address refuses one while the limit on all makes another one give way; two
  addresses, so that a handshake meets a taken and a free one; `max_clients` 1
  makes every check of it bite. With these limits at most two sessions are in the Vec
  at once: a removal changes the place of the other one, which is what an index
  collected before it must survive, but the sessions that stay are never reordered
  among themselves. `OrderMatchesTable` proves the removals for any length. A fixed
  configuration: reloads run, filter and are adopted, and change nothing.
- `table_reload`: two peers and two queued updates
  (`MaxQueuedReloads`), enough for an update that timed out, a newer one
  behind it and a late acknowledgement.
- `control`: one client and two connections, of which one watches
  (`MaxWatchers`) and one finds the list of pending commands full
  (`MaxPending` 1). The time limits are the least ones that differ where they can be
  told apart: a session can pass from limit to limit, expire by being idle and by
  its age, and the wait for an acknowledgement is longer than a command may take.
  All its invariants are proved for every number of clients and connections and all
  limits. With one pending command a WATCH and a DISCONNECT are never read in one
  round; `watch_missed` has room for two, and the invariants of `control` hold with two
  as well. The thread ends, so deadlock is not checked.
- `rate_limiter`: window 2, ban 3, clock up to 7 (`MaxTime`): a ban begins, ends
  and begins again; three attempts are the least limit with which an attempt can
  expire while another one counts. `MaxAttempts` bounds the record.
  The bound on the clock ends every behaviour, so deadlock is not checked.
- `queue`: two producers and capacity 2; five changes (`MaxGeneration`) fill the
  queue, overflow it, put an item back into a full queue and close it. A worker that
  has ended leaves nothing to do, so deadlock is not checked.
- `egress`: one session. A session's queues matter only by being empty or not,
  and the table's mutex serialises whoever fills them; two sessions give the
  same safety results. `TunCapacity` 1 lets the TUN queue be empty and full. That
  the wake-up invariants hold for any number of sessions is proved.
- `registry`: addresses of four bits (`W`), the network 8 to 15, the server at
  9; two clients, one of them also spelled with leading zeros, and the server's own
  address in both spellings; two requests and a
  certificate from elsewhere; two updates in the channel (`MaxUpdates`), so that an
  update whose wait timed out is followed by another. Each request is made once, so
  deadlock is not checked.
- `client`: at most `MaxFailing` workers handle an error at one moment, any
  number one after another; all safety properties also hold with two. The
  program may end, so deadlock is not checked.

### Fairness

Rust threads are preemptively scheduled, so a thread that can go on does: weak
fairness of each thread's next-state action (`SessionTable`, `Client`), of
the notifications, the pending call and the loop of `Queue` and `QueueWorker`, and
of the rest of a `request_stop` that has begun. Polls and timed waits end by
themselves. The workers of `Egress` take the mutex
of the table, which other threads take as well: they are enabled again and again
rather than continuously, and the mutexes the code uses let a waiter in
eventually, hence strong fairness of the two workers. In `Registry` the event loop
of the web process runs every request that can go on, the control thread loads the
file again (its interval guarantees that), the decrypt worker takes updates and a
wait for an acknowledgement ends. `SessionControl` has no liveness property: that
things happen in time is an invariant there. Nothing is assumed of the
network, wolfSSL, the TUN device, the administrator or a spurious wake-up.

## Where code and documents disagree

- `vec_newest` — README.md:450 promises that the session that authenticates
  again replaces the earlier one. The duplicate check after a login
  (`decrypt.rs:242`) keeps the session with the highest index. TLC's trace: a first
  peer completes its handshake and awaits its login, a second one of the same address
  is admitted behind it and authenticates, then the first logs in. It has the lower
  index, so the session that just logged in is dropped and the earlier one stays. The
  order in which the two were inserted is enough for this; no session is moved.
- `watch_missed` — README.md:420 says that after a WATCH a new snapshot is pushed when
  the list of connections changes. `publish_if_changed` (`control.rs:262`) compares with
  what was published last, not with what a watcher was sent. A client authenticates, a
  round then reads a WATCH, answered with that client in the list, and a DISCONNECT of
  it: the table is what was published before, nothing is pushed, and the watcher shows
  a client that is gone until the next change.
- `login_race` — README.md:359 promises that a reload removes the sessions whose
  binding or login it changes. A session that the decrypt worker accepts by the old
  logins between the filter (`control.rs:392`) and the adoption (`decrypt.rs:253`)
  stays authenticated without a login through later reloads, because the filter compares configurations and not sessions
  (`control.rs:402`).
- `client_exit` — CLIENT.md:20 and README.md:68 say that worker errors reach the
  main thread and that a lost connection is established again. A worker clears
  `active` before it sends; a main thread that looks in between
  (`client/mod.rs:540`) leaves with `Ok(())` and the client ends.

## What else the models show

Behaviour that a property has to make an exception for:

- A reservation that is put back into a full queue removes the newest item
  (`queue.rs:46`), while README.md:94 says that a full queue removes the oldest.
  `LostOnlyWhenFull` and `InOrder` hold all the same.
- The retry timer of `spawn_peek` (`worker.rs:150`) belongs to the item at the front
  when it was started. When an overflow drops that item, the one behind it inherits
  the time that is left; `TimerFresh` excludes that case only.
- Bindings have the same window as logins: a handshake completed between the filter and
  the adoption is accepted by the old bindings, although README.md:422 says that the
  sessions of a deleted client are removed. It stays until the filter of the next
  reload. `NoNewStaleSession` shows that the window closes with the adoption.
- A stop that falls between the second test of the stop bit (`worker.rs:142`) and the
  reading of the signal's generation (`worker.rs:145`) is not seen by the wait for a
  retry: if the item fails, the worker sleeps for what is left of the retry timeout and
  ends only then. `StopReturns` holds because that wait is bounded. Only the tests use
  `spawn_peek`; the client's encrypt worker is a `spawn_scan_peek`, which has no such
  wait.
- When a worker of the client cannot be started, those started before it are left
  running (`client/mod.rs:494`), although CLIENT.md:20 has the main thread manage their
  end. `NoOverlap` states what remains true: none that encrypts or sends is among them.
  A TUN reader left behind goes on taking packets from the device into a queue nobody
  reads, which the next connection does not get.
- The removal that takes a failed issue back can fail itself (`app.js:100`,
  `server-config.js:123`). The certificate then stays registered at the address it was
  issued for, and the error that is answered is that of the removal. `NoOrphans` allows
  this case and no other.
- The web process takes an address with leading zeros in a part
  (`server-config.js:59`); `Ipv4Addr` refuses it. A PUT with one makes every later
  RELOAD fail until the entry is removed, and both an issue and a DELETE through
  the web need a successful RELOAD. So does a password with a U+0085 inside: `\s` of
  the web's check (`server-config.js:104`) does not match it, `split_whitespace` of the
  server (`server.rs:115`) does, and the entry has four parts. `FileLoads` states exactly
  these two exceptions.
- Taking back a failed issue removes whatever is registered at its address by then
  (`app.js:101`); `stands` records which entries have been written over.
- For a network with prefix 0 the web process shifts by 32 bits, which JavaScript
  takes as a shift by none: only an address equal to the network's passes the
  network test and that one is refused as well, so no client can be registered.

## Proofs

TLAPS proves the following for every value of the constants, from the
assumptions named in the modules (finite sets of peers and connections, positive
limits and capacities, `Ban >= Window`, limits of a session that do not shrink as it
proceeds, a valid network).

| Theorem | Says |
|---|---|
| `SessionTableProofs!TypeCorrect` | type correctness of the table and both threads |
| `SessionTableProofs!OneActive` | one authenticated session per address |
| `SessionTableProofs!TableLimit`, `ClientLimit` | the limits of admission |
| `SessionTableProofs!ReloadAcknowledged` | an acknowledged reload is in force |
| `SessionTableProofs!ReloadWakes` | no update is slept over |
| `SessionTableProofs!NoLateStaleSession` | no session against common bindings appears |
| `SessionTableProofs!UpdateBounded` | while an update waits, the decrypt worker only comes nearer to reading it |
| `SessionVecProofs!VecImplementsTable`, `VecKeepsLimits` | the Vec implements the table and keeps its limits |
| `SessionVecProofs!OrderMatchesTable` | the Vec holds exactly the peers of the table, each once |
| `SessionVecProofs!OrderAlwaysDecides` | the order always leaves one session to keep and one to evict |
| `SessionControlProofs!ControlTypeCorrect` | type correctness of the control thread |
| `SessionControlProofs!LimitsHold`, `ControlNeverOversleeps` | the time limits, and the deadlines of the poll |
| `SessionControlProofs!EveryCommandEnds`, `JoinIsPrompt` | commands and the join end in time |
| `SessionControlProofs!WatchersStayInformed`, `NoFrameLeftBehind` | the last snapshot is queued but in the case of `watch_missed`, and written when there is room |
| `RateLimiterProofs!LimiterTypeCorrect`, `BansKept` | the table is well-formed, and it and the record agree on bans |
| `RateLimiterProofs!LimiterKeepsPromise` | `IpRateLimiter` implements `RateLimit` |
| `QueueProofs!QueueTypeCorrect`, `Fifo`, `Bounded`, `NothingLost`, `WakesUp` | order, capacity and closing, losses, wake-ups |
| `QueueProofs!WorkerIsConsumer`, `TimerNeverStale` | a worker is a consumer of its queue; its timer |
| `QueueProofs!CallStaysReady` | a call that can return goes on being able to |
| `QueueProofs!StopWakesCall`, `StopBounded` | no blocking call of a worker outlasts a stop, and it ends within four steps of its loop |
| `EgressProofs!EgressTypeCorrect` | only sessions of the table have queues; the mutex is held while a notification is due |
| `EgressProofs!EncryptNeverOversleeps`, `WriterNeverOversleeps` | no worker of the send path sleeps over work |
| `EgressProofs!CleanupWakesAll`, `JoinBounded` | the server's cleanup leaves nobody asleep; while main joins, workers only come nearer to their end |
| `RegistryProofs!RegistryTypeCorrect`, `WrittenFileLoads` | the file that is written is one that loads, but for the two exceptions |
| `RegistryProofs!FailedIssueLeavesNothing`, `AnswersStayTrue` | what an issue leaves when it, or its rollback as well, fails; answers |
| `RegistryProofs!OldUpdatesNeverWin` | no step brings an older configuration back |
| `ClientProofs!ClientTypeCorrect`, `DecryptNeverOversleeps`, `ConnectionsDoNotOverlap`, `OnlyAuthenticated` | the client's workers and its login |
| `ClientProofs!CleanupWakesAll`, `JoinBounded` | the same of the client's cleanup and join |

The arguments:

- **TableInv.** `AtMostOneActive` together with the bound on addresses in use
  and on the whole table. The bound on the table, `max_clients +
  max_pending_handshakes - 1`, is what admission really guarantees: a new peer is
  admitted only below `max_clients` established sessions, and completion moves a
  session from one count to the other and removes the sessions it replaces. It
  is inductive only with the bounds on pending sessions beside it. The limit on
  authenticated sessions follows: their addresses are distinct and the addresses
  are bounded.
- **AckInv.** An update that carries an acknowledgement is the last in the
  channel and the one control waits for; once acknowledged, the channel is empty
  and the decrypt worker has its configuration. `AckMeansAdopted` alone says
  nothing of updates still in the channel and is not inductive. What makes it
  true is that `ReloadTimeout` drops the receiver.
- **WakeInv, EncryptInv.** What the sleeping state promises must already hold
  in the steps between the last look for work and the sleep; the invariants
  extend `NoSleepOverReload` and `EncryptAwake` to them. `WriterInv` does the same for
  the step between `WriterCheck` and the sleep, in which the flag is tested.
- **Inv of `SessionControlProofs`.** One conjunction carries all properties of the
  control thread, because they need each other: that the poll is never too long
  (`SleepInv`, which is `NoOversleep` without sets) keeps sessions, commands and the
  reload within their times (`LimInv`, `AgeInv`, `SinceInv`), and those bounds are
  what gives the set of deadlines a least element, so that `next_wake` is defined.
  Past the poll, times grow only while an acknowledgement is awaited, at most
  `AckTimeout` once in a round (`WaitInv`). The lemma behind `LimInv` is that other
  threads only ease a session (`Eases`): they set its age or idle time to zero or
  leave it while its limit grows. `SleepInv` is inductive because every other step
  that sets a deadline also sets `wake`. `JoinInv` says that a thread that is being
  joined has a wake-up waiting and does not start another round; `InfoInv` that every
  watcher has what was published last, and that this is the table or a wake-up is on
  its way; `WellQueued` that nothing is queued behind an empty place.
- **BanInv, CountInv.** A ban of the record that still runs is the one in the
  table, and the other way round; `Purge` keeps entries whose ban runs. For an
  address that is not banned the times in the table are those of the record that
  lie within the window, in number: what was trimmed or purged is too old to count,
  and with `Ban >= Window` so are the attempts before a ban that is over. Each of the
  three methods then is a step of `RateLimit` or a stutter.
- **QueueInv, WorkerInv.** The items increase and lie above both the last delivered
  and the reserved one; a consumer inside a call holds no reservation. The second
  part is what makes `Restore` at the front keep the order. A worker's steps are
  shown to be steps of the consumer, so all of this holds under it; `WorkerInv` adds
  that the timer runs only between attempts at the front item.
- **FileInv, OrphanInv, AnswerInv.** Every entry passes the server's checks but for
  its spelling, and names and certificates are distinct: each writer checks against
  the file it is about to replace. A certificate is registered only by the issue that
  made it, at the issue's address and until it has been taken back, or by a PUT. An answer is true because what the request wrote is in the
  file while it stands, only the last update of the channel is waited for, and every
  update behind a given answer reflects the request.
- **ClientInv.** Outside a connection every worker has ended or was left by a failed
  start; one that is left was started before the one that failed, so it is neither
  the encrypt worker nor the UDP writer; and an acceptance on the wire
  comes from a server that has authenticated the session.
- **VecInv.** `order` lists the peers of the table and `arrivals` the pending ones,
  each without repetition. That a removal keeps this is proved of each loop by
  induction on its rounds (`RetainLists`, `ScanLists`, `CollectLists`): the loop of
  `swap_remove` over collected indices is right because the indices go down, so what
  is moved into a freed place was looked at before. The library's induction theorems
  have an operator as parameter; `Induction` in `SessionVecProofs` is stated of a set
  of numbers instead and follows from the well-foundedness of `<`, and `LoopExists`
  gives the recursive functions their equations. `LastIndex` finds the session that
  the duplicate check keeps.
- **StopInv, CleanupReachesAll.** What a thread waits for after a stop has been
  provided by the steps that came before it: the queue is closed before a stop
  counts as requested, and `active` is cleared before `dtls_progress` is notified. A
  worker that reads a signal's generation after that notification has tested the flag
  before it; the workers of server and client test the flag again, or find their queue
  closed, before they sleep. `spawn_peek` does not, so nothing is proved of its wait for
  a retry except that it comes once (`StopBounded`); that it ends is `StopReturns`, by
  its timeout. The bounds
  (`StopCountsDown`, `JoinCountsDown`, `UpdateComesNearer`) give each place in a loop
  its distance from the end and show that every step lowers it.
- **Newest.** The configuration the server ends up with if nothing else happens: the
  last of the channel, or the adopted one. Only a reload of the file changes it.

Only model-checked: the liveness properties (`ReloadAdopted`, `CallReturns`,
`StopReturns`, `DatagramTried`, `WorkersEnd`, `Converges`, `JoinReturns`). They need
fairness and `ENABLED`, which are beyond the prover. For all but `DatagramTried` the
safety half is proved: that no thread sleeps without a wake-up on its way, that what
is awaited cannot become false again, and that each step lowers a distance. What TLC
adds is that the threads do take those steps. The properties of the runs that expect
a violation are of course not proved.

## Not modelled

- wolfSSL: a foreign library. Its answers (handshake progress, certificates,
  records, WANT_READ) are choices.
- The INI file apart from its `[client]` section and the network; certificates,
  revocation lists and their policies.
- Routing by destination, broadcast and multicast, and what packets contain: pure
  functions of one packet.
- The server's error channel and the text of error reports.
- In `Client`, what threads left by a failed start (`client/mod.rs:494`) do once the next
  connection has started its own; diagnostics, DNS and embedded credentials.
- The pages of the web application, its activity log and the creation of
  certificates.
- Platform code (TUN devices, sockets, DNS), command line, packaging,
  installation: pure I/O or sequential scripts.
