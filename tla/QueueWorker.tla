----------------------------- MODULE QueueWorker -----------------------------
(***************************************************************************)
(* QueueWorker<T> of base/worker.rs on a Queue<T>: the three loops that     *)
(* take items from a queue, the retry timer of spawn_peek, and a stop from  *)
(* outside.                                                                *)
(*                                                                         *)
(* The worker's steps are steps of the queue's consumer in the order of its *)
(* loop.  A queue whose kind is "direct" has a consumer that calls it       *)
(* without a QueueWorker, in any order.  `process` is a choice.             *)
(***************************************************************************)
EXTENDS Queue

VARIABLES
  kind,      \* spawn, spawn_peek, spawn_scan_peek or direct
  at,        \* where the worker is
  stop,      \* how far request_stop has come; the stop bit is set first
  timer,     \* retry_started: "none", "running" or "over" the retry timeout
  timed,     \* history: the item for which the timer was started
  roused     \* the retry signal changed since the worker read its generation

workerVars == <<kind, at, timer, timed, roused>>
allVars == <<vars, workerVars, stop>>

Kinds == {"spawn", "spawn_peek", "spawn_scan_peek", "direct"}

Stopping == stop # "no"

-----------------------------------------------------------------------------
(* The worker *)

Goto(label) == at' = label /\ UNCHANGED <<kind, stop>>

(* The stop bit is tested before the call. *)
Loop ==
  /\ at = "loop"
  /\ IF Stopping
     THEN Goto("ended") /\ UNCHANGED vars
     ELSE Goto("call") /\ Call(IF kind = "spawn" THEN "pop" ELSE "peek")
  /\ UNCHANGED <<timer, timed, roused>>

(* pop or peek, as the queue does it. *)
CallWaits ==
  /\ at = "call"
  /\ Wait \/ WakeAnyway
  /\ UNCHANGED <<workerVars, stop>>

CallReturned ==
  /\ at = "call"
  /\ Return
  /\ Goto(IF closed THEN "nothing" ELSE "item")
  /\ UNCHANGED <<timer, timed, roused>>

NothingLeft ==
  /\ at = "nothing"
  /\ Goto("ended")
  /\ UNCHANGED <<vars, timer, timed, roused>>

(* A reservation is dropped, if there is one. *)
LetGo == IF reserved = NoItem THEN UNCHANGED vars ELSE Restore

(* The stop bit is tested again. *)
CheckStop ==
  /\ at = "item"
  /\ IF Stopping
     THEN Goto("ended") /\ LetGo
     ELSE /\ Goto(IF kind = "spawn_peek" THEN "observe" ELSE "process")
          /\ UNCHANGED vars
  /\ UNCHANGED <<timer, timed, roused>>

(* Then spawn_peek reads the signal's generation: a whole request_stop may     *)
(* come between the two, and its notification is not seen.                     *)
ReadSignal ==
  /\ at = "observe"
  /\ Goto("process")
  /\ roused' = FALSE
  /\ UNCHANGED <<vars, timer, timed>>

(* Mutant of Processed: the timer runs on. *)
ProcessedTimed ==
  /\ at = "process"
  /\ Goto("loop")
  /\ IF kind = "spawn" THEN UNCHANGED vars ELSE Commit
  /\ UNCHANGED <<timer, timed, roused>>

(* process succeeds. *)
Processed ==
  /\ at = "process"
  /\ Goto("loop")
  /\ IF kind = "spawn" THEN UNCHANGED vars ELSE Commit
  /\ timer' = "none"
  /\ timed' = NoItem
  /\ UNCHANGED roused

(* process fails: spawn_scan_peek puts the item back and tries again. *)
FailedScan ==
  /\ at = "process" /\ kind = "spawn_scan_peek"
  /\ Goto("loop")
  /\ Restore
  /\ UNCHANGED <<timer, timed, roused>>

(* spawn_peek gives an item up when its time is over ... *)
GiveUp ==
  /\ at = "process" /\ kind = "spawn_peek" /\ timer = "over"
  /\ Goto("loop")
  /\ Commit
  /\ timer' = "none"
  /\ timed' = NoItem
  /\ UNCHANGED roused

(* ... and else starts the timer, unless it runs, and waits for the signal. *)
FailedPeek ==
  /\ at = "process" /\ kind = "spawn_peek" /\ timer # "over"
  /\ Goto("signal")
  /\ Restore
  /\ timer' = "running"
  /\ timed' = IF timer = "none" THEN reserved ELSE timed
  /\ UNCHANGED roused

(* The signal changed, or the rest of the retry timeout has passed. *)
SignalWaitEnds ==
  /\ at = "signal"
  /\ \/ roused /\ UNCHANGED timer
     \/ timer' = "over"
  /\ Goto("loop")
  /\ UNCHANGED <<vars, timed, roused>>

-----------------------------------------------------------------------------
(* Outside *)

(* Another thread reports progress to the worker. *)
SignalNotify ==
  /\ ~roused
  /\ roused' = TRUE
  /\ UNCHANGED <<vars, kind, at, stop, timer, timed>>

TimePasses ==
  /\ timer = "running" /\ timer' = "over"
  /\ UNCHANGED <<vars, kind, at, stop, timed, roused>>

(* request_stop sets the bit, closes the queue and notifies the signal. *)
SetStop ==
  /\ stop = "no" /\ stop' = "set"
  /\ UNCHANGED <<vars, workerVars>>

(* Mutant of StopCloses: the queue stays open. *)
StopOnly ==
  /\ stop = "set" /\ stop' = "closed"
  /\ UNCHANGED <<vars, workerVars>>

StopCloses ==
  /\ stop = "set" /\ stop' = "closed"
  /\ IF closed THEN UNCHANGED vars ELSE \E p \in Producers : Close(p)
  /\ UNCHANGED workerVars

StopNotifies ==
  /\ stop = "closed" /\ stop' = "requested"
  /\ roused' = TRUE
  /\ UNCHANGED <<vars, kind, at, timer, timed>>

-----------------------------------------------------------------------------
WorkerInit ==
  /\ Init
  /\ kind \in Kinds
  /\ at = IF kind = "direct" THEN "direct" ELSE "loop"
  /\ stop = "no"
  /\ timer = "none"
  /\ timed = NoItem
  /\ roused = FALSE

WorkerNext ==
  \/ Loop
  \/ CallReturned
  \/ NothingLeft
  \/ CheckStop
  \/ ReadSignal
  \/ Processed
  \/ FailedScan
  \/ GiveUp
  \/ FailedPeek
  \/ SignalWaitEnds

StopNext == SetStop \/ StopCloses \/ StopNotifies

OutsideNext ==
  /\ ProducerNext \/ (\E p \in Producers : Notify(p)) \/ (at = "direct" /\ ConsumerNext)
  /\ UNCHANGED <<workerVars, stop>>

AllNext ==
  \/ WorkerNext
  \/ CallWaits
  \/ OutsideNext
  \/ at # "direct" /\ (StopNext \/ TimePasses)
  \/ kind = "spawn_peek" /\ SignalNotify

WorkerSpec == WorkerInit /\ [][AllNext]_allVars

(* Threads are scheduled, `process` returns and the thread that stops the      *)
(* worker carries on; a wait ends only when it is notified or its time is over. *)
FairWorkerSpec ==
  /\ WorkerSpec
  /\ \A p \in Producers : WF_allVars(Notify(p) /\ UNCHANGED <<workerVars, stop>>)
  /\ WF_allVars(at = "direct" /\ (Wait \/ Return \/ TimeOut) /\ UNCHANGED <<workerVars, stop>>)
  /\ WF_allVars(WorkerNext \/ (at = "call" /\ Wait /\ UNCHANGED <<workerVars, stop>>))
  /\ WF_allVars(StopCloses \/ StopNotifies)

-----------------------------------------------------------------------------
(* Properties *)

(* The retry timer never belongs to an item that was processed or given up:   *)
(* the next one gets its full time, unless an overflow dropped the item the   *)
(* timer was started for.                                                     *)
TimerFresh == timer # "none" => delivered < timed

(* stop and Drop join a worker that ends, whichever call or wait the stop     *)
(* meets, and however full the queue is.  A stop between the second test of   *)
(* the bit and the reading of the generation ends only with the retry         *)
(* timeout.                                                                   *)
StopReturns == (Stopping /\ at # "direct") ~> at = "ended"
=============================================================================
