-------------------------------- MODULE Queue --------------------------------
(***************************************************************************)
(* Queue<T> of base/queue.rs with its one consumer thread.                 *)
(*                                                                         *)
(* Every section under the mutex is one action.  A thread that changed the *)
(* queue notifies the condition variable after it released the mutex, so   *)
(* the notification is an action of its own.  Items are numbered in the    *)
(* order they are pushed.  The consumer is the most general one: between   *)
(* calls it may do anything the interface allows a single thread.          *)
(***************************************************************************)
EXTENDS Integers, Sequences, FiniteSets

CONSTANTS
  Producers,      \* threads that push, close or notify
  Capacity,       \* capacity
  MaxGeneration   \* bound on the pushes and changes

ASSUME QueueAssumption ==
  /\ Capacity \in Nat \ {0}
  /\ MaxGeneration \in Nat

NoItem == 0

VARIABLES
  items,        \* State.items
  closed,       \* State.closed
  generation,   \* State.generation
  notifying,    \* producers between the unlock and the notification
  call,         \* the call the consumer is in
  asleep,       \* the consumer waits on not_empty
  observed,     \* the generation the consumer read
  reserved,     \* the item of the consumer's QueueFront
  pushed,       \* number of the last item pushed
  delivered     \* number of the last item the consumer removed for good

vars == <<items, closed, generation, notifying, call, asleep, observed,
          reserved, pushed, delivered>>

-----------------------------------------------------------------------------
(* Producers *)

(* What push, close and notify_change do to the generation, and the          *)
(* notification that follows.                                                *)
Change(p) ==
  /\ p \notin notifying
  /\ generation' = generation + 1
  /\ notifying' = notifying \cup {p}
  /\ UNCHANGED <<call, asleep, observed, reserved, delivered>>

(* The oldest item makes room. *)
Push(p) ==
  /\ ~closed
  /\ generation < MaxGeneration
  /\ items' = Append(IF Len(items) = Capacity THEN Tail(items) ELSE items, pushed + 1)
  /\ pushed' = pushed + 1
  /\ Change(p)
  /\ UNCHANGED closed

(* Mutant of Close: sleeping consumers are not woken. *)
CloseSilently(p) ==
  /\ ~closed
  /\ p \notin notifying
  /\ closed' = TRUE
  /\ items' = <<>>
  /\ generation' = generation + 1
  /\ UNCHANGED <<notifying, call, asleep, observed, reserved, pushed, delivered>>

Close(p) ==
  /\ ~closed
  /\ closed' = TRUE
  /\ items' = <<>>
  /\ Change(p)
  /\ UNCHANGED pushed

NotifyChange(p) ==
  /\ generation < MaxGeneration
  /\ Change(p)
  /\ UNCHANGED <<items, closed, pushed>>

(* notify_one and notify_all: there is one consumer to wake. *)
Notify(p) ==
  /\ p \in notifying
  /\ notifying' = notifying \ {p}
  /\ asleep' = FALSE
  /\ UNCHANGED <<items, closed, generation, call, observed, reserved, pushed, delivered>>

-----------------------------------------------------------------------------
(* The consumer *)

Free == call = "none" /\ reserved = NoItem

ReadGeneration ==
  /\ Free
  /\ observed' = generation
  /\ UNCHANGED <<items, closed, generation, notifying, call, asleep, reserved, pushed, delivered>>

(* pop, peek, pop_timeout or wait_for_change is called. *)
Call(name) ==
  /\ Free
  /\ call' = name
  /\ UNCHANGED <<items, closed, generation, notifying, asleep, observed, reserved, pushed, delivered>>

(* The condition of the loop around the wait; a timed pop waits once. *)
Blocked ==
  /\ ~closed
  /\ CASE call \in {"pop", "peek", "pop_timeout"} -> items = <<>>
       [] call = "wait_for_change" -> generation = observed
       [] OTHER -> FALSE

Wait ==
  /\ ~asleep
  /\ Blocked
  /\ asleep' = TRUE
  /\ call' = IF call = "pop_timeout" THEN "pop_timed" ELSE call
  /\ UNCHANGED <<items, closed, generation, notifying, observed, reserved, pushed, delivered>>

(* The wait ends without a notification: spuriously, or by its time limit. *)
WakeAnyway ==
  /\ asleep
  /\ asleep' = FALSE
  /\ UNCHANGED <<items, closed, generation, notifying, call, observed, reserved, pushed, delivered>>

TimeOut == call = "pop_timed" /\ WakeAnyway

(* Take the first item, if there is one: for good, or as a reservation. *)
TakeFront(keep) ==
  /\ items' = IF items = <<>> THEN items ELSE Tail(items)
  /\ delivered' = IF items = <<>> \/ keep THEN delivered ELSE Head(items)
  /\ reserved' = IF items # <<>> /\ keep THEN Head(items) ELSE NoItem

Return ==
  /\ call # "none"
  /\ ~asleep
  /\ ~Blocked
  /\ call' = "none"
  /\ IF closed \/ call = "wait_for_change"
     THEN UNCHANGED <<items, delivered, reserved>>
     ELSE TakeFront(call = "peek")
  /\ UNCHANGED <<closed, generation, notifying, asleep, observed, pushed>>

(* try_pop and try_peek *)
TryTake(keep) ==
  /\ Free
  /\ TakeFront(keep)
  /\ UNCHANGED <<closed, generation, notifying, call, asleep, observed, pushed>>

(* QueueFront::pop *)
Commit ==
  /\ reserved # NoItem
  /\ delivered' = reserved
  /\ reserved' = NoItem
  /\ UNCHANGED <<items, closed, generation, notifying, call, asleep, observed, pushed>>

(* Mutants of PutBack: the item is forgotten; it goes to the back. *)
PutBackNever(x) == items

PutBackLast(x) == IF Len(items) = Capacity THEN items ELSE Append(items, x)

(* The queue with item x put back at its front, the newest making room. *)
PutBack(x) ==
  <<x>> \o IF Len(items) = Capacity THEN SubSeq(items, 1, Len(items) - 1) ELSE items

(* Mutant of Restore: it does not look at closed. *)
RestoreAlways ==
  /\ reserved # NoItem
  /\ items' = PutBack(reserved)
  /\ reserved' = NoItem
  /\ UNCHANGED <<closed, generation, notifying, call, asleep, observed, pushed, delivered>>

(* Drop of a QueueFront; its notification has no other thread to wake. *)
Restore ==
  /\ reserved # NoItem
  /\ items' = IF closed THEN items ELSE PutBack(reserved)
  /\ reserved' = NoItem
  /\ UNCHANGED <<closed, generation, notifying, call, asleep, observed, pushed, delivered>>

-----------------------------------------------------------------------------
Init ==
  /\ items = <<>>
  /\ closed = FALSE
  /\ generation = 0
  /\ notifying = {}
  /\ call = "none"
  /\ asleep = FALSE
  /\ observed = 0
  /\ reserved = NoItem
  /\ pushed = 0
  /\ delivered = 0

ProducerNext == \E p \in Producers : Push(p) \/ Close(p) \/ NotifyChange(p)

ConsumerNext ==
  \/ ReadGeneration
  \/ \E name \in {"pop", "peek", "pop_timeout", "wait_for_change"} : Call(name)
  \/ \E keep \in BOOLEAN : TryTake(keep)
  \/ Wait
  \/ WakeAnyway
  \/ Return
  \/ Commit
  \/ Restore

Next ==
  \/ ProducerNext
  \/ \E p \in Producers : Notify(p)
  \/ ConsumerNext

Spec == Init /\ [][Next]_vars

(* Threads are scheduled: a notification that is due is sent, a consumer      *)
(* inside a call goes on and a timed wait ends.  No spurious wake-up is       *)
(* assumed.                                                                   *)
FairSpec ==
  /\ Spec
  /\ \A p \in Producers : WF_vars(Notify(p))
  /\ WF_vars(Wait \/ Return \/ TimeOut)

-----------------------------------------------------------------------------
(* Properties *)

Held == IF reserved = NoItem THEN items ELSE <<reserved>> \o items

(* Every variable has its type; the generation only counts upwards from 0.  *)
TypeOK ==
  /\ items \in Seq(Nat \ {0})
  /\ closed \in BOOLEAN
  /\ generation \in Nat
  /\ notifying \subseteq Producers
  /\ call \in {"none", "pop", "peek", "pop_timeout", "pop_timed", "wait_for_change"}
  /\ asleep \in BOOLEAN
  /\ observed \in Nat
  /\ reserved \in Nat
  /\ pushed \in Nat
  /\ delivered \in Nat

(* The capacity is never exceeded, although an item that is being processed  *)
(* and comes back finds the queue filled meanwhile, and nothing is left in a *)
(* closed queue, although the item may come back after close.                *)
WithinCapacity == Len(items) <= IF closed THEN 0 ELSE Capacity

(* What the consumer holds and what waits is in the order of the pushes and  *)
(* newer than everything delivered: no item is delivered twice or out of     *)
(* order, whatever is dropped, put back or retried.                          *)
InOrder ==
  /\ \A i, j \in 1..Len(Held) : i < j => Held[i] < Held[j]
  /\ \A i \in 1..Len(Held) : delivered < Held[i] /\ Held[i] <= pushed

(* No wake-up is lost: a sleeping consumer whose call could return has a     *)
(* notification on its way.                                                  *)
NoLostWakeup == asleep /\ ~Blocked => call = "pop_timed" \/ notifying # {}

(* A call whose condition came true returns, and every call returns once the *)
(* queue is closed.                                                          *)
CallReturns == (call # "none" /\ ~Blocked) ~> call = "none"

(* An item leaves the queue without being delivered only when the queue is   *)
(* closed or full: a push drops the oldest then, a reservation that is put   *)
(* back the newest.                                                          *)
LostOnlyWhenFull ==
  [][~closed' /\ delivered' = delivered /\ Len(items) < Capacity =>
       \A i \in 1..Len(Held) : \E j \in 1..Len(Held') : Held'[j] = Held[i]]_vars
=============================================================================
