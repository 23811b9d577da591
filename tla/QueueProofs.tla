----------------------------- MODULE QueueProofs -----------------------------
(***************************************************************************)
(* Queue and QueueWorker for any capacity and any number of producers.     *)
(***************************************************************************)
EXTENDS QueueWorker, SequenceTheorems, TLAPS

(* s increases, and lies above low and not above high. *)
Between(s, low, high) ==
  /\ \A i, j \in 1..Len(s) : i < j => s[i] < s[j]
  /\ \A i \in 1..Len(s) : low < s[i] /\ s[i] <= high

(* Order of the items, with the reserved one in front. *)
Ordered ==
  /\ Between(items, delivered, pushed) /\ Between(items, reserved, pushed)
  /\ delivered <= pushed /\ reserved <= pushed
  /\ reserved # NoItem => delivered < reserved

(* The capacity, and what close leaves. *)
Fits == Len(items) <= Capacity

ClosedIsEmpty == closed => items = <<>>

(* A consumer sleeps only inside a call, and holds no reservation there. *)
InsideCall ==
  /\ asleep => call # "none"
  /\ call # "none" => reserved = NoItem

QueueInv ==
  /\ TypeOK
  /\ Ordered
  /\ Fits
  /\ ClosedIsEmpty
  /\ NoLostWakeup
  /\ InsideCall

-----------------------------------------------------------------------------
(* Sequences of items *)

(* Removing the first item. *)
LEMMA TailFacts ==
  ASSUME NEW s \in Seq(Nat \ {0}), s # <<>>
  PROVE  /\ Tail(s) \in Seq(Nat \ {0}) /\ Len(Tail(s)) = Len(s) - 1
         /\ Head(s) = s[1] /\ Head(s) \in Nat \ {0} /\ Len(s) \in Nat \ {0}
         /\ \A i \in 1..Len(Tail(s)) : Tail(s)[i] = s[i + 1]
<1>1. Len(s) \in Nat \ {0}
  BY EmptySeq
<1>2. Tail(s) \in Seq(Nat \ {0}) /\ Len(Tail(s)) = Len(s) - 1 /\ Head(s) = s[1]
  BY <1>1
<1>3. \A i \in 1..Len(Tail(s)) : Tail(s)[i] = s[i + 1]
  BY <1>1, <1>2
<1>4. s[1] \in Nat \ {0}
  BY <1>1
<1> QED
  BY <1>1, <1>2, <1>3, <1>4

(* It leaves the others above it. *)
LEMMA TailBetween ==
  ASSUME NEW s \in Seq(Nat \ {0}), s # <<>>, NEW low \in Nat, NEW high \in Nat,
         Between(s, low, high)
  PROVE  /\ Between(Tail(s), low, high) /\ Between(Tail(s), Head(s), high)
         /\ low < Head(s) /\ Head(s) <= high
<1>1. /\ Len(Tail(s)) = Len(s) - 1 /\ Len(s) \in Nat \ {0} /\ Head(s) = s[1]
      /\ \A i \in 1..Len(Tail(s)) : Tail(s)[i] = s[i + 1]
  BY TailFacts
<1>2. \A i \in 1..Len(Tail(s)) : i + 1 \in 1..Len(s) /\ 1 < i + 1 /\ 1 \in 1..Len(s)
  BY <1>1
<1>3. \A i, j \in 1..Len(Tail(s)) : i < j => Tail(s)[i] < Tail(s)[j]
  BY <1>1, <1>2 DEF Between
<1>4. \A i \in 1..Len(Tail(s)) : low < Tail(s)[i] /\ Tail(s)[i] <= high /\ s[1] < Tail(s)[i]
  BY <1>1, <1>2 DEF Between
<1>5. 1 \in 1..Len(s)
  BY <1>1
<1> QED
  BY <1>1, <1>3, <1>4, <1>5 DEF Between

(* Adding a newer item at the end. *)
LEMMA AppendBetween ==
  ASSUME NEW s \in Seq(Nat \ {0}), NEW low \in Nat, NEW high \in Nat, low <= high,
         Between(s, low, high)
  PROVE  Between(Append(s, high + 1), low, high + 1)
<1> DEFINE u == Append(s, high + 1)
<1>1. /\ Len(u) = Len(s) + 1 /\ Len(s) \in Nat
      /\ \A i \in 1..Len(s) : u[i] = s[i] /\ s[i] \in Nat
      /\ u[Len(s) + 1] = high + 1
  OBVIOUS
<1> HIDE DEF u
<1>2. \A i \in 1..Len(u) : i \in 1..Len(s) \/ i = Len(s) + 1
  BY <1>1
<1>3. \A i \in 1..Len(u) : low < u[i] /\ u[i] <= high + 1
  BY <1>1, <1>2 DEF Between
<1>4. ASSUME NEW i \in 1..Len(u), NEW j \in 1..Len(u), i < j
      PROVE  u[i] < u[j]
  <2>1. i \in 1..Len(s)
    BY <1>1, <1>4
  <2> QED
    BY <1>1, <1>2, <1>4, <2>1 DEF Between
<1> QED
  BY <1>3, <1>4 DEF Between, u

(* Putting an older item back at the front, with the newest dropped or not. *)
LEMMA FrontBetween ==
  ASSUME NEW s \in Seq(Nat \ {0}), NEW x \in Nat \ {0}, NEW n \in 0..Len(s),
         NEW low \in Nat, NEW high \in Nat, low < x, x <= high, Between(s, x, high)
  PROVE  /\ <<x>> \o SubSeq(s, 1, n) \in Seq(Nat \ {0})
         /\ Len(<<x>> \o SubSeq(s, 1, n)) = n + 1
         /\ Between(<<x>> \o SubSeq(s, 1, n), low, high)
<1> DEFINE u == <<x>> \o SubSeq(s, 1, n)
<1>1. SubSeq(s, 1, n) \in Seq(Nat \ {0}) /\ Len(SubSeq(s, 1, n)) = n
  BY SubSeqProperties
<1>2. \A i \in 1..n : SubSeq(s, 1, n)[i] = s[i]
  BY SubSeqProperties
<1>3. /\ u \in Seq(Nat \ {0}) /\ Len(u) = n + 1 /\ u[1] = x
      /\ \A i \in 2..(n + 1) : u[i] = SubSeq(s, 1, n)[i - 1]
  BY <1>1, ConcatProperties
<1>4. \A i \in 2..(n + 1) : u[i] = s[i - 1] /\ i - 1 \in 1..Len(s) /\ s[i - 1] \in Nat
  BY <1>2, <1>3
<1> HIDE DEF u
<1>5. \A i \in 1..(n + 1) : i = 1 \/ i \in 2..(n + 1)
  OBVIOUS
<1>a. \A i \in 2..(n + 1) : x < u[i] /\ u[i] <= high /\ u[i] \in Nat
  BY <1>4 DEF Between
<1>6. ASSUME NEW i \in 1..Len(u)
      PROVE  low < u[i] /\ u[i] <= high
  <2>1. CASE i = 1
    BY <1>3, <2>1
  <2>2. CASE i \in 2..(n + 1)
    BY <1>a, <2>2
  <2> QED
    BY <1>3, <1>5, <2>1, <2>2
<1>7. ASSUME NEW i \in 1..Len(u), NEW j \in 1..Len(u), i < j
      PROVE  u[i] < u[j]
  <2>1. j \in 2..(n + 1)
    BY <1>3, <1>7
  <2>2. CASE i = 1
    BY <1>3, <1>a, <2>1, <2>2
  <2>3. CASE i \in 2..(n + 1)
    <3>1. /\ i - 1 \in 1..Len(s) /\ j - 1 \in 1..Len(s) /\ i - 1 < j - 1
          /\ u[i] = s[i - 1] /\ u[j] = s[j - 1]
      BY <1>4, <1>7, <2>1, <2>3
    <3> QED
      BY <3>1 DEF Between
  <2> QED
    BY <1>3, <1>5, <2>2, <2>3
<1> QED
  BY <1>3, <1>6, <1>7 DEF Between, u

-----------------------------------------------------------------------------
(* Steps *)

(* The queue is empty at the start. *)
LEMMA InitQueue == Init => QueueInv
<1> SUFFICES ASSUME Init PROVE QueueInv
  OBVIOUS
<1>1. TypeOK /\ Len(items) = 0
  <2>1. /\ items \in Seq(Nat \ {0}) /\ Len(items) = 0 /\ generation \in Nat /\ observed \in Nat
        /\ reserved \in Nat /\ pushed \in Nat /\ delivered \in Nat
    BY DEF Init, NoItem
  <2>2. closed \in BOOLEAN /\ asleep \in BOOLEAN /\ notifying \subseteq Producers
    BY DEF Init
  <2> QED
    BY <2>1, <2>2 DEF Init, TypeOK
<1>2. Ordered
  BY <1>1 DEF Init, Ordered, Between, NoItem
<1> QED
  BY <1>1, <1>2, QueueAssumption
     DEF Init, QueueInv, Fits, ClosedIsEmpty, NoLostWakeup, InsideCall, NoItem

(* Pushing drops the oldest item of a full queue, and the new one is newest. *)
LEMMA PushInv ==
  ASSUME QueueInv, NEW p \in Producers, Push(p)
  PROVE  QueueInv'
<1> DEFINE room == IF Len(items) = Capacity THEN Tail(items) ELSE items
<1>0. TypeOK /\ Ordered /\ Fits /\ Len(items) \in Nat
  BY DEF QueueInv, TypeOK
<1>1. /\ room \in Seq(Nat \ {0}) /\ Len(room) < Capacity /\ Len(room) \in Nat
      /\ Between(room, delivered, pushed) /\ Between(room, reserved, pushed)
  <2>1. CASE Len(items) = Capacity
    <3>1. items # <<>>
      BY <2>1, QueueAssumption
    <3>2. Tail(items) \in Seq(Nat \ {0}) /\ Len(Tail(items)) = Len(items) - 1
      BY <1>0, <3>1, TailFacts DEF TypeOK
    <3>3. Between(Tail(items), delivered, pushed) /\ Between(Tail(items), reserved, pushed)
      BY <1>0, <3>1, TailBetween DEF TypeOK, Ordered
    <3> QED
      BY <1>0, <2>1, <3>2, <3>3, QueueAssumption
  <2>2. CASE Len(items) # Capacity
    BY <1>0, <2>2, QueueAssumption DEF TypeOK, Ordered, Fits
  <2> QED
    BY <2>1, <2>2
<1> HIDE DEF room
<1>2. /\ items' = Append(room, pushed + 1) /\ pushed' = pushed + 1 /\ ~closed /\ closed' = closed
      /\ generation' = generation + 1 /\ notifying' = notifying \cup {p}
      /\ UNCHANGED <<call, asleep, observed, reserved, delivered>>
  BY DEF Push, Change, room
<1>3. items' \in Seq(Nat \ {0}) /\ Len(items') = Len(room) + 1
  BY <1>0, <1>1, <1>2 DEF TypeOK
<1>4. TypeOK'
  <2>1. generation' \in Nat /\ pushed' \in Nat
    BY <1>0, <1>2 DEF TypeOK
  <2>2. notifying' \subseteq Producers /\ closed' \in BOOLEAN
    BY <1>0, <1>2 DEF TypeOK
  <2>3. UNCHANGED <<call, asleep, observed, reserved, delivered>>
    BY <1>2
  <2> QED
    BY <1>0, <1>3, <2>1, <2>2, <2>3, Zenon DEF TypeOK
<1>5. Fits'
  BY <1>1, <1>3, QueueAssumption DEF Fits
<1>6. Ordered'
  <2>1. Between(items', delivered, pushed + 1) /\ Between(items', reserved, pushed + 1)
    BY <1>0, <1>1, <1>2, AppendBetween DEF TypeOK, Ordered
  <2> QED
    BY <1>0, <1>2, <2>1 DEF TypeOK, Ordered, Between
<1>7. NoLostWakeup' /\ InsideCall' /\ ClosedIsEmpty'
  BY <1>2 DEF QueueInv, NoLostWakeup, InsideCall, ClosedIsEmpty
<1> QED
  BY <1>4, <1>5, <1>6, <1>7 DEF QueueInv

(* Taking the first item keeps the rest above it. *)
LEMMA TakeInv ==
  ASSUME QueueInv, NEW keep \in BOOLEAN, reserved = NoItem, TakeFront(keep), ~asleep,
         UNCHANGED <<closed, generation, notifying, asleep, observed, pushed>>,
         call' = "none"
  PROVE  QueueInv'
<1>0. TypeOK /\ Ordered /\ Fits /\ ClosedIsEmpty
  BY DEF QueueInv
<1>1. CASE items = <<>>
  <2>1. items' = items /\ delivered' = delivered /\ reserved' = reserved
    BY <1>1 DEF TakeFront
  <2>t. TypeOK'
    BY <1>0, <2>1, Zenon DEF TypeOK
  <2>2. TypeOK' /\ Fits' /\ ClosedIsEmpty'
    BY <1>0, <2>1, <2>t DEF Fits, ClosedIsEmpty
  <2>3. Ordered'
    BY <1>0, <2>1 DEF Ordered, Between
  <2> QED
    BY <2>2, <2>3 DEF QueueInv, NoLostWakeup, InsideCall
<1>2. CASE items # <<>>
  <2>1. /\ Tail(items) \in Seq(Nat \ {0}) /\ Len(Tail(items)) = Len(items) - 1
        /\ Head(items) \in Nat \ {0} /\ Len(items) \in Nat
    BY <1>0, <1>2, TailFacts DEF TypeOK
  <2>2. /\ Between(Tail(items), delivered, pushed) /\ Between(Tail(items), reserved, pushed)
        /\ Between(Tail(items), Head(items), pushed)
        /\ delivered < Head(items) /\ Head(items) <= pushed
    BY <1>0, <1>2, TailBetween DEF TypeOK, Ordered
  <2>3. /\ items' = Tail(items)
        /\ \/ delivered' = delivered /\ reserved' = Head(items)
           \/ delivered' = Head(items) /\ reserved' = NoItem
    BY <1>2 DEF TakeFront
  <2>4. TypeOK'
    <3>1. items' \in Seq(Nat \ {0}) /\ delivered' \in Nat /\ reserved' \in Nat
      BY <1>0, <2>1, <2>3 DEF TypeOK, NoItem
    <3> QED
      BY <1>0, <3>1, Zenon DEF TypeOK
  <2>5. Ordered'
    BY <1>0, <2>1, <2>2, <2>3 DEF TypeOK, Ordered, Between, NoItem
  <2>6. Fits'
    BY <1>0, <2>1, <2>3, QueueAssumption DEF Fits
  <2>7. ClosedIsEmpty'
    BY <1>0, <1>2 DEF ClosedIsEmpty
  <2> QED
    BY <2>4, <2>5, <2>6, <2>7 DEF QueueInv, NoLostWakeup, InsideCall
<1> QED
  BY <1>1, <1>2

(* An item that is put back is older than all that wait. *)
LEMMA RestoreInv ==
  ASSUME QueueInv, Restore
  PROVE  QueueInv'
<1>0. /\ TypeOK /\ Ordered /\ Fits /\ ClosedIsEmpty
      /\ reserved \in Nat \ {0} /\ Len(items) \in Nat /\ ~asleep /\ call = "none"
  BY DEF QueueInv, TypeOK, Restore, NoItem, InsideCall
<1>1. /\ reserved' = NoItem
      /\ UNCHANGED <<closed, generation, notifying, call, asleep, observed, pushed, delivered>>
  BY DEF Restore
<1>2. CASE closed
  <2>1. items' = items
    BY <1>2 DEF Restore
  <2> QED
    BY <1>0, <1>1, <1>2, <2>1 DEF QueueInv, TypeOK, Ordered, Between, Fits,
       ClosedIsEmpty, NoLostWakeup, InsideCall, NoItem
<1>3. CASE ~closed
  <2>1. PICK n \in 0..Len(items) : /\ items' = <<reserved>> \o SubSeq(items, 1, n)
                                   /\ n + 1 <= Capacity
    <3>1. CASE Len(items) = Capacity
      BY <1>0, <1>3, <3>1, QueueAssumption DEF Restore, PutBack
    <3>2. CASE Len(items) # Capacity
      <4>1. SubSeq(items, 1, Len(items)) = items
        BY <1>0, SubSeqFull DEF TypeOK
      <4>2. items' = <<reserved>> \o items
        BY <1>3, <3>2 DEF Restore, PutBack
      <4>3. Len(items) + 1 <= Capacity /\ Len(items) \in 0..Len(items)
        BY <1>0, <3>2, QueueAssumption DEF Fits
      <4> QED
        BY <4>1, <4>2, <4>3
    <3> QED
      BY <3>1, <3>2
  <2>2. /\ items' \in Seq(Nat \ {0}) /\ Len(items') = n + 1
        /\ Between(items', delivered, pushed)
    BY <1>0, <2>1, FrontBetween DEF TypeOK, Ordered, NoItem
  <2>3. TypeOK'
    BY <1>0, <1>1, <2>2 DEF TypeOK, NoItem
  <2>4. Ordered'
    <3>1. \A i \in 1..Len(items') : 0 < items'[i]
      BY <2>2
    <3> QED
      BY <1>0, <1>1, <2>2, <3>1 DEF TypeOK, Ordered, Between, NoItem
  <2>5. Fits'
    BY <2>1, <2>2 DEF Fits
  <2> QED
    BY <1>0, <1>1, <1>3, <2>3, <2>4, <2>5 DEF QueueInv, ClosedIsEmpty, NoLostWakeup, InsideCall
<1> QED
  BY <1>2, <1>3

(* Every step keeps the invariant. *)
LEMMA NextQueue == QueueInv /\ [Next]_vars => QueueInv'
<1> SUFFICES ASSUME QueueInv, [Next]_vars PROVE QueueInv'
  OBVIOUS
<1>0. TypeOK /\ Ordered /\ Fits /\ ClosedIsEmpty /\ NoLostWakeup /\ InsideCall
  BY DEF QueueInv
<1>1. ASSUME UNCHANGED <<items, reserved, pushed, delivered>>
      PROVE  Ordered' /\ Fits'
  BY <1>0, <1>1 DEF Ordered, Between, Fits
<1>2. ASSUME NEW p \in Producers, Push(p) PROVE QueueInv'
  BY <1>2, PushInv
<1>3. ASSUME NEW p \in Producers, Close(p) PROVE QueueInv'
  <2>1. /\ items' = <<>> /\ closed' = TRUE /\ generation' = generation + 1
        /\ notifying' = notifying \cup {p}
        /\ UNCHANGED <<call, asleep, observed, reserved, pushed, delivered>>
    BY <1>3 DEF Close, Change
  <2>2. generation' \in Nat /\ items' \in Seq(Nat \ {0}) /\ Len(items') = 0
    BY <1>0, <2>1 DEF TypeOK
  <2>3. TypeOK'
    BY <1>0, <2>1, <2>2, Zenon DEF TypeOK
  <2>4. Ordered'
    BY <1>0, <2>1, <2>2 DEF Ordered, Between
  <2>5. Fits' /\ ClosedIsEmpty'
    BY <2>1, <2>2, QueueAssumption DEF Fits, ClosedIsEmpty
  <2> QED
    BY <1>0, <2>1, <2>3, <2>4, <2>5 DEF QueueInv, NoLostWakeup, InsideCall
<1>4. ASSUME NEW p \in Producers, NotifyChange(p) PROVE QueueInv'
  <2>1. /\ generation' = generation + 1 /\ notifying' = notifying \cup {p}
        /\ UNCHANGED <<items, closed, call, asleep, observed, reserved, pushed, delivered>>
    BY <1>4 DEF NotifyChange, Change
  <2>2. generation' \in Nat
    BY <1>0, <2>1 DEF TypeOK
  <2>3. TypeOK'
    BY <1>0, <2>1, <2>2, Zenon DEF TypeOK
  <2> QED
    BY <1>0, <1>1, <2>1, <2>3 DEF QueueInv, NoLostWakeup, InsideCall, ClosedIsEmpty
<1>5. ASSUME NEW p \in Producers, Notify(p) PROVE QueueInv'
  <2>1. /\ notifying' = notifying \ {p} /\ asleep' = FALSE
        /\ UNCHANGED <<items, closed, generation, call, observed, reserved, pushed, delivered>>
    BY <1>5 DEF Notify
  <2>2. TypeOK'
    BY <1>0, <2>1, Zenon DEF TypeOK
  <2> QED
    BY <1>0, <1>1, <2>1, <2>2 DEF QueueInv, NoLostWakeup, InsideCall, ClosedIsEmpty
<1>6. CASE ReadGeneration
  <2>1. /\ observed' = generation /\ call = "none" /\ ~asleep
        /\ UNCHANGED <<items, closed, generation, notifying, call, asleep, reserved, pushed, delivered>>
    BY <1>0, <1>6 DEF ReadGeneration, Free, InsideCall
  <2>2. TypeOK'
    BY <1>0, <2>1, Zenon DEF TypeOK
  <2> QED
    BY <1>0, <1>1, <2>1, <2>2 DEF QueueInv, NoLostWakeup, InsideCall, ClosedIsEmpty
<1>7. ASSUME NEW name \in {"pop", "peek", "pop_timeout", "wait_for_change"}, Call(name)
      PROVE  QueueInv'
  <2>1. /\ call' = name /\ ~asleep /\ reserved = NoItem
        /\ UNCHANGED <<items, closed, generation, notifying, asleep, observed, reserved, pushed, delivered>>
    BY <1>0, <1>7 DEF Call, Free, InsideCall
  <2>2. TypeOK'
    BY <1>0, <2>1, Zenon DEF TypeOK
  <2> QED
    BY <1>0, <1>1, <2>1, <2>2 DEF QueueInv, NoLostWakeup, InsideCall, ClosedIsEmpty
<1>8. ASSUME NEW keep \in BOOLEAN, TryTake(keep) PROVE QueueInv'
  <2>1. /\ call' = "none" /\ ~asleep /\ reserved = NoItem /\ TakeFront(keep)
        /\ UNCHANGED <<closed, generation, notifying, asleep, observed, pushed>>
    BY <1>0, <1>8 DEF TryTake, Free, InsideCall
  <2> QED
    BY <2>1, TakeInv
<1>9. CASE Wait
  <2>1. /\ ~asleep /\ asleep' = TRUE /\ Blocked /\ ~closed
        /\ call \in {"pop", "peek", "pop_timeout", "wait_for_change"}
        /\ call' = IF call = "pop_timeout" THEN "pop_timed" ELSE call
        /\ UNCHANGED <<items, closed, generation, notifying, observed, reserved, pushed, delivered>>
    BY <1>0, <1>9 DEF Wait, Blocked, TypeOK
  <2>2. call' \in {"pop", "peek", "pop_timed", "wait_for_change"}
    BY <2>1
  <2>3. TypeOK'
    BY <1>0, <2>1, <2>2, Zenon DEF TypeOK
  <2>4. NoLostWakeup'
    <3>1. CASE call' = "pop_timed"
      BY <3>1 DEF NoLostWakeup
    <3>2. CASE call' # "pop_timed"
      <4>1. Blocked'
        BY <2>1, <2>2, <3>2 DEF Blocked
      <4> QED
        BY <4>1 DEF NoLostWakeup
    <3> QED
      BY <3>1, <3>2
  <2> QED
    BY <1>0, <1>1, <2>1, <2>2, <2>3, <2>4 DEF QueueInv, InsideCall, ClosedIsEmpty
<1>10. CASE WakeAnyway
  <2>1. /\ asleep' = FALSE
        /\ UNCHANGED <<items, closed, generation, notifying, call, observed, reserved, pushed, delivered>>
    BY <1>10 DEF WakeAnyway
  <2>2. TypeOK'
    BY <1>0, <2>1, Zenon DEF TypeOK
  <2> QED
    BY <1>0, <1>1, <2>1, <2>2 DEF QueueInv, NoLostWakeup, InsideCall, ClosedIsEmpty
<1>11. CASE Return
  <2>1. /\ call # "none" /\ ~asleep /\ call' = "none" /\ reserved = NoItem
        /\ UNCHANGED <<closed, generation, notifying, asleep, observed, pushed>>
    BY <1>0, <1>11 DEF Return, InsideCall
  <2>2. CASE closed \/ call = "wait_for_change"
    <3>1. UNCHANGED <<items, delivered, reserved>>
      BY <1>11, <2>2 DEF Return
    <3>2. TypeOK'
      BY <1>0, <2>1, <3>1, Zenon DEF TypeOK
    <3> QED
      BY <1>0, <1>1, <2>1, <3>1, <3>2 DEF QueueInv, NoLostWakeup, InsideCall, ClosedIsEmpty
  <2>3. CASE ~(closed \/ call = "wait_for_change")
    <3>1. PICK keep \in BOOLEAN : TakeFront(keep)
      BY <1>11, <2>3 DEF Return
    <3> QED
      BY <2>1, <3>1, TakeInv
  <2> QED
    BY <2>2, <2>3
<1>12. CASE Commit
  <2>1. /\ delivered' = reserved /\ reserved' = NoItem /\ reserved # NoItem
        /\ UNCHANGED <<items, closed, generation, notifying, call, asleep, observed, pushed>>
    BY <1>12 DEF Commit
  <2>2. delivered' \in Nat /\ reserved' \in Nat
    BY <1>0, <2>1 DEF TypeOK, NoItem
  <2>3. TypeOK'
    BY <1>0, <2>1, <2>2, Zenon DEF TypeOK
  <2>4. \A i \in 1..Len(items) : items[i] \in Nat \ {0} /\ 0 < items[i]
    BY <1>0 DEF TypeOK
  <2>5. Ordered'
    BY <1>0, <2>1, <2>4 DEF TypeOK, Ordered, Between, NoItem
  <2> QED
    BY <1>0, <2>1, <2>3, <2>5 DEF QueueInv, NoLostWakeup, Blocked, InsideCall, ClosedIsEmpty, Fits
<1>13. CASE Restore
  BY <1>13, RestoreInv
<1>14. CASE UNCHANGED vars
  <2>1. TypeOK'
    BY <1>0, <1>14, Zenon DEF TypeOK, vars
  <2> QED
    BY <1>0, <1>1, <1>14, <2>1 DEF vars, QueueInv, NoLostWakeup, Blocked, InsideCall, ClosedIsEmpty
<1>15. CASE ConsumerNext
  BY <1>6, <1>7, <1>8, <1>9, <1>10, <1>11, <1>12, <1>13, <1>15 DEF ConsumerNext
<1>16. CASE ProducerNext
  BY <1>2, <1>3, <1>4, <1>16 DEF ProducerNext
<1> QED
  BY <1>5, <1>14, <1>15, <1>16 DEF Next

(* The invariant holds in every state. *)
LEMMA QueueInvariant == Spec => []QueueInv
  BY InitQueue, NextQueue, PTL DEF Spec

(* Items come out in the order they went in, each at most once, for any      *)
(* capacity and any pattern of overflow, retry and restore.                  *)
THEOREM Fifo == Spec => []InOrder
<1>1. QueueInv => InOrder
  <2> SUFFICES ASSUME QueueInv PROVE InOrder
    OBVIOUS
  <2>0. TypeOK /\ Ordered
    BY DEF QueueInv
  <2>1. CASE reserved = NoItem
    BY <2>0, <2>1 DEF InOrder, Held, Ordered, Between
  <2>2. CASE reserved # NoItem
    <3>1. /\ reserved \in Nat \ {0} /\ Len(items) \in Nat /\ delivered < reserved
          /\ reserved <= pushed
      BY <2>0, <2>2 DEF TypeOK, Ordered, NoItem
    <3>2. SubSeq(items, 1, Len(items)) = items /\ Len(items) \in 0..Len(items)
      BY <2>0, <3>1, SubSeqFull DEF TypeOK
    <3>3. Between(<<reserved>> \o items, delivered, pushed)
      BY <2>0, <3>1, <3>2, FrontBetween DEF TypeOK, Ordered
    <3> QED
      BY <2>2, <3>3 DEF InOrder, Held, Between
  <2> QED
    BY <2>1, <2>2
<1> QED
  BY <1>1, QueueInvariant, PTL

(* The queue respects its capacity and is empty once closed. *)
THEOREM Bounded == Spec => []WithinCapacity
<1>1. QueueInv => WithinCapacity
  <2> SUFFICES ASSUME QueueInv PROVE WithinCapacity
    OBVIOUS
  <2>1. CASE closed
    BY <2>1 DEF QueueInv, ClosedIsEmpty, WithinCapacity
  <2>2. CASE ~closed
    BY <2>2 DEF QueueInv, Fits, WithinCapacity
  <2> QED
    BY <2>1, <2>2
<1> QED
  BY <1>1, QueueInvariant, PTL

(* A sleeping consumer that could go on is about to be notified. *)
THEOREM WakesUp == Spec => []NoLostWakeup
<1>1. QueueInv => NoLostWakeup
  BY DEF QueueInv
<1> QED
  BY <1>1, QueueInvariant, PTL

(* The queue's variables stay in their types, with a generation that only    *)
(* counts upwards.                                                           *)
THEOREM QueueTypeCorrect == Spec => []TypeOK
<1>1. QueueInv => TypeOK
  BY DEF QueueInv
<1> QED
  BY <1>1, QueueInvariant, PTL

-----------------------------------------------------------------------------
(* What leaves the queue *)

(* x is the reserved item or one that waits. *)
Has(s, r, x) == (r # NoItem /\ x = r) \/ \E k \in 1..Len(s) : s[k] = x

(* The consumer holds the reserved item, the others wait behind it. *)
LEMMA HeldElements ==
  ASSUME NEW s \in Seq(Nat \ {0}), NEW r \in Nat, NEW x
  PROVE  LET h == IF r = NoItem THEN s ELSE <<r>> \o s
         IN  (\E i \in 1..Len(h) : h[i] = x) <=> Has(s, r, x)
<1>1. CASE r = NoItem
  BY <1>1 DEF Has
<1>2. CASE r # NoItem
  <2> DEFINE h == <<r>> \o s
  <2>1. /\ Len(h) = Len(s) + 1 /\ Len(s) \in Nat /\ h[1] = r
        /\ \A i \in 2..(Len(s) + 1) : h[i] = s[i - 1]
    BY <1>2, ConcatProperties
  <2> HIDE DEF h
  <2>2. ASSUME NEW i \in 1..Len(h), h[i] = x PROVE Has(s, r, x)
    <3>1. CASE i = 1
      BY <1>2, <2>1, <2>2, <3>1 DEF Has
    <3>2. CASE i # 1
      <4>1. i \in 2..(Len(s) + 1) /\ i - 1 \in 1..Len(s)
        BY <2>1, <3>2
      <4> QED
        BY <2>1, <2>2, <4>1 DEF Has
    <3> QED
      BY <3>1, <3>2
  <2>3. ASSUME x = r PROVE \E i \in 1..Len(h) : h[i] = x
    <3>1. 1 \in 1..Len(h)
      BY <2>1
    <3> QED
      BY <2>1, <2>3, <3>1
  <2>4. ASSUME NEW k \in 1..Len(s), s[k] = x PROVE \E i \in 1..Len(h) : h[i] = x
    <3>1. k + 1 \in 1..Len(h) /\ k + 1 \in 2..(Len(s) + 1) /\ (k + 1) - 1 = k
      BY <2>1
    <3> QED
      BY <2>1, <2>4, <3>1
  <2>5. (\E i \in 1..Len(h) : h[i] = x) <=> Has(s, r, x)
    BY <2>2, <2>3, <2>4 DEF Has
  <2> QED
    BY <1>2, <2>5 DEF h
<1> QED
  BY <1>1, <1>2

(* A queue with room loses nothing. *)
LEMMA StepKeeps ==
  ASSUME QueueInv, [Next]_vars, ~closed', delivered' = delivered, Len(items) < Capacity,
         NEW x, Has(items, reserved, x)
  PROVE  Has(items', reserved', x)
<1>0. TypeOK /\ Ordered /\ Len(items) \in Nat /\ InsideCall
  BY DEF QueueInv, TypeOK
<1>1. ASSUME NEW p \in Producers, Push(p) PROVE Has(items', reserved', x)
  <2>1. items' = Append(items, pushed + 1) /\ reserved' = reserved
    BY <1>0, <1>1, QueueAssumption DEF Push, Change
  <2>2. /\ Len(items') = Len(items) + 1
        /\ \A k \in 1..Len(items) : items'[k] = items[k] /\ k \in 1..Len(items')
    BY <1>0, <2>1 DEF TypeOK
  <2> QED
    BY <2>1, <2>2 DEF Has
<1>2. ASSUME NEW keep \in BOOLEAN, TakeFront(keep), reserved = NoItem PROVE Has(items', reserved', x)
  <2>1. PICK k \in 1..Len(items) : items[k] = x
    BY <1>2 DEF Has
  <2>2. items # <<>> /\ 1 \in 1..Len(items)
    BY <1>0, <2>1
  <2>3. /\ Len(Tail(items)) = Len(items) - 1 /\ Head(items) = items[1] /\ Head(items) \in Nat \ {0}
        /\ \A i \in 1..Len(Tail(items)) : Tail(items)[i] = items[i + 1]
    BY <1>0, <2>2, TailFacts DEF TypeOK
  <2>4. delivered < Head(items) /\ delivered \in Nat
    BY <1>0, <2>2, <2>3 DEF Ordered, Between, TypeOK
  <2>5. keep /\ items' = Tail(items) /\ reserved' = Head(items)
    BY <1>2, <2>2, <2>3, <2>4 DEF TakeFront
  <2>6. CASE k = 1
    BY <2>1, <2>3, <2>5, <2>6 DEF Has, NoItem
  <2>7. CASE k # 1
    <3>1. k - 1 \in 1..Len(Tail(items)) /\ (k - 1) + 1 = k
      BY <1>0, <2>1, <2>3, <2>7
    <3>2. Tail(items)[k - 1] = x
      BY <2>1, <2>3, <3>1
    <3> QED
      BY <2>5, <3>1, <3>2 DEF Has
  <2> QED
    BY <2>6, <2>7
<1>3. ASSUME UNCHANGED <<items, reserved>> PROVE Has(items', reserved', x)
  BY <1>3 DEF Has
<1>4. CASE Restore
  <2>1. items' = <<reserved>> \o items /\ reserved # NoItem /\ reserved' = NoItem
    BY <1>0, <1>4, QueueAssumption DEF Restore, PutBack
  <2>2. \E i \in 1..Len(items') : items'[i] = x
    BY <1>0, <2>1, HeldElements DEF TypeOK
  <2> QED
    BY <2>2 DEF Has
<1>5. CASE Commit
  <2>1. delivered < reserved /\ delivered' = reserved /\ delivered \in Nat /\ reserved \in Nat
    BY <1>0, <1>5 DEF Commit, Ordered, TypeOK
  <2> QED
    BY <2>1
<1>6. CASE Return
  <2>1. CASE closed \/ call = "wait_for_change"
    BY <1>3, <1>6, <2>1 DEF Return
  <2>2. CASE ~(closed \/ call = "wait_for_change")
    <3>1. reserved = NoItem /\ TakeFront(call = "peek") /\ (call = "peek") \in BOOLEAN
      BY <1>0, <1>6, <2>2 DEF Return, InsideCall
    <3> QED
      BY <1>2, <3>1
  <2> QED
    BY <2>1, <2>2
<1>7. ASSUME NEW keep \in BOOLEAN, TryTake(keep) PROVE Has(items', reserved', x)
  BY <1>2, <1>7 DEF TryTake, Free
<1>8. CASE ReadGeneration \/ Wait \/ WakeAnyway \/ UNCHANGED vars
  BY <1>3, <1>8 DEF ReadGeneration, Wait, WakeAnyway, vars
<1>9. ASSUME NEW name, Call(name) PROVE Has(items', reserved', x)
  BY <1>3, <1>9 DEF Call
<1>10. ASSUME NEW p \in Producers, NotifyChange(p) \/ Notify(p) PROVE Has(items', reserved', x)
  BY <1>3, <1>10 DEF NotifyChange, Change, Notify
<1>11. ASSUME NEW p \in Producers, Close(p) PROVE FALSE
  BY <1>11 DEF Close
<1>12. CASE ConsumerNext
  BY <1>4, <1>5, <1>6, <1>7, <1>8, <1>9, <1>12 DEF ConsumerNext
<1>13. CASE ProducerNext
  BY <1>1, <1>10, <1>11, <1>13 DEF ProducerNext
<1> QED
  BY <1>8, <1>10, <1>12, <1>13 DEF Next

(* Below its capacity an open queue loses nothing that was not delivered,    *)
(* whatever its consumer reserves, puts back or times out on.                *)
THEOREM NothingLost == Spec => LostOnlyWhenFull
<1>1. QueueInv /\ QueueInv' /\ [Next]_vars =>
        [~closed' /\ delivered' = delivered /\ Len(items) < Capacity =>
           \A i \in 1..Len(Held) : \E j \in 1..Len(Held') : Held'[j] = Held[i]]_vars
  <2> SUFFICES ASSUME QueueInv, QueueInv', [Next]_vars, ~closed', delivered' = delivered,
                      Len(items) < Capacity, NEW i \in 1..Len(Held)
               PROVE  \E j \in 1..Len(Held') : Held'[j] = Held[i]
    OBVIOUS
  <2>1. /\ items \in Seq(Nat \ {0}) /\ reserved \in Nat
        /\ items' \in Seq(Nat \ {0}) /\ reserved' \in Nat
    BY DEF QueueInv, TypeOK
  <2> DEFINE x == Held[i]
  <2>2. \E k \in 1..Len(Held) : Held[k] = x
    OBVIOUS
  <2> HIDE DEF x
  <2>3. Has(items, reserved, x)
    BY <2>1, <2>2, HeldElements DEF Held
  <2>4. Has(items', reserved', x)
    BY <2>3, StepKeeps
  <2>5. \E j \in 1..Len(Held') : Held'[j] = x
    BY <2>1, <2>4, HeldElements DEF Held
  <2> QED
    BY <2>5 DEF x
<1> QED
  BY <1>1, QueueInvariant, PTL DEF Spec, LostOnlyWhenFull

-----------------------------------------------------------------------------
(* The worker *)

(* Every step of a worker, of the thread that stops it and of the clock is a *)
(* step of the queue or leaves it alone.                                     *)
LEMMA WorkerStep == [AllNext]_allVars => [Next]_vars
<1> SUFFICES ASSUME [AllNext]_allVars PROVE [Next]_vars
  OBVIOUS
<1>1. ASSUME ConsumerNext \/ UNCHANGED vars PROVE [Next]_vars
  BY <1>1 DEF Next
<1>2. CASE WorkerNext
  <2>1. CASE Loop
    BY <1>1, <2>1 DEF Loop, ConsumerNext
  <2>2. CASE CallReturned
    BY <1>1, <2>2 DEF CallReturned, ConsumerNext
  <2>3. CASE NothingLeft \/ ReadSignal \/ SignalWaitEnds
    BY <1>1, <2>3 DEF NothingLeft, ReadSignal, SignalWaitEnds
  <2>4. CASE CheckStop
    BY <1>1, <2>4 DEF CheckStop, LetGo, ConsumerNext
  <2>5. CASE Processed
    BY <1>1, <2>5 DEF Processed, ConsumerNext
  <2>6. CASE FailedScan \/ GiveUp \/ FailedPeek
    BY <1>1, <2>6 DEF FailedScan, GiveUp, FailedPeek, ConsumerNext
  <2> QED
    BY <1>2, <2>1, <2>2, <2>3, <2>4, <2>5, <2>6 DEF WorkerNext
<1>3. CASE CallWaits
  BY <1>1, <1>3 DEF CallWaits, ConsumerNext
<1>4. CASE OutsideNext
  BY <1>4 DEF OutsideNext, Next
<1>5. CASE StopNext
  <2>1. CASE SetStop \/ StopNotifies
    BY <1>1, <2>1 DEF SetStop, StopNotifies
  <2>2. CASE StopCloses
    BY <2>2 DEF StopCloses, Next, ProducerNext
  <2> QED
    BY <1>5, <2>1, <2>2 DEF StopNext
<1>6. CASE TimePasses \/ SignalNotify
  BY <1>1, <1>6 DEF TimePasses, SignalNotify
<1>7. CASE UNCHANGED allVars
  BY <1>1, <1>7 DEF allVars
<1> QED
  BY <1>2, <1>3, <1>4, <1>5, <1>6, <1>7 DEF AllNext

(* A worker uses the queue as its one consumer may: what is proved of Queue  *)
(* holds for every worker loop.                                              *)
THEOREM WorkerIsConsumer == WorkerSpec => Spec
<1>1. WorkerInit => Init
  BY DEF WorkerInit
<1> QED
  BY <1>1, WorkerStep, PTL DEF WorkerSpec, Spec

(* Only spawn_peek has a timer; it does not take items for good by a call. *)
WorkerInv ==
  /\ kind = "direct" <=> at = "direct"
  /\ timer # "none" => kind = "spawn_peek" /\ delivered < timed
  /\ at = "signal" => timer # "none"
  /\ kind = "spawn_peek" /\ at = "call" => call = "peek"

(* The timer is started for an item that is held and ends with it. *)
LEMMA WorkerInvStep == QueueInv /\ WorkerInv /\ [AllNext]_allVars => WorkerInv'
<1> SUFFICES ASSUME QueueInv, WorkerInv, [AllNext]_allVars PROVE WorkerInv'
  OBVIOUS
<1> USE DEF WorkerInv
<1>1. CASE Loop
  <2>1. CASE Stopping
    BY <1>1, <2>1 DEF Loop, Goto, vars
  <2>2. CASE ~Stopping
    BY <1>1, <2>2 DEF Loop, Goto, Call
  <2> QED
    BY <2>1, <2>2
<1>2. CASE CallReturned
  <2>1. /\ at = "call" /\ at' \in {"nothing", "item"} /\ UNCHANGED <<kind, timer, timed>> /\ Return
    BY <1>2 DEF CallReturned, Goto
  <2>2. kind = "spawn_peek" => delivered' = delivered
    BY <2>1 DEF Return, TakeFront
  <2> QED
    BY <2>1, <2>2
<1>3. CASE NothingLeft
  BY <1>3 DEF NothingLeft, Goto, vars
<1>4. CASE CheckStop
  <2>1. /\ at = "item" /\ at' \in {"ended", "observe", "process"} /\ UNCHANGED <<kind, timer, timed>>
        /\ delivered' = delivered
    BY <1>4 DEF CheckStop, Goto, LetGo, Restore, vars
  <2> QED
    BY <2>1
<1>4a. CASE ReadSignal
  BY <1>4a DEF ReadSignal, Goto, vars
<1>5. CASE Processed
  BY <1>5 DEF Processed, Goto
<1>6. CASE FailedScan
  BY <1>6 DEF FailedScan, Goto, Restore
<1>7. CASE GiveUp
  BY <1>7 DEF GiveUp, Goto
<1>8. CASE FailedPeek
  <2>1. /\ kind = "spawn_peek" /\ kind' = kind /\ at = "process" /\ at' = "signal" /\ timer' = "running"
        /\ timed' = (IF timer = "none" THEN reserved ELSE timed)
        /\ delivered' = delivered /\ reserved # NoItem
    BY <1>8 DEF FailedPeek, Goto, Restore
  <2>2. delivered < reserved
    BY <2>1 DEF QueueInv, Ordered
  <2> QED
    BY <2>1, <2>2
<1>9. CASE SignalWaitEnds
  <2>1. /\ at = "signal" /\ at' = "loop" /\ UNCHANGED <<kind, timed, delivered>>
        /\ timer' = timer \/ timer' = "over"
    BY <1>9 DEF SignalWaitEnds, Goto, vars
  <2> QED
    BY <2>1
<1>10. CASE CallWaits
  <2>1. /\ at = "call" /\ UNCHANGED <<kind, at, timer, timed, delivered>>
        /\ call = "peek" => call' = "peek"
    BY <1>10 DEF CallWaits, Wait, WakeAnyway, workerVars
  <2> QED
    BY <2>1
<1>11. CASE OutsideNext
  <2>1. UNCHANGED <<kind, at, timer, timed>>
    BY <1>11 DEF OutsideNext, workerVars
  <2>2. CASE at = "direct"
    BY <2>1, <2>2
  <2>3. CASE at # "direct"
    <3>1. ProducerNext \/ \E p \in Producers : Notify(p)
      BY <1>11, <2>3 DEF OutsideNext
    <3>2. UNCHANGED <<call, delivered>>
      BY <3>1 DEF ProducerNext, Push, Close, NotifyChange, Change, Notify
    <3> QED
      BY <2>1, <3>2
  <2> QED
    BY <2>2, <2>3
<1>12. CASE StopNext
  <2>1. UNCHANGED <<kind, at, timer, timed>>
    BY <1>12 DEF StopNext, SetStop, StopCloses, StopNotifies, workerVars
  <2>2. UNCHANGED <<call, delivered>>
    BY <1>12 DEF StopNext, SetStop, StopCloses, StopNotifies, Close, Change, vars
  <2> QED
    BY <2>1, <2>2
<1>13. CASE TimePasses
  BY <1>13 DEF TimePasses, vars
<1>14. CASE SignalNotify
  BY <1>14 DEF SignalNotify, vars
<1>15. CASE UNCHANGED allVars
  BY <1>15 DEF allVars, vars, workerVars
<1>16. CASE WorkerNext
  BY <1>16, <1>1, <1>2, <1>3, <1>4, <1>4a, <1>5, <1>6, <1>7, <1>8, <1>9 DEF WorkerNext
<1> QED
  BY <1>10, <1>11, <1>12, <1>13, <1>14, <1>15, <1>16 DEF AllNext

(* A timer never outlives the item it was started for into a delivered one. *)
THEOREM TimerNeverStale == WorkerSpec => []TimerFresh
<1>1. WorkerInit => WorkerInv
  BY DEF WorkerInit, WorkerInv, Kinds
<1>2. WorkerInv => TimerFresh
  BY DEF WorkerInv, TimerFresh
<1>3. WorkerSpec => []QueueInv
  BY WorkerIsConsumer, QueueInvariant, PTL
<1> QED
  BY <1>1, <1>2, <1>3, WorkerInvStep, PTL DEF WorkerSpec

-----------------------------------------------------------------------------
(* Why calls and stops end: what fairness only has to drive *)

(* The consumer observed a generation the queue has had. *)
ObservedBefore == observed <= generation

(* A call whose condition came true keeps it until it returns: nothing a      *)
(* producer does, neither a push into a full queue nor close nor a further    *)
(* change of the generation, sends the consumer back to sleep.                *)
ReadyStaysReady ==
  [][call # "none" /\ ~Blocked => call' = "none" \/ ~Blocked']_vars

(* How many steps of its loop a worker is from its end once the stop bit is   *)
(* set.                                                                       *)
StepsToEnd(label) ==
  CASE label = "ended"                      -> 0
    [] label \in {"loop", "nothing", "item"} -> 1
    [] label \in {"call", "signal"}          -> 2
    [] label = "process"                     -> 3
    [] label = "observe"                     -> 4

(* Once the stop bit is set it stays set and every step of the worker's loop  *)
(* brings it nearer to its end: it never starts another item or another call. *)
StopCountsDown ==
  [][Stopping /\ at # "direct" =>
       /\ Stopping' /\ at' # "direct"
       /\ at' # at => StepsToEnd(at') < StepsToEnd(at)
       /\ WorkerNext => at' # at]_allVars

(* Once request_stop has closed the queue, no call of the worker can last:    *)
(* its condition holds, and a sleep in it has a notification on its way.  The *)
(* wait for the retry signal is no part of this: its generation may be read   *)
(* after the stop, and then it lasts for what is left of the retry timeout.   *)
StopEndsCall ==
  stop \in {"closed", "requested"} /\ at = "call" =>
    ~Blocked /\ (asleep => notifying # {})

LEMMA ObservedStep == QueueInv /\ ObservedBefore /\ [Next]_vars => ObservedBefore'
<1> SUFFICES ASSUME QueueInv, ObservedBefore, [Next]_vars PROVE ObservedBefore'
  OBVIOUS
<1>0. observed \in Nat /\ generation \in Nat /\ observed <= generation
  BY DEF QueueInv, TypeOK, ObservedBefore
<1>1. CASE ProducerNext
  BY <1>0, <1>1 DEF ProducerNext, Push, Close, NotifyChange, Change, ObservedBefore
<1>2. CASE \E p \in Producers : Notify(p)
  BY <1>0, <1>2 DEF Notify, ObservedBefore
<1>3. CASE ConsumerNext
  BY <1>0, <1>3 DEF ConsumerNext, ReadGeneration, Call, TryTake, Wait, WakeAnyway, Return, Commit,
                    Restore, ObservedBefore
<1>4. CASE UNCHANGED vars
  BY <1>0, <1>4 DEF vars, ObservedBefore
<1> QED
  BY <1>1, <1>2, <1>3, <1>4 DEF Next

(* The condition of a call, spelled out. *)
LEMMA Ready ==
  ASSUME TypeOK, call # "none"
  PROVE  ~Blocked <=> \/ closed
                      \/ call \in {"pop", "peek", "pop_timeout"} /\ items # <<>>
                      \/ call = "wait_for_change" /\ generation # observed
                      \/ call = "pop_timed"
  BY DEF Blocked, TypeOK

LEMMA ReadyStep ==
  QueueInv /\ QueueInv' /\ ObservedBefore /\ [Next]_vars =>
    [call # "none" /\ ~Blocked => call' = "none" \/ ~Blocked']_vars
<1> SUFFICES ASSUME QueueInv, QueueInv', ObservedBefore, [Next]_vars,
                    call # "none", ~Blocked, call' # "none"
             PROVE  ~Blocked'
  OBVIOUS
<1>0. /\ TypeOK /\ TypeOK' /\ reserved = NoItem
      /\ observed \in Nat /\ generation \in Nat /\ observed <= generation
  BY DEF QueueInv, InsideCall, TypeOK, ObservedBefore
<1>1. \/ closed
      \/ call \in {"pop", "peek", "pop_timeout"} /\ items # <<>>
      \/ call = "wait_for_change" /\ generation # observed
      \/ call = "pop_timed"
  BY <1>0, Ready
<1>2. /\ closed => closed'
      /\ (call' = call /\ observed' = observed) \/ call = "none"
      /\ generation' = generation \/ generation' = generation + 1
      /\ items # <<>> => items' # <<>> \/ closed'
  <2>1. CASE \E p \in Producers : Push(p)
    <3>1. Append(IF Len(items) = Capacity THEN Tail(items) ELSE items, pushed + 1) # <<>>
      <4>1. (IF Len(items) = Capacity THEN Tail(items) ELSE items) \in Seq(Nat)
        <5>1. items \in Seq(Nat)
          BY <1>0 DEF TypeOK
        <5>2. CASE items = <<>>
          BY <5>2, QueueAssumption
        <5>3. CASE items # <<>>
          BY <5>1, <5>3, HeadTailProperties
        <5> QED
          BY <5>2, <5>3
      <4>2. pushed + 1 \in Nat
        BY <1>0 DEF TypeOK
      <4> QED
        BY <4>1, <4>2, AppendProperties
    <3> QED
      BY <2>1, <3>1 DEF Push, Change
  <2>2. CASE \E p \in Producers : Close(p) \/ NotifyChange(p) \/ Notify(p)
    BY <2>2 DEF Close, NotifyChange, Change, Notify
  <2>3. CASE ReadGeneration \/ (\E name \in {"pop", "peek", "pop_timeout", "wait_for_change"} : Call(name))
             \/ \E keep \in BOOLEAN : TryTake(keep)
    BY <2>3 DEF ReadGeneration, Call, TryTake, Free
  <2>4. CASE Wait \/ Return \/ Commit \/ Restore
    BY <1>0, <2>4 DEF Wait, Return, Commit, Restore
  <2>5. CASE WakeAnyway \/ UNCHANGED vars
    BY <2>5 DEF WakeAnyway, vars
  <2> QED
    BY <2>1, <2>2, <2>3, <2>4, <2>5 DEF Next, ProducerNext, ConsumerNext
<1>3. \/ closed'
      \/ call' \in {"pop", "peek", "pop_timeout"} /\ items' # <<>>
      \/ call' = "wait_for_change" /\ generation' # observed'
      \/ call' = "pop_timed"
  <2>1. CASE call = "wait_for_change" /\ generation # observed
    <3>1. generation' # observed
      BY <1>0, <1>2, <2>1
    <3> QED
      BY <1>2, <2>1, <3>1
  <2>2. CASE ~(call = "wait_for_change" /\ generation # observed)
    BY <1>1, <1>2, <2>2
  <2> QED
    BY <2>1, <2>2
<1> QED
  BY <1>0, <1>3, Ready DEF Blocked

(* A consumer whose call can return goes on being able to return. *)
THEOREM CallStaysReady == Spec => ReadyStaysReady
<1>1. Init => ObservedBefore
  BY DEF Init, ObservedBefore
<1>2. Spec => []ObservedBefore
  BY <1>1, ObservedStep, QueueInvariant, PTL DEF Spec
<1> QED
  BY <1>2, ReadyStep, QueueInvariant, PTL DEF Spec, ReadyStaysReady

(* Where a worker and the thread that stops it are.  A worker inside a call   *)
(* pops or peeks without a time limit, and the queue is closed before the     *)
(* signal is notified.                                                        *)
StopInv ==
  /\ at \in {"direct", "loop", "call", "nothing", "item", "observe", "process", "signal", "ended"}
  /\ stop \in {"no", "set", "closed", "requested"}
  /\ at = "call" => call \in {"pop", "peek"}
  /\ stop \in {"closed", "requested"} => closed

LEMMA StopInit == WorkerInit => StopInv
  BY DEF WorkerInit, StopInv

LEMMA StopInvStep == QueueInv /\ StopInv /\ [AllNext]_allVars => StopInv'
<1> SUFFICES ASSUME QueueInv, StopInv, [AllNext]_allVars PROVE StopInv'
  OBVIOUS
<1> USE DEF StopInv
<1>1. CASE Loop
  <2>1. CASE Stopping
    BY <1>1, <2>1 DEF Loop, Goto, vars
  <2>2. CASE ~Stopping
    BY <1>1, <2>2 DEF Loop, Goto, Call, Stopping
  <2> QED
    BY <2>1, <2>2
<1>2. CASE CallReturned
  BY <1>2 DEF CallReturned, Goto, Return
<1>3. CASE NothingLeft
  BY <1>3 DEF NothingLeft, Goto, vars
<1>4. CASE CheckStop
  <2>1. CASE Stopping
    BY <1>4, <2>1 DEF CheckStop, Goto, LetGo, Restore, vars
  <2>2. CASE ~Stopping
    BY <1>4, <2>2 DEF CheckStop, Goto, vars, Stopping
  <2> QED
    BY <2>1, <2>2
<1>4a. CASE ReadSignal
  BY <1>4a DEF ReadSignal, Goto, vars
<1>5. CASE Processed
  BY <1>5 DEF Processed, Goto, Commit, vars
<1>6. CASE FailedScan \/ GiveUp
  BY <1>6 DEF FailedScan, GiveUp, Goto, Restore, Commit
<1>7. CASE FailedPeek
  BY <1>7 DEF FailedPeek, Goto, Restore
<1>8. CASE SignalWaitEnds
  BY <1>8 DEF SignalWaitEnds, Goto, vars
<1>9. CASE CallWaits
  BY <1>9 DEF CallWaits, Wait, WakeAnyway, workerVars
<1>10. CASE OutsideNext
  <2>1. UNCHANGED <<kind, at, stop, roused>>
    BY <1>10 DEF OutsideNext, workerVars
  <2>2. closed => closed'
    BY <1>10 DEF OutsideNext, ProducerNext, Push, Close, NotifyChange, Change, Notify, ConsumerNext,
                 ReadGeneration, Call, TryTake, Wait, WakeAnyway, Return, Commit, Restore
  <2>3. at = "call" => call' = call
    BY <1>10 DEF OutsideNext, ProducerNext, Push, Close, NotifyChange, Change, Notify
  <2> QED
    BY <2>1, <2>2, <2>3
<1>11. CASE StopNext
  <2>1. CASE SetStop \/ StopNotifies
    BY <2>1 DEF SetStop, StopNotifies, vars, workerVars
  <2>2. CASE StopCloses
    BY <2>2 DEF StopCloses, Close, Change, vars, workerVars
  <2> QED
    BY <1>11, <2>1, <2>2 DEF StopNext
<1>12. CASE TimePasses \/ SignalNotify
  BY <1>12 DEF TimePasses, SignalNotify, vars
<1>13. CASE UNCHANGED allVars
  BY <1>13 DEF allVars, vars, workerVars
<1>14. CASE WorkerNext
  BY <1>14, <1>1, <1>2, <1>3, <1>4, <1>4a, <1>5, <1>6, <1>7, <1>8 DEF WorkerNext
<1> QED
  BY <1>9, <1>10, <1>11, <1>12, <1>13, <1>14 DEF AllNext

LEMMA StopInvariant == WorkerSpec => [](QueueInv /\ StopInv)
<1>1. WorkerSpec => []QueueInv
  BY WorkerIsConsumer, QueueInvariant, PTL
<1> QED
  BY <1>1, StopInit, StopInvStep, PTL DEF WorkerSpec

(* No call of a worker on its queue outlasts request_stop, whether the worker *)
(* is inside it or about to enter it.                                         *)
THEOREM StopWakesCall == WorkerSpec => []StopEndsCall
<1>1. QueueInv /\ StopInv => StopEndsCall
  BY DEF QueueInv, StopInv, StopEndsCall, NoLostWakeup, Blocked
<1> QED
  BY <1>1, StopInvariant, PTL

LEMMA CountdownStep ==
  ASSUME StopInv, [AllNext]_allVars
  PROVE  [Stopping /\ at # "direct" =>
            /\ Stopping' /\ at' # "direct"
            /\ at' # at => StepsToEnd(at') < StepsToEnd(at)
            /\ WorkerNext => at' # at]_allVars
<1> SUFFICES ASSUME Stopping, at # "direct"
             PROVE  /\ Stopping' /\ at' # "direct"
                    /\ at' # at => StepsToEnd(at') < StepsToEnd(at)
                    /\ WorkerNext => at' # at
  OBVIOUS
<1>1. CASE WorkerNext
  <2>1. stop' = stop
    BY <1>1 DEF WorkerNext, Loop, CallReturned, NothingLeft, CheckStop, ReadSignal, Processed,
                FailedScan, GiveUp,
                FailedPeek, SignalWaitEnds, Goto
  <2>2. <<at, at'>> \in {<<"loop", "ended">>, <<"call", "nothing">>, <<"call", "item">>,
                         <<"nothing", "ended">>, <<"item", "ended">>, <<"observe", "process">>,
                         <<"process", "loop">>, <<"process", "signal">>, <<"signal", "loop">>}
    BY <1>1 DEF WorkerNext, Loop, CallReturned, NothingLeft, CheckStop, ReadSignal, Processed,
                FailedScan, GiveUp,
                FailedPeek, SignalWaitEnds, Goto
  <2>3. at' # at /\ at' # "direct" /\ StepsToEnd(at') < StepsToEnd(at)
    BY <2>2 DEF StepsToEnd
  <2> QED
    BY <2>1, <2>3 DEF Stopping
<1>2. CASE ~WorkerNext
  <2>1. at' = at /\ (stop' = stop \/ stop' \in {"set", "closed", "requested"})
    BY <1>2 DEF AllNext, CallWaits, OutsideNext, StopNext, SetStop, StopCloses, StopNotifies, TimePasses,
                SignalNotify, workerVars, allVars
  <2> QED
    BY <1>2, <2>1 DEF Stopping
<1> QED
  BY <1>1, <1>2

(* A worker asked to stop takes at most four more steps of its loop; so it    *)
(* waits for the retry signal at most once more, wherever the stop meets it.  *)
THEOREM StopBounded == WorkerSpec => StopCountsDown
  BY StopInvariant, CountdownStep, PTL DEF WorkerSpec, StopCountsDown
=============================================================================
