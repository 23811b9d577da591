-------------------------- MODULE SessionVecProofs --------------------------
(***************************************************************************)
(* What the order of the Vec adds to the session table: the loops that     *)
(* remove by index remove what they mean to, and every behaviour with the  *)
(* Vec is one of SessionTable.                                             *)
(***************************************************************************)
EXTENDS SessionVec, SessionTableProofs, NaturalsInduction, WellFoundedInduction

-----------------------------------------------------------------------------
(* Loops.  A loop is a recursive function of the number of its rounds.        *)

(* Induction on the number of rounds, with the property as a set. *)
LEMMA Induction ==
  ASSUME NEW T \in SUBSET Nat, 0 \in T, \A n \in T : n + 1 \in T
  PROVE  T = Nat
<1> SUFFICES ASSUME T # Nat PROVE FALSE
  OBVIOUS
<1>1. PICK m \in Nat \ T : \A n \in Nat \ T : ~(<<n, m>> \in OpToRel(<, Nat))
  BY NatLessThanWellFounded, WFMin
<1>2. \A n \in Nat \ T : ~(n < m)
  BY <1>1 DEF OpToRel
<1> QED
  BY <1>2

(* Round n of a loop on states S takes state s to F[<<n, s>>]. *)
Rounds(F, S) == F \in [Nat \X S -> S]

(* r are the states of the loop that starts with x. *)
Runs(r, S, x, F) ==
  /\ r \in [Nat -> S]
  /\ r[0] = x
  /\ \A n \in Nat : r[n + 1] = F[<<n, r[n]>>]

(* They exist. *)
LEMMA LoopExists ==
  ASSUME NEW S, NEW x \in S, NEW F, Rounds(F, S)
  PROVE  \E r : Runs(r, S, x, F)
<1>0. F \in [Nat \X S -> S]
  BY DEF Rounds
<1> DEFINE Upto(n, r) == r[0] = x /\ \A k \in 0..(n - 1) : r[k + 1] = F[<<k, r[k]>>]
           T == {n \in Nat : \E r \in [Nat -> S] : Upto(n, r)}
<1>1. 0 \in T
  <2>1. [n \in Nat |-> x] \in [Nat -> S] /\ Upto(0, [n \in Nat |-> x])
    OBVIOUS
  <2> QED
    BY <2>1
<1>2. ASSUME NEW n \in T PROVE n + 1 \in T
  <2>1. PICK r \in [Nat -> S] : Upto(n, r)
    OBVIOUS
  <2> DEFINE q == [r EXCEPT ![n + 1] = F[<<n, r[n]>>]]
  <2>2. q \in [Nat -> S]
    BY <1>0
  <2>3. q[n + 1] = F[<<n, r[n]>>] /\ \A k \in 0..n : q[k] = r[k]
    OBVIOUS
  <2>4. Upto(n + 1, q)
    BY <2>1, <2>3
  <2>5. n + 1 \in Nat
    OBVIOUS
  <2> HIDE DEF q, Upto
  <2> QED
    BY <2>2, <2>4, <2>5
<1>3. T = Nat
  <2>1. T \subseteq Nat
    OBVIOUS
  <2> HIDE DEF T
  <2> QED
    BY <1>1, <1>2, <2>1, Induction
<1> DEFINE R(n) == CHOOSE r \in [Nat -> S] : Upto(n, r)
<1>4. ASSUME NEW n \in Nat PROVE R(n) \in [Nat -> S] /\ Upto(n, R(n))
  BY <1>3
<1> HIDE DEF R, T
<1>5. ASSUME NEW n \in Nat PROVE \A m \in Nat : n <= m => R(n)[n] = R(m)[n]
  <2> DEFINE V == {k \in Nat : k <= n => \A m \in Nat : n <= m => R(n)[k] = R(m)[k]}
  <2>1. 0 \in V
    BY <1>4
  <2>2. ASSUME NEW k \in V PROVE k + 1 \in V
    <3> SUFFICES ASSUME k + 1 <= n, NEW m \in Nat, n <= m PROVE R(n)[k + 1] = R(m)[k + 1]
      OBVIOUS
    <3>1. R(n)[k] = R(m)[k]
      OBVIOUS
    <3>2. k \in 0..(n - 1) /\ k \in 0..(m - 1)
      OBVIOUS
    <3>3. R(n)[k + 1] = F[<<k, R(n)[k]>>] /\ R(m)[k + 1] = F[<<k, R(m)[k]>>]
      BY <1>4, <3>2
    <3> QED
      BY <3>1, <3>3
  <2>3. V = Nat
    <3>1. V \subseteq Nat
      OBVIOUS
    <3> HIDE DEF V
    <3> QED
      BY <2>1, <2>2, <3>1, Induction
  <2> QED
    BY <2>3
<1> DEFINE d == [n \in Nat |-> R(n)[n]]
<1>6. d \in [Nat -> S] /\ d[0] = x
  BY <1>4
<1>7. ASSUME NEW n \in Nat PROVE d[n + 1] = F[<<n, d[n]>>]
  <2>1. d[n + 1] = R(n + 1)[n + 1] /\ d[n] = R(n)[n]
    OBVIOUS
  <2>2. R(n)[n] = R(n + 1)[n]
    BY <1>5
  <2>3. R(n + 1)[n + 1] = F[<<n, R(n + 1)[n]>>]
    BY <1>4
  <2> QED
    BY <2>1, <2>2, <2>3
<1> HIDE DEF d
<1>8. Runs(d, S, x, F)
  BY <1>6, <1>7 DEF Runs
<1> QED
  BY <1>8

-----------------------------------------------------------------------------
(* Lists without repetition *)

Distinct(l) == \A i, j \in 1..Len(l) : l[i] = l[j] => i = j

(* l lists the peers of S, each once. *)
Lists(l, S) == l \in Seq(Peers) /\ Distinct(l) /\ ToSet(l) = S

LEMMA ListElements ==
  ASSUME NEW l \in Seq(Peers)
  PROVE  /\ Len(l) \in Nat /\ DOMAIN l = 1..Len(l)
         /\ \A i \in 1..Len(l) : l[i] \in Peers
         /\ ToSet(l) = {l[i] : i \in 1..Len(l)}
         /\ ToSet(l) \subseteq Peers
  BY DEF ToSet

(* A list has as many elements as its set. *)
LEMMA ListCardinality ==
  ASSUME NEW l, NEW S, Lists(l, S)
  PROVE  IsFiniteSet(S) /\ Cardinality(S) = Len(l)
<1>1. /\ Len(l) \in Nat
      /\ \A i \in 1..Len(l) : l[i] \in S
      /\ \A p \in S : \E i \in 1..Len(l) : l[i] = p
      /\ DOMAIN l = 1..Len(l)
  BY ListElements DEF Lists
<1>2. l \in [1..Len(l) -> S]
  BY <1>1 DEF Lists
<1>3. l \in Bijection(1..Len(l), S)
  BY <1>1, <1>2 DEF Bijection, Injection, Surjection, IsInjective, Lists, Distinct
<1>4. ExistsBijection(1..Len(l), S)
  BY <1>3 DEF ExistsBijection
<1>5. IsFiniteSet(1..Len(l)) /\ Cardinality(1..Len(l)) = Len(l)
  BY <1>1, FS_Interval
<1> QED
  BY <1>4, <1>5, FS_Bijection

(* swap_remove takes a list to a list, whatever the index. *)
LEMMA SwapRemoveType ==
  ASSUME NEW l \in Seq(Peers), NEW i
  PROVE  SwapRemove(l, i) \in Seq(Peers)
<1> DEFINE r == [l EXCEPT ![i] = l[Len(l)]]
<1>1. CASE l = <<>>
  <2>1. SubSeq(r, 1, Len(r) - 1) \in Seq(Peers)
    <3>1. r = <<>> /\ Len(r) = 0
      BY <1>1
    <3> QED
      BY <3>1, EmptySeq, SubSeqEmpty
  <2> QED
    BY <2>1 DEF SwapRemove, Front, ReplaceAt, Last
<1>2. CASE l # <<>>
  <2>1. Len(l) \in Nat \ {0} /\ l[Len(l)] \in Peers
    BY <1>2, EmptySeq, ListElements
  <2>2. r \in Seq(Peers) /\ Len(r) = Len(l)
    <3>1. CASE i \in 1..Len(l)
      BY <2>1, <3>1, ExceptSeq
    <3>2. CASE i \notin 1..Len(l)
      <4>1. DOMAIN l = 1..Len(l) /\ l = [k \in DOMAIN l |-> l[k]]
        BY ListElements
      <4>2. r = l
        BY <3>2, <4>1
      <4> QED
        BY <4>2
    <3> QED
      BY <3>1, <3>2
  <2>3. SubSeq(r, 1, Len(r) - 1) \in Seq(Peers)
    <3>1. \A k \in 1..(Len(r) - 1) : r[k] \in Peers
      BY <2>1, <2>2, ListElements
    <3> HIDE DEF r
    <3> QED
      BY <2>1, <2>2, <3>1, SubSeqProperties
  <2> QED
    BY <2>3 DEF SwapRemove, Front, ReplaceAt, Last
<1> QED
  BY <1>1, <1>2

(* swap_remove removes the element at the index and only that one: the last  *)
(* one takes its place, all others keep theirs.                              *)
LEMMA SwapRemoveAt ==
  ASSUME NEW l \in Seq(Peers), Distinct(l), NEW i \in 1..Len(l)
  PROVE  /\ SwapRemove(l, i) \in Seq(Peers)
         /\ Len(SwapRemove(l, i)) = Len(l) - 1
         /\ \A k \in 1..(Len(l) - 1) :
              SwapRemove(l, i)[k] = IF k = i THEN l[Len(l)] ELSE l[k]
         /\ Distinct(SwapRemove(l, i))
         /\ ToSet(SwapRemove(l, i)) = ToSet(l) \ {l[i]}
<1> DEFINE r == [l EXCEPT ![i] = l[Len(l)]]
           q == SwapRemove(l, i)
<1>1. Len(l) \in Nat \ {0} /\ i \in Int /\ 1 <= i /\ i <= Len(l) /\ l[Len(l)] \in Peers
  BY ListElements
<1>2. r \in Seq(Peers) /\ Len(r) = Len(l) /\ \A k \in 1..Len(l) : r[k] = IF k = i THEN l[Len(l)] ELSE l[k]
  BY <1>1, ExceptSeq
<1> HIDE DEF r
<1>3. q = SubSeq(r, 1, Len(l) - 1)
  BY <1>2 DEF SwapRemove, Front, ReplaceAt, Last, r
<1>4. \A k \in 1..(Len(l) - 1) : r[k] \in Peers
  BY <1>1, <1>2, ListElements
<1>5. /\ q \in Seq(Peers)
      /\ Len(q) = Len(l) - 1
      /\ \A k \in 1..(Len(l) - 1) : q[k] = r[k]
  <2> DEFINE n == Len(l) - 1
  <2>0. n \in Nat
    BY <1>1
  <2>2. \A k \in 1..n : r[k] \in Peers
    BY <1>4
  <2> HIDE DEF n
  <2>1. n \in Int /\ n - 1 + 1 = n /\ (IF 1 <= n THEN n - 1 + 1 ELSE 0) = n
    BY <2>0
  <2>3. /\ SubSeq(r, 1, n) \in Seq(Peers)
        /\ Len(SubSeq(r, 1, n)) = IF 1 <= n THEN n - 1 + 1 ELSE 0
        /\ \A k \in 1..(n - 1 + 1) : SubSeq(r, 1, n)[k] = r[1 + k - 1]
    BY <2>1, <2>2, SubSeqProperties
  <2>4. \A k \in 1..n : 1 + k - 1 = k
    BY <2>1
  <2> QED
    BY <1>3, <2>1, <2>3, <2>4 DEF n
<1>6. \A k \in 1..(Len(l) - 1) : q[k] = IF k = i THEN l[Len(l)] ELSE l[k]
  BY <1>1, <1>2, <1>5
<1> HIDE DEF q
<1>7. Distinct(q)
  BY <1>1, <1>5, <1>6 DEF Distinct
<1>8. ToSet(q) = {q[k] : k \in 1..(Len(l) - 1)} /\ ToSet(l) = {l[k] : k \in 1..Len(l)}
  BY <1>5, ListElements
<1>9. ASSUME NEW k \in 1..(Len(l) - 1) PROVE q[k] \in ToSet(l) \ {l[i]}
  BY <1>1, <1>6, <1>8 DEF Distinct
<1>10. ASSUME NEW k \in 1..Len(l), l[k] # l[i] PROVE l[k] \in ToSet(q)
  <2>1. CASE k = Len(l)
    <3>1. i \in 1..(Len(l) - 1)
      BY <1>1, <1>10, <2>1
    <3> QED
      BY <1>6, <1>8, <2>1, <3>1
  <2>2. CASE k # Len(l)
    BY <1>1, <1>6, <1>8, <1>10, <2>2
  <2> QED
    BY <2>1, <2>2
<1>11. ToSet(q) = ToSet(l) \ {l[i]}
  BY <1>8, <1>9, <1>10, Zenon
<1> QED
  BY <1>5, <1>6, <1>7, <1>11 DEF q

(* Appending a peer that is not listed. *)
LEMMA AppendList ==
  ASSUME NEW l, NEW S, Lists(l, S), NEW p \in Peers \ S
  PROVE  Lists(Append(l, p), S \cup {p})
<1>1. /\ Len(l) \in Nat
      /\ Append(l, p) \in Seq(Peers) /\ Len(Append(l, p)) = Len(l) + 1
      /\ \A i \in 1..Len(l) : Append(l, p)[i] = l[i] /\ l[i] # p
      /\ Append(l, p)[Len(l) + 1] = p
  BY AppendProperties, ListElements DEF Lists
<1> DEFINE q == Append(l, p)
<1> HIDE DEF q
<1>2. \A i \in 1..Len(q) : i = Len(l) + 1 \/ i \in 1..Len(l)
  BY <1>1 DEF q
<1>3. Distinct(q)
  BY <1>1, <1>2 DEF Distinct, Lists, q
<1>4. ToSet(q) = S \cup {p}
  <2>1. ToSet(q) = {q[i] : i \in 1..Len(q)} /\ S = {l[i] : i \in 1..Len(l)}
    BY <1>1, ListElements DEF q, Lists
  <2>2. \A i \in 1..Len(q) : q[i] \in S \cup {p}
    BY <1>1, <1>2, <2>1 DEF q
  <2>3. \A i \in 1..Len(l) : i \in 1..Len(q) /\ q[i] = l[i]
    BY <1>1 DEF q
  <2>4. Len(l) + 1 \in 1..Len(q) /\ q[Len(l) + 1] = p
    BY <1>1 DEF q
  <2> QED
    BY <2>1, <2>2, <2>3, <2>4, Zenon
<1> QED
  BY <1>1, <1>3, <1>4 DEF Lists, q

-----------------------------------------------------------------------------
(* retain *)

RetainLoop(r, l, keep) ==
  r = [n \in 0..Len(l) |->
         IF n = 0 THEN <<>>
         ELSE IF l[n] \in keep THEN Append(r[n - 1], l[n]) ELSE r[n - 1]]

LEMMA RetainRuns ==
  ASSUME NEW l \in Seq(Peers), NEW keep
  PROVE  \E r : RetainLoop(r, l, keep) /\ RetainOnly(l, keep) = r[Len(l)]
<1> DEFINE Take(s, n) == IF l[n] \in keep THEN Append(s, l[n]) ELSE s
           Step(s, n) == IF n \in 1..Len(l) THEN Take(s, n) ELSE s
           F == [x \in Nat \X Seq(Peers) |-> Step(x[2], x[1] + 1)]
<1>0. Len(l) \in Nat
  BY ListElements
<1>1. ASSUME NEW s \in Seq(Peers), NEW n \in Nat PROVE Step(s, n) \in Seq(Peers)
  BY AppendProperties, ListElements
<1> HIDE DEF Step
<1>2. Rounds(F, Seq(Peers))
  BY <1>1 DEF Rounds
<1>3. <<>> \in Seq(Peers)
  BY EmptySeq
<1>4. PICK g : Runs(g, Seq(Peers), <<>>, F)
  <2> HIDE DEF F
  <2> QED
    BY <1>2, <1>3, LoopExists
<1>5. ASSUME NEW n \in 1..Len(l) PROVE g[n] = Take(g[n - 1], n)
  <2>1. n - 1 \in Nat /\ (n - 1) + 1 = n /\ g[n - 1] \in Seq(Peers)
    BY <1>0, <1>4 DEF Runs
  <2>2. g[n] = Step(g[n - 1], n)
    BY <1>4, <2>1 DEF Runs
  <2> QED
    BY <2>2 DEF Step
<1> DEFINE h == [n \in 0..Len(l) |-> g[n]]
<1>6. RetainLoop(h, l, keep)
  <2>1. ASSUME NEW n \in 0..Len(l)
        PROVE  g[n] = IF n = 0 THEN <<>> ELSE Take(h[n - 1], n)
    <3>1. CASE n = 0
      BY <1>4, <3>1 DEF Runs
    <3>2. CASE n # 0
      <4>1. n \in 1..Len(l) /\ h[n - 1] = g[n - 1]
        BY <1>0, <3>2
      <4> HIDE DEF h, Take
      <4> QED
        BY <1>5, <3>2, <4>1
    <3> QED
      BY <3>1, <3>2
  <2>2. h = [n \in 0..Len(l) |-> IF n = 0 THEN <<>> ELSE Take(h[n - 1], n)]
    BY <2>1
  <2> HIDE DEF h
  <2> QED
    BY <2>2 DEF RetainLoop
<1> DEFINE c == CHOOSE r : RetainLoop(r, l, keep)
<1>7. RetainLoop(c, l, keep)
  BY <1>6
<1>8. RetainOnly(l, keep) = c[Len(l)]
  BY DEF RetainOnly, RetainLoop
<1> HIDE DEF c
<1> QED
  BY <1>7, <1>8

(* retain leaves the elements of `keep`, each once. *)
LEMMA RetainLists ==
  ASSUME NEW l, NEW S, Lists(l, S), NEW keep
  PROVE  Lists(RetainOnly(l, keep), S \cap keep)
<1>0. /\ l \in Seq(Peers) /\ Len(l) \in Nat
      /\ \A i \in 1..Len(l) : l[i] \in Peers
      /\ S = {l[i] : i \in 1..Len(l)}
      /\ \A i, j \in 1..Len(l) : l[i] = l[j] => i = j
  BY ListElements DEF Lists, Distinct
<1>1. PICK r : RetainLoop(r, l, keep) /\ RetainOnly(l, keep) = r[Len(l)]
  BY <1>0, RetainRuns
<1> DEFINE Seen(n) == {l[i] : i \in 1..n} \cap keep
           T == {n \in Nat : n <= Len(l) => Lists(r[n], Seen(n))}
<1>2. 0 \in T
  <2>1. r[0] = <<>>
    BY <1>0, <1>1 DEF RetainLoop
  <2>2. Seen(0) = {}
    BY <1>0
  <2>3. Lists(<<>>, {})
    BY EmptySeq DEF Lists, Distinct, ToSet
  <2> QED
    BY <2>1, <2>2, <2>3
<1>3. ASSUME NEW n \in T PROVE n + 1 \in T
  <2> SUFFICES ASSUME n + 1 <= Len(l) PROVE Lists(r[n + 1], Seen(n + 1))
    OBVIOUS
  <2>1. n \in Nat /\ Lists(r[n], Seen(n)) /\ n + 1 \in 1..Len(l) /\ n + 1 \in 0..Len(l)
    BY <1>0
  <2>2. r[n + 1] = IF l[n + 1] \in keep THEN Append(r[n], l[n + 1]) ELSE r[n]
    <3>1. n + 1 # 0 /\ (n + 1) - 1 = n
      BY <2>1
    <3> QED
      BY <1>1, <2>1, <3>1 DEF RetainLoop
  <2>3. l[n + 1] \in Peers \ Seen(n)
    BY <1>0, <2>1
  <2>4. Seen(n + 1) = IF l[n + 1] \in keep THEN Seen(n) \cup {l[n + 1]} ELSE Seen(n)
    <3>1. \A i : i \in 1..(n + 1) <=> i \in 1..n \/ i = n + 1
      BY <2>1
    <3> QED
      BY <3>1
  <2> HIDE DEF Seen
  <2> QED
    BY <2>1, <2>2, <2>3, <2>4, AppendList
<1>4. T = Nat
  <2>1. T \subseteq Nat
    OBVIOUS
  <2> HIDE DEF T
  <2> QED
    BY <1>2, <1>3, <2>1, Induction
<1>5. Lists(r[Len(l)], Seen(Len(l)))
  <2>1. Len(l) \in T
    BY <1>0, <1>4
  <2> HIDE DEF Seen
  <2> QED
    BY <1>0, <2>1
<1> QED
  BY <1>0, <1>1, <1>5

-----------------------------------------------------------------------------
(* The scan that looks at an index again after a removal *)

Visited(s, gone) ==
  IF s.index <= Len(s.list) /\ s.list[s.index] \in gone
  THEN [list |-> SwapRemove(s.list, s.index), index |-> s.index]
  ELSE [list |-> s.list, index |-> s.index + 1]

ScanLoop(r, l, gone) ==
  r = [n \in 0..Len(l) |->
         IF n = 0 THEN [list |-> l, index |-> 1] ELSE Visited(r[n - 1], gone)]

LEMMA ScanRuns ==
  ASSUME NEW l \in Seq(Peers), NEW gone
  PROVE  \E r : ScanLoop(r, l, gone) /\ ScanRemove(l, gone) = r[Len(l)].list
<1> DEFINE State == [list : Seq(Peers), index : Nat]
           x == [list |-> l, index |-> 1]
           F == [y \in Nat \X State |-> Visited(y[2], gone)]
<1>0. Len(l) \in Nat
  BY ListElements
<1>1. ASSUME NEW s \in State PROVE Visited(s, gone) \in State
  BY SwapRemoveType DEF Visited
<1>2. x \in State
  OBVIOUS
<1> HIDE DEF State, x
<1>3. Rounds(F, State)
  BY <1>1 DEF Rounds
<1>4. PICK g : Runs(g, State, x, F)
  <2> HIDE DEF F
  <2> QED
    BY <1>2, <1>3, LoopExists
<1>5. ASSUME NEW n \in 1..Len(l) PROVE g[n] = Visited(g[n - 1], gone)
  <2>1. n - 1 \in Nat /\ (n - 1) + 1 = n /\ g[n - 1] \in State
    BY <1>0, <1>4 DEF Runs
  <2> QED
    BY <1>4, <2>1 DEF Runs
<1> DEFINE h == [n \in 0..Len(l) |-> g[n]]
<1>6. ScanLoop(h, l, gone)
  <2>1. ASSUME NEW n \in 0..Len(l)
        PROVE  g[n] = IF n = 0 THEN x ELSE Visited(h[n - 1], gone)
    <3>1. CASE n = 0
      BY <1>4, <3>1 DEF Runs
    <3>2. CASE n # 0
      <4>1. n \in 1..Len(l) /\ h[n - 1] = g[n - 1]
        BY <1>0, <3>2
      <4> HIDE DEF h
      <4> QED
        BY <1>5, <3>2, <4>1
    <3> QED
      BY <3>1, <3>2
  <2>2. h = [n \in 0..Len(l) |-> IF n = 0 THEN x ELSE Visited(h[n - 1], gone)]
    BY <2>1
  <2> HIDE DEF h
  <2> QED
    BY <2>2 DEF ScanLoop, x
<1> DEFINE c == CHOOSE r : ScanLoop(r, l, gone)
<1>7. ScanLoop(c, l, gone)
  BY <1>6
<1>8. ScanRemove(l, gone) = c[Len(l)].list
  BY DEF ScanRemove, ScanLoop, Visited
<1> HIDE DEF c
<1> QED
  BY <1>7, <1>8

(* After n rounds: nothing else was removed, what is in front of the index is *)
(* not in `gone`, and each round has either removed one or gone on by one.    *)
Scanned(s, l, S, gone, n) ==
  /\ s.list \in Seq(Peers) /\ Distinct(s.list)
  /\ ToSet(s.list) \subseteq S /\ S \ gone \subseteq ToSet(s.list)
  /\ s.index \in Nat \ {0}
  /\ \A i \in 1..Len(s.list) : i < s.index => s.list[i] \notin gone
  /\ Len(l) - Len(s.list) + s.index - 1 = n

LEMMA ScanStep ==
  ASSUME NEW l \in Seq(Peers), NEW S, NEW gone, NEW n \in Nat, n < Len(l), NEW s,
         Scanned(s, l, S, gone, n)
  PROVE  Scanned(Visited(s, gone), l, S, gone, n + 1)
<1>0. /\ s.list \in Seq(Peers) /\ Distinct(s.list) /\ Len(s.list) \in Nat /\ Len(l) \in Nat
      /\ s.index \in Nat \ {0}
      /\ \A i \in 1..Len(s.list) : i < s.index => s.list[i] \notin gone
      /\ Len(l) - Len(s.list) + s.index - 1 = n
      /\ ToSet(s.list) \subseteq S /\ S \ gone \subseteq ToSet(s.list)
  BY ListElements DEF Scanned
<1>a. /\ Len(s.list) \in Nat /\ Len(l) \in Nat /\ s.index \in Nat \ {0}
      /\ Len(l) - Len(s.list) + s.index - 1 = n
  BY <1>0
<1>c. /\ Len(l) - (Len(s.list) - 1) + s.index - 1 = n + 1
      /\ Len(l) - Len(s.list) + (s.index + 1) - 1 = n + 1
  <2> DEFINE a == Len(l)
             b == Len(s.list)
             c == s.index
  <2>1. a \in Int /\ b \in Int /\ c \in Int /\ n \in Int /\ a - b + c - 1 = n
    BY <1>a
  <2> HIDE DEF a, b, c
  <2>2. a - (b - 1) + c - 1 = n + 1 /\ a - b + (c + 1) - 1 = n + 1
    BY <2>1
  <2> QED
    BY <2>2 DEF a, b, c
<1>1. s.index \in 1..Len(s.list)
  BY <1>a
<1> DEFINE q == SwapRemove(s.list, s.index)
<1>2. CASE s.list[s.index] \in gone
  <2>1. Visited(s, gone) = [list |-> q, index |-> s.index]
    BY <1>1, <1>2 DEF Visited
  <2>2. /\ q \in Seq(Peers) /\ Distinct(q)
        /\ Len(q) = Len(s.list) - 1
        /\ \A k \in 1..(Len(s.list) - 1) :
             q[k] = IF k = s.index THEN s.list[Len(s.list)] ELSE s.list[k]
        /\ ToSet(q) = ToSet(s.list) \ {s.list[s.index]}
    BY <1>0, <1>1, SwapRemoveAt
  <2> HIDE DEF q
  <2>3. \A i \in 1..Len(q) : i < s.index => q[i] \notin gone
    <3>1. ASSUME NEW i \in 1..Len(q), i < s.index
          PROVE  i \in 1..Len(s.list) /\ q[i] = s.list[i]
      <4>1. i \in 1..(Len(s.list) - 1) /\ i # s.index /\ i \in 1..Len(s.list)
        <5>1. Len(q) = Len(s.list) - 1
          BY <2>2
        <5> QED
          BY <1>a, <3>1, <5>1
      <4> QED
        BY <2>2, <4>1
    <3> QED
      BY <1>0, <3>1
  <2>4. ToSet(q) \subseteq S /\ S \ gone \subseteq ToSet(q)
    BY <1>0, <1>2, <2>2
  <2>5. Len(l) - Len(q) + s.index - 1 = n + 1
    <3>1. Len(q) = Len(s.list) - 1
      BY <2>2
    <3> QED
      BY <1>c, <3>1, Zenon
  <2> QED
    BY <1>0, <2>1, <2>2, <2>3, <2>4, <2>5 DEF Scanned
<1>3. CASE s.list[s.index] \notin gone
  <2>1. Visited(s, gone) = [list |-> s.list, index |-> s.index + 1]
    BY <1>3 DEF Visited
  <2>2. \A i \in 1..Len(s.list) : i < s.index + 1 => s.list[i] \notin gone
    BY <1>0, <1>3
  <2>3. s.index + 1 \in Nat \ {0} /\ Len(l) - Len(s.list) + (s.index + 1) - 1 = n + 1
    BY <1>a, <1>c
  <2> QED
    BY <1>0, <2>1, <2>2, <2>3 DEF Scanned
<1> QED
  BY <1>2, <1>3

(* The scan removes exactly `gone`: as many rounds as the list was long       *)
(* reach its end.                                                             *)
LEMMA ScanLists ==
  ASSUME NEW l, NEW S, Lists(l, S), NEW gone
  PROVE  Lists(ScanRemove(l, gone), S \ gone)
<1>0. l \in Seq(Peers) /\ Len(l) \in Nat /\ Distinct(l) /\ ToSet(l) = S
  BY ListElements DEF Lists
<1>1. PICK r : ScanLoop(r, l, gone) /\ ScanRemove(l, gone) = r[Len(l)].list
  BY <1>0, ScanRuns
<1> DEFINE T == {n \in Nat : n <= Len(l) => Scanned(r[n], l, S, gone, n)}
<1>2. 0 \in T
  <2>1. r[0] = [list |-> l, index |-> 1]
    BY <1>0, <1>1 DEF ScanLoop
  <2>2. Scanned([list |-> l, index |-> 1], l, S, gone, 0)
    BY <1>0 DEF Scanned
  <2> QED
    BY <2>1, <2>2
<1>3. ASSUME NEW n \in T PROVE n + 1 \in T
  <2> SUFFICES ASSUME n + 1 <= Len(l) PROVE Scanned(r[n + 1], l, S, gone, n + 1)
    OBVIOUS
  <2>1. n \in Nat /\ n < Len(l) /\ Scanned(r[n], l, S, gone, n) /\ n + 1 \in 0..Len(l)
    BY <1>0
  <2>2. r[n + 1] = Visited(r[n], gone)
    <3>1. n + 1 # 0 /\ (n + 1) - 1 = n
      BY <2>1
    <3> QED
      BY <1>1, <2>1, <3>1 DEF ScanLoop
  <2> QED
    BY <1>0, <2>1, <2>2, ScanStep
<1>4. T = Nat
  <2>1. T \subseteq Nat
    OBVIOUS
  <2> HIDE DEF T
  <2> QED
    BY <1>2, <1>3, <2>1, Induction
<1> DEFINE q == r[Len(l)].list
<1>5. Scanned(r[Len(l)], l, S, gone, Len(l))
  <2>1. Len(l) \in T
    BY <1>0, <1>4
  <2> QED
    BY <1>0, <2>1
<1>6. /\ q \in Seq(Peers) /\ Distinct(q)
      /\ ToSet(q) \subseteq S /\ S \ gone \subseteq ToSet(q)
      /\ \A i \in 1..Len(q) : q[i] \notin gone
  <2>1. Len(q) \in Nat /\ \A i \in 1..Len(q) : i < r[Len(l)].index
    BY <1>0, <1>5, ListElements DEF Scanned
  <2> QED
    BY <1>5, <2>1 DEF Scanned
<1> HIDE DEF q
<1>7. ToSet(q) = S \ gone
  BY <1>6, ListElements
<1> QED
  BY <1>1, <1>6, <1>7 DEF Lists, q

-----------------------------------------------------------------------------
(* The indices collected first and removed from the last to the first *)

CollectLoop(r, l, gone) ==
  r = [n \in 0..Len(l) |->
         IF n = 0 THEN l
         ELSE IF l[Len(l) - n + 1] \in gone
              THEN SwapRemove(r[n - 1], Len(l) - n + 1) ELSE r[n - 1]]

LEMMA CollectRuns ==
  ASSUME NEW l \in Seq(Peers), NEW gone
  PROVE  \E r : CollectLoop(r, l, gone) /\ RemoveCollected(l, gone) = r[Len(l)]
<1> DEFINE Step(s, n) == IF l[Len(l) - n + 1] \in gone THEN SwapRemove(s, Len(l) - n + 1) ELSE s
           F == [y \in Nat \X Seq(Peers) |-> Step(y[2], y[1] + 1)]
<1>0. Len(l) \in Nat
  BY ListElements
<1>1. ASSUME NEW s \in Seq(Peers), NEW n \in Nat PROVE Step(s, n) \in Seq(Peers)
  BY SwapRemoveType
<1> HIDE DEF Step
<1>2. Rounds(F, Seq(Peers))
  BY <1>1 DEF Rounds
<1>4. PICK g : Runs(g, Seq(Peers), l, F)
  <2> HIDE DEF F
  <2> QED
    BY <1>2, LoopExists
<1>5. ASSUME NEW n \in 1..Len(l) PROVE g[n] = Step(g[n - 1], n)
  <2>1. n - 1 \in Nat /\ (n - 1) + 1 = n /\ g[n - 1] \in Seq(Peers)
    BY <1>0, <1>4 DEF Runs
  <2> QED
    BY <1>4, <2>1 DEF Runs
<1> DEFINE h == [n \in 0..Len(l) |-> g[n]]
<1>6. CollectLoop(h, l, gone)
  <2>1. ASSUME NEW n \in 0..Len(l)
        PROVE  g[n] = IF n = 0 THEN l ELSE Step(h[n - 1], n)
    <3>1. CASE n = 0
      BY <1>4, <3>1 DEF Runs
    <3>2. CASE n # 0
      <4>1. n \in 1..Len(l) /\ h[n - 1] = g[n - 1]
        BY <1>0, <3>2
      <4> HIDE DEF h
      <4> QED
        BY <1>5, <3>2, <4>1
    <3> QED
      BY <3>1, <3>2
  <2>2. h = [n \in 0..Len(l) |-> IF n = 0 THEN l ELSE Step(h[n - 1], n)]
    BY <2>1
  <2> HIDE DEF h
  <2> QED
    BY <2>2 DEF CollectLoop, Step
<1> DEFINE c == CHOOSE r : CollectLoop(r, l, gone)
<1>7. CollectLoop(c, l, gone)
  BY <1>6
<1>8. RemoveCollected(l, gone) = c[Len(l)]
  BY DEF RemoveCollected, CollectLoop
<1> HIDE DEF c
<1> QED
  BY <1>7, <1>8

(* After the last n indices: those in front of them hold what they held, and  *)
(* only peers of `gone` among the last n are missing.                         *)
Collected(s, l, gone, n) ==
  /\ s \in Seq(Peers) /\ Distinct(s)
  /\ Len(s) >= Len(l) - n
  /\ \A i \in 1..(Len(l) - n) : s[i] = l[i]
  /\ ToSet(s) = ToSet(l) \ {p \in gone : \E i \in (Len(l) - n + 1)..Len(l) : l[i] = p}

LEMMA CollectStep ==
  ASSUME NEW l \in Seq(Peers), Distinct(l), NEW gone, NEW n \in Nat, n < Len(l), NEW s,
         Collected(s, l, gone, n)
  PROVE  Collected(IF l[Len(l) - n] \in gone THEN SwapRemove(s, Len(l) - n) ELSE s,
                   l, gone, n + 1)
<1> DEFINE m == Len(l) - n
           Gone(k) == {p \in gone : \E i \in k..Len(l) : l[i] = p}
<1>0. /\ Len(l) \in Nat /\ Len(s) \in Nat /\ m \in Nat \ {0} /\ Len(l) - (n + 1) = m - 1
      /\ Len(l) - (n + 1) + 1 = m /\ m <= Len(s) /\ m <= Len(l)
      /\ s \in Seq(Peers) /\ Distinct(s)
      /\ \A i \in 1..m : s[i] = l[i]
      /\ ToSet(s) = ToSet(l) \ Gone(m + 1)
  BY ListElements DEF Collected
<1>a. Len(l) \in Nat /\ Len(s) \in Nat /\ m \in Nat \ {0} /\ m <= Len(s) /\ m <= Len(l)
  BY <1>0
<1>b. Len(l) - n = m
  OBVIOUS
<1> HIDE DEF m
<1>1. \A i : i \in m..Len(l) <=> i = m \/ i \in (m + 1)..Len(l)
  BY <1>a
<1>2. CASE l[m] \in gone
  <2> DEFINE q == SwapRemove(s, m)
  <2>1. m \in 1..Len(s) /\ m \in 1..m
    BY <1>a
  <2>2. /\ q \in Seq(Peers) /\ Distinct(q)
        /\ Len(q) = Len(s) - 1
        /\ \A k \in 1..(Len(s) - 1) : q[k] = IF k = m THEN s[Len(s)] ELSE s[k]
        /\ ToSet(q) = ToSet(s) \ {s[m]}
    BY <1>0, <2>1, SwapRemoveAt
  <2>3. s[m] = l[m]
    BY <1>0, <2>1
  <2>4. Gone(m) = Gone(m + 1) \cup {l[m]}
    BY <1>1, <1>2
  <2>5. ToSet(q) = ToSet(l) \ Gone(m)
    <3> HIDE DEF q, Gone
    <3> QED
      BY <1>0, <2>2, <2>3, <2>4
  <2> HIDE DEF q
  <2>6. ASSUME NEW i \in 1..(m - 1) PROVE q[i] = l[i]
    <3>1. i \in 1..(Len(s) - 1) /\ i # m /\ i \in 1..m
      BY <1>a
    <3> QED
      BY <1>0, <2>2, <3>1
  <2>7. Len(q) >= m - 1
    <3>1. Len(q) = Len(s) - 1
      BY <2>2
    <3> QED
      BY <1>a, <3>1
  <2>8. Collected(q, l, gone, n + 1)
    BY <1>0, <2>2, <2>5, <2>6, <2>7 DEF Collected
  <2> QED
    BY <1>2, <1>b, <2>8 DEF q
<1>3. CASE l[m] \notin gone
  <2>1. Gone(m) = Gone(m + 1)
    BY <1>1, <1>3
  <2>2. ASSUME NEW i \in 1..(m - 1) PROVE s[i] = l[i]
    <3>1. i \in 1..m
      BY <1>a
    <3> QED
      BY <1>0, <3>1
  <2>3. Len(s) >= m - 1
    BY <1>a
  <2>4. Collected(s, l, gone, n + 1)
    <3>1. ToSet(s) = ToSet(l) \ Gone(m)
      BY <1>0, <2>1
    <3> QED
      BY <1>0, <2>2, <2>3, <3>1 DEF Collected
  <2> QED
    BY <1>3, <1>b, <2>4
<1> QED
  BY <1>2, <1>3

(* Removing collected indices from the last to the first removes exactly      *)
(* `gone`: an index still to be removed holds what it held when collected.    *)
LEMMA CollectLists ==
  ASSUME NEW l, NEW S, Lists(l, S), NEW gone
  PROVE  Lists(RemoveCollected(l, gone), S \ gone)
<1>0. l \in Seq(Peers) /\ Len(l) \in Nat /\ Distinct(l) /\ ToSet(l) = S /\ S = {l[i] : i \in 1..Len(l)}
  BY ListElements DEF Lists
<1>1. PICK r : CollectLoop(r, l, gone) /\ RemoveCollected(l, gone) = r[Len(l)]
  BY <1>0, CollectRuns
<1> DEFINE T == {n \in Nat : n <= Len(l) => Collected(r[n], l, gone, n)}
<1>2. 0 \in T
  <2>1. r[0] = l
    BY <1>0, <1>1 DEF CollectLoop
  <2>2. Collected(l, l, gone, 0)
    BY <1>0 DEF Collected
  <2> QED
    BY <2>1, <2>2
<1>3. ASSUME NEW n \in T PROVE n + 1 \in T
  <2> SUFFICES ASSUME n + 1 <= Len(l) PROVE Collected(r[n + 1], l, gone, n + 1)
    OBVIOUS
  <2>1. n \in Nat /\ n < Len(l) /\ Collected(r[n], l, gone, n) /\ n + 1 \in 0..Len(l)
    BY <1>0
  <2>2. r[n + 1] = IF l[Len(l) - n] \in gone THEN SwapRemove(r[n], Len(l) - n) ELSE r[n]
    <3>1. n + 1 # 0 /\ (n + 1) - 1 = n /\ Len(l) - (n + 1) + 1 = Len(l) - n
      BY <1>0, <2>1
    <3> QED
      BY <1>1, <2>1, <3>1 DEF CollectLoop
  <2> QED
    BY <1>0, <2>1, <2>2, CollectStep
<1>4. T = Nat
  <2>1. T \subseteq Nat
    OBVIOUS
  <2> HIDE DEF T
  <2> QED
    BY <1>2, <1>3, <2>1, Induction
<1>5. Collected(r[Len(l)], l, gone, Len(l))
  <2>1. Len(l) \in T
    BY <1>0, <1>4
  <2> QED
    BY <1>0, <2>1
<1>6. Len(l) - Len(l) + 1 = 1
  BY <1>0
<1>7. ToSet(r[Len(l)]) = S \ gone
  BY <1>0, <1>5, <1>6 DEF Collected
<1> QED
  BY <1>1, <1>5, <1>7 DEF Lists, Collected

-----------------------------------------------------------------------------
(* Every step with the Vec is a step of the table *)

LEMMA VecStepIsTableStep == [VecNext]_vecVars => [Next]_vars
<1>1. ASSUME NEW tried \in SUBSET Established(sessions), NEW accepted \in SUBSET tried,
             VecDrain(tried, accepted) \/ VecTunWriteFails(tried, accepted)
      PROVE  Next
  <2>1. tried \in SUBSET Peers
    BY DEF Established
  <2>2. Drain(tried, accepted) \/ TunWriteFails(tried, accepted)
    BY <1>1 DEF VecDrain, VecTunWriteFails
  <2> QED
    BY <2>1, <2>2 DEF Next, DecryptNext
<1>2. CASE VecDedupe
  <2>1. Dedupe(Replaced) /\ Replaced \in SUBSET Peers
    BY <1>2 DEF VecDedupe, Dedupe, Authenticated
  <2> HIDE DEF Replaced
  <2> QED
    BY <2>1 DEF Next, DecryptNext
<1>3. ASSUME NEW p \in Peers,
             VecKnownPeer(p) \/ VecBanPeer(p) \/ VecAdmitPeer(p) \/ VecAcceptorFails(p)
      PROVE  Next
  <2>1. CASE VecKnownPeer(p) \/ VecBanPeer(p)
    BY <2>1 DEF VecKnownPeer, VecBanPeer, Next, DecryptNext
  <2>2. CASE VecAdmitPeer(p) \/ VecAcceptorFails(p)
    <3>1. AdmitPeer(p, Oldest) \/ AcceptorFails(p, Oldest)
      BY <2>2 DEF VecAdmitPeer, VecAcceptorFails
    <3>2. Oldest \in SUBSET Peers
      BY <3>1 DEF AdmitPeer, AcceptorFails, Admissible, Pending
    <3> HIDE DEF Oldest
    <3> QED
      BY <3>1, <3>2 DEF Next, DecryptNext
  <2> QED
    BY <1>3, <2>1, <2>2
<1>4. ASSUME NEW gone \in SUBSET Live(sessions), VecUdpWriteError(gone)
      PROVE  Next
  <2>1. gone \in SUBSET Peers
    BY DEF Live
  <2> QED
    BY <1>4, <2>1 DEF VecUdpWriteError, Next
<1>5. ASSUME NEW kicked \in SUBSET Addresses, NEW failed \in SUBSET Pending(sessions),
             NEW expired \in SUBSET Live(sessions), NEW reload \in BOOLEAN,
             VecTick(kicked, failed, expired, reload)
      PROVE  Next
  <2>1. failed \in SUBSET Peers /\ expired \in SUBSET Peers
    BY DEF Live, Pending
  <2>2. Tick(kicked, failed, expired, reload)
    BY <1>5 DEF VecTick
  <2> QED
    BY <2>1, <2>2 DEF Next, ControlNext
<1>6. CASE VecFilterSessions
  BY <1>6 DEF VecFilterSessions, Next, ControlNext, ReloadNext
<1>7. CASE VecOther
  BY <1>7 DEF VecOther, Next, DecryptNext, ControlNext, ReloadNext
<1>8. CASE UNCHANGED vecVars
  BY <1>8 DEF vecVars, vars
<1> QED
  BY <1>1, <1>2, <1>3, <1>4, <1>5, <1>6, <1>7, <1>8 DEF VecNext

(* Whatever the order of the Vec decides, the table behaves as SessionTable   *)
(* says: the Vec<Session> implements the table found by peer.                 *)
THEOREM VecImplementsTable == VecSpec => Spec
<1>1. VecInit => Init
  BY DEF VecInit
<1> QED
  BY <1>1, VecStepIsTableStep, PTL DEF VecSpec, Spec

(* So the Vec inherits what holds of the table: at most one active session of *)
(* an address, and the limits on clients, handshakes and sessions.            *)
THEOREM VecKeepsLimits ==
  VecSpec => [](TypeOK /\ AtMostOneActive /\ ClientsWithinLimit /\ TableBounded)
  BY VecImplementsTable, TypeCorrect, OneActive, ClientLimit, TableLimit, PTL

-----------------------------------------------------------------------------
(* The Vec lists the table *)

VecInv ==
  /\ Lists(order, Live(sessions))
  /\ Lists(arrivals, Pending(sessions))

LEMMA VecInitInv == VecInit => VecInv
<1> SUFFICES ASSUME VecInit PROVE VecInv
  OBVIOUS
<1>1. Live(sessions) = {} /\ Pending(sessions) = {}
  BY DEF VecInit, Init, Live, Pending, NoSession, Fresh
<1>2. Lists(<<>>, {})
  BY EmptySeq DEF Lists, Distinct, ToSet
<1> QED
  BY <1>1, <1>2 DEF VecInv, VecInit

(* The order of arrivals when no session is created ... *)
LEMMA RecordNone ==
  ASSUME Lists(arrivals, Pending(sessions)), Record(<<>>),
         Pending(sessions') \subseteq Pending(sessions)
  PROVE  Lists(arrivals', Pending(sessions'))
<1>1. arrivals \o <<>> = arrivals
  BY ConcatEmptySeq DEF Lists
<1>2. arrivals' = RetainOnly(arrivals, Pending(sessions'))
  BY <1>1 DEF Record
<1>3. Pending(sessions) \cap Pending(sessions') = Pending(sessions')
  OBVIOUS
<1> QED
  BY <1>2, <1>3, RetainLists

(* ... and when one is. *)
LEMMA RecordNew ==
  ASSUME Lists(arrivals, Pending(sessions)), NEW p \in Peers \ Pending(sessions),
         Record(<<p>>), Pending(sessions') \subseteq Pending(sessions) \cup {p}
  PROVE  Lists(arrivals', Pending(sessions'))
<1>1. arrivals \o <<p>> = Append(arrivals, p)
  BY AppendIsConcat DEF Lists
<1>2. arrivals' = RetainOnly(Append(arrivals, p), Pending(sessions'))
  BY <1>1 DEF Record
<1>3. Lists(Append(arrivals, p), Pending(sessions) \cup {p})
  BY AppendList
<1>4. (Pending(sessions) \cup {p}) \cap Pending(sessions') = Pending(sessions')
  OBVIOUS
<1> QED
  BY <1>2, <1>3, <1>4, RetainLists

(* retain and the scan, told which sessions stay live. *)
LEMMA RetainLive ==
  ASSUME Lists(order, Live(sessions)), Live(sessions') \subseteq Live(sessions)
  PROVE  Lists(RetainOnly(order, Live(sessions')), Live(sessions'))
<1>1. Live(sessions) \cap Live(sessions') = Live(sessions')
  OBVIOUS
<1> QED
  BY <1>1, RetainLists

(* A table without `gone`. *)
LEMMA WithoutSets ==
  ASSUME NEW t, NEW gone
  PROVE  /\ Live(Without(t, gone)) = Live(t) \ gone
         /\ Pending(Without(t, gone)) = Pending(t) \ gone
  BY DEF Live, Pending, Without, NoSession, Fresh

(* Reading records authenticates sessions and leaves them where they are. *)
LEMMA ReadSets ==
  ASSUME TypeOK, NEW tried, NEW accepted, ReadRecords(tried, accepted)
  PROVE  Live(sessions') = Live(sessions) /\ Pending(sessions') = Pending(sessions)
<1>1. ASSUME NEW p \in Peers
      PROVE  (sessions'[p].status # "absent" <=> sessions[p].status # "absent")
             /\ (sessions'[p].status = "pending" <=> sessions[p].status = "pending")
  <2>1. CASE p \in tried
    <3>1. sessions[p].status \in {"established", "authenticated"} /\ sessions[p] \in Session
      BY <2>1 DEF ReadRecords, Established, TypeOK
    <3>2. sessions'[p].status = IF p \in accepted THEN "authenticated" ELSE sessions[p].status
      BY <2>1, <3>1 DEF ReadRecords, Session
    <3> QED
      BY <3>1, <3>2
  <2>2. CASE p \notin tried
    BY <2>2 DEF ReadRecords
  <2> QED
    BY <2>1, <2>2
<1> QED
  BY <1>1 DEF Live, Pending

(* A handshake step removes sessions, and makes none that was not there. *)
LEMMA HandshakeSets ==
  ASSUME TypeOK, NEW t \in [Peers -> Session], NEW p \in Pending(t), Handshake(t, p)
  PROVE  Live(sessions') \subseteq Live(t) /\ Pending(sessions') \subseteq Pending(t)
  BY HandshakeCases, ShrinkSubsets, JoinSubsets

(* The invariant after a step, from what the step leaves. *)
LEMMA VecInvNext ==
  ASSUME Lists(order', Live(sessions')), Lists(arrivals', Pending(sessions'))
  PROVE  VecInv'
  BY DEF VecInv

LEMMA DrainStep ==
  ASSUME TypeOK, VecInv, NEW tried, NEW accepted,
         VecDrain(tried, accepted) \/ VecTunWriteFails(tried, accepted)
  PROVE  VecInv'
<1>1. ReadRecords(tried, accepted) /\ order' = order /\ Record(<<>>)
  BY DEF VecDrain, VecTunWriteFails, Drain, TunWriteFails
<1>2. Live(sessions') = Live(sessions) /\ Pending(sessions') = Pending(sessions)
  BY <1>1, ReadSets
<1>3. Lists(arrivals', Pending(sessions'))
  BY <1>1, <1>2, RecordNone DEF VecInv
<1>4. Lists(order', Live(sessions'))
  BY <1>1, <1>2 DEF VecInv
<1> QED
  BY <1>3, <1>4, VecInvNext

(* The sections that retain what stays live. *)
LEMMA RetainStep ==
  ASSUME TypeOK, VecInv, NEW p, VecDedupe \/ VecBanPeer(p) \/ VecFilterSessions
  PROVE  VecInv'
<1>1. order' = RetainOnly(order, Live(sessions')) /\ Record(<<>>)
  BY DEF VecDedupe, VecBanPeer, VecFilterSessions
<1>2. \E gone : sessions' = Without(sessions, gone)
  BY Zenon DEF VecDedupe, VecBanPeer, VecFilterSessions, Dedupe, BanPeer, FilterSessions
<1>3. Live(sessions') \subseteq Live(sessions) /\ Pending(sessions') \subseteq Pending(sessions)
  BY <1>2, WithoutSets
<1>4. Lists(arrivals', Pending(sessions'))
  BY <1>1, <1>3, RecordNone DEF VecInv
<1>5. Lists(order', Live(sessions'))
  BY <1>1, <1>3, RetainLive DEF VecInv
<1> QED
  BY <1>4, <1>5, VecInvNext

LEMMA KnownPeerStep ==
  ASSUME TypeOK, VecInv, NEW p \in Peers, VecKnownPeer(p)
  PROVE  VecInv'
<1>1. /\ KnownPeer(p) /\ Record(<<>>)
      /\ order' = ScanRemove(order, Live(sessions) \ Live(sessions'))
  BY DEF VecKnownPeer
<1>2. Live(sessions') \subseteq Live(sessions) /\ Pending(sessions') \subseteq Pending(sessions)
  <2>1. CASE p \in Pending(sessions)
    BY <1>1, <2>1, HandshakeSets DEF KnownPeer, TypeOK
  <2>2. CASE p \notin Pending(sessions)
    BY <1>1, <2>2 DEF KnownPeer
  <2> QED
    BY <2>1, <2>2
<1>3. Lists(arrivals', Pending(sessions'))
  BY <1>1, <1>2, RecordNone DEF VecInv
<1>4. Live(sessions) \ (Live(sessions) \ Live(sessions')) = Live(sessions')
  BY <1>2
<1>5. Lists(order', Live(sessions'))
  <2>1. Lists(order, Live(sessions))
    BY DEF VecInv
  <2> QED
    BY <1>1, <1>4, <2>1, ScanLists
<1> QED
  BY <1>3, <1>5, VecInvNext

(* A session is created behind the ones that stay, and may go at once. *)
LEMMA AdmitPeerStep ==
  ASSUME TypeOK, VecInv, NEW p \in Peers, VecAdmitPeer(p)
  PROVE  VecInv'
<1> DEFINE t == [q \in Peers |-> IF q = p THEN Fresh("pending") ELSE Without(sessions, Oldest)[q]]
           made == (Live(sessions) \ Oldest) \cup {p}
<1>1. /\ Admissible(p, Oldest) /\ Handshake(t, p) /\ Record(<<p>>)
      /\ order' = ScanRemove(Append(ScanRemove(order, Oldest), p),
                             ({p} \cup Live(sessions)) \ (Live(sessions') \cup Oldest))
  BY DEF VecAdmitPeer, AdmitPeer
<1>2. p \notin Live(sessions) /\ p \notin Pending(sessions)
  BY <1>1 DEF Admissible, Live, Pending
<1>3. p \notin Oldest
  BY <1>1, <1>2 DEF Admissible
<1>4. t \in [Peers -> Session]
  BY AdmittedType
<1>5. p \in Pending(t) /\ Live(t) \subseteq made /\ Pending(t) \subseteq Pending(sessions) \cup {p}
  <2>1. Fresh("pending").status = "pending"
    BY DEF Fresh
  <2>2. ASSUME NEW q \in Peers \ {p}
        PROVE  (q \in Live(t) <=> q \in Live(Without(sessions, Oldest)))
               /\ (q \in Pending(t) <=> q \in Pending(Without(sessions, Oldest)))
    BY DEF Live, Pending
  <2>3. p \in Pending(t) /\ Live(t) \subseteq Peers /\ Pending(t) \subseteq Peers
    BY <2>1 DEF Live, Pending
  <2> HIDE DEF t
  <2> QED
    BY <2>2, <2>3, WithoutSets
<1> HIDE DEF t
<1>6. Live(sessions') \subseteq made /\ Pending(sessions') \subseteq Pending(sessions) \cup {p}
  <2>1. Live(sessions') \subseteq Live(t) /\ Pending(sessions') \subseteq Pending(t)
    BY <1>1, <1>4, <1>5, HandshakeSets
  <2> QED
    BY <1>5, <2>1
<1>7. Lists(arrivals', Pending(sessions'))
  BY <1>1, <1>2, <1>6, RecordNew DEF VecInv
<1>8. Lists(Append(ScanRemove(order, Oldest), p), made)
  <2>1. Lists(ScanRemove(order, Oldest), Live(sessions) \ Oldest)
    BY ScanLists DEF VecInv
  <2> HIDE DEF Oldest
  <2> QED
    BY <1>2, <2>1, AppendList
<1>9. made \ (({p} \cup Live(sessions)) \ (Live(sessions') \cup Oldest)) = Live(sessions')
  BY <1>3, <1>6
<1>10. Lists(order', Live(sessions'))
  <2> HIDE DEF made, Oldest
  <2> QED
    BY <1>1, <1>8, <1>9, ScanLists
<1> QED
  BY <1>7, <1>10, VecInvNext

LEMMA AcceptorFailsStep ==
  ASSUME TypeOK, VecInv, NEW p \in Peers, VecAcceptorFails(p)
  PROVE  VecInv'
<1>1. order' = ScanRemove(order, Oldest) /\ sessions' = Without(sessions, Oldest) /\ Record(<<>>)
  BY DEF VecAcceptorFails, AcceptorFails
<1> HIDE DEF Oldest
<1>2. /\ Live(sessions') = Live(sessions) \ Oldest
      /\ Pending(sessions') \subseteq Pending(sessions)
  BY <1>1, WithoutSets
<1>3. Lists(arrivals', Pending(sessions'))
  BY <1>1, <1>2, RecordNone DEF VecInv
<1>4. Lists(order', Live(sessions'))
  BY <1>1, <1>2, ScanLists DEF VecInv
<1> QED
  BY <1>3, <1>4, VecInvNext

LEMMA UdpWriteErrorStep ==
  ASSUME TypeOK, VecInv, NEW gone, VecUdpWriteError(gone)
  PROVE  VecInv'
<1>1. order' = RemoveCollected(order, gone) /\ sessions' = Without(sessions, gone) /\ Record(<<>>)
  BY DEF VecUdpWriteError, UdpWriteError
<1>2. /\ Live(sessions') = Live(sessions) \ gone
      /\ Pending(sessions') \subseteq Pending(sessions)
  BY <1>1, WithoutSets
<1>3. Lists(arrivals', Pending(sessions'))
  BY <1>1, <1>2, RecordNone DEF VecInv
<1>4. Lists(order', Live(sessions'))
  BY <1>1, <1>2, CollectLists DEF VecInv
<1> QED
  BY <1>3, <1>4, VecInvNext

(* Three passes over the Vec remove what the section removes from the table. *)
LEMMA TickStep ==
  ASSUME TypeOK, VecInv, NEW kicked, NEW failed, NEW expired, NEW reload,
         VecTick(kicked, failed, expired, reload)
  PROVE  VecInv'
<1> DEFINE kick == {p \in Established(sessions) : sessions[p].address \in kicked}
           stay == {p \in Live(sessions) :
                      ~(p \in Established(sessions) /\ sessions[p].address \in kicked)}
           gone == kick \cup failed \cup expired
<1>1. /\ order' = RetainOnly(ScanRemove(RetainOnly(order, stay), failed), Peers \ expired)
      /\ sessions' = Without(sessions, gone) /\ Record(<<>>)
  BY DEF VecTick, Tick
<1>2. Live(sessions) \cap stay = stay /\ stay = Live(sessions) \ kick /\ Live(sessions) \subseteq Peers
  BY DEF Live
<1>3. /\ Live(sessions') = Live(sessions) \ gone
      /\ Pending(sessions') \subseteq Pending(sessions)
  BY <1>1, WithoutSets
<1>4. ((stay \ failed) \cap (Peers \ expired)) = Live(sessions')
  <2> HIDE DEF stay, kick
  <2> QED
    BY <1>2, <1>3
<1>5. Lists(arrivals', Pending(sessions'))
  BY <1>1, <1>3, RecordNone DEF VecInv
<1>6. Lists(order', Live(sessions'))
  <2> HIDE DEF stay
  <2>1. Lists(RetainOnly(order, stay), stay)
    <3>1. Lists(order, Live(sessions))
      BY DEF VecInv
    <3> QED
      BY <1>2, <3>1, RetainLists
  <2>2. Lists(ScanRemove(RetainOnly(order, stay), failed), stay \ failed)
    BY <2>1, ScanLists
  <2>3. Lists(RetainOnly(ScanRemove(RetainOnly(order, stay), failed), Peers \ expired),
              (stay \ failed) \cap (Peers \ expired))
    BY <2>2, RetainLists
  <2> QED
    BY <1>1, <1>4, <2>3
<1> QED
  BY <1>5, <1>6, VecInvNext

(* Steps that leave the table leave the Vec. *)
LEMMA OtherStep ==
  ASSUME VecInv, VecOther \/ UNCHANGED vecVars
  PROVE  VecInv'
<1>1. UNCHANGED <<sessions, order, arrivals>>
  BY DEF VecOther, vecVars, Adopt, Wake, ReceiveEmpty, RefusePeer, NoReload, ParseConfig,
         RejectConfig, SendReload, NotifyDecrypt, ReloadAcked, ReloadTimeout, DatagramArrives,
         DecryptStops, ControlStops, EditConfig
<1> QED
  BY <1>1 DEF VecInv, Lists, Live, Pending, Distinct

LEMMA VecInvStep == TypeOK /\ VecInv /\ [VecNext]_vecVars => VecInv'
<1> SUFFICES ASSUME TypeOK, VecInv, [VecNext]_vecVars PROVE VecInv'
  OBVIOUS
<1>1. CASE \E tried \in SUBSET Established(sessions) : \E accepted \in SUBSET tried :
             VecDrain(tried, accepted) \/ VecTunWriteFails(tried, accepted)
  BY <1>1, DrainStep
<1>2. CASE VecDedupe \/ VecFilterSessions
  BY <1>2, RetainStep
<1>3. ASSUME NEW p \in Peers,
             VecKnownPeer(p) \/ VecBanPeer(p) \/ VecAdmitPeer(p) \/ VecAcceptorFails(p)
      PROVE  VecInv'
  BY <1>3, KnownPeerStep, RetainStep, AdmitPeerStep, AcceptorFailsStep
<1>4. CASE \E gone \in SUBSET Live(sessions) : VecUdpWriteError(gone)
  BY <1>4, UdpWriteErrorStep
<1>5. CASE \E kicked \in SUBSET Addresses, failed \in SUBSET Pending(sessions),
              expired \in SUBSET Live(sessions), reload \in BOOLEAN :
             VecTick(kicked, failed, expired, reload)
  BY <1>5, TickStep
<1>6. CASE VecOther \/ UNCHANGED vecVars
  BY <1>6, OtherStep
<1> QED
  BY <1>1, <1>2, <1>3, <1>4, <1>5, <1>6 DEF VecNext

LEMMA VecInvariant == VecSpec => []VecInv
  BY VecKeepsLimits, VecInitInv, VecInvStep, PTL DEF VecSpec

(* After every section the Vec holds exactly the peers of the table, each     *)
(* once, whichever of retain, swap_remove in a scan and swap_remove of        *)
(* collected indices removed from it.                                         *)
THEOREM OrderMatchesTable == VecSpec => []OrderIsTable
<1>1. VecInv => OrderIsTable
  <2> SUFFICES ASSUME VecInv PROVE OrderIsTable
    OBVIOUS
  <2>1. Len(order) = Cardinality(Live(sessions)) /\ Len(arrivals) = Cardinality(Pending(sessions))
    BY ListCardinality DEF VecInv
  <2> QED
    BY <2>1 DEF VecInv, Lists, OrderIsTable
<1> QED
  BY <1>1, VecInvariant, PTL

-----------------------------------------------------------------------------
(* What the Vec chooses is what the table allows *)

(* The last index of a set of indices. *)
LEMMA LastIndex ==
  ASSUME NEW n \in Nat, NEW I \in SUBSET (1..n), I # {}
  PROVE  \E k \in I : \A i \in I : i <= k
<1> DEFINE T == {m \in Nat : m <= n => \A i \in I : i <= n - m}
<1> SUFFICES ASSUME \A k \in I : \E i \in I : ~(i <= k) PROVE FALSE
  OBVIOUS
<1>1. 0 \in T
  OBVIOUS
<1>2. ASSUME NEW m \in T PROVE m + 1 \in T
  <2> SUFFICES ASSUME m + 1 <= n, NEW i \in I PROVE i <= n - (m + 1)
    OBVIOUS
  <2>1. \A j \in I : j <= n - m
    OBVIOUS
  <2>2. i # n - m
    BY <2>1
  <2> QED
    BY <2>1, <2>2
<1>3. T = Nat
  <2>1. T \subseteq Nat
    OBVIOUS
  <2> HIDE DEF T
  <2> QED
    BY <1>1, <1>2, <2>1, Induction
<1>4. n \in T
  BY <1>3
<1>5. \A i \in I : i <= n - n
  BY <1>4
<1> HIDE DEF T
<1>6. PICK i \in I : TRUE
  OBVIOUS
<1>7. i \in 1..n
  OBVIOUS
<1>8. i <= n - n
  BY <1>5
<1> QED
  BY <1>7, <1>8

(* The sessions of one address the duplicate check chooses among. *)
Rivals(p) == {i \in 1..Len(order) : /\ order[i] \in Authenticated(sessions)
                                    /\ sessions[order[i]].address = sessions[p].address}

(* The order of the Vec settles every choice the table leaves open.  Of the   *)
(* authenticated sessions of an address the duplicate check keeps exactly     *)
(* one, and the session evicted for a new peer is one pending session when    *)
(* the limit is reached and none when it is not: neither section can find     *)
(* nothing to keep, or nothing to evict.                                      *)
OrderDecides ==
  /\ Replaced \subseteq Authenticated(sessions)
  /\ \A p \in Authenticated(sessions) :
       \E q \in Authenticated(sessions) \ Replaced :
         /\ sessions[q].address = sessions[p].address
         /\ \A r \in Authenticated(sessions) \ Replaced :
              sessions[r].address = sessions[p].address => r = q
  /\ IF Cardinality(Pending(sessions)) >= MaxPendingHandshakes
     THEN \E q \in Pending(sessions) : Oldest = {q}
     ELSE Oldest = {}

LEMMA LastSurvives ==
  ASSUME VecInv, NEW p \in Authenticated(sessions)
  PROVE  \E q \in Authenticated(sessions) \ Replaced :
           /\ sessions[q].address = sessions[p].address
           /\ \A r \in Authenticated(sessions) \ Replaced :
                sessions[r].address = sessions[p].address => r = q
<1>1. /\ Len(order) \in Nat
      /\ Live(sessions) = {order[i] : i \in 1..Len(order)}
      /\ \A i, j \in 1..Len(order) : order[i] = order[j] => i = j
  BY ListElements DEF VecInv, Lists, Distinct
<1>2. Authenticated(sessions) \subseteq Live(sessions)
  BY DEF Authenticated, Live
<1>3. \A r \in Authenticated(sessions) : \E i \in 1..Len(order) : order[i] = r
  BY <1>1, <1>2
<1>4. Rivals(p) \in SUBSET (1..Len(order)) /\ Rivals(p) # {}
  BY <1>3 DEF Rivals
<1>5. PICK k \in Rivals(p) : \A i \in Rivals(p) : i <= k
  BY <1>1, <1>4, LastIndex
<1>6. k \in 1..Len(order) /\ order[k] \in Authenticated(sessions)
      /\ sessions[order[k]].address = sessions[p].address
  BY <1>5 DEF Rivals
<1>7. order[k] \notin Replaced
  <2> SUFFICES ASSUME order[k] \in Replaced PROVE FALSE
    OBVIOUS
  <2>1. PICK i \in 1..Len(order) :
          /\ order[k] = order[i]
          /\ \E j \in (i + 1)..Len(order) :
               /\ order[j] \in Authenticated(sessions)
               /\ sessions[order[j]].address = sessions[order[i]].address
    BY DEF Replaced
  <2>2. i = k
    BY <1>1, <1>6, <2>1
  <2>3. PICK j \in (k + 1)..Len(order) :
               /\ order[j] \in Authenticated(sessions)
               /\ sessions[order[j]].address = sessions[order[k]].address
    BY <2>1, <2>2
  <2>4. j \in 1..Len(order) /\ ~(j <= k)
    BY <1>1, <1>6
  <2>5. j \in Rivals(p)
    BY <1>6, <2>3, <2>4 DEF Rivals
  <2> QED
    BY <1>5, <2>4, <2>5
<1>8. ASSUME NEW r \in Authenticated(sessions) \ Replaced,
             sessions[r].address = sessions[p].address
      PROVE  r = order[k]
  <2>1. PICK i \in 1..Len(order) : order[i] = r
    BY <1>3
  <2>2. i \in Rivals(p)
    BY <1>8, <2>1 DEF Rivals
  <2>3. i = k \/ k \in (i + 1)..Len(order)
    BY <1>1, <1>5, <1>6, <2>2
  <2>4. CASE k \in (i + 1)..Len(order)
    <3>1. order[i] \in Replaced
      BY <1>6, <1>8, <2>1, <2>4 DEF Replaced
    <3> QED
      BY <2>1, <3>1
  <2> QED
    BY <2>1, <2>3, <2>4
<1> QED
  BY <1>6, <1>7, <1>8

LEMMA FirstEvicted ==
  ASSUME VecInv
  PROVE  IF Cardinality(Pending(sessions)) >= MaxPendingHandshakes
         THEN \E q \in Pending(sessions) : Oldest = {q}
         ELSE Oldest = {}
<1>1. Len(arrivals) = Cardinality(Pending(sessions)) /\ Len(arrivals) \in Nat
  BY ListCardinality, ListElements DEF VecInv, Lists
<1>2. CASE Len(arrivals) >= MaxPendingHandshakes
  <2>1. arrivals \in Seq(Peers) /\ Pending(sessions) = {arrivals[i] : i \in 1..Len(arrivals)}
    BY ListElements DEF VecInv, Lists
  <2>2. MaxPendingHandshakes \in Nat /\ MaxPendingHandshakes >= 1
    BY LimitsAssumption
  <2>3. Len(arrivals) >= 1
    BY <1>1, <1>2, <2>2
  <2>4. 1 \in 1..Len(arrivals)
    BY <1>1, <2>3
  <2>5. Head(arrivals) = arrivals[1]
    BY <2>1
  <2>6. arrivals[1] \in Pending(sessions) /\ Oldest = {arrivals[1]}
    BY <1>2, <2>1, <2>4, <2>5 DEF Oldest
  <2> QED
    BY <1>1, <1>2, <2>6
<1>3. CASE ~(Len(arrivals) >= MaxPendingHandshakes)
  BY <1>1, <1>3 DEF Oldest
<1> QED
  BY <1>2, <1>3

(* The guards of Dedupe and of Admissible never refuse what the order of the  *)
(* Vec decides: where the table may remove duplicates or admit a peer, the    *)
(* Vec has a session to keep and, at the limit, one to evict.                 *)
THEOREM OrderAlwaysDecides == VecSpec => []OrderDecides
<1>1. VecInv => OrderDecides
  <2> SUFFICES ASSUME VecInv PROVE OrderDecides
    OBVIOUS
  <2>1. Replaced \subseteq Authenticated(sessions)
    BY DEF Replaced
  <2> HIDE DEF Replaced, Oldest
  <2> QED
    BY <2>1, LastSurvives, FirstEvicted DEF OrderDecides
<1> QED
  BY <1>1, VecInvariant, PTL
=============================================================================
