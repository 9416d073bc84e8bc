----------------------- MODULE StandardProposerProofs -----------------------
(***************************************************************************)
(* What the operations of StandardProposer and EvProposer keep, for every  *)
(* set of proposers, instances and values and every bound on ballots: the  *)
(* queues of the value manager lose no value, the loops over instances end *)
(* in states that satisfy what each round preserves, the ballots of an     *)
(* instance only grow and carry one value each, and a value is proposed    *)
(* for a reason the promises give.                                         *)
(*                                                                         *)
(* The facts are stated of one proposer's record s, the set M of messages  *)
(* sent and the set R of prepares its timers hold, so that every module    *)
(* that composes proposers with peers can use them.  V is what an instance *)
(* may come to hold.                                                       *)
(***************************************************************************)
EXTENDS EvProposer, PaxosLemmas, FiniteSetTheorems

(* The states f of a loop of n rounds on T that starts from x and takes    *)
(* step g[k] in round k.                                                   *)
Rounds(f, T, x, n, g) ==
  /\ f \in [0 .. n -> T]
  /\ f[0] = x
  /\ \A k \in 1 .. n : f[k] = g[k][f[k - 1]]

(* A loop whose steps stay in T can be run.                                *)
LEMMA Iterates ==
  ASSUME NEW T, NEW x \in T, NEW n \in Nat, NEW g,
         \A k \in 1 .. n, t \in T : g[k][t] \in T
  PROVE  \E f : Rounds(f, T, x, n, g)
<1> DEFINE P(m) == \E f \in [0 .. m -> T] :
                     f[0] = x /\ \A k \in 1 .. m : f[k] = g[k][f[k - 1]]
           S == {m \in 0 .. n : ~ P(m)}
<1>1. P(0)
  <2> DEFINE f == [k \in 0 .. 0 |-> x]
  <2>1. f \in [0 .. 0 -> T] /\ f[0] = x /\ \A k \in 1 .. 0 : f[k] = g[k][f[k - 1]]
    BY SMT
  <2> QED  BY Zenon, <2>1
<1>2. ASSUME NEW m \in Nat, m + 1 <= n, P(m)  PROVE P(m + 1)
  <2>1. PICK f \in [0 .. m -> T] : f[0] = x /\ \A k \in 1 .. m : f[k] = g[k][f[k - 1]]
    BY Zenon, <1>2
  <2> DEFINE y == g[m + 1][f[m]]
             h == [k \in 0 .. (m + 1) |-> IF k = m + 1 THEN y ELSE f[k]]
  <2>2. m + 1 \in 1 .. n /\ m \in 0 .. m
    BY SMT, <1>2
  <2>3. y \in T
    BY Zenon, <2>2
  <2> HIDE DEF y
  <2>4. h \in [0 .. (m + 1) -> T] /\ h[0] = x
    BY SMT, <2>1, <2>3
  <2>5. ASSUME NEW k \in 1 .. (m + 1)  PROVE h[k] = g[k][h[k - 1]]
    <3>1. CASE k = m + 1
      <4>1. h[k] = y /\ h[k - 1] = f[m]
        BY SMT, <3>1
      <4> QED  BY Zenon, <3>1, <4>1 DEF y
    <3>2. CASE k # m + 1
      <4>1. k \in 1 .. m /\ h[k] = f[k] /\ h[k - 1] = f[k - 1]
        BY SMT, <3>2
      <4> QED  BY Zenon, <2>1, <4>1
    <3> QED  BY Zenon, <3>1, <3>2
  <2> QED  BY Zenon, <2>4, <2>5
<1>3. ASSUME S # {}  PROVE FALSE
  <2> HIDE DEF P
  <2>1. S \subseteq Nat
    BY SMT
  <2>2. PICK m \in S : \A k \in S : m <= k
    BY Zenon, <1>3, <2>1, LeastNatural
  <2>3. CASE m = 0
    BY Zenon, <2>2, <2>3, <1>1
  <2>4. CASE m # 0
    <3>1. m - 1 \in 0 .. n /\ m - 1 \in Nat /\ (m - 1) + 1 = m /\ m <= n /\ ~ (m <= m - 1)
      BY SMT, <2>2, <2>4
    <3>2. P(m - 1)
      BY Zenon, <2>2, <3>1
    <3>3. P((m - 1) + 1)
      BY Zenon, <3>1, <3>2, <1>2
    <3> QED  BY Zenon, <2>2, <3>1, <3>3
  <2> QED  BY Zenon, <2>3, <2>4
<1>4. n \in 0 .. n
  BY SMT
<1> HIDE DEF P
<1>5. P(n)
  BY Zenon, <1>3, <1>4
<1> QED  BY Zenon, <1>5 DEF P, Rounds

(* What holds at 0 and is passed on holds up to n.                         *)
LEMMA StaysIn ==
  ASSUME NEW T, NEW n \in Nat, NEW f, f[0] \in T,
         \A k \in 1 .. n : f[k - 1] \in T => f[k] \in T
  PROVE  f[n] \in T
<1> DEFINE S == {k \in 0 .. n : f[k] \notin T}
<1>1. ASSUME S # {}  PROVE FALSE
  <2>1. S \subseteq Nat
    BY SMT
  <2>2. PICK m \in S : \A k \in S : m <= k
    BY Zenon, <1>1, <2>1, LeastNatural
  <2>3. m # 0 /\ f[m] \notin T
    BY Zenon, <2>2
  <2>4. m \in 1 .. n /\ m - 1 \in 0 .. n /\ ~ (m <= m - 1)
    BY SMT, <2>2, <2>3
  <2>5. f[m - 1] \in T
    BY Zenon, <2>2, <2>4
  <2> QED  BY Zenon, <2>3, <2>4, <2>5
<1>2. n \in 0 .. n
  BY SMT
<1> QED  BY Zenon, <1>1, <1>2

-----------------------------------------------------------------------------
(* Appending to a queue keeps what it contains.                            *)
LEMMA AppendQueues ==
  ASSUME NEW V, NEW q \in Seq(V), NEW v \in V
  PROVE  /\ InQueue(Append(q, v), v)
         /\ \A u : InQueue(q, u) => InQueue(Append(q, v), u)
<1>1. /\ Len(Append(q, v)) = Len(q) + 1 /\ Len(q) \in Nat
      /\ Append(q, v)[Len(q) + 1] = v
      /\ \A k \in 1 .. Len(q) : Append(q, v)[k] = q[k]
  BY SMT
<1>2. Len(q) + 1 \in 1 .. (Len(q) + 1) /\ \A k \in 1 .. Len(q) : k \in 1 .. (Len(q) + 1)
  BY SMT, <1>1
<1> QED  BY Zenon, <1>1, <1>2 DEF InQueue

(* Taking a value out of a queue leaves a queue, with every other value.   *)
LEMMA WithoutKeeps ==
  ASSUME NEW V, NEW q \in Seq(V), NEW v
  PROVE  /\ Without(q, v) \in Seq(V)
         /\ \A u \in V : u # v /\ InQueue(q, u) => InQueue(Without(q, v), u)
<1> DEFINE n == Len(q)
           Step(k, r) == IF q[k] = v THEN r ELSE Append(r, q[k])
           F(f) == [k \in 0 .. n |-> IF k = 0 THEN <<>>
                      ELSE IF q[k] = v THEN f[k - 1] ELSE Append(f[k - 1], q[k])]
           kept == CHOOSE f : f = F(f)
           T == Seq(V)
           g == [k \in 1 .. n |-> [r \in T |-> Step(k, r)]]
<1>1. Without(q, v) = kept[n]
  BY Zenon DEF Without
<1>2. n \in Nat /\ <<>> \in T /\ \A k \in 1 .. n : q[k] \in V
  BY SMT
<1>3. \A k \in 1 .. n, r \in T : Step(k, r) \in T
  BY SMT, <1>2
<1>4. kept = F(kept)
  <2>1. \A k \in 1 .. n, t \in T : g[k][t] \in T
    BY Zenon, <1>3
  <2>2. PICK f : Rounds(f, T, <<>>, n, g)
    BY Zenon, <1>2, <2>1, Iterates
  <2>3. ASSUME NEW k \in 0 .. n  PROVE F(f)[k] = f[k]
    <3>1. CASE k = 0
      BY Zenon, <2>2, <3>1 DEF Rounds
    <3>2. CASE k # 0
      <4>1. k \in 1 .. n /\ k - 1 \in 0 .. n
        BY SMT, <1>2, <3>2
      <4> QED  BY Zenon, <2>2, <3>2, <4>1 DEF Rounds
    <3> QED  BY Zenon, <3>1, <3>2
  <2>4. f = [k \in 0 .. n |-> f[k]] /\ F(f) = [k \in 0 .. n |-> F(f)[k]]
    BY Zenon, <2>2 DEF Rounds
  <2>5. f = F(f)
    BY Zenon, <2>3, <2>4
  <2> QED  BY Zenon, <2>5
<1>5. kept[0] = <<>> /\ \A k \in 1 .. n : kept[k] = Step(k, kept[k - 1])
  <2> DEFINE w == kept
  <2>1. w = F(w)
    BY Zenon, <1>4
  <2> HIDE DEF w
  <2>2. w[0] = <<>>
    BY SMT, <1>2, <2>1
  <2>3. ASSUME NEW k \in 1 .. n  PROVE w[k] = Step(k, w[k - 1])
    <3>1. k \in 0 .. n /\ k # 0
      BY SMT, <1>2
    <3> QED  BY Zenon, <2>1, <3>1
  <2> QED  BY Zenon, <2>2, <2>3 DEF w
<1> HIDE DEF kept
<1>6. kept[n] \in T
  <2>1. \A k \in 1 .. n : kept[k - 1] \in T => kept[k] \in T
    BY Zenon, <1>3, <1>5
  <2> HIDE DEF T
  <2> QED  BY Zenon, <1>2, <1>5, <2>1, StaysIn
<1>7. ASSUME NEW u \in V, u # v, InQueue(q, u)  PROVE InQueue(kept[n], u)
  <2>1. PICK c \in 1 .. n : q[c] = u
    BY Zenon, <1>7 DEF InQueue
  <2> DEFINE P(k) == kept[k] \in T /\ (k >= c => InQueue(kept[k], u))
             h == [k \in 0 .. n |-> P(k)]
  <2>2. P(0)
    <3>1. ~ (0 >= c)
      BY SMT
    <3> QED  BY Zenon, <1>2, <1>5, <3>1
  <2>3. ASSUME NEW k \in 1 .. n, P(k - 1)  PROVE P(k)
    <3>1. kept[k] \in T /\ kept[k] = Step(k, kept[k - 1])
      BY Zenon, <1>3, <1>5, <2>3
    <3>2. CASE k = c
      <4>1. kept[k] = Append(kept[k - 1], u)
        BY Zenon, <1>7, <2>1, <3>1, <3>2
      <4>2. InQueue(Append(kept[k - 1], u), u)
        BY Zenon, <2>3, AppendQueues
      <4> QED  BY Zenon, <3>1, <4>1, <4>2
    <3>3. CASE k - 1 >= c
      <4>1. kept[k] = kept[k - 1] \/ kept[k] = Append(kept[k - 1], q[k])
        BY Zenon, <3>1
      <4>2. InQueue(kept[k - 1], u)
        BY Zenon, <2>3, <3>3
      <4>3. InQueue(Append(kept[k - 1], q[k]), u)
        BY Zenon, <1>2, <2>3, <4>2, AppendQueues
      <4> QED  BY Zenon, <3>1, <4>1, <4>2, <4>3
    <3>4. k >= c => k = c \/ k - 1 >= c
      BY SMT
    <3> QED  BY Zenon, <3>1, <3>2, <3>3, <3>4
  <2>4. n \in 0 .. n /\ 0 \in 0 .. n /\ \A k \in 1 .. n : k \in 0 .. n /\ k - 1 \in 0 .. n
    BY SMT, <1>2
  <2> HIDE DEF P
  <2> DEFINE U == {TRUE}
  <2>5. h[0] \in U /\ \A k \in 1 .. n : h[k - 1] \in U => h[k] \in U
    BY Zenon, <2>2, <2>3, <2>4
  <2>6. h[n] \in U
    <3> HIDE DEF h, U, n
    <3> QED  BY Zenon, <1>2, <2>5, StaysIn
  <2>7. P(n)
    BY Zenon, <2>4, <2>6
  <2>8. n >= c
    BY SMT, <1>2, <2>1
  <2> QED  BY Zenon, <2>7, <2>8 DEF P
<1> QED  BY Zenon, <1>1, <1>6, <1>7

(* A value of a queue is its head or in its tail.                          *)
LEMMA TailQueues ==
  ASSUME NEW V, NEW q \in Seq(V), q # <<>>
  PROVE  /\ Head(q) \in V /\ Tail(q) \in Seq(V)
         /\ \A u : InQueue(q, u) => u = Head(q) \/ InQueue(Tail(q), u)
<1>1. /\ Head(q) \in V /\ Tail(q) \in Seq(V) /\ Head(q) = q[1]
      /\ Len(Tail(q)) = Len(q) - 1 /\ Len(q) \in Nat
      /\ \A k \in 1 .. (Len(q) - 1) : Tail(q)[k] = q[k + 1]
  BY SMT
<1>2. ASSUME NEW u, NEW c \in 1 .. Len(q), q[c] = u
      PROVE  u = Head(q) \/ InQueue(Tail(q), u)
  <2>1. CASE c = 1
    BY Zenon, <1>1, <1>2, <2>1
  <2>2. CASE c # 1
    <3>1. c - 1 \in 1 .. (Len(q) - 1) /\ (c - 1) + 1 = c
      BY SMT, <1>1, <2>2
    <3>2. Tail(q)[c - 1] = u
      BY Zenon, <1>1, <1>2, <3>1
    <3> QED  BY Zenon, <1>1, <3>1, <3>2 DEF InQueue
  <2> QED  BY Zenon, <2>1, <2>2
<1> QED  BY Zenon, <1>1, <1>2 DEF InQueue

(* A value of either of two queues is in their concatenation.              *)
LEMMA ConcatQueues ==
  ASSUME NEW V, NEW q \in Seq(V), NEW r \in Seq(V)
  PROVE  /\ q \o r \in Seq(V)
         /\ \A u : InQueue(q, u) \/ InQueue(r, u) => InQueue(q \o r, u)
<1>1. /\ q \o r \in Seq(V) /\ Len(q) \in Nat /\ Len(r) \in Nat
      /\ Len(q \o r) = Len(q) + Len(r)
      /\ \A k \in 1 .. Len(q) : (q \o r)[k] = q[k]
  BY SMT
<1>2. ASSUME NEW k \in 1 .. Len(r)  PROVE (q \o r)[k + Len(q)] = r[k]
  BY SMT, <1>1
<1>3. /\ \A k \in 1 .. Len(q) : k \in 1 .. (Len(q) + Len(r))
      /\ \A k \in 1 .. Len(r) : k + Len(q) \in 1 .. (Len(q) + Len(r))
  BY SMT, <1>1
<1> QED  BY Zenon, <1>1, <1>2, <1>3 DEF InQueue

-----------------------------------------------------------------------------
(* The value manager, and one manager that holds every value of another.   *)
Manager(V) == [client_values_to_propose : Seq(V), values_proposed : Seq(V),
               noop : {"off", "waiting", "over"}]

Keeps(V, m, n) == \A u \in V : Outstanding(m, u) => Outstanding(n, u)

(* Closing a value keeps every other.                                      *)
LEMMA CloseKeeps ==
  ASSUME NEW V, NEW m \in Manager(V), NEW v
  PROVE  /\ CloseIfOutstanding(m, v) \in Manager(V)
         /\ \A u \in V : u # v /\ Outstanding(m, u) => Outstanding(CloseIfOutstanding(m, v), u)
<1> DEFINE q == m.client_values_to_propose
           r == m.values_proposed
<1>1. q \in Seq(V) /\ r \in Seq(V)
  BY SMT DEF Manager
<1>2. Without(q, v) \in Seq(V) /\ Without(r, v) \in Seq(V)
  BY Zenon, <1>1, WithoutKeeps
<1>3. CloseIfOutstanding(m, v) =
        [m EXCEPT !.client_values_to_propose = Without(q, v),
                  !.values_proposed = Without(r, v)]
  BY Zenon DEF CloseIfOutstanding
<1>4. /\ CloseIfOutstanding(m, v) \in Manager(V)
      /\ CloseIfOutstanding(m, v).client_values_to_propose = Without(q, v)
      /\ CloseIfOutstanding(m, v).values_proposed = Without(r, v)
  <2> DEFINE n == CloseIfOutstanding(m, v)
  <2>1. n = [m EXCEPT !.client_values_to_propose = Without(q, v),
                      !.values_proposed = Without(r, v)]
    BY Zenon, <1>3
  <2> HIDE DEF n
  <2>2. n \in Manager(V)
    BY Zenon, <1>2, <2>1 DEF Manager
  <2>3. n.client_values_to_propose = Without(q, v) /\ n.values_proposed = Without(r, v)
    BY SMT, <2>1 DEF Manager
  <2> QED  BY Zenon, <2>2, <2>3 DEF n
<1>5. ASSUME NEW u \in V, u # v, Outstanding(m, u)
      PROVE  InQueue(Without(q, v), u) \/ InQueue(Without(r, v), u)
  BY Zenon, <1>1, <1>5, WithoutKeeps DEF Outstanding
<1> QED  BY Zenon, <1>4, <1>5 DEF Outstanding

(* Putting a value back keeps every value, that one included.              *)
LEMMA RequeueKeeps ==
  ASSUME NEW V, NEW m \in Manager(V), NEW v \in V
  PROVE  CheckAndRequeue(m, v) \in Manager(V) /\ Keeps(V, m, CheckAndRequeue(m, v))
<1> DEFINE found(s) == IF InQueue(s, v) THEN <<v>> ELSE <<>>
           q == m.client_values_to_propose
           r == m.values_proposed
           n == CheckAndRequeue(m, v)
           front == found(q) \o found(r)
<1>1. q \in Seq(V) /\ r \in Seq(V)
  BY SMT DEF Manager
<1>2. Without(q, v) \in Seq(V) /\ Without(r, v) \in Seq(V)
  BY Zenon, <1>1, WithoutKeeps
<1>3. /\ found(q) \in Seq(V) /\ (InQueue(q, v) => InQueue(found(q), v))
      /\ found(r) \in Seq(V) /\ (InQueue(r, v) => InQueue(found(r), v))
  <2>1. <<v>> \in Seq(V) /\ <<>> \in Seq(V) /\ Len(<<v>>) = 1 /\ <<v>>[1] = v /\ 1 \in 1 .. 1
    BY SMT
  <2> QED  BY Zenon, <2>1 DEF InQueue
<1> HIDE DEF found
<1>4. /\ front \in Seq(V)
      /\ InQueue(q, v) \/ InQueue(r, v) => InQueue(front, v)
  BY Zenon, <1>3, ConcatQueues
<1>5. n = [m EXCEPT !.client_values_to_propose = front \o Without(q, v),
                    !.values_proposed = Without(r, v)]
  BY Zenon DEF CheckAndRequeue, found
<1> HIDE DEF front
<1>6. /\ front \o Without(q, v) \in Seq(V)
      /\ \A u : InQueue(front, u) \/ InQueue(Without(q, v), u)
                => InQueue(front \o Without(q, v), u)
  BY Zenon, <1>2, <1>4, ConcatQueues
<1>7. /\ n \in Manager(V)
      /\ n.client_values_to_propose = front \o Without(q, v)
      /\ n.values_proposed = Without(r, v)
  <2> HIDE DEF n
  <2>2. n \in Manager(V)
    BY Zenon, <1>2, <1>5, <1>6 DEF Manager
  <2>3. n.client_values_to_propose = front \o Without(q, v) /\ n.values_proposed = Without(r, v)
    BY SMT, <1>5 DEF Manager
  <2> QED  BY Zenon, <2>2, <2>3
<1> HIDE DEF q, r, n
<1>8. ASSUME NEW u \in V, InQueue(q, u) \/ InQueue(r, u)
      PROVE  InQueue(front \o Without(q, v), u) \/ InQueue(Without(r, v), u)
  <2>1. CASE u = v
    BY Zenon, <1>4, <1>6, <1>8, <2>1
  <2>2. CASE u # v
    BY Zenon, <1>1, <1>6, <1>8, <2>2, WithoutKeeps
  <2> QED  BY Zenon, <2>1, <2>2
<1> QED  BY Zenon, <1>7, <1>8 DEF Keeps, Outstanding, q, r, n

(* The next value is one the manager holds, NOP or what the caller's       *)
(* buffer held, and the manager loses none.                                *)
LEMMA NextKeeps ==
  ASSUME NEW V, NOP \in V, GARBAGE \in V, NEW m \in Manager(V),
         NEW is_holes, NEW undefined \in BOOLEAN
  PROVE  LET next == GetNext(m, is_holes, undefined) IN
         /\ next.value \in V
         /\ next.manager \in Manager(V)
         /\ Keeps(V, m, next.manager)
<1> DEFINE q == m.client_values_to_propose
           r == m.values_proposed
           next == GetNext(m, is_holes, undefined)
           Good(n) == n.value \in V /\ n.manager \in Manager(V) /\ Keeps(V, m, n.manager)
<1> SUFFICES Good(next)
  BY Zenon
<1>0. q \in Seq(V) /\ r \in Seq(V)
  BY SMT DEF Manager
<1>1. CASE q # <<>>
  <2> DEFINE h == Head(q)
             t == Tail(q)
             n == [client_values_to_propose |-> t, values_proposed |-> Append(r, h),
                   noop |-> "off"]
  <2>1. next = [ok |-> TRUE, value |-> h, manager |-> n]
    BY Zenon, <1>1 DEF GetNext
  <2>2. /\ h \in V /\ t \in Seq(V)
        /\ \A u : InQueue(q, u) => u = h \/ InQueue(t, u)
    BY Zenon, <1>0, <1>1, TailQueues
  <2> HIDE DEF h, t
  <2>3. Append(r, h) \in Seq(V)
    BY SMT, <1>0, <2>2
  <2>4. /\ InQueue(Append(r, h), h)
        /\ \A u : InQueue(r, u) => InQueue(Append(r, h), u)
    BY Zenon, <1>0, <2>2, AppendQueues
  <2>5. n \in Manager(V)
    BY Zenon, <2>2, <2>3 DEF Manager
  <2>6. Keeps(V, m, n)
    BY Zenon, <2>2, <2>4 DEF Keeps, Outstanding
  <2> HIDE DEF n, next
  <2>7. next.value = h /\ next.manager = n
    BY SMT, <2>1
  <2> QED  BY Zenon, <2>2, <2>5, <2>6, <2>7
<1>2. CASE q = <<>> /\ r # <<>> /\ ReproposeValues
  <2> DEFINE h == Head(r)
             t == Tail(r)
             n == [m EXCEPT !.values_proposed = Append(t, h), !.noop = "off"]
  <2>1. next = [ok |-> TRUE, value |-> h, manager |-> n]
    BY Zenon, <1>2 DEF GetNext
  <2>2. /\ h \in V /\ t \in Seq(V)
        /\ \A u : InQueue(r, u) => u = h \/ InQueue(t, u)
    BY Zenon, <1>0, <1>2, TailQueues
  <2> HIDE DEF h, t
  <2>3. Append(t, h) \in Seq(V)
    BY SMT, <2>2
  <2>4. /\ InQueue(Append(t, h), h)
        /\ \A u : InQueue(t, u) => InQueue(Append(t, h), u)
    BY Zenon, <2>2, AppendQueues
  <2>5. n \in Manager(V)
    BY Zenon, <2>3 DEF Manager
  <2>6. n.client_values_to_propose = q /\ n.values_proposed = Append(t, h)
    BY SMT DEF Manager
  <2> HIDE DEF n
  <2>7. Keeps(V, m, n)
    BY Zenon, <2>2, <2>4, <2>6 DEF Keeps, Outstanding
  <2> HIDE DEF next
  <2>8. next.value = h /\ next.manager = n
    BY SMT, <2>1
  <2> QED  BY Zenon, <2>2, <2>5, <2>7, <2>8
<1>3. CASE ~ (q # <<>>) /\ ~ (q = <<>> /\ r # <<>> /\ ReproposeValues)
  <2> DEFINE off == [m EXCEPT !.noop = "off"]
             waiting == [m EXCEPT !.noop = "waiting"]
  <2>1. \/ next = [ok |-> FALSE, value |-> GARBAGE, manager |-> off]
        \/ next = [ok |-> TRUE, value |-> NOP, manager |-> waiting]
        \/ next = [ok |-> undefined, value |-> GARBAGE, manager |-> waiting]
    BY Zenon, <1>3 DEF GetNext
  <2>2. /\ off \in Manager(V) /\ waiting \in Manager(V)
        /\ off.client_values_to_propose = q /\ off.values_proposed = r
        /\ waiting.client_values_to_propose = q /\ waiting.values_proposed = r
    BY SMT DEF Manager
  <2> HIDE DEF off, waiting
  <2>3. Keeps(V, m, off) /\ Keeps(V, m, waiting)
    BY Zenon, <2>2 DEF Keeps, Outstanding
  <2> HIDE DEF next
  <2>4. next.value \in {NOP, GARBAGE} /\ next.manager \in {off, waiting}
    BY SMT, <2>1
  <2> QED  BY Zenon, <2>2, <2>3, <2>4
<1> QED  BY Zenon, <1>1, <1>2, <1>3

(* Giving back the values of instances keeps every value.                  *)
LEMMA RequeueAllKeeps ==
  ASSUME NEW V, NEW m \in Manager(V), NEW phase, NEW is, NEW iid \in Nat,
         \A i \in is : phase[i].proposing_value \in V
  PROVE  /\ RequeueAll(m, phase, is, iid) \in Manager(V)
         /\ Keeps(V, m, RequeueAll(m, phase, is, iid))
<1> DEFINE Step(k, n) == IF k \in is THEN CheckAndRequeue(n, phase[k].proposing_value) ELSE n
           F(f) == [k \in 0 .. iid |->
                      IF k = 0 THEN m
                      ELSE IF k \in is
                           THEN CheckAndRequeue(f[k - 1], phase[k].proposing_value)
                           ELSE f[k - 1]]
           after == CHOOSE f : f = F(f)
           T == {n \in Manager(V) : Keeps(V, m, n)}
           g == [k \in 1 .. iid |-> [n \in T |-> Step(k, n)]]
<1>1. RequeueAll(m, phase, is, iid) = after[iid]
  BY Zenon DEF RequeueAll
<1>2. m \in T
  BY Zenon DEF Keeps
<1>3. ASSUME NEW k \in 1 .. iid, NEW n \in T  PROVE Step(k, n) \in T
  <2>1. CASE k \in is
    <3> DEFINE c == CheckAndRequeue(n, phase[k].proposing_value)
    <3>1. c \in Manager(V) /\ Keeps(V, n, c)
      BY Zenon, <2>1, RequeueKeeps
    <3> HIDE DEF c
    <3>2. Keeps(V, m, c)
      BY Zenon, <3>1 DEF Keeps
    <3> QED  BY Zenon, <2>1, <3>1, <3>2 DEF c
  <2>2. CASE k \notin is
    BY Zenon, <2>2
  <2> QED  BY Zenon, <2>1, <2>2
<1>4. after = F(after)
  <2>1. \A k \in 1 .. iid, t \in T : g[k][t] \in T
    BY Zenon, <1>3
  <2>2. PICK f : Rounds(f, T, m, iid, g)
    <3> HIDE DEF T, g
    <3> QED  BY Zenon, <1>2, <2>1, Iterates
  <2>3. ASSUME NEW k \in 0 .. iid  PROVE F(f)[k] = f[k]
    <3>1. CASE k = 0
      BY Zenon, <2>2, <3>1 DEF Rounds
    <3>2. CASE k # 0
      <4>1. k \in 1 .. iid /\ k - 1 \in 0 .. iid
        BY SMT, <3>2
      <4> HIDE DEF T
      <4> QED  BY Zenon, <2>2, <3>2, <4>1 DEF Rounds
    <3> QED  BY Zenon, <3>1, <3>2
  <2>4. f = [k \in 0 .. iid |-> f[k]] /\ F(f) = [k \in 0 .. iid |-> F(f)[k]]
    BY Zenon, <2>2 DEF Rounds
  <2>5. f = F(f)
    BY Zenon, <2>3, <2>4
  <2> QED  BY Zenon, <2>5
<1>5. after[0] = m /\ \A k \in 1 .. iid : after[k] = Step(k, after[k - 1])
  <2> DEFINE w == after
  <2>1. w = F(w)
    BY Zenon, <1>4
  <2> HIDE DEF w
  <2>2. w[0] = m
    BY SMT, <2>1
  <2>3. ASSUME NEW k \in 1 .. iid  PROVE w[k] = Step(k, w[k - 1])
    <3>1. k \in 0 .. iid /\ k # 0
      BY SMT
    <3> QED  BY Zenon, <2>1, <3>1
  <2> QED  BY Zenon, <2>2, <2>3 DEF w
<1> HIDE DEF after, Step
<1>6. after[iid] \in T
  <2>1. after[0] \in T /\ \A k \in 1 .. iid : after[k - 1] \in T => after[k] \in T
    BY Zenon, <1>2, <1>3, <1>5
  <2> HIDE DEF T
  <2> QED  BY Zenon, <2>1, StaysIn
<1> QED  BY Zenon, <1>1, <1>6

-----------------------------------------------------------------------------
(* The ballots proposers draw.                                             *)
UsedBallots == {b \in Ballot : b.number > 0 /\ b.proposer_id \in Proposers}

BallotsOf(p) == {b \in UsedBallots : b.proposer_id = p}

geq(b, c) == ballot_greater_than_or_equal(b, c)

(* The facts about a set M of messages the invariants are stated with.     *)
Prep(M, i, b) == \E m \in M : m.type = "PREPARE" /\ m.iid = i /\ m.ballot = b

Acc(M, i, b, v) ==
  \E m \in M : m.type = "ACCEPT" /\ m.iid = i /\ m.ballot = b /\ m.value = v

(* The state of a proposer.                                                *)
Info(V) ==
  [ballot : UsedBallots, quorum : {q1, q2}, acks : SUBSET Acceptors,
   last_accepted_ballot : Ballot, last_accepted_value : V \cup {NULL},
   proposing_value : V \cup {NULL}]

Phase(V) == [Instances -> Info(V) \cup {NULL}]

ProposerState(V) ==
  [trim_instance : Nat, next_prepare_instance : Nat, max_chosen_instance : Nat,
   chosens : SUBSET Instances, prepare_phase : Phase(V), accept_phase : Phase(V),
   manager : Manager(V)]

PrepareMsgs(p) == {PrepareMsg(i, b) : i \in Instances, b \in BallotsOf(p)}

AcceptMsgs(V, p) == {AcceptMsg(i, b, v) : i \in Instances, b \in BallotsOf(p), v \in V}

(* No ballot p prepared i with, or means to, or proposed at, is above b.   *)
Highest(V, p, i, b, M, R) ==
  /\ b \in BallotsOf(p)
  /\ \A c \in BallotsOf(p) : Prep(M, i, c) \/ Prep(R, i, c) => geq(b, c)
  /\ \A c \in BallotsOf(p), v \in V : Acc(M, i, c, v) => geq(b, c)

Untouched(V, p, i, M, R) ==
  \A c \in BallotsOf(p) :
    ~ Prep(M, i, c) /\ ~ Prep(R, i, c) /\ \A v \in V : ~ Acc(M, i, c, v)

(* The entries pe of phase 1 and ae of phase 2 that instance i has when n  *)
(* is the next instance to open.                                           *)
EntryOrder(V, p, i, pe, ae, n, M, R) ==
  /\ pe = NULL \/ ae = NULL
  /\ pe # NULL => /\ Highest(V, p, i, pe.ballot, M, R)
                  /\ \A v \in V : ~ Acc(M, i, pe.ballot, v)
  /\ ae # NULL => /\ Highest(V, p, i, ae.ballot, M, R)
                  /\ ae.proposing_value \in V
                  /\ Acc(M, i, ae.ballot, ae.proposing_value)
  /\ i >= n => pe = NULL /\ ae = NULL /\ Untouched(V, p, i, M, R)

OneValue(V, p, M) ==
  \A i \in Instances, b \in BallotsOf(p), v, w \in V :
    Acc(M, i, b, v) /\ Acc(M, i, b, w) => v = w

OrderInv(V, p, s, M, R) ==
  /\ s \in ProposerState(V)
  /\ R \subseteq PrepareMsgs(p)
  /\ \A i \in Instances :
       EntryOrder(V, p, i, s.prepare_phase[i], s.accept_phase[i], s.next_prepare_instance, M, R)
  /\ OneValue(V, p, M)

(* From M and R to N and S proposer p prepared and proposed nothing in i.  *)
Same(V, p, i, M, R, N, S) ==
  \A c \in BallotsOf(p) :
    /\ Prep(N, i, c) \/ Prep(S, i, c) => Prep(M, i, c) \/ Prep(R, i, c)
    /\ \A v \in V : Acc(N, i, c, v) <=> Acc(M, i, c, v)

(* An entry keeps its ballot, and in phase 2 its value, or goes.           *)
PrepareKept(pe, pe2) == pe2 = NULL \/ (pe # NULL /\ pe2.ballot = pe.ballot)

AcceptKept(ae, ae2) ==
  \/ ae2 = NULL
  \/ ae # NULL /\ ae2.ballot = ae.ballot /\ ae2.proposing_value = ae.proposing_value

Retains(s, t) ==
  /\ t.next_prepare_instance >= s.next_prepare_instance
  /\ \A i \in Instances : /\ PrepareKept(s.prepare_phase[i], t.prepare_phase[i])
                          /\ AcceptKept(s.accept_phase[i], t.accept_phase[i])

-----------------------------------------------------------------------------
(* An instance whose entries keep their ballots and values, or go, and in  *)
(* which nothing is sent, stays in order.                                  *)
LEMMA EntryOrderKept ==
  ASSUME NEW V, NEW p, NEW i \in Nat, NEW n \in Nat, NEW M, NEW R, NEW pe, NEW ae,
         EntryOrder(V, p, i, pe, ae, n, M, R),
         NEW n2 \in Nat, n2 >= n, NEW N, NEW S, Same(V, p, i, M, R, N, S),
         NEW pe2, PrepareKept(pe, pe2), NEW ae2, AcceptKept(ae, ae2)
  PROVE  EntryOrder(V, p, i, pe2, ae2, n2, N, S)
<1>1. ASSUME NEW b, Highest(V, p, i, b, M, R)  PROVE Highest(V, p, i, b, N, S)
  BY Zenon, <1>1 DEF Highest, Same
<1>2. pe2 = NULL \/ ae2 = NULL
  BY Zenon DEF EntryOrder, PrepareKept, AcceptKept
<1>3. ASSUME pe2 # NULL
      PROVE  Highest(V, p, i, pe2.ballot, N, S) /\ \A v \in V : ~ Acc(N, i, pe2.ballot, v)
  <2>1. pe # NULL /\ pe2.ballot = pe.ballot
    BY Zenon, <1>3 DEF PrepareKept
  <2>2. Highest(V, p, i, pe.ballot, M, R) /\ \A v \in V : ~ Acc(M, i, pe.ballot, v)
    BY Zenon, <2>1 DEF EntryOrder
  <2>3. pe.ballot \in BallotsOf(p)
    BY Zenon, <2>2 DEF Highest
  <2>4. \A v \in V : ~ Acc(N, i, pe.ballot, v)
    BY Zenon, <2>2, <2>3 DEF Same
  <2> QED  BY Zenon, <1>1, <2>1, <2>2, <2>4
<1>4. ASSUME ae2 # NULL
      PROVE  /\ Highest(V, p, i, ae2.ballot, N, S) /\ ae2.proposing_value \in V
             /\ Acc(N, i, ae2.ballot, ae2.proposing_value)
  <2>1. ae # NULL /\ ae2.ballot = ae.ballot /\ ae2.proposing_value = ae.proposing_value
    BY Zenon, <1>4 DEF AcceptKept
  <2>2. /\ Highest(V, p, i, ae.ballot, M, R) /\ ae.proposing_value \in V
        /\ Acc(M, i, ae.ballot, ae.proposing_value)
    BY Zenon, <2>1 DEF EntryOrder
  <2>3. ae.ballot \in BallotsOf(p)
    BY Zenon, <2>2 DEF Highest
  <2>4. Acc(N, i, ae.ballot, ae.proposing_value)
    BY Zenon, <2>2, <2>3 DEF Same
  <2> QED  BY Zenon, <1>1, <2>1, <2>2, <2>4
<1>5. ASSUME i >= n2  PROVE pe2 = NULL /\ ae2 = NULL /\ Untouched(V, p, i, N, S)
  <2>1. i >= n
    BY SMT, <1>5
  <2>2. pe = NULL /\ ae = NULL /\ Untouched(V, p, i, M, R)
    BY Zenon, <2>1 DEF EntryOrder
  <2>3. Untouched(V, p, i, N, S)
    BY Zenon, <2>2 DEF Untouched, Same
  <2> QED  BY Zenon, <2>2, <2>3 DEF PrepareKept, AcceptKept
<1> QED  BY Zenon, <1>2, <1>3, <1>4, <1>5 DEF EntryOrder

(* Nothing is sent.                                                        *)
LEMMA SameSame ==
  ASSUME NEW V, NEW p, NEW i, NEW M, NEW R
  PROVE  Same(V, p, i, M, R, M, R)
BY Zenon DEF Same

(* The parts of a proposer's state.                                        *)
LEMMA StateParts ==
  ASSUME NEW V, NEW s \in ProposerState(V)
  PROVE  /\ s.trim_instance \in Nat /\ s.next_prepare_instance \in Nat
         /\ s.max_chosen_instance \in Nat
         /\ s.chosens \in SUBSET Instances
         /\ s.prepare_phase \in Phase(V) /\ s.accept_phase \in Phase(V)
         /\ s.manager \in Manager(V)
         /\ \A i \in Instances : /\ s.prepare_phase[i] \in Info(V) \cup {NULL}
                                 /\ s.accept_phase[i] \in Info(V) \cup {NULL}
<1>1. /\ s.trim_instance \in Nat /\ s.next_prepare_instance \in Nat
      /\ s.max_chosen_instance \in Nat
      /\ s.chosens \in SUBSET Instances
      /\ s.prepare_phase \in Phase(V) /\ s.accept_phase \in Phase(V)
      /\ s.manager \in Manager(V)
  BY Zenon DEF ProposerState
<1> QED  BY Zenon, <1>1 DEF Phase

(* Such a step that sends nothing keeps the order.                         *)
LEMMA OrderRetained ==
  ASSUME NEW V, NEW p, NEW s, NEW M, NEW R, OrderInv(V, p, s, M, R),
         NEW t \in ProposerState(V), Retains(s, t)
  PROVE  OrderInv(V, p, t, M, R)
<1>1. /\ s.next_prepare_instance \in Nat /\ t.next_prepare_instance \in Nat
      /\ t.next_prepare_instance >= s.next_prepare_instance
  BY Zenon, StateParts DEF OrderInv, Retains
<1>2. ASSUME NEW i \in Instances
      PROVE  EntryOrder(V, p, i, t.prepare_phase[i], t.accept_phase[i],
                        t.next_prepare_instance, M, R)
  <2>1. i \in Nat
    BY Zenon, ProposerAssumption
  <2>2. EntryOrder(V, p, i, s.prepare_phase[i], s.accept_phase[i],
                   s.next_prepare_instance, M, R)
    BY Zenon DEF OrderInv
  <2>3. Same(V, p, i, M, R, M, R)
    BY Zenon, SameSame
  <2>4. /\ PrepareKept(s.prepare_phase[i], t.prepare_phase[i])
        /\ AcceptKept(s.accept_phase[i], t.accept_phase[i])
    BY Zenon DEF Retains
  <2> QED  BY Zenon, <1>1, <2>1, <2>2, <2>3, <2>4, EntryOrderKept
<1> QED  BY Zenon, <1>2 DEF OrderInv

(* Counting a promise leaves the ballots and values of the entries.        *)
LEMMA PromiseKeepsOrder ==
  ASSUME NEW V, NEW p, NEW s, NEW M, NEW R, OrderInv(V, p, s, M, R),
         NEW ack, ack.iid \in Instances, ack.aid \in Acceptors,
         ack.value_ballot \in Ballot, ack.value \in V \cup {NULL}
  PROVE  OrderInv(V, p, ReceivePromise(s, ack), M, R)
<1> DEFINE j == ack.iid
           inst == s.prepare_phase[j]
           reported == IF ballot_greater_than(ack.value_ballot, inst.last_accepted_ballot)
                       THEN [inst EXCEPT !.last_accepted_ballot = ack.value_ballot,
                                         !.last_accepted_value = ack.value]
                       ELSE inst
           e == [reported EXCEPT !.acks = @ \cup {ack.aid}]
           t == [s EXCEPT !.prepare_phase[j] = e]
<1>1. s \in ProposerState(V)
  BY Zenon DEF OrderInv
<1>2. ReceivePromise(s, ack) = s \/ (inst # NULL /\ ReceivePromise(s, ack) = t)
  BY Zenon DEF ReceivePromise
<1>3. ASSUME inst # NULL  PROVE OrderInv(V, p, t, M, R)
  <2>1. inst \in Info(V)
    BY Zenon, <1>1, <1>3, StateParts
  <2> HIDE DEF inst
  <2>2. reported \in Info(V) /\ reported.ballot = inst.ballot
    <3>1. CASE ballot_greater_than(ack.value_ballot, inst.last_accepted_ballot)
      <4> DEFINE r == [inst EXCEPT !.last_accepted_ballot = ack.value_ballot,
                                   !.last_accepted_value = ack.value]
      <4>1. r \in Info(V)
        BY Zenon, <2>1 DEF Info
      <4>2. r.ballot = inst.ballot
        BY SMT, <2>1 DEF Info
      <4> QED  BY Zenon, <3>1, <4>1, <4>2
    <3>2. CASE ~ ballot_greater_than(ack.value_ballot, inst.last_accepted_ballot)
      BY Zenon, <2>1, <3>2
    <3> QED  BY Zenon, <3>1, <3>2
  <2> HIDE DEF reported
  <2>3. e \in Info(V) /\ e.ballot = inst.ballot
    BY SMT, <2>2 DEF Info
  <2> HIDE DEF e
  <2>4. /\ t \in ProposerState(V)
        /\ t.next_prepare_instance = s.next_prepare_instance
        /\ t.accept_phase = s.accept_phase
        /\ t.prepare_phase = [s.prepare_phase EXCEPT ![j] = e]
    BY SMT, <1>1, <2>3 DEF ProposerState, Phase
  <2> HIDE DEF t
  <2>5. t.prepare_phase[j] = e /\ \A i \in Instances \ {j} : t.prepare_phase[i] = s.prepare_phase[i]
    BY SMT, <1>1, <2>4, StateParts DEF Phase
  <2>6. t.next_prepare_instance >= s.next_prepare_instance
    BY SMT, <1>1, <2>4, StateParts
  <2>7. Retains(s, t)
    BY Zenon, <1>3, <2>3, <2>4, <2>5, <2>6 DEF Retains, PrepareKept, AcceptKept, inst
  <2>8. t \in ProposerState(V)
    BY Zenon, <2>4
  <2> QED  BY Zenon, <2>7, <2>8, OrderRetained
<1> QED  BY Zenon, <1>2, <1>3

-----------------------------------------------------------------------------
(* From s to t entries stay or go, and nothing else happens to them.       *)
Drops(s, t) ==
  /\ t.next_prepare_instance >= s.next_prepare_instance
  /\ \A i \in Instances : /\ t.prepare_phase[i] \in {s.prepare_phase[i], NULL}
                          /\ t.accept_phase[i] \in {s.accept_phase[i], NULL}

(* Dropping entries is a way to retain the others.                         *)
LEMMA DropsRetains ==
  ASSUME NEW s, NEW t, Drops(s, t)
  PROVE  Retains(s, t)
BY Zenon DEF Drops, Retains, PrepareKept, AcceptKept

(* The values of trimmed instances go back to the queue, and none is lost. *)
LEMMA RequeueTrimmedKeeps ==
  ASSUME NEW V, NEW m \in Manager(V), NEW phase \in Phase(V), NEW iid \in Nat
  PROVE  /\ RequeueTrimmed(m, phase, iid) \in Manager(V)
         /\ Keeps(V, m, RequeueTrimmed(m, phase, iid))
<1> DEFINE is == {i \in Instances : /\ i <= iid /\ phase[i] # NULL
                                    /\ phase[i].proposing_value # NULL
                                    /\ ShouldRequeue(phase[i])}
<1>1. ASSUME NEW i \in is  PROVE phase[i].proposing_value \in V
  <2>1. phase[i] \in Info(V) /\ phase[i].proposing_value # NULL
    BY Zenon DEF Phase
  <2>2. phase[i].proposing_value \in V \cup {NULL}
    BY Zenon, <2>1 DEF Info
  <2> QED  BY Zenon, <2>1, <2>2
<1>2. RequeueTrimmed(m, phase, iid) = RequeueAll(m, phase, is, iid)
  BY Zenon DEF RequeueTrimmed
<1> HIDE DEF is
<1> QED  BY Zenon, <1>1, <1>2, RequeueAllKeeps

(* In t the entries of s up to iid went, and the trim bound moved to iid.  *)
Trims(V, s, t, iid) ==
  /\ t \in ProposerState(V) /\ Drops(s, t)
  /\ t.chosens = s.chosens
  /\ t.trim_instance \in {s.trim_instance, iid}
  /\ Keeps(V, s.manager, t.manager)

(* What a trim does.                                                       *)
LEMMA TrimEffect ==
  ASSUME NEW V, NEW s \in ProposerState(V), NEW iid \in Nat
  PROVE  Trims(V, s, ReceiveTrimIid(s, iid), iid)
<1> DEFINE Good(t) == /\ t \in ProposerState(V) /\ Drops(s, t)
                      /\ t.chosens = s.chosens
                      /\ t.trim_instance \in {s.trim_instance, iid}
                      /\ Keeps(V, s.manager, t.manager)
           t0 == ReceiveTrimIid(s, iid)
<1> SUFFICES Good(t0)
  BY Zenon DEF Trims
<1>0. s.trim_instance \in Nat /\ s.next_prepare_instance \in Nat /\ FallBehindJump \in Nat
  BY Zenon, StateParts, ProposerAssumption
<1>1. CASE iid <= s.trim_instance
  <2>1. t0 = s
    BY Zenon, <1>1 DEF ReceiveTrimIid
  <2>2. s.next_prepare_instance >= s.next_prepare_instance
    BY SMT, <1>0
  <2> QED  BY Zenon, <2>1, <2>2 DEF Drops, Keeps
<1>2. CASE ~ (iid <= s.trim_instance)
  <2> DEFINE m1 == RequeueTrimmed(s.manager, s.prepare_phase, iid)
             m2 == RequeueTrimmed(m1, s.accept_phase, iid)
             pp == KeptAbove(s.prepare_phase, iid)
             ap == KeptAbove(s.accept_phase, iid)
             n == IF iid >= s.next_prepare_instance THEN iid + 1 + FallBehindJump
                  ELSE s.next_prepare_instance
             t == [s EXCEPT !.trim_instance = iid, !.manager = m2, !.prepare_phase = pp,
                            !.accept_phase = ap, !.next_prepare_instance = n]
  <2>1. t0 = t
    BY Zenon, <1>2 DEF ReceiveTrimIid
  <2>2. m1 \in Manager(V) /\ Keeps(V, s.manager, m1)
    BY Zenon, StateParts, RequeueTrimmedKeeps
  <2> HIDE DEF m1
  <2>3. m2 \in Manager(V) /\ Keeps(V, m1, m2)
    BY Zenon, <2>2, StateParts, RequeueTrimmedKeeps
  <2>4. Keeps(V, s.manager, m2)
    BY Zenon, <2>2, <2>3 DEF Keeps
  <2>5. /\ pp \in Phase(V) /\ ap \in Phase(V)
        /\ \A i \in Instances : pp[i] \in {s.prepare_phase[i], NULL}
                                /\ ap[i] \in {s.accept_phase[i], NULL}
    BY Zenon, StateParts DEF Phase, KeptAbove
  <2>6. n \in Nat /\ n >= s.next_prepare_instance
    BY SMT, <1>0
  <2> HIDE DEF m2, pp, ap, n
  <2>7. t \in ProposerState(V)
    BY Zenon, <2>3, <2>5, <2>6 DEF ProposerState
  <2>8. /\ t.chosens = s.chosens /\ t.trim_instance = iid /\ t.manager = m2
        /\ t.prepare_phase = pp /\ t.accept_phase = ap /\ t.next_prepare_instance = n
    BY SMT DEF ProposerState
  <2> HIDE DEF t
  <2>9. Drops(s, t)
    BY Zenon, <2>5, <2>6, <2>8 DEF Drops
  <2>10. Good(t)
    BY Zenon, <2>4, <2>7, <2>8, <2>9
  <2> HIDE DEF t0, Good
  <2> QED  BY Zenon, <2>1, <2>10
<1> QED  BY Zenon, <1>1, <1>2

(* The first instance after the trim bound that is not known to be chosen. *)
LEMMA MinUnchosenPrefix ==
  ASSUME NEW V, NEW s \in ProposerState(V)
  PROVE  /\ MinUnchosen(s) \in Nat
         /\ \A j \in Nat : s.trim_instance < j /\ j < MinUnchosen(s) => j \in s.chosens
<1> DEFINE t == s.trim_instance
           c == s.chosens
           n == Cardinality(c)
           X == (t + 1) .. (t + 1 + n)
           P(k) == k \notin c /\ \A j \in (t + 1) .. (k - 1) : j \in c
           S == {k \in X : k \notin c}
<1>1. t \in Nat /\ c \in SUBSET Instances
  BY Zenon, StateParts
<1>2. IsFiniteSet(c) /\ n \in Nat
  BY Zenon, <1>1, ProposerAssumption, FS_Subset, FS_CardinalityType
<1> HIDE DEF t, c
<1>3. S # {}
  <2>1. SUFFICES ASSUME X \subseteq c  PROVE FALSE
    BY Zenon
  <2> HIDE DEF n
  <2>2. t + 1 \in Int /\ t + 1 + n \in Int
    BY SMT, <1>1, <1>2
  <2>3. Cardinality(X) = n + 1
    <3>1. Cardinality(X) = IF t + 1 > t + 1 + n THEN 0 ELSE (t + 1 + n) - (t + 1) + 1
      BY Zenon, <2>2, FS_Interval
    <3> QED  BY SMT, <1>1, <1>2, <3>1
  <2>4. Cardinality(X) <= Cardinality(c)
    BY Zenon, <1>2, <2>1, FS_Subset
  <2> QED  BY SMT, <1>2, <2>3, <2>4 DEF n
<1> HIDE DEF n
<1>4. S \subseteq Nat
  BY SMT, <1>1, <1>2
<1>5. PICK k \in S : \A m \in S : k <= m
  BY Zenon, <1>3, <1>4, LeastNatural
<1>6. k \in X /\ P(k)
  <2>1. k \in X /\ k \notin c
    BY Zenon, <1>5
  <2>2. ASSUME NEW j \in (t + 1) .. (k - 1), j \notin c  PROVE FALSE
    <3>1. j \in X /\ ~ (k <= j)
      BY SMT, <1>1, <1>2, <2>1
    <3> QED  BY Zenon, <1>5, <2>2, <3>1
  <2> QED  BY Zenon, <2>1, <2>2
<1>7. MinUnchosen(s) = CHOOSE m \in X : P(m)
  BY Zenon DEF MinUnchosen, t, c, n
<1>8. MinUnchosen(s) \in X /\ P(MinUnchosen(s))
  <2> HIDE DEF P, X
  <2> QED  BY Zenon, <1>6, <1>7
<1>9. MinUnchosen(s) \in Nat
  BY SMT, <1>1, <1>2, <1>8
<1>10. ASSUME NEW j \in Nat, t < j, j < MinUnchosen(s)  PROVE j \in c
  <2>1. j \in (t + 1) .. (MinUnchosen(s) - 1)
    BY SMT, <1>1, <1>9, <1>10
  <2> QED  BY Zenon, <1>8, <2>1
<1> QED  BY Zenon, <1>9, <1>10 DEF t, c

(* In t instance i of s is closed with value v: entries went, and the trim *)
(* bound moved over closed instances only.                                 *)
Closes(V, s, t, i, v) ==
  /\ t \in ProposerState(V) /\ Drops(s, t)
  /\ t.chosens = s.chosens \cup {i}
  /\ \A j \in Instances : j <= t.trim_instance => j <= s.trim_instance \/ j \in t.chosens
  /\ \A u \in V : u # v /\ Outstanding(s.manager, u) => Outstanding(t.manager, u)

(* The news that v was chosen in i closes i.                               *)
LEMMA ChosenEffect ==
  ASSUME NEW V, NEW s \in ProposerState(V), NEW i \in Instances, NEW v,
         s.accept_phase[i] # NULL => s.accept_phase[i].proposing_value \in V
  PROVE  Closes(V, s, ReceiveChosenValue(s, i, v), i, v)
<1> DEFINE Good(t) == /\ t \in ProposerState(V) /\ Drops(s, t)
                      /\ t.chosens = s.chosens \cup {i}
                      /\ \A j \in Instances : j <= t.trim_instance =>
                           j <= s.trim_instance \/ j \in t.chosens
                      /\ \A u \in V : u # v /\ Outstanding(s.manager, u) =>
                           Outstanding(t.manager, u)
           m1 == CloseIfOutstanding(s.manager, v)
           inst == s.accept_phase[i]
           m2 == IF inst # NULL /\ ~ Outstanding(s.manager, v) /\ ShouldRequeue(inst)
                 THEN CheckAndRequeue(m1, inst.proposing_value) ELSE m1
           mx == IF s.max_chosen_instance < i THEN i ELSE s.max_chosen_instance
           c == [s EXCEPT !.chosens = @ \cup {i}, !.max_chosen_instance = mx, !.manager = m2,
                          !.accept_phase[i] = NULL, !.prepare_phase[i] = NULL]
           t0 == ReceiveChosenValue(s, i, v)
<1> SUFFICES Good(t0)
  BY Zenon DEF Closes
<1>0. /\ s.trim_instance \in Nat /\ s.next_prepare_instance \in Nat
      /\ s.max_chosen_instance \in Nat /\ i \in Nat
      /\ s.prepare_phase \in Phase(V) /\ s.accept_phase \in Phase(V)
      /\ s.chosens \cup {i} \in SUBSET Instances
  BY Zenon, StateParts, ProposerAssumption
<1>1. /\ t0 = (CASE i \in s.chosens -> s
                 [] i \notin s.chosens /\ MinUnchosen(c) >= i -> ReceiveTrimIid(c, i)
                 [] OTHER -> c)
  BY Zenon DEF ReceiveChosenValue
<1>2. CASE i \in s.chosens
  <2>1. t0 = s
    BY Zenon, <1>1, <1>2
  <2>2. s.next_prepare_instance >= s.next_prepare_instance
    BY SMT, <1>0
  <2>3. s.chosens \cup {i} = s.chosens
    BY Zenon, <1>2
  <2> QED  BY Zenon, <2>1, <2>2, <2>3 DEF Drops
<1>3. CASE i \notin s.chosens
  <2>1. m1 \in Manager(V) /\ \A u \in V : u # v /\ Outstanding(s.manager, u) => Outstanding(m1, u)
    BY Zenon, StateParts, CloseKeeps
  <2>2. m2 \in Manager(V) /\ \A u \in V : u # v /\ Outstanding(s.manager, u) => Outstanding(m2, u)
    <3> HIDE DEF m1
    <3>1. CASE inst # NULL
      <4>1. /\ CheckAndRequeue(m1, inst.proposing_value) \in Manager(V)
            /\ Keeps(V, m1, CheckAndRequeue(m1, inst.proposing_value))
        BY Zenon, <2>1, <3>1, RequeueKeeps
      <4> QED  BY Zenon, <2>1, <4>1 DEF Keeps
    <3>2. CASE inst = NULL
      BY Zenon, <2>1, <3>2
    <3> QED  BY Zenon, <3>1, <3>2
  <2>3. mx \in Nat
    BY SMT, <1>0
  <2>4. /\ [s.accept_phase EXCEPT ![i] = NULL] \in Phase(V)
        /\ [s.prepare_phase EXCEPT ![i] = NULL] \in Phase(V)
    BY Zenon, <1>0 DEF Phase
  <2> HIDE DEF m1, m2, mx
  <2>5. c \in ProposerState(V)
    BY Zenon, <1>0, <2>2, <2>3, <2>4 DEF ProposerState
  <2>6. /\ c.chosens = s.chosens \cup {i} /\ c.manager = m2
        /\ c.trim_instance = s.trim_instance
        /\ c.next_prepare_instance = s.next_prepare_instance
        /\ c.accept_phase = [s.accept_phase EXCEPT ![i] = NULL]
        /\ c.prepare_phase = [s.prepare_phase EXCEPT ![i] = NULL]
    BY SMT DEF ProposerState
  <2> HIDE DEF c
  <2>7. Drops(s, c)
    <3>1. c.next_prepare_instance >= s.next_prepare_instance
      BY SMT, <1>0, <2>6
    <3> QED  BY Zenon, <1>0, <2>6, <3>1 DEF Drops, Phase
  <2>8. CASE MinUnchosen(c) >= i
    <3> DEFINE t == ReceiveTrimIid(c, i)
    <3>1. /\ t \in ProposerState(V) /\ Drops(c, t) /\ t.chosens = c.chosens
          /\ t.trim_instance \in {c.trim_instance, i} /\ Keeps(V, c.manager, t.manager)
      BY Zenon, <1>0, <2>5, TrimEffect DEF Trims
    <3>2. t0 = t
      BY Zenon, <1>1, <1>3, <2>8
    <3> HIDE DEF t, t0
    <3>3. Drops(s, t)
      <4>1. t.next_prepare_instance \in Nat /\ c.next_prepare_instance \in Nat
        BY Zenon, <2>5, <3>1, StateParts
      <4>2. t.next_prepare_instance >= s.next_prepare_instance
        BY SMT, <1>0, <2>7, <3>1, <4>1 DEF Drops
      <4> QED  BY Zenon, <2>7, <3>1, <4>2 DEF Drops
    <3>4. ASSUME NEW j \in Instances, j <= t.trim_instance
          PROVE  j <= s.trim_instance \/ j \in t.chosens
      <4>1. CASE t.trim_instance = c.trim_instance
        BY Zenon, <2>6, <3>4, <4>1
      <4>2. CASE t.trim_instance = i
        <5>1. /\ MinUnchosen(c) \in Nat
              /\ \A k \in Nat : c.trim_instance < k /\ k < MinUnchosen(c) => k \in c.chosens
          BY Zenon, <2>5, MinUnchosenPrefix
        <5>2. j \in Nat
          BY Zenon, ProposerAssumption
        <5>3. CASE j = i
          BY Zenon, <2>6, <3>1, <5>3
        <5>4. CASE j # i
          <6>1. j <= s.trim_instance \/ (c.trim_instance < j /\ j < MinUnchosen(c))
            BY SMT, <1>0, <2>6, <2>8, <3>4, <4>2, <5>1, <5>2, <5>4
          <6> QED  BY Zenon, <3>1, <5>1, <5>2, <6>1
        <5> QED  BY Zenon, <5>3, <5>4
      <4> QED  BY Zenon, <3>1, <4>1, <4>2
    <3>5. ASSUME NEW u \in V, u # v, Outstanding(s.manager, u)  PROVE Outstanding(t.manager, u)
      BY Zenon, <2>2, <2>6, <3>1, <3>5 DEF Keeps
    <3>6. t.chosens = s.chosens \cup {i}
      BY Zenon, <2>6, <3>1
    <3> QED  BY Zenon, <3>1, <3>2, <3>3, <3>4, <3>5, <3>6
  <2>9. CASE ~ (MinUnchosen(c) >= i)
    <3>1. t0 = c
      BY Zenon, <1>1, <1>3, <2>9
    <3> HIDE DEF t0
    <3> QED  BY Zenon, <2>2, <2>5, <2>6, <2>7, <3>1
  <2> QED  BY Zenon, <2>8, <2>9
<1> QED  BY Zenon, <1>2, <1>3

(* Counting an acceptance adds it to the entry and changes nothing else.   *)
CountedState(s, ack) == [s EXCEPT !.accept_phase[ack.iid].acks = @ \cup {ack.aid}]

Counted(V, s, t, ack) ==
  LET e == s.accept_phase[ack.iid]
      f == t.accept_phase[ack.iid]
  IN  /\ t \in ProposerState(V) /\ Retains(s, t)
      /\ t.prepare_phase = s.prepare_phase
      /\ \A i \in Instances \ {ack.iid} : t.accept_phase[i] = s.accept_phase[i]
      /\ f.acks = e.acks \cup {ack.aid} /\ f.quorum = e.quorum
      /\ f.ballot = e.ballot /\ f.proposing_value = e.proposing_value
      /\ t.chosens = s.chosens /\ t.trim_instance = s.trim_instance
      /\ t.manager = s.manager

(* An acceptance that counts changes the entry it is for and nothing else. *)
LEMMA CountedEffect ==
  ASSUME NEW V, NEW s \in ProposerState(V), NEW ack, ack.iid \in Instances,
         ack.aid \in Acceptors, s.accept_phase[ack.iid] # NULL
  PROVE  Counted(V, s, CountedState(s, ack), ack)
<1> DEFINE j == ack.iid
           e == s.accept_phase[j]
           f == [e EXCEPT !.acks = @ \cup {ack.aid}]
           t == CountedState(s, ack)
<1>1. e \in Info(V) /\ s.next_prepare_instance \in Nat /\ s.accept_phase \in Phase(V)
  BY Zenon, StateParts
<1>2. t = [s EXCEPT !.accept_phase = [s.accept_phase EXCEPT ![j] = f]]
  BY SMT DEF CountedState, ProposerState
<1> HIDE DEF t, e
<1>3. /\ f \in Info(V) /\ f.acks = e.acks \cup {ack.aid} /\ f.quorum = e.quorum
      /\ f.ballot = e.ballot /\ f.proposing_value = e.proposing_value
  BY SMT, <1>1 DEF Info
<1> HIDE DEF f
<1>4. /\ [s.accept_phase EXCEPT ![j] = f] \in Phase(V)
      /\ [s.accept_phase EXCEPT ![j] = f][j] = f
      /\ \A i \in Instances \ {j} : [s.accept_phase EXCEPT ![j] = f][i] = s.accept_phase[i]
  BY Zenon, <1>1, <1>3 DEF Phase
<1> DEFINE g == [s.accept_phase EXCEPT ![j] = f]
<1>5. g \in Phase(V) /\ g[j] = f /\ \A i \in Instances \ {j} : g[i] = s.accept_phase[i]
  BY Zenon, <1>4
<1>6. t = [s EXCEPT !.accept_phase = g]
  BY Zenon, <1>2
<1> HIDE DEF g
<1>7. t \in ProposerState(V)
  BY Zenon, <1>5, <1>6 DEF ProposerState
<1>8. /\ t.accept_phase = g /\ t.prepare_phase = s.prepare_phase /\ t.chosens = s.chosens
      /\ t.trim_instance = s.trim_instance /\ t.manager = s.manager
      /\ t.next_prepare_instance = s.next_prepare_instance
  BY SMT, <1>6 DEF ProposerState
<1>9. Retains(s, t)
  <2>1. t.next_prepare_instance >= s.next_prepare_instance
    BY SMT, <1>1, <1>8
  <2> QED  BY Zenon, <1>3, <1>5, <1>8, <2>1 DEF Retains, PrepareKept, AcceptKept, e
<1> QED  BY Zenon, <1>3, <1>5, <1>7, <1>8, <1>9 DEF e, t, Counted

(* In t instance i0 is in phase 1 at ballot b, with no promise counted and *)
(* no value; the other instances are as in s.                              *)
Restarted(V, s, t, i0, b) ==
  /\ t \in ProposerState(V)
  /\ t.prepare_phase[i0].ballot = b
  /\ t.prepare_phase[i0].acks = {}
  /\ t.prepare_phase[i0].last_accepted_value = NULL
  /\ t.accept_phase[i0] = NULL
  /\ \A i \in Instances \ {i0} : /\ t.prepare_phase[i] = s.prepare_phase[i]
                                 /\ t.accept_phase[i] = s.accept_phase[i]
  /\ t.next_prepare_instance = s.next_prepare_instance
  /\ t.chosens = s.chosens /\ t.trim_instance = s.trim_instance
  /\ Keeps(V, s.manager, t.manager)

(* A preemption of the ballot of an instance starts it again.              *)
LEMMA PreemptedEffect ==
  ASSUME NEW V, NEW s \in ProposerState(V), NEW m, NEW b \in UsedBallots,
         m.iid \in Instances, Preempts(s, m),
         s.prepare_phase[m.iid] = NULL \/ s.accept_phase[m.iid] = NULL,
         s.accept_phase[m.iid] # NULL => s.accept_phase[m.iid].proposing_value \in V
  PROVE  Restarted(V, s, ReceivePreempted(s, m, b), m.iid, b)
<1> DEFINE i0 == m.iid
           pe == s.prepare_phase[i0]
           ae == s.accept_phase[i0]
           t0 == ReceivePreempted(s, m, b)
<1>1. /\ s.prepare_phase \in Phase(V) /\ s.accept_phase \in Phase(V)
      /\ pe \in Info(V) \cup {NULL} /\ ae \in Info(V) \cup {NULL}
      /\ s.manager \in Manager(V)
  BY Zenon, StateParts
<1>2. ASSUME NEW e \in Info(V)
      PROVE  /\ UpdateFromPreemption(e, b) \in Info(V)
             /\ UpdateFromPreemption(e, b).ballot = b
             /\ UpdateFromPreemption(e, b).acks = {}
             /\ UpdateFromPreemption(e, b).last_accepted_value = NULL
  <2> DEFINE lab == IF e.last_accepted_value # NULL THEN INVALID_BALLOT
                    ELSE e.last_accepted_ballot
             f == [e EXCEPT !.ballot = b, !.acks = {}, !.last_accepted_ballot = lab,
                            !.last_accepted_value = NULL, !.proposing_value = NULL]
  <2>1. lab \in Ballot
    BY SMT DEF Info, Ballot, INVALID_BALLOT
  <2>2. UpdateFromPreemption(e, b) = f
    BY Zenon DEF UpdateFromPreemption
  <2> HIDE DEF lab
  <2>3. f \in Info(V)
    BY Zenon, <2>1 DEF Info
  <2>4. f.ballot = b /\ f.acks = {} /\ f.last_accepted_value = NULL
    BY SMT DEF Info
  <2> QED  BY Zenon, <2>2, <2>3, <2>4
<1>3. CASE PreemptsEntry(ae, m)
  <2> DEFINE u == UpdateFromPreemption(ae, b)
             f == [u EXCEPT !.quorum = q2]
             m2 == IF ShouldRequeue(ae) THEN CheckAndRequeue(s.manager, ae.proposing_value)
                   ELSE s.manager
             pp == [s.prepare_phase EXCEPT ![i0] = f]
             ap == [s.accept_phase EXCEPT ![i0] = NULL]
             t == [s EXCEPT !.accept_phase = ap, !.prepare_phase = pp, !.manager = m2]
  <2>1. ae # NULL /\ pe = NULL /\ ~ PreemptsEntry(pe, m)
    BY Zenon, <1>3 DEF PreemptsEntry
  <2>2. t0 = t
    BY Zenon, <1>3, <2>1 DEF ReceivePreempted
  <2>3. /\ u \in Info(V) /\ u.ballot = b /\ u.acks = {} /\ u.last_accepted_value = NULL
    BY Zenon, <1>1, <1>2, <2>1
  <2> HIDE DEF u
  <2>4. /\ f \in Info(V) /\ f.ballot = b /\ f.acks = {} /\ f.last_accepted_value = NULL
    BY SMT, <2>3 DEF Info
  <2> HIDE DEF f
  <2>5. m2 \in Manager(V) /\ Keeps(V, s.manager, m2)
    <3>1. /\ CheckAndRequeue(s.manager, ae.proposing_value) \in Manager(V)
          /\ Keeps(V, s.manager, CheckAndRequeue(s.manager, ae.proposing_value))
      BY Zenon, <1>1, <2>1, RequeueKeeps
    <3>2. Keeps(V, s.manager, s.manager)
      BY Zenon DEF Keeps
    <3> QED  BY Zenon, <1>1, <3>1, <3>2
  <2>6. /\ pp \in Phase(V) /\ ap \in Phase(V) /\ pp[i0] = f /\ ap[i0] = NULL
        /\ \A i \in Instances \ {i0} : pp[i] = s.prepare_phase[i] /\ ap[i] = s.accept_phase[i]
    BY Zenon, <1>1, <2>4 DEF Phase
  <2> HIDE DEF m2, pp, ap
  <2>7. t \in ProposerState(V)
    BY Zenon, <2>5, <2>6 DEF ProposerState
  <2>8. /\ t.prepare_phase = pp /\ t.accept_phase = ap /\ t.manager = m2
        /\ t.next_prepare_instance = s.next_prepare_instance
        /\ t.chosens = s.chosens /\ t.trim_instance = s.trim_instance
    BY SMT DEF ProposerState
  <2> HIDE DEF t, t0
  <2>9. Restarted(V, s, t, i0, b)
    BY Zenon, <2>4, <2>5, <2>6, <2>7, <2>8 DEF Restarted
  <2> QED  BY Zenon, <2>2, <2>9 DEF t0
<1>4. CASE ~ PreemptsEntry(ae, m)
  <2> DEFINE f == UpdateFromPreemption(pe, b)
             pp == [s.prepare_phase EXCEPT ![i0] = f]
             t == [s EXCEPT !.prepare_phase = pp]
  <2>1. PreemptsEntry(pe, m) /\ pe # NULL /\ ae = NULL
    BY Zenon, <1>4 DEF Preempts, PreemptsEntry
  <2>2. t0 = t
    BY Zenon, <1>4, <2>1 DEF ReceivePreempted
  <2>3. /\ f \in Info(V) /\ f.ballot = b /\ f.acks = {} /\ f.last_accepted_value = NULL
    BY Zenon, <1>1, <1>2, <2>1
  <2> HIDE DEF f
  <2>4. /\ pp \in Phase(V) /\ pp[i0] = f
        /\ \A i \in Instances \ {i0} : pp[i] = s.prepare_phase[i]
    BY Zenon, <1>1, <2>3 DEF Phase
  <2> HIDE DEF pp
  <2>5. t \in ProposerState(V)
    BY Zenon, <2>4 DEF ProposerState
  <2>6. /\ t.prepare_phase = pp /\ t.accept_phase = s.accept_phase /\ t.manager = s.manager
        /\ t.next_prepare_instance = s.next_prepare_instance
        /\ t.chosens = s.chosens /\ t.trim_instance = s.trim_instance
    BY SMT DEF ProposerState
  <2> HIDE DEF t, t0
  <2>7. Restarted(V, s, t, i0, b)
    BY Zenon, <2>1, <2>3, <2>4, <2>5, <2>6 DEF Restarted, Keeps
  <2> QED  BY Zenon, <2>2, <2>7 DEF t0
<1> QED  BY Zenon, <1>3, <1>4

(* The prepare at the new ballot is above everything p sent in i.          *)
LEMMA PreemptedKeepsOrder ==
  ASSUME NEW V, NEW p, NEW s, NEW M, NEW R, OrderInv(V, p, s, M, R),
         NEW m, m.iid \in Instances, Preempts(s, m), m.attempted_ballot \in Ballot,
         NEW b \in BallotsOf(p), b.number > m.attempted_ballot.number
  PROVE  OrderInv(V, p, ReceivePreempted(s, m, b), M, R \cup {PrepareMsg(m.iid, b)})
<1> DEFINE j == m.iid
           t == ReceivePreempted(s, m, b)
           pe == s.prepare_phase[j]
           ae == s.accept_phase[j]
           a == m.attempted_ballot
           S == R \cup {PrepareMsg(j, b)}
<1>1. /\ s \in ProposerState(V) /\ R \subseteq PrepareMsgs(p) /\ OneValue(V, p, M)
      /\ EntryOrder(V, p, j, pe, ae, s.next_prepare_instance, M, R)
      /\ b \in UsedBallots
  BY Zenon DEF OrderInv, BallotsOf
<1>2. /\ pe = NULL \/ ae = NULL
      /\ ae # NULL => ae.proposing_value \in V
  BY Zenon, <1>1 DEF EntryOrder
<1>3. /\ t \in ProposerState(V)
      /\ t.prepare_phase[j].ballot = b /\ t.accept_phase[j] = NULL
      /\ \A i \in Instances \ {j} : /\ t.prepare_phase[i] = s.prepare_phase[i]
                                    /\ t.accept_phase[i] = s.accept_phase[i]
      /\ t.next_prepare_instance = s.next_prepare_instance
  <2>1. Restarted(V, s, t, j, b)
    BY Zenon, <1>1, <1>2, PreemptedEffect
  <2> QED  BY Zenon, <2>1 DEF Restarted
<1> HIDE DEF t
<1>4. Highest(V, p, j, a, M, R) /\ ~ (j >= s.next_prepare_instance)
  <2>1. PICK e \in {pe, ae} : e # NULL /\ ballot_equal(a, e.ballot)
    BY Zenon DEF Preempts, PreemptsEntry
  <2>2. e \in Info(V)
    <3>1. pe \in Info(V) \cup {NULL} /\ ae \in Info(V) \cup {NULL}
      BY Zenon, <1>1, StateParts
    <3> QED  BY Zenon, <2>1, <3>1
  <2>3. e.ballot = a
    BY SMT, <2>1, <2>2 DEF Info, UsedBallots, Ballot, ballot_equal
  <2> HIDE DEF pe, ae
  <2> QED  BY Zenon, <1>1, <2>1, <2>3 DEF EntryOrder
<1>5. \A i \in Instances, c \in BallotsOf(p) :
        Prep(S, i, c) => Prep(R, i, c) \/ (i = j /\ c = b)
  BY SMT DEF Prep, PrepareMsg
<1>6. \A c \in BallotsOf(p) : geq(a, c) => geq(b, c) /\ c # b
  <2>1. \A c \in BallotsOf(p) : c.number \in Nat /\ c.proposer_id \in Nat
    BY Zenon DEF BallotsOf, UsedBallots, Ballot
  <2>2. a.number \in Nat
    BY Zenon DEF Ballot
  <2> QED  BY SMT, <2>1, <2>2 DEF geq, ballot_greater_than_or_equal
<1>7. geq(b, b)
  <2>1. b.number \in Nat /\ b.proposer_id \in Nat
    BY Zenon DEF BallotsOf, UsedBallots, Ballot
  <2> QED  BY SMT, <2>1 DEF geq, ballot_greater_than_or_equal
<1>8. Highest(V, p, j, b, M, S) /\ \A v \in V : ~ Acc(M, j, b, v)
  BY Zenon, <1>4, <1>5, <1>6, <1>7 DEF Highest
<1>9. ASSUME NEW i \in Instances
      PROVE  EntryOrder(V, p, i, t.prepare_phase[i], t.accept_phase[i],
                        t.next_prepare_instance, M, S)
  <2>1. CASE i = j
    BY Zenon, <1>3, <1>4, <1>8, <2>1 DEF EntryOrder
  <2>2. CASE i # j
    <3>1. EntryOrder(V, p, i, s.prepare_phase[i], s.accept_phase[i],
                     s.next_prepare_instance, M, R)
      BY Zenon DEF OrderInv
    <3>2. Same(V, p, i, M, R, M, S)
      BY Zenon, <1>5, <2>2 DEF Same
    <3>3. /\ PrepareKept(s.prepare_phase[i], s.prepare_phase[i])
          /\ AcceptKept(s.accept_phase[i], s.accept_phase[i])
      BY Zenon DEF PrepareKept, AcceptKept
    <3>4. /\ i \in Nat /\ s.next_prepare_instance \in Nat
          /\ s.next_prepare_instance >= s.next_prepare_instance
      <4>1. i \in Nat /\ s.next_prepare_instance \in Nat
        BY Zenon, <1>1, StateParts, ProposerAssumption
      <4> QED  BY SMT, <4>1
    <3>5. EntryOrder(V, p, i, s.prepare_phase[i], s.accept_phase[i],
                     s.next_prepare_instance, M, S)
      BY Zenon, <3>1, <3>2, <3>3, <3>4, EntryOrderKept
    <3> QED  BY Zenon, <1>3, <2>2, <3>5
  <2> QED  BY Zenon, <2>1, <2>2
<1>10. S \subseteq PrepareMsgs(p)
  <2>1. PrepareMsg(j, b) \in PrepareMsgs(p)
    BY SMT DEF PrepareMsgs
  <2> QED  BY Zenon, <1>1, <2>1
<1> QED  BY Zenon, <1>1, <1>3, <1>9, <1>10 DEF OrderInv, t

-----------------------------------------------------------------------------
(* A ballot drawn above another is a ballot of the proposer that draws it. *)
LEMMA DrawnBallot ==
  ASSUME NEW p \in Proposers, NEW previous \in Ballot, NEW b \in NextBallots(p, previous)
  PROVE  b \in BallotsOf(p) /\ b.number > previous.number
<1>1. PICK n \in Int : b = [number |-> n, proposer_id |-> p] /\ n >= previous.number + 1
  BY SMT, ProposerAssumption DEF NextBallots, Ballot
<1>2. previous.number \in Nat /\ p \in Nat
  BY Zenon, ProposerAssumption DEF Ballot
<1> QED  BY SMT, <1>1, <1>2 DEF BallotsOf, UsedBallots, Ballot

(* The first ballot of an instance is one of the proposer's own.           *)
LEMMA DrawnInitially ==
  ASSUME NEW p \in Proposers, NEW draw \in Draws(p), NEW i \in Instances
  PROVE  draw[i] \in BallotsOf(p)
<1>1. draw[i] \in InitialBallots(p, i)
  BY Zenon DEF Draws
<1>2. p \in Nat /\ BallotBias \in Nat
  BY Zenon, ProposerAssumption
<1>3. [number |-> BallotBias, proposer_id |-> p] \in Ballot /\ INVALID_BALLOT \in Ballot
  BY SMT, <1>2 DEF Ballot, INVALID_BALLOT
<1> QED  BY Zenon, <1>1, <1>3, DrawnBallot DEF InitialBallots

(* What is sent in opening the window.                                     *)
LEMMA PreparesOnly ==
  ASSUME NEW p, NEW M, NEW X \in SUBSET PrepareMsgs(p), NEW i, NEW c
  PROVE  /\ \A v : Acc(M \cup X, i, c, v) <=> Acc(M, i, c, v)
         /\ Prep(M \cup X, i, c) <=> Prep(M, i, c) \/ Prep(X, i, c)
<1>1. \A m \in X : m.type # "ACCEPT"
  BY SMT DEF PrepareMsgs, PrepareMsg
<1> QED  BY Zenon, <1>1 DEF Acc, Prep

(* Instance i0, the next one, is opened at ballot b.                       *)
LEMMA OpenKeepsOrder ==
  ASSUME NEW V, NEW p, NEW s, NEW M, NEW R, OrderInv(V, p, s, M, R),
         NEW i0 \in Instances, i0 = s.next_prepare_instance, NEW b \in BallotsOf(p),
         NEW t \in ProposerState(V), t.next_prepare_instance > s.next_prepare_instance,
         t.prepare_phase[i0].ballot = b, t.accept_phase = s.accept_phase,
         \A i \in Instances \ {i0} : t.prepare_phase[i] = s.prepare_phase[i],
         NEW X \in SUBSET {PrepareMsg(i0, b)}, NEW Y \in SUBSET {PrepareMsg(i0, b)}
  PROVE  OrderInv(V, p, t, M \cup X, R \cup Y)
<1> DEFINE n == s.next_prepare_instance
<1>1. /\ n \in Nat /\ t.next_prepare_instance \in Nat /\ i0 \in Nat
      /\ i0 >= n /\ ~ (i0 >= t.next_prepare_instance) /\ t.next_prepare_instance >= n
  <2>1. /\ n \in Nat /\ t.next_prepare_instance \in Nat /\ i0 \in Nat
    BY Zenon, StateParts, ProposerAssumption DEF OrderInv
  <2> QED  BY SMT, <2>1
<1>2. /\ s.prepare_phase[i0] = NULL /\ s.accept_phase[i0] = NULL
      /\ Untouched(V, p, i0, M, R)
  BY Zenon, <1>1 DEF OrderInv, EntryOrder
<1>3. PrepareMsg(i0, b) \in PrepareMsgs(p)
  BY SMT DEF PrepareMsgs
<1>4. X \in SUBSET PrepareMsgs(p) /\ Y \in SUBSET PrepareMsgs(p)
  BY Zenon, <1>3
<1>5. \A Z \in SUBSET {PrepareMsg(i0, b)} : \A i, c : Prep(Z, i, c) => i = i0 /\ c = b
  BY SMT DEF Prep, PrepareMsg
<1>6. /\ \A i, c, v : Acc(M \cup X, i, c, v) <=> Acc(M, i, c, v)
      /\ \A i, c : Prep(M \cup X, i, c) => Prep(M, i, c) \/ (i = i0 /\ c = b)
      /\ \A i, c : Prep(R \cup Y, i, c) => Prep(R, i, c) \/ (i = i0 /\ c = b)
  <2>1. \A i, c, v : Acc(M \cup X, i, c, v) <=> Acc(M, i, c, v)
    BY Zenon, <1>4, PreparesOnly
  <2>2. \A i, c : Prep(M \cup X, i, c) => Prep(M, i, c) \/ Prep(X, i, c)
    BY Zenon, <1>4, PreparesOnly
  <2>3. \A i, c : Prep(R \cup Y, i, c) => Prep(R, i, c) \/ Prep(Y, i, c)
    BY Zenon, <1>4, PreparesOnly
  <2> QED  BY Zenon, <1>5, <2>1, <2>2, <2>3
<1>7. geq(b, b)
  <2>1. b.number \in Nat /\ b.proposer_id \in Nat
    BY Zenon DEF BallotsOf, UsedBallots, Ballot
  <2> QED  BY SMT, <2>1 DEF geq, ballot_greater_than_or_equal
<1>8. ASSUME NEW i \in Instances
      PROVE  EntryOrder(V, p, i, t.prepare_phase[i], t.accept_phase[i],
                        t.next_prepare_instance, M \cup X, R \cup Y)
  <2>1. CASE i = i0
    <3>1. Highest(V, p, i0, b, M \cup X, R \cup Y) /\ \A v \in V : ~ Acc(M \cup X, i0, b, v)
      <4> DEFINE N == M \cup X
                 Q == R \cup Y
      <4>1. \A c \in BallotsOf(p) :
              (Prep(N, i0, c) => c = b) /\ (Prep(Q, i0, c) => c = b)
              /\ \A v \in V : ~ Acc(N, i0, c, v)
        BY Zenon, <1>2, <1>6 DEF Untouched
      <4> HIDE DEF N, Q
      <4>2. Highest(V, p, i0, b, N, Q) /\ \A v \in V : ~ Acc(N, i0, b, v)
        BY Zenon, <1>7, <4>1 DEF Highest
      <4> QED  BY Zenon, <4>2 DEF N, Q
    <3> QED  BY Zenon, <1>1, <1>2, <2>1, <3>1 DEF EntryOrder
  <2>2. CASE i # i0
    <3>1. EntryOrder(V, p, i, s.prepare_phase[i], s.accept_phase[i], n, M, R)
      BY Zenon DEF OrderInv
    <3>2. Same(V, p, i, M, R, M \cup X, R \cup Y)
      BY Zenon, <1>6, <2>2 DEF Same
    <3>3. /\ PrepareKept(s.prepare_phase[i], t.prepare_phase[i])
          /\ AcceptKept(s.accept_phase[i], t.accept_phase[i])
      BY Zenon, <2>2 DEF PrepareKept, AcceptKept
    <3>4. i \in Nat
      BY Zenon, ProposerAssumption
    <3> HIDE DEF n
    <3> QED  BY Zenon, <1>1, <3>1, <3>2, <3>3, <3>4, EntryOrderKept
  <2> QED  BY Zenon, <2>1, <2>2
<1>9. R \cup Y \subseteq PrepareMsgs(p) /\ OneValue(V, p, M \cup X)
  BY Zenon, <1>4, <1>6 DEF OrderInv, OneValue
<1> QED  BY Zenon, <1>8, <1>9 DEF OrderInv

(* What preexecution makes of s: the entries of s, fresh entries, and the  *)
(* prepares of those, sent or waiting for a backoff.                       *)
Fresh(s, t) ==
  /\ t.accept_phase = s.accept_phase
  /\ \A i \in Instances :
       \/ t.prepare_phase[i] = s.prepare_phase[i]
       \/ t.prepare_phase[i].acks = {} /\ t.prepare_phase[i].last_accepted_value = NULL
  /\ t.chosens = s.chosens /\ t.trim_instance = s.trim_instance /\ t.manager = s.manager

Opening(V, p) ==
  [s : ProposerState(V), out : SUBSET PrepareMsgs(p), delayed : SUBSET PrepareMsgs(p), count : Int]

Opens(V, p, s, M, R) ==
  {acc \in Opening(V, p) :
     /\ OrderInv(V, p, acc.s, M \cup acc.out, R \cup acc.delayed)
     /\ Fresh(s, acc.s)}

(* One turn of the loop of proposer_preexecute opens an instance, skips    *)
(* one, or does nothing.                                                   *)
LEMMA PreexecuteStepOpens ==
  ASSUME NEW V, NEW p \in Proposers, NEW s, NEW M, NEW R, NEW draw \in Draws(p),
         NEW acc \in Opens(V, p, s, M, R)
  PROVE  PreexecuteStep(p, acc, draw) \in Opens(V, p, s, M, R)
<1> DEFINE u == acc.s
           i == u.next_prepare_instance
           b == draw[i]
           skips == Cardinality({k \in 1 .. 3 :
                      \/ k = 1 /\ i <= u.trim_instance
                      \/ k = 2 /\ i \in u.chosens
                      \/ k = 3 /\ u.accept_phase[i] # NULL})
           delay == Allocated(p, i) /\ RoundRobinBackoff
           X == IF delay THEN {} ELSE {PrepareMsg(i, b)}
           Y == IF delay THEN {PrepareMsg(i, b)} ELSE {}
           started == [u EXCEPT !.prepare_phase[i] = NewInfo(b),
                                !.next_prepare_instance = @ + skips]
           next == [started EXCEPT !.next_prepare_instance = @ + 1]
<1>1. /\ acc \in Opening(V, p) /\ u \in ProposerState(V)
      /\ acc.out \in SUBSET PrepareMsgs(p) /\ acc.delayed \in SUBSET PrepareMsgs(p)
      /\ acc.count \in Int
      /\ OrderInv(V, p, u, M \cup acc.out, R \cup acc.delayed) /\ Fresh(s, u)
  BY Zenon DEF Opens, Opening
<1>2. CASE acc.count <= 0 \/ i \notin Instances
  <2>1. ~ (acc.count > 0 /\ i \in Instances)
    BY SMT, <1>1, <1>2
  <2>2. PreexecuteStep(p, acc, draw) = acc
    BY Zenon, <1>2, <2>1 DEF PreexecuteStep
  <2> QED  BY Zenon, <2>2
<1>3. CASE acc.count > 0 /\ i \in Instances
  <2>1. i \in Nat /\ i >= i
    <3>1. i \in Nat
      BY Zenon, <1>1, StateParts
    <3> QED  BY SMT, <3>1
  <2>2. u.prepare_phase[i] = NULL
    BY Zenon, <1>1, <1>3, <2>1 DEF OrderInv, EntryOrder
  <2>3. b \in BallotsOf(p)
    BY Zenon, <1>3, DrawnInitially
  <2> DEFINE r == [s |-> next, count |-> acc.count - 1,
                   out |-> acc.out \cup X, delayed |-> acc.delayed \cup Y]
  <2>4. PreexecuteStep(p, acc, draw) = r
    <3>1. TryToStartPreparing(u, i, b) = started
      BY Zenon, <2>2 DEF TryToStartPreparing
    <3>2. ~ (acc.count <= 0)
      BY SMT, <1>1, <1>3
    <3>3. PreexecuteStep(p, acc, draw) =
            [s |-> next, count |-> acc.count - 1,
             out |-> IF delay THEN acc.out ELSE acc.out \cup {PrepareMsg(i, b)},
             delayed |-> IF delay THEN acc.delayed \cup {PrepareMsg(i, b)} ELSE acc.delayed]
      <4> HIDE DEF started
      <4> QED  BY Zenon, <1>3, <2>2, <3>1, <3>2 DEF PreexecuteStep
    <3> HIDE DEF next, delay, b, i
    <3>4. /\ (IF delay THEN acc.out ELSE acc.out \cup {PrepareMsg(i, b)}) = acc.out \cup X
          /\ (IF delay THEN acc.delayed \cup {PrepareMsg(i, b)} ELSE acc.delayed) = acc.delayed \cup Y
      BY Zenon
    <3> QED  BY Zenon, <3>3, <3>4
  <2>5. skips \in Nat
    <3> DEFINE K == {k \in 1 .. 3 : \/ k = 1 /\ i <= u.trim_instance
                                    \/ k = 2 /\ i \in u.chosens
                                    \/ k = 3 /\ u.accept_phase[i] # NULL}
    <3>1. IsFiniteSet(1 .. 3)
      <4>1. 1 \in Int /\ 3 \in Int
        BY SMT
      <4> QED  BY Zenon, <4>1, FS_Interval
    <3>2. K \subseteq 1 .. 3
      BY Zenon
    <3> QED  BY Zenon, <3>1, <3>2, FS_Subset, FS_CardinalityType
  <2>6. NewInfo(b) \in Info(V) /\ NewInfo(b).ballot = b /\ NewInfo(b).acks = {}
        /\ NewInfo(b).last_accepted_value = NULL
    <3>1. b \in UsedBallots /\ INVALID_BALLOT \in Ballot
      BY SMT, <2>3 DEF BallotsOf, Ballot, INVALID_BALLOT
    <3> HIDE DEF b
    <3> QED  BY SMT, <3>1 DEF NewInfo, Info
  <2> DEFINE e == NewInfo(b)
             pp == [u.prepare_phase EXCEPT ![i] = e]
             nn == i + skips + 1
  <2>7. /\ pp \in Phase(V) /\ pp[i] = e
        /\ \A j \in Instances \ {i} : pp[j] = u.prepare_phase[j]
    <3>1. u.prepare_phase \in Phase(V)
      BY Zenon, <1>1, StateParts
    <3> HIDE DEF e, u, i
    <3> QED  BY Zenon, <1>3, <2>6, <3>1 DEF Phase, e
  <2>8. nn \in Nat /\ nn > i
    <3> HIDE DEF skips, i
    <3> QED  BY SMT, <2>1, <2>5
  <2> DEFINE v == [u EXCEPT !.prepare_phase = pp, !.next_prepare_instance = i + skips]
  <2>9. next = [v EXCEPT !.next_prepare_instance = @ + 1]
    BY Zenon
  <2>10. i + skips \in Nat
    <3> HIDE DEF skips, i
    <3> QED  BY SMT, <2>1, <2>5
  <2> HIDE DEF pp, next
  <2>11. /\ v \in ProposerState(V)
         /\ v.prepare_phase = pp /\ v.next_prepare_instance = i + skips
         /\ v.accept_phase = u.accept_phase /\ v.manager = u.manager
         /\ v.chosens = u.chosens /\ v.trim_instance = u.trim_instance
    <3> HIDE DEF u, skips
    <3>1. v \in ProposerState(V)
      BY Zenon, <1>1, <2>7, <2>10 DEF ProposerState
    <3>2. /\ v.prepare_phase = pp /\ v.next_prepare_instance = i + skips
          /\ v.accept_phase = u.accept_phase /\ v.manager = u.manager
          /\ v.chosens = u.chosens /\ v.trim_instance = u.trim_instance
      BY SMT, <1>1 DEF ProposerState
    <3> QED  BY Zenon, <3>1, <3>2
  <2> HIDE DEF v
  <2>12. /\ next \in ProposerState(V)
         /\ next.prepare_phase = pp /\ next.next_prepare_instance = nn
         /\ next.accept_phase = u.accept_phase /\ next.manager = u.manager
         /\ next.chosens = u.chosens /\ next.trim_instance = u.trim_instance
    <3> HIDE DEF u, skips, i
    <3> QED  BY SMT, <2>8, <2>9, <2>11 DEF ProposerState
  <2> HIDE DEF nn
  <2>13. Fresh(s, next)
    <3> HIDE DEF u, i, e
    <3>1. e.acks = {} /\ e.last_accepted_value = NULL
      BY Zenon, <2>6 DEF e
    <3> QED  BY Zenon, <1>1, <2>7, <2>12, <3>1 DEF Fresh
  <2>14. X \in SUBSET {PrepareMsg(i, b)} /\ Y \in SUBSET {PrepareMsg(i, b)}
    BY Zenon
  <2>15. OrderInv(V, p, next, (M \cup acc.out) \cup X, (R \cup acc.delayed) \cup Y)
    <3>1. next.prepare_phase[i].ballot = b /\ next.next_prepare_instance > u.next_prepare_instance
      BY Zenon, <2>6, <2>7, <2>8, <2>12
    <3>2. \A j \in Instances \ {i} : next.prepare_phase[j] = u.prepare_phase[j]
      BY Zenon, <2>7, <2>12
    <3> HIDE DEF X, Y, b, e
    <3> QED  BY Zenon, <1>1, <1>3, <2>3, <2>12, <2>14, <3>1, <3>2, OpenKeepsOrder
  <2>16. /\ (M \cup acc.out) \cup X = M \cup (acc.out \cup X)
         /\ (R \cup acc.delayed) \cup Y = R \cup (acc.delayed \cup Y)
    <3> HIDE DEF X, Y
    <3> QED  BY Zenon
  <2>17. acc.out \cup X \in SUBSET PrepareMsgs(p) /\ acc.delayed \cup Y \in SUBSET PrepareMsgs(p)
    <3>1. PrepareMsg(i, b) \in PrepareMsgs(p)
      <4> HIDE DEF i, b
      <4> QED  BY SMT, <1>3, <2>3 DEF PrepareMsgs
    <3> HIDE DEF X, Y
    <3> QED  BY Zenon, <1>1, <2>14, <3>1
  <2>18. acc.count - 1 \in Int
    BY SMT, <1>1
  <2> HIDE DEF X, Y
  <2>19. /\ r \in Opening(V, p)
         /\ r.s = next /\ r.out = acc.out \cup X /\ r.delayed = acc.delayed \cup Y
    BY Zenon, <2>12, <2>17, <2>18 DEF Opening
  <2> HIDE DEF r
  <2> QED  BY Zenon, <2>4, <2>13, <2>15, <2>16, <2>19 DEF Opens
<1> QED
  <2>1. acc.count <= 0 \/ i \notin Instances \/ (acc.count > 0 /\ i \in Instances)
    BY SMT, <1>1
  <2> QED  BY Zenon, <1>2, <1>3, <2>1

(* Preexecution opens instances and nothing else.                          *)
LEMMA PreexecuteOpens ==
  ASSUME NEW V, NEW p \in Proposers, NEW s, NEW M, NEW R, OrderInv(V, p, s, M, R),
         NEW window \in Nat, NEW draw \in Draws(p)
  PROVE  Preexecute(p, s, window, draw) \in Opens(V, p, s, M, R)
<1> DEFINE n == Cardinality(Instances)
           count == window - (Cardinality(Preparing(s)) + Cardinality(Accepting(s)))
           begin == [s |-> s, out |-> {}, delayed |-> {}, count |-> count]
           F(f) == [k \in 0 .. n |->
                      IF k = 0 THEN begin ELSE PreexecuteStep(p, f[k - 1], draw)]
           after == CHOOSE f : f = F(f)
           T == Opens(V, p, s, M, R)
           g == [k \in 1 .. n |-> [acc \in T |-> PreexecuteStep(p, acc, draw)]]
<1>1. Preexecute(p, s, window, draw) = after[n]
  BY Zenon DEF Preexecute
<1>n. n \in Nat
  BY Zenon, ProposerAssumption, FS_CardinalityType
<1>2. begin \in T
  <2>1. count \in Int
    <3>1. Preparing(s) \subseteq Instances /\ Accepting(s) \subseteq Instances
      BY Zenon DEF Preparing, Accepting
    <3>2. Cardinality(Preparing(s)) \in Nat /\ Cardinality(Accepting(s)) \in Nat
      BY Zenon, <3>1, ProposerAssumption, FS_Subset, FS_CardinalityType
    <3> QED  BY SMT, <3>2
  <2> HIDE DEF count
  <2>2. begin \in Opening(V, p) /\ begin.s = s /\ begin.out = {} /\ begin.delayed = {}
    BY Zenon, <2>1 DEF Opening, OrderInv
  <2> HIDE DEF begin
  <2>3. M \cup {} = M /\ R \cup {} = R
    BY Zenon
  <2>4. OrderInv(V, p, begin.s, M \cup begin.out, R \cup begin.delayed)
    BY Zenon, <2>2, <2>3
  <2>5. Fresh(s, begin.s)
    BY Zenon, <2>2 DEF Fresh
  <2> QED  BY Zenon, <2>2, <2>4, <2>5 DEF Opens
<1>3. ASSUME NEW acc \in T  PROVE PreexecuteStep(p, acc, draw) \in T
  BY Zenon, PreexecuteStepOpens
<1> HIDE DEF T, n, begin
<1>4. after = F(after)
  <2>1. \A k \in 1 .. n, t \in T : g[k][t] \in T
    BY Zenon, <1>3
  <2>2. PICK f : Rounds(f, T, begin, n, g)
    <3> HIDE DEF g
    <3> QED  BY Zenon, <1>n, <1>2, <2>1, Iterates
  <2>3. ASSUME NEW k \in 0 .. n  PROVE F(f)[k] = f[k]
    <3>1. CASE k = 0
      BY Zenon, <2>2, <3>1 DEF Rounds
    <3>2. CASE k # 0
      <4>1. k \in 1 .. n /\ k - 1 \in 0 .. n
        BY SMT, <1>n, <3>2
      <4> QED  BY Zenon, <2>2, <3>2, <4>1 DEF Rounds
    <3> QED  BY Zenon, <3>1, <3>2
  <2>4. f = [k \in 0 .. n |-> f[k]] /\ F(f) = [k \in 0 .. n |-> F(f)[k]]
    BY Zenon, <2>2 DEF Rounds
  <2>5. f = F(f)
    BY Zenon, <2>3, <2>4
  <2> QED  BY Zenon, <2>5
<1>5. after[0] = begin /\ \A k \in 1 .. n : after[k] = PreexecuteStep(p, after[k - 1], draw)
  <2> DEFINE w == after
  <2>1. w = F(w)
    BY Zenon, <1>4
  <2> HIDE DEF w
  <2>2. w[0] = begin
    BY SMT, <1>n, <2>1
  <2>3. ASSUME NEW k \in 1 .. n  PROVE w[k] = PreexecuteStep(p, w[k - 1], draw)
    <3>1. k \in 0 .. n /\ k # 0
      BY SMT, <1>n
    <3> QED  BY Zenon, <2>1, <3>1
  <2> QED  BY Zenon, <2>2, <2>3 DEF w
<1> HIDE DEF after
<1>6. after[n] \in T
  <2>1. after[0] \in T /\ \A k \in 1 .. n : after[k - 1] \in T => after[k] \in T
    BY Zenon, <1>2, <1>3, <1>5
  <2> QED  BY Zenon, <1>n, <2>1, StaysIn
<1> QED  BY Zenon, <1>1, <1>6 DEF T

-----------------------------------------------------------------------------
(* Acceptor a promised ballot b of i and reported a vote at vb; acceptors  *)
(* voted for v at ballot b of i.                                           *)
Prom(M, a, i, b, vb) ==
  \E m \in M : /\ m.type = "PROMISE" /\ m.aid = a /\ m.iid = i /\ m.ballot = b
               /\ m.value_ballot = vb

Voters(M, i, b, v) ==
  {a \in Acceptors : \E m \in M : /\ m.type = "ACCEPTED" /\ m.aid = a
                                  /\ m.iid = i /\ m.ballot = b /\ m.value = v}

(* Why v may be proposed in i at ballot b: the acceptors in Q promised b   *)
(* and reported no vote, or none above a ballot at which v was proposed.   *)
Reason(M, i, b, v, Q) ==
  \/ \A a \in Q : Prom(M, a, i, b, INVALID_BALLOT)
  \/ \E c \in UsedBallots :
       /\ ballot_greater_than(b, c) /\ Acc(M, i, c, v)
       /\ \A a \in Q : \E vb \in Ballot : Prom(M, a, i, b, vb) /\ geq(c, vb)

Safe(M, i, b, v) ==
  \E Q \in SUBSET Acceptors :
    (Cardinality(Q) >= q1 \/ Cardinality(Q) >= q2) /\ Reason(M, i, b, v, Q)

(* What an entry of phase 1, and of phase 2, of instance i rests on.  ign  *)
(* is TRUE once a reported vote was dropped.                               *)
PrepareReason(i, e, M, ign) ==
  /\ \A a \in e.acks : \E vb \in Ballot :
       Prom(M, a, i, e.ballot, vb) /\ geq(e.last_accepted_ballot, vb)
  /\ e.last_accepted_value = NULL /\ ~ ign =>
       \A a \in e.acks : Prom(M, a, i, e.ballot, INVALID_BALLOT)
  /\ e.last_accepted_value # NULL =>
       /\ e.last_accepted_ballot \in UsedBallots
       /\ ballot_greater_than(e.ballot, e.last_accepted_ballot)
       /\ Acc(M, i, e.last_accepted_ballot, e.last_accepted_value)

AcceptReason(i, e, M) ==
  e.quorum = q2 /\ e.acks \subseteq Voters(M, i, e.ballot, e.proposing_value)

ReasonInv(V, p, s, M, ign) ==
  /\ \A i \in Instances :
       /\ s.prepare_phase[i] # NULL => PrepareReason(i, s.prepare_phase[i], M, ign)
       /\ s.accept_phase[i] # NULL => AcceptReason(i, s.accept_phase[i], M)
  /\ ~ ign => \A i \in Instances, b \in BallotsOf(p), v \in V :
                Acc(M, i, b, v) => Safe(M, i, b, v)

(* More messages refute no reason.                                         *)
LEMMA ReasonsGrow ==
  ASSUME NEW M, NEW N, M \subseteq N
  PROVE  /\ \A i, b, v : Acc(M, i, b, v) => Acc(N, i, b, v)
         /\ \A i, b, v : Voters(M, i, b, v) \subseteq Voters(N, i, b, v)
         /\ \A i, b, v : Safe(M, i, b, v) => Safe(N, i, b, v)
         /\ \A i, e, ign : PrepareReason(i, e, M, ign) => PrepareReason(i, e, N, ign)
         /\ \A i, e : AcceptReason(i, e, M) => AcceptReason(i, e, N)
<1>1. \A i, b, v : Acc(M, i, b, v) => Acc(N, i, b, v)
  BY Zenon DEF Acc
<1>2. \A a, i, b, vb : Prom(M, a, i, b, vb) => Prom(N, a, i, b, vb)
  BY Zenon DEF Prom
<1>3. \A i, b, v : Voters(M, i, b, v) \subseteq Voters(N, i, b, v)
  BY Zenon DEF Voters
<1>4. \A i, b, v : Safe(M, i, b, v) => Safe(N, i, b, v)
  <2>1. \A i, b, v, Q : Reason(M, i, b, v, Q) => Reason(N, i, b, v, Q)
    BY Zenon, <1>1, <1>2 DEF Reason
  <2> QED  BY Zenon, <2>1 DEF Safe
<1>5. \A i, e, ign : PrepareReason(i, e, M, ign) => PrepareReason(i, e, N, ign)
  BY Zenon, <1>1, <1>2 DEF PrepareReason
<1>6. \A i, e : AcceptReason(i, e, M) => AcceptReason(i, e, N)
  BY Zenon, <1>3 DEF AcceptReason
<1> QED  BY Zenon, <1>1, <1>3, <1>4, <1>5, <1>6

(* Messages of others, and prepares, do not touch what p proposed.         *)
LEMMA ReasonKept ==
  ASSUME NEW V, NEW p, NEW s, NEW M, NEW ign, ReasonInv(V, p, s, M, ign),
         NEW N, M \subseteq N,
         \A i \in Instances, b \in BallotsOf(p), v \in V : Acc(N, i, b, v) => Acc(M, i, b, v)
  PROVE  ReasonInv(V, p, s, N, ign)
<1>1. \A i, b, v : Safe(M, i, b, v) => Safe(N, i, b, v)
  BY Zenon, ReasonsGrow
<1>2. \A i, e : PrepareReason(i, e, M, ign) => PrepareReason(i, e, N, ign)
  BY Zenon, ReasonsGrow
<1>3. \A i, e : AcceptReason(i, e, M) => AcceptReason(i, e, N)
  BY Zenon, ReasonsGrow
<1> QED  BY Zenon, <1>1, <1>2, <1>3 DEF ReasonInv

(* Dropping entries, opening instances and starting one again.             *)
LEMMA ReasonDropped ==
  ASSUME NEW V, NEW p, NEW s, NEW M, NEW ign, ReasonInv(V, p, s, M, ign), NEW t, Drops(s, t)
  PROVE  ReasonInv(V, p, t, M, ign)
BY Zenon DEF ReasonInv, Drops

(* An entry without promises has nothing to account for.                   *)
LEMMA FreshReason ==
  ASSUME NEW i, NEW e, e.acks = {}, e.last_accepted_value = NULL, NEW M, NEW ign
  PROVE  PrepareReason(i, e, M, ign)
BY Zenon DEF PrepareReason

(* Opened instances have no promises yet.                                  *)
LEMMA ReasonFresh ==
  ASSUME NEW V, NEW p, NEW s, NEW M, NEW ign, ReasonInv(V, p, s, M, ign), NEW t, Fresh(s, t)
  PROVE  ReasonInv(V, p, t, M, ign)
BY Zenon, FreshReason DEF ReasonInv, Fresh

(* A preempted instance starts again without promises.                     *)
LEMMA ReasonRestarted ==
  ASSUME NEW V, NEW p, NEW s, NEW M, NEW ign, ReasonInv(V, p, s, M, ign),
         NEW t, NEW i0 \in Instances, NEW b, Restarted(V, s, t, i0, b)
  PROVE  ReasonInv(V, p, t, M, ign)
BY Zenon, FreshReason DEF ReasonInv, Restarted

(* Counting an acceptance of the value the entry proposes.                 *)
LEMMA ReasonCounted ==
  ASSUME NEW V, NEW p, NEW s \in ProposerState(V), NEW M, NEW ign, ReasonInv(V, p, s, M, ign),
         NEW ack, ack.iid \in Instances, ack.aid \in Acceptors,
         s.accept_phase[ack.iid] # NULL,
         ack.aid \in Voters(M, ack.iid, s.accept_phase[ack.iid].ballot,
                            s.accept_phase[ack.iid].proposing_value)
  PROVE  ReasonInv(V, p, CountedState(s, ack), M, ign)
<1> DEFINE t == CountedState(s, ack)
           j == ack.iid
           e == s.accept_phase[j]
           f == t.accept_phase[j]
<1>1. /\ t.prepare_phase = s.prepare_phase
      /\ \A i \in Instances \ {j} : t.accept_phase[i] = s.accept_phase[i]
      /\ f.acks = e.acks \cup {ack.aid} /\ f.quorum = e.quorum /\ f.ballot = e.ballot
      /\ f.proposing_value = e.proposing_value
  <2>1. Counted(V, s, t, ack)
    BY Zenon, CountedEffect
  <2> HIDE DEF t
  <2> QED  BY Zenon, <2>1 DEF Counted
<1> HIDE DEF t
<1>2. AcceptReason(j, e, M)
  BY Zenon DEF ReasonInv
<1>3. AcceptReason(j, f, M)
  BY Zenon, <1>1, <1>2 DEF AcceptReason
<1>4. \A i \in Instances : t.accept_phase[i] # NULL => AcceptReason(i, t.accept_phase[i], M)
  BY Zenon, <1>1, <1>3 DEF ReasonInv
<1> QED  BY Zenon, <1>1, <1>4 DEF ReasonInv, t

(* A PROMISE that answers a prepare and reports a vote that was asked for, *)
(* or none.                                                                *)
PromiseOK(V, p, m, M) ==
  /\ m \in M /\ m.type = "PROMISE" /\ m.iid \in Instances /\ m.aid \in Acceptors
  /\ m.ballot \in BallotsOf(p) /\ Prep(M, m.iid, m.ballot)
  /\ m.value_ballot \in Ballot /\ geq(m.ballot, m.value_ballot)
  /\ \/ m.value_ballot = INVALID_BALLOT /\ m.value = NULL
     \/ /\ m.value_ballot \in UsedBallots /\ m.value \in V
        /\ Acc(M, m.iid, m.value_ballot, m.value)

(* Two ballots, and no ballot, compare as they should.                     *)
LEMMA BallotOrder ==
  /\ \A b, c \in Ballot : /\ geq(b, b)
                          /\ ballot_greater_than(b, c) => geq(b, c) /\ b # c
                          /\ ~ ballot_greater_than(b, c) <=> geq(c, b)
                          /\ geq(b, c) /\ b # c => ballot_greater_than(b, c)
                          /\ geq(b, INVALID_BALLOT)
                          /\ ~ ballot_greater_than(INVALID_BALLOT, b)
  /\ \A b, c, d \in Ballot : geq(b, c) /\ geq(c, d) => geq(b, d)
<1>1. \A b \in Ballot : /\ b.number \in Nat /\ b.proposer_id \in Nat
                        /\ b = [number |-> b.number, proposer_id |-> b.proposer_id]
  BY SMT DEF Ballot
<1>2. \A b, c \in Ballot : b = c <=> b.number = c.number /\ b.proposer_id = c.proposer_id
  BY Zenon, <1>1
<1>3. INVALID_BALLOT.number = 0 /\ INVALID_BALLOT.proposer_id = 0
  BY SMT DEF INVALID_BALLOT
<1> HIDE DEF INVALID_BALLOT
<1>4. \A b \in Ballot : b.number \in Nat /\ b.proposer_id \in Nat
  BY Zenon, <1>1
<1>5. \A b, c \in Ballot : /\ geq(b, b)
                           /\ ballot_greater_than(b, c) => geq(b, c) /\ b # c
                           /\ ~ ballot_greater_than(b, c) <=> geq(c, b)
                           /\ geq(b, c) /\ b # c => ballot_greater_than(b, c)
                           /\ geq(b, INVALID_BALLOT)
                           /\ ~ ballot_greater_than(INVALID_BALLOT, b)
  BY SMT, <1>2, <1>3, <1>4 DEF geq, ballot_greater_than, ballot_greater_than_or_equal
<1>6. \A b, c, d \in Ballot : geq(b, c) /\ geq(c, d) => geq(b, d)
  BY SMT, <1>4 DEF geq, ballot_greater_than_or_equal
<1> QED  BY Zenon, <1>5, <1>6

(* The promise is a reason of the entry that counts it, unless the vote it *)
(* reports is dropped.                                                     *)
LEMMA ReasonPromise ==
  ASSUME NEW V, NULL \notin V, NEW p, NEW s, NEW M, NEW R, OrderInv(V, p, s, M, R),
         NEW ign \in BOOLEAN, ReasonInv(V, p, s, M, ign),
         NEW ack, PromiseOK(V, p, ack, M), NEW ign2 \in BOOLEAN,
         ign2 = (ign \/ (/\ ReceivePromise(s, ack) # s /\ ack.value # NULL
                         /\ s.prepare_phase[ack.iid].last_accepted_value = NULL
                         /\ ~ ballot_greater_than(ack.value_ballot,
                                s.prepare_phase[ack.iid].last_accepted_ballot)))
  PROVE  ReasonInv(V, p, ReceivePromise(s, ack), M, ign2)
<1> DEFINE j == ack.iid
           inst == s.prepare_phase[j]
           vb == ack.value_ballot
           reported == IF ballot_greater_than(vb, inst.last_accepted_ballot)
                       THEN [inst EXCEPT !.last_accepted_ballot = vb,
                                         !.last_accepted_value = ack.value]
                       ELSE inst
           e == [reported EXCEPT !.acks = @ \cup {ack.aid}]
           t == [s EXCEPT !.prepare_phase[j] = e]
           t0 == ReceivePromise(s, ack)
<1>1. s \in ProposerState(V) /\ j \in Instances
  BY Zenon DEF OrderInv, PromiseOK
<1>i. inst \in Info(V) \cup {NULL}
  BY Zenon, <1>1, StateParts
<1>2. \/ t0 = s
      \/ /\ inst # NULL /\ t0 = t /\ ~ ballot_greater_than(inst.ballot, ack.ballot)
         /\ ack.aid \notin inst.acks
  BY Zenon DEF ReceivePromise
<1>3. \A i, f : PrepareReason(i, f, M, ign) => PrepareReason(i, f, M, ign2)
  BY Zenon DEF PrepareReason
<1>4. ReasonInv(V, p, s, M, ign2)
  BY Zenon, <1>3 DEF ReasonInv
<1>5. ASSUME inst # NULL, t0 = t, ~ ballot_greater_than(inst.ballot, ack.ballot),
             ack.aid \notin inst.acks
      PROVE  ReasonInv(V, p, t0, M, ign2)
  <2>1. inst \in Info(V)
    BY Zenon, <1>i, <1>5
  <2>2. /\ inst.ballot \in Ballot /\ inst.last_accepted_ballot \in Ballot
        /\ ack.ballot \in Ballot /\ vb \in Ballot
    BY Zenon, <2>1 DEF Info, UsedBallots, PromiseOK, BallotsOf
  <2>3. Highest(V, p, j, inst.ballot, M, R) /\ \A v \in V : ~ Acc(M, j, inst.ballot, v)
    BY Zenon, <1>1, <1>5 DEF OrderInv, EntryOrder
  <2>4. ack.ballot = inst.ballot
    <3>1. geq(inst.ballot, ack.ballot)
      BY Zenon, <2>3 DEF Highest, PromiseOK
    <3> QED  BY Zenon, <1>5, <2>2, <3>1, BallotOrder
  <2>5. PrepareReason(j, inst, M, ign)
    BY Zenon, <1>1, <1>5 DEF ReasonInv
  <2> HIDE DEF inst
  <2>6. /\ reported \in Info(V) /\ reported.ballot = inst.ballot /\ reported.acks = inst.acks
        /\ IF ballot_greater_than(vb, inst.last_accepted_ballot)
           THEN reported.last_accepted_ballot = vb /\ reported.last_accepted_value = ack.value
           ELSE reported = inst
    <3>1. CASE ballot_greater_than(vb, inst.last_accepted_ballot)
      <4> DEFINE r == [inst EXCEPT !.last_accepted_ballot = vb, !.last_accepted_value = ack.value]
      <4>1. r \in Info(V)
        BY Zenon, <2>1, <2>2 DEF Info, PromiseOK
      <4>2. /\ r.ballot = inst.ballot /\ r.acks = inst.acks
            /\ r.last_accepted_ballot = vb /\ r.last_accepted_value = ack.value
        BY SMT, <2>1 DEF Info
      <4> HIDE DEF r
      <4>3. reported = r
        BY Zenon, <3>1 DEF r
      <4> HIDE DEF reported
      <4> QED  BY Zenon, <3>1, <4>1, <4>2, <4>3
    <3>2. CASE ~ ballot_greater_than(vb, inst.last_accepted_ballot)
      BY Zenon, <2>1, <3>2
    <3> QED  BY Zenon, <3>1, <3>2
  <2> HIDE DEF reported
  <2>7. /\ e \in Info(V) /\ e.ballot = inst.ballot /\ e.acks = inst.acks \cup {ack.aid}
        /\ e.last_accepted_ballot = reported.last_accepted_ballot
        /\ e.last_accepted_value = reported.last_accepted_value
    <3>1. ack.aid \in Acceptors
      BY Zenon DEF PromiseOK
    <3> QED  BY SMT, <2>6, <3>1 DEF Info
  <2> HIDE DEF e
  <2>8. /\ t.accept_phase = s.accept_phase
        /\ t.prepare_phase[j] = e
        /\ \A i \in Instances \ {j} : t.prepare_phase[i] = s.prepare_phase[i]
    <3>1. t.accept_phase = s.accept_phase /\ t.prepare_phase = [s.prepare_phase EXCEPT ![j] = e]
      BY SMT, <1>1, <2>7 DEF ProposerState, Phase
    <3>2. s.prepare_phase \in Phase(V)
      BY Zenon, <1>1, StateParts
    <3> HIDE DEF t
    <3> QED  BY Zenon, <1>1, <3>1, <3>2 DEF Phase
  <2> HIDE DEF t
  <2>9. t0 # s
    <3>1. SUFFICES ASSUME t = s  PROVE FALSE
      BY Zenon, <1>5
    <3>2. e = inst
      BY Zenon, <2>8, <3>1 DEF inst
    <3> QED  BY Zenon, <1>5, <2>7, <3>2
  <2>10. Prom(M, ack.aid, j, inst.ballot, vb)
    BY Zenon, <2>4 DEF Prom, PromiseOK
  <2>11. PrepareReason(j, e, M, ign2)
    <3>1. CASE ballot_greater_than(vb, inst.last_accepted_ballot)
      <4>1. e.last_accepted_ballot = vb /\ e.last_accepted_value = ack.value
        BY Zenon, <2>6, <2>7, <3>1
      <4>2. vb # INVALID_BALLOT
        BY Zenon, <2>2, <3>1, BallotOrder
      <4>3. vb \in UsedBallots /\ ack.value \in V /\ Acc(M, j, vb, ack.value) /\ ack.value # NULL
        BY Zenon, <4>2 DEF PromiseOK
      <4>4. vb # inst.ballot /\ geq(inst.ballot, vb)
        BY Zenon, <2>3, <2>4, <4>3 DEF PromiseOK
      <4>5. ballot_greater_than(inst.ballot, vb)
        BY Zenon, <2>2, <4>4, BallotOrder
      <4>6. ASSUME NEW a \in e.acks
            PROVE  \E c \in Ballot : Prom(M, a, j, inst.ballot, c) /\ geq(vb, c)
        <5>1. CASE a = ack.aid
          BY Zenon, <2>2, <2>10, <5>1, BallotOrder
        <5>2. CASE a \in inst.acks
          <6>1. PICK c \in Ballot : /\ Prom(M, a, j, inst.ballot, c)
                                    /\ geq(inst.last_accepted_ballot, c)
            BY Zenon, <2>5, <5>2 DEF PrepareReason
          <6>2. geq(vb, c)
            BY Zenon, <2>2, <3>1, <6>1, BallotOrder
          <6> QED  BY Zenon, <6>1, <6>2
        <5> QED  BY Zenon, <2>7, <5>1, <5>2
      <4> HIDE DEF vb
      <4> QED  BY Zenon, <2>7, <4>1, <4>3, <4>5, <4>6 DEF PrepareReason
    <3>2. CASE ~ ballot_greater_than(vb, inst.last_accepted_ballot)
      <4>1. /\ e.last_accepted_ballot = inst.last_accepted_ballot
            /\ e.last_accepted_value = inst.last_accepted_value
        BY Zenon, <2>6, <2>7, <3>2
      <4>2. geq(inst.last_accepted_ballot, vb)
        BY Zenon, <2>2, <3>2, BallotOrder
      <4>3. ASSUME NEW a \in e.acks
            PROVE  \E c \in Ballot : /\ Prom(M, a, j, inst.ballot, c)
                                     /\ geq(inst.last_accepted_ballot, c)
        BY Zenon, <2>2, <2>5, <2>7, <2>10, <4>2 DEF PrepareReason
      <4>4. ASSUME inst.last_accepted_value = NULL, ~ ign2, NEW a \in e.acks
            PROVE  Prom(M, a, j, inst.ballot, INVALID_BALLOT)
        <5>1. ack.value = NULL /\ ~ ign
          BY Zenon, <2>9, <3>2, <4>4 DEF inst
        <5>2. vb = INVALID_BALLOT
          BY Zenon, <5>1 DEF PromiseOK
        <5>3. \A x \in inst.acks : Prom(M, x, j, inst.ballot, INVALID_BALLOT)
          BY Zenon, <2>5, <4>4, <5>1 DEF PrepareReason
        <5> QED  BY Zenon, <2>7, <2>10, <5>2, <5>3
      <4> QED  BY Zenon, <2>5, <2>7, <4>1, <4>3, <4>4 DEF PrepareReason
    <3> QED  BY Zenon, <3>1, <3>2
  <2>12. \A i \in Instances :
           t.prepare_phase[i] # NULL => PrepareReason(i, t.prepare_phase[i], M, ign2)
    BY Zenon, <1>4, <2>8, <2>11 DEF ReasonInv
  <2> QED  BY Zenon, <1>4, <1>5, <2>8, <2>12 DEF ReasonInv
<1> QED  BY Zenon, <1>2, <1>4, <1>5

-----------------------------------------------------------------------------
(* In t instance i0 of s has moved to phase 2 with value v.                *)
Moved(V, s, t, i0, v) ==
  /\ t \in ProposerState(V)
  /\ t.prepare_phase[i0] = NULL
  /\ t.accept_phase[i0].ballot = s.prepare_phase[i0].ballot
  /\ t.accept_phase[i0].proposing_value = v
  /\ t.accept_phase[i0].quorum = q2 /\ t.accept_phase[i0].acks = {}
  /\ \A i \in Instances \ {i0} : /\ t.prepare_phase[i] = s.prepare_phase[i]
                                 /\ t.accept_phase[i] = s.accept_phase[i]
  /\ t.next_prepare_instance = s.next_prepare_instance
  /\ t.chosens = s.chosens /\ t.trim_instance = s.trim_instance
  /\ t.manager = s.manager

(* Moving an instance to phase 2 keeps its ballot and empties its quorum.  *)
LEMMA MoveEffect ==
  ASSUME NEW V, NEW s \in ProposerState(V), NEW i0 \in Instances, NEW v \in V,
         s.prepare_phase[i0] # NULL
  PROVE  Moved(V, s, MoveToAccept(s, i0, v), i0, v)
<1> DEFINE e == s.prepare_phase[i0]
           f == [e EXCEPT !.proposing_value = v, !.last_accepted_value = NULL,
                          !.quorum = q2, !.acks = {}]
           pp == [s.prepare_phase EXCEPT ![i0] = NULL]
           ap == [s.accept_phase EXCEPT ![i0] = f]
           t == [s EXCEPT !.prepare_phase = pp, !.accept_phase = ap]
<1>1. e \in Info(V) /\ s.prepare_phase \in Phase(V) /\ s.accept_phase \in Phase(V)
  BY Zenon, StateParts
<1>2. MoveToAccept(s, i0, v) = t
  BY Zenon DEF MoveToAccept
<1> HIDE DEF e
<1>3. f \in Info(V)
  BY Zenon, <1>1 DEF Info
<1>4. f.ballot = e.ballot /\ f.proposing_value = v /\ f.quorum = q2 /\ f.acks = {}
  BY SMT, <1>1 DEF Info
<1> HIDE DEF f
<1>5. /\ pp \in Phase(V) /\ ap \in Phase(V) /\ pp[i0] = NULL /\ ap[i0] = f
      /\ \A i \in Instances \ {i0} : pp[i] = s.prepare_phase[i] /\ ap[i] = s.accept_phase[i]
  BY Zenon, <1>1, <1>3 DEF Phase
<1> HIDE DEF pp, ap
<1>6. t \in ProposerState(V)
  BY Zenon, <1>5 DEF ProposerState
<1>7. /\ t.prepare_phase = pp /\ t.accept_phase = ap
      /\ t.next_prepare_instance = s.next_prepare_instance
      /\ t.chosens = s.chosens /\ t.trim_instance = s.trim_instance
      /\ t.manager = s.manager
  BY SMT DEF ProposerState
<1> HIDE DEF t
<1>8. Moved(V, s, t, i0, v)
  BY Zenon, <1>4, <1>5, <1>6, <1>7 DEF Moved, e
<1> QED  BY Zenon, <1>2, <1>8

(* The instance proposes v at its ballot, at which nothing was proposed.   *)
LEMMA MovedKeepsOrder ==
  ASSUME NEW V, NEW p, NEW s, NEW M, NEW R, OrderInv(V, p, s, M, R),
         NEW i0 \in Instances, s.prepare_phase[i0] # NULL, NEW v \in V,
         NEW t, Moved(V, s, t, i0, v)
  PROVE  OrderInv(V, p, t, M \cup {AcceptMsg(i0, s.prepare_phase[i0].ballot, v)}, R)
<1> DEFINE b == s.prepare_phase[i0].ballot
           N == M \cup {AcceptMsg(i0, b, v)}
           n == s.next_prepare_instance
<1>1. /\ Highest(V, p, i0, b, M, R) /\ \A w \in V : ~ Acc(M, i0, b, w)
      /\ s.accept_phase[i0] = NULL /\ ~ (i0 >= n)
  BY Zenon DEF OrderInv, EntryOrder
<1>2. b \in BallotsOf(p) /\ b \in Ballot
  BY Zenon, <1>1 DEF Highest, BallotsOf, UsedBallots
<1>3. /\ \A i, c : Prep(N, i, c) <=> Prep(M, i, c)
      /\ \A i, c, w : Acc(N, i, c, w) <=> Acc(M, i, c, w) \/ (i = i0 /\ c = b /\ w = v)
  <2> HIDE DEF b
  <2>1. /\ AcceptMsg(i0, b, v).type = "ACCEPT" /\ AcceptMsg(i0, b, v).iid = i0
        /\ AcceptMsg(i0, b, v).ballot = b /\ AcceptMsg(i0, b, v).value = v
    BY SMT DEF AcceptMsg
  <2>2. "ACCEPT" # "PREPARE"
    BY SMT
  <2>3. \A i, c : Prep(N, i, c) <=> Prep(M, i, c)
    BY Zenon, <2>1, <2>2 DEF Prep
  <2>4. \A i, c, w : Acc(N, i, c, w) <=> Acc(M, i, c, w) \/ (i = i0 /\ c = b /\ w = v)
    BY Zenon, <2>1 DEF Acc
  <2> QED  BY Zenon, <2>3, <2>4
<1> HIDE DEF N, b
<1>4. ASSUME NEW i \in Instances
      PROVE  EntryOrder(V, p, i, t.prepare_phase[i], t.accept_phase[i],
                        t.next_prepare_instance, N, R)
  <2>1. CASE i = i0
    <3>1. Highest(V, p, i0, b, N, R) /\ Acc(N, i0, b, v)
      BY Zenon, <1>1, <1>2, <1>3, BallotOrder DEF Highest
    <3> QED  BY Zenon, <1>1, <2>1, <3>1 DEF EntryOrder, Moved, b
  <2>2. CASE i # i0
    <3>1. EntryOrder(V, p, i, s.prepare_phase[i], s.accept_phase[i], n, M, R)
      BY Zenon DEF OrderInv
    <3>2. Same(V, p, i, M, R, N, R)
      BY Zenon, <1>3, <2>2 DEF Same
    <3>3. /\ PrepareKept(s.prepare_phase[i], s.prepare_phase[i])
          /\ AcceptKept(s.accept_phase[i], s.accept_phase[i])
      BY Zenon, <2>2 DEF PrepareKept, AcceptKept
    <3>4. i \in Nat /\ n \in Nat /\ n >= n
      <4>1. i \in Nat /\ n \in Nat
        BY Zenon, StateParts, ProposerAssumption DEF OrderInv
      <4> QED  BY SMT, <4>1
    <3>5. EntryOrder(V, p, i, s.prepare_phase[i], s.accept_phase[i], n, N, R)
      BY Zenon, <3>1, <3>2, <3>3, <3>4, EntryOrderKept
    <3> QED  BY Zenon, <2>2, <3>5 DEF Moved
  <2> QED  BY Zenon, <2>1, <2>2
<1>5. OneValue(V, p, N)
  <2>1. OneValue(V, p, M)
    BY Zenon DEF OrderInv
  <2>2. ASSUME NEW i \in Instances, NEW c \in BallotsOf(p), NEW w \in V, NEW x \in V,
               Acc(N, i, c, w), Acc(N, i, c, x)
        PROVE  w = x
    <3>0. /\ Acc(M, i, c, w) \/ (i = i0 /\ c = b /\ w = v)
          /\ Acc(M, i, c, x) \/ (i = i0 /\ c = b /\ x = v)
      BY SMT, <1>3, <2>2
    <3>1. CASE i = i0 /\ c = b
      <4>1. ~ Acc(M, i, c, w) /\ ~ Acc(M, i, c, x)
        BY Zenon, <1>1, <3>1
      <4> QED  BY Zenon, <3>0, <4>1
    <3>2. CASE ~ (i = i0 /\ c = b)
      <4>1. Acc(M, i, c, w) /\ Acc(M, i, c, x)
        BY Zenon, <3>0, <3>2
      <4> QED  BY Zenon, <2>1, <4>1 DEF OneValue
    <3> QED  BY Zenon, <3>1, <3>2
  <2> QED  BY Zenon, <2>2 DEF OneValue
<1>6. t \in ProposerState(V) /\ R \subseteq PrepareMsgs(p)
  BY Zenon DEF OrderInv, Moved
<1>7. OrderInv(V, p, t, N, R)
  BY Zenon, <1>4, <1>5, <1>6 DEF OrderInv
<1> QED  BY Zenon, <1>7 DEF N, b

(* The quorum of promises is the reason of the value.                      *)
LEMMA MovedKeepsReason ==
  ASSUME NEW V, NEW p, NEW s \in ProposerState(V), NEW M, NEW ign, ReasonInv(V, p, s, M, ign),
         NEW i0 \in Instances, s.prepare_phase[i0] # NULL, QuorumReached(s.prepare_phase[i0]),
         NEW v, \/ s.prepare_phase[i0].last_accepted_value = NULL
                \/ s.prepare_phase[i0].last_accepted_value = v,
         NEW t, Moved(V, s, t, i0, v)
  PROVE  ReasonInv(V, p, t, M \cup {AcceptMsg(i0, s.prepare_phase[i0].ballot, v)}, ign)
<1> DEFINE e == s.prepare_phase[i0]
           b == e.ballot
           N == M \cup {AcceptMsg(i0, b, v)}
<1>1. \A i, c, w : Acc(N, i, c, w) => Acc(M, i, c, w) \/ (i = i0 /\ c = b /\ w = v)
  BY SMT DEF Acc, AcceptMsg
<1>2. M \subseteq N
  BY Zenon
<1>e. e \in Info(V) /\ PrepareReason(i0, e, M, ign)
  BY Zenon, StateParts DEF ReasonInv
<1>3. ASSUME ~ ign  PROVE Safe(M, i0, b, v)
  <2>1. e.acks \in SUBSET Acceptors /\ e.quorum \in {q1, q2}
    BY Zenon, <1>e DEF Info
  <2>2. Cardinality(e.acks) >= q1 \/ Cardinality(e.acks) >= q2
    BY Zenon, <2>1 DEF QuorumReached
  <2>3. Reason(M, i0, b, v, e.acks)
    <3> HIDE DEF e
    <3>1. CASE e.last_accepted_value = NULL
      BY Zenon, <1>e, <1>3, <3>1 DEF PrepareReason, Reason
    <3>2. CASE e.last_accepted_value # NULL
      <4>1. e.last_accepted_value = v
        BY Zenon, <3>2 DEF e
      <4> QED  BY Zenon, <1>e, <3>2, <4>1 DEF PrepareReason, Reason
    <3> QED  BY Zenon, <3>1, <3>2
  <2> QED  BY Zenon, <2>1, <2>2, <2>3 DEF Safe
<1> HIDE DEF N, b, e
<1>4. \A i, c, w : Safe(M, i, c, w) => Safe(N, i, c, w)
  BY Zenon, <1>2, ReasonsGrow
<1>5. \A i, f : PrepareReason(i, f, M, ign) => PrepareReason(i, f, N, ign)
  BY Zenon, <1>2, ReasonsGrow
<1>6. \A i, f : AcceptReason(i, f, M) => AcceptReason(i, f, N)
  BY Zenon, <1>2, ReasonsGrow
<1>7. AcceptReason(i0, t.accept_phase[i0], N)
  BY Zenon DEF AcceptReason, Moved
<1>8. ASSUME NEW i \in Instances
      PROVE  /\ t.prepare_phase[i] # NULL => PrepareReason(i, t.prepare_phase[i], N, ign)
             /\ t.accept_phase[i] # NULL => AcceptReason(i, t.accept_phase[i], N)
  <2>1. CASE i = i0
    BY Zenon, <1>7, <2>1 DEF Moved
  <2>2. CASE i # i0
    BY Zenon, <1>5, <1>6, <2>2 DEF Moved, ReasonInv
  <2> QED  BY Zenon, <2>1, <2>2
<1>9. ~ ign => \A i \in Instances, c \in BallotsOf(p), w \in V :
                 Acc(N, i, c, w) => Safe(N, i, c, w)
  BY Zenon, <1>1, <1>3, <1>4 DEF ReasonInv
<1>10. ReasonInv(V, p, t, N, ign)
  BY Zenon, <1>8, <1>9 DEF ReasonInv
<1> QED  BY Zenon, <1>10 DEF N, b, e

(* What try_accept makes of s: instances moved to phase 2 with a value, a  *)
(* request sent for each, and no client value lost.                        *)
ReasonsKept(V, p, s, M, t, N) ==
  \A ign \in BOOLEAN : ReasonInv(V, p, s, M, ign) => ReasonInv(V, p, t, N, ign)

Trying(V, p) == [s : ProposerState(V), out : SUBSET AcceptMsgs(V, p), more : BOOLEAN]

Proposes(V, p, s, M, R) ==
  {acc \in Trying(V, p) :
     /\ OrderInv(V, p, acc.s, M \cup acc.out, R)
     /\ ReasonsKept(V, p, s, M, acc.s, M \cup acc.out)
     /\ acc.s.chosens = s.chosens /\ acc.s.trim_instance = s.trim_instance
     /\ Keeps(V, s.manager, acc.s.manager)}

(* Only the queue of client values changes.                                *)
Managed(V, p, s, M, R, t, m) ==
  /\ OrderInv(V, p, t, M, R) /\ ReasonsKept(V, p, s, M, t, M)
  /\ t \in ProposerState(V) /\ t.manager = m
  /\ t.chosens = s.chosens /\ t.trim_instance = s.trim_instance

(* A change of the queues leaves the instances as they are.                *)
LEMMA ManagerChanges ==
  ASSUME NEW V, NEW p, NEW s, NEW M, NEW R, OrderInv(V, p, s, M, R), NEW m \in Manager(V)
  PROVE  Managed(V, p, s, M, R, [s EXCEPT !.manager = m], m)
<1> DEFINE t == [s EXCEPT !.manager = m]
<1>1. s \in ProposerState(V)
  BY Zenon DEF OrderInv
<1>2. t \in ProposerState(V)
  BY Zenon, <1>1 DEF ProposerState
<1>3. /\ t.manager = m /\ t.chosens = s.chosens /\ t.trim_instance = s.trim_instance
      /\ t.prepare_phase = s.prepare_phase /\ t.accept_phase = s.accept_phase
      /\ t.next_prepare_instance = s.next_prepare_instance
  BY SMT, <1>1 DEF ProposerState
<1> HIDE DEF t
<1>4. OrderInv(V, p, t, M, R)
  BY Zenon, <1>2, <1>3 DEF OrderInv
<1>5. ReasonsKept(V, p, s, M, t, M)
  BY Zenon, <1>3 DEF ReasonsKept, ReasonInv
<1> QED  BY Zenon, <1>2, <1>3, <1>4, <1>5 DEF t, Managed

(* The least ready instance, if there is one.                              *)
LEMMA LeastReady ==
  ASSUME NEW s, Ready(s) # {}
  PROVE  LET i == CHOOSE j \in Ready(s) : \A k \in Ready(s) : j <= k
         IN  i \in Instances /\ s.prepare_phase[i] # NULL /\ QuorumReached(s.prepare_phase[i])
<1>1. Ready(s) \subseteq Nat
  BY Zenon, ProposerAssumption DEF Ready, Preparing
<1>2. \E j \in Ready(s) : \A k \in Ready(s) : j <= k
  BY Zenon, <1>1, LeastNatural
<1>3. (CHOOSE j \in Ready(s) : \A k \in Ready(s) : j <= k) \in Ready(s)
  BY Zenon, <1>2
<1> QED  BY Zenon, <1>3 DEF Ready, Preparing

(* One instance moves to phase 2 with value v.                             *)
LEMMA ProposeOne ==
  ASSUME NEW V, NEW p, NEW s, NEW M, NEW R, NEW acc \in Proposes(V, p, s, M, R),
         NEW i \in Instances, acc.s.prepare_phase[i] # NULL,
         QuorumReached(acc.s.prepare_phase[i]), NEW v \in V,
         \/ acc.s.prepare_phase[i].last_accepted_value = NULL
         \/ acc.s.prepare_phase[i].last_accepted_value = v,
         NEW t, Moved(V, acc.s, t, i, v), NEW m \in Manager(V), Keeps(V, acc.s.manager, m)
  PROVE  [acc EXCEPT !.s = [t EXCEPT !.manager = m],
                     !.out = @ \cup {AcceptMsg(i, acc.s.prepare_phase[i].ballot, v)}]
           \in Proposes(V, p, s, M, R)
<1> DEFINE u == acc.s
           b == u.prepare_phase[i].ballot
           w == [t EXCEPT !.manager = m]
           O == M \cup acc.out
           N == O \cup {AcceptMsg(i, b, v)}
           r == [acc EXCEPT !.s = [t EXCEPT !.manager = m],
                            !.out = @ \cup {AcceptMsg(i, acc.s.prepare_phase[i].ballot, v)}]
           out == acc.out \cup {AcceptMsg(i, b, v)}
<1>1. /\ acc \in Trying(V, p) /\ u \in ProposerState(V)
      /\ acc.out \in SUBSET AcceptMsgs(V, p) /\ acc.more \in BOOLEAN
      /\ OrderInv(V, p, u, O, R) /\ ReasonsKept(V, p, s, M, u, O)
      /\ u.chosens = s.chosens /\ u.trim_instance = s.trim_instance
      /\ Keeps(V, s.manager, u.manager)
  BY Zenon DEF Proposes, Trying
<1>2. OrderInv(V, p, t, N, R)
  BY Zenon, <1>1, MovedKeepsOrder
<1>3. ReasonsKept(V, p, u, O, t, N)
  BY Zenon, <1>1, MovedKeepsReason DEF ReasonsKept
<1>4. /\ OrderInv(V, p, w, N, R) /\ ReasonsKept(V, p, t, N, w, N)
      /\ w \in ProposerState(V) /\ w.manager = m
      /\ w.chosens = t.chosens /\ w.trim_instance = t.trim_instance
  <2>1. Managed(V, p, t, N, R, w, m)
    BY Zenon, <1>2, ManagerChanges
  <2> HIDE DEF w, N
  <2> QED  BY Zenon, <2>1 DEF Managed
<1>5. w.chosens = s.chosens /\ w.trim_instance = s.trim_instance /\ Keeps(V, s.manager, w.manager)
  <2> HIDE DEF w
  <2> QED  BY Zenon, <1>1, <1>4 DEF Moved, Keeps
<1>6. AcceptMsg(i, b, v) \in AcceptMsgs(V, p)
  <2>1. b \in BallotsOf(p)
    BY Zenon, <1>1 DEF OrderInv, EntryOrder, Highest
  <2> HIDE DEF b
  <2> QED  BY SMT, <2>1 DEF AcceptMsgs
<1>7. out \in SUBSET AcceptMsgs(V, p)
  BY Zenon, <1>1, <1>6
<1>8. N = M \cup out
  <2> HIDE DEF b, u
  <2> QED  BY Zenon
<1>9. r = [acc EXCEPT !.s = w, !.out = out]
  BY Zenon
<1> HIDE DEF w, N, u, O, out, r
<1>10. r \in Trying(V, p)
  BY Zenon, <1>1, <1>4, <1>7, <1>9 DEF Trying
<1>11. r.s = w /\ r.out = out
  <2>1. acc \in Trying(V, p)
    BY Zenon, <1>1
  <2> QED  BY SMT, <1>9, <2>1 DEF Trying
<1>12. ReasonsKept(V, p, s, M, w, N)
  BY Zenon, <1>1, <1>3, <1>4 DEF ReasonsKept
<1> QED  BY Zenon, <1>4, <1>5, <1>8, <1>10, <1>11, <1>12 DEF Proposes, r

(* One turn of the loop of proposer_try_accept proposes one value at the   *)
(* ballot that was promised, or proposes nothing.                          *)
LEMMA TryAcceptStepProposes ==
  ASSUME NEW V, NOP \in V, GARBAGE \in V, NEW p, NEW s, NEW M, NEW R,
         NEW undefined \in BOOLEAN, NEW acc \in Proposes(V, p, s, M, R)
  PROVE  TryAcceptStep(acc, undefined) \in Proposes(V, p, s, M, R)
<1> DEFINE u == acc.s
           i == CHOOSE j \in Ready(u) : \A k \in Ready(u) : j <= k
           inst == u.prepare_phase[i]
           next == GetNext(u.manager, u.max_chosen_instance > u.trim_instance, undefined)
           r0 == TryAcceptStep(acc, undefined)
<1>1. /\ acc \in Trying(V, p) /\ u \in ProposerState(V)
      /\ acc.out \in SUBSET AcceptMsgs(V, p) /\ acc.more \in BOOLEAN
      /\ OrderInv(V, p, u, M \cup acc.out, R)
      /\ ReasonsKept(V, p, s, M, u, M \cup acc.out)
      /\ u.chosens = s.chosens /\ u.trim_instance = s.trim_instance
      /\ Keeps(V, s.manager, u.manager)
  BY Zenon DEF Proposes, Trying
<1>2. next.value \in V /\ next.manager \in Manager(V) /\ Keeps(V, u.manager, next.manager)
  <2>1. u.manager \in Manager(V)
    BY Zenon, <1>1, StateParts
  <2> QED  BY Zenon, <2>1, NextKeeps
<1> HIDE DEF next
<1>3. CASE ~ acc.more \/ Ready(u) = {}
  <2> DEFINE r == [acc EXCEPT !.more = FALSE]
  <2>1. r0 = r
    BY Zenon, <1>3 DEF TryAcceptStep
  <2>2. r \in Trying(V, p)
    BY Zenon, <1>1 DEF Trying
  <2>3. r.s = u /\ r.out = acc.out
    BY SMT, <1>1 DEF Trying
  <2> HIDE DEF r, r0, u
  <2>4. r \in Proposes(V, p, s, M, R)
    BY Zenon, <1>1, <2>2, <2>3 DEF Proposes
  <2> QED  BY Zenon, <2>1, <2>4 DEF r0
<1>4. CASE acc.more /\ Ready(u) # {}
  <2>1. i \in Instances /\ inst # NULL /\ QuorumReached(inst)
    BY Zenon, <1>4, LeastReady
  <2> HIDE DEF i
  <2>2. inst.last_accepted_value \in V \cup {NULL}
    <3>1. inst \in Info(V)
      BY Zenon, <1>1, <2>1, StateParts
    <3> QED  BY Zenon, <3>1 DEF Info
  <2>3. CASE inst.last_accepted_value # NULL
    <3> DEFINE v == inst.last_accepted_value
               t == MoveToAccept(u, i, v)
               r == [acc EXCEPT !.s = t, !.out = @ \cup {AcceptMsg(i, inst.ballot, v)}]
               r2 == [acc EXCEPT !.s = [t EXCEPT !.manager = u.manager],
                                 !.out = @ \cup {AcceptMsg(i, inst.ballot, v)}]
    <3>1. r0 = r
      BY Zenon, <1>4, <2>3 DEF TryAcceptStep, i
    <3>2. v \in V
      BY Zenon, <2>2, <2>3
    <3>3. Moved(V, u, t, i, v)
      BY Zenon, <1>1, <2>1, <3>2, MoveEffect
    <3> HIDE DEF t
    <3>4. t = [t EXCEPT !.manager = u.manager]
      <4>1. t \in ProposerState(V) /\ t.manager = u.manager
        BY Zenon, <3>3 DEF Moved
      <4> QED  BY SMT, <4>1 DEF ProposerState
    <3>5. r = r2
      BY Zenon, <3>4
    <3>6. u.manager \in Manager(V) /\ Keeps(V, u.manager, u.manager)
      BY Zenon, <1>1, StateParts DEF Keeps
    <3>7. r2 \in Proposes(V, p, s, M, R)
      <4> HIDE DEF v
      <4>1. inst.last_accepted_value = v
        BY Zenon DEF v
      <4> QED  BY Zenon, <2>1, <3>2, <3>3, <3>6, <4>1, ProposeOne
    <3> HIDE DEF r, r2, r0
    <3> QED  BY Zenon, <3>1, <3>5, <3>7 DEF r0
  <2>4. CASE inst.last_accepted_value = NULL /\ next.ok
    <3> DEFINE v == next.value
               t == MoveToAccept(u, i, v)
               r == [acc EXCEPT !.s = [t EXCEPT !.manager = next.manager],
                                !.out = @ \cup {AcceptMsg(i, inst.ballot, v)}]
    <3>1. r0 = r
      BY Zenon, <1>4, <2>4 DEF TryAcceptStep, i, next
    <3>2. Moved(V, u, t, i, v)
      BY Zenon, <1>1, <1>2, <2>1, MoveEffect
    <3> HIDE DEF t
    <3>3. r \in Proposes(V, p, s, M, R)
      BY Zenon, <1>2, <2>1, <2>4, <3>2, ProposeOne
    <3> HIDE DEF r, r0
    <3> QED  BY Zenon, <3>1, <3>3 DEF r0
  <2>5. CASE inst.last_accepted_value = NULL /\ ~ next.ok
    <3> DEFINE t == [u EXCEPT !.manager = next.manager]
               r == [acc EXCEPT !.s = t, !.more = FALSE]
    <3>1. r0 = r
      BY Zenon, <1>4, <2>5 DEF TryAcceptStep, i, next
    <3>2. /\ OrderInv(V, p, t, M \cup acc.out, R)
          /\ ReasonsKept(V, p, u, M \cup acc.out, t, M \cup acc.out)
          /\ t \in ProposerState(V) /\ t.manager = next.manager
          /\ t.chosens = u.chosens /\ t.trim_instance = u.trim_instance
      <4>1. Managed(V, p, u, M \cup acc.out, R, t, next.manager)
        BY Zenon, <1>1, <1>2, ManagerChanges
      <4> HIDE DEF t
      <4> QED  BY Zenon, <4>1 DEF Managed
    <3> HIDE DEF t
    <3>3. r \in Trying(V, p)
      BY Zenon, <1>1, <3>2 DEF Trying
    <3>4. r.s = t /\ r.out = acc.out
      BY SMT, <1>1 DEF Trying
    <3> HIDE DEF r, r0, u
    <3>5. ReasonsKept(V, p, s, M, t, M \cup acc.out) /\ Keeps(V, s.manager, t.manager)
      BY Zenon, <1>1, <1>2, <3>2 DEF ReasonsKept, Keeps
    <3>6. r \in Proposes(V, p, s, M, R)
      BY Zenon, <1>1, <3>2, <3>3, <3>4, <3>5 DEF Proposes
    <3> QED  BY Zenon, <3>1, <3>6 DEF r0
  <2> QED  BY Zenon, <2>3, <2>4, <2>5
<1> QED  BY Zenon, <1>1, <1>3, <1>4

(* try_accept proposes the values of ready instances and nothing else.     *)
LEMMA TryAcceptProposes ==
  ASSUME NEW V, NOP \in V, GARBAGE \in V, NEW p, NEW s, NEW M, NEW R, OrderInv(V, p, s, M, R),
         NEW undefined \in BOOLEAN
  PROVE  TryAccept(s, undefined) \in Proposes(V, p, s, M, R)
<1> DEFINE n == Cardinality(Instances) + 1
           begin == [s |-> s, out |-> {}, more |-> TRUE]
           F(f) == [k \in 0 .. n |->
                      IF k = 0 THEN begin ELSE TryAcceptStep(f[k - 1], undefined)]
           after == CHOOSE f : f = F(f)
           T == Proposes(V, p, s, M, R)
           g == [k \in 1 .. n |-> [acc \in T |-> TryAcceptStep(acc, undefined)]]
<1>1. TryAccept(s, undefined) = after[n]
  BY Zenon DEF TryAccept
<1>n. n \in Nat
  <2>1. Cardinality(Instances) \in Nat
    BY Zenon, ProposerAssumption, FS_CardinalityType
  <2> QED  BY SMT, <2>1
<1>2. begin \in T
  <2>1. begin \in Trying(V, p) /\ begin.s = s /\ begin.out = {}
    BY Zenon DEF Trying, OrderInv
  <2> HIDE DEF begin
  <2>2. M \cup {} = M
    BY Zenon
  <2>3. OrderInv(V, p, begin.s, M \cup begin.out, R)
    BY Zenon, <2>1, <2>2
  <2>4. ReasonsKept(V, p, s, M, begin.s, M \cup begin.out)
    BY Zenon, <2>1, <2>2 DEF ReasonsKept
  <2>5. Keeps(V, s.manager, begin.s.manager)
    BY Zenon, <2>1 DEF Keeps
  <2> QED  BY Zenon, <2>1, <2>3, <2>4, <2>5 DEF Proposes
<1>3. ASSUME NEW acc \in T  PROVE TryAcceptStep(acc, undefined) \in T
  BY Zenon, TryAcceptStepProposes
<1> HIDE DEF T, n, begin
<1>4. after = F(after)
  <2>1. \A k \in 1 .. n, t \in T : g[k][t] \in T
    BY Zenon, <1>3
  <2>2. PICK f : Rounds(f, T, begin, n, g)
    <3> HIDE DEF g
    <3> QED  BY Zenon, <1>n, <1>2, <2>1, Iterates
  <2>3. ASSUME NEW k \in 0 .. n  PROVE F(f)[k] = f[k]
    <3>1. CASE k = 0
      BY Zenon, <2>2, <3>1 DEF Rounds
    <3>2. CASE k # 0
      <4>1. k \in 1 .. n /\ k - 1 \in 0 .. n
        BY SMT, <1>n, <3>2
      <4> QED  BY Zenon, <2>2, <3>2, <4>1 DEF Rounds
    <3> QED  BY Zenon, <3>1, <3>2
  <2>4. f = [k \in 0 .. n |-> f[k]] /\ F(f) = [k \in 0 .. n |-> F(f)[k]]
    BY Zenon, <2>2 DEF Rounds
  <2>5. f = F(f)
    BY Zenon, <2>3, <2>4
  <2> QED  BY Zenon, <2>5
<1>5. after[0] = begin /\ \A k \in 1 .. n : after[k] = TryAcceptStep(after[k - 1], undefined)
  <2> DEFINE w == after
  <2>1. w = F(w)
    BY Zenon, <1>4
  <2> HIDE DEF w
  <2>2. w[0] = begin
    BY SMT, <1>n, <2>1
  <2>3. ASSUME NEW k \in 1 .. n  PROVE w[k] = TryAcceptStep(w[k - 1], undefined)
    <3>1. k \in 0 .. n /\ k # 0
      BY SMT, <1>n
    <3> QED  BY Zenon, <2>1, <3>1
  <2> QED  BY Zenon, <2>2, <2>3 DEF w
<1> HIDE DEF after
<1>6. after[n] \in T
  <2>1. after[0] \in T /\ \A k \in 1 .. n : after[k - 1] \in T => after[k] \in T
    BY Zenon, <1>2, <1>3, <1>5
  <2> QED  BY Zenon, <1>n, <2>1, StaysIn
<1> QED  BY Zenon, <1>1, <1>6 DEF T

(* Nothing p prepared or proposed is new, except what its timers held.     *)
LEMMA OrderSame ==
  ASSUME NEW V, NEW p, NEW s, NEW M, NEW R, OrderInv(V, p, s, M, R),
         NEW N, NEW S \in SUBSET R, \A i \in Instances : Same(V, p, i, M, R, N, S)
  PROVE  OrderInv(V, p, s, N, S)
<1>1. s \in ProposerState(V) /\ R \subseteq PrepareMsgs(p) /\ OneValue(V, p, M)
  BY Zenon DEF OrderInv
<1>2. ASSUME NEW i \in Instances
      PROVE  EntryOrder(V, p, i, s.prepare_phase[i], s.accept_phase[i],
                        s.next_prepare_instance, N, S)
  <2>1. i \in Nat /\ s.next_prepare_instance \in Nat
    BY Zenon, <1>1, StateParts, ProposerAssumption
  <2>2. s.next_prepare_instance >= s.next_prepare_instance
    BY SMT, <2>1
  <2>3. EntryOrder(V, p, i, s.prepare_phase[i], s.accept_phase[i],
                   s.next_prepare_instance, M, R)
    BY Zenon DEF OrderInv
  <2>4. /\ PrepareKept(s.prepare_phase[i], s.prepare_phase[i])
        /\ AcceptKept(s.accept_phase[i], s.accept_phase[i])
    BY Zenon DEF PrepareKept, AcceptKept
  <2> QED  BY Zenon, <2>1, <2>2, <2>3, <2>4, EntryOrderKept
<1>3. OneValue(V, p, N)
  <2>1. ASSUME NEW i \in Instances, NEW c \in BallotsOf(p), NEW v \in V, NEW w \in V,
               Acc(N, i, c, v), Acc(N, i, c, w)
        PROVE  v = w
    <3>1. Acc(M, i, c, v) /\ Acc(M, i, c, w)
      BY SMT, <2>1 DEF Same
    <3> QED  BY Zenon, <1>1, <3>1 DEF OneValue
  <2> QED  BY Zenon, <2>1 DEF OneValue
<1> QED  BY Zenon, <1>1, <1>2, <1>3 DEF OrderInv

-----------------------------------------------------------------------------
(* There is a lowest ballot in every non-empty set of ballots: the lowest  *)
(* number, and among the ballots of that number the lowest proposer.       *)
LEMMA LeastBallot ==
  ASSUME NEW S, S \subseteq Ballot, S # {}
  PROVE  \E b \in S : \A c \in S : geq(c, b)
<1> DEFINE N == {b.number : b \in S}
<1>1. \A b \in S : b.number \in Nat /\ b.proposer_id \in Nat
  BY SMT DEF Ballot
<1>2. N \subseteq Nat /\ N # {}
  BY Zenon, <1>1
<1> HIDE DEF N
<1>3. PICK n \in N : \A m \in N : n <= m
  BY Zenon, <1>2, LeastNatural
<1> DEFINE T == {b \in S : b.number = n}
           P == {b.proposer_id : b \in T}
<1>4. T # {}
  BY Zenon DEF N
<1>5. P \subseteq Nat /\ P # {}
  BY Zenon, <1>1, <1>4
<1> HIDE DEF P
<1>6. PICK q \in P : \A m \in P : q <= m
  BY Zenon, <1>5, LeastNatural
<1>7. PICK b \in T : b.proposer_id = q
  BY Zenon DEF P
<1>8. ASSUME NEW c \in S  PROVE geq(c, b)
  <2>1. n <= c.number
    BY Zenon, <1>3 DEF N
  <2>2. c.number = n => q <= c.proposer_id
    BY Zenon, <1>6 DEF P
  <2>3. b.number = n /\ b.proposer_id = q /\ n \in Nat /\ q \in Nat
    BY Zenon, <1>2, <1>5, <1>7
  <2>4. c.number \in Nat /\ c.proposer_id \in Nat
    BY Zenon, <1>1
  <2> QED  BY SMT, <2>1, <2>2, <2>3, <2>4 DEF geq, ballot_greater_than_or_equal
<1> QED  BY Zenon, <1>7, <1>8
=============================================================================
