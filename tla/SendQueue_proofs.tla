-------------------------- MODULE SendQueue_proofs --------------------------
(***************************************************************************)
(* Proofs about SendQueue: what waits is this connection's and waits in    *)
(* order, and the credit stays bounded, for any kinds and sizes of lines,  *)
(* any window and any number of lines, connections, bursts and clock       *)
(* steps.                                                                  *)
(***************************************************************************)
EXTENDS SendQueue, TLAPS, SequenceTheorems, FiniteSetTheorems

(***************************************************************************)
(* Induction, on sets: the provers cannot instantiate an induction theorem *)
(* over a predicate, but a set of numbers that is not everything has a     *)
(* least number missing.                                                   *)
(***************************************************************************)
LEMMA LeastNat ==
    ASSUME NEW S, S \subseteq Nat, S # {}
    PROVE  \E m \in S : \A n \in S : m <= n
<1> DEFINE R == OpToRel(<, Nat)
<1>1. PICK m \in S : \A n \in S : <<n, m>> \notin R
  <2>1. IsWellFoundedOn(R, Nat)
    BY NatLessThanWellFounded
  <2> HIDE DEF R
  <2>2. QED
    BY <2>1, WFMin
<1>2. \A n \in S : ~(n < m)
  BY <1>1 DEF OpToRel
<1>3. QED
  BY <1>2

LEMMA Upwards ==
    ASSUME NEW n \in Nat, NEW G, 0 \in G, \A i \in 0..n : i # n /\ i \in G => i + 1 \in G
    PROVE  \A i \in 0..n : i \in G
<1> DEFINE B == {i \in 0..n : i \notin G}
<1> SUFFICES ASSUME B # {} PROVE FALSE
  OBVIOUS
<1>1. B \subseteq Nat
  OBVIOUS
<1>2. PICK m \in B : \A i \in B : m <= i
  BY <1>1, LeastNat
<1>3. m \in 0..n /\ m \notin G /\ m # 0
  OBVIOUS
<1>4. m - 1 \in 0..n /\ m - 1 # n /\ (m - 1) + 1 = m
  BY <1>3
<1>5. m - 1 \in G
  BY <1>2, <1>4
<1>6. QED
  BY <1>3, <1>4, <1>5

\* Definition by recursion on 0..n: step i is the function g[i].
LEMMA Recursion ==
    ASSUME NEW V, NEW a \in V, NEW n \in Nat, NEW g \in [1..n -> [V -> V]]
    PROVE  \E F \in [0..n -> V] : F[0] = a /\ \A i \in 1..n : F[i] = g[i][F[i - 1]]
<1> DEFINE Good(F, m) == F[0] = a /\ \A i \in 1..m : F[i] = g[i][F[i - 1]]
           G == {m \in 0..n : \E F \in [0..m -> V] : Good(F, m)}
<1>1. 0 \in G
  <2>1. [i \in 0..0 |-> a] \in [0..0 -> V] /\ Good([i \in 0..0 |-> a], 0)
    OBVIOUS
  <2>2. 0 \in 0..n
    OBVIOUS
  <2> HIDE DEF Good
  <2>3. QED
    BY <2>1, <2>2
<1>2. ASSUME NEW m \in 0..n, m # n, m \in G PROVE m + 1 \in G
  <2>1. PICK F \in [0..m -> V] : Good(F, m)
    BY <1>2
  <2> DEFINE H == [i \in 0..m + 1 |-> IF i = m + 1 THEN g[m + 1][F[m]] ELSE F[i]]
  <2>2. m + 1 \in 1..n /\ m \in 0..m /\ F[m] \in V
    BY <1>2
  <2>3. g[m + 1][F[m]] \in V
    BY <2>2
  <2>4. H \in [0..m + 1 -> V]
    BY <1>2, <2>3
  <2>5. H[0] = a
    BY <2>1
  <2>6. ASSUME NEW i \in 1..m + 1 PROVE H[i] = g[i][H[i - 1]]
    <3>1. CASE i = m + 1
      BY <1>2, <3>1
    <3>2. CASE i # m + 1
      <4>1. i \in 1..m /\ i - 1 \in 0..m /\ i - 1 # m + 1 /\ i - 1 \in 0..m + 1
        BY <1>2, <3>2
      <4>2. H[i] = F[i] /\ H[i - 1] = F[i - 1]
        BY <3>2, <4>1
      <4>3. QED
        BY <2>1, <4>1, <4>2
    <3>3. QED
      BY <3>1, <3>2
  <2>7. Good(H, m + 1)
    BY <2>5, <2>6
  <2>8. m + 1 \in 0..n
    BY <2>2
  <2> HIDE DEF Good, H
  <2>9. QED
    BY <2>4, <2>7, <2>8
<1>3. n \in 0..n
  OBVIOUS
<1> HIDE DEF G
<1>4. n \in G
  BY <1>1, <1>2, <1>3, Upwards
<1>5. QED
  BY <1>4 DEF G

(***************************************************************************)
(* Without.                                                                *)
(***************************************************************************)
\* In the order of their numbers.
Rising(q) == \A i, j \in 1..Len(q) : j < i => q[j].n < q[i].n
\* What the i-th line does to those kept before it.
Keep(S, l, w) == IF l \in S THEN w ELSE Append(w, l)

LEMMA WithoutFunction ==
    ASSUME NEW q \in Seq(Lines), NEW S
    PROVE  \E L : /\ L[0] = <<>> /\ Without(q, S) = L[Len(q)]
                  /\ \A i \in 1..Len(q) : L[i] = Keep(S, q[i], L[i - 1])
<1> DEFINE n == Len(q)
           V == Seq(Lines)
           g == [i \in 1..n |-> [w \in V |-> Keep(S, q[i], w)]]
           Body(F) == [i \in 0..n |-> IF i = 0 THEN <<>>
                          ELSE IF q[i] \in S THEN F[i - 1] ELSE Append(F[i - 1], q[i])]
<1>1. n \in Nat /\ <<>> \in V /\ \A i \in 1..n : q[i] \in Lines
  OBVIOUS
<1>2. \A w \in V, l \in Lines : Append(w, l) \in V
  BY AppendProperties
<1>3. \A i \in 1..n, w \in V : Keep(S, q[i], w) \in V
  BY <1>1, <1>2 DEF Keep
<1>4. g \in [1..n -> [V -> V]]
  BY <1>3
<1> DEFINE e == <<>>
<1> HIDE DEF V, g, n, e
<1>5. PICK F \in [0..n -> V] : F[0] = <<>> /\ \A i \in 1..n : F[i] = g[i][F[i - 1]]
  <2>1. e \in V /\ n \in Nat
    BY <1>1 DEF e
  <2>2. \E F \in [0..n -> V] : F[0] = e /\ \A i \in 1..n : F[i] = g[i][F[i - 1]]
    BY <1>4, <2>1, Recursion
  <2>3. QED
    BY <2>2 DEF e
<1>6. \A i \in 1..n : F[i] = Keep(S, q[i], F[i - 1])
  <2> SUFFICES ASSUME NEW i \in 1..n PROVE F[i] = Keep(S, q[i], F[i - 1])
    OBVIOUS
  <2>1. i - 1 \in 0..n
    BY <1>1
  <2>2. F[i - 1] \in V
    BY <2>1
  <2>3. g[i][F[i - 1]] = Keep(S, q[i], F[i - 1])
    BY <2>2 DEF g
  <2>4. QED
    BY <1>5, <2>3
<1>7. F = Body(F)
  <2>1. \A i \in 0..n : i = 0 \/ i \in 1..n
    BY <1>1
  <2>2. \A i \in 0..n : F[i] = Body(F)[i]
    BY <1>5, <1>6, <2>1 DEF Keep
  <2>3. QED
    BY <2>2
<1> DEFINE L == CHOOSE H : H = Body(H)
<1>8. L = Body(L)
  BY <1>7
<1>9. Without(q, S) = L[n]
  BY DEF Without, n
<1> HIDE DEF L
<1>10. 0 \in 0..n /\ \A i \in 1..n : i \in 0..n /\ i # 0
  BY <1>1
<1>11. L[0] = <<>> /\ \A i \in 1..n : L[i] = Keep(S, q[i], L[i - 1])
  BY <1>8, <1>10 DEF Keep
<1>12. QED
  BY <1>9, <1>11 DEF n

LEMMA LineFields ==
    ASSUME NEW l \in Lines
    PROVE  /\ l.n \in 1..MaxLines /\ l.n \in Nat /\ l.pri \in Priorities /\ l.pri \in Nat
           /\ l.size \in Sizes /\ l.size \in Nat
<1>1. l.n \in 1..MaxLines /\ l.pri \in 0..3 /\ l.size \in Sizes
  BY DEF Lines, Numbers, Priorities
<1>2. MaxLines \in Nat /\ Sizes \subseteq Nat
  BY SendAssumption
<1>3. l.n \in Nat /\ l.pri \in Nat
  BY <1>1, <1>2
<1>4. l.size \in Nat
  BY <1>1, <1>2, Zenon
<1>5. QED
  BY <1>1, <1>3, <1>4 DEF Priorities

LEMMA ElemsOf ==
    ASSUME NEW q \in Seq(Lines)
    PROVE  /\ Len(q) \in Nat /\ Elems(q) = {q[i] : i \in 1..Len(q)} /\ Elems(q) \subseteq Lines
           /\ \A i \in 1..Len(q) : q[i] \in Lines
BY DEF Elems

\* One more line at the end.
LEMMA Appended ==
    ASSUME NEW w \in Seq(Lines), NEW l \in Lines
    PROVE  /\ Append(w, l) \in Seq(Lines) /\ Elems(Append(w, l)) = Elems(w) \cup {l}
           /\ Rising(w) /\ (\A m \in Elems(w) : m.n < l.n) => Rising(Append(w, l))
<1> DEFINE a == Append(w, l)
           k == Len(w)
<1>1. /\ a \in Seq(Lines) /\ Len(a) = k + 1 /\ a[k + 1] = l /\ k \in Nat
      /\ \A i \in 1..k : a[i] = w[i]
  BY AppendProperties
<1> HIDE DEF a, k
<1>2. \A i \in 1..k + 1 : i \in 1..k \/ i = k + 1
  BY <1>1
<1>3. 1..k \subseteq 1..k + 1 /\ k + 1 \in 1..k + 1
  BY <1>1
<1>4. Elems(w) = {w[i] : i \in 1..k} /\ Elems(a) = {a[i] : i \in 1..k + 1}
  BY <1>1, ElemsOf DEF k
<1>5. Elems(a) = Elems(w) \cup {l}
  BY <1>1, <1>2, <1>3, <1>4
<1>6. ASSUME Rising(w), \A m \in Elems(w) : m.n < l.n PROVE Rising(a)
  <2> SUFFICES ASSUME NEW i \in 1..k + 1, NEW j \in 1..k + 1, j < i PROVE a[j].n < a[i].n
    BY <1>1 DEF Rising
  <2>1. j \in 1..k
    BY <1>1
  <2>2. a[j] = w[j] /\ w[j] \in Elems(w)
    BY <1>1, <1>4, <2>1
  <2>3. CASE i = k + 1
    BY <1>1, <1>6, <2>2, <2>3
  <2>4. CASE i \in 1..k
    BY <1>1, <1>6, <2>1, <2>4 DEF Rising, k
  <2>5. QED
    BY <1>2, <2>3, <2>4
<1>7. QED
  BY <1>1, <1>5, <1>6 DEF a

LEMMA WithoutProps ==
    ASSUME NEW q \in Seq(Lines), NEW S
    PROVE  /\ Without(q, S) \in Seq(Lines)
           /\ Elems(Without(q, S)) = Elems(q) \ S
           /\ Rising(q) => Rising(Without(q, S))
<1> DEFINE n == Len(q)
<1>1. PICK L : /\ L[0] = <<>> /\ Without(q, S) = L[n]
               /\ \A i \in 1..n : L[i] = Keep(S, q[i], L[i - 1])
  BY WithoutFunction
<1>2. n \in Nat /\ Elems(q) = {q[i] : i \in 1..n} /\ \A i \in 1..n : q[i] \in Lines
  BY ElemsOf
<1> HIDE DEF n
<1> DEFINE First(m) == {q[i] : i \in 1..m}
           Fits(m) == /\ L[m] \in Seq(Lines) /\ Elems(L[m]) = First(m) \ S
                      /\ Rising(q) => Rising(L[m])
           G == {m \in 0..n : Fits(m)}
<1>3. 0 \in G
  <2>1. Elems(<<>>) = {} /\ Rising(<<>>) /\ <<>> \in Seq(Lines)
    BY DEF Elems, Rising
  <2>2. First(0) = {}
    OBVIOUS
  <2>3. L[0] \in Seq(Lines) /\ Elems(L[0]) = {} /\ Rising(L[0])
    BY <1>1, <2>1
  <2>4. 0 \in 0..n
    BY <1>2
  <2> HIDE DEF First
  <2>5. QED
    BY <2>2, <2>3, <2>4
<1>4. ASSUME NEW m \in 0..n, m # n, m \in G PROVE m + 1 \in G
  <2> DEFINE l == q[m + 1]
             w == L[m]
  <2>1. m + 1 \in 1..n /\ m + 1 \in 0..n /\ (m + 1) - 1 = m /\ m \in Nat
    BY <1>2, <1>4
  <2>2. L[m + 1] = Keep(S, l, w)
    BY <1>1, <2>1
  <2>3. l \in Lines
    BY <1>2, <2>1
  <2>4. w \in Seq(Lines) /\ Elems(w) = First(m) \ S /\ (Rising(q) => Rising(w))
    BY <1>4
  <2>5. First(m + 1) = First(m) \cup {l}
    <3>1. \A i \in 1..m + 1 : i \in 1..m \/ i = m + 1
      BY <2>1
    <3>2. 1..m \subseteq 1..m + 1 /\ m + 1 \in 1..m + 1
      BY <2>1
    <3>3. QED
      BY <3>1, <3>2
  <2>6. Rising(q) => \A x \in Elems(w) : x.n < l.n
    <3> SUFFICES ASSUME Rising(q), NEW i \in 1..m PROVE q[i].n < l.n
      BY <2>4
    <3>1. i \in 1..n /\ i < m + 1
      BY <1>2, <2>1
    <3>2. QED
      BY <2>1, <3>1 DEF Rising, n
  <2> HIDE DEF l, w, First
  <2>7. CASE l \in S
    <3>1. L[m + 1] = w
      BY <2>2, <2>7 DEF Keep
    <3>2. First(m + 1) \ S = First(m) \ S
      BY <2>5, <2>7
    <3>3. QED
      BY <2>1, <2>4, <3>1, <3>2
  <2>8. CASE l \notin S
    <3>1. L[m + 1] = Append(w, l)
      BY <2>2, <2>8 DEF Keep
    <3>2. First(m + 1) \ S = (First(m) \ S) \cup {l}
      BY <2>5, <2>8
    <3>3. /\ Append(w, l) \in Seq(Lines) /\ Elems(Append(w, l)) = Elems(w) \cup {l}
          /\ Rising(q) => Rising(Append(w, l))
      BY <2>3, <2>4, <2>6, Appended
    <3>4. QED
      BY <2>1, <2>4, <3>1, <3>2, <3>3
  <2>9. QED
    BY <2>7, <2>8
<1> HIDE DEF G
<1>5. n \in G
  <2>1. n \in 0..n
    BY <1>2
  <2>2. QED
    BY <1>2, <1>3, <1>4, <2>1, Upwards
<1>6. QED
  BY <1>1, <1>2, <1>5 DEF G

(***************************************************************************)
(* The order in which lines go out.                                        *)
(***************************************************************************)
InTurn(s) == \A i, j \in 1..Len(s) : j < i /\ s[j].pri = s[i].pri => s[j].n < s[i].n

\* Lines of other priorities may follow.
LEMMA TurnsFollow ==
    ASSUME NEW s \in Seq(Lines), NEW t \in Seq(Lines), InTurn(s), InTurn(t),
           \A l \in Elems(s), m \in Elems(t) : l.pri # m.pri
    PROVE  s \o t \in Seq(Lines) /\ Elems(s \o t) = Elems(s) \cup Elems(t) /\ InTurn(s \o t)
<1> DEFINE c == s \o t
           a == Len(s)
           b == Len(t)
<1>1. /\ c \in Seq(Lines) /\ Len(c) = a + b /\ a \in Nat /\ b \in Nat
      /\ \A i \in 1..a + b : c[i] = IF i <= a THEN s[i] ELSE t[i - a]
  BY ConcatProperties
<1>2. /\ Elems(s) = {s[i] : i \in 1..a} /\ Elems(t) = {t[i] : i \in 1..b}
      /\ Elems(c) = {c[i] : i \in 1..a + b}
  BY <1>1, ElemsOf
<1> HIDE DEF a, b, c
<1>3. \A i \in 1..a : i \in 1..a + b /\ c[i] = s[i]
  BY <1>1
<1>4. \A i \in 1..b : a + i \in 1..a + b /\ c[a + i] = t[i]
  BY <1>1
<1>5. \A i \in 1..a + b : i \in 1..a \/ (i > a /\ i - a \in 1..b /\ c[i] = t[i - a])
  BY <1>1
<1>6. Elems(c) = Elems(s) \cup Elems(t)
  <2>1. Elems(c) \subseteq Elems(s) \cup Elems(t)
    BY <1>2, <1>3, <1>5
  <2>2. Elems(s) \subseteq Elems(c)
    BY <1>2, <1>3
  <2>3. Elems(t) \subseteq Elems(c)
    BY <1>2, <1>4
  <2>4. QED
    BY <2>1, <2>2, <2>3
<1>7. InTurn(c)
  <2> SUFFICES ASSUME NEW i \in 1..a + b, NEW j \in 1..a + b, j < i, c[j].pri = c[i].pri
               PROVE  c[j].n < c[i].n
    BY <1>1 DEF InTurn
  <2>1. CASE i \in 1..a
    <3>1. j \in 1..a
      BY <1>1, <2>1
    <3>2. QED
      BY <1>3, <2>1, <3>1 DEF InTurn, a
  <2>2. CASE i > a /\ j \in 1..a
    <3>1. c[j] \in Elems(s) /\ c[i] \in Elems(t)
      BY <1>1, <1>2, <1>3, <1>5, <2>2
    <3>2. QED
      BY <3>1
  <2>3. CASE i > a /\ j > a
    <3>1. /\ i - a \in 1..b /\ j - a \in 1..b /\ j - a < i - a
          /\ c[i] = t[i - a] /\ c[j] = t[j - a]
      BY <1>1, <1>5, <2>3
    <3>2. QED
      BY <3>1 DEF InTurn, b
  <2>4. QED
    BY <1>1, <1>5, <2>1, <2>2, <2>3
<1>8. QED
  BY <1>1, <1>6, <1>7 DEF c

LEMMA OfPriorityProps ==
    ASSUME NEW q \in Seq(Lines), Rising(q), NEW p
    PROVE  /\ OfPriority(q, p) \in Seq(Lines) /\ InTurn(OfPriority(q, p))
           /\ Elems(OfPriority(q, p)) = {l \in Elems(q) : l.pri = p}
<1> DEFINE S == {l \in Elems(q) : l.pri # p}
           w == Without(q, S)
<1>1. w \in Seq(Lines) /\ Elems(w) = Elems(q) \ S /\ Rising(w)
  BY WithoutProps
<1>2. Elems(q) \ S = {l \in Elems(q) : l.pri = p}
  OBVIOUS
<1> HIDE DEF w
<1>3. InTurn(w)
  BY <1>1 DEF Rising, InTurn
<1>4. QED
  BY <1>1, <1>2, <1>3 DEF OfPriority, w

LEMMA OrderedProps ==
    ASSUME NEW q \in Seq(Lines), Rising(q)
    PROVE  /\ Ordered(q) \in Seq(Lines) /\ InTurn(Ordered(q))
           /\ Elems(Ordered(q)) = Elems(q)
<1> DEFINE P(p) == OfPriority(q, p)
           E(p) == {l \in Elems(q) : l.pri = p}
           a == P(3) \o P(2)
           b == a \o P(1)
           c == b \o P(0)
<1>1. \A p : P(p) \in Seq(Lines) /\ InTurn(P(p)) /\ Elems(P(p)) = E(p)
  BY OfPriorityProps
<1> HIDE DEF P
<1>2. a \in Seq(Lines) /\ InTurn(a) /\ Elems(a) = E(3) \cup E(2)
  BY <1>1, TurnsFollow
<1> HIDE DEF a
<1>3. b \in Seq(Lines) /\ InTurn(b) /\ Elems(b) = E(3) \cup E(2) \cup E(1)
  BY <1>1, <1>2, TurnsFollow
<1> HIDE DEF b
<1>4. c \in Seq(Lines) /\ InTurn(c) /\ Elems(c) = E(3) \cup E(2) \cup E(1) \cup E(0)
  BY <1>1, <1>3, TurnsFollow
<1> HIDE DEF c
<1>5. \A l \in Elems(q) : l.pri \in {0, 1, 2, 3}
  BY ElemsOf, LineFields DEF Priorities
<1>6. Elems(c) = Elems(q)
  BY <1>4, <1>5
<1>7. Ordered(q) = c
  BY DEF Ordered, c, b, a, P
<1>8. QED
  BY <1>4, <1>6, <1>7

(***************************************************************************)
(* Credit.                                                                 *)
(***************************************************************************)
LEMMA CostType ==
    ASSUME NEW m \in Nat
    PROVE  Cost(m) \in Nat /\ \A k \in Nat : k <= m => Cost(k) <= Cost(m)
BY DEF Cost

LEMMA CostProps ==
    ASSUME NEW s \in Seq(Lines)
    PROVE  /\ CostOf(s, 0) = 0
           /\ \A k \in 0..Len(s) : CostOf(s, k) \in Nat
           /\ \A k \in 1..Len(s) : CostOf(s, k) = CostOf(s, k - 1) + Cost(s[k].size)
<1> DEFINE n == Len(s)
           c == [i \in 1..n |-> Cost(s[i].size)]
           g == [i \in 1..n |-> [v \in Nat |-> v + c[i]]]
           Body(F) == [i \in 0..n |-> IF i = 0 THEN 0 ELSE F[i - 1] + Cost(s[i].size)]
<1>1. n \in Nat /\ \A i \in 1..n : s[i].size \in Nat
  BY ElemsOf, LineFields
<1>2. \A i \in 1..n : c[i] \in Nat /\ c[i] = Cost(s[i].size)
  BY <1>1, CostType
<1> HIDE DEF c, n
<1>3. g \in [1..n -> [Nat -> Nat]]
  BY <1>2
<1> HIDE DEF g
<1>4. PICK F \in [0..n -> Nat] : F[0] = 0 /\ \A i \in 1..n : F[i] = g[i][F[i - 1]]
  <2> DEFINE V == Nat
             z == 0
  <2>1. z \in V /\ n \in Nat /\ g \in [1..n -> [V -> V]]
    BY <1>1, <1>3
  <2> HIDE DEF V, z
  <2>2. \E F \in [0..n -> V] : F[0] = z /\ \A i \in 1..n : F[i] = g[i][F[i - 1]]
    BY <2>1, Recursion
  <2>3. QED
    BY <2>2 DEF V, z
<1>5. \A i \in 1..n : F[i] = F[i - 1] + Cost(s[i].size)
  <2> SUFFICES ASSUME NEW i \in 1..n PROVE F[i] = F[i - 1] + Cost(s[i].size)
    OBVIOUS
  <2>1. i - 1 \in 0..n
    BY <1>1
  <2>2. F[i - 1] \in Nat
    BY <2>1
  <2>3. g[i][F[i - 1]] = F[i - 1] + c[i]
    BY <2>2 DEF g
  <2>4. QED
    BY <1>2, <1>4, <2>3
<1>6. F = Body(F)
  <2>1. \A i \in 0..n : i = 0 \/ i \in 1..n
    BY <1>1
  <2>2. \A i \in 0..n : F[i] = Body(F)[i]
    BY <1>4, <1>5, <2>1
  <2>3. QED
    BY <2>2
<1> DEFINE L == CHOOSE H : H = Body(H)
<1>7. L = Body(L)
  BY <1>6
<1>8. \A k : CostOf(s, k) = L[k]
  BY DEF CostOf, n
<1> HIDE DEF L
<1>9. 0 \in 0..n /\ \A i \in 1..n : i \in 0..n /\ i # 0
  BY <1>1
<1>10. L[0] = 0 /\ \A i \in 1..n : L[i] = L[i - 1] + Cost(s[i].size)
  BY <1>7, <1>9
<1> DEFINE G == {i \in 0..n : L[i] \in Nat}
<1>11. 0 \in G
  BY <1>9, <1>10
<1>12. ASSUME NEW m \in 0..n, m # n, m \in G PROVE m + 1 \in G
  <2>1. m + 1 \in 1..n /\ m + 1 \in 0..n /\ (m + 1) - 1 = m
    BY <1>1, <1>12
  <2>2. L[m + 1] = L[m] + c[m + 1] /\ c[m + 1] \in Nat
    BY <1>2, <1>10, <2>1
  <2>3. QED
    BY <1>12, <2>1, <2>2
<1> HIDE DEF G
<1>13. \A i \in 0..n : i \in G
  BY <1>1, <1>11, <1>12, Upwards
<1>14. \A i \in 0..n : L[i] \in Nat
  BY <1>13 DEF G
<1>15. QED
  BY <1>8, <1>10, <1>14 DEF n

LEMMA QuotaProps ==
    ASSUME NEW s \in Seq(Lines), NEW d \in Nat
    PROVE  LET k == Quota(s, d)
           IN k \in 0..Len(s) /\ (k > 0 => d + CostOf(s, k - 1) < SEND_WINDOW)
<1> DEFINE n == Len(s)
           c == [k \in 0..n |-> CostOf(s, k)]
           S == {k \in 0..n : k < n => d + c[k] >= SEND_WINDOW}
           Right(k) == (k < n => d + c[k] >= SEND_WINDOW)
                       /\ (k > 0 => d + c[k - 1] < SEND_WINDOW)
<1>1. n \in Nat /\ SEND_WINDOW \in Nat /\ \A k \in 0..n : c[k] \in Nat /\ c[k] = CostOf(s, k)
  BY ElemsOf, CostProps, SendAssumption
<1> HIDE DEF n, c
<1>2. S \subseteq Nat /\ n \in S
  BY <1>1
<1>3. PICK k \in S : \A j \in S : k <= j
  BY <1>2, LeastNat
<1>4. k \in 0..n /\ Right(k)
  <2>1. k \in 0..n /\ (k < n => d + c[k] >= SEND_WINDOW)
    OBVIOUS
  <2>2. ASSUME k > 0 PROVE d + c[k - 1] < SEND_WINDOW
    <3>1. k - 1 \in 0..n /\ k - 1 < k /\ k - 1 \notin S
      BY <1>1, <1>3, <2>1, <2>2
    <3>2. c[k - 1] \in Nat
      BY <1>1, <3>1
    <3>3. QED
      BY <1>1, <3>1, <3>2
  <2>3. QED
    BY <2>1, <2>2
<1>5. c[k] = CostOf(s, k) /\ (k > 0 => c[k - 1] = CostOf(s, k - 1))
  <2>1. k > 0 => k - 1 \in 0..n
    BY <1>1, <1>4
  <2>2. QED
    BY <1>1, <1>4, <2>1
<1>6. /\ k \in 0..n
      /\ k < n => d + CostOf(s, k) >= SEND_WINDOW
      /\ k > 0 => d + CostOf(s, k - 1) < SEND_WINDOW
  BY <1>4, <1>5
<1>7. QED
  BY <1>6 DEF Quota, n

LEMMA GreatestNat ==
    ASSUME NEW S, S \subseteq Nat, S # {}, NEW b \in Nat, \A n \in S : n <= b
    PROVE  \E m \in S : \A n \in S : n <= m
<1> DEFINE U == {u \in Nat : \A n \in S : n <= u}
<1>1. PICK m \in U : \A n \in U : m <= n
  <2>1. b \in U /\ U \subseteq Nat
    OBVIOUS
  <2> HIDE DEF U
  <2>2. QED
    BY <2>1, LeastNat
<1>2. m \in S
  <2> SUFFICES ASSUME m \notin S PROVE FALSE
    OBVIOUS
  <2>1. PICK s \in S : TRUE
    OBVIOUS
  <2>2. m # 0 /\ \A n \in S : n <= m - 1
    BY <2>1
  <2>3. m - 1 \in U
    BY <2>2
  <2>4. QED
    BY <1>1, <2>3
<1>3. QED
  BY <1>2

LEMMA FiniteBound ==
    ASSUME NEW S, S \subseteq Nat, IsFiniteSet(S)
    PROVE  \E b \in Nat : \A n \in S : n <= b
<1> DEFINE c == Cardinality(S)
<1>1. c \in Nat /\ ExistsBijection(1..c, S)
  BY FS_CardinalityType
<1> HIDE DEF c
<1>2. PICK f : f \in [1..c -> S] /\ \A n \in S : \E i \in 1..c : f[i] = n
  BY <1>1 DEF ExistsBijection, Bijection, Injection, Surjection
<1> DEFINE G == {m \in 0..c : \E b \in Nat : \A i \in 1..m : f[i] <= b}
<1>3. 0 \in G
  BY <1>1
<1>4. ASSUME NEW m \in 0..c, m # c, m \in G PROVE m + 1 \in G
  <2>1. PICK b \in Nat : \A i \in 1..m : f[i] <= b
    BY <1>4
  <2> DEFINE x == f[m + 1]
  <2>0. \A i \in 1..c : f[i] \in Nat
    BY <1>2, Zenon
  <2>2. m + 1 \in 0..c /\ m + 1 \in 1..c /\ x \in Nat /\ m \in Nat
    BY <1>1, <1>4, <2>0
  <2>3. \A i \in 1..m + 1 : i \in 1..m \/ i = m + 1
    BY <2>2
  <2>4. \A i \in 1..m : i \in 1..c /\ f[i] \in Nat
    BY <1>1, <1>4, <2>0, <2>2
  <2>5. b + x \in Nat /\ \A i \in 1..m + 1 : f[i] <= b + x
    BY <2>1, <2>2, <2>3, <2>4
  <2> HIDE DEF x
  <2>6. QED
    BY <2>2, <2>5
<1> HIDE DEF G
<1>5. c \in G
  <2>1. c \in 0..c
    BY <1>1
  <2>2. QED
    BY <1>1, <1>3, <1>4, <2>1, Upwards
<1>6. PICK b \in Nat : \A i \in 1..c : f[i] <= b
  BY <1>5 DEF G
<1>7. QED
  BY <1>2, <1>6

\* The longest line, and the bound FloodBound states.
Longest == CHOOSE s \in Sizes : \A t \in Sizes : t <= s
Window == SEND_WINDOW - 1 + Cost(Longest)
Allow(n, b) == n * Window + b * Cost(BurstBytes)

LEMMA LongestProps ==
    /\ Longest \in Sizes /\ Longest \in Nat
    /\ \A s \in Sizes : s \in Nat /\ Cost(s) \in Nat /\ Cost(s) <= Cost(Longest)
    /\ Cost(Longest) \in Nat
<1>1. Sizes \subseteq Nat /\ Sizes # {} /\ IsFiniteSet(Sizes)
  BY SendAssumption
<1>2. PICK b \in Nat : \A n \in Sizes : n <= b
  BY <1>1, FiniteBound
<1>3. \E m \in Sizes : \A n \in Sizes : n <= m
  BY <1>1, <1>2, GreatestNat
<1>4. Longest \in Sizes /\ \A n \in Sizes : n <= Longest
  BY <1>3 DEF Longest
<1>5. QED
  BY <1>1, <1>4, CostType

LEMMA AllowType ==
    ASSUME NEW n \in Nat, NEW b \in Nat
    PROVE  Allow(n, b) \in Nat /\ Window \in Nat /\ Cost(BurstBytes) \in Nat
<1> DEFINE c == Cost(BurstBytes)
<1>1. c \in Nat /\ Window \in Nat
  BY SendAssumption, CostType, LongestProps DEF Window
<1> HIDE DEF c
<1>2. n * Window \in Nat /\ b * c \in Nat
  BY <1>1
<1>3. n * Window + b * c \in Nat
  BY <1>2
<1>4. QED
  BY <1>1, <1>3 DEF Allow, c

\* One more window, and one more burst.
LEMMA AllowWindow ==
    ASSUME NEW n \in Nat, NEW m \in Nat, NEW b \in Nat, m = n + 1
    PROVE  Allow(m, b) = Allow(n, b) + Window
<1> DEFINE q == b * Cost(BurstBytes)
           p == n * Window
           x == m * Window
<1>1. Window \in Nat /\ Cost(BurstBytes) \in Nat
  BY AllowType
<1>2. q \in Nat /\ p \in Nat
  BY <1>1
<1>3. x = p + Window
  BY <1>1
<1>4. Allow(m, b) = x + q /\ Allow(n, b) = p + q
  BY DEF Allow
<1> HIDE DEF q, p, x
<1>5. QED
  BY <1>1, <1>2, <1>3, <1>4

LEMMA AllowBurst ==
    ASSUME NEW n \in Nat, NEW a \in Nat, NEW b \in Nat, a = b + 1
    PROVE  Allow(n, a) = Allow(n, b) + Cost(BurstBytes)
<1> DEFINE c == Cost(BurstBytes)
           q == b * c
           p == n * Window
           x == a * c
<1>1. Window \in Nat /\ c \in Nat
  BY AllowType
<1> HIDE DEF c
<1>2. q \in Nat /\ p \in Nat
  BY <1>1
<1>3. x = q + c
  BY <1>1
<1>4. Allow(n, a) = p + x /\ Allow(n, b) = p + q
  BY DEF Allow, c
<1> HIDE DEF q, p, x
<1>5. Allow(n, a) = Allow(n, b) + c
  BY <1>1, <1>2, <1>3, <1>4
<1>6. QED
  BY <1>5 DEF c

(***************************************************************************)
(* What the server sees.  f is the flood, d and h are debt and behind, s   *)
(* counts clock steps and b bursts.  A step that found behind positive has *)
(* not been used yet: the credit it may give back is still to come.  f is  *)
(* within what the debt still stands for and what was given back; and      *)
(* within one window more than that whatever the debt, which is what a     *)
(* credit given back leaves to stand on.                                   *)
(***************************************************************************)
Used(h, s) == IF h > 0 THEN s - 1 ELSE s
Held(f, d, h, s, b) ==
    /\ h > 0 => s > 0
    /\ f <= Pos(d) + Allow(Used(h, s), b)
    /\ f <= Allow(Used(h, s) + 1, b)

Pays == Held(flood, debt, behind, steps, bursts)

LEMMA UsedType ==
    ASSUME NEW h \in Int, NEW s \in Nat, h > 0 => s > 0
    PROVE  Used(h, s) \in Nat /\ Used(h, s) <= s /\ s <= Used(h, s) + 1
BY DEF Used

\* More allowance never hurts.
LEMMA AllowGrows ==
    ASSUME NEW m \in Nat, NEW n \in Nat, NEW b \in Nat, m = n \/ m = n + 1
    PROVE  Allow(n, b) <= Allow(m, b)
<1>1. Allow(n, b) \in Nat /\ Window \in Nat
  BY AllowType
<1>2. m = n + 1 => Allow(m, b) = Allow(n, b) + Window
  BY AllowWindow
<1>3. QED
  BY <1>1, <1>2

LEMMA HeldInit ==
    ASSUME NEW d \in Int, NEW h \in Int, h <= 0
    PROVE  Held(0, d, h, 0, 0)
<1>1. Used(h, 0) = 0 /\ Pos(d) \in Nat
  BY DEF Used, Pos
<1>2. Allow(0, 0) \in Nat /\ Allow(0 + 1, 0) \in Nat
  BY AllowType
<1>3. QED
  BY <1>1, <1>2 DEF Held

\* Lines of cost c go out from a credit e: e was the debt, or a clock found set back.
LEMMA HeldSent ==
    ASSUME NEW f \in Nat, NEW d \in Int, NEW h \in Int, NEW s \in Nat, NEW b \in Nat,
           Held(f, d, h, s, b), NEW c \in Nat, NEW e \in Nat,
           e = Pos(d) \/ (h > 0 /\ e = 0), e + c <= Window
    PROVE  Held(f + c, e + c, 0, s, b)
<1>1. /\ h > 0 => s > 0
      /\ f <= Pos(d) + Allow(Used(h, s), b) /\ f <= Allow(Used(h, s) + 1, b)
  BY DEF Held
<1> DEFINE u == Used(h, s)
<1>2. u \in Nat /\ (s = u \/ s = u + 1) /\ (h > 0 => s = u + 1) /\ Used(0, s) = s
  BY <1>1, UsedType DEF Used
<1> HIDE DEF u
<1>3. /\ Allow(u, b) \in Nat /\ Allow(u + 1, b) \in Nat /\ Allow(s, b) \in Nat /\ Window \in Nat
      /\ Allow(s + 1, b) = Allow(s, b) + Window /\ Allow(u, b) <= Allow(s, b)
  <2>1. u + 1 \in Nat /\ s + 1 \in Nat
    BY <1>2
  <2>2. /\ Allow(u, b) \in Nat /\ Allow(u + 1, b) \in Nat /\ Allow(s, b) \in Nat
        /\ Window \in Nat
    BY <1>2, <2>1, AllowType
  <2>3. Allow(s + 1, b) = Allow(s, b) + Window
    BY <2>1, AllowWindow
  <2>4. Allow(u, b) <= Allow(s, b)
    BY <1>2, AllowGrows
  <2>5. QED
    BY <2>2, <2>3, <2>4
<1>4. f <= Pos(d) + Allow(u, b) /\ f <= Allow(u + 1, b) /\ Pos(d) \in Nat
  BY <1>1 DEF u, Pos
<1>5. f <= e + Allow(s, b)
  <2>1. CASE e = Pos(d)
    BY <1>3, <1>4, <2>1
  <2>2. CASE h > 0 /\ e = 0
    BY <1>2, <1>3, <1>4, <2>2
  <2>3. QED
    BY <2>1, <2>2
<1>6. Pos(e + c) = e + c
  BY DEF Pos
<1>7. f + c <= Pos(e + c) + Allow(s, b) /\ f + c <= Allow(s + 1, b)
  BY <1>3, <1>5, <1>6
<1>8. QED
  BY <1>2, <1>7 DEF Held

\* A burst pays for itself.
LEMMA HeldBurst ==
    ASSUME NEW f \in Nat, NEW d \in Int, NEW h \in Int, NEW s \in Nat, NEW b \in Nat,
           Held(f, d, h, s, b)
    PROVE  Held(f + Cost(BurstBytes), Pos(d) + Cost(BurstBytes), h, s, b + 1)
<1>1. /\ h > 0 => s > 0
      /\ f <= Pos(d) + Allow(Used(h, s), b) /\ f <= Allow(Used(h, s) + 1, b)
  BY DEF Held
<1> DEFINE u == Used(h, s)
           c == Cost(BurstBytes)
<1>2. u \in Nat
  BY <1>1, UsedType
<1> HIDE DEF u
<1>3. /\ Allow(u, b) \in Nat /\ Allow(u + 1, b) \in Nat /\ c \in Nat
      /\ Allow(u, b + 1) = Allow(u, b) + c /\ Allow(u + 1, b + 1) = Allow(u + 1, b) + c
  <2>1. u + 1 \in Nat /\ b + 1 \in Nat
    BY <1>2
  <2>2. Allow(u, b) \in Nat /\ Allow(u + 1, b) \in Nat /\ c \in Nat
    BY <1>2, <2>1, AllowType
  <2>3. Allow(u, b + 1) = Allow(u, b) + c /\ Allow(u + 1, b + 1) = Allow(u + 1, b) + c
    BY <1>2, <2>1, AllowBurst
  <2>4. QED
    BY <2>2, <2>3
<1> HIDE DEF c
<1>4. Pos(d) \in Nat /\ Pos(Pos(d) + c) = Pos(d) + c
  BY <1>3 DEF Pos
<1>5. f + c <= Pos(Pos(d) + c) + Allow(u, b + 1) /\ f + c <= Allow(u + 1, b + 1)
  BY <1>1, <1>3, <1>4 DEF u
<1>6. QED
  BY <1>1, <1>5 DEF Held, u, c

\* Nothing is sent and the clock goes on or is set: x is what it moves by, g what is left of
\* the flood, and r the clock steps after it.
LEMMA HeldMoves ==
    ASSUME NEW f \in Nat, NEW d \in Int, NEW h \in Int, NEW s \in Nat, NEW b \in Nat,
           Held(f, d, h, s, b), NEW x \in Int, NEW g \in Nat, NEW r \in Nat, Reach \in Nat,
           \/ x = 1 /\ g = Pos(f - 1) /\ r = s
           \/ g = f /\ r = s + 1
    PROVE  Held(g, Since(d - x), Since(h - x), r, b)
<1>1. /\ h > 0 => s > 0
      /\ f <= Pos(d) + Allow(Used(h, s), b) /\ f <= Allow(Used(h, s) + 1, b)
  BY DEF Held
<1> DEFINE u == Used(h, s)
           v == Used(Since(h - x), r)
           e == Since(d - x)
<1>2. Since(h - x) \in Int /\ (Since(h - x) > 0 => h - x > 0) /\ e \in Int
  BY DEF Since
<1>3. Since(h - x) > 0 => r > 0
  BY <1>1, <1>2
<1>4. u \in Nat /\ v \in Nat
  BY <1>1, <1>2, <1>3, UsedType
<1>5. v = u \/ v = u + 1 \/ (v = u + 2 /\ g = f /\ r = s + 1)
  BY <1>1, <1>2 DEF Used
<1>6. x < 0 \/ v = u + 1 \/ v = u + 2 \/ (x = 1 /\ g = Pos(f - 1))
  BY <1>1, <1>2 DEF Used
<1> HIDE DEF u, v, e
<1>7. /\ Allow(u, b) \in Nat /\ Allow(u + 1, b) = Allow(u, b) + Window /\ Window \in Nat
      /\ Allow(u + 2, b) = Allow(u, b) + Window + Window
      /\ Allow(v, b) \in Nat /\ Allow(v + 1, b) = Allow(v, b) + Window
  <2>1. u + 1 \in Nat /\ u + 2 \in Nat /\ u + 2 = (u + 1) + 1 /\ v + 1 \in Nat
    BY <1>4
  <2>2. Allow(u, b) \in Nat /\ Allow(v, b) \in Nat /\ Window \in Nat
    BY <1>4, AllowType
  <2>3. Allow(u + 1, b) = Allow(u, b) + Window /\ Allow(v + 1, b) = Allow(v, b) + Window
    BY <1>4, <2>1, AllowWindow
  <2>4. Allow(u + 2, b) = Allow(u + 1, b) + Window
    BY <2>1, AllowWindow
  <2>5. QED
    BY <2>2, <2>3, <2>4
<1>8. f <= Pos(d) + Allow(u, b) /\ f <= Allow(u, b) + Window /\ g <= f
  BY <1>1, <1>7 DEF u, Pos
<1>9. g <= Allow(v + 1, b)
  BY <1>5, <1>7, <1>8
<1>10. Pos(e) \in Nat /\ (x < 0 => Pos(d) <= Pos(e)) /\ (x = 1 => Pos(d) <= Pos(e) + 1)
  BY DEF Pos, Since, e
<1>11. g <= Pos(e) + Allow(v, b)
  <2>1. CASE v = u
    <3>1. CASE x < 0
      BY <1>7, <1>8, <1>10, <2>1, <3>1 DEF Pos
    <3>2. CASE x = 1 /\ g = Pos(f - 1)
      <4>1. g = 0 \/ g = f - 1
        BY <3>2 DEF Pos
      <4>2. Pos(d) \in Nat
        BY DEF Pos
      <4>3. QED
        BY <1>7, <1>8, <1>10, <2>1, <3>2, <4>1, <4>2
    <3>3. QED
      BY <1>4, <1>6, <2>1, <3>1, <3>2
  <2>2. CASE v = u + 1 \/ v = u + 2
    BY <1>7, <1>8, <1>10, <2>2
  <2>3. QED
    BY <1>5, <2>1, <2>2
<1>12. QED
  BY <1>3, <1>9, <1>11 DEF Held, v, e

(***************************************************************************)
(* tcp_send_queue: what stays is in order and later than what went out,    *)
(* and the credit it takes is bounded.                                     *)
(***************************************************************************)
LEMMA SendQueueEffect ==
    ASSUME NEW q \in Seq(Lines), Rising(q), debt \in Int, behind \in Int, bursts \in Nat,
           steps \in Nat, flood \in Nat, Pays, NEW r, r = tcp_send_queue(q)
    PROVE  /\ r.queue \in Seq(Lines) /\ Rising(r.queue) /\ Elems(r.queue) \subseteq Elems(q)
           /\ Elems(r.sent) \subseteq Elems(q)
           /\ \A l \in Elems(r.queue), m \in Elems(r.sent) : l.pri = m.pri => m.n < l.n
           /\ r.debt \in Int /\ r.behind \in Int /\ r.cost \in Nat
           /\ Held(flood + r.cost, r.debt, r.behind, steps, bursts)
<1> DEFINE d == Credit
           order == Ordered(q)
           k == Quota(order, d)
           sent == SubSeq(order, 1, k)
           left == Without(q, Elems(sent))
           cost == CostOf(order, k)
<1>1. /\ r.sent = sent /\ r.queue = left /\ r.cost = cost
      /\ r.debt = (IF k = 0 THEN debt ELSE d + cost)
      /\ r.behind = IF k = 0 THEN behind ELSE 0
  BY DEF tcp_send_queue
<1>2. d \in Nat /\ (d = Pos(debt) \/ (behind > 0 /\ d = 0))
  BY DEF Credit, Pos
<1>3. order \in Seq(Lines) /\ InTurn(order) /\ Elems(order) = Elems(q)
  BY OrderedProps
<1> HIDE DEF d, order
<1>4. k \in 0..Len(order) /\ (k > 0 => d + CostOf(order, k - 1) < SEND_WINDOW)
  BY <1>2, <1>3, QuotaProps
<1> HIDE DEF k
<1>5. /\ Len(order) \in Nat /\ Elems(order) = {order[i] : i \in 1..Len(order)}
      /\ \A i \in 1..Len(order) : order[i] \in Lines
  BY <1>3, ElemsOf
<1>6. Elems(sent) = {order[i] : i \in 1..k}
  <2>1. \A i \in 1..k : order[i] \in Lines
    BY <1>4, <1>5
  <2>2. 1 \in Int /\ k \in Int /\ k >= 0
    BY <1>4, <1>5
  <2>3. /\ sent \in Seq(Lines) /\ Len(sent) = k
        /\ \A i \in 1..k : sent[i] = order[i]
    <3>1. /\ sent \in Seq(Lines) /\ Len(sent) = IF 1 <= k THEN k - 1 + 1 ELSE 0
          /\ \A i \in 1..k - 1 + 1 : sent[i] = order[1 + i - 1]
      BY <2>1, <2>2, SubSeqProperties
    <3> HIDE DEF sent
    <3>2. k - 1 + 1 = k /\ \A i \in 1..k : 1 + i - 1 = i
      BY <2>2
    <3>3. Len(sent) = k
      BY <2>2, <3>1, <3>2
    <3>4. \A i \in 1..k : sent[i] = order[i]
      BY <3>1, <3>2
    <3>5. QED
      BY <3>1, <3>3, <3>4
  <2> HIDE DEF sent
  <2>4. Elems(sent) = {sent[i] : i \in 1..k}
    BY <2>3, ElemsOf
  <2>5. QED
    BY <2>3, <2>4
<1> HIDE DEF sent
<1>7. left \in Seq(Lines) /\ Elems(left) = Elems(q) \ Elems(sent) /\ Rising(left)
  BY WithoutProps
<1> HIDE DEF left
<1>8. Elems(sent) \subseteq Elems(q)
  BY <1>3, <1>4, <1>5, <1>6
<1>9. ASSUME NEW l \in Elems(left), NEW m \in Elems(sent), l.pri = m.pri PROVE m.n < l.n
  <2>1. PICK j \in 1..k : m = order[j]
    BY <1>6
  <2>2. PICK i \in 1..Len(order) : l = order[i]
    BY <1>3, <1>5, <1>7
  <2>3. i \notin 1..k
    BY <1>6, <1>7, <2>2
  <2>4. j \in 1..Len(order) /\ j < i
    BY <1>4, <1>5, <2>3
  <2>5. QED
    BY <1>3, <1>9, <2>1, <2>2, <2>4 DEF InTurn
<1>10. SEND_WINDOW \in Nat /\ Cost(Longest) \in Nat
  BY LongestProps, SendAssumption
<1>11. /\ r.debt \in Int /\ r.behind \in Int /\ r.cost \in Nat
       /\ Held(flood + r.cost, r.debt, r.behind, steps, bursts)
  <2>1. CASE k = 0
    <3>1. cost = 0
      BY <1>3, <2>1, CostProps
    <3> HIDE DEF cost
    <3>2. r.behind = behind /\ r.debt = debt /\ r.cost = 0 /\ flood + r.cost = flood
      BY <1>1, <2>1, <3>1
    <3>3. QED
      BY <3>2 DEF Pays
  <2>2. CASE k > 0
    <3> DEFINE before == CostOf(order, k - 1)
               one == Cost(order[k].size)
    <3>1. k \in 1..Len(order) /\ k - 1 \in 0..Len(order)
      BY <1>4, <1>5, <2>2
    <3>2. cost = before + one /\ before \in Nat
      BY <1>3, <3>1, CostProps
    <3>3. one \in Nat /\ one <= Cost(Longest)
      BY <1>5, <3>1, LineFields, LongestProps
    <3>4. d + before < SEND_WINDOW
      BY <1>4, <2>2
    <3>5. r.behind = 0 /\ r.debt = d + cost /\ r.cost = cost
      BY <1>1, <1>4, <2>2
    <3> HIDE DEF cost, before, one
    <3>6. cost \in Nat /\ d + cost <= Window
      BY <1>2, <1>10, <3>2, <3>3, <3>4 DEF Window
    <3>7. Held(flood + cost, d + cost, 0, steps, bursts)
      BY <1>2, <3>6, HeldSent DEF Pays
    <3>8. QED
      BY <1>2, <3>5, <3>6, <3>7
  <2>3. QED
    BY <1>4, <1>5, <2>1, <2>2
<1>12. QED
  BY <1>1, <1>7, <1>8, <1>9, <1>11

-----------------------------------------------------------------------------
(***************************************************************************)
(* The inductive invariant: types, the queue and the credit.               *)
(***************************************************************************)
Typed ==
    /\ queue \in Seq(Lines) /\ lines \in Nat /\ lines <= MaxLines
    /\ conn \in Nat /\ conn <= MaxConns /\ (connected => conn > 0)
    /\ labeled \in BOOLEAN /\ connected \in BOOLEAN /\ end_of_motd \in BOOLEAN
    /\ debt \in Int /\ behind \in Int /\ timers \in Nat /\ bursts \in Nat
    /\ flood \in Nat /\ steps \in Nat
    /\ last \in [Priorities -> Nat]
\* Every line was queued on this connection and after the login; numbers go up, and are
\* above the last one sent of the same priority.
Owns == queue # <<>> => connected /\ end_of_motd
Orders ==
    /\ Rising(queue)
    /\ \A l \in Elems(queue) : l.conn = conn /\ l.n <= lines /\ last[l.pri] < l.n
    /\ \A p \in Priorities : last[p] <= lines
Inv == Typed /\ Owns /\ Orders /\ Pays /\ TimerArmed

LEMMA ReachType == Reach \in Nat
BY SendAssumption DEF Reach

LEMMA EmptyQueue == Elems(<<>>) = {} /\ Rising(<<>>) /\ <<>> \in Seq(Lines)
BY DEF Elems, Rising

LEMMA InitInv == Init => Inv
<1> SUFFICES ASSUME Init PROVE Inv
  OBVIOUS
<1>1. MaxLines \in Nat /\ MaxConns \in Nat /\ Reach \in Nat
  BY SendAssumption, ReachType
<1>2. Typed
  <2>1. queue \in Seq(Lines) /\ last \in [Priorities -> Nat]
    BY EmptyQueue DEF Init
  <2>2. /\ lines \in Nat /\ lines <= MaxLines /\ conn \in Nat /\ conn <= MaxConns
        /\ debt \in Int /\ behind \in Int /\ timers \in Nat /\ bursts \in Nat
        /\ flood \in Nat /\ steps \in Nat
    BY <1>1 DEF Init
  <2>3. /\ labeled \in BOOLEAN /\ connected \in BOOLEAN /\ end_of_motd \in BOOLEAN
        /\ ~connected
    BY Zenon DEF Init
  <2>4. QED
    BY <2>1, <2>2, <2>3 DEF Typed
<1>3. Owns /\ Orders /\ TimerArmed
  BY EmptyQueue DEF Init, Owns, Orders, TimerArmed, Priorities
<1>4. Pays
  <2>1. /\ debt \in Int /\ behind \in Int /\ behind <= 0
        /\ flood = 0 /\ steps = 0 /\ bursts = 0
    BY <1>1 DEF Init
  <2>2. QED
    BY <2>1, HeldInit DEF Pays
<1>5. QED
  BY <1>2, <1>3, <1>4 DEF Inv

\* Sending from q, which is the queue or the queue and a new line.
LEMMA SendsKeeps ==
    ASSUME Inv, connected, end_of_motd, NEW q \in Seq(Lines), Rising(q),
           \A l \in Elems(q) : l.conn = conn /\ l.n <= lines' /\ last[l.pri] < l.n,
           lines' \in Nat, lines <= lines', lines' <= MaxLines, timers' \in Nat,
           NEW r, r = tcp_send_queue(q), Sends(r),
           r.queue # <<>> => timers' > 0, UNCHANGED <<link, bounds>>
    PROVE  Inv'
<1>1. Typed /\ Pays /\ Orders
  BY DEF Inv
<1>2. /\ r.queue \in Seq(Lines) /\ Rising(r.queue) /\ Elems(r.queue) \subseteq Elems(q)
      /\ Elems(r.sent) \subseteq Elems(q)
      /\ \A l \in Elems(r.queue), m \in Elems(r.sent) : l.pri = m.pri => m.n < l.n
      /\ r.debt \in Int /\ r.behind \in Int /\ r.cost \in Nat
      /\ Held(flood + r.cost, r.debt, r.behind, steps, bursts)
  BY <1>1, SendQueueEffect DEF Typed
<1>3. /\ queue' = r.queue /\ debt' = r.debt /\ behind' = r.behind /\ flood' = flood + r.cost
      /\ UNCHANGED <<labeled, conn, connected, end_of_motd, bursts, steps>>
  BY DEF Sends, link, bounds
<1> DEFINE S(p) == {l.n : l \in {m \in Elems(r.sent) : m.pri = p}}
           top(p) == IF S(p) = {} THEN last[p] ELSE CHOOSE n \in S(p) : \A m \in S(p) : m <= n
<1>4. last' = [p \in Priorities |-> top(p)]
  BY DEF Sends
<1>5. \A p \in Priorities : top(p) \in S(p) \/ (S(p) = {} /\ top(p) = last[p])
  <2> SUFFICES ASSUME NEW p \in Priorities, S(p) # {} PROVE top(p) \in S(p)
    OBVIOUS
  <2>1. \A m \in Elems(r.sent) : m.n \in Nat /\ m.n <= lines'
    BY <1>2, ElemsOf, LineFields
  <2>2. S(p) \subseteq Nat /\ \A n \in S(p) : n <= lines'
    BY <2>1
  <2> HIDE DEF S
  <2>3. \E m \in S(p) : \A n \in S(p) : n <= m
    BY <2>2, GreatestNat
  <2>4. QED
    BY <2>3
<1>6. \A p \in Priorities : \A n \in S(p) : \E m \in Elems(r.sent) : m.pri = p /\ m.n = n
  OBVIOUS
<1>7. \A p \in Priorities : top(p) \in Nat /\ top(p) <= lines'
  <2> SUFFICES ASSUME NEW p \in Priorities PROVE top(p) \in Nat /\ top(p) <= lines'
    OBVIOUS
  <2> HIDE DEF top, S
  <2>1. CASE top(p) = last[p]
    BY <1>1, <2>1 DEF Typed, Orders
  <2>2. CASE top(p) \in S(p)
    <3>1. PICK m \in Elems(r.sent) : m.n = top(p)
      BY <1>6, <2>2
    <3>2. m \in Elems(q) /\ m \in Lines
      BY <1>2, ElemsOf
    <3>3. m.n \in Nat /\ m.n <= lines'
      BY <3>2, LineFields
    <3>4. QED
      BY <3>1, <3>3
  <2>3. QED
    BY <1>5, <2>1, <2>2
<1>8. ASSUME NEW l \in Elems(r.queue) PROVE l.conn = conn /\ l.n <= lines' /\ top(l.pri) < l.n
  <2> HIDE DEF top, S
  <2>1. l \in Elems(q) /\ l \in Lines
    BY <1>2, <1>8, ElemsOf
  <2>2. l.pri \in Priorities
    BY <2>1, LineFields
  <2>3. CASE top(l.pri) = last[l.pri]
    BY <2>1, <2>3
  <2>4. CASE top(l.pri) \in S(l.pri)
    <3>1. PICK m \in Elems(r.sent) : m.pri = l.pri /\ m.n = top(l.pri)
      BY <1>6, <2>2, <2>4
    <3>2. m.n < l.n
      BY <1>2, <1>8, <3>1
    <3>3. QED
      BY <2>1, <3>1, <3>2
  <2>5. QED
    BY <1>5, <2>2, <2>3, <2>4
<1> HIDE DEF top
<1>9. \A p \in Priorities : last'[p] = top(p)
  BY <1>4
<1>10. Typed'
  <2>1. last' \in [Priorities -> Nat]
    BY <1>4, <1>7
  <2>2. flood \in Nat /\ steps \in Nat /\ bursts \in Nat
    BY <1>1 DEF Typed
  <2>3. flood + r.cost \in Nat
    BY <1>2, <2>2
  <2>4. /\ flood' \in Nat /\ steps' \in Nat /\ debt' \in Int /\ behind' \in Int
        /\ bursts' \in Nat /\ queue' \in Seq(Lines)
    BY <1>2, <1>3, <2>2, <2>3
  <2>5. QED
    BY <1>1, <1>3, <2>1, <2>4 DEF Typed
<1>11. Orders'
  <2>1. \A l \in Elems(queue') : l.conn = conn' /\ l.n <= lines' /\ last'[l.pri] < l.n
    <3> SUFFICES ASSUME NEW l \in Elems(r.queue)
                 PROVE  l.conn = conn /\ l.n <= lines' /\ last'[l.pri] < l.n
      BY <1>3
    <3>1. l.pri \in Priorities
      BY <1>2, ElemsOf, LineFields
    <3>2. QED
      BY <1>8, <1>9, <3>1
  <2>2. Rising(queue)'
    BY <1>2, <1>3 DEF Rising
  <2>3. \A p \in Priorities : last'[p] <= lines'
    BY <1>7, <1>9
  <2>4. QED
    BY <2>1, <2>2, <2>3 DEF Orders, Elems
<1>12. Owns' /\ TimerArmed'
  BY <1>3 DEF Owns, TimerArmed
<1>13. Pays'
  BY <1>2, <1>3 DEF Pays
<1>14. QED
  BY <1>10, <1>11, <1>12, <1>13 DEF Inv

\* Steps that leave the queue and what the invariant knows of it, or empty it.
LEMMA QueueRests ==
    ASSUME Inv, lines' \in Nat, lines <= lines', lines' <= MaxLines,
           UNCHANGED <<labeled, conn, timers, last>>,
           \/ UNCHANGED <<queue, connected, end_of_motd>>
           \/ /\ queue' = <<>> /\ connected' \in BOOLEAN /\ end_of_motd' \in BOOLEAN
              /\ (connected' => connected),
           debt' \in Int, behind' \in Int, bursts' \in Nat, flood' \in Nat, steps' \in Nat, Pays'
    PROVE  Inv'
<1>1. Typed /\ Owns /\ Orders /\ TimerArmed
  BY DEF Inv
<1>2. queue' \in Seq(Lines) /\ connected' \in BOOLEAN /\ end_of_motd' \in BOOLEAN
      /\ (connected' => connected)
  <2>1. CASE UNCHANGED <<queue, connected, end_of_motd>>
    BY <1>1, <2>1 DEF Typed
  <2>2. CASE /\ queue' = <<>> /\ connected' \in BOOLEAN /\ end_of_motd' \in BOOLEAN
             /\ (connected' => connected)
    BY <2>2, EmptyQueue
  <2>3. QED
    BY <2>1, <2>2
<1>3. Typed'
  BY <1>1, <1>2 DEF Typed
<1>4. \A l \in Elems(queue) : l.n \in Nat
  BY <1>1, ElemsOf, LineFields DEF Typed
<1>5. \A p \in Priorities : last[p] \in Nat /\ last[p] <= lines /\ lines \in Nat
  BY <1>1 DEF Typed, Orders
<1>6. Orders'
  <2>1. CASE queue' = queue
    <3>1. Rising(queue)'
      BY <1>1, <2>1 DEF Orders, Rising
    <3>2. \A l \in Elems(queue) : l.conn = conn /\ l.n <= lines' /\ last[l.pri] < l.n
      BY <1>1, <1>4, <1>5 DEF Orders, Typed
    <3>3. \A p \in Priorities : last[p] <= lines'
      BY <1>5
    <3>4. QED
      BY <2>1, <3>1, <3>2, <3>3 DEF Orders, Elems
  <2>2. CASE queue' = <<>>
    <3>1. Rising(queue') /\ Elems(queue') = {}
      BY <2>2, EmptyQueue
    <3>2. \A p \in Priorities : last[p] <= lines'
      BY <1>5
    <3>3. QED
      BY <3>1, <3>2 DEF Orders, Elems, Rising
  <2>3. QED
    BY <2>1, <2>2
<1>7. Owns' /\ TimerArmed'
  BY <1>1 DEF Owns, TimerArmed
<1>8. QED
  BY <1>3, <1>6, <1>7 DEF Inv

LEMMA PriorityType ==
    ASSUME NEW kind, NEW tagged
    PROVE  Priority(kind, tagged) \in Priorities
BY DEF Priority, Priorities

LEMMA SendKeeps ==
    ASSUME Inv, NEW kind \in Kinds, NEW size \in Sizes, Send(kind, size)
    PROVE  Inv'
<1> DEFINE tagged == labeled /\ kind \in {"say", "history"}
           p == Priority(kind, tagged)
           b == tagged /\ kind = "say"
           l == [n |-> lines + 1, pri |-> p, size |-> size, conn |-> conn, tracked |-> b]
           q == Append(queue, l)
<1>1. /\ connected /\ lines < MaxLines /\ lines' = lines + 1 /\ UNCHANGED <<link, bounds>>
      /\ IF end_of_motd THEN tcp_send_len(l) ELSE Straight(l)
  BY DEF Send
<1>2. Typed /\ Orders /\ Pays /\ TimerArmed
  BY DEF Inv
<1>3. lines \in Nat /\ MaxLines \in Nat /\ conn \in 1..MaxConns /\ lines + 1 \in Numbers
  BY <1>1, <1>2, SendAssumption DEF Typed, Numbers
<1>4. p \in Priorities /\ b \in BOOLEAN
  BY PriorityType
<1> HIDE DEF p, b
<1>5. l \in Lines /\ l.n = lines + 1 /\ l.pri = p /\ l.conn = conn
  BY <1>3, <1>4 DEF Lines
<1> HIDE DEF l
<1>6. \A m \in Elems(queue) : m.n < l.n /\ m.n \in Nat
  BY <1>2, <1>3, <1>5, ElemsOf, LineFields DEF Orders, Typed
<1>7. q \in Seq(Lines) /\ Elems(q) = Elems(queue) \cup {l} /\ Rising(q)
  BY <1>2, <1>5, <1>6, Appended DEF Typed, Orders
<1> HIDE DEF q
<1>8. \A m \in Elems(q) : m.conn = conn /\ m.n <= lines' /\ last[m.pri] < m.n
  <2>1. last[p] \in Nat /\ last[p] <= lines
    BY <1>2, <1>4 DEF Typed, Orders
  <2>2. l.conn = conn /\ l.n <= lines' /\ last[l.pri] < l.n
    BY <1>1, <1>3, <1>5, <2>1
  <2>3. \A m \in Elems(queue) : m.conn = conn /\ m.n <= lines' /\ last[m.pri] < m.n
    BY <1>1, <1>2, <1>3, <1>6 DEF Orders
  <2>4. QED
    BY <1>7, <2>2, <2>3
<1>9. lines' \in Nat /\ lines <= lines' /\ lines' <= MaxLines
  BY <1>1, <1>3
<1>10. CASE end_of_motd
  <2>1. PICK r : /\ r = tcp_send_queue(q) /\ Sends(r)
                 /\ timers' = IF r.queue # <<>> /\ queue = <<>> THEN timers + 1 ELSE timers
    BY <1>1, <1>10 DEF tcp_send_len, q
  <2>2. timers' \in Nat /\ (r.queue # <<>> => timers' > 0)
    BY <1>2, <2>1 DEF Typed, TimerArmed
  <2>3. QED
    BY <1>1, <1>7, <1>8, <1>9, <1>10, <2>1, <2>2, SendsKeeps
<1>11. CASE ~end_of_motd
  <2>1. UNCHANGED <<queue, debt, behind, timers, last, labeled, conn, connected, end_of_motd,
                    bursts, flood, steps>>
    BY <1>1, <1>11 DEF Straight, throttle, link, bounds
  <2>2. /\ debt' \in Int /\ behind' \in Int /\ bursts' \in Nat /\ flood' \in Nat /\ steps' \in Nat
        /\ Pays'
    BY <1>2, <2>1 DEF Typed, Pays
  <2>3. QED
    BY <1>9, <2>1, <2>2, QueueRests
<1>12. QED
  BY <1>10, <1>11

LEMMA CallbackKeeps ==
    ASSUME Inv, tcp_send_queue_cb
    PROVE  Inv'
<1>1. Typed /\ Owns /\ Orders /\ Pays /\ TimerArmed
  BY DEF Inv
<1>2. PICK r : r = tcp_send_queue(queue) /\ Sends(r)
  BY DEF tcp_send_queue_cb
<1>3. /\ timers > 0 /\ timers' = (IF queue' = <<>> THEN timers - 1 ELSE timers)
      /\ UNCHANGED <<link, bounds, lines>> /\ queue' = r.queue
  BY <1>2 DEF tcp_send_queue_cb, Sends
<1>4. timers' \in Nat /\ (r.queue # <<>> => timers' > 0)
  BY <1>1, <1>3 DEF Typed
<1>5. CASE queue # <<>>
  <2>1. connected /\ end_of_motd
    BY <1>1, <1>5 DEF Owns
  <2>2. /\ queue \in Seq(Lines) /\ Rising(queue) /\ lines' \in Nat /\ lines <= lines'
        /\ lines' <= MaxLines
        /\ \A l \in Elems(queue) : l.conn = conn /\ l.n <= lines' /\ last[l.pri] < l.n
    BY <1>1, <1>3 DEF Typed, Orders
  <2>3. QED
    BY <1>2, <1>3, <1>4, <2>1, <2>2, SendsKeeps
<1>6. CASE queue = <<>>
  <2>1. /\ r.queue \in Seq(Lines) /\ Elems(r.queue) \subseteq {} /\ Elems(r.sent) \subseteq {}
        /\ r.debt \in Int /\ r.behind \in Int /\ r.cost \in Nat
        /\ Held(flood + r.cost, r.debt, r.behind, steps, bursts)
    BY <1>1, <1>2, <1>6, EmptyQueue, SendQueueEffect DEF Typed
  <2>2. r.queue = <<>>
    <3>1. Len(r.queue) \in Nat /\ Elems(r.queue) = {r.queue[i] : i \in 1..Len(r.queue)}
      BY <2>1, ElemsOf
    <3>2. Len(r.queue) = 0
      <4>1. SUFFICES ASSUME Len(r.queue) # 0 PROVE FALSE
        OBVIOUS
      <4>2. 1 \in 1..Len(r.queue)
        BY <3>1, <4>1
      <4>3. r.queue[1] \in Elems(r.queue)
        BY <3>1, <4>2
      <4>4. QED
        BY <2>1, <4>3
    <3>3. QED
      BY <2>1, <3>2, EmptySeq
  <2>3. last' = last
    <3>1. \A p : {l.n : l \in {m \in Elems(r.sent) : m.pri = p}} = {}
      BY <2>1
    <3>2. last' = [p \in Priorities |-> last[p]]
      BY <1>2, <3>1 DEF Sends
    <3>3. QED
      BY <1>1, <3>2 DEF Typed
  <2>4. debt' = r.debt /\ behind' = r.behind /\ queue' = queue /\ flood' = flood + r.cost
    BY <1>2, <1>6, <2>2 DEF Sends
  <2>5. UNCHANGED <<labeled, conn, connected, end_of_motd, bursts, steps, lines, queue, last>>
    BY <1>3, <2>3, <2>4 DEF link, bounds
  <2>6. Typed'
    <3>1. debt' \in Int /\ behind' \in Int /\ flood' \in Nat
      <4>1. flood \in Nat /\ r.cost \in Nat
        BY <1>1, <2>1 DEF Typed
      <4>2. QED
        BY <2>1, <2>4, <4>1
    <3>2. timers' \in Nat
      BY <1>1, <1>4 DEF Typed
    <3>3. QED
      BY <1>1, <2>5, <3>1, <3>2 DEF Typed
  <2>7. Owns' /\ TimerArmed' /\ Orders'
    BY <1>1, <1>6, <2>5 DEF Owns, TimerArmed, Orders, Elems, Rising
  <2>8. Pays'
    BY <2>1, <2>4, <2>5 DEF Pays
  <2>9. QED
    BY <2>6, <2>7, <2>8 DEF Inv
<1>7. QED
  BY <1>5, <1>6

\* Nothing of the queue, the timers, the connection or the credit changes.
LEMMA NothingMoves ==
    ASSUME Inv, UNCHANGED <<link, throttle, lines, bursts, steps>>
    PROVE  Inv'
<1>1. Typed /\ Pays
  BY DEF Inv
<1>2. UNCHANGED <<queue, debt, behind, timers, last, labeled, conn, connected, end_of_motd,
                  bursts, lines, flood, steps>>
  BY DEF throttle, link
<1>3. /\ debt' \in Int /\ behind' \in Int /\ bursts' \in Nat /\ flood' \in Nat /\ steps' \in Nat
      /\ Pays' /\ lines' \in Nat /\ lines <= lines' /\ lines' <= MaxLines
  BY <1>1, <1>2 DEF Typed, Pays
<1>4. QED
  BY <1>2, <1>3, QueueRests

\* A burst pays for itself; a second takes as much from the flood as from the debt; and each
\* time the clock is set is counted.
LEMMA CreditMoves ==
    ASSUME Inv, Multiline \/ Second \/ ClockSet
    PROVE  Inv'
<1>1. /\ debt \in Int /\ behind \in Int /\ bursts \in Nat /\ flood \in Nat /\ steps \in Nat
      /\ Held(flood, debt, behind, steps, bursts)
      /\ lines \in Nat /\ lines <= MaxLines /\ MaxLines \in Nat /\ ClockStep \in Int
      /\ Reach \in Nat
  BY SendAssumption, ReachType DEF Inv, Typed, Pays
<1>2. Cost(BurstBytes) \in Nat
  BY <1>1, AllowType
<1> HIDE DEF Cost
<1>3. CASE Multiline
  <2>1. /\ lines < MaxLines /\ lines' = lines + 1 /\ bursts' = bursts + 1 /\ steps' = steps
        /\ debt' = Pos(debt) + Cost(BurstBytes) /\ behind' = behind
        /\ flood' = flood + Cost(BurstBytes)
        /\ UNCHANGED <<labeled, conn, timers, last, queue, connected, end_of_motd>>
    BY <1>3 DEF Multiline, link
  <2>2. Pays'
    BY <1>1, <2>1, HeldBurst DEF Pays
  <2>3. /\ lines' \in Nat /\ lines <= lines' /\ lines' <= MaxLines /\ debt' \in Int
        /\ behind' \in Int /\ bursts' \in Nat /\ flood' \in Nat /\ steps' \in Nat
    BY <1>1, <1>2, <2>1 DEF Pos
  <2>4. QED
    BY <2>1, <2>2, <2>3, QueueRests
<1>4. CASE Second
  <2>1. /\ debt' = Since(debt - 1) /\ behind' = Since(behind - 1) /\ flood' = Pos(flood - 1)
        /\ lines' = lines /\ bursts' = bursts /\ steps' = steps
        /\ UNCHANGED <<labeled, conn, timers, last, queue, connected, end_of_motd>>
    BY <1>4 DEF Second, Moves, link, bounds
  <2>2. debt' \in Int /\ behind' \in Int /\ flood' \in Nat
    BY <1>1, <2>1 DEF Since, Pos
  <2>3. Held(Pos(flood - 1), Since(debt - 1), Since(behind - 1), steps, bursts)
    <3>1. Pos(flood - 1) \in Nat /\ 1 \in Int
      BY <2>1, <2>2
    <3>2. QED
      BY <1>1, <3>1, HeldMoves
  <2>4. Pays'
    BY <2>1, <2>3 DEF Pays
  <2>5. QED
    BY <1>1, <2>1, <2>2, <2>4, QueueRests
<1>5. CASE ClockSet
  <2>1. PICK x \in {-ClockStep, ClockStep} : Moves(x)
    BY <1>5 DEF ClockSet
  <2>2. /\ debt' = Since(debt - x) /\ behind' = Since(behind - x) /\ flood' = flood
        /\ lines' = lines /\ bursts' = bursts /\ steps' = steps + 1 /\ x \in Int
        /\ UNCHANGED <<labeled, conn, timers, last, queue, connected, end_of_motd>>
    BY <1>1, <1>5, <2>1 DEF ClockSet, Moves, link
  <2>3. debt' \in Int /\ behind' \in Int /\ steps + 1 \in Nat
    BY <1>1, <2>2 DEF Since
  <2>4. Held(flood, Since(debt - x), Since(behind - x), steps + 1, bursts)
    BY <1>1, <2>2, <2>3, HeldMoves
  <2>5. Pays'
    BY <2>2, <2>4 DEF Pays
  <2>6. QED
    BY <1>1, <2>2, <2>3, <2>5, QueueRests
<1>6. QED
  BY <1>3, <1>4, <1>5

\* A flush and a lost connection empty the queue and leave its timer running.
LEMMA Emptied ==
    ASSUME Inv, cmd_flushq \/ server_disconnect
    PROVE  Inv'
<1>1. /\ debt \in Int /\ behind \in Int /\ bursts \in Nat /\ flood \in Nat /\ steps \in Nat
      /\ Pays /\ lines \in Nat /\ lines <= MaxLines
      /\ connected \in BOOLEAN /\ end_of_motd \in BOOLEAN
  BY DEF Inv, Typed
<1>2. /\ queue' = <<>> /\ connected' \in BOOLEAN /\ end_of_motd' \in BOOLEAN
      /\ (connected' => connected)
      /\ UNCHANGED <<labeled, conn, timers, last, debt, behind, bursts, lines, flood, steps>>
  <2>1. CASE cmd_flushq
    BY <1>1, <2>1 DEF cmd_flushq, link
  <2>2. CASE server_disconnect
    BY <2>2 DEF server_disconnect, bounds
  <2>3. QED
    BY <2>1, <2>2
<1>3. Pays'
  BY <1>1, <1>2 DEF Pays
<1>4. QED
  BY <1>1, <1>2, <1>3, QueueRests

\* A connection comes up, or its login ends, with nothing queued.
LEMMA Joined ==
    ASSUME Inv, server_connected \/ LoginDone
    PROVE  Inv'
<1>1. Typed /\ Owns /\ Orders /\ Pays
  BY DEF Inv
<1>2. /\ UNCHANGED <<queue, debt, behind, timers, last, labeled, lines, bursts, flood, steps>>
      /\ ~connected \/ ~end_of_motd
  BY DEF server_connected, LoginDone, throttle, bounds
<1>3. queue = <<>>
  BY <1>1, <1>2 DEF Owns
<1>4. /\ conn' \in Nat /\ conn' <= MaxConns /\ (connected' => conn' > 0)
      /\ connected' \in BOOLEAN /\ end_of_motd' \in BOOLEAN
  <2>1. CASE server_connected
    <3>1. conn' = conn + 1 /\ conn < MaxConns /\ connected' = TRUE /\ end_of_motd' = end_of_motd
      BY <2>1 DEF server_connected
    <3>2. conn \in Nat /\ MaxConns \in Nat
      BY <1>1, SendAssumption DEF Typed
    <3>3. conn' \in Nat /\ conn' <= MaxConns /\ conn' > 0
      BY <3>1, <3>2
    <3>4. connected' \in BOOLEAN /\ end_of_motd' \in BOOLEAN
      BY <1>1, <3>1, Zenon DEF Typed
    <3>5. QED
      BY <3>3, <3>4
  <2>2. CASE LoginDone
    <3>1. conn' = conn /\ connected' = connected /\ end_of_motd' = TRUE
      BY <2>2 DEF LoginDone
    <3>2. QED
      BY <1>1, <3>1 DEF Typed
  <2>3. QED
    BY <2>1, <2>2
<1>5. Typed'
  BY <1>1, <1>2, <1>4 DEF Typed
<1>6. Orders'
  <2>1. Elems(queue') = {} /\ Rising(queue')
    BY <1>2, <1>3, EmptyQueue
  <2>2. \A p \in Priorities : last'[p] <= lines'
    BY <1>1, <1>2 DEF Orders
  <2>3. QED
    BY <2>1, <2>2 DEF Orders, Elems, Rising
<1>7. Owns' /\ TimerArmed'
  BY <1>2, <1>3 DEF Owns, TimerArmed
<1>8. Pays'
  BY <1>1, <1>2 DEF Pays
<1>9. QED
  BY <1>5, <1>6, <1>7, <1>8 DEF Inv

LEMMA StepInv == Inv /\ [Next]_vars => Inv'
<1> SUFFICES ASSUME Inv, [Next]_vars PROVE Inv'
  OBVIOUS
<1>1. CASE \E kind \in Kinds, size \in Sizes : Send(kind, size)
  BY <1>1, SendKeeps
<1>2. CASE tcp_send_queue_cb
  BY <1>2, CallbackKeeps
<1>3. CASE Multiline \/ Second \/ ClockSet
  BY <1>3, CreditMoves
<1>4. CASE cmd_flushq \/ server_disconnect
  BY <1>4, Emptied
<1>5. CASE server_connected \/ LoginDone
  BY <1>5, Joined
<1>6. CASE \E n \in Numbers : LabeledReply(n) \/ inbound_batch_start(n) \/ inbound_batch_end(n)
  <2>1. UNCHANGED <<link, throttle, lines, bursts, steps>>
    BY <1>6 DEF LabeledReply, inbound_batch_start, inbound_batch_end, bounds
  <2>2. QED
    BY <2>1, NothingMoves
<1>7. CASE stale_sweep_cb
  <2>1. UNCHANGED <<link, throttle, lines, bursts, steps>>
    BY <1>7 DEF stale_sweep_cb, bounds
  <2>2. QED
    BY <2>1, NothingMoves
<1>8. CASE UNCHANGED vars
  <2>1. UNCHANGED <<link, throttle, lines, bursts, steps>>
    BY <1>8 DEF vars, link, throttle
  <2>2. QED
    BY <2>1, NothingMoves
<1>9. QED
  BY <1>1, <1>2, <1>3, <1>4, <1>5, <1>6, <1>7, <1>8 DEF Next

-----------------------------------------------------------------------------
\* In every run the inductive invariant holds: types, what the queue holds, its order, the
\* credit taken and the timer that comes back for it.
THEOREM Invariant == Spec => []Inv
BY InitInv, StepInv, PTL DEF Spec

\* A line that tcp_send_len must leave in the queue always has a tcp_send_queue timer: the
\* flush and the disconnect that empty the queue under a running one do not lose the next.
THEOREM Armed == Spec => []TimerArmed
<1>1. Inv => TimerArmed
  BY DEF Inv
<1>2. QED
  BY <1>1, Invariant, PTL

\* Whatever waits was queued on the connection that is up and after its login, and waits,
\* within its priority, in the order in which it was handed to tcp_send_len.
THEOREM Queueing == Spec => []QueueKept
<1>1. Inv => QueueKept
  <2> SUFFICES ASSUME Inv PROVE QueueKept
    OBVIOUS
  <2>1. Typed /\ Owns /\ Orders
    BY DEF Inv
  <2>2. Elems(queue) = {queue[i] : i \in 1..Len(queue)} /\ Len(queue) \in Nat
    BY <2>1, ElemsOf DEF Typed
  <2>3. \A i \in 1..Len(queue) : queue[i] \in Elems(queue)
    BY <2>2
  <2>4. \A i \in 1..Len(queue) : queue[i].conn = conn /\ last[queue[i].pri] < queue[i].n
    BY <2>1, <2>3 DEF Orders
  <2>5. ASSUME NEW i \in 1..Len(queue) PROVE connected /\ end_of_motd
    <3>1. queue # <<>>
      BY <2>2
    <3>2. QED
      BY <2>1, <3>1 DEF Owns
  <2>6. \A i \in 1..Len(queue) : \A j \in 1..(i - 1) : queue[j].n < queue[i].n
    BY <2>1, <2>2 DEF Orders, Rising
  <2>7. QED
    BY <2>4, <2>5, <2>6 DEF QueueKept, QueueOwned, Fifo
<1>2. QED
  BY <1>1, Invariant, PTL

\* However lines, bursts, flushes, timers and clock steps interleave, what tcp_send_queue lets
\* out exceeds the window by at most one line, bursts apart, and one more window for each
\* time the clock was set.
THEOREM Flooding == Spec => []FloodBound
<1>1. Inv => FloodBound
  <2> SUFFICES ASSUME Inv PROVE FloodBound
    OBVIOUS
  <2> DEFINE u == Used(behind, steps)
  <2>1. /\ flood \in Nat /\ behind \in Int /\ steps \in Nat /\ bursts \in Nat
        /\ (behind > 0 => steps > 0) /\ flood <= Allow(u + 1, bursts)
    BY DEF Inv, Typed, Pays, Held
  <2>2. u \in Nat /\ (steps = u \/ steps = u + 1)
    BY <2>1 DEF Used
  <2> HIDE DEF u
  <2>3. u + 1 \in Nat /\ (steps + 1 = u + 1 \/ steps + 1 = (u + 1) + 1)
    BY <2>2
  <2>4. steps + 1 \in Nat
    BY <2>1
  <2>5. Allow(u + 1, bursts) \in Nat /\ Allow(steps + 1, bursts) \in Nat
    BY <2>1, <2>3, <2>4, AllowType
  <2>6. Allow(u + 1, bursts) <= Allow(steps + 1, bursts)
    BY <2>1, <2>3, <2>4, AllowGrows
  <2>7. flood <= Allow(steps + 1, bursts)
    BY <2>1, <2>5, <2>6
  <2>8. QED
    BY <2>7 DEF Allow, Window, FloodBound, Longest
<1>2. QED
  BY <1>1, Invariant, PTL
=============================================================================
