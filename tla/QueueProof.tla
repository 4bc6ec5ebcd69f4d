------------------------------ MODULE QueueProof ------------------------------
(***************************************************************************)
(* Proofs about TaskQueue: the slice stays a heap without doubles, and     *)
(* pushes and pops are those of WaitQueue, for any number of tasks and any *)
(* priorities.                                                             *)
(*                                                                         *)
(* The slice is sifted by a loop.  Its invariant says that one element may *)
(* be out of place, and that its children are in order with its parent all *)
(* the same; the loop ends because each turn leaves a level behind.        *)
(***************************************************************************)
EXTENDS TaskQueue, Induction, SequenceTheorems

\* The element at i of g outranks the one at j.
Above(g, i, j) == Priority[g[i]] > Priority[g[j]]

\* g holds the elements of h in some order, each once.
Shuffle(g, h) ==
  /\ g \in Seq(Task) /\ Len(g) = Len(h)
  /\ Range(g) = Range(h) /\ IsInjective(g)

LEMMA Ranks ==
  ASSUME NEW g \in Seq(Task), NEW i \in 1 .. Len(g)
  PROVE  g[i] \in Task /\ Priority[g[i]] \in Int
BY PriorityAssumption

LEMMA LessMeans ==
  ASSUME NEW g \in Seq(Task), NEW i \in 1 .. Len(g), NEW j \in 1 .. Len(g),
         j < i
  PROVE  Less(g, i, j) <=> Above(g, i, j)
BY Ranks DEF Less, Above

LEMMA SwapFacts ==
  ASSUME NEW g \in Seq(Task), NEW i \in 1 .. Len(g), NEW j \in 1 .. Len(g)
  PROVE  /\ Swap(g, i, j) \in Seq(Task) /\ Len(Swap(g, i, j)) = Len(g)
         /\ Swap(g, i, j)[i] = g[j] /\ Swap(g, i, j)[j] = g[i]
         /\ \A k \in 1 .. Len(g) :
              k # i /\ k # j => Swap(g, i, j)[k] = g[k]
BY DEF Swap

LEMMA SwapShuffles ==
  ASSUME NEW h \in Seq(Task), NEW g, Shuffle(g, h),
         NEW i \in 1 .. Len(g), NEW j \in 1 .. Len(g)
  PROVE  Shuffle(Swap(g, i, j), h)
<1> DEFINE s == Swap(g, i, j)
<1>1. /\ g \in Seq(Task) /\ DOMAIN g = 1 .. Len(g) /\ IsInjective(g)
      /\ Len(g) = Len(h) /\ Range(g) = Range(h)
  BY DEF Shuffle
<1>2. /\ s \in Seq(Task) /\ Len(s) = Len(g) /\ s[i] = g[j] /\ s[j] = g[i]
      /\ \A k \in 1 .. Len(g) : k # i /\ k # j => s[k] = g[k]
  BY <1>1, SwapFacts
<1> HIDE DEF s
<1>3. DOMAIN s = 1 .. Len(g)
  BY <1>2
<1>4. Range(s) = Range(g)
  <2>1. ASSUME NEW k \in 1 .. Len(g)
        PROVE  s[k] \in Range(g)
    BY <1>1, <1>2 DEF Range
  <2>2. ASSUME NEW k \in 1 .. Len(g)
        PROVE  g[k] \in Range(s)
    <3>1. CASE k = i
      BY <1>2, <1>3, <3>1 DEF Range
    <3>2. CASE k = j
      BY <1>2, <1>3, <3>2 DEF Range
    <3>3. CASE k # i /\ k # j
      BY <1>2, <1>3, <3>3 DEF Range
    <3> QED
      BY <3>1, <3>2, <3>3
  <2> QED
    BY <1>1, <1>3, <2>1, <2>2 DEF Range
<1>5. IsInjective(s)
  <2>1. \A a, b \in 1 .. Len(g) : g[a] = g[b] => a = b
    BY <1>1 DEF IsInjective
  <2>2. ASSUME NEW a \in 1 .. Len(g), NEW b \in 1 .. Len(g), s[a] = s[b]
        PROVE  a = b
    BY <1>2, <2>1, <2>2
  <2> QED
    BY <1>3, <2>2 DEF IsInjective
<1> QED
  BY <1>1, <1>2, <1>4, <1>5 DEF Shuffle, s

LEMMA Half ==
  \A i \in Nat : i > 1 => i \div 2 \in 1 .. i - 1
OBVIOUS

-----------------------------------------------------------------------------
(* Sifting up *)

\* No element outranks its parent, but perhaps the one at k.
Ordered(g, k) ==
  \A i \in 2 .. Len(g) : i # k => ~Above(g, i, i \div 2)

\* The children of k do not outrank the parent of k.
Bridged(g, k) ==
  \A i \in 2 .. Len(g) :
    i \div 2 = k /\ k # 1 => ~Above(g, i, k \div 2)

UpInv(s, h) ==
  /\ s \in Sifting /\ s.at \in 1 .. Len(h)
  /\ Shuffle(s.h, h)
  /\ Ordered(s.h, s.at) /\ Bridged(s.h, s.at)

UpStopped(s) == s.at = 1 \/ ~Less(s.h, s.at, s.at \div 2)

\* A turn of the loop of up keeps its invariant, and unless it stops there
\* moves to a level above.
LEMMA UpTurnKeeps ==
  ASSUME NEW h \in Seq(Task), NEW s, UpInv(s, h)
  PROVE  /\ UpInv(UpTurn[s], h)
         /\ UpStopped(s) => UpTurn[s] = s
         /\ ~UpStopped(s) => UpTurn[s].at < s.at
<1> DEFINE g == s.h
           k == s.at
           p == k \div 2
           n == Len(h)
<1>1. /\ s \in Sifting /\ g \in Seq(Task) /\ Len(g) = n /\ n \in Nat
      /\ k \in 1 .. n /\ Ordered(g, k) /\ Bridged(g, k)
  BY DEF UpInv, Shuffle
<1>2. UpTurn[s] = IF UpStopped(s) THEN s ELSE [h |-> Swap(g, k, p), at |-> p]
  BY <1>1 DEF UpTurn, UpStopped
<1>3. CASE UpStopped(s)
  BY <1>2, <1>3
<1>4. CASE ~UpStopped(s)
  <2> DEFINE t == Swap(g, k, p)
  <2>1. k # 1 /\ p \in 1 .. k - 1 /\ p \in 1 .. n
    BY <1>1, <1>4, Half DEF UpStopped
  <2>2. Above(g, k, p)
    BY <1>1, <1>4, <2>1, LessMeans DEF UpStopped
  <2>3. /\ t \in Seq(Task) /\ Len(t) = n /\ t[k] = g[p] /\ t[p] = g[k]
        /\ \A i \in 1 .. n : i # k /\ i # p => t[i] = g[i]
    <3> HIDE DEF g, k, p, n
    <3>1. g \in Seq(Task) /\ k \in 1 .. Len(g) /\ p \in 1 .. Len(g)
      BY <1>1, <2>1
    <3>2. /\ t \in Seq(Task) /\ Len(t) = Len(g)
          /\ t[k] = g[p] /\ t[p] = g[k]
          /\ \A i \in 1 .. Len(g) : i # k /\ i # p => t[i] = g[i]
      BY <3>1, SwapFacts
    <3> QED
      BY <1>1, <3>2
  <2>4. Shuffle(t, h)
    BY <1>1, <2>1, SwapShuffles DEF UpInv
  <2> HIDE DEF t
  <2>5. \A i \in 1 .. n : Priority[g[i]] \in Int
    BY <1>1, Ranks
  <2>6. ASSUME NEW i \in 2 .. n
        PROVE  i \in 1 .. n /\ i \div 2 \in 1 .. n /\ i \div 2 < i
    BY <1>1, Half
  <2>7. Ordered(t, p)
    <3>1. SUFFICES ASSUME NEW i \in 2 .. n, i # p
                   PROVE  ~Above(t, i, i \div 2)
      BY <2>3 DEF Ordered
    <3>2. i \in 1 .. n /\ i \div 2 \in 1 .. n /\ i \div 2 < i
      BY <2>6
    <3>3. CASE i = k
      BY <1>1, <2>1, <2>2, <2>3, <2>5, <3>3, SMTT(30) DEF Above
    <3>4. CASE i # k /\ i \div 2 = k
      <4>1. ~Above(g, i, p)
        BY <1>1, <2>1, <3>4 DEF Bridged
      <4> QED
        BY <2>1, <2>3, <3>1, <3>2, <3>4, <4>1 DEF Above
    <3>5. CASE i # k /\ i \div 2 # k
      <4>1. ~Above(g, i, i \div 2) /\ t[i] = g[i]
        BY <1>1, <2>3, <3>1, <3>2, <3>5 DEF Ordered
      <4>2. CASE i \div 2 = p
        <5>1. /\ Priority[g[i]] \in Int /\ Priority[g[p]] \in Int
              /\ Priority[g[k]] \in Int
          BY <1>1, <2>1, <2>5, <3>2
        <5>2. /\ ~(Priority[g[i]] > Priority[g[p]])
              /\ Priority[g[k]] > Priority[g[p]]
          BY <2>2, <4>1, <4>2 DEF Above
        <5>3. t[i] = g[i] /\ t[i \div 2] = g[k]
          BY <2>3, <4>1, <4>2
        <5> HIDE DEF g, k, p
        <5> QED
          BY <5>1, <5>2, <5>3 DEF Above
      <4>3. CASE i \div 2 # p
        BY <2>3, <3>2, <3>5, <4>1, <4>3 DEF Above
      <4> QED
        BY <4>2, <4>3
    <3> QED
      BY <3>3, <3>4, <3>5
  <2>8. Bridged(t, p)
    <3>1. SUFFICES ASSUME NEW i \in 2 .. n, i \div 2 = p, p # 1
                   PROVE  ~Above(t, i, p \div 2)
      BY <2>3 DEF Bridged
    <3>2. /\ p \in 2 .. n /\ p # k /\ p \div 2 \in 1 .. n /\ p \div 2 < p
          /\ i \in 1 .. n /\ p < i /\ p < k
      BY <1>1, <2>1, <2>6, <3>1
    <3>3. ~Above(g, p, p \div 2) /\ t[p \div 2] = g[p \div 2]
      BY <1>1, <2>3, <3>2 DEF Ordered
    <3>4. CASE i = k
      BY <2>3, <3>3, <3>4 DEF Above
    <3>5. CASE i # k
      <4>1. ~Above(g, i, p) /\ t[i] = g[i]
        BY <1>1, <2>3, <3>1, <3>2, <3>5, SMTT(30) DEF Ordered
      <4> QED
        BY <2>1, <2>5, <3>2, <3>3, <4>1 DEF Above
    <3> QED
      BY <3>4, <3>5
  <2>9. /\ UpTurn[s].h = t /\ UpTurn[s].at = p
        /\ UpTurn[s] = [h |-> t, at |-> p]
    BY <1>2, <1>4 DEF t
  <2>10. UpTurn[s] \in Sifting
    BY <2>1, <2>3, <2>9 DEF Sifting
  <2> QED
    BY <1>1, <1>4, <2>1, <2>4, <2>7, <2>8, <2>9, <2>10 DEF UpInv
<1> QED
  BY <1>3, <1>4

\* A slice whose last element alone may be out of place is a heap when up is
\* done with it, with the same elements.
LEMMA UpSifts ==
  ASSUME NEW h \in Seq(Task), IsInjective(h), h # <<>>, Ordered(h, Len(h))
  PROVE  Shuffle(Up(h, Len(h)), h) /\ Ordered(Up(h, Len(h)), 1)
<1> DEFINE n == Len(h)
           d == [h |-> h, at |-> n]
           w == CHOOSE w : Turns(UpTurn, d, n, w)
<1>1. n \in Nat /\ n \in 1 .. n /\ DOMAIN h = 1 .. n
  OBVIOUS
<1>2. Turns(UpTurn, d, n, w)
  BY <1>1, TurnsExist
<1>3. Up(h, n) = w[n].h
  BY DEF Up, Turns
<1> HIDE DEF w
<1>4. /\ w[0] = d
      /\ \A k \in 0 .. n : k # 0 => w[k] = UpTurn[w[k - 1]]
  BY <1>1, <1>2, TurnsMean
<1>5. UpInv(d, h)
  <2>1. d \in Sifting /\ d.h = h /\ d.at = n
    BY <1>1 DEF Sifting
  <2>2. Bridged(h, n)
    BY <1>1, Half DEF Bridged
  <2> QED
    BY <1>1, <2>1, <2>2 DEF UpInv, Shuffle
<1> DEFINE N == {k \in Nat : k <= n =>
                   /\ UpInv(w[k], h)
                   /\ UpStopped(w[k]) \/ w[k].at + k <= n}
<1>6. 0 \in N
  BY <1>1, <1>4, <1>5
<1>7. ASSUME NEW k \in Nat, k \in N
      PROVE  k + 1 \in N
  <2>1. SUFFICES ASSUME k + 1 <= n
                 PROVE  /\ UpInv(w[k + 1], h)
                        /\ UpStopped(w[k + 1]) \/ w[k + 1].at + (k + 1) <= n
    OBVIOUS
  <2>2. /\ UpInv(w[k], h)
        /\ UpStopped(w[k]) \/ w[k].at + k <= n
    BY <1>1, <1>7, <2>1
  <2>3. w[k + 1] = UpTurn[w[k]]
    BY <1>1, <1>4, <2>1
  <2>4. /\ UpInv(w[k + 1], h)
        /\ UpStopped(w[k]) => w[k + 1] = w[k]
        /\ ~UpStopped(w[k]) => w[k + 1].at < w[k].at
    BY <2>2, <2>3, UpTurnKeeps
  <2>5. w[k].at \in Int /\ w[k + 1].at \in Int
    BY <2>2, <2>4 DEF UpInv
  <2> QED
    BY <1>1, <2>2, <2>4, <2>5
<1>8. n \in N
  <2> HIDE DEF N
  <2> QED
    BY <1>1, <1>6, <1>7, NatInduct
<1>9. UpInv(w[n], h) /\ UpStopped(w[n])
  BY <1>1, <1>8 DEF UpInv
<1>10. Ordered(w[n].h, 1)
  <2> DEFINE g == w[n].h
             k == w[n].at
  <2>1. /\ g \in Seq(Task) /\ Len(g) = n /\ k \in 1 .. n /\ Ordered(g, k)
        /\ k = 1 \/ ~Less(g, k, k \div 2)
    BY <1>9 DEF UpInv, Shuffle, UpStopped
  <2>2. CASE k # 1
    <3>1. k \div 2 \in 1 .. n /\ k \div 2 < k
      BY <1>1, <2>1, <2>2, Half
    <3>2. ~Above(g, k, k \div 2)
      BY <2>1, <2>2, <3>1, LessMeans
    <3> QED
      BY <2>1, <3>2 DEF Ordered
  <2> QED
    BY <2>1, <2>2
<1> QED
  BY <1>3, <1>9, <1>10 DEF UpInv

-----------------------------------------------------------------------------
(* Sifting down, among the first m elements *)

\* None of them outranks its parent, but perhaps the children of k.
OrderedBelow(g, m, k) ==
  \A i \in 2 .. m : i \div 2 # k => ~Above(g, i, i \div 2)

\* The children of k do not outrank the parent of k.
BridgedBelow(g, m, k) ==
  \A i \in 2 .. m : i \div 2 = k /\ k # 1 => ~Above(g, i, k \div 2)

DownInv(s, h, m) ==
  /\ s \in Sifting /\ s.at \in 1 .. Len(h)
  /\ Shuffle(s.h, h)
  /\ OrderedBelow(s.h, m, s.at) /\ BridgedBelow(s.h, m, s.at)
  /\ \A i \in m + 1 .. Len(h) : s.h[i] = h[i]

\* The child the loop of down compares with, and when it stops.
Child(g, m, k) ==
  IF 2 * k < m /\ Less(g, 2 * k + 1, 2 * k) THEN 2 * k + 1 ELSE 2 * k

DownStopped(s, m) ==
  2 * s.at > m \/ ~Less(s.h, Child(s.h, m, s.at), s.at)

LEMMA Children ==
  \A k \in Nat : k > 0 =>
    /\ (2 * k) \div 2 = k /\ (2 * k + 1) \div 2 = k
    /\ \A i \in Nat : i \div 2 = k => i = 2 * k \/ i = 2 * k + 1
OBVIOUS

\* That child is one of the first m, and its sibling does not outrank it.
LEMMA ChildFacts ==
  ASSUME NEW g \in Seq(Task), NEW m \in 0 .. Len(g), NEW k \in 1 .. Len(g),
         2 * k <= m
  PROVE  /\ Child(g, m, k) \in 2 .. m /\ Child(g, m, k) \div 2 = k
         /\ k < Child(g, m, k)
         /\ \A i \in 2 .. m : i \div 2 = k => ~Above(g, i, Child(g, m, k))
<1>1. 2 * k \in 2 .. m /\ 2 * k \in 1 .. Len(g) /\ k < 2 * k
  OBVIOUS
<1>2. \A i \in 1 .. Len(g) : Priority[g[i]] \in Int
  BY Ranks
<1>3. CASE 2 * k < m
  <2>1. 2 * k + 1 \in 2 .. m /\ 2 * k + 1 \in 1 .. Len(g)
    BY <1>1, <1>3
  <2>2. Less(g, 2 * k + 1, 2 * k) <=> Above(g, 2 * k + 1, 2 * k)
    BY <1>1, <2>1, LessMeans
  <2>3. \A i \in 2 .. m : i \div 2 = k => i = 2 * k \/ i = 2 * k + 1
    BY Children
  <2>4. /\ Child(g, m, k) = IF Above(g, 2 * k + 1, 2 * k) THEN 2 * k + 1
                                                          ELSE 2 * k
    BY <1>3, <2>2 DEF Child
  <2>5. /\ Priority[g[2 * k]] \in Int /\ Priority[g[2 * k + 1]] \in Int
    BY <1>1, <1>2, <2>1
  <2>6. \A i \in 2 .. m : i \div 2 = k => ~Above(g, i, Child(g, m, k))
    <3> DEFINE a == 2 * k
               b == 2 * k + 1
    <3> HIDE DEF a, b
    <3> QED
      BY <2>3, <2>4, <2>5 DEF Above
  <2> QED
    BY <1>1, <2>1, <2>4, <2>6, Children
<1>4. CASE ~(2 * k < m)
  <2>1. Child(g, m, k) = 2 * k
    BY <1>4 DEF Child
  <2>2. \A i \in 2 .. m : i \div 2 = k => i = 2 * k
    BY <1>4, Children
  <2>3. ~Above(g, 2 * k, 2 * k)
    BY <1>1, <1>2 DEF Above
  <2> QED
    BY <1>1, <2>1, <2>2, <2>3, Children
<1> QED
  BY <1>3, <1>4

LEMMA DownTurnKeeps ==
  ASSUME NEW h \in Seq(Task), NEW m \in 0 .. Len(h), NEW s, DownInv(s, h, m)
  PROVE  /\ DownInv(DownTurn(m)[s], h, m)
         /\ DownStopped(s, m) => DownTurn(m)[s] = s
         /\ ~DownStopped(s, m) => DownTurn(m)[s].at > s.at
<1> DEFINE g == s.h
           k == s.at
           c == Child(g, m, k)
           n == Len(h)
<1>1. /\ s \in Sifting /\ g \in Seq(Task) /\ Len(g) = n /\ n \in Nat
      /\ k \in 1 .. n /\ OrderedBelow(g, m, k) /\ BridgedBelow(g, m, k)
  BY DEF DownInv, Shuffle
<1>2. DownTurn(m)[s] = IF DownStopped(s, m) THEN s
                       ELSE [h |-> Swap(g, k, c), at |-> c]
  BY <1>1 DEF DownTurn, DownStopped, Child
<1>3. CASE DownStopped(s, m)
  BY <1>2, <1>3
<1>4. CASE ~DownStopped(s, m)
  <2> DEFINE t == Swap(g, k, c)
  <2>1. 2 * k <= m /\ Less(g, c, k)
    BY <1>1, <1>4 DEF DownStopped
  <2>2. /\ c \in 2 .. m /\ c \div 2 = k /\ k < c /\ c \in 1 .. n
        /\ \A i \in 2 .. m : i \div 2 = k => ~Above(g, i, c)
    BY <1>1, <2>1, ChildFacts, SMTT(30)
  <2> HIDE DEF c
  <2>3. Above(g, c, k)
    BY <1>1, <2>1, <2>2, LessMeans
  <2>4. /\ t \in Seq(Task) /\ Len(t) = n /\ t[k] = g[c] /\ t[c] = g[k]
        /\ \A i \in 1 .. n : i # k /\ i # c => t[i] = g[i]
    <3>1. k \in 1 .. Len(g) /\ c \in 1 .. Len(g)
      BY <1>1, <2>2
    <3> HIDE DEF g, k
    <3> QED
      BY <1>1, <3>1, SwapFacts
  <2>5. Shuffle(t, h)
    BY <1>1, <2>2, SwapShuffles DEF DownInv
  <2> HIDE DEF t
  <2>6. \A i \in 1 .. n : Priority[g[i]] \in Int
    BY <1>1, Ranks
  <2>7. ASSUME NEW i \in 2 .. m
        PROVE  i \in 1 .. n /\ i \div 2 \in 1 .. n /\ i \div 2 < i
    BY <1>1, Half
  <2>8. OrderedBelow(t, m, c)
    <3>1. SUFFICES ASSUME NEW i \in 2 .. m, i \div 2 # c
                   PROVE  ~Above(t, i, i \div 2)
      BY DEF OrderedBelow
    <3>2. i \in 1 .. n /\ i \div 2 \in 1 .. n /\ i \div 2 < i
      BY <2>7
    <3>3. CASE i = c
      BY <1>1, <2>2, <2>3, <2>4, <2>6, <3>3, SMTT(30) DEF Above
    <3>4. CASE i # c /\ i \div 2 = k
      <4>1. ~Above(g, i, c) /\ t[i] = g[i]
        BY <2>2, <2>4, <3>2, <3>4
      <4> QED
        BY <2>4, <3>4, <4>1 DEF Above
    <3>5. CASE i = k
      <4>1. ~Above(g, c, k \div 2) /\ k # 1
        BY <1>1, <2>2, <3>5 DEF BridgedBelow
      <4>2. t[k \div 2] = g[k \div 2]
        BY <2>4, <3>1, <3>2, <3>5
      <4> QED
        BY <2>4, <3>5, <4>1, <4>2 DEF Above
    <3>6. CASE i # c /\ i # k /\ i \div 2 # k
      <4>1. ~Above(g, i, i \div 2)
        BY <1>1, <3>6 DEF OrderedBelow
      <4> QED
        BY <2>4, <3>1, <3>2, <3>6, <4>1 DEF Above
    <3> QED
      BY <3>3, <3>4, <3>5, <3>6
  <2>9. BridgedBelow(t, m, c)
    <3>1. SUFFICES ASSUME NEW i \in 2 .. m, i \div 2 = c
                   PROVE  ~Above(t, i, c \div 2)
      BY DEF BridgedBelow
    <3>2. i \in 1 .. n /\ c < i /\ i # k /\ c # k
      BY <1>1, <2>2, <2>7, <3>1
    <3>3. ~Above(g, i, c) /\ t[i] = g[i]
      BY <1>1, <2>2, <2>4, <3>1, <3>2 DEF OrderedBelow
    <3> QED
      BY <2>2, <2>4, <3>3 DEF Above
  <2>10. \A i \in m + 1 .. n : t[i] = h[i]
    <3>1. ASSUME NEW i \in m + 1 .. n
          PROVE  i \in 1 .. n /\ i # k /\ i # c
      BY <1>1, <2>1, <2>2
    <3> QED
      BY <2>4, <3>1 DEF DownInv
  <2>11. /\ DownTurn(m)[s].h = t /\ DownTurn(m)[s].at = c
         /\ DownTurn(m)[s] = [h |-> t, at |-> c]
    BY <1>2, <1>4 DEF t
  <2>12. DownTurn(m)[s] \in Sifting
    BY <2>2, <2>4, <2>11 DEF Sifting
  <2> QED
    BY <1>1, <1>4, <2>2, <2>5, <2>8, <2>9, <2>10, <2>11, <2>12 DEF DownInv
<1> QED
  BY <1>3, <1>4

\* A slice of whose first m elements the root alone may be out of place is a
\* heap up to m when down is done with it, with the same elements, and the
\* others where they were.
LEMMA DownSifts ==
  ASSUME NEW h \in Seq(Task), IsInjective(h), h # <<>>,
         NEW m \in 0 .. Len(h), OrderedBelow(h, m, 1)
  PROVE  /\ Shuffle(Down(h, m), h)
         /\ \A i \in 2 .. m : ~Above(Down(h, m), i, i \div 2)
         /\ \A i \in m + 1 .. Len(h) : Down(h, m)[i] = h[i]
<1> DEFINE n == Len(h)
           d == [h |-> h, at |-> 1]
           F == DownTurn(m)
           w == CHOOSE w : Turns(F, d, n, w)
<1>1. n \in Nat /\ n >= 1 /\ DOMAIN h = 1 .. n
  OBVIOUS
<1>2. Turns(F, d, n, w)
  <2> HIDE DEF F
  <2> QED
    BY <1>1, TurnsExist
<1>3. Down(h, m) = w[n].h
  BY DEF Down, Turns
<1> HIDE DEF w
<1>4. /\ w[0] = d
      /\ \A k \in 0 .. n : k # 0 => w[k] = F[w[k - 1]]
  <2> HIDE DEF F, d, n
  <2> QED
    BY <1>1, <1>2, TurnsMean
<1>5. DownInv(d, h, m)
  <2>1. d \in Sifting /\ d.h = h /\ d.at = 1
    BY DEF Sifting
  <2> QED
    BY <1>1, <2>1 DEF DownInv, Shuffle, BridgedBelow
<1> DEFINE N == {k \in Nat : k <= n =>
                   /\ DownInv(w[k], h, m)
                   /\ DownStopped(w[k], m) \/ w[k].at > k}
<1>6. 0 \in N
  BY <1>1, <1>4, <1>5
<1>7. ASSUME NEW k \in Nat, k \in N
      PROVE  k + 1 \in N
  <2>1. SUFFICES ASSUME k + 1 <= n
                 PROVE  /\ DownInv(w[k + 1], h, m)
                        /\ DownStopped(w[k + 1], m) \/ w[k + 1].at > k + 1
    OBVIOUS
  <2>2. /\ DownInv(w[k], h, m)
        /\ DownStopped(w[k], m) \/ w[k].at > k
    BY <1>1, <1>7, <2>1
  <2>3. w[k + 1] = DownTurn(m)[w[k]]
    BY <1>1, <1>4, <2>1
  <2>4. /\ DownInv(w[k + 1], h, m)
        /\ DownStopped(w[k], m) => w[k + 1] = w[k]
        /\ ~DownStopped(w[k], m) => w[k + 1].at > w[k].at
    BY <2>2, <2>3, DownTurnKeeps
  <2>5. w[k].at \in Int /\ w[k + 1].at \in Int
    BY <2>2, <2>4 DEF DownInv
  <2> QED
    BY <1>1, <2>2, <2>4, <2>5
<1>8. n \in N
  <2> HIDE DEF N
  <2> QED
    BY <1>1, <1>6, <1>7, NatInduct
<1>9. DownInv(w[n], h, m) /\ DownStopped(w[n], m)
  BY <1>1, <1>8 DEF DownInv
<1>10. ASSUME NEW i \in 2 .. m
       PROVE  ~Above(w[n].h, i, i \div 2)
  <2> DEFINE g == w[n].h
             k == w[n].at
             c == Child(g, m, k)
  <2>1. /\ g \in Seq(Task) /\ Len(g) = n /\ k \in 1 .. n
        /\ OrderedBelow(g, m, k)
        /\ 2 * k > m \/ ~Less(g, c, k)
    BY <1>9 DEF DownInv, Shuffle, DownStopped
  <2>2. CASE i \div 2 # k
    BY <2>1, <2>2 DEF OrderedBelow
  <2>3. CASE i \div 2 = k
    <3>1. 2 * k <= m
      BY <1>1, <2>1, <2>3
    <3>2. c \in 1 .. n /\ k < c /\ ~Above(g, i, c)
      <4>1. m \in 0 .. Len(g) /\ k \in 1 .. Len(g)
        BY <1>1, <2>1
      <4>2. /\ c \in 2 .. m /\ k < c
            /\ \A j \in 2 .. m : j \div 2 = k => ~Above(g, j, c)
        <5> HIDE DEF g, k
        <5> QED
          BY <2>1, <3>1, <4>1, ChildFacts DEF c
      <4> QED
        BY <1>1, <2>3, <4>2
    <3>3. ~Above(g, c, k)
      BY <2>1, <3>1, <3>2, LessMeans
    <3>4. /\ Priority[g[i]] \in Int /\ Priority[g[c]] \in Int
          /\ Priority[g[k]] \in Int
      BY <1>1, <2>1, <3>2, Ranks, SMTT(30)
    <3>5. ~Above(g, i, k)
      <4> HIDE DEF g, k, c
      <4> QED
        BY <3>2, <3>3, <3>4 DEF Above
    <3> QED
      BY <2>3, <3>5
  <2> QED
    BY <2>2, <2>3
<1> QED
  BY <1>3, <1>9, <1>10 DEF DownInv

-----------------------------------------------------------------------------
(* Pushes and pops *)

LEMMA OrderedMeans == TypeOK => (HeapOrdered <=> Ordered(heap, 1))
BY DEF TypeOK, HeapOrdered, Ordered, Above

\* Where no element outranks its parent, none outranks the root.
LEMMA RootHighest ==
  ASSUME NEW h \in Seq(Task), Ordered(h, 1), NEW k \in 1 .. Len(h)
  PROVE  ~Above(h, k, 1)
<1> DEFINE n == Len(h)
           S == {i \in 1 .. n : Above(h, i, 1)}
<1>1. n \in Nat /\ 1 \in 1 .. n
  OBVIOUS
<1>2. SUFFICES ASSUME S # {}
               PROVE  FALSE
  OBVIOUS
<1>3. S \in SUBSET Nat
  BY <1>1
<1>4. PICK m \in S : \A i \in S : m <= i
  <2> HIDE DEF S
  <2> QED
    BY <1>2, <1>3, Least
<1>5. m \in 1 .. n /\ Above(h, m, 1)
  BY <1>4
<1>6. /\ Priority[h[m]] \in Int /\ Priority[h[1]] \in Int
      /\ m # 1
  BY <1>1, <1>5, Ranks DEF Above
<1>7. m \in 2 .. n /\ m \div 2 \in 1 .. m - 1 /\ m \div 2 \in 1 .. n
  BY <1>1, <1>5, <1>6, Half
<1>8. ~Above(h, m, m \div 2)
  BY <1>6, <1>7 DEF Ordered
<1>9. ~Above(h, m \div 2, 1)
  BY <1>4, <1>7
<1>10. Priority[h[m \div 2]] \in Int
  BY <1>7, Ranks
<1> HIDE DEF n, S
<1> QED
  BY <1>5, <1>6, <1>8, <1>9, <1>10 DEF Above

\* A task put behind a heap and sifted up makes a heap with that task.
LEMMA PushKeeps ==
  ASSUME NEW h \in Seq(Task), IsInjective(h), Ordered(h, 1),
         NEW t \in Task, t \notin Range(h),
         NEW g, g = Up(Append(h, t), Len(h) + 1)
  PROVE  /\ g \in Seq(Task) /\ IsInjective(g) /\ Ordered(g, 1)
         /\ Range(g) = Range(h) \union {t}
<1> DEFINE n == Len(h)
           a == Append(h, t)
<1>1. /\ n \in Nat /\ a \in Seq(Task) /\ Len(a) = n + 1
      /\ \A i \in 1 .. n : a[i] = h[i]
      /\ a[n + 1] = t /\ a # <<>>
  BY AppendProperties
<1>2. DOMAIN h = 1 .. n /\ DOMAIN a = 1 .. n + 1
  BY <1>1
<1> HIDE DEF a
<1>3. \A i \in 1 .. n + 1 : i \in 1 .. n \/ i = n + 1
  BY <1>1
<1>4. \A i \in 1 .. n : h[i] # t
  BY <1>2 DEF Range
<1>5. IsInjective(a)
  <2>1. \A i, j \in 1 .. n : h[i] = h[j] => i = j
    BY <1>2 DEF IsInjective
  <2>2. ASSUME NEW i \in 1 .. n + 1, NEW j \in 1 .. n + 1, a[i] = a[j]
        PROVE  i = j
    BY <1>1, <1>3, <1>4, <2>1, <2>2
  <2> QED
    BY <1>2, <2>2 DEF IsInjective
<1>6. Range(a) = Range(h) \union {t}
  <2>1. ASSUME NEW i \in 1 .. n + 1
        PROVE  a[i] \in Range(h) \union {t}
    BY <1>1, <1>2, <1>3 DEF Range
  <2>2. \A i \in 1 .. n : h[i] \in Range(a)
    <3>1. \A i \in 1 .. n : i \in 1 .. n + 1
      BY <1>1
    <3> QED
      BY <1>1, <1>2, <3>1 DEF Range
  <2>3. t \in Range(a)
    <3>1. n + 1 \in 1 .. n + 1
      BY <1>1
    <3> QED
      BY <1>1, <1>2, <3>1 DEF Range
  <2> QED
    BY <1>2, <2>1, <2>2, <2>3 DEF Range
<1>7. Ordered(a, Len(a))
  <2>1. SUFFICES ASSUME NEW i \in 2 .. n + 1, i # n + 1
                 PROVE  ~Above(a, i, i \div 2)
    BY <1>1 DEF Ordered
  <2>2. i \in 2 .. n /\ i \in 1 .. n /\ i \div 2 \in 1 .. n
    BY <1>1, <2>1, Half
  <2>3. ~Above(h, i, i \div 2)
    BY <2>2 DEF Ordered
  <2> QED
    BY <1>1, <2>2, <2>3 DEF Above
<1>8. Shuffle(Up(a, Len(a)), a) /\ Ordered(Up(a, Len(a)), 1)
  BY <1>1, <1>5, <1>7, UpSifts
<1>9. g = Up(a, Len(a))
  BY <1>1 DEF a
<1> QED
  BY <1>6, <1>8, <1>9 DEF Shuffle

\* The root and the last element of a heap exchanged, the root sifted down
\* among the others and the last cut off: a heap without its root.
LEMMA PopKeeps ==
  ASSUME NEW h \in Seq(Task), IsInjective(h), Ordered(h, 1), h # <<>>,
         NEW r, r = SubSeq(Down(Swap(h, 1, Len(h)), Len(h) - 1),
                           1, Len(h) - 1)
  PROVE  /\ r \in Seq(Task) /\ IsInjective(r) /\ Ordered(r, 1)
         /\ Range(r) = Range(h) \ {h[1]} /\ h[1] \in Range(h)
<1> DEFINE n == Len(h)
           m == n - 1
           s == Swap(h, 1, n)
           g == Down(s, m)
<1>1. /\ n \in Nat /\ 1 \in 1 .. n /\ n \in 1 .. n /\ m \in 0 .. n
      /\ m \in Nat /\ n = m + 1
      /\ DOMAIN h = 1 .. n
  OBVIOUS
<1>2. Shuffle(s, h)
  BY <1>1, SwapShuffles DEF Shuffle
<1>3. /\ s \in Seq(Task) /\ Len(s) = n /\ s[n] = h[1]
      /\ \A k \in 1 .. n : k # 1 /\ k # n => s[k] = h[k]
  BY <1>1, SwapFacts
<1>0. r = SubSeq(g, 1, m)
  OBVIOUS
<1> HIDE DEF g, s, m, n
<1>4. /\ s # <<>> /\ IsInjective(s) /\ Range(s) = Range(h)
      /\ DOMAIN s = 1 .. n
  BY <1>1, <1>2, <1>3 DEF Shuffle
<1>5. OrderedBelow(s, m, 1)
  <2>1. SUFFICES ASSUME NEW i \in 2 .. m, i \div 2 # 1
                 PROVE  ~Above(s, i, i \div 2)
    BY DEF OrderedBelow
  <2>2. /\ i \in 1 .. n /\ i # 1 /\ i # n /\ i \in 2 .. n
        /\ i \div 2 \in 1 .. n /\ i \div 2 < n
    <3>1. i \in Nat /\ i > 1 /\ i <= m
      BY <1>1
    <3>2. i \div 2 \in 1 .. i - 1
      BY <3>1, Half
    <3> QED
      BY <1>1, <3>1, <3>2
  <2>3. ~Above(h, i, i \div 2)
    BY <2>2 DEF Ordered, n
  <2>4. s[i] = h[i] /\ s[i \div 2] = h[i \div 2]
    BY <1>3, <2>1, <2>2
  <2> QED
    BY <2>3, <2>4 DEF Above
<1>6. /\ Shuffle(g, s)
      /\ \A i \in 2 .. m : ~Above(g, i, i \div 2)
      /\ \A i \in m + 1 .. n : g[i] = s[i]
  BY <1>1, <1>3, <1>4, <1>5, DownSifts DEF g
<1>7. /\ g \in Seq(Task) /\ Len(g) = n /\ DOMAIN g = 1 .. n
      /\ IsInjective(g) /\ Range(g) = Range(h) /\ g[n] = h[1]
  BY <1>1, <1>3, <1>4, <1>6 DEF Shuffle
<1>8. /\ r \in Seq(Task) /\ Len(r) = m
      /\ \A i \in 1 .. m : r[i] = g[i]
  <2>2. \A i \in 1 .. m : g[i] \in Task
    BY <1>1, <1>7
  <2>3. /\ SubSeq(g, 1, m) \in Seq(Task)
        /\ Len(SubSeq(g, 1, m)) = IF 1 <= m THEN m - 1 + 1 ELSE 0
        /\ \A i \in 1 .. m - 1 + 1 : SubSeq(g, 1, m)[i] = g[1 + i - 1]
    BY <1>1, <2>2, SubSeqProperties
  <2>4. \A i \in 1 .. m : i \in 1 .. m - 1 + 1 /\ 1 + i - 1 = i
    BY <1>1
  <2>5. IF 1 <= m THEN m - 1 + 1 = m ELSE m = 0
    BY <1>1
  <2> HIDE DEF g
  <2>6. r \in Seq(Task) /\ Len(r) = m
    BY <1>0, <2>3, <2>5
  <2>7. \A i \in 1 .. m : r[i] = g[i]
    BY <1>0, <2>3, <2>4
  <2> QED
    BY <2>6, <2>7
<1>9. DOMAIN r = 1 .. m /\ \A i \in 1 .. m : i \in 1 .. n /\ i # n
  BY <1>1, <1>8
<1>10. IsInjective(r)
  <2>1. \A i, j \in 1 .. n : g[i] = g[j] => i = j
    BY <1>7 DEF IsInjective
  <2> QED
    BY <1>8, <1>9, <2>1 DEF IsInjective
<1>11. Range(r) = Range(h) \ {h[1]}
  <2>1. \A i, j \in 1 .. n : g[i] = g[j] => i = j
    BY <1>7 DEF IsInjective
  <2>2. \A i \in 1 .. n : i \in 1 .. m \/ i = n
    BY <1>1
  <2>3. \A i \in 1 .. m : g[i] # g[n]
    BY <1>1, <1>9, <2>1
  <2>4. Range(g) = {g[i] : i \in 1 .. n} /\ Range(r) = {r[i] : i \in 1 .. m}
    BY <1>7, <1>9 DEF Range
  <2>5. {r[i] : i \in 1 .. m} = {g[i] : i \in 1 .. n} \ {g[n]}
    BY <1>8, <1>9, <2>2, <2>3
  <2> QED
    BY <1>7, <2>4, <2>5
<1>12. Ordered(r, 1)
  <2>1. SUFFICES ASSUME NEW i \in 2 .. m
                 PROVE  ~Above(r, i, i \div 2)
    BY <1>8 DEF Ordered
  <2>2. i \in 1 .. m /\ i \div 2 \in 1 .. m
    BY <1>1, Half
  <2> QED
    BY <1>6, <1>8, <2>2 DEF Above
<1>13. h[1] \in Range(h)
  BY <1>1 DEF Range
<1> QED
  BY <1>8, <1>10, <1>11, <1>12, <1>13

-----------------------------------------------------------------------------
(* The invariant of the queue and the queue it implements *)

QueueInv == TypeOK /\ HeapOrdered

\* What a push and a pop do to the slice.
LEMMA PushStep ==
  ASSUME QueueInv, NEW t \in Task, PushTask(t)
  PROVE  QueueInv' /\ Range(heap)' = Range(heap) \union {t}
<1>1. heap \in Seq(Task) /\ IsInjective(heap) /\ Ordered(heap, 1)
  BY OrderedMeans DEF QueueInv, TypeOK
<1>2. t \notin Range(heap) /\ heap' = Up(Append(heap, t), Len(heap) + 1)
  BY DEF PushTask
<1>3. /\ heap' \in Seq(Task) /\ IsInjective(heap') /\ Ordered(heap', 1)
      /\ Range(heap') = Range(heap) \union {t}
  BY <1>1, <1>2, PushKeeps
<1>4. TypeOK'
  BY <1>3 DEF PushTask, QueueInv, TypeOK
<1>5. HeapOrdered'
  BY <1>3 DEF HeapOrdered, Ordered, Above
<1> QED
  BY <1>3, <1>4, <1>5 DEF QueueInv

LEMMA PopStep ==
  ASSUME QueueInv, PopTask
  PROVE  /\ QueueInv' /\ Range(heap)' = Range(heap) \ {heap[1]}
         /\ heap[1] \in Range(heap)
<1>1. heap \in Seq(Task) /\ IsInjective(heap) /\ Ordered(heap, 1)
  BY OrderedMeans DEF QueueInv, TypeOK
<1>2. /\ heap # <<>>
      /\ heap' = SubSeq(Down(Swap(heap, 1, Len(heap)), Len(heap) - 1),
                        1, Len(heap) - 1)
  BY DEF PopTask, HeapPop
<1>3. /\ heap' \in Seq(Task) /\ IsInjective(heap') /\ Ordered(heap', 1)
      /\ Range(heap') = Range(heap) \ {heap[1]} /\ heap[1] \in Range(heap)
  BY <1>1, <1>2, PopKeeps
<1>4. TypeOK'
  BY <1>3 DEF PopTask, QueueInv, TypeOK
<1>5. HeapOrdered'
  BY <1>3 DEF HeapOrdered, Ordered, Above
<1> QED
  BY <1>3, <1>4, <1>5 DEF QueueInv

\* The slice is a heap of distinct tasks after every step.
LEMMA QueueInvariance == Spec => []QueueInv
<1>1. Init => QueueInv
  BY DEF Init, QueueInv, TypeOK, HeapOrdered, IsInjective
<1>2. QueueInv /\ [Next]_queueVars => QueueInv'
  <2> SUFFICES ASSUME QueueInv, [Next]_queueVars
               PROVE  QueueInv'
    OBVIOUS
  <2>1. CASE PopWait
    BY <2>1 DEF PopWait, QueueInv, TypeOK, HeapOrdered
  <2>2. CASE PopTask
    BY <2>2, PopStep
  <2>3. CASE \E t \in Task : PushTask(t)
    BY <2>3, PushStep
  <2>4. CASE UNCHANGED queueVars
    BY <2>4 DEF queueVars, QueueInv, TypeOK, HeapOrdered
  <2> QED
    BY <2>1, <2>2, <2>3, <2>4 DEF Next
<1> QED
  BY <1>1, <1>2, PTL DEF Spec

\* No sequence of pushes and pops loses the place of a task or puts one in
\* the slice of pkg/scheduler/task.go twice.
THEOREM TypeCorrect == Spec => []TypeOK
<1>1. QueueInv => TypeOK
  BY DEF QueueInv
<1> QED
  BY <1>1, QueueInvariance, PTL

\* With the Less of taskHeap, which looks at positions too, the slice is
\* still a heap after every push and every pop.
THEOREM HeapKept == Spec => []HeapOrdered
<1>1. QueueInv => HeapOrdered
  BY DEF QueueInv
<1> QED
  BY <1>1, QueueInvariance, PTL

\* The heap is a WaitQueue: no task is lost or doubled by the swaps, and Pop
\* takes a task that no waiting one outranks.
THEOREM Refinement == Spec => ImplementsWaitQueue
<1>1. Init => Q!Start
  BY DEF Init, Q!Start, Range
<1>2. ASSUME QueueInv, [Next]_queueVars
      PROVE  [\E t \in Task : Q!Push(t) \/ Q!Pop(t)]_(Range(heap))
  <2>1. CASE PopWait \/ UNCHANGED queueVars
    BY <2>1 DEF PopWait, queueVars
  <2>2. CASE \E t \in Task : PushTask(t)
    <3>1. PICK t \in Task : PushTask(t)
      BY <2>2
    <3>2. Q!Push(t)
      BY <1>2, <3>1, PushStep DEF Q!Push, PushTask
    <3> QED
      BY <3>2
  <2>3. CASE PopTask
    <3>1. /\ Range(heap)' = Range(heap) \ {heap[1]}
          /\ heap[1] \in Range(heap)
      BY <1>2, <2>3, PopStep
    <3>2. /\ heap \in Seq(Task) /\ Ordered(heap, 1)
          /\ Range(heap) = {heap[k] : k \in 1 .. Len(heap)}
      BY <1>2, OrderedMeans DEF QueueInv, TypeOK, Range
    <3>3. heap[1] \in Task
      BY <2>3, <3>2 DEF PopTask
    <3>4. \A k \in 1 .. Len(heap) : ~(Priority[heap[k]] > Priority[heap[1]])
      BY <3>2, RootHighest DEF Above
    <3>5. Q!Pop(heap[1])
      BY <3>1, <3>2, <3>4 DEF Q!Pop, Q!Highest
    <3> QED
      BY <3>3, <3>5
  <2> QED
    BY <1>2, <2>1, <2>2, <2>3 DEF Next
<1> QED
  BY <1>1, <1>2, QueueInvariance, PTL DEF Spec, ImplementsWaitQueue, Q!Serve
=============================================================================
