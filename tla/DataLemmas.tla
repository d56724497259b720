------------------------------ MODULE DataLemmas ------------------------------
(***************************************************************************)
(* Facts about numbers, recursive functions and sequences that the proofs  *)
(* of several modules need.  Induction and recursion are in a first-order  *)
(* form: the least element of a set takes the place of the induction       *)
(* schema, and the step of a recursion is a function, so that both can be  *)
(* cited.                                                                  *)
(***************************************************************************)
EXTENDS Integers, SequenceTheorems, WellFoundedInduction, TLAPS

LEMMA LeastNatural ==
  ASSUME NEW S \in SUBSET Nat, S # {}
  PROVE  \E x \in S : \A y \in S : x <= y
<1>1. PICK x \in S : \A y \in S : ~(<<y, x>> \in OpToRel(<, Nat))
  BY NatLessThanWellFounded, WFMin
<1>2. \A y \in S : ~(y < x)
  BY <1>1 DEF OpToRel
<1> QED BY <1>2

LEMMA LeastRanked ==
  ASSUME NEW S, NEW rank \in [S -> Nat], NEW T \in SUBSET S, T # {}
  PROVE  \E t \in T : \A u \in T : rank[t] <= rank[u]
<1> DEFINE R == {rank[t] : t \in T}
<1>1. R \in SUBSET Nat /\ R # {}
  OBVIOUS
<1>2. PICK x \in R : \A y \in R : x <= y
  BY <1>1, LeastNatural
<1> QED BY <1>2

\* A function is defined by what it is on the base and by a step from what it is
\* at an argument of a lower rank.
Descends(S, rank, base, next) == \A s \in S \ base : rank[next[s]] < rank[s]

Solution(f, S, base, zero, next, step) ==
  \A s \in S : f[s] = IF s \in base THEN zero ELSE step[<<s, f[next[s]]>>]

LEMMA Recursion ==
  ASSUME NEW S, NEW V, NEW rank \in [S -> Nat], NEW base \in SUBSET S, NEW zero \in V,
         NEW next \in [S \ base -> S], NEW step \in [S \X V -> V],
         Descends(S, rank, base, next)
  PROVE  \E f \in [S -> V] : Solution(f, S, base, zero, next, step)
<1> USE DEF Descends, Solution
<1> DEFINE Below(n) == {s \in S : rank[s] < n}
           Solves(g, n) ==
             /\ g \in [Below(n) -> V]
             /\ \A s \in Below(n) : g[s] = IF s \in base THEN zero ELSE step[<<s, g[next[s]]>>]
<1>1. ASSUME NEW m \in Nat, NEW n \in Nat, m <= n, NEW g, NEW h, Solves(g, m), Solves(h, n)
      PROVE  \A s \in Below(m) : g[s] = h[s]
  <2> DEFINE T == {s \in Below(m) : g[s] # h[s]}
  <2>1. SUFFICES ASSUME T # {} PROVE FALSE
    OBVIOUS
  <2>2. T \in SUBSET S
    OBVIOUS
  <2>3. PICK t \in T : \A u \in T : rank[t] <= rank[u]
    BY <2>1, <2>2, LeastRanked
  <2>4. t \in Below(m) /\ t \in Below(n) /\ t \in S /\ rank[t] \in Nat
    BY <1>1
  <2>5. CASE t \in base
    BY <1>1, <2>3, <2>4, <2>5
  <2>6. CASE t \notin base
    <3>1. next[t] \in S /\ rank[next[t]] < rank[t] /\ rank[next[t]] \in Nat
      BY <2>4, <2>6
    <3>2. next[t] \in Below(m)
      BY <2>4, <3>1
    <3>3. g[next[t]] = h[next[t]]
      BY <2>3, <2>4, <3>1, <3>2
    <3>4. g[t] = step[<<t, g[next[t]]>>] /\ h[t] = step[<<t, h[next[t]]>>]
      BY <1>1, <2>4, <2>6
    <3> QED BY <2>3, <3>3, <3>4
  <2> QED BY <2>5, <2>6
<1>2. ASSUME NEW n \in Nat PROVE \E g : Solves(g, n)
  <2> DEFINE B == {k \in Nat : ~ \E g : Solves(g, k)}
  <2>1. SUFFICES ASSUME B # {} PROVE FALSE
    OBVIOUS
  <2>2. B \in SUBSET Nat
    OBVIOUS
  <2>3. PICK k \in B : \A j \in B : k <= j
    BY <2>1, <2>2, LeastNatural
  <2>4. k # 0
    <3>1. SUFFICES ASSUME k = 0 PROVE FALSE
      OBVIOUS
    <3>2. Below(0) = {}
      OBVIOUS
    <3>3. Solves([s \in {} |-> zero], 0)
      BY <3>2
    <3> QED BY <3>1, <3>3
  <2>5. k - 1 \in Nat /\ k - 1 \notin B
    <3>1. k \in Nat /\ k - 1 \in Nat /\ ~(k <= k - 1)
      BY <2>4
    <3> HIDE DEF B
    <3> QED BY <2>3, <3>1
  <2>6. PICK g : Solves(g, k - 1)
    BY <2>5
  <2> DEFINE h == [s \in Below(k) |-> IF s \in base THEN zero ELSE step[<<s, g[next[s]]>>]]
  <2>7. ASSUME NEW s \in Below(k) \ base PROVE next[s] \in Below(k - 1) /\ next[s] \in Below(k)
    <3>1. next[s] \in S /\ rank[next[s]] < rank[s] /\ rank[next[s]] \in Nat /\ rank[s] \in Nat /\ rank[s] < k
      OBVIOUS
    <3> QED BY <3>1
  <2>8. \A s \in Below(k) : g[next[s]] \in V \/ s \in base
    BY <2>6, <2>7
  <2>9. h \in [Below(k) -> V]
    BY <2>8
  <2>10. ASSUME NEW s \in Below(k - 1) PROVE h[s] = g[s]
    <3>1. s \in Below(k)
      OBVIOUS
    <3> QED BY <2>6, <3>1
  <2>11. \A s \in Below(k) : h[s] = IF s \in base THEN zero ELSE step[<<s, h[next[s]]>>]
    BY <2>7, <2>10
  <2>12. Solves(h, k)
    BY <2>9, <2>11
  <2> QED BY <2>12
<1> DEFINE sol(n) == CHOOSE g : Solves(g, n)
           f == [s \in S |-> sol(rank[s] + 1)[s]]
<1>3. \A n \in Nat : Solves(sol(n), n)
  BY <1>2
<1> HIDE DEF sol
<1>4. ASSUME NEW s \in S PROVE f[s] \in V /\ f[s] = IF s \in base THEN zero ELSE step[<<s, f[next[s]]>>]
  <2> DEFINE n == rank[s] + 1
  <2>1. n \in Nat /\ s \in Below(n)
    OBVIOUS
  <2>2. Solves(sol(n), n) /\ f[s] = sol(n)[s]
    BY <1>3, <2>1
  <2>3. f[s] \in V /\ f[s] = IF s \in base THEN zero ELSE step[<<s, sol(n)[next[s]]>>]
    BY <2>1, <2>2
  <2>4. ASSUME s \notin base PROVE sol(n)[next[s]] = f[next[s]]
    <3> DEFINE m == rank[next[s]] + 1
    <3>1. next[s] \in S /\ rank[next[s]] < rank[s] /\ m \in Nat /\ m <= n /\ next[s] \in Below(m)
      BY <2>4
    <3>2. Solves(sol(m), m) /\ f[next[s]] = sol(m)[next[s]]
      BY <1>3, <3>1
    <3> DEFINE a == sol(m)
               b == sol(n)
    <3>3. Solves(a, m) /\ Solves(b, n)
      BY <2>2, <3>2
    <3> HIDE DEF Solves, a, b, m, n
    <3>4. \A t \in Below(m) : a[t] = b[t]
      BY <1>1, <2>1, <3>1, <3>3
    <3> QED BY <3>1, <3>2, <3>4 DEF a, b
  <2> QED BY <2>3, <2>4
<1>5. f \in [S -> V]
  BY <1>4
<1> QED BY <1>4, <1>5

\* A function that is iterated from a first value.
Iterated(f, S, zero, step) == \A n \in S : f[n] = IF n = 0 THEN zero ELSE step[f[n - 1]]

LEMMA Iteration ==
  ASSUME NEW V, NEW zero \in V, NEW step \in [V -> V],
         NEW S \in SUBSET Nat, \A n \in S : n # 0 => n - 1 \in S
  PROVE  \E f \in [S -> V] : Iterated(f, S, zero, step)
<1> DEFINE rank == [n \in S |-> n]
           base == {n \in S : n = 0}
           next == [n \in S \ base |-> n - 1]
           both == [p \in S \X V |-> step[p[2]]]
<1>1. rank \in [S -> Nat] /\ base \in SUBSET S /\ next \in [S \ base -> S] /\ both \in [S \X V -> V]
  OBVIOUS
<1>2. Descends(S, rank, base, next)
  <2> SUFFICES ASSUME NEW n \in S \ base PROVE rank[next[n]] < rank[n]
    BY DEF Descends
  <2>1. n \in Nat /\ n # 0 /\ n - 1 \in S
    OBVIOUS
  <2> QED BY <2>1
<1>3. \A n \in S : n # 0 => next[n] = n - 1 /\ n \notin base
  OBVIOUS
<1>4. \A n \in S, v \in V : both[<<n, v>>] = step[v]
  OBVIOUS
<1>5. 0 \in S => 0 \in base
  OBVIOUS
<1> HIDE DEF rank, base, next, both
<1>6. PICK f \in [S -> V] : Solution(f, S, base, zero, next, both)
  BY <1>1, <1>2, Recursion
<1>7. ASSUME NEW n \in S PROVE f[n] = IF n = 0 THEN zero ELSE step[f[n - 1]]
  <2>1. CASE n = 0
    BY <1>5, <1>6, <2>1 DEF Solution
  <2>2. CASE n # 0
    <3>1. n \notin base /\ next[n] = n - 1 /\ n - 1 \in S
      BY <1>3, <2>2
    <3>2. f[n - 1] \in V
      BY <3>1
    <3>3. f[n] = both[<<n, f[n - 1]>>]
      BY <1>6, <3>1 DEF Solution
    <3> QED BY <1>4, <2>2, <3>2, <3>3
  <2> QED BY <2>1, <2>2
<1> QED BY <1>7 DEF Iterated

----------------------------------------------------------------------------
\* Sequences: grouping, and the first element and the rest.
LEMMA Regroup == \A S : \A s, t, u \in Seq(S) : (s \o t) \o u = s \o (t \o u)
  BY ConcatAssociative

LEMMA TailIs ==
  ASSUME NEW S, NEW s \in Seq(S), s # <<>>
  PROVE  Head(s) \in S /\ Tail(s) \in Seq(S) /\ Len(Tail(s)) < Len(s) /\ s = <<Head(s)>> \o Tail(s)
<1>1. Head(s) \in S /\ Tail(s) \in Seq(S) /\ Len(Tail(s)) = Len(s) - 1 /\ Len(s) \in Nat
  BY HeadTailProperties
<1> DEFINE h == Head(s)
           t == Tail(s)
           u == <<h>> \o t
<1>2. \A i \in 1 .. Len(t) : t[i] = s[i + 1]
  BY HeadTailProperties
<1>3. h = s[1] /\ Len(s) >= 1
  OBVIOUS
<1>4. <<h>> \in Seq(S) /\ Len(<<h>>) = 1 /\ <<h>>[1] = h
  BY <1>1
<1> HIDE DEF h, t
<1>5. u \in Seq(S) /\ Len(u) = 1 + Len(t)
      /\ \A i \in 1 .. 1 + Len(t) : u[i] = IF i <= 1 THEN <<h>>[i] ELSE t[i - 1]
  BY <1>1, <1>4, ConcatProperties DEF t
<1>6. Len(u) = Len(s) /\ Len(t) \in Nat /\ Len(s) = 1 + Len(t)
  BY <1>1, <1>5 DEF t
<1> HIDE DEF u
<1>7. ASSUME NEW i \in 1 .. Len(u) PROVE u[i] = s[i]
  <2>1. CASE i = 1
    BY <1>3, <1>4, <1>5, <1>6, <2>1
  <2>2. CASE i # 1
    <3>1. i - 1 \in 1 .. Len(t) /\ ~(i <= 1) /\ (i - 1) + 1 = i /\ i \in 1 .. 1 + Len(t)
      BY <1>6, <2>2
    <3> QED BY <1>2, <1>5, <3>1
  <2> QED BY <2>1, <2>2
<1>8. u = s
  BY <1>5, <1>6, <1>7, SeqEqual
<1> QED BY <1>1, <1>8 DEF u, h, t

LEMMA MoveHead ==
  ASSUME NEW S, NEW p \in Seq(S), NEW u \in Seq(S), u # <<>>
  PROVE  /\ Append(p, Head(u)) \in Seq(S) /\ Tail(u) \in Seq(S) /\ <<Head(u)>> \in Seq(S)
         /\ Append(p, Head(u)) = p \o <<Head(u)>> /\ u = <<Head(u)>> \o Tail(u)
<1>1. Head(u) \in S /\ Tail(u) \in Seq(S) /\ u = <<Head(u)>> \o Tail(u)
  BY TailIs
<1>2. Append(p, Head(u)) \in Seq(S) /\ <<Head(u)>> \in Seq(S) /\ Append(p, Head(u)) = p \o <<Head(u)>>
  BY <1>1, AppendIsConcat
<1> QED BY <1>1, <1>2

\* The concatenation by a name: a prover regroups terms it does not look into.
Join(s, t) == s \o t

LEMMA JoinIs ==
  \A S : \A s, t, u \in Seq(S) : Join(s, t) \in Seq(S) /\ Join(Join(s, t), u) = Join(s, Join(t, u))
  BY ConcatAssociative, ConcatProperties DEF Join

LEMMA JoinFour ==
  ASSUME NEW S, NEW s \in Seq(S), NEW t \in Seq(S), NEW h \in Seq(S), NEW r \in Seq(S)
  PROVE  Join(Join(s, Join(t, h)), r) = Join(Join(s, t), Join(h, r))
<1>1. Join(t, h) \in Seq(S) /\ Join(h, r) \in Seq(S)
  BY JoinIs
<1>2. Join(Join(s, Join(t, h)), r) = Join(s, Join(Join(t, h), r))
  BY <1>1, JoinIs
<1>3. Join(Join(t, h), r) = Join(t, Join(h, r))
  BY JoinIs
<1>4. Join(Join(s, t), Join(h, r)) = Join(s, Join(t, Join(h, r)))
  BY <1>1, JoinIs
<1> QED BY <1>2, <1>3, <1>4

\* A first element that moves to the end of the sequence before it leaves the
\* concatenation as it was.
LEMMA HeadMoved ==
  ASSUME NEW S, NEW s \in Seq(S), NEW t \in Seq(S), NEW u \in Seq(S), u # <<>>
  PROVE  Join(Join(s, Append(t, Head(u))), Tail(u)) = Join(Join(s, t), u)
<1> DEFINE h == <<Head(u)>>
           r == Tail(u)
<1>1. h \in Seq(S) /\ r \in Seq(S) /\ Append(t, Head(u)) = Join(t, h) /\ u = Join(h, r)
  BY MoveHead DEF Join
<1> HIDE DEF h, r
<1>2. Join(Join(s, Join(t, h)), r) = Join(Join(s, t), Join(h, r))
  BY <1>1, JoinFour
<1>3. Join(Join(s, Append(t, Head(u))), r) = Join(Join(s, t), u)
  BY <1>1, <1>2, Zenon
<1> QED BY <1>3 DEF r

\* Cutting a concatenation.
LEMMA CutFirst ==
  ASSUME NEW S, NEW s \in Seq(S), NEW t \in Seq(S), NEW n \in 0 .. Len(s)
  PROVE  /\ SubSeq(s \o t, 1, n) = SubSeq(s, 1, n)
         /\ SubSeq(s \o t, n + 1, Len(s \o t)) = SubSeq(s, n + 1, Len(s)) \o t
<1>0. Len(s) \in Nat /\ Len(t) \in Nat /\ s \o t \in Seq(S) /\ Len(s \o t) = Len(s) + Len(t)
  OBVIOUS
<1>1. SubSeq(s \o t, 1, n) = SubSeq(s, 1, n)
  <2> DEFINE a == SubSeq(s \o t, 1, n)
             b == SubSeq(s, 1, n)
  <2>1. a \in Seq(S) /\ Len(a) = n /\ \A i \in 1 .. n : a[i] = (s \o t)[i]
    BY <1>0
  <2>2. b \in Seq(S) /\ Len(b) = n /\ \A i \in 1 .. n : b[i] = s[i]
    BY <1>0
  <2>3. \A i \in 1 .. n : (s \o t)[i] = s[i]
    BY <1>0
  <2> HIDE DEF a, b
  <2> QED BY <2>1, <2>2, <2>3, SeqEqual
<1>2. SubSeq(s \o t, n + 1, Len(s \o t)) = SubSeq(s, n + 1, Len(s)) \o t
  <2> DEFINE u == s \o t
             k == Len(s) - n
             a == SubSeq(u, n + 1, Len(u))
             c == SubSeq(s, n + 1, Len(s))
             b == c \o t
  <2>0. u \in Seq(S) /\ Len(u) = Len(s) + Len(t) /\ k \in Nat /\ Len(s) = n + k
        /\ \A i \in 1 .. Len(u) : u[i] = IF i <= Len(s) THEN s[i] ELSE t[i - Len(s)]
    BY <1>0
  <2> HIDE DEF u
  <2>1. a \in Seq(S) /\ Len(a) = k + Len(t) /\ \A i \in 1 .. Len(a) : a[i] = u[n + i]
    <3>1. \A i \in n + 1 .. Len(u) : u[i] \in S
      BY <2>0
    <3>2. n + 1 \in Int /\ Len(u) \in Int
      BY <2>0
    <3>3. /\ a \in Seq(S) /\ Len(a) = IF n + 1 <= Len(u) THEN Len(u) - (n + 1) + 1 ELSE 0
          /\ \A i \in 1 .. Len(u) - (n + 1) + 1 : a[i] = u[n + 1 + i - 1]
      BY <3>1, <3>2, SubSeqProperties
    <3> HIDE DEF a
    <3>4. Len(a) = k + Len(t) /\ Len(u) - (n + 1) + 1 = k + Len(t)
      BY <1>0, <2>0, <3>3
    <3>5. \A i \in 1 .. Len(a) : n + 1 + i - 1 = n + i
      BY <3>4, <1>0, <2>0
    <3> QED BY <3>3, <3>4, <3>5
  <2>2. c \in Seq(S) /\ Len(c) = k /\ \A i \in 1 .. k : c[i] = s[n + i]
    <3>1. \A i \in n + 1 .. Len(s) : s[i] \in S
      BY <1>0
    <3>2. n + 1 \in Int /\ Len(s) \in Int
      BY <1>0
    <3>3. /\ c \in Seq(S) /\ Len(c) = IF n + 1 <= Len(s) THEN Len(s) - (n + 1) + 1 ELSE 0
          /\ \A i \in 1 .. Len(s) - (n + 1) + 1 : c[i] = s[n + 1 + i - 1]
      BY <3>1, <3>2, SubSeqProperties
    <3> HIDE DEF c, k
    <3>4. Len(c) = k /\ Len(s) - (n + 1) + 1 = k
      BY <1>0, <2>0, <3>3
    <3>5. \A i \in 1 .. k : n + 1 + i - 1 = n + i
      BY <1>0, <2>0
    <3> QED BY <3>3, <3>4, <3>5
  <2> HIDE DEF a, c, k
  <2>3. b \in Seq(S) /\ Len(b) = k + Len(t)
        /\ \A i \in 1 .. k + Len(t) : b[i] = IF i <= k THEN c[i] ELSE t[i - k]
    BY <2>0, <2>2, ConcatProperties
  <2> HIDE DEF b
  <2>4. ASSUME NEW i \in 1 .. Len(a) PROVE a[i] = b[i]
    <3>1. CASE i <= k
      <4>1. n + i \in 1 .. Len(u) /\ n + i <= Len(s) /\ i \in 1 .. k
        BY <3>1, <1>0, <2>0, <2>1
      <4> QED BY <3>1, <4>1, <2>0, <2>1, <2>2, <2>3
    <3>2. CASE ~(i <= k)
      <4>1. (n + i) - Len(s) = i - k /\ n + i \in 1 .. Len(u) /\ ~(n + i <= Len(s))
        BY <3>2, <1>0, <2>0, <2>1
      <4> QED BY <3>2, <4>1, <1>0, <2>0, <2>1, <2>3
    <3> QED BY <3>1, <3>2
  <2>5. a = b
    BY <2>1, <2>3, <2>4, SeqEqual
  <2> QED BY <2>5 DEF a, b, c, u
<1> QED BY <1>1, <1>2

LEMMA CutSecond ==
  ASSUME NEW S, NEW s \in Seq(S), NEW t \in Seq(S), NEW n \in 0 .. Len(t)
  PROVE  SubSeq(s \o t, Len(s) + n + 1, Len(s \o t)) = SubSeq(t, n + 1, Len(t))
<1> DEFINE u == s \o t
           k == Len(t) - n
           l == Len(s)
           a == SubSeq(u, l + n + 1, Len(u))
           c == SubSeq(t, n + 1, Len(t))
<1>0. u \in Seq(S) /\ Len(u) = l + Len(t) /\ k \in Nat /\ l \in Nat /\ Len(t) = n + k
      /\ \A i \in 1 .. Len(u) : u[i] = IF i <= l THEN s[i] ELSE t[i - l]
  OBVIOUS
<1> HIDE DEF u, l, k
<1>1. a \in Seq(S) /\ Len(a) = k /\ \A i \in 1 .. k : a[i] = u[l + n + i]
  <2>1. \A i \in l + n + 1 .. Len(u) : u[i] \in S
    BY <1>0
  <2>2. l + n + 1 \in Int /\ Len(u) \in Int
    BY <1>0
  <2>3. /\ a \in Seq(S) /\ Len(a) = IF l + n + 1 <= Len(u) THEN Len(u) - (l + n + 1) + 1 ELSE 0
        /\ \A i \in 1 .. Len(u) - (l + n + 1) + 1 : a[i] = u[l + n + 1 + i - 1]
    BY <2>1, <2>2, SubSeqProperties
  <2> HIDE DEF a
  <2>4. Len(a) = k /\ Len(u) - (l + n + 1) + 1 = k
    BY <1>0, <2>3
  <2>5. \A i \in 1 .. k : l + n + 1 + i - 1 = l + n + i
    BY <1>0
  <2> QED BY <2>3, <2>4, <2>5
<1>2. c \in Seq(S) /\ Len(c) = k /\ \A i \in 1 .. k : c[i] = t[n + i]
  <2>1. \A i \in n + 1 .. Len(t) : t[i] \in S
    BY <1>0
  <2>2. n + 1 \in Int /\ Len(t) \in Int
    BY <1>0
  <2>3. /\ c \in Seq(S) /\ Len(c) = IF n + 1 <= Len(t) THEN Len(t) - (n + 1) + 1 ELSE 0
        /\ \A i \in 1 .. Len(t) - (n + 1) + 1 : c[i] = t[n + 1 + i - 1]
    BY <2>1, <2>2, SubSeqProperties
  <2> HIDE DEF c
  <2>4. Len(c) = k /\ Len(t) - (n + 1) + 1 = k
    BY <1>0, <2>3
  <2>5. \A i \in 1 .. k : n + 1 + i - 1 = n + i
    BY <1>0
  <2> QED BY <2>3, <2>4, <2>5
<1> HIDE DEF a, c
<1>3. ASSUME NEW i \in 1 .. k PROVE a[i] = c[i]
  <2>1. l + n + i \in 1 .. Len(u) /\ ~(l + n + i <= l) /\ (l + n + i) - l = n + i
    BY <1>0
  <2> QED BY <2>1, <1>0, <1>1, <1>2
<1>4. a = c
  BY <1>1, <1>2, <1>3, SeqEqual
<1> QED BY <1>4 DEF a, c, u, l

----------------------------------------------------------------------------
\* Concatenations of many sequences.

\* What is left of a concatenation after each of its parts.
Remainders(r, n, v, S) ==
  /\ r \in [0 .. n -> Seq(S)] /\ r[n] = <<>>
  /\ \A i \in 1 .. n : r[i - 1] = Join(v[i], r[i])

LEMMA RemaindersExist ==
  ASSUME NEW S, NEW n \in Nat, NEW v \in [1 .. n -> Seq(S)]
  PROVE  \E r : Remainders(r, n, v, S)
<1> DEFINE V == Seq(S)
           D == 0 .. n
           rank == [i \in D |-> n - i]
           base == {n}
           next == [i \in D \ base |-> i + 1]
           Put(i, t) == IF i + 1 \in 1 .. n THEN v[i + 1] \o t ELSE <<>>
           step == [p \in D \X V |-> Put(p[1], p[2])]
<1>1. rank \in [D -> Nat] /\ base \in SUBSET D /\ <<>> \in V
  OBVIOUS
<1>2. next \in [D \ base -> D] /\ \A i \in D \ base : next[i] = i + 1
  OBVIOUS
<1>3. step \in [D \X V -> V]
      /\ \A i \in D, t \in V : step[<<i, t>>] = IF i + 1 \in 1 .. n THEN v[i + 1] \o t ELSE <<>>
  <2>1. \A i \in D, t \in V : Put(i, t) \in V
    BY ConcatProperties
  <2>2. \A i \in D, t \in V : Put(i, t) = IF i + 1 \in 1 .. n THEN v[i + 1] \o t ELSE <<>>
    OBVIOUS
  <2> HIDE DEF Put
  <2>3. step \in [D \X V -> V] /\ \A i \in D, t \in V : step[<<i, t>>] = Put(i, t)
    BY <2>1
  <2> QED BY <2>2, <2>3
<1>4. Descends(D, rank, base, next)
  <2> SUFFICES ASSUME NEW i \in D \ base PROVE rank[next[i]] < rank[i]
    BY DEF Descends
  <2>1. i + 1 \in D /\ next[i] = i + 1
    OBVIOUS
  <2>2. rank[i + 1] = n - (i + 1) /\ rank[i] = n - i
    BY <2>1
  <2> QED BY <2>1, <2>2
<1> HIDE DEF rank, next, step, V
<1>5. PICK r \in [D -> V] : Solution(r, D, base, <<>>, next, step)
  BY <1>1, <1>2, <1>3, <1>4, Recursion
<1>6. r[n] = <<>>
  <2>1. n \in D
    OBVIOUS
  <2> QED BY <1>5, <2>1 DEF Solution
<1>7. ASSUME NEW i \in 1 .. n PROVE r[i - 1] = v[i] \o r[i]
  <2>1. i - 1 \in D \ base /\ i \in D /\ (i - 1) + 1 = i
    OBVIOUS
  <2>2. r[i - 1] = step[<<i - 1, r[next[i - 1]]>>] /\ next[i - 1] = i /\ r[i] \in V
    BY <1>2, <1>5, <2>1 DEF Solution
  <2> QED BY <1>3, <2>1, <2>2
<1> QED BY <1>5, <1>6, <1>7 DEF Remainders, V, Join

\* A sequence is the concatenation of its elements.
LEMMA Ones ==
  ASSUME NEW S, NEW p \in Seq(S), NEW n, n = Len(p)
  PROVE  Remainders([k \in 0 .. n |-> SubSeq(p, k + 1, n)], n, [i \in 1 .. n |-> <<p[i]>>], S)
<1> DEFINE r == [k \in 0 .. n |-> SubSeq(p, k + 1, n)]
           v == [i \in 1 .. n |-> <<p[i]>>]
<1>1. n \in Nat /\ \A i \in 1 .. n : p[i] \in S
  BY LenProperties, ElementOfSeq
<1>2. \A k \in 0 .. n : r[k] = SubSeq(p, k + 1, n)
  OBVIOUS
<1>3. \A i \in 1 .. n : v[i] = <<p[i]>>
  OBVIOUS
<1>4. \A k \in 0 .. n : SubSeq(p, k + 1, n) \in Seq(S)
  <2> SUFFICES ASSUME NEW k \in 0 .. n PROVE SubSeq(p, k + 1, n) \in Seq(S)
    OBVIOUS
  <2>1. k + 1 \in Int /\ n \in Int /\ \A i \in k + 1 .. n : p[i] \in S
    BY <1>1
  <2> QED BY <2>1, SubSeqProperties
<1>5. r \in [0 .. n -> Seq(S)]
  BY <1>4
<1>6. r[n] = <<>>
  <2>1. n + 1 \in Int /\ n \in Int /\ n < n + 1 /\ n \in 0 .. n
    BY <1>1
  <2>2. SubSeq(p, n + 1, n) = <<>>
    BY <2>1, SubSeqEmpty
  <2> QED BY <1>2, <2>1, <2>2
<1>7. ASSUME NEW i \in 1 .. n PROVE r[i - 1] = Join(v[i], r[i])
  <2>1. i - 1 \in 0 .. n /\ i \in 0 .. n /\ (i - 1) + 1 = i /\ i \in 1 .. Len(p) /\ n \in i .. Len(p)
    BY <1>1
  <2>2. SubSeq(p, i, n) = <<p[i]>> \o SubSeq(p, i + 1, n)
    BY <2>1, SubSeqRecursiveFirst
  <2>3. r[i - 1] = SubSeq(p, i, n) /\ r[i] = SubSeq(p, i + 1, n)
    BY <1>2, <2>1
  <2> HIDE DEF r, v
  <2> QED BY <1>3, <2>2, <2>3 DEF Join
<1> HIDE DEF r, v
<1>8. Remainders(r, n, v, S)
  BY <1>5, <1>6, <1>7 DEF Remainders
<1> QED BY <1>8 DEF r, v

\* A sequence begins its concatenations, and is its front and its last element.
LEMMA Begins ==
  ASSUME NEW S, NEW h \in Seq(S), NEW q \in Seq(S)
  PROVE  Len(h) <= Len(h \o q) /\ h = SubSeq(h \o q, 1, Len(h))
<1> DEFINE l == Len(h)
           p == h \o q
           s == SubSeq(p, 1, l)
<1>1. l \in Nat /\ Len(q) \in Nat
  BY LenProperties
<1>2. p \in Seq(S) /\ Len(p) = l + Len(q) /\ \A i \in 1 .. l + Len(q) : p[i] = IF i <= l THEN h[i] ELSE q[i - l]
  BY ConcatProperties
<1> HIDE DEF l, p
<1>3. \A i \in 1 .. l : i \in 1 .. Len(p) /\ p[i] = h[i] /\ p[i] \in S
  BY <1>1, <1>2, ElementOfSeq
<1>4. s \in Seq(S) /\ Len(s) = l /\ \A i \in 1 .. l : s[i] = p[i]
  BY <1>1, <1>3, SubSeqProperties
<1> HIDE DEF s
<1>5. s = h
  <2>1. Len(s) = Len(h) /\ \A i \in 1 .. Len(s) : s[i] = h[i]
    BY <1>3, <1>4 DEF l
  <2> QED BY <1>4, <2>1, SeqEqual
<1> QED BY <1>1, <1>2, <1>5 DEF l, p, s

LEMMA FrontIs ==
  ASSUME NEW S, NEW s \in Seq(S), s # <<>>
  PROVE  LET t == SubSeq(s, 1, Len(s) - 1)
         IN /\ t \in Seq(S) /\ Len(s) \in Nat /\ Len(s) # 0 /\ Len(t) = Len(s) - 1
            /\ \A i \in 1 .. Len(s) - 1 : t[i] = s[i]
            /\ Append(t, s[Len(s)]) = s
<1> DEFINE n == Len(s)
           m == n - 1
           t == SubSeq(s, 1, m)
           u == Append(t, s[n])
<1>1. n \in Nat /\ n # 0 /\ m \in Nat /\ m + 1 = n /\ \A i \in 1 .. n : s[i] \in S
  BY EmptySeq, LenProperties
<1>2. t \in Seq(S) /\ Len(t) = m /\ \A i \in 1 .. m : t[i] = s[i]
  <2>1. \A i \in 1 .. m : s[i] \in S
    BY <1>1
  <2> HIDE DEF m
  <2>2. m \in Nat
    BY <1>1
  <2> QED BY <2>1, <2>2, SubSeqProperties
<1>3. s[n] \in S
  BY <1>1
<1> HIDE DEF t, m
<1>4. u \in Seq(S) /\ Len(u) = m + 1 /\ \A i \in 1 .. m + 1 : u[i] = IF i = m + 1 THEN s[n] ELSE t[i]
  <2> DEFINE e == s[n]
  <2>1. e \in S
    BY <1>3
  <2> HIDE DEF e, n
  <2> SUFFICES LET v == Append(t, e)
               IN v \in Seq(S) /\ Len(v) = m + 1 /\ \A i \in 1 .. m + 1 : v[i] = IF i = m + 1 THEN e ELSE t[i]
    BY DEF e
  <2> QED BY <1>1, <1>2, <2>1, AppendProperties
<1> HIDE DEF u
<1>5. Len(u) = n /\ \A i \in 1 .. n : u[i] = s[i]
  <2>1. ASSUME NEW i \in 1 .. n PROVE u[i] = s[i]
    <3>1. i \in 1 .. m + 1 /\ (i = m + 1 \/ i \in 1 .. m)
      BY <1>1
    <3> QED BY <1>1, <1>2, <1>4, <3>1
  <2> QED BY <1>1, <1>4, <2>1
<1>6. u = s
  BY <1>4, <1>5, SeqEqual
<1> QED BY <1>1, <1>2, <1>6 DEF t, m, u
=============================================================================
