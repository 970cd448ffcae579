---------------------------- MODULE TgSyncProofs ----------------------------
(***************************************************************************)
(* Theorems about TgSync, for any page size, limits, channel and troubles. *)
(* A list of messages is told by its set: NewestFirst(s, S) says that s    *)
(* lists S from the newest down, and OneListing that there is one way to.  *)
(* So what a loop, a join or a cut makes of a list is a fact about sets,   *)
(* and the invariant says which set the records are.                       *)
(***************************************************************************)
EXTENDS TgSync, SequenceTheorems, WellFoundedInduction, TLAPS

-----------------------------------------------------------------------------
(* The loop of Kept.  It is a recursive function: that there is one that     *)
(* satisfies its equation, and what it computes, takes induction, here from  *)
(* the least counterexample.                                                 *)

\* A set of naturals with a member has one whose predecessor is not in it.
LEMMA LeastOf ==
  ASSUME NEW T \in SUBSET Nat, NEW z \in T
  PROVE  \E x \in T : x = 0 \/ x - 1 \in Nat \ T
<1>1. PICK x \in T : \A y \in T : ~(<<y, x>> \in OpToRel(<, Nat))
  BY NatLessThanWellFounded, WFMin
<1>2. \A y \in T : ~(y < x) BY <1>1 DEF OpToRel
<1>3. x = 0 \/ x - 1 \in Nat \ T BY <1>2
<1>. QED BY <1>3

\* The step of the loop of Kept over s.
More(s, keep, sofar, n) == IF s[n] \in keep THEN Append(sofar, s[n]) ELSE sofar

\* The recursive function of Kept exists.
LEMMA KeptExists ==
  ASSUME NEW s, NEW keep, NEW N \in Nat
  PROVE  \E f : f = [n \in 0..N |-> IF n = 0 THEN <<>> ELSE More(s, keep, f[n - 1], n)]
<1>. DEFINE Loop(f, m) == f = [n \in 0..m |-> IF n = 0 THEN <<>> ELSE More(s, keep, f[n - 1], n)]
            T == {m \in Nat : ~(\E f : Loop(f, m))}
<1>1. ASSUME N \in T PROVE FALSE
  <2>1. PICK x \in T : x = 0 \/ x - 1 \in Nat \ T BY <1>1, LeastOf
  <2>2. CASE x = 0
    <3>. DEFINE f == [n \in 0..0 |-> <<>>]
    <3>1. Loop(f, 0) OBVIOUS
    <3>. QED BY <2>1, <2>2, <3>1
  <2>3. CASE x - 1 \in Nat \ T
    <3>1. PICK f : Loop(f, x - 1) BY <2>3
    <3>. DEFINE g == [n \in 0..x |-> IF n = x THEN More(s, keep, f[x - 1], x) ELSE f[n]]
    <3>2. Loop(g, x)
      <4>1. x \in Nat /\ x - 1 \in 0..x /\ x # 0 BY <2>3
      <4>2. \A n \in 0..x : n # x => f[n] = IF n = 0 THEN <<>> ELSE More(s, keep, f[n - 1], n)
        BY <3>1, <4>1
      <4>3. \A n \in 0..x : n # x => g[n] = f[n] BY <4>1
      <4>4. g[x] = More(s, keep, f[x - 1], x) BY <4>1
      <4>. HIDE DEF More
      <4>5. \A n \in 0..x : g[n] = IF n = 0 THEN <<>> ELSE More(s, keep, g[n - 1], n)
        BY <4>1, <4>2, <4>3, <4>4
      <4>6. g = [n \in 0..x |-> g[n]] OBVIOUS
      <4>. HIDE DEF g
      <4>. QED BY <4>5, <4>6
    <3>. QED BY <2>1, <3>2
  <2>. QED BY <2>1, <2>2, <2>3
<1>. HIDE DEF Loop
<1>2. \E f : Loop(f, N) BY <1>1
<1>. QED BY <1>2 DEF Loop

LEMMA KeptLoop ==
  ASSUME NEW s, NEW keep, Len(s) \in Nat
  PROVE  \E f : /\ Kept(s, keep) = f[Len(s)]
                /\ f[0] = <<>>
                /\ \A n \in 1..Len(s) : f[n] = More(s, keep, f[n - 1], n)
<1>. DEFINE f == CHOOSE f : f = [n \in 0..Len(s) |->
                       IF n = 0 THEN <<>> ELSE More(s, keep, f[n - 1], n)]
<1>1. f = [n \in 0..Len(s) |-> IF n = 0 THEN <<>> ELSE More(s, keep, f[n - 1], n)]
  BY KeptExists
<1>2. Kept(s, keep) = f[Len(s)] BY DEF Kept, More
<1>. HIDE DEF f
<1>3. f[0] = <<>> BY <1>1
<1>4. \A n \in 1..Len(s) : f[n] = More(s, keep, f[n - 1], n) BY <1>1
<1>. QED BY <1>2, <1>3, <1>4
-----------------------------------------------------------------------------
(* Lists.                                                                    *)

\* s lists the members of S, a set of naturals, from the greatest down.
NewestFirst(s, S) ==
  /\ s \in Seq(Nat)
  /\ \A i, j \in 1..Len(s) : i < j => s[j] < s[i]
  /\ S = {s[i] : i \in 1..Len(s)}

\* Of two listings of a set that agree up to n the first is not ahead at n.
LEMMA NotAhead ==
  ASSUME NEW a, NEW b, NEW S, NewestFirst(a, S), NewestFirst(b, S), NEW n \in 1..Len(a),
         \A m \in 1..(n - 1) : m \in 1..Len(b) /\ a[m] = b[m]
  PROVE  n \in 1..Len(b) /\ a[n] <= b[n]
<1>1. /\ Len(a) \in Nat /\ Len(b) \in Nat /\ a[n] \in Nat /\ a[n] \in S
      /\ \A i \in 1..Len(b) : b[i] \in Nat
      /\ \A i, j \in 1..Len(a) : i < j => a[j] < a[i]
      /\ \A i, j \in 1..Len(b) : i < j => b[j] < b[i]
  BY DEF NewestFirst
<1>2. PICK k \in 1..Len(b) : b[k] = a[n] BY <1>1 DEF NewestFirst
<1>3. ~(k < n)
  <2>1. SUFFICES ASSUME k < n PROVE FALSE OBVIOUS
  <2>2. k \in 1..(n - 1) /\ k \in 1..Len(a) BY <1>1, <2>1
  <2>3. a[k] = b[k] /\ b[k] \in Nat BY <1>1, <2>2
  <2>4. a[n] < a[k] BY <1>1, <2>1, <2>2
  <2>. QED BY <1>1, <1>2, <2>3, <2>4
<1>4. n \in 1..Len(b) BY <1>1, <1>2, <1>3
<1>5. b[n] \in Nat /\ b[k] \in Nat BY <1>1, <1>4
<1>6. k = n \/ b[k] < b[n] BY <1>1, <1>3, <1>4
<1>7. k = n => b[k] = b[n] OBVIOUS
<1>8. a[n] <= b[n] BY <1>2, <1>5, <1>6, <1>7
<1>. QED BY <1>4, <1>8

\* There is one way to list a set.
LEMMA OneListing ==
  ASSUME NEW s, NEW t, NEW S, NewestFirst(s, S), NewestFirst(t, S)
  PROVE  s = t
<1>1. /\ s \in Seq(Nat) /\ t \in Seq(Nat)
      /\ \A i \in 1..Len(s) : s[i] \in Nat
      /\ \A i \in 1..Len(t) : t[i] \in Nat
  BY DEF NewestFirst
<1>2. Len(s) \in Nat /\ Len(t) \in Nat BY <1>1
<1>. DEFINE Differ == {n \in 1..Len(s) : ~(n \in 1..Len(t) /\ s[n] = t[n])}
<1>3. ASSUME NEW z \in Differ PROVE FALSE
  <2>1. Differ \in SUBSET Nat BY <1>2
  <2>. DEFINE T == {n \in Nat : \E m \in Differ : m <= n}
  <2>2. z \in T /\ T \in SUBSET Nat BY <1>3, <2>1
  <2>3. PICK x \in T : x = 0 \/ x - 1 \in Nat \ T BY <2>2, LeastOf
  <2>4. PICK m \in Differ : m <= x
    <3>. HIDE DEF Differ
    <3>. QED BY <2>3
  <2>5. \A k \in 1..(m - 1) : k \notin Differ /\ k \in 1..Len(s)
    <3>1. m \in 1..Len(s) /\ x \in Nat /\ m <= x BY <2>3, <2>4
    <3>2. ASSUME NEW k \in 1..(m - 1), k \in Differ PROVE FALSE
      <4>1. k \in Nat /\ k <= x - 1 /\ x - 1 \in Nat /\ x # 0 BY <1>2, <3>1, <3>2
      <4>. HIDE DEF Differ
      <4>2. x - 1 \in T BY <3>2, <4>1
      <4>. QED BY <2>3, <4>1, <4>2
    <3>. QED BY <1>2, <3>1, <3>2
  <2>6. /\ m \in 1..Len(s)
        /\ \A k \in 1..(m - 1) : /\ k \in 1..Len(s) /\ k \in 1..Len(t)
                                 /\ s[k] = t[k]
    BY <2>5
  <2>. HIDE DEF Differ, T
  <2>7. m \in 1..Len(t) /\ s[m] <= t[m] BY <2>6, NotAhead
  <2>8. t[m] <= s[m]
    <3>1. \A k \in 1..(m - 1) : k \in 1..Len(s) /\ t[k] = s[k] BY <2>6
    <3>. QED BY <2>7, <3>1, NotAhead
  <2>9. s[m] \in Nat /\ t[m] \in Nat BY <1>1, <2>6, <2>7
  <2>10. s[m] = t[m] BY <2>7, <2>8, <2>9
  <2>. QED BY <2>4, <2>7, <2>10 DEF Differ
<1>4. \A n \in 1..Len(s) : n \in 1..Len(t) /\ s[n] = t[n] BY <1>3
<1>5. Len(s) = Len(t)
  <2>1. ~(Len(s) < Len(t))
    <3>1. SUFFICES ASSUME Len(s) < Len(t) PROVE FALSE OBVIOUS
    <3>. DEFINE n == Len(s) + 1
    <3>2. /\ n \in 1..Len(t)
          /\ \A m \in 1..(n - 1) : m \in 1..Len(s) /\ t[m] = s[m]
      BY <1>2, <1>4, <3>1
    <3>. HIDE DEF n
    <3>3. n \in 1..Len(s) BY <3>2, NotAhead
    <3>. QED BY <1>2, <3>3 DEF n
  <2>2. Len(s) <= Len(t)
    <3>1. CASE Len(s) = 0 BY <1>2, <3>1
    <3>2. CASE Len(s) # 0
      <4>1. Len(s) \in 1..Len(s) BY <1>2, <3>2
      <4>. QED BY <1>2, <1>4, <4>1
    <3>. QED BY <3>1, <3>2
  <2>. QED BY <1>2, <2>1, <2>2
<1>. QED BY <1>1, <1>4, <1>5, SeqEqual

\* A smaller one goes to the end.
LEMMA AppendLists ==
  ASSUME NEW s, NEW S, NewestFirst(s, S), NEW v \in Nat, \A w \in S : v < w
  PROVE  NewestFirst(Append(s, v), S \union {v})
<1>. DEFINE t == Append(s, v)
            n == Len(s)
<1>1. /\ s \in Seq(Nat) /\ n \in Nat /\ S = {s[i] : i \in 1..n}
      /\ \A i, j \in 1..n : i < j => s[j] < s[i]
  BY DEF NewestFirst
<1>2. /\ t \in Seq(Nat) /\ Len(t) = n + 1 /\ t[n + 1] = v
      /\ \A i \in 1..n : t[i] = s[i]
  BY <1>1
<1>3. 1..(n + 1) = (1..n) \union {n + 1} BY <1>1
<1>4. \A i \in 1..n : v < s[i] BY <1>1
<1>. HIDE DEF t
<1>5. S \union {v} = {t[i] : i \in 1..Len(t)} BY SMTT(40), <1>1, <1>2, <1>3
<1>6. ASSUME NEW i \in 1..Len(t), NEW j \in 1..Len(t), i < j PROVE t[j] < t[i]
  <2>1. i \in 1..n BY <1>1, <1>2, <1>6
  <2>2. CASE j \in 1..n BY <1>1, <1>2, <1>6, <2>1, <2>2
  <2>3. CASE j = n + 1 BY <1>2, <1>4, <2>1, <2>3
  <2>. QED BY <1>2, <1>3, <2>2, <2>3
<1>. QED BY <1>2, <1>5, <1>6 DEF NewestFirst, t

\* The loop of Kept lists what it keeps.
LEMMA KeptLists ==
  ASSUME NEW s, NEW S, NewestFirst(s, S), NEW keep
  PROVE  NewestFirst(Kept(s, keep), S \intersect keep)
<1>1. /\ Len(s) \in Nat /\ s \in Seq(Nat) /\ S = {s[i] : i \in 1..Len(s)}
      /\ \A i, j \in 1..Len(s) : i < j => s[j] < s[i]
  BY DEF NewestFirst
<1>2. PICK f : /\ Kept(s, keep) = f[Len(s)] /\ f[0] = <<>>
               /\ \A n \in 1..Len(s) : f[n] = More(s, keep, f[n - 1], n)
  <2>1. Len(s) \in Nat BY <1>1
  <2>. QED BY <2>1, KeptLoop
<1>. DEFINE To(n) == {s[i] : i \in 1..n} \intersect keep
            T == {n \in 0..Len(s) : ~NewestFirst(f[n], To(n))}
<1>3. NewestFirst(f[0], To(0))
  <2>1. To(0) = {} OBVIOUS
  <2>2. <<>> \in Seq(Nat) /\ Len(<<>>) = 0 OBVIOUS
  <2>. QED BY <1>2, <2>1, <2>2 DEF NewestFirst
<1>4. ASSUME NEW n \in 1..Len(s), NewestFirst(f[n - 1], To(n - 1))
      PROVE  NewestFirst(f[n], To(n))
  <2>1. f[n] = More(s, keep, f[n - 1], n) BY <1>2
  <2>2. /\ n \in Nat /\ s[n] \in Nat /\ 1..n = (1..(n - 1)) \union {n}
    BY <1>1
  <2>3. CASE s[n] \notin keep
    <3>1. To(n) = To(n - 1) BY <2>2, <2>3
    <3>. QED BY <1>4, <2>1, <2>3, <3>1 DEF More
  <2>4. CASE s[n] \in keep
    <3>1. To(n) = To(n - 1) \union {s[n]} BY <2>2, <2>4
    <3>2. \A v \in To(n - 1) : s[n] < v
      <4>1. \A i \in 1..(n - 1) : i \in 1..Len(s) /\ i < n BY <1>1
      <4>. QED BY <1>1, <4>1
    <3>. HIDE DEF To
    <3>3. f[n] = Append(f[n - 1], s[n]) BY <2>1, <2>4 DEF More
    <3>. QED BY SMTT(40), <1>4, <2>2, <3>1, <3>2, <3>3, AppendLists
  <2>. QED BY <2>3, <2>4
<1>5. ASSUME NEW z \in T PROVE FALSE
  <2>1. T \in SUBSET Nat BY <1>1
  <2>2. PICK x \in T : x = 0 \/ x - 1 \in Nat \ T BY <2>1, <1>5, LeastOf
  <2>3. x # 0 BY <1>3, <2>2
  <2>4. x \in 1..Len(s) /\ x - 1 \in 0..Len(s) BY <1>1, <2>2, <2>3
  <2>5. NewestFirst(f[x - 1], To(x - 1)) BY <2>2, <2>3, <2>4
  <2>6. NewestFirst(f[x], To(x)) BY <1>4, <2>4, <2>5
  <2>. QED BY <2>2, <2>6
<1>6. NewestFirst(f[Len(s)], To(Len(s)))
  <2>. HIDE DEF To
  <2>1. Len(s) \notin T BY <1>5
  <2>. QED BY <1>1, <2>1
<1>. QED BY <1>1, <1>2, <1>6
LEMMA JoinLists ==
  ASSUME NEW s, NEW S, NewestFirst(s, S), NEW t, NEW T, NewestFirst(t, T),
         \A v \in S, w \in T : w < v
  PROVE  NewestFirst(s \o t, S \union T) /\ Len(s \o t) = Len(s) + Len(t)
<1>. DEFINE u == s \o t
            m == Len(s)
            n == Len(t)
<1>1. /\ s \in Seq(Nat) /\ m \in Nat /\ S = {s[i] : i \in 1..m}
      /\ \A i, j \in 1..m : i < j => s[j] < s[i]
      /\ t \in Seq(Nat) /\ n \in Nat /\ T = {t[i] : i \in 1..n}
      /\ \A i, j \in 1..n : i < j => t[j] < t[i]
  BY DEF NewestFirst
<1>2. /\ u \in Seq(Nat) /\ Len(u) = m + n
      /\ \A i \in 1..m : u[i] = s[i]
      /\ \A i \in 1..n : u[m + i] = t[i]
  BY <1>1
<1>3. \A i \in 1..(m + n) : i \in 1..m \/ (i - m \in 1..n /\ u[i] = t[i - m])
  <2>1. \A i \in 1..(m + n) : i \in 1..m \/ (i - m \in 1..n /\ m + (i - m) = i) BY <1>1
  <2>. QED BY <1>2, <2>1
<1>4. \A i \in 1..m, j \in 1..n : t[j] < s[i] BY <1>1
<1>. HIDE DEF u, m, n
<1>5. S \union T = {u[i] : i \in 1..Len(u)}
  <2>1. ASSUME NEW i \in 1..(m + n) PROVE u[i] \in S \union T BY <1>1, <1>2, <1>3, <2>1
  <2>2. ASSUME NEW v \in S PROVE \E i \in 1..(m + n) : u[i] = v
    <3>1. PICK i \in 1..m : s[i] = v BY <1>1
    <3>2. i \in 1..(m + n) BY <1>1
    <3>. QED BY <1>2, <3>1, <3>2
  <2>3. ASSUME NEW v \in T PROVE \E i \in 1..(m + n) : u[i] = v
    <3>1. PICK i \in 1..n : t[i] = v BY <1>1
    <3>2. m + i \in 1..(m + n) BY <1>1
    <3>. QED BY <1>2, <3>1, <3>2
  <2>. QED BY <1>2, <2>1, <2>2, <2>3
<1>6. ASSUME NEW i \in 1..Len(u), NEW j \in 1..Len(u), i < j PROVE u[j] < u[i]
  <2>1. /\ i \in 1..m \/ (i - m \in 1..n /\ u[i] = t[i - m])
        /\ j \in 1..m \/ (j - m \in 1..n /\ u[j] = t[j - m])
    BY <1>2, <1>3
  <2>2. CASE i \in 1..m /\ j \in 1..m BY <1>1, <1>2, <1>6, <2>2
  <2>3. CASE i \in 1..m /\ j - m \in 1..n /\ u[j] = t[j - m] BY <1>2, <1>4, <2>3
  <2>4. CASE i - m \in 1..n /\ u[i] = t[i - m] /\ j - m \in 1..n /\ u[j] = t[j - m]
    <3>1. i - m < j - m BY <1>1, <1>2, <1>6
    <3>. QED BY <1>1, <2>4, <3>1
  <2>5. CASE i - m \in 1..n /\ j \in 1..m BY <1>1, <1>2, <1>6, <2>5
  <2>. QED BY <2>1, <2>2, <2>3, <2>4, <2>5
<1>. QED BY <1>2, <1>5, <1>6 DEF NewestFirst, u, m, n

\* The first members of a listing are the greater ones.
LEMMA FirstLists ==
  ASSUME NEW s, NEW S, NewestFirst(s, S), NEW k \in 1..Len(s)
  PROVE  /\ NewestFirst(SubSeq(s, 1, k), {v \in S : v >= s[k]})
         /\ NewestFirst(SubSeq(s, 1, k - 1), {v \in S : v > s[k]})
         /\ Len(SubSeq(s, 1, k)) = k
         /\ SubSeq(s, 1, k)[k] = s[k]
<1>1. /\ s \in Seq(Nat) /\ Len(s) \in Nat /\ S = {s[i] : i \in 1..Len(s)}
      /\ \A i, j \in 1..Len(s) : i < j => s[j] < s[i]
      /\ \A i \in 1..Len(s) : s[i] \in Nat
      /\ k \in Nat /\ k <= Len(s) /\ 1 <= k
  BY DEF NewestFirst
<1>2. ASSUME NEW h \in 0..Len(s), NEW V \in SUBSET S,
             \A i \in 1..Len(s) : s[i] \in V <=> i <= h
      PROVE  NewestFirst(SubSeq(s, 1, h), V)
  <2>. DEFINE t == SubSeq(s, 1, h)
  <2>1. /\ t \in Seq(Nat) /\ Len(t) = h
        /\ \A i \in 1..h : t[i] = s[i] /\ i \in 1..Len(s)
    BY <1>1
  <2>. HIDE DEF t
  <2>2. V = {t[i] : i \in 1..Len(t)}
    <3>1. ASSUME NEW v \in V PROVE \E i \in 1..h : t[i] = v
      <4>1. PICK i \in 1..Len(s) : s[i] = v BY <1>1
      <4>2. i <= h BY <1>2, <4>1
      <4>3. i \in 1..h BY <1>1, <4>2
      <4>. QED BY <2>1, <4>1, <4>3
    <3>2. ASSUME NEW i \in 1..h PROVE t[i] \in V BY <1>2, <2>1, <3>2
    <3>. QED BY <2>1, <3>1, <3>2
  <2>3. \A i, j \in 1..Len(t) : i < j => t[j] < t[i] BY <1>1, <2>1
  <2>. QED BY <2>1, <2>2, <2>3 DEF NewestFirst, t
<1>3. ASSUME NEW i \in 1..Len(s)
      PROVE  (s[i] >= s[k] <=> i <= k) /\ (s[i] > s[k] <=> i <= k - 1)
  <2>1. s[i] \in Nat /\ s[k] \in Nat /\ i \in Nat BY <1>1
  <2>2. CASE i < k BY <1>1, <2>1, <2>2
  <2>3. CASE i = k BY <1>1, <2>1, <2>3
  <2>4. CASE k < i BY <1>1, <2>1, <2>4
  <2>. QED BY <1>1, <2>1, <2>2, <2>3, <2>4
<1>4. /\ k \in 0..Len(s) /\ k - 1 \in 0..Len(s)
      /\ \A i \in 1..Len(s) : s[i] \in S
  BY <1>1
<1>5. NewestFirst(SubSeq(s, 1, k), {v \in S : v >= s[k]}) BY <1>2, <1>3, <1>4
<1>6. NewestFirst(SubSeq(s, 1, k - 1), {v \in S : v > s[k]}) BY <1>2, <1>3, <1>4
<1>7. Len(SubSeq(s, 1, k)) = k /\ SubSeq(s, 1, k)[k] = s[k] BY <1>1
<1>. QED BY <1>5, <1>6, <1>7

\* A listing of the greater members is not longer.
LEMMA ShorterList ==
  ASSUME NEW s, NEW S, NewestFirst(s, S), NEW t, NEW T, NewestFirst(t, T),
         T \subseteq S, \A v \in T, w \in S \ T : w < v
  PROVE  Len(t) <= Len(s)
<1>. DEFINE rest == Kept(s, S \ T)
<1>1. NewestFirst(rest, S \ T)
  <2>1. S \intersect (S \ T) = S \ T OBVIOUS
  <2>. QED BY <2>1, KeptLists
<1>. HIDE DEF rest
<1>2. NewestFirst(t \o rest, T \union (S \ T)) /\ Len(t \o rest) = Len(t) + Len(rest)
  BY <1>1, JoinLists
<1>3. T \union (S \ T) = S OBVIOUS
<1>4. t \o rest = s BY <1>2, <1>3, OneListing
<1>5. Len(t) \in Nat /\ Len(rest) \in Nat BY <1>1 DEF NewestFirst
<1>. QED BY <1>2, <1>4, <1>5

LEMMA BetweenLists ==
  ASSUME NEW lo \in Nat, NEW hi \in Int, lo <= hi + 1
  PROVE  NewestFirst(Between(lo, hi), lo..hi) /\ Len(Between(lo, hi)) = hi - lo + 1
<1>. DEFINE n == hi - lo + 1
            s == Between(lo, hi)
<1>1. n \in Nat OBVIOUS
<1>2. s = [i \in 1..n |-> hi + 1 - i] BY DEF Between
<1>3. \A i \in 1..n : hi + 1 - i \in Nat OBVIOUS
<1>. HIDE DEF s, n
<1>4. s \in Seq(Nat) /\ Len(s) = n /\ \A i \in 1..n : s[i] = hi + 1 - i
  BY <1>1, <1>2, <1>3
<1>5. lo..hi = {s[i] : i \in 1..Len(s)}
  <2>1. ASSUME NEW v \in lo..hi PROVE \E i \in 1..n : s[i] = v
    <3>1. hi + 1 - v \in 1..n /\ hi + 1 - (hi + 1 - v) = v BY DEF n
    <3>. QED BY <1>4, <3>1
  <2>2. ASSUME NEW i \in 1..n PROVE s[i] \in lo..hi
    <3>1. hi + 1 - i \in lo..hi BY <1>1 DEF n
    <3>. QED BY <1>4, <3>1
  <2>. QED BY <1>4, <2>1, <2>2
<1>6. \A i, j \in 1..Len(s) : i < j => s[j] < s[i] BY <1>1, <1>4
<1>. QED BY <1>4, <1>5, <1>6 DEF NewestFirst, s, n
-----------------------------------------------------------------------------
(* The walk.  Low is where it got to, Depth where its records end.           *)

Runs == [limit : Nat, upper : Nat, offset : Nat, batch : Seq(Nat), records : Seq(Nat),
         tries : Nat, cut : {"none", "limit", "service"}, lost : SUBSET Nat]

Types ==
  /\ channel \in Seq(Kinds)
  /\ file \in 0..(Len(channel) + 1) /\ newest \in Nat
  /\ pc \in {"idle", "auth", "resolve", "history", "page", "save", "remove", "md", "html"}
  /\ run \in Runs

\* What lo..hi gives a page that could not load the media of lost.
Records(lo, hi, lost) ==
  {i \in lo..hi : i \in DOMAIN channel /\ channel[i] \in {"text", "media"}} \ lost

Low == IF run.offset = 0 THEN run.upper ELSE run.offset
Depth == IF run.cut = "limit" THEN Last(run.records) ELSE Low

Reading == {"history", "page", "save"}
Ending == {"remove", "md", "html"}

\* Before the first page of a walk from the top nothing is known yet.
FromTop == pc = "history" /\ run.upper = 0

\* The batch is what lies right below Low.
BatchBelow ==
  /\ \E n \in 1..(Low - 1) : run.batch = [i \in 1..n |-> Low - i]
  /\ run.offset = 0 => run.upper = newest + 1

\* The records are those of the channel from the upper end down to Depth.
RecordsSoFar ==
  /\ run.upper \in 1..(Len(channel) + 1) /\ Depth \in 1..run.upper
  /\ NewestFirst(run.records, Records(Depth, run.upper - 1, run.lost))

Walk ==
  /\ pc \in {"idle", "auth", "resolve"} \/ FromTop =>
       run.records = <<>> /\ run.lost = {} /\ run.cut = "none"
  /\ FromTop => file = 0 /\ run.offset = 0
  /\ pc \in Reading => run.cut = "none" /\ \A i \in run.lost : i >= Low
  /\ pc \in Reading \union Ending => FromTop \/ RecordsSoFar
  /\ pc \in {"history", "save"} => FromTop \/ run.offset > 0
  /\ pc = "page" => BatchBelow
  /\ pc \in Ending => /\ run.cut = "none" => Low = 1
                      /\ run.cut = "limit" => run.records # <<>>
  /\ pc \in Reading /\ run.offset > 0 => \A i \in run.offset..newest : i \in seen

\* ids is a beginning of the listing of S, or all of it.
BeginsListing(ids, S, whole) ==
  \E all : NewestFirst(all, S) /\ IsPrefix(ids, all) /\ (whole => ids = all)

PageOK(p) ==
  /\ p.upper \in 1..(Len(channel) + 1) /\ p.to \in 1..p.upper
  /\ BeginsListing(p.ids, Records(p.to, p.upper - 1, p.lost), p.whole)

SyncInv == Types /\ Walk /\ OffsetSkipsNothing /\ PageOK(md) /\ PageOK(html)

-----------------------------------------------------------------------------
(* Steps.                                                                    *)

LEMMA NothingListed == NewestFirst(<<>>, {})
BY DEF NewestFirst

\* The first members of a listing begin it.
LEMMA FirstBegins ==
  ASSUME NEW s, NEW S, NewestFirst(s, S), NEW n \in 0..Len(s)
  PROVE  BeginsListing(FirstOf(s, n), S, FALSE)
<1>1. s \in Seq(Nat) /\ Len(s) \in Nat BY DEF NewestFirst
<1>2. FirstOf(s, n) = SubSeq(s, 1, n) BY <1>1 DEF FirstOf
<1>3. Len(SubSeq(s, 1, n)) = n /\ n \in Nat /\ n <= Len(s) BY <1>1
<1>4. SubSeq(SubSeq(s, 1, n), 1, n) = SubSeq(s, 1, n) BY <1>1, <1>3
<1>5. IsPrefix(FirstOf(s, n), s) BY <1>2, <1>3, <1>4 DEF IsPrefix
<1>. QED BY <1>5 DEF BeginsListing

LEMMA WholeListing ==
  ASSUME NEW s, NEW S, NewestFirst(s, S)
  PROVE  BeginsListing(s, S, TRUE)
<1>1. s \in Seq(Nat) /\ Len(s) \in Nat BY DEF NewestFirst
<1>2. IsPrefix(s, s) BY <1>1 DEF IsPrefix
<1>. QED BY <1>2 DEF BeginsListing

LEMMA RunFields ==
  ASSUME NEW r \in Runs
  PROVE  /\ r.limit \in Nat /\ r.upper \in Nat /\ r.offset \in Nat /\ r.tries \in Nat
         /\ r.batch \in Seq(Nat) /\ r.records \in Seq(Nat) /\ r.lost \in SUBSET Nat
         /\ r.cut \in {"none", "limit", "service"}
BY DEF Runs

LEMMA SyncInit == Init => SyncInv
<1>. SUFFICES ASSUME Init PROVE SyncInv OBVIOUS
<1>1. FirstMessages \in Nat BY SyncAssumption
<1>2. channel \in Seq(Kinds) /\ Len(channel) \in Nat BY <1>1 DEF Init
<1>3. run \in Runs BY DEF Init, NoRun, Runs
<1>4. Types BY <1>2, <1>3 DEF Init, Types
<1>5. Walk
  <2>1. pc = "idle" /\ run.records = <<>> /\ run.lost = {} /\ run.cut = "none"
    BY DEF Init, NoRun
  <2>. QED BY <2>1 DEF Walk, FromTop, Reading, Ending
<1>6. Records(1, 1 - 1, {}) = {} BY DEF Records
<1>7. PageOK(NoPage)
  <2>. DEFINE p == NoPage
  <2>1. p.upper = 1 /\ p.to = 1 /\ p.ids = <<>> /\ p.lost = {} /\ p.whole = TRUE
    BY DEF NoPage
  <2>. HIDE DEF p
  <2>2. 1 \in 1..1 /\ 1 \in 1..(Len(channel) + 1) BY <1>2
  <2>3. BeginsListing(<<>>, {}, TRUE) BY NothingListed, WholeListing
  <2>4. PageOK(p) BY <1>6, <2>1, <2>2, <2>3 DEF PageOK
  <2>. QED BY <2>4 DEF p
<1>. QED BY <1>4, <1>5, <1>7 DEF Init, SyncInv, OffsetSkipsNothing

\* What a process writes at its end, and what is left of it when it does not come
\* to the end.
LEMMA PageWritten ==
  ASSUME SyncInv, pc \in {"md", "html"}
  PROVE  /\ PageOK(Page)
         /\ \A old : PageOK(old) => \A p \in Broken(old) : PageOK(p)
<1>1. /\ RecordsSoFar /\ (run.cut = "none" => Low = 1)
      /\ run \in Runs /\ run.cut \in {"none", "limit", "service"}
  BY RunFields DEF SyncInv, Walk, FromTop, Ending, Types
<1>2. /\ Page.ids = run.records /\ Page.upper = run.upper /\ Page.lost = run.lost
      /\ Page.to = Depth /\ Page.whole = TRUE
  BY <1>1 DEF Page, Depth, Low
<1>3. /\ run.upper \in 1..(Len(channel) + 1) /\ Depth \in 1..run.upper
      /\ NewestFirst(run.records, Records(Depth, run.upper - 1, run.lost))
  BY <1>1 DEF RecordsSoFar
<1>4. PageOK(Page) BY <1>2, <1>3, WholeListing DEF PageOK
<1>5. ASSUME NEW n \in 0..Len(run.records)
      PROVE  PageOK([Page EXCEPT !.ids = FirstOf(run.records, n), !.whole = FALSE])
  <2>. DEFINE p == [Page EXCEPT !.ids = FirstOf(run.records, n), !.whole = FALSE]
  <2>1. /\ p.ids = FirstOf(run.records, n) /\ p.upper = Page.upper /\ p.to = Page.to
        /\ p.lost = Page.lost /\ p.whole = FALSE
    BY DEF Page
  <2>. HIDE DEF p
  <2>2. BeginsListing(p.ids, Records(Depth, run.upper - 1, run.lost), FALSE)
    BY <1>3, <2>1, FirstBegins
  <2>3. PageOK(p) BY <1>2, <1>3, <2>1, <2>2 DEF PageOK
  <2>. QED BY <2>3 DEF p
<1>. QED BY <1>4, <1>5 DEF Broken

\* The process is gone, or tries the same call again.
LEMMA TroubleStep ==
  ASSUME SyncInv,
         \/ \E b \in BOOLEAN : AuthFails(b) \/ CallFails(b)
         \/ RenderFails \/ Kill
  PROVE  SyncInv'
<1>1. /\ UNCHANGED <<channel, seen, newest>> /\ file' \in {file, 0}
      /\ md' = md \/ (pc = "md" /\ md' \in Broken(md))
      /\ html' = html \/ (pc = "html" /\ html' \in Broken(html))
  BY DEF AuthFails, CallFails, RenderFails, Kill, CutShort, Disk, History
<1>2. \/ Exit
      \/ /\ pc' = pc /\ run' = [run EXCEPT !.tries = run.tries + 1]
         /\ UNCHANGED file
  <2>1. CASE RenderFails \/ Kill BY <2>1 DEF RenderFails, Kill
  <2>2. CASE \E b \in BOOLEAN : AuthFails(b) \/ CallFails(b)
    BY <2>2 DEF AuthFails, CallFails, Retry, Disk
  <2>. QED BY <2>1, <2>2
<1>3. Types' /\ Walk'
  <2>1. CASE Exit
    <3>1. run' \in Runs BY <2>1 DEF Exit, NoRun, Runs
    <3>2. /\ pc' = "idle" /\ run'.records = <<>> /\ run'.lost = {} /\ run'.cut = "none"
      BY <2>1 DEF Exit, NoRun
    <3>3. Types' BY <1>1, <3>1, <3>2 DEF SyncInv, Types
    <3>4. Walk' BY <3>2 DEF Walk, FromTop, Reading, Ending
    <3>. QED BY <3>3, <3>4
  <2>2. CASE /\ pc' = pc /\ run' = [run EXCEPT !.tries = run.tries + 1]
             /\ UNCHANGED file
    <3>1. run \in Runs /\ run.tries + 1 \in Nat BY RunFields DEF SyncInv, Types
    <3>2. /\ run' \in Runs /\ run'.upper = run.upper /\ run'.offset = run.offset
          /\ run'.batch = run.batch /\ run'.records = run.records
          /\ run'.cut = run.cut /\ run'.lost = run.lost
      BY <2>2, <3>1 DEF Runs
    <3>3. Types' BY <1>1, <2>2, <3>2 DEF SyncInv, Types
    <3>4. Walk'
      BY SMTT(40), <1>1, <2>2, <3>2
      DEF SyncInv, Walk, FromTop, RecordsSoFar, BatchBelow, Records, Low, Depth, Last
    <3>. QED BY <3>3, <3>4
  <2>. QED BY <1>2, <2>1, <2>2
<1>4. PageOK(md') /\ PageOK(html')
  BY <1>1, PageWritten DEF SyncInv
<1>5. PageOK(md)' /\ PageOK(html)' BY <1>1, <1>4 DEF PageOK, Records
<1>6. OffsetSkipsNothing' BY <1>1 DEF SyncInv, OffsetSkipsNothing
<1>. QED BY <1>3, <1>5, <1>6 DEF SyncInv

LEMMA BeginStep ==
  ASSUME SyncInv, (\E limit \in Limits : Start(limit)) \/ Auth \/ Resolve
  PROVE  SyncInv'
<1>1. UNCHANGED <<channel, file, md, html, seen, newest>>
  BY DEF Start, Auth, Resolve, Disk, History
<1>2. run \in Runs /\ file \in 0..(Len(channel) + 1) /\ Len(channel) \in Nat
  BY DEF SyncInv, Types
<1>3. CASE (\E limit \in Limits : Start(limit)) \/ Auth
  <2>1. /\ run' \in Runs /\ pc' \in {"auth", "resolve"}
        /\ run'.records = <<>> /\ run'.lost = {} /\ run'.cut = "none"
    <3>1. CASE \E limit \in Limits : Start(limit)
      <4>1. PICK limit \in Limits : Start(limit) BY <3>1
      <4>2. limit \in Nat BY SyncAssumption
      <4>3. NoRun \in Runs /\ NoRun.records = <<>> /\ NoRun.lost = {} /\ NoRun.cut = "none"
        BY DEF NoRun, Runs
      <4>. HIDE DEF NoRun
      <4>4. run' = [NoRun EXCEPT !.limit = limit] /\ pc' = "auth" BY <4>1 DEF Start
      <4>5. run'.records = NoRun.records BY <4>3, <4>4 DEF Runs
      <4>6. run' \in Runs /\ run'.lost = NoRun.lost /\ run'.cut = NoRun.cut
        BY <4>2, <4>3, <4>4 DEF Runs
      <4>. QED BY <4>3, <4>4, <4>5, <4>6
    <3>2. CASE Auth
      <4>1. pc = "auth" /\ pc' = "resolve" /\ run' = [run EXCEPT !.tries = 0]
        BY <3>2 DEF Auth
      <4>2. run.records = <<>> /\ run.lost = {} /\ run.cut = "none"
        BY <4>1 DEF SyncInv, Walk
      <4>. QED BY <1>2, <4>1, <4>2 DEF Runs
    <3>. QED BY <1>3, <3>1, <3>2
  <2>2. Walk' BY <2>1 DEF Walk, FromTop, Reading, Ending
  <2>. QED
    BY <1>1, <2>1, <2>2 DEF SyncInv, Types, OffsetSkipsNothing, PageOK, Records
<1>4. CASE Resolve
  <2>1. /\ pc = "resolve" /\ pc' = "history"
        /\ run' = [run EXCEPT !.tries = 0, !.offset = file, !.upper = file]
    BY <1>4 DEF Resolve
  <2>2. run.records = <<>> /\ run.lost = {} /\ run.cut = "none"
    BY <2>1 DEF SyncInv, Walk
  <2>3. /\ run' \in Runs /\ run'.offset = file /\ run'.upper = file
        /\ run'.records = <<>> /\ run'.lost = {} /\ run'.cut = "none"
    <3>1. run.records = <<>> => run'.records = <<>> BY <1>2, <2>1 DEF Runs
    <3>2. file \in Nat BY <1>2
    <3>3. run' \in Runs BY <1>2, <2>1, <3>2 DEF Runs
    <3>4. /\ run'.offset = file /\ run'.upper = file
          /\ run'.cut = run.cut /\ run'.lost = run.lost
      BY <1>2, <2>1 DEF Runs
    <3>. QED BY <2>2, <3>1, <3>3, <3>4
  <2>4. Records(file, file - 1, {}) = {} BY <1>2 DEF Records
  <2>5. file # 0 => RecordsSoFar'
    <3>1. file # 0 => file \in 1..(Len(channel) + 1) /\ file \in 1..file BY <1>2
    <3>. QED
      BY <1>1, <2>3, <2>4, <3>1, NothingListed DEF RecordsSoFar, Records, Depth, Low
  <2>6. Walk'
    BY <1>1, <1>2, <2>1, <2>3, <2>5
    DEF SyncInv, Walk, FromTop, Reading, Ending, Low, OffsetSkipsNothing
  <2>. QED
    BY <1>1, <2>1, <2>3, <2>6 DEF SyncInv, Types, OffsetSkipsNothing, PageOK, Records
<1>. QED BY <1>3, <1>4

LEMMA HistoryStep ==
  ASSUME SyncInv, GetHistory
  PROVE  SyncInv'
<1>. DEFINE top == IF run.offset = 0 THEN Len(channel) ELSE run.offset - 1
            n   == IF top < PageSize THEN top ELSE PageSize
            batch == [i \in 1..n |-> top + 1 - i]
            upper == IF run.upper = 0 THEN Len(channel) + 1 ELSE run.upper
<1>1. /\ pc = "history" /\ UNCHANGED <<channel, file, md, html>>
      /\ pc' = IF batch = <<>> THEN "remove" ELSE "page"
  BY DEF GetHistory, Below, Disk
<1>2. /\ run \in Runs /\ Len(channel) \in Nat /\ PageSize \in Nat \ {0}
      /\ run.offset \in Nat /\ run.upper \in Nat /\ newest \in Nat
  BY SyncAssumption, RunFields DEF SyncInv, Types
<1>3. /\ run.cut = "none"
      /\ run.upper = 0 => file = 0 /\ run.offset = 0 /\ run.records = <<>> /\ run.lost = {}
      /\ run.upper # 0 => run.offset > 0 /\ RecordsSoFar
      /\ \A i \in run.lost : i >= Low
      /\ run.offset > 0 => \A i \in run.offset..newest : i \in seen
  BY <1>1 DEF SyncInv, Walk, FromTop, Reading
<1>4. top \in Nat /\ n \in 0..top /\ (n = 0 <=> top = 0) BY <1>2
<1>5. batch \in Seq(Nat) /\ Len(batch) = n
  <2>1. n \in Nat /\ \A i \in 1..n : top + 1 - i \in Nat BY <1>4
  <2>. HIDE DEF n, top
  <2>. QED BY <2>1
<1>6. batch = <<>> <=> n = 0 BY <1>5, EmptySeq
<1>7. run' = [run EXCEPT !.tries = 0, !.batch = batch, !.upper = upper]
  <2>1. CASE run.upper = 0 BY <2>1 DEF GetHistory, Below
  <2>2. CASE run.upper # 0
    <3>1. run' = [run EXCEPT !.tries = 0, !.batch = batch]
      BY <2>2 DEF GetHistory, Below
    <3>. HIDE DEF batch
    <3>2. [run EXCEPT !.upper = run.upper] = run BY <1>2 DEF Runs
    <3>. QED BY <1>2, <2>2, <3>1 DEF Runs
  <2>. QED BY <2>1, <2>2
<1>8. IF run.upper = 0 THEN seen' = {} /\ newest' = Len(channel) ELSE UNCHANGED <<seen, newest>>
  BY DEF GetHistory, History
<1>. HIDE DEF batch
<1>9. /\ run' \in Runs /\ run'.offset = run.offset /\ run'.upper = upper /\ run'.batch = batch
      /\ run'.records = run.records /\ run'.cut = "none" /\ run'.lost = run.lost
  <2>1. upper \in Nat BY <1>2
  <2>. HIDE DEF upper
  <2>. QED BY <1>2, <1>3, <1>5, <1>7, <2>1 DEF Runs
<1>10. Low' = top + 1 /\ Depth' = top + 1 /\ upper > 0
  BY <1>2, <1>3, <1>9 DEF Low, Depth
<1>11. RecordsSoFar'
  <2>1. CASE run.upper = 0
    <3>1. upper = Len(channel) + 1 /\ top + 1 = upper BY <1>3, <2>1
    <3>2. Records(upper, upper - 1, {}) = {} BY <1>2, <3>1 DEF Records
    <3>3. upper \in 1..(Len(channel) + 1) /\ upper \in 1..upper BY <1>2, <3>1
    <3>. HIDE DEF upper, top
    <3>. QED
      BY <1>1, <1>3, <1>9, <1>10, <2>1, <3>1, <3>2, <3>3, NothingListed
      DEF RecordsSoFar, Records
  <2>2. CASE run.upper # 0
    <3>1. upper = run.upper /\ Low = top + 1 /\ Depth = top + 1
      BY <1>2, <1>3, <2>2 DEF Low, Depth
    <3>. HIDE DEF upper, top
    <3>. QED BY <1>1, <1>3, <1>9, <1>10, <2>2, <3>1 DEF RecordsSoFar, Records
  <2>. QED BY <2>1, <2>2
<1>12. \A i \in run'.lost : i >= Low'
  <2>1. CASE run.upper = 0 BY <1>3, <1>9, <2>1
  <2>2. CASE run.upper # 0
    <3>1. Low = top + 1 BY <1>2, <1>3, <2>2 DEF Low
    <3>. QED BY <1>3, <1>9, <1>10, <3>1
  <2>. QED BY <2>1, <2>2
<1>13. pc' = "page" => BatchBelow'
  <2>1. SUFFICES ASSUME pc' = "page" PROVE BatchBelow' OBVIOUS
  <2>2. n # 0 BY <1>1, <1>6, <2>1
  <2>3. n \in 1..(Low' - 1)
    <3>. HIDE DEF top, n
    <3>. QED BY <1>4, <1>10, <2>2
  <2>4. run'.batch = [i \in 1..n |-> Low' - i]
    <3>. HIDE DEF top, n
    <3>1. \A i \in 1..n : top + 1 - i = Low' - i BY <1>4, <1>10
    <3>. QED BY <1>9, <3>1 DEF batch
  <2>5. run'.offset = 0 => run'.upper = newest' + 1 BY <1>2, <1>3, <1>8, <1>9
  <2>. HIDE DEF n
  <2>. QED BY <2>3, <2>4, <2>5 DEF BatchBelow
<1>14. pc' = "remove" => Low' = 1 BY <1>1, <1>4, <1>6, <1>10
<1>15. run'.offset > 0 => \A i \in run'.offset..newest' : i \in seen'
  BY <1>2, <1>3, <1>8, <1>9
<1>16. Walk'
  <2>. HIDE DEF upper, top, n
  <2>1. pc' \in {"page", "remove"} /\ run'.upper # 0 BY <1>1, <1>2, <1>9, <1>10 DEF upper
  <2>. QED
    BY <1>9, <1>11, <1>12, <1>13, <1>14, <1>15, <2>1 DEF Walk, FromTop, Reading, Ending
<1>17. Types' BY <1>1, <1>2, <1>8, <1>9 DEF SyncInv, Types
<1>18. OffsetSkipsNothing'
  BY <1>1, <1>3, <1>8 DEF SyncInv, OffsetSkipsNothing
<1>. QED BY <1>1, <1>16, <1>17, <1>18 DEF SyncInv, PageOK, Records
\* What a page of the channel adds: its messages and its records, newest first.
LEMMA PageLists ==
  ASSUME SyncInv, pc = "page", NEW lost, lost \subseteq ToSet(Messages(run.batch))
  PROVE  \E bottom \in 1..(Low - 1) :
           /\ ToSet(run.batch) = bottom..(Low - 1)
           /\ NewestFirst(Messages(run.batch), {i \in bottom..(Low - 1) : channel[i] # "service"})
           /\ lost \subseteq bottom..(Low - 1)
           /\ NewestFirst(Recorded(Messages(run.batch), lost), Records(bottom, Low - 1, lost))
           /\ NewestFirst(run.records \o Recorded(Messages(run.batch), lost),
                          Records(bottom, run.upper - 1, run.lost \union lost))
<1>. DEFINE ids == Messages(run.batch)
<1>1. /\ run \in Runs /\ run.upper \in Nat /\ run.offset \in Nat /\ run.lost \in SUBSET Nat
      /\ Len(channel) \in Nat /\ DOMAIN channel = 1..Len(channel)
  BY RunFields DEF SyncInv, Types
<1>2. /\ run.upper \in 1..(Len(channel) + 1) /\ Low \in 1..run.upper
      /\ NewestFirst(run.records, Records(Low, run.upper - 1, run.lost))
      /\ \A i \in run.lost : i >= Low
      /\ \E n \in 1..(Low - 1) : run.batch = [i \in 1..n |-> Low - i]
  BY DEF SyncInv, Walk, FromTop, Reading, Ending, RecordsSoFar, Depth, BatchBelow
<1>3. PICK n \in 1..(Low - 1) : run.batch = [i \in 1..n |-> Low - i] BY <1>2
<1>. DEFINE bottom == Low - n
            B == bottom..(Low - 1)
            I == {i \in B : channel[i] # "service"}
<1>4. /\ Low \in Nat /\ n \in Nat /\ bottom \in 1..(Low - 1) /\ bottom \in Nat
      /\ Low - 1 \in Int /\ bottom <= (Low - 1) + 1
  BY <1>1, <1>2, <1>3
<1>5. NewestFirst(run.batch, B)
  <2>1. (Low - 1) - bottom + 1 = n /\ \A i \in 1..n : (Low - 1) + 1 - i = Low - i BY <1>4
  <2>2. run.batch = Between(bottom, Low - 1)
    <3>. HIDE DEF bottom
    <3>. QED BY <1>3, <2>1 DEF Between
  <2>. HIDE DEF bottom
  <2>. QED BY <1>4, <2>2, BetweenLists
<1>6. B \subseteq DOMAIN channel BY <1>1, <1>2, <1>4
<1>7. NewestFirst(ids, I)
  <2>1. B \intersect {i \in DOMAIN channel : channel[i] # "service"} = I BY <1>6
  <2>. HIDE DEF B, I
  <2>. QED BY <1>5, <2>1, KeptLists DEF Messages
<1>. HIDE DEF ids
<1>8. ToSet(run.batch) = B /\ ToSet(ids) = I
  <2>1. DOMAIN run.batch = 1..Len(run.batch) /\ DOMAIN ids = 1..Len(ids)
    BY <1>5, <1>7 DEF NewestFirst
  <2>. HIDE DEF B, I
  <2>. QED BY <1>5, <1>7, <2>1 DEF NewestFirst, ToSet
<1>9. lost \subseteq I BY <1>8 DEF ids
<1>10. NewestFirst(Recorded(ids, lost), Records(bottom, Low - 1, lost))
  <2>1. I \intersect ({i \in DOMAIN channel : channel[i] \in {"text", "media"}} \ lost)
          = Records(bottom, Low - 1, lost)
    BY <1>6 DEF Records
  <2>. HIDE DEF I, bottom
  <2>. QED BY <1>7, <2>1, KeptLists DEF Recorded
<1>11. NewestFirst(run.records \o Recorded(ids, lost),
                   Records(bottom, run.upper - 1, run.lost \union lost))
  <2>1. Records(Low, run.upper - 1, run.lost) \union Records(bottom, Low - 1, lost)
          = Records(bottom, run.upper - 1, run.lost \union lost)
    <3>1. \A i \in lost : i < Low BY <1>4, <1>9
    <3>2. \A i : i \in bottom..(run.upper - 1) <=>
                   i \in Low..(run.upper - 1) \/ i \in bottom..(Low - 1)
      BY <1>1, <1>2, <1>4
    <3>3. \A i \in Low..(run.upper - 1) : i \notin lost BY <1>4, <3>1
    <3>4. \A i \in bottom..(Low - 1) : i \notin run.lost BY <1>1, <1>2, <1>4
    <3>. HIDE DEF bottom
    <3>. QED BY <3>2, <3>3, <3>4 DEF Records
  <2>2. \A v \in Records(Low, run.upper - 1, run.lost), w \in Records(bottom, Low - 1, lost) :
           w < v
    BY <1>1, <1>4 DEF Records
  <2>. HIDE DEF bottom
  <2>3. NewestFirst(run.records \o Recorded(ids, lost),
                    Records(Low, run.upper - 1, run.lost)
                      \union Records(bottom, Low - 1, lost))
    BY <1>2, <1>10, <2>2, JoinLists
  <2>. QED BY <2>1, <2>3
<1>. HIDE DEF bottom
<1>. QED BY <1>4, <1>7, <1>8, <1>9, <1>10, <1>11 DEF ids

\* A walk that ends at its limit has found that many records.
LEMMA LimitReached ==
  ASSUME NEW ids, NEW I, NewestFirst(ids, I), NEW lost, NEW R, NewestFirst(run.records, R),
         EndsAtLimit(ids, lost), run.limit \in Nat
  PROVE  Len(run.records \o Recorded(ids, lost)) >= run.limit
<1>. DEFINE K == {i \in DOMAIN channel : channel[i] \in {"text", "media"}} \ lost
<1>1. PICK j \in 1..Len(ids) :
        Len(run.records \o Recorded(SubSeq(ids, 1, j - 1), lost)) >= run.limit
  BY DEF EndsAtLimit
<1>. DEFINE sub == SubSeq(ids, 1, j - 1)
            J == {v \in I : v > ids[j]}
<1>2. NewestFirst(sub, J) BY FirstLists
<1>3. /\ NewestFirst(Recorded(ids, lost), I \intersect K)
      /\ NewestFirst(Recorded(sub, lost), J \intersect K)
  <2>. HIDE DEF sub, J
  <2>. QED BY <1>2, KeptLists DEF Recorded
<1>4. \A v \in J \intersect K, w \in (I \intersect K) \ (J \intersect K) : w < v
  <2>1. I \subseteq Nat /\ ids[j] \in Nat BY DEF NewestFirst
  <2>. QED BY <2>1
<1>5. Len(Recorded(sub, lost)) <= Len(Recorded(ids, lost))
  <2>1. J \intersect K \subseteq I \intersect K OBVIOUS
  <2>. HIDE DEF sub, J, K
  <2>. QED BY <1>3, <1>4, <2>1, ShorterList
<1>6. /\ run.records \in Seq(Nat) /\ Recorded(ids, lost) \in Seq(Nat)
      /\ Recorded(sub, lost) \in Seq(Nat)
  BY <1>3 DEF NewestFirst
<1>. HIDE DEF sub
<1>7. /\ Len(run.records \o Recorded(ids, lost)) = Len(run.records) + Len(Recorded(ids, lost))
      /\ Len(run.records \o Recorded(sub, lost)) = Len(run.records) + Len(Recorded(sub, lost))
      /\ Len(run.records) \in Nat /\ Len(Recorded(ids, lost)) \in Nat
      /\ Len(Recorded(sub, lost)) \in Nat
  BY <1>6
<1>8. Len(run.records \o Recorded(sub, lost)) >= run.limit BY <1>1 DEF sub
<1>9. run.limit <= Len(run.records) + Len(Recorded(sub, lost)) BY <1>7, <1>8
<1>10. Len(run.records) + Len(Recorded(sub, lost)) <= Len(run.records \o Recorded(ids, lost))
  BY <1>5, <1>7
<1>. QED BY <1>7, <1>9, <1>10
LEMMA ReadStep ==
  ASSUME SyncInv, NEW lost, ReadPage(lost)
  PROVE  SyncInv'
<1>. DEFINE ids == Messages(run.batch)
            all == run.records \o Recorded(ids, lost)
            gone == run.lost \union lost
<1>1. /\ pc = "page" /\ UNCHANGED <<channel, file, md, html, newest>>
      /\ seen' = seen \union ToSet(run.batch)
      /\ lost \subseteq ToSet(ids)
  BY DEF ReadPage, Disk
<1>2. /\ run \in Runs /\ run.upper \in Nat /\ run.offset \in Nat /\ run.lost \in SUBSET Nat
      /\ run.limit \in Nat /\ newest \in Nat
      /\ Len(channel) \in Nat /\ DOMAIN channel = 1..Len(channel)
  BY RunFields DEF SyncInv, Types
<1>3. /\ run.upper \in 1..(Len(channel) + 1) /\ Low \in 1..run.upper
      /\ NewestFirst(run.records, Records(Low, run.upper - 1, run.lost))
      /\ run.cut = "none" /\ \A i \in run.lost : i >= Low
      /\ run.offset = 0 => run.upper = newest + 1
      /\ run.offset > 0 => \A i \in run.offset..newest : i \in seen
  BY <1>1 DEF SyncInv, Walk, FromTop, Reading, Ending, RecordsSoFar, Depth, BatchBelow
<1>4. PICK bottom \in 1..(Low - 1) :
        /\ ToSet(run.batch) = bottom..(Low - 1)
        /\ NewestFirst(ids, {i \in bottom..(Low - 1) : channel[i] # "service"})
        /\ lost \subseteq bottom..(Low - 1)
        /\ NewestFirst(all, Records(bottom, run.upper - 1, gone))
  BY <1>1, PageLists
<1>. DEFINE I == {i \in bottom..(Low - 1) : channel[i] # "service"}
            A == Records(bottom, run.upper - 1, gone)
<1>5. /\ all \in Seq(Nat) /\ Len(all) \in Nat /\ ids \in Seq(Nat) /\ Len(ids) \in Nat
      /\ gone \in SUBSET Nat /\ bottom \in Nat /\ Low \in Nat
      /\ \A i \in gone : i >= bottom
  <2>1. Low \in Nat /\ bottom \in Nat /\ bottom < Low BY <1>2, <1>3, <1>4
  <2>2. lost \subseteq Nat /\ \A i \in lost : i >= bottom BY <1>4, <2>1
  <2>3. \A i \in run.lost : i \in Nat /\ i >= bottom BY <1>2, <1>3, <2>1
  <2>4. gone \in SUBSET Nat /\ \A i \in gone : i >= bottom BY <2>2, <2>3
  <2>. HIDE DEF all, ids, gone
  <2>5. all \in Seq(Nat) /\ ids \in Seq(Nat) BY <1>4 DEF NewestFirst
  <2>. QED BY <2>1, <2>4, <2>5
<1>o. OffsetSkipsNothing'
  BY <1>1 DEF SyncInv, OffsetSkipsNothing
<1>p. PageOK(md)' /\ PageOK(html)' BY <1>1 DEF SyncInv, PageOK, Records
<1>6. CASE EndsAtLimit(ids, lost)
  <2>. DEFINE k == run.limit
              first == FirstOf(all, k)
  <2>1. /\ pc' = "md"
        /\ run' = [run EXCEPT !.records = first, !.cut = "limit", !.lost = @ \union lost]
    BY <1>6 DEF ReadPage
  <2>2. Len(all) >= k /\ k > 0
    BY <1>2, <1>3, <1>4, <1>6, LimitReached DEF EndsAtLimit
  <2>. HIDE DEF all, ids, gone
  <2>3. first = SubSeq(all, 1, k) /\ k \in 1..Len(all)
    BY <1>2, <1>5, <2>2 DEF FirstOf
  <2>. HIDE DEF first
  <2>. DEFINE x == all[k]
  <2>4. /\ NewestFirst(first, {v \in A : v >= x}) /\ Len(first) = k /\ first[k] = x
    BY <1>4, <2>3, FirstLists
  <2>5. x \in A BY <1>4, <2>3 DEF NewestFirst
  <2>6. x \in bottom..(run.upper - 1) BY <2>5 DEF Records
  <2>7. {v \in A : v >= x} = Records(x, run.upper - 1, gone)
    BY <1>2, <1>5, <2>6 DEF Records
  <2>8. first \in Seq(Nat) /\ first # <<>> /\ Last(first) = x
    <3>1. first \in Seq(Nat) /\ Len(first) # 0 BY <1>2, <2>2, <2>4 DEF NewestFirst
    <3>. QED BY <2>4, <3>1, EmptySeq DEF Last
  <2>9. /\ run' \in Runs /\ run'.records = first /\ run'.cut = "limit" /\ run'.lost = gone
        /\ run'.upper = run.upper
    BY <1>2, <1>5, <2>1, <2>8 DEF Runs, gone
  <2>. HIDE DEF x, A
  <2>10. Depth' = x BY <2>8, <2>9 DEF Depth, Last
  <2>11. RecordsSoFar'
    <3>1. x \in 1..run.upper BY <1>2, <1>5, <2>6
    <3>. QED BY <1>1, <1>3, <2>4, <2>7, <2>9, <2>10, <3>1 DEF RecordsSoFar, Records
  <2>12. Walk' BY <2>1, <2>8, <2>9, <2>11 DEF Walk, FromTop, Reading, Ending
  <2>13. Types' BY <1>1, <2>1, <2>9 DEF SyncInv, Types
  <2>. QED BY <1>o, <1>p, <2>12, <2>13 DEF SyncInv
<1>7. CASE ~EndsAtLimit(ids, lost) /\ ids = <<>>
  <2>1. /\ pc' = "remove"
        /\ run' = [run EXCEPT !.records = all, !.lost = @ \union lost, !.cut = "service",
                              !.offset = run.offset]
    BY <1>7 DEF ReadPage, AfterPage
  <2>2. I = {} /\ lost = {}
    <3>1. Len(ids) = 0 BY <1>7
    <3>. HIDE DEF ids
    <3>2. I = {} BY <1>4, <3>1 DEF NewestFirst
    <3>3. ToSet(ids) = {} BY <1>5, <3>1 DEF ToSet
    <3>. QED BY <1>1, <3>2, <3>3
  <2>3. Records(bottom, run.upper - 1, gone) = Records(Low, run.upper - 1, gone)
    <3>1. \A i \in bottom..(Low - 1) : channel[i] = "service" BY <2>2
    <3>2. \A i : i \in bottom..(run.upper - 1) <=>
                   i \in Low..(run.upper - 1) \/ i \in bottom..(Low - 1)
      BY SMTT(40), <1>2, <1>3, <1>5
    <3>. HIDE DEF gone
    <3>. QED BY <3>1, <3>2 DEF Records
  <2>. HIDE DEF all, ids, gone
  <2>4. /\ run' \in Runs /\ run'.records = all /\ run'.cut = "service" /\ run'.lost = gone
        /\ run'.upper = run.upper /\ run'.offset = run.offset
    BY <1>2, <1>5, <2>1 DEF Runs, gone
  <2>5. Low' = Low /\ Depth' = Low BY <2>4 DEF Low, Depth
  <2>6. RecordsSoFar' BY <1>1, <1>3, <1>4, <2>3, <2>4, <2>5 DEF RecordsSoFar, Records
  <2>7. run'.upper # 0 BY <1>3, <2>4
  <2>8. Walk' BY <2>1, <2>4, <2>6, <2>7 DEF Walk, FromTop, Reading, Ending
  <2>9. Types' BY <1>1, <2>1, <2>4 DEF SyncInv, Types
  <2>. QED BY <1>o, <1>p, <2>8, <2>9 DEF SyncInv
<1>8. CASE ~EndsAtLimit(ids, lost) /\ ids # <<>>
  <2>. DEFINE m == ids[Len(ids)]
  <2>1. /\ pc' = IF m = run.offset THEN "remove" ELSE "save"
        /\ run' = [run EXCEPT !.records = all, !.lost = @ \union lost, !.cut = run.cut,
                              !.offset = m]
    BY <1>8 DEF ReadPage, AfterPage, LowestOf
  <2>2. Len(ids) \in 1..Len(ids)
    <3>1. Len(ids) # 0 BY <1>5, <1>8, EmptySeq
    <3>. QED BY <1>5, <3>1
  <2>3. m \in I /\ \A i \in I : i >= m
    <3>. HIDE DEF ids
    <3>1. m \in I /\ I \subseteq Nat BY <1>4, <2>2 DEF NewestFirst
    <3>2. ASSUME NEW i \in I PROVE i >= m
      <4>1. PICK j \in 1..Len(ids) : ids[j] = i BY <1>4 DEF NewestFirst
      <4>2. j = Len(ids) \/ m < ids[j] BY <1>4, <1>5, <2>2 DEF NewestFirst
      <4>. QED BY <3>1, <4>1, <4>2
    <3>. QED BY <3>1, <3>2
  <2>4. lost \subseteq I
    <3>1. DOMAIN ids = 1..Len(ids) BY <1>5
    <3>. HIDE DEF ids
    <3>. QED BY <1>1, <1>4, <3>1 DEF NewestFirst, ToSet
  <2>5. Records(bottom, run.upper - 1, gone) = Records(m, run.upper - 1, gone)
    <3>1. m \in bottom..(Low - 1) BY <2>3
    <3>. HIDE DEF m, gone
    <3>2. \A i \in bottom..(m - 1) : channel[i] = "service"
      <4>1. \A i \in bottom..(m - 1) : i \in bottom..(Low - 1) /\ ~(i >= m) BY <1>5, <3>1
      <4>. QED BY <2>3, <4>1
    <3>3. \A i : i \in bottom..(run.upper - 1) <=>
                   i \in m..(run.upper - 1) \/ i \in bottom..(m - 1)
      BY SMTT(40), <1>2, <1>3, <1>5, <3>1
    <3>. QED BY <3>2, <3>3 DEF Records
  <2>6. m \in Nat /\ m < Low /\ m >= bottom /\ m > 0 BY <1>5, <2>3
  <2>7. m # run.offset BY <1>2, <2>6 DEF Low
  <2>8. \A i \in gone : i >= m BY <1>2, <1>3, <1>5, <2>3, <2>4, <2>6
  <2>. HIDE DEF all, ids, gone, m
  <2>9. /\ run' \in Runs /\ run'.records = all /\ run'.cut = "none" /\ run'.lost = gone
        /\ run'.upper = run.upper /\ run'.offset = m
    BY <1>2, <1>3, <1>5, <2>1, <2>6 DEF Runs, gone
  <2>10. Low' = m /\ Depth' = m BY <2>6, <2>9 DEF Low, Depth
  <2>11. RecordsSoFar'
    <3>1. m \in 1..run.upper BY <1>2, <1>3, <2>6
    <3>. QED BY <1>1, <1>3, <1>4, <2>5, <2>9, <2>10, <3>1 DEF RecordsSoFar, Records
  <2>12. \A i \in m..newest : i \in seen'
    <3>1. SUFFICES ASSUME NEW i \in m..newest PROVE i \in seen' OBVIOUS
    <3>2. CASE i < Low BY <1>1, <1>4, <1>5, <2>6, <3>1, <3>2
    <3>3. CASE i >= Low
      <4>1. run.offset # 0 BY <1>2, <1>3, <2>6, <3>1, <3>3 DEF Low
      <4>2. Low = run.offset BY <4>1 DEF Low
      <4>. QED BY <1>1, <1>2, <1>3, <2>6, <3>1, <3>3, <4>1, <4>2
    <3>. QED BY <1>2, <1>5, <2>6, <3>1, <3>2, <3>3
  <2>13. Walk'
    BY <1>1, <2>1, <2>6, <2>7, <2>8, <2>9, <2>10, <2>11, <2>12
    DEF Walk, FromTop, Reading, Ending
  <2>14. Types' BY <1>1, <2>1, <2>9 DEF SyncInv, Types
  <2>. QED BY <1>o, <1>p, <2>13, <2>14 DEF SyncInv
<1>. QED BY <1>6, <1>7, <1>8

LEMMA SaveStep ==
  ASSUME SyncInv, NEW fails \in BOOLEAN, SaveState(fails) \/ RemoveState(fails)
  PROVE  SyncInv'
<1>1. /\ UNCHANGED <<channel, md, html, run, seen, newest>>
      /\ run \in Runs /\ run.offset \in Nat /\ run.upper \in Nat /\ Len(channel) \in Nat
  BY RunFields DEF SaveState, RemoveState, History, SyncInv, Types
<1>2. CASE SaveState(fails)
  <2>1. pc = "save" /\ pc' = "history" /\ file' \in {file, 0, run.offset}
    BY <1>2 DEF SaveState
  <2>2. /\ run.offset > 0 /\ RecordsSoFar /\ run.cut = "none"
        /\ \A i \in run.offset..newest : i \in seen
    BY <2>1 DEF SyncInv, Walk, FromTop, Reading, Ending
  <2>3. run.offset \in 1..run.upper /\ run.upper \in 1..(Len(channel) + 1)
    BY <1>1, <2>2 DEF RecordsSoFar, Depth, Low
  <2>4. run.offset \in 0..(Len(channel) + 1) /\ run.upper # 0 BY <1>1, <2>3
  <2>5. Types' BY <1>1, <2>1, <2>4 DEF SyncInv, Types
  <2>6. Walk'
    BY <1>1, <2>1, <2>4
    DEF SyncInv, Walk, FromTop, Reading, Ending, RecordsSoFar, Records, Depth, Low, Last
  <2>7. OffsetSkipsNothing' BY <1>1, <2>1, <2>2 DEF SyncInv, OffsetSkipsNothing
  <2>. QED BY <1>1, <2>5, <2>6, <2>7 DEF SyncInv, PageOK, Records
<1>3. CASE RemoveState(fails)
  <2>1. pc = "remove" /\ pc' = "md" /\ file' \in {file, 0}
    BY <1>3 DEF RemoveState
  <2>2. Types' BY <1>1, <2>1 DEF SyncInv, Types
  <2>3. Walk'
    BY <1>1, <2>1
    DEF SyncInv, Walk, FromTop, Reading, Ending, RecordsSoFar, Records, Depth, Low, Last
  <2>4. OffsetSkipsNothing' BY <1>1, <2>1 DEF SyncInv, OffsetSkipsNothing
  <2>. QED BY <1>1, <2>2, <2>3, <2>4 DEF SyncInv, PageOK, Records
<1>. QED BY <1>2, <1>3

LEMMA RenderStep ==
  ASSUME SyncInv, RenderMarkdown \/ RenderHTML
  PROVE  SyncInv'
<1>1. /\ UNCHANGED <<channel, file, seen, newest>> /\ pc \in {"md", "html"}
      /\ \/ pc' = "html" /\ run' = run /\ md' = Page /\ html' = html
         \/ Exit /\ md' = md /\ html' = Page
  BY DEF RenderMarkdown, RenderHTML, History
<1>2. PageOK(Page) BY <1>1, PageWritten
<1>3. Types' /\ Walk'
  <2>1. CASE pc' = "html" /\ run' = run
    BY <1>1, <2>1
    DEF SyncInv, Types, Walk, FromTop, Reading, Ending, RecordsSoFar, Records, Depth, Low, Last
  <2>2. CASE Exit
    <3>1. run' \in Runs BY <2>2 DEF Exit, NoRun, Runs
    <3>2. /\ pc' = "idle" /\ run'.records = <<>> /\ run'.lost = {} /\ run'.cut = "none"
      BY <2>2 DEF Exit, NoRun
    <3>3. Types' BY <1>1, <3>1, <3>2 DEF SyncInv, Types
    <3>4. Walk' BY <3>2 DEF Walk, FromTop, Reading, Ending
    <3>. QED BY <3>3, <3>4
  <2>. QED BY <1>1, <2>1, <2>2
<1>4. PageOK(md)' /\ PageOK(html)' BY <1>1, <1>2 DEF SyncInv, PageOK, Records
<1>. QED BY <1>1, <1>3, <1>4 DEF SyncInv, OffsetSkipsNothing

\* A message that is published changes nothing of what was read.
LEMMA PublishStep ==
  ASSUME SyncInv, NEW kind \in LaterKinds, Publish(kind)
  PROVE  SyncInv'
<1>1. /\ channel' = Append(channel, kind)
      /\ UNCHANGED <<file, md, html, pc, run, seen, newest>>
  BY DEF Publish, Disk, History
<1>2. kind \in Kinds BY SyncAssumption
<1>3. /\ channel \in Seq(Kinds) /\ Len(channel) \in Nat /\ channel' \in Seq(Kinds)
      /\ Len(channel') = Len(channel) + 1
      /\ DOMAIN channel = 1..Len(channel) /\ DOMAIN channel' = 1..(Len(channel) + 1)
      /\ \A i \in 1..Len(channel) : channel'[i] = channel[i]
  BY <1>1, <1>2 DEF SyncInv, Types
<1>4. ASSUME NEW lo, NEW hi \in Int, NEW lost, hi <= Len(channel), lo \in Nat \ {0}
      PROVE  Records(lo, hi, lost)' = Records(lo, hi, lost)
  <2>1. \A i \in lo..hi : i \in DOMAIN channel /\ i \in DOMAIN channel' /\ channel'[i] = channel[i]
    BY <1>3, <1>4
  <2>. QED BY <2>1 DEF Records
<1>5. ASSUME NEW p, PageOK(p)
      PROVE  /\ p.upper \in 1..(Len(channel') + 1) /\ p.to \in 1..p.upper
             /\ BeginsListing(p.ids, Records(p.to, p.upper - 1, p.lost)', p.whole)
  <2>1. /\ p.upper - 1 \in Int /\ p.upper - 1 <= Len(channel) /\ p.to \in Nat \ {0}
        /\ p.upper \in 1..(Len(channel') + 1)
    BY <1>3, <1>5 DEF PageOK
  <2>. QED BY <1>4, <1>5, <2>1 DEF PageOK
<1>6. PageOK(md)' /\ PageOK(html)' BY <1>1, <1>5 DEF SyncInv, PageOK, Records
<1>7. Types' BY <1>1, <1>3 DEF SyncInv, Types
<1>8. RecordsSoFar => RecordsSoFar'
  <2>1. SUFFICES ASSUME RecordsSoFar PROVE RecordsSoFar' OBVIOUS
  <2>2. /\ run.upper - 1 \in Int /\ run.upper - 1 <= Len(channel) /\ Depth \in Nat \ {0}
        /\ run.upper \in 1..(Len(channel') + 1)
    BY <1>3, <2>1 DEF RecordsSoFar
  <2>3. Depth' = Depth BY <1>1 DEF Depth, Low, Last
  <2>4. Records(Depth, run.upper - 1, run.lost)' = Records(Depth, run.upper - 1, run.lost)
    BY <1>1, <1>4, <2>2, <2>3 DEF Records
  <2>. QED BY <1>1, <2>1, <2>2, <2>3, <2>4 DEF RecordsSoFar
<1>9. Walk'
  BY ZenonT(60), <1>1, <1>8 DEF SyncInv, Walk, FromTop, Reading, Ending, BatchBelow, Low
<1>. QED BY <1>1, <1>6, <1>7, <1>9 DEF SyncInv, OffsetSkipsNothing

LEMMA SyncInvStep == SyncInv /\ [Next]_vars => SyncInv'
<1>. SUFFICES ASSUME SyncInv, [Next]_vars PROVE SyncInv' OBVIOUS
<1>1. CASE UNCHANGED vars
  <2>1. UNCHANGED <<channel, file, md, html, pc, run, seen, newest>> BY <1>1 DEF vars
  <2>2. Types' BY <2>1 DEF SyncInv, Types
  <2>3. Walk'
    BY <2>1
    DEF SyncInv, Walk, FromTop, RecordsSoFar, BatchBelow, Records, Low, Depth, Last
  <2>. QED BY <2>1, <2>2, <2>3 DEF SyncInv, OffsetSkipsNothing, PageOK, Records
<1>. QED
  BY <1>1, TroubleStep, BeginStep, HistoryStep, ReadStep, SaveStep, RenderStep, PublishStep
  DEF Next, Step

LEMMA SyncInvAlways == Spec => []SyncInv
  BY SyncInit, SyncInvStep, PTL DEF Spec

\* Type correctness, for any page size, limits, channel and troubles.
THEOREM TypeCorrect == Spec => []Types
<1>1. SyncInv => Types BY DEF SyncInv
<1>. QED BY <1>1, SyncInvAlways, PTL

\* The offset file never steps over a page, whatever is killed and however often
\* a process goes on from it.
THEOREM NothingSkipped == Spec => []OffsetSkipsNothing
<1>1. SyncInv => OffsetSkipsNothing BY DEF SyncInv
<1>. QED BY <1>1, SyncInvAlways, PTL

\* A page is the history between its ends, each message once and newest first, and
\* one whose write was cut short a beginning of it, for any length of the channel,
\* page size, limit and kinds of messages.
THEOREM PagesAreTheHistory == Spec => []PageIsTheHistory
<1>1. ASSUME SyncInv, NEW p, PageOK(p)
      PROVE  LET history == Recorded(Between(p.to, p.upper - 1), p.lost) IN
             /\ IsPrefix(p.ids, history)
             /\ p.whole => p.ids = history
  <2>. DEFINE K == {i \in DOMAIN channel : channel[i] \in {"text", "media"}} \ p.lost
              S == p.to..(p.upper - 1)
              history == Recorded(Between(p.to, p.upper - 1), p.lost)
  <2>1. p.to \in Nat /\ p.upper - 1 \in Int /\ p.to <= (p.upper - 1) + 1
    BY <1>1 DEF PageOK, SyncInv, Types
  <2>2. NewestFirst(Between(p.to, p.upper - 1), S) BY <2>1, BetweenLists
  <2>3. NewestFirst(history, S \intersect K)
    <3>. HIDE DEF S
    <3>. QED BY <2>2, KeptLists DEF Recorded
  <2>4. S \intersect K = Records(p.to, p.upper - 1, p.lost) BY DEF Records
  <2>. HIDE DEF S, K, history
  <2>5. PICK all : /\ NewestFirst(all, S \intersect K) /\ IsPrefix(p.ids, all)
                   /\ p.whole => p.ids = all
    BY <1>1, <2>4 DEF PageOK, BeginsListing
  <2>6. all = history BY <2>3, <2>5, OneListing
  <2>7. IsPrefix(p.ids, history) /\ (p.whole => p.ids = history) BY <2>5, <2>6
  <2>. QED BY <2>7 DEF history
<1>2. SyncInv => PageIsTheHistory BY <1>1 DEF PageIsTheHistory, SyncInv
<1>. QED BY <1>2, SyncInvAlways, PTL
=============================================================================
