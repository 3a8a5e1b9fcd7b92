----------------------------- MODULE SequenceFacts -----------------------------
(***************************************************************************)
(* Facts that the proofs about the peers, the files and the knowledge base  *)
(* of a node use: about the elements of a sequence, functions defined by    *)
(* recursion on a number, and sums over a finite set.                       *)
(***************************************************************************)
EXTENDS Integers, SequencesExt, FiniteSetsExt, WellFoundedInduction, FiniteSetTheorems, TLAPS

\* The elements of a sequence are its head and those of its tail.
LEMMA ToSetTail ==
  ASSUME NEW S, NEW s \in Seq(S), s # <<>>
  PROVE  /\ Head(s) \in S /\ Tail(s) \in Seq(S)
         /\ ToSet(s) = {Head(s)} \cup ToSet(Tail(s))
         /\ IsInjective(s) => Head(s) \notin ToSet(Tail(s)) /\ IsInjective(Tail(s))
<1> DEFINE t == Tail(s)
<1>1. /\ Len(s) \in Nat /\ Len(s) >= 1 /\ DOMAIN s = 1..Len(s) /\ Head(s) = s[1]
      /\ t \in Seq(S) /\ Len(t) = Len(s) - 1 /\ DOMAIN t = 1..(Len(s) - 1)
      /\ \A i \in 1..(Len(s) - 1) : t[i] = s[i + 1]
  OBVIOUS
<1> HIDE DEF t
<1>2. Head(s) \in S
  BY <1>1
<1>3. ToSet(s) = {Head(s)} \cup ToSet(t)
  <2>1. ASSUME NEW x \in ToSet(s) PROVE x \in {Head(s)} \cup ToSet(t)
    <3>1. PICK i \in 1..Len(s) : x = s[i]
      BY <1>1, <2>1 DEF ToSet
    <3>2. CASE i = 1
      BY <1>1, <3>1, <3>2
    <3>3. CASE i # 1
      <4>1. i - 1 \in 1..(Len(s) - 1) /\ t[i - 1] = s[i]
        BY <1>1, <3>1, <3>3
      <4> QED BY <1>1, <3>1, <4>1 DEF ToSet
    <3> QED BY <3>2, <3>3
  <2>2. ASSUME NEW x \in ToSet(t) PROVE x \in ToSet(s)
    <3>1. PICK i \in 1..(Len(s) - 1) : x = t[i]
      BY <1>1, <2>2 DEF ToSet
    <3>2. i + 1 \in 1..Len(s) /\ x = s[i + 1]
      BY <1>1, <3>1
    <3> QED BY <1>1, <3>2 DEF ToSet
  <2>3. Head(s) \in ToSet(s)
    BY <1>1 DEF ToSet
  <2> QED BY <2>1, <2>2, <2>3
<1>4. ASSUME IsInjective(s) PROVE Head(s) \notin ToSet(t) /\ IsInjective(t)
  <2>1. \A i, j \in 1..Len(s) : s[i] = s[j] => i = j
    BY <1>1, <1>4 DEF IsInjective
  <2>2. ASSUME Head(s) \in ToSet(t) PROVE FALSE
    <3>1. PICK i \in 1..(Len(s) - 1) : s[1] = s[i + 1]
      BY <1>1, <2>2 DEF ToSet
    <3>2. 1 \in 1..Len(s) /\ i + 1 \in 1..Len(s) /\ i + 1 # 1
      BY <1>1
    <3> QED BY <2>1, <3>1, <3>2
  <2>3. ASSUME NEW i \in 1..(Len(s) - 1), NEW j \in 1..(Len(s) - 1), t[i] = t[j] PROVE i = j
    <3>1. i + 1 \in 1..Len(s) /\ j + 1 \in 1..Len(s) /\ s[i + 1] = s[j + 1]
      BY <1>1, <2>3
    <3>2. i + 1 = j + 1
      BY <2>1, <3>1
    <3> QED BY <3>2
  <2>4. IsInjective(t)
    BY <1>1, <2>3 DEF IsInjective
  <2> QED BY <2>2, <2>4
<1> QED BY <1>1, <1>2, <1>3, <1>4 DEF t

\* The tail is empty just when there is one element.
LEMMA TailOfOne ==
  ASSUME NEW S, NEW s \in Seq(S), s # <<>>
  PROVE  /\ Len(s) = 1 => ToSet(Tail(s)) = {}
         /\ Len(s) # 1 => Tail(s) # <<>>
<1> DEFINE t == Tail(s)
<1>1. /\ Len(s) \in Nat /\ Len(s) >= 1 /\ t \in Seq(S) /\ Len(t) = Len(s) - 1
      /\ DOMAIN t = 1..(Len(s) - 1)
  OBVIOUS
<1> HIDE DEF t
<1>2. ASSUME Len(s) = 1 PROVE ToSet(t) = {}
  <2>1. DOMAIN t = {}
    BY <1>1, <1>2
  <2> QED BY <2>1 DEF ToSet
<1>3. ASSUME Len(s) # 1 PROVE t # <<>>
  BY <1>1, <1>3
<1> QED BY <1>2, <1>3 DEF t

\* A concatenation holds the elements of the one sequence and then those of the other.
LEMMA ConcatElements ==
  ASSUME NEW S, NEW s \in Seq(S), NEW t \in Seq(S)
  PROVE  /\ s \o t \in Seq(S) /\ Len(s \o t) = Len(s) + Len(t)
         /\ DOMAIN (s \o t) = 1..(Len(s) + Len(t))
         /\ \A i \in 1..Len(s) : (s \o t)[i] = s[i]
         /\ \A i \in 1..Len(t) : (s \o t)[Len(s) + i] = t[i]
  OBVIOUS

\* Concatenation joins the elements, and repeats none if the two share none.
LEMMA ToSetConcat ==
  ASSUME NEW S, NEW s \in Seq(S), NEW t \in Seq(S)
  PROVE  /\ s \o t \in Seq(S)
         /\ ToSet(s \o t) = ToSet(s) \cup ToSet(t)
         /\ IsInjective(s) /\ IsInjective(t) /\ ToSet(s) \cap ToSet(t) = {} => IsInjective(s \o t)
<1> DEFINE u == s \o t
<1>1. /\ Len(s) \in Nat /\ Len(t) \in Nat /\ u \in Seq(S) /\ Len(u) = Len(s) + Len(t)
      /\ DOMAIN s = 1..Len(s) /\ DOMAIN t = 1..Len(t) /\ DOMAIN u = 1..(Len(s) + Len(t))
      /\ \A i \in 1..Len(s) : u[i] = s[i]
      /\ \A i \in 1..Len(t) : u[Len(s) + i] = t[i]
  OBVIOUS
<1> HIDE DEF u
<1>2. ASSUME NEW i \in 1..(Len(s) + Len(t))
      PROVE  \/ i \in 1..Len(s) /\ u[i] = s[i] /\ u[i] \in ToSet(s)
             \/ i - Len(s) \in 1..Len(t) /\ u[i] = t[i - Len(s)] /\ u[i] \in ToSet(t)
  <2>1. CASE i <= Len(s)
    <3>1. i \in 1..Len(s)
      BY <1>1, <2>1
    <3> QED BY <1>1, <3>1 DEF ToSet
  <2>2. CASE i > Len(s)
    <3>1. i - Len(s) \in 1..Len(t) /\ i = Len(s) + (i - Len(s))
      BY <1>1, <2>2
    <3> QED BY <1>1, <3>1 DEF ToSet
  <2> QED BY <1>1, <2>1, <2>2
<1>3. ToSet(u) = ToSet(s) \cup ToSet(t)
  <2>1. \A x \in ToSet(u) : x \in ToSet(s) \cup ToSet(t)
    BY <1>1, <1>2 DEF ToSet
  <2>2. \A x \in ToSet(s) : x \in ToSet(u)
    <3> SUFFICES ASSUME NEW i \in 1..Len(s) PROVE s[i] \in ToSet(u)
      BY <1>1 DEF ToSet
    <3>1. i \in 1..(Len(s) + Len(t)) /\ s[i] = u[i]
      BY <1>1
    <3> QED BY <1>1, <3>1 DEF ToSet
  <2>3. \A x \in ToSet(t) : x \in ToSet(u)
    <3> SUFFICES ASSUME NEW i \in 1..Len(t) PROVE t[i] \in ToSet(u)
      BY <1>1 DEF ToSet
    <3>1. Len(s) + i \in 1..(Len(s) + Len(t)) /\ t[i] = u[Len(s) + i]
      BY <1>1
    <3> QED BY <1>1, <3>1 DEF ToSet
  <2> QED BY <2>1, <2>2, <2>3
<1>4. ASSUME IsInjective(s), IsInjective(t), ToSet(s) \cap ToSet(t) = {} PROVE IsInjective(u)
  <2>1. /\ \A i, j \in 1..Len(s) : s[i] = s[j] => i = j
        /\ \A i, j \in 1..Len(t) : t[i] = t[j] => i = j
    BY <1>1, <1>4 DEF IsInjective
  <2>2. ASSUME NEW i \in 1..(Len(s) + Len(t)), NEW j \in 1..(Len(s) + Len(t)), u[i] = u[j]
        PROVE  i = j
    <3>1. CASE u[i] \in ToSet(s)
      <4>1. i \in 1..Len(s) /\ j \in 1..Len(s) /\ s[i] = s[j]
        BY <1>2, <1>4, <2>2, <3>1
      <4> QED BY <2>1, <4>1
    <3>2. CASE u[i] \notin ToSet(s)
      <4>1. i - Len(s) \in 1..Len(t) /\ j - Len(s) \in 1..Len(t) /\ t[i - Len(s)] = t[j - Len(s)]
        BY <1>2, <2>2, <3>2
      <4>2. i - Len(s) = j - Len(s)
        BY <2>1, <4>1
      <4> QED BY <1>1, <4>2
    <3> QED BY <3>1, <3>2
  <2> QED BY <1>1, <2>2 DEF IsInjective
<1> QED BY <1>1, <1>3, <1>4 DEF u

\* Append adds one element.
LEMMA ToSetAppend ==
  ASSUME NEW S, NEW s \in Seq(S), NEW x \in S
  PROVE  /\ Append(s, x) \in Seq(S) /\ Append(s, x) # <<>>
         /\ ToSet(Append(s, x)) = ToSet(s) \cup {x}
         /\ IsInjective(s) /\ x \notin ToSet(s) => IsInjective(Append(s, x))
         /\ Last(Append(s, x)) = x
<1>1. /\ <<x>> \in Seq(S) /\ Append(s, x) = s \o <<x>>
      /\ Append(s, x) \in Seq(S) /\ Len(Append(s, x)) = Len(s) + 1 /\ Append(s, x)[Len(s) + 1] = x
      /\ Len(s) \in Nat
  OBVIOUS
<1>2. ToSet(<<x>>) = {x} /\ IsInjective(<<x>>)
  BY DEF ToSet, IsInjective
<1>3. Append(s, x) # <<>> /\ Last(Append(s, x)) = x
  BY <1>1 DEF Last
<1>4. /\ ToSet(s \o <<x>>) = ToSet(s) \cup ToSet(<<x>>)
      /\ IsInjective(s) /\ IsInjective(<<x>>) /\ ToSet(s) \cap ToSet(<<x>>) = {}
           => IsInjective(s \o <<x>>)
  BY <1>1, ToSetConcat
<1>5. ToSet(Append(s, x)) = ToSet(s) \cup {x}
  BY <1>1, <1>2, <1>4
<1>6. ASSUME IsInjective(s), x \notin ToSet(s) PROVE IsInjective(Append(s, x))
  <2>1. ToSet(s) \cap ToSet(<<x>>) = {}
    BY <1>2, <1>6
  <2> QED BY <1>1, <1>2, <1>4, <1>6, <2>1
<1> QED BY <1>1, <1>3, <1>5, <1>6

\* The empty sequence has no element.
LEMMA ToSetEmpty == ToSet(<<>>) = {} /\ IsInjective(<<>>)
  BY DEF ToSet, IsInjective

\* A sequence over a set has its elements there.
LEMMA ToSetElements ==
  ASSUME NEW S, NEW s \in Seq(S)
  PROVE  ToSet(s) \subseteq S
  BY DEF ToSet

\* The least of some indices is one of them, and not above any.
LEMMA MinOfIndices ==
  ASSUME NEW n \in Nat, NEW I, I \subseteq 1..n, I # {}
  PROVE  Min(I) \in I /\ \A k \in I : Min(I) <= k
<1>1. \E m \in I : \A k \in I : ~ (<<k, m>> \in OpToRel(<, Nat))
  <2>1. I \subseteq Nat
    OBVIOUS
  <2> QED BY <2>1, NatLessThanWellFounded, WFMin
<1>2. PICK m \in I : \A k \in I : ~ (<<k, m>> \in OpToRel(<, Nat))
  BY <1>1
<1>3. \A k \in I : m <= k
  <2> SUFFICES ASSUME NEW k \in I PROVE m <= k
    OBVIOUS
  <2>1. k \in Nat /\ m \in Nat /\ <<k, m>> \in Nat \X Nat
    OBVIOUS
  <2>2. ~ (k < m)
    BY <1>2, <2>1 DEF OpToRel
  <2> QED BY <2>1, <2>2
<1> QED BY <1>3 DEF Min

\* A set of numbers that are not above n has a greatest one.
LEMMA MaxOfNumbers ==
  ASSUME NEW n \in Nat, NEW I, I \subseteq 0..n, I # {}
  PROVE  Max(I) \in I /\ \A i \in I : i <= Max(I)
<1> DEFINE J == {n - i + 1 : i \in I}
<1>1. J \subseteq 1..(n + 1) /\ J # {}
  <2>1. ASSUME NEW i \in I PROVE n - i + 1 \in 1..(n + 1)
    <3>1. i \in 0..n
      OBVIOUS
    <3> QED BY <3>1
  <2> QED BY <2>1
<1>2. PICK m \in J : \A k \in J : ~ (<<k, m>> \in OpToRel(<, Nat))
  <2>1. J \subseteq Nat
    BY <1>1
  <2> QED BY <1>1, <2>1, NatLessThanWellFounded, WFMin
<1>3. \A k \in J : m <= k
  <2> SUFFICES ASSUME NEW k \in J PROVE m <= k
    OBVIOUS
  <2>1. k \in Nat /\ m \in Nat /\ <<k, m>> \in Nat \X Nat
    BY <1>1
  <2>2. ~ (k < m)
    BY <1>2, <2>1 DEF OpToRel
  <2> QED BY <2>1, <2>2
<1>4. PICK x \in I : m = n - x + 1
  OBVIOUS
<1>5. \A i \in I : i <= x
  <2> SUFFICES ASSUME NEW i \in I PROVE i <= x
    OBVIOUS
  <2>1. n - i + 1 \in J
    OBVIOUS
  <2>2. m <= n - i + 1
    BY <1>3, <2>1
  <2>3. i \in 0..n /\ x \in 0..n
    OBVIOUS
  <2> HIDE DEF J
  <2> QED BY <1>4, <2>2, <2>3
<1> QED BY <1>5 DEF Max

\* The end of a sequence after position a.
LEMMA SuffixElements ==
  ASSUME NEW S, NEW s \in Seq(S), NEW a \in 1..Len(s)
  PROVE  /\ SubSeq(s, a + 1, Len(s)) \in Seq(S)
         /\ Len(SubSeq(s, a + 1, Len(s))) = Len(s) - a
         /\ \A i \in 1..(Len(s) - a) : SubSeq(s, a + 1, Len(s))[i] = s[a + i]
  OBVIOUS

\* Leaving out position a of a sequence without repetitions brings in none.
LEMMA GapInjective ==
  ASSUME NEW n \in Nat, NEW a \in 1..n, NEW s, NEW t,
         DOMAIN s = 1..n, DOMAIN t = 1..(n - 1), IsInjective(s),
         \A i \in 1..(a - 1) : t[i] = s[i],
         \A i \in a..(n - 1) : t[i] = s[i + 1]
  PROVE  IsInjective(t)
<1> DEFINE old(i) == IF i < a THEN i ELSE i + 1
<1>1. ASSUME NEW i \in 1..(n - 1) PROVE old(i) \in 1..n /\ t[i] = s[old(i)]
  <2>1. \/ (i \in 1..(a - 1) /\ i < a)
        \/ (i \in a..(n - 1) /\ ~ (i < a))
    OBVIOUS
  <2> QED BY <2>1
<1>2. ASSUME NEW i \in 1..(n - 1), NEW j \in 1..(n - 1), t[i] = t[j] PROVE i = j
  <2>1. s[old(i)] = s[old(j)] /\ old(i) \in 1..n /\ old(j) \in 1..n
    BY <1>1, <1>2
  <2>2. old(i) = old(j)
    <3> HIDE DEF old
    <3> QED BY <2>1 DEF IsInjective
  <2> QED BY <2>2
<1> QED BY <1>2 DEF IsInjective

\* Removing an element leaves the elements before it where they are and moves those
\* after it one place.
LEMMA RemoveFirstGap ==
  ASSUME NEW S, NEW s \in Seq(S), NEW e
  PROVE  \/ RemoveFirst(s, e) = s /\ ~ \E i \in 1..Len(s) : s[i] = e
         \/ \E a \in 1..Len(s) :
              /\ s[a] = e
              /\ RemoveFirst(s, e) \in Seq(S) /\ DOMAIN RemoveFirst(s, e) = 1..(Len(s) - 1)
              /\ \A i \in 1..(a - 1) : RemoveFirst(s, e)[i] = s[i]
              /\ \A i \in a..(Len(s) - 1) : RemoveFirst(s, e)[i] = s[i + 1]
<1>1. CASE ~ \E i \in 1..Len(s) : s[i] = e
  BY <1>1 DEF RemoveFirst
<1>2. CASE \E i \in 1..Len(s) : s[i] = e
  <2> DEFINE I == {i \in 1..Len(s) : s[i] = e}
             n == Len(s)
  <2>1. Min(I) \in 1..n /\ s[Min(I)] = e
    <3>1. n \in Nat /\ I \subseteq 1..n /\ I # {}
      BY <1>2
    <3>2. Min(I) \in I
      BY <3>1, MinOfIndices
    <3> QED BY <3>1, <3>2
  <2>2. RemoveFirst(s, e) = SubSeq(s, 1, Min(I) - 1) \o SubSeq(s, Min(I) + 1, n)
    BY <1>2 DEF RemoveFirst, RemoveAt, SelectInSeq
  <2>3. PICK a \in 1..n : /\ s[a] = e
                          /\ RemoveFirst(s, e) = SubSeq(s, 1, a - 1) \o SubSeq(s, a + 1, n)
    BY <2>1, <2>2
  <2> DEFINE u == SubSeq(s, 1, a - 1)
             v == SubSeq(s, a + 1, n)
             t == u \o v
  <2>4. n \in Nat /\ DOMAIN s = 1..n
    OBVIOUS
  <2>5. /\ u \in Seq(S) /\ Len(u) = a - 1
        /\ \A i \in 1..(a - 1) : u[i] = s[i]
    BY <2>4
  <2>6. /\ v \in Seq(S) /\ Len(v) = n - a
        /\ \A i \in 1..(n - a) : v[i] = s[a + i]
    BY SuffixElements
  <2> HIDE DEF u, v
  <2>7. /\ t \in Seq(S) /\ DOMAIN t = 1..(Len(u) + Len(v))
        /\ \A i \in 1..Len(u) : t[i] = u[i]
        /\ \A i \in 1..Len(v) : t[Len(u) + i] = v[i]
    <3>1. u \in Seq(S) /\ v \in Seq(S)
      BY <2>5, <2>6
    <3> QED BY <3>1, ConcatElements
  <2> HIDE DEF n, t
  <2>8. DOMAIN t = 1..(n - 1) /\ \A i \in 1..(a - 1) : t[i] = s[i]
    BY <2>4, <2>5, <2>6, <2>7
  <2>9. ASSUME NEW i \in a..(n - 1) PROVE t[i] = s[i + 1]
    <3>1. i - (a - 1) \in 1..(n - a) /\ (a - 1) + (i - (a - 1)) = i /\ a + (i - (a - 1)) = i + 1
      BY <2>4
    <3>2. t[(a - 1) + (i - (a - 1))] = v[i - (a - 1)] /\ v[i - (a - 1)] = s[a + (i - (a - 1))]
      BY <2>5, <2>6, <2>7, <3>1
    <3> QED BY <3>1, <3>2
  <2>10. RemoveFirst(s, e) = t
    BY <2>3 DEF t, u, v, n
  <2>11. a \in 1..n /\ s[a] = e
    BY <2>3
  <2> QED BY <2>7, <2>8, <2>9, <2>10, <2>11 DEF n
<1> QED BY <1>1, <1>2

\* A sequence without repetitions stays one when an element is removed.
LEMMA RemoveFirstKeeps ==
  ASSUME NEW S, NEW s \in Seq(S), IsInjective(s), NEW e
  PROVE  RemoveFirst(s, e) \in Seq(S) /\ IsInjective(RemoveFirst(s, e))
<1>1. CASE RemoveFirst(s, e) = s
  BY <1>1
<1>2. ASSUME NEW a \in 1..Len(s), RemoveFirst(s, e) \in Seq(S),
             DOMAIN RemoveFirst(s, e) = 1..(Len(s) - 1),
             \A i \in 1..(a - 1) : RemoveFirst(s, e)[i] = s[i],
             \A i \in a..(Len(s) - 1) : RemoveFirst(s, e)[i] = s[i + 1]
      PROVE  IsInjective(RemoveFirst(s, e))
  <2>1. Len(s) \in Nat /\ DOMAIN s = 1..Len(s)
    OBVIOUS
  <2> QED BY <1>2, <2>1, GapInjective
<1> QED BY <1>1, <1>2, RemoveFirstGap

-----------------------------------------------------------------------------
(* Functions defined by recursion on a number.                                *)

\* What holds at 0 and of every number whose predecessor it holds of holds up to N.
LEMMA UpTo ==
  ASSUME NEW N \in Nat, NEW Good, 0 \in Good,
         \A n \in 1..N : n - 1 \in Good => n \in Good
  PROVE  \A n \in 0..N : n \in Good
<1> DEFINE Bad == (0..N) \ Good
<1> SUFFICES ASSUME Bad # {} PROVE FALSE
  OBVIOUS
<1>1. PICK m \in Bad : \A k \in Bad : ~ (<<k, m>> \in OpToRel(<, Nat))
  <2>1. Bad \subseteq Nat
    OBVIOUS
  <2> QED BY <2>1, NatLessThanWellFounded, WFMin
<1>2. m \in 1..N /\ m - 1 \notin Good
  OBVIOUS
<1>3. m - 1 \in Bad /\ <<m - 1, m>> \in Nat \X Nat /\ m - 1 < m
  BY <1>2
<1> HIDE DEF Bad
<1> QED BY <1>1, <1>3 DEF OpToRel

\* F finds a value of T from a number and a value; g begins with a and follows F.
Advances(F, N, T) == F \in [(1..N) \X T -> T]
Follows(g, F, N, T, a) ==
    /\ g \in [0..N -> T] /\ g[0] = a
    /\ \A n \in 1..N : g[n] = F[<<n, g[n - 1]>>]

\* There is a function that begins with a and follows F.
LEMMA Iteration ==
  ASSUME NEW N \in Nat, NEW T, NEW a \in T, NEW F, Advances(F, N, T)
  PROVE  \E g : Follows(g, F, N, T, a)
<1> DEFINE Up(g, n) == g[0] = a /\ \A i \in 1..n : g[i] = F[<<i, g[i - 1]>>]
           Good == {n \in 0..N : \E g \in [0..n -> T] : Up(g, n)}
<1>1. 0 \in Good
  <2>1. [i \in 0..0 |-> a] \in [0..0 -> T] /\ Up([i \in 0..0 |-> a], 0)
    OBVIOUS
  <2>2. 0 \in 0..N
    OBVIOUS
  <2> HIDE DEF Up
  <2> QED BY <2>1, <2>2
<1>2. ASSUME NEW n \in 1..N, n - 1 \in Good PROVE n \in Good
  <2>1. PICK g \in [0..(n - 1) -> T] : Up(g, n - 1)
    BY <1>2
  <2> DEFINE h == [i \in 0..n |-> IF i = n THEN F[<<n, g[n - 1]>>] ELSE g[i]]
  <2>2. F[<<n, g[n - 1]>>] \in T
    BY DEF Advances
  <2>3. \A i \in 0..(n - 1) : i \in 0..n /\ i # n /\ h[i] = g[i]
    OBVIOUS
  <2>4. h \in [0..n -> T]
    <3>1. ASSUME NEW i \in 0..n, i # n PROVE i \in 0..(n - 1)
      BY <3>1
    <3> QED BY <2>2, <3>1
  <2>5. h[n] = F[<<n, h[n - 1]>>]
    <3>1. n \in 0..n /\ n - 1 \in 0..(n - 1)
      OBVIOUS
    <3> QED BY <2>3, <3>1
  <2>6. h[0] = a
    <3>1. 0 \in 0..(n - 1)
      OBVIOUS
    <3> QED BY <2>1, <2>3, <3>1
  <2>7. ASSUME NEW i \in 1..n PROVE h[i] = F[<<i, h[i - 1]>>]
    <3>1. CASE i = n
      BY <2>5, <3>1
    <3>2. CASE i # n
      <4>1. i \in 1..(n - 1) /\ i \in 0..(n - 1) /\ i - 1 \in 0..(n - 1)
        BY <3>2
      <4> HIDE DEF h
      <4> QED BY <2>1, <2>3, <4>1
    <3> QED BY <3>1, <3>2
  <2> HIDE DEF h
  <2>8. Up(h, n)
    BY <2>6, <2>7
  <2> HIDE DEF Up
  <2> QED BY <2>4, <2>8
<1> HIDE DEF Good
<1>3. N \in Good
  <2>1. N \in 0..N
    OBVIOUS
  <2> QED BY <1>1, <1>2, <2>1, UpTo
<1> QED BY <1>3 DEF Good, Up, Follows

-----------------------------------------------------------------------------
(* Sums of the numbers a function has on a finite set.                        *)

\* g has the sum of f on every subset of S.
AddsUp(g, f, S) ==
    g = [T \in SUBSET S |-> IF T = {} THEN 0
                            ELSE f[CHOOSE x \in T : TRUE] + g[T \ {CHOOSE x \in T : TRUE}]]

\* A set with an element has one fewer without it.
LEMMA OneFewer ==
  ASSUME NEW S, IsFiniteSet(S), NEW T \in SUBSET S, NEW n \in Nat, Cardinality(T) <= n, NEW x \in T
  PROVE  n - 1 \in Nat /\ T \ {x} \in SUBSET S /\ Cardinality(T \ {x}) <= n - 1
<1>1. IsFiniteSet(T)
  BY FS_Subset
<1>2. IsFiniteSet(T \ {x}) /\ Cardinality(T \ {x}) = Cardinality(T) - 1
  BY <1>1, FS_RemoveElement
<1>3. Cardinality(T) \in Nat /\ Cardinality(T \ {x}) \in Nat
  BY <1>1, <1>2, FS_CardinalityType
<1> QED BY <1>2, <1>3

\* There is a function that adds up: iterated Cardinality(S) times, adding up the numbers
\* of sets with one fewer no longer changes a thing.
LEMMA SumExists ==
  ASSUME NEW S, IsFiniteSet(S), NEW f, \A i \in S : f[i] \in Int
  PROVE  \E g \in [SUBSET S -> Int] : AddsUp(g, f, S)
<1> DEFINE N == Cardinality(S) + 1
           G == [SUBSET S -> Int]
           Pick(T) == CHOOSE x \in T : TRUE
           Once(g) == [T \in SUBSET S |-> IF T = {} THEN 0 ELSE f[Pick(T)] + g[T \ {Pick(T)}]]
           F == [e \in (1..N) \X G |-> Once(e[2])]
           zero == [T \in SUBSET S |-> 0]
<1>1. Cardinality(S) \in Nat /\ N \in Nat /\ zero \in G
  BY FS_CardinalityType
<1>2. \A T \in SUBSET S : T # {} => Pick(T) \in T /\ T \ {Pick(T)} \in SUBSET S
  OBVIOUS
<1> HIDE DEF Pick
<1>3. ASSUME NEW g \in G PROVE Once(g) \in G
  <2>1. ASSUME NEW T \in SUBSET S, T # {} PROVE f[Pick(T)] + g[T \ {Pick(T)}] \in Int
    BY <1>2, <2>1
  <2> QED BY <2>1
<1>4. ASSUME NEW g \in G, NEW T \in SUBSET S
      PROVE  Once(g)[T] = IF T = {} THEN 0 ELSE f[Pick(T)] + g[T \ {Pick(T)}]
  OBVIOUS
<1> HIDE DEF G, Once
<1>5. Advances(F, N, G)
  BY <1>3 DEF Advances
<1> HIDE DEF N, zero
<1>6. PICK h : Follows(h, F, N, G, zero)
  BY <1>1, <1>5, Iteration
<1>7. ASSUME NEW n \in 1..N PROVE h[n] = Once(h[n - 1]) /\ h[n] \in G /\ h[n - 1] \in G
  <2>1. n - 1 \in 0..N /\ n \in 0..N
    BY <1>1
  <2>2. h[n - 1] \in G /\ h[n] \in G
    BY <1>6, <2>1 DEF Follows
  <2>3. F[<<n, h[n - 1]>>] = Once(h[n - 1])
    BY <2>2
  <2> HIDE DEF F
  <2> QED BY <1>6, <2>2, <2>3 DEF Follows
<1> HIDE DEF F
<1> DEFINE Good == {n \in 1..N : \A T \in SUBSET S : Cardinality(T) <= n - 1 => h[n][T] = h[n - 1][T]}
           Known == {n \in Nat : n + 1 \in Good}
<1>8. 0 \in Known
  <2>1. 1 \in 1..N
    BY <1>1 DEF N
  <2>2. ASSUME NEW T \in SUBSET S, Cardinality(T) <= 0 PROVE h[1][T] = h[0][T]
    <3>1. IsFiniteSet(T) /\ Cardinality(T) \in Nat
      BY FS_Subset, FS_CardinalityType
    <3>2. T = {}
      BY <2>2, <3>1, FS_EmptySet
    <3>3. h[0] = zero /\ zero[T] = 0
      BY <1>6 DEF Follows, zero
    <3>4. h[1] = Once(h[1 - 1]) /\ h[1 - 1] \in G
      BY <1>7, <2>1
    <3> QED BY <1>4, <3>2, <3>3, <3>4
  <2> QED BY <2>1, <2>2
<1>9. ASSUME NEW n \in 1..Cardinality(S), n - 1 \in Known PROVE n \in Known
  <2>1. n \in 1..N /\ n + 1 \in 1..N /\ (n + 1) - 1 = n /\ (n - 1) + 1 = n /\ n \in Nat
    BY <1>1 DEF N
  <2>2. /\ h[n + 1] = Once(h[n]) /\ h[n] = Once(h[n - 1])
        /\ h[n] \in G /\ h[n - 1] \in G
    BY <1>7, <2>1
  <2>3. ASSUME NEW T \in SUBSET S, Cardinality(T) <= n PROVE h[n + 1][T] = h[n][T]
    <3>1. CASE T = {}
      BY <1>4, <2>2, <3>1
    <3>2. CASE T # {}
      <4>1. Pick(T) \in T /\ T \ {Pick(T)} \in SUBSET S
        BY <1>2, <3>2
      <4>2. Cardinality(T \ {Pick(T)}) <= n - 1
        BY <2>1, <2>3, <4>1, OneFewer
      <4>3. n \in Good
        BY <1>9, <2>1
      <4>4. h[n][T \ {Pick(T)}] = h[n - 1][T \ {Pick(T)}]
        BY <4>1, <4>2, <4>3
      <4> QED BY <1>4, <2>2, <3>2, <4>4
    <3> QED BY <3>1, <3>2
  <2> QED BY <2>1, <2>3
<1>10. Cardinality(S) \in Known
  <2>1. \A n \in 0..Cardinality(S) : n \in Known
    <3> HIDE DEF Known
    <3> QED BY <1>1, <1>8, <1>9, UpTo
  <2> QED BY <1>1, <2>1
<1>11. /\ N \in 1..N /\ h[N] = Once(h[N - 1]) /\ h[N] \in G /\ h[N - 1] \in G
       /\ \A T \in SUBSET S : h[N][T] = h[N - 1][T]
  <2>1. N \in Good /\ N - 1 = Cardinality(S)
    BY <1>1, <1>10 DEF N
  <2>2. \A T \in SUBSET S : Cardinality(T) <= N - 1
    BY <2>1, FS_Subset
  <2> QED BY <1>7, <2>1, <2>2
<1> HIDE DEF Good, Known
<1>12. h[N] = h[N - 1]
  BY <1>11 DEF G
<1>13. h[N - 1] = Once(h[N - 1])
  BY <1>11, <1>12
<1> QED BY <1>11, <1>13 DEF AddsUp, G, Once, Pick

\* And there is one only.
LEMMA SumUnique ==
  ASSUME NEW S, IsFiniteSet(S), NEW f, NEW e, NEW g, NEW h, AddsUp(g, f, S),
         NEW R \in SUBSET S, AddsUp(h, e, R), \A i \in R : e[i] = f[i]
  PROVE  h[R] = g[R]
<1> DEFINE Good == {n \in Nat : \A T \in SUBSET R : Cardinality(T) <= n => h[T] = g[T]}
           Pick(T) == CHOOSE x \in T : TRUE
<1>1. IsFiniteSet(R) /\ Cardinality(R) \in Nat
  BY FS_Subset, FS_CardinalityType
<1>2. ASSUME NEW T \in SUBSET R
      PROVE  /\ g[T] = IF T = {} THEN 0 ELSE f[Pick(T)] + g[T \ {Pick(T)}]
             /\ h[T] = IF T = {} THEN 0 ELSE e[Pick(T)] + h[T \ {Pick(T)}]
             /\ T # {} => Pick(T) \in T
  BY DEF AddsUp
<1> HIDE DEF Pick
<1>3. 0 \in Good
  <2>1. ASSUME NEW T \in SUBSET R, Cardinality(T) <= 0 PROVE h[T] = g[T]
    <3>1. T = {}
      BY <1>1, <2>1, FS_Subset, FS_CardinalityType, FS_EmptySet
    <3> QED BY <1>2, <3>1
  <2> QED BY <2>1
<1>4. ASSUME NEW n \in 1..Cardinality(R), n - 1 \in Good PROVE n \in Good
  <2>1. n \in Nat
    OBVIOUS
  <2>2. ASSUME NEW T \in SUBSET R, Cardinality(T) <= n PROVE h[T] = g[T]
    <3>1. CASE T = {}
      BY <1>2, <3>1
    <3>2. CASE T # {}
      <4>1. Pick(T) \in T /\ Pick(T) \in R
        BY <1>2, <3>2
      <4>2. T \ {Pick(T)} \in SUBSET R /\ Cardinality(T \ {Pick(T)}) <= n - 1
        BY <1>1, <2>1, <2>2, <4>1, OneFewer
      <4>3. h[T \ {Pick(T)}] = g[T \ {Pick(T)}]
        BY <1>4, <4>2
      <4> QED BY <1>2, <3>2, <4>1, <4>3
    <3> QED BY <3>1, <3>2
  <2> QED BY <2>1, <2>2
<1>5. Cardinality(R) \in Good
  <2>1. \A n \in 0..Cardinality(R) : n \in Good
    <3> HIDE DEF Good
    <3> QED BY <1>1, <1>3, <1>4, UpTo
  <2> QED BY <1>1, <2>1
<1> QED BY <1>1, <1>5

\* SumFunctionOnSet adds up.
LEMMA SumAddsUp ==
  ASSUME NEW S, IsFiniteSet(S), NEW f, \A i \in S : f[i] \in Int
  PROVE  \E g \in [SUBSET S -> Int] : AddsUp(g, f, S) /\ SumFunctionOnSet(f, S) = g[S]
<1> DEFINE g == CHOOSE iter : AddsUp(iter, f, S)
<1>1. PICK h \in [SUBSET S -> Int] : AddsUp(h, f, S)
  BY SumExists
<1>2. AddsUp(g, f, S)
  BY <1>1
<1>3. SumFunctionOnSet(f, S) = g[S]
  BY Zenon DEF SumFunctionOnSet, FoldFunctionOnSet, MapThenFoldSet, AddsUp
<1> HIDE DEF g
<1>4. \A T \in SUBSET S : g[T] = h[T]
  <2> SUFFICES ASSUME NEW T \in SUBSET S PROVE g[T] = h[T]
    OBVIOUS
  <2> DEFINE k == [U \in SUBSET T |-> h[U]]
  <2>1. IsFiniteSet(T)
    BY FS_Subset
  <2>2. AddsUp(k, f, T)
    <3>1. \A U \in SUBSET T : U # {} => U \ {CHOOSE x \in U : TRUE} \in SUBSET T
      OBVIOUS
    <3>2. \A U \in SUBSET T : U \in SUBSET S
      OBVIOUS
    <3> QED BY <1>1, <3>1, <3>2 DEF AddsUp
  <2>3. k[T] = h[T]
    OBVIOUS
  <2> HIDE DEF k
  <2>4. k[T] = g[T]
    BY <1>2, <2>2, SumUnique
  <2> QED BY <2>3, <2>4
<1>5. g = h
  BY <1>1, <1>2, <1>4 DEF AddsUp
<1> QED BY <1>1, <1>2, <1>3, <1>5

\* The sum is an integer, 0 on the empty set, and depends on the numbers of the set only.
LEMMA SumFacts ==
  ASSUME NEW S, IsFiniteSet(S), NEW f, \A i \in S : f[i] \in Int
  PROVE  /\ SumFunctionOnSet(f, S) \in Int
         /\ S = {} => SumFunctionOnSet(f, S) = 0
         /\ \A e : (\A i \in S : e[i] = f[i]) => SumFunctionOnSet(e, S) = SumFunctionOnSet(f, S)
<1>1. PICK g \in [SUBSET S -> Int] : AddsUp(g, f, S) /\ SumFunctionOnSet(f, S) = g[S]
  BY SumAddsUp
<1>2. S = {} => g[S] = 0
  BY <1>1 DEF AddsUp
<1>3. ASSUME NEW e, \A i \in S : e[i] = f[i]
      PROVE  SumFunctionOnSet(e, S) = SumFunctionOnSet(f, S)
  <2>1. \A i \in S : e[i] \in Int
    BY <1>3
  <2>2. PICK h \in [SUBSET S -> Int] : AddsUp(h, e, S) /\ SumFunctionOnSet(e, S) = h[S]
    BY <2>1, SumAddsUp
  <2>3. h[S] = g[S]
    BY <1>1, <1>3, <2>2, SumUnique
  <2> QED BY <1>1, <2>2, <2>3
<1> QED BY <1>1, <1>2, <1>3

\* Whichever element is taken out first, the sum is its number and the sum of the rest.
LEMMA SumTakes ==
  ASSUME NEW S, IsFiniteSet(S), NEW f, \A i \in S : f[i] \in Int, NEW z \in S
  PROVE  SumFunctionOnSet(f, S) = f[z] + SumFunctionOnSet(f, S \ {z})
<1>1. PICK g \in [SUBSET S -> Int] : AddsUp(g, f, S) /\ SumFunctionOnSet(f, S) = g[S]
  BY SumAddsUp
<1>2. SumFunctionOnSet(f, S \ {z}) = g[S \ {z}]
  <2>1. IsFiniteSet(S \ {z}) /\ S \ {z} \in SUBSET S
    BY FS_Subset
  <2>2. PICK h \in [SUBSET (S \ {z}) -> Int] : AddsUp(h, f, S \ {z})
                                   /\ SumFunctionOnSet(f, S \ {z}) = h[S \ {z}]
    BY <2>1, SumAddsUp
  <2> QED BY <1>1, <2>1, <2>2, SumUnique
<1> DEFINE Pick(T) == CHOOSE x \in T : TRUE
           Good == {n \in Nat : \A T \in SUBSET S : Cardinality(T) <= n =>
                                  \A x \in T : g[T] = f[x] + g[T \ {x}]}
<1>3. ASSUME NEW T \in SUBSET S, T # {}
      PROVE  Pick(T) \in T /\ g[T] = f[Pick(T)] + g[T \ {Pick(T)}]
  BY <1>1, <1>3 DEF AddsUp
<1> HIDE DEF Pick
<1>4. \A T \in SUBSET S : g[T] \in Int
  OBVIOUS
<1>5. Cardinality(S) \in Nat
  BY FS_CardinalityType
<1>6. 0 \in Good
  <2>1. ASSUME NEW T \in SUBSET S, Cardinality(T) <= 0 PROVE T = {}
    BY <2>1, FS_Subset, FS_CardinalityType, FS_EmptySet
  <2> QED BY <2>1
<1>7. ASSUME NEW n \in 1..Cardinality(S), n - 1 \in Good PROVE n \in Good
  <2>1. n \in Nat
    OBVIOUS
  <2>2. ASSUME NEW T \in SUBSET S, Cardinality(T) <= n, NEW x \in T
        PROVE  g[T] = f[x] + g[T \ {x}]
    <3> DEFINE y == Pick(T)
    <3>1. y \in T /\ g[T] = f[y] + g[T \ {y}]
      BY <1>3
    <3> HIDE DEF y
    <3>2. CASE x = y
      BY <3>1, <3>2
    <3>3. CASE x # y
      <4>1. /\ T \ {x} \in SUBSET S /\ Cardinality(T \ {x}) <= n - 1
            /\ T \ {y} \in SUBSET S /\ Cardinality(T \ {y}) <= n - 1
            /\ (T \ {x}) \ {y} = (T \ {y}) \ {x} /\ (T \ {x}) \ {y} \in SUBSET S
            /\ y \in T \ {x} /\ x \in T \ {y}
        BY <2>1, <2>2, <3>1, <3>3, OneFewer
      <4>2. g[T \ {x}] = f[y] + g[(T \ {x}) \ {y}] /\ g[T \ {y}] = f[x] + g[(T \ {y}) \ {x}]
        BY <1>7, <4>1
      <4>3. /\ g[T \ {x}] \in Int /\ g[T \ {y}] \in Int /\ g[(T \ {x}) \ {y}] \in Int
            /\ f[x] \in Int /\ f[y] \in Int
        BY <1>4, <3>1, <4>1
      <4>4. PICK a \in Int, b \in Int, r \in Int :
              a = g[T \ {x}] /\ b = g[T \ {y}] /\ r = g[(T \ {x}) \ {y}]
        BY <4>3
      <4>5. a = f[y] + r /\ b = f[x] + r
        BY <4>1, <4>2, <4>4
      <4>6. g[T] = f[y] + b
        BY <3>1, <4>4
      <4>7. g[T] = f[x] + a
        BY <4>3, <4>5, <4>6
      <4> QED BY <4>4, <4>7
    <3> QED BY <3>2, <3>3
  <2> HIDE DEF Pick
  <2> QED BY <2>1, <2>2
<1>8. Cardinality(S) \in Good
  <2>1. \A n \in 0..Cardinality(S) : n \in Good
    <3> HIDE DEF Good
    <3> QED BY <1>5, <1>6, <1>7, UpTo
  <2> QED BY <1>5, <2>1
<1>9. g[S] = f[z] + g[S \ {z}]
  BY <1>5, <1>8
<1> QED BY <1>1, <1>2, <1>9

\* A sum of numbers between 0 and b is between 0 and b times their number.
LEMMA SumBound ==
  ASSUME NEW S, IsFiniteSet(S), NEW b \in Nat, NEW f, \A i \in S : f[i] \in 0..b
  PROVE  SumFunctionOnSet(f, S) \in 0..(b * Cardinality(S))
<1> DEFINE Good == {n \in Nat : \A T \in SUBSET S : Cardinality(T) = n =>
                                  SumFunctionOnSet(f, T) \in 0..(b * n)}
<1>1. Cardinality(S) \in Nat
  BY FS_CardinalityType
<1>2. ASSUME NEW T \in SUBSET S
      PROVE  /\ IsFiniteSet(T) /\ Cardinality(T) \in Nat
             /\ SumFunctionOnSet(f, T) \in Int
             /\ T = {} => SumFunctionOnSet(f, T) = 0
             /\ \A z \in T : SumFunctionOnSet(f, T) = f[z] + SumFunctionOnSet(f, T \ {z})
  <2>1. IsFiniteSet(T) /\ \A i \in T : f[i] \in Int
    BY FS_Subset
  <2> QED BY <2>1, FS_CardinalityType, SumFacts, SumTakes
<1>3. 0 \in Good
  <2>1. ASSUME NEW T \in SUBSET S, Cardinality(T) = 0 PROVE SumFunctionOnSet(f, T) = 0
    BY <1>2, <2>1, FS_EmptySet
  <2> QED BY <2>1
<1>4. ASSUME NEW n \in 1..Cardinality(S), n - 1 \in Good PROVE n \in Good
  <2>1. n \in Nat /\ n - 1 \in Nat
    OBVIOUS
  <2>2. ASSUME NEW T \in SUBSET S, Cardinality(T) = n PROVE SumFunctionOnSet(f, T) \in 0..(b * n)
    <3>1. PICK z \in T : TRUE
      <4>1. T # {}
        BY <2>2, FS_EmptySet
      <4> QED BY <4>1
    <3>2. T \ {z} \in SUBSET S /\ Cardinality(T \ {z}) = n - 1
      BY <1>2, <2>2, <3>1, FS_RemoveElement
    <3>3. SumFunctionOnSet(f, T \ {z}) \in 0..(b * (n - 1))
      BY <1>4, <3>2
    <3>4. SumFunctionOnSet(f, T) = f[z] + SumFunctionOnSet(f, T \ {z}) /\ f[z] \in 0..b
      BY <1>2, <3>1
    <3>5. PICK s \in Int : s = SumFunctionOnSet(f, T \ {z})
      BY <3>3
    <3>6. b * n = b * (n - 1) + b /\ b * n \in Nat /\ b * (n - 1) \in Nat
      BY <2>1
    <3> QED BY <3>3, <3>4, <3>5, <3>6
  <2> QED BY <2>1, <2>2
<1>5. Cardinality(S) \in Good
  <2>1. \A n \in 0..Cardinality(S) : n \in Good
    <3> HIDE DEF Good
    <3> QED BY <1>1, <1>3, <1>4, UpTo
  <2> QED BY <1>1, <2>1
<1> QED BY <1>5

=============================================================================
