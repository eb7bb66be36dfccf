---------------------------- MODULE NoRepeatSeqs ----------------------------
(***************************************************************************)
(* Sequences without repetition: what the operations that a queue of       *)
(* distinct tasks goes through preserve, and which elements they leave.    *)
(***************************************************************************)
EXTENDS Integers, Sequences, SequencesExt, TLAPS

\* t lists the elements that s has at the places K, at[i] being the place of
\* the i-th.
Selects(s, t, K, at) ==
    /\ K \subseteq 1..Len(s) /\ at \in [1..Len(t) -> K]
    /\ \A i, j \in 1..Len(t) : at[i] = at[j] => i = j
    /\ \A k \in K : \E i \in 1..Len(t) : at[i] = k
    /\ \A i \in 1..Len(t) : t[i] = s[at[i]]

\* A selection from a sequence without repetition has none, and its elements
\* are those at the places K.
LEMMA Selection ==
    ASSUME NEW S, NEW s \in Seq(S), NEW t \in Seq(S), NEW K, NEW at,
           IsInjective(s), Selects(s, t, K, at)
    PROVE  IsInjective(t) /\ Range(t) = {s[k] : k \in K}
<1> USE DEF Selects
<1>1. DOMAIN s = 1..Len(s) /\ DOMAIN t = 1..Len(t)
  OBVIOUS
<1>2. ASSUME NEW i \in 1..Len(t) PROVE at[i] \in K /\ at[i] \in DOMAIN s
  <2>1. at[i] \in K
    OBVIOUS
  <2> QED BY <1>1, <2>1
<1>a. IsInjective(t)
  <2> SUFFICES ASSUME NEW i \in 1..Len(t), NEW j \in 1..Len(t), t[i] = t[j]
               PROVE  i = j
    BY <1>1 DEF IsInjective
  <2>1. s[at[i]] = s[at[j]]
    OBVIOUS
  <2>2. at[i] = at[j]
    BY <1>2, <2>1 DEF IsInjective
  <2> QED BY <2>2
<1>3. ASSUME NEW x \in Range(t) PROVE x \in {s[k] : k \in K}
  <2>1. PICK i \in 1..Len(t) : x = t[i]
    BY <1>1 DEF Range
  <2>2. x = s[at[i]]
    BY <2>1
  <2> QED BY <1>2, <2>2
<1>4. ASSUME NEW k \in K PROVE s[k] \in Range(t)
  BY <1>1 DEF Range
<1> QED BY <1>a, <1>3, <1>4

\* The elements of a concatenation.
LEMMA Concatenation ==
    ASSUME NEW S, NEW s \in Seq(S), NEW u \in Seq(S)
    PROVE  /\ s \o u \in Seq(S) /\ Len(s \o u) = Len(s) + Len(u)
           /\ \A i \in 1..Len(s) : (s \o u)[i] = s[i]
           /\ \A i \in 1..Len(u) : (s \o u)[Len(s) + i] = u[i]
OBVIOUS

\* push_back of an element that is not in the deque.
LEMMA AppendNoRepeat ==
    ASSUME NEW S, NEW s \in Seq(S), NEW e \in S, IsInjective(s), e \notin Range(s)
    PROVE  /\ Append(s, e) \in Seq(S)
           /\ IsInjective(Append(s, e))
           /\ Range(Append(s, e)) = Range(s) \cup {e}
<1> DEFINE t == Append(s, e)
<1>1. /\ t \in Seq(S) /\ DOMAIN t = 1..(Len(s) + 1) /\ Len(s) \in Nat
      /\ DOMAIN s = 1..Len(s)
      /\ \A i \in 1..Len(s) : t[i] = s[i]
      /\ t[Len(s) + 1] = e
  OBVIOUS
<1> HIDE DEF t
<1>2. IsInjective(t)
  BY <1>1 DEF IsInjective, Range
<1>3. Range(t) = Range(s) \cup {e}
  <2>1. ASSUME NEW x \in Range(t) PROVE x \in Range(s) \cup {e}
    BY <1>1 DEF Range
  <2>2. ASSUME NEW x \in Range(s) PROVE x \in Range(t)
    BY <1>1 DEF Range
  <2>3. e \in Range(t)
    BY <1>1 DEF Range
  <2> QED BY <2>1, <2>2, <2>3
<1> QED BY <1>1, <1>2, <1>3 DEF t

\* Erasing one element, by erase(remove_if(...)): the later ones move up.
LEMMA RemoveAtPlaces ==
    ASSUME NEW S, NEW s \in Seq(S), NEW k \in 1..Len(s)
    PROVE  /\ RemoveAt(s, k) \in Seq(S) /\ Len(RemoveAt(s, k)) = Len(s) - 1
           /\ \A i \in 1..(Len(s) - 1) : RemoveAt(s, k)[i] = s[IF i < k THEN i ELSE i + 1]
<1> DEFINE a == SubSeq(s, 1, k - 1)
           b == SubSeq(s, k + 1, Len(s))
           t == a \o b
<1>1. Len(s) \in Nat /\ DOMAIN s = 1..Len(s) /\ \A i \in 1..Len(s) : s[i] \in S
  OBVIOUS
<1>2. a \in Seq(S) /\ Len(a) = k - 1 /\ \A i \in 1..(k - 1) : a[i] = s[i]
  OBVIOUS
<1>3. b \in Seq(S) /\ Len(b) = Len(s) - k /\ \A i \in 1..(Len(s) - k) : b[i] = s[k + i]
  OBVIOUS
<1>4. RemoveAt(s, k) = t
  BY DEF RemoveAt
<1> HIDE DEF a, b
<1>5. /\ t \in Seq(S) /\ Len(t) = Len(a) + Len(b)
      /\ \A i \in 1..Len(a) : t[i] = a[i]
      /\ \A i \in 1..Len(b) : t[Len(a) + i] = b[i]
  <2>1. a \in Seq(S) /\ b \in Seq(S)
    BY <1>2, <1>3
  <2> QED BY <2>1, Concatenation
<1> HIDE DEF t
<1>6. ASSUME NEW i \in 1..(Len(s) - 1) PROVE t[i] = s[IF i < k THEN i ELSE i + 1]
  <2>1. CASE i < k
    BY <1>1, <1>2, <1>5, <2>1
  <2>2. CASE i >= k
    <3>1. /\ i - (k - 1) \in 1..(Len(s) - k) /\ k + (i - (k - 1)) = i + 1
          /\ Len(a) + (i - (k - 1)) = i
      BY <1>1, <1>2, <2>2
    <3>2. t[i] = b[i - (k - 1)]
      BY <1>3, <1>5, <3>1
    <3> QED BY <1>3, <2>2, <3>1, <3>2
  <2> QED BY <1>1, <2>1, <2>2
<1>7. Len(t) = Len(s) - 1
  BY <1>1, <1>2, <1>3, <1>5
<1> QED BY <1>4, <1>5, <1>6, <1>7

\* Nothing is listed twice after it.
LEMMA RemoveAtNoRepeat ==
    ASSUME NEW S, NEW s \in Seq(S), NEW k \in 1..Len(s), IsInjective(s)
    PROVE  /\ RemoveAt(s, k) \in Seq(S)
           /\ IsInjective(RemoveAt(s, k))
           /\ Range(RemoveAt(s, k)) = Range(s) \ {s[k]}
<1> DEFINE t == RemoveAt(s, k)
<1>1. Len(s) \in Nat /\ DOMAIN s = 1..Len(s) /\ \A i \in 1..Len(s) : s[i] \in S
  OBVIOUS
<1>4. /\ t \in Seq(S) /\ Len(t) = Len(s) - 1
      /\ \A i \in 1..(Len(s) - 1) : t[i] = s[IF i < k THEN i ELSE i + 1]
  BY RemoveAtPlaces
<1> HIDE DEF t
<1> DEFINE K == (1..Len(s)) \ {k}
           at == [i \in 1..Len(t) |-> IF i < k THEN i ELSE i + 1]
<1>5. ASSUME NEW i \in 1..Len(t) PROVE at[i] \in K
  BY <1>1, <1>4
<1>a. at \in [1..Len(t) -> K]
  BY <1>5
<1>b. ASSUME NEW i \in 1..Len(t), NEW j \in 1..Len(t), at[i] = at[j] PROVE i = j
  BY <1>1, <1>4, <1>b
<1>6. ASSUME NEW i \in 1..Len(t) PROVE t[i] = s[at[i]]
  BY <1>4
<1>7. ASSUME NEW j \in K PROVE \E i \in 1..Len(t) : at[i] = j
  <2>1. CASE j < k
    <3>1. j \in 1..Len(t) /\ at[j] = j
      BY <1>1, <1>4, <2>1
    <3> QED BY <3>1
  <2>2. CASE j > k
    <3>1. j - 1 \in 1..Len(t) /\ at[j - 1] = j
      BY <1>1, <1>4, <2>2
    <3> QED BY <3>1
  <2> QED BY <1>1, <2>1, <2>2
<1>8. IsInjective(t) /\ Range(t) = {s[j] : j \in K}
  <2>1. K \subseteq 1..Len(s)
    OBVIOUS
  <2> HIDE DEF at, K
  <2>3. Selects(s, t, K, at)
    BY <1>4, <1>6, <1>7, <1>a, <1>b, <2>1 DEF Selects
  <2> QED BY <1>4, <2>3, Selection
<1>9. Range(t) = Range(s) \ {s[k]}
  BY <1>1, <1>8 DEF Range, IsInjective
<1> QED BY <1>4, <1>8, <1>9 DEF t

\* A bijection of 1..Len(s) is a permutation of the places of s.
LEMMA ReorderingFacts ==
    ASSUME NEW S, NEW s \in Seq(S), NEW p \in Bijection(1..Len(s), 1..Len(s))
    PROVE  /\ p \in [1..Len(s) -> 1..Len(s)]
           /\ \A i, j \in 1..Len(s) : p[i] = p[j] => i = j
           /\ \A j \in 1..Len(s) : \E i \in 1..Len(s) : p[i] = j
<1>1. DOMAIN s = 1..Len(s)
  OBVIOUS
<1> QED BY <1>1 DEF Bijection, Injection, Surjection, IsInjective

\* s in the order given by p, and all but the first element of it.
Permuted(s, p) == [i \in 1..Len(s) |-> s[p[i]]]
PermutedTail(s, p) == [i \in 1..(Len(s) - 1) |-> s[p[i + 1]]]

\* Taking the first element of a sorted deque.
LEMMA FetchNoRepeat ==
    ASSUME NEW S, NEW s \in Seq(S), s # <<>>, IsInjective(s),
           NEW p \in Bijection(1..Len(s), 1..Len(s))
    PROVE  /\ PermutedTail(s, p) \in Seq(S) /\ IsInjective(PermutedTail(s, p))
           /\ s[p[1]] \in Range(s)
           /\ Range(PermutedTail(s, p)) = Range(s) \ {s[p[1]]}
<1> DEFINE t == PermutedTail(s, p)
<1>1. /\ Len(s) \in Nat /\ Len(s) > 0 /\ DOMAIN s = 1..Len(s)
      /\ \A i \in 1..Len(s) : s[i] \in S
  OBVIOUS
<1>2. /\ p \in [1..Len(s) -> 1..Len(s)]
      /\ \A i, j \in 1..Len(s) : p[i] = p[j] => i = j
      /\ \A j \in 1..Len(s) : \E i \in 1..Len(s) : p[i] = j
  BY ReorderingFacts
<1>3. ASSUME NEW i \in 1..(Len(s) - 1)
      PROVE  i + 1 \in 1..Len(s) /\ p[i + 1] \in 1..Len(s) /\ s[p[i + 1]] \in S
  <2>1. i + 1 \in 1..Len(s)
    BY <1>1
  <2> QED BY <1>1, <1>2, <2>1
<1>4. t \in Seq(S) /\ Len(t) = Len(s) - 1
  BY <1>1, <1>3 DEF PermutedTail
<1>b. \A i \in 1..Len(t) : t[i] = s[p[i + 1]]
  BY <1>4 DEF PermutedTail
<1> HIDE DEF t
<1>a. 1 \in 1..Len(s) /\ p[1] \in 1..Len(s)
  <2>1. 1 \in 1..Len(s)
    BY <1>1
  <2> QED BY <1>2, <2>1
<1> DEFINE K == (1..Len(s)) \ {p[1]}
           at == [i \in 1..Len(t) |-> p[i + 1]]
<1>5. ASSUME NEW i \in 1..Len(t) PROVE at[i] \in K /\ t[i] = s[at[i]]
  <2>1. i \in 1..(Len(s) - 1) /\ i + 1 # 1
    BY <1>1, <1>4
  <2>2. p[i + 1] # p[1]
    BY <1>2, <1>3, <1>a, <2>1
  <2> QED BY <1>3, <1>b, <2>1, <2>2
<1>6. ASSUME NEW i \in 1..Len(t), NEW j \in 1..Len(t), at[i] = at[j] PROVE i = j
  <2>1. i \in 1..(Len(s) - 1) /\ j \in 1..(Len(s) - 1)
    BY <1>4
  <2>2. i + 1 = j + 1
    BY <1>2, <1>3, <1>6, <2>1
  <2> QED BY <1>1, <2>1, <2>2
<1>7. ASSUME NEW k \in K PROVE \E i \in 1..Len(t) : at[i] = k
  <2>1. PICK i \in 1..Len(s) : p[i] = k
    BY <1>2
  <2>2. i - 1 \in 1..Len(t) /\ (i - 1) + 1 = i
    BY <1>1, <1>4, <2>1
  <2>3. at[i - 1] = k
    BY <2>1, <2>2
  <2> QED BY <2>2, <2>3
<1>8. IsInjective(t) /\ Range(t) = {s[k] : k \in K}
  <2>1. at \in [1..Len(t) -> K]
    BY <1>5
  <2>2. K \subseteq 1..Len(s) /\ \A i \in 1..Len(t) : t[i] = s[at[i]]
    BY <1>5
  <2> HIDE DEF at, K
  <2>3. Selects(s, t, K, at)
    BY <1>4, <1>6, <1>7, <2>1, <2>2 DEF Selects
  <2> QED BY <1>4, <2>3, Selection
<1>9. {s[k] : k \in K} = Range(s) \ {s[p[1]]}
  BY <1>1, <1>a DEF Range, IsInjective
<1>10. Range(t) = Range(s) \ {s[p[1]]} /\ s[p[1]] \in Range(s)
  BY <1>1, <1>8, <1>9, <1>a DEF Range
<1> QED BY <1>4, <1>8, <1>10 DEF t

\* Appending a sequence that shares no element.
LEMMA JoinNoRepeat ==
    ASSUME NEW S, NEW s \in Seq(S), NEW v \in Seq(S), IsInjective(s), IsInjective(v),
           Range(s) \cap Range(v) = {}
    PROVE  /\ s \o v \in Seq(S) /\ IsInjective(s \o v)
           /\ Range(s \o v) = Range(s) \cup Range(v)
<1> DEFINE t == s \o v
<1>1. Len(s) \in Nat /\ DOMAIN s = 1..Len(s) /\ DOMAIN v = 1..Len(v) /\ Len(v) \in Nat
  OBVIOUS
<1>2. /\ t \in Seq(S) /\ Len(t) = Len(s) + Len(v) /\ DOMAIN t = 1..Len(t)
      /\ \A i \in 1..Len(s) : t[i] = s[i]
      /\ \A i \in 1..Len(v) : t[Len(s) + i] = v[i]
  BY <1>1
<1> HIDE DEF t
<1>3. ASSUME NEW i \in 1..Len(t)
      PROVE  \/ i \in 1..Len(s) /\ t[i] = s[i] /\ t[i] \in Range(s)
             \/ i - Len(s) \in 1..Len(v) /\ t[i] = v[i - Len(s)] /\ t[i] \in Range(v)
  <2>1. CASE i <= Len(s)
    BY <1>1, <1>2, <2>1 DEF Range
  <2>2. CASE i > Len(s)
    <3>1. i - Len(s) \in 1..Len(v) /\ Len(s) + (i - Len(s)) = i
      BY <1>1, <1>2, <2>2
    <3>2. t[i] = v[i - Len(s)]
      BY <1>2, <3>1
    <3>3. v[i - Len(s)] \in Range(v)
      BY <1>1, <3>1 DEF Range
    <3> QED BY <3>1, <3>2, <3>3
  <2> QED BY <1>1, <1>2, <2>1, <2>2
<1>4. IsInjective(t)
  <2> SUFFICES ASSUME NEW i \in 1..Len(t), NEW j \in 1..Len(t), t[i] = t[j]
               PROVE  i = j
    BY <1>2 DEF IsInjective
  <2>1. CASE i \in 1..Len(s) /\ t[i] = s[i] /\ t[i] \in Range(s)
    <3>1. j \in 1..Len(s) /\ t[j] = s[j]
      BY <1>3, <2>1
    <3> QED BY <1>1, <2>1, <3>1 DEF IsInjective
  <2>2. CASE i - Len(s) \in 1..Len(v) /\ t[i] = v[i - Len(s)] /\ t[i] \in Range(v)
    <3>1. j - Len(s) \in 1..Len(v) /\ t[j] = v[j - Len(s)]
      BY <1>3, <2>2
    <3>2. i - Len(s) = j - Len(s)
      BY <1>1, <2>2, <3>1 DEF IsInjective
    <3> QED BY <1>1, <3>2
  <2> QED BY <1>3, <2>1, <2>2
<1>5. Range(t) \subseteq Range(s) \cup Range(v)
  BY <1>2, <1>3 DEF Range
<1>6. ASSUME NEW x \in Range(s) PROVE x \in Range(t)
  BY <1>1, <1>2 DEF Range
<1>7. ASSUME NEW x \in Range(v) PROVE x \in Range(t)
  <2>1. PICK i \in 1..Len(v) : x = v[i]
    BY <1>1 DEF Range
  <2>2. Len(s) + i \in 1..Len(t) /\ t[Len(s) + i] = x
    BY <1>1, <1>2, <2>1
  <2> QED BY <1>2, <2>2 DEF Range
<1> QED BY <1>2, <1>4, <1>5, <1>6, <1>7 DEF t

\* Moving the lockless queue to the end of the deque, in any order.
LEMMA DequeueNoRepeat ==
    ASSUME NEW S, NEW s \in Seq(S), NEW u \in Seq(S), IsInjective(s), IsInjective(u),
           Range(s) \cap Range(u) = {}, NEW p \in Bijection(1..Len(u), 1..Len(u))
    PROVE  /\ s \o Permuted(u, p) \in Seq(S) /\ IsInjective(s \o Permuted(u, p))
           /\ Range(s \o Permuted(u, p)) = Range(s) \cup Range(u)
<1> DEFINE v == Permuted(u, p)
<1>1. /\ Len(u) \in Nat /\ DOMAIN u = 1..Len(u) /\ \A i \in 1..Len(u) : u[i] \in S
      /\ Len(s) \in Nat /\ DOMAIN s = 1..Len(s)
  OBVIOUS
<1>2. /\ p \in [1..Len(u) -> 1..Len(u)]
      /\ \A i, j \in 1..Len(u) : p[i] = p[j] => i = j
      /\ \A j \in 1..Len(u) : \E i \in 1..Len(u) : p[i] = j
  BY ReorderingFacts
<1>4. v \in Seq(S) /\ Len(v) = Len(u) /\ \A i \in 1..Len(u) : v[i] = u[p[i]]
  <2>1. ASSUME NEW i \in 1..Len(u) PROVE u[p[i]] \in S
    BY <1>1, <1>2
  <2> QED BY <1>1, <2>1 DEF Permuted
<1>5. IsInjective(v) /\ Range(v) = {u[j] : j \in 1..Len(u)}
  <2> HIDE DEF v
  <2>1. /\ p \in [1..Len(v) -> 1..Len(u)]
        /\ \A i, j \in 1..Len(v) : p[i] = p[j] => i = j
        /\ \A j \in 1..Len(u) : \E i \in 1..Len(v) : p[i] = j
        /\ \A i \in 1..Len(v) : v[i] = u[p[i]]
    BY <1>2, <1>4
  <2>2. 1..Len(u) \subseteq 1..Len(u)
    OBVIOUS
  <2>3. Selects(u, v, 1..Len(u), p)
    BY <2>1, <2>2 DEF Selects
  <2> QED BY <1>4, <2>3, Selection
<1>6. Range(v) = Range(u)
  BY <1>1, <1>5 DEF Range
<1> HIDE DEF v
<1> QED BY <1>4, <1>5, <1>6, JoinNoRepeat DEF v
=============================================================================
