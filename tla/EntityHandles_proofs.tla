------------------------ MODULE EntityHandles_proofs ------------------------
(***************************************************************************)
(* The registry hands out every id once and recognises old handles, for    *)
(* every number of versions, every batch and every order of calls.         *)
(***************************************************************************)
EXTENDS EntityHandles, NoRepeatSeqs, FiniteSetTheorems, TLAPS

\* The version of an entry is that of any of its handles plus the frees since
\* the handle was made; handles nothing was freed since are in use.
AgeInv ==
    \A h \in DOMAIN age :
        /\ h.id \in DOMAIN entries
        /\ age[h] < TransientVersion =>
              entries[h.id].version = VersionAfter(h.version, age[h])
        /\ age[h] = 0 <=> h \in live

IInv == TypeOK /\ IdsPartitioned /\ AgeInv

-----------------------------------------------------------------------------
(* Versions.                                                               *)

\* The values of % that occur.
LEMMA ModFacts ==
    ASSUME NEW T \in Nat \ {0}, NEW x \in Nat, x < T + T
    PROVE  x % T = IF x < T THEN x ELSE x - T
<1>1. CASE x < T
  BY <1>1
<1>2. CASE x >= T
  BY <1>2
<1> QED BY <1>1, <1>2

\* A version stays a version, differs after fewer than TransientVersion frees,
\* and one more free is one more step.
LEMMA VersionFacts ==
    ASSUME NEW v \in Versions, NEW a \in 0..(TransientVersion - 1)
    PROVE  /\ VersionAfter(v, a) \in Versions
           /\ VersionAfter(v, 0) = v
           /\ a # 0 => VersionAfter(v, a) # v
           /\ a + 1 < TransientVersion =>
                 VersionAfter(VersionAfter(v, a), 1) = VersionAfter(v, a + 1)
           /\ VersionAfter(v, 1) \in Versions
<1> DEFINE T == TransientVersion
           mod(x) == x % TransientVersion
<1>1. T \in Nat \ {0} /\ v \in Nat /\ v < T /\ a \in Nat /\ a < T
  BY RegistryAssumption DEF Versions
<1>2. \A x \in Nat : x < T + T => mod(x) = IF x < T THEN x ELSE x - T
  BY <1>1, ModFacts
<1>3. \A w, k : VersionAfter(w, k) = mod(w + k)
  BY DEF VersionAfter
<1>4. Versions = 0..(T - 1)
  BY DEF Versions
<1> HIDE DEF T, mod
<1>5. mod(v + a) = (IF v + a < T THEN v + a ELSE v + a - T) /\ mod(v + 0) = v
  BY <1>1, <1>2
<1>6. mod(v + 1) = IF v + 1 < T THEN v + 1 ELSE v + 1 - T
  BY <1>1, <1>2
<1>7. mod(mod(v + a) + 1) = IF mod(v + a) + 1 < T THEN mod(v + a) + 1 ELSE mod(v + a) + 1 - T
  BY <1>1, <1>2, <1>5
<1>8. a + 1 < T => mod(v + (a + 1)) = IF v + a + 1 < T THEN v + a + 1 ELSE v + a + 1 - T
  BY <1>1, <1>2
<1>9. /\ mod(v + a) \in 0..(T - 1) /\ mod(v + 1) \in 0..(T - 1)
      /\ a # 0 => mod(v + a) # v
      /\ a + 1 < T => mod(mod(v + a) + 1) = mod(v + (a + 1))
  BY <1>1, <1>5, <1>6, <1>7, <1>8
<1> QED BY <1>3, <1>4, <1>5, <1>9 DEF T

-----------------------------------------------------------------------------
(* new_entities                                                            *)

\* What new_entities does to the table and the free list.
LEMMA GrowFacts ==
    ASSUME TypeOK, NEW n \in Nat
    PROVE  /\ Recycled(n) \in 0..Len(freeEntries) /\ Recycled(n) <= n
           /\ EntriesGrown(n) \in Seq(Entries)
           /\ Len(EntriesGrown(n)) = Len(entries) + n - Recycled(n)
           /\ \A id \in 1..Len(entries) : EntriesGrown(n)[id] = entries[id]
           /\ \A id \in 1..Len(EntriesGrown(n)) : EntriesGrown(n)[id] \in Entries
           /\ FreeCut(n) \in Seq(1..Len(entries))
           /\ Len(FreeCut(n)) = Len(freeEntries) - Recycled(n)
           /\ \A i \in 1..Len(FreeCut(n)) : FreeCut(n)[i] = freeEntries[i]
<1> DEFINE more == [j \in 1..(n - Recycled(n)) |-> NewEntry]
<1>1. /\ entries \in Seq(Entries) /\ freeEntries \in Seq(1..Len(entries))
      /\ Len(entries) \in Nat /\ Len(freeEntries) \in Nat
  BY DEF TypeOK
<1>2. Recycled(n) \in 0..Len(freeEntries) /\ Recycled(n) <= n /\ Recycled(n) \in Nat
  BY <1>1 DEF Recycled
<1>3. more \in Seq(Entries) /\ Len(more) = n - Recycled(n)
  <2>1. NewEntry \in Entries
    BY RegistryAssumption DEF NewEntry, Entries, Versions
  <2> QED BY <1>2, <2>1
<1>4. /\ EntriesGrown(n) \in Seq(Entries)
      /\ Len(EntriesGrown(n)) = Len(entries) + Len(more)
      /\ \A id \in 1..Len(entries) : EntriesGrown(n)[id] = entries[id]
  BY <1>1, <1>3, Concatenation DEF EntriesGrown
<1>5. \A id \in 1..Len(EntriesGrown(n)) : EntriesGrown(n)[id] \in Entries
  <2>1. ASSUME NEW S, NEW s \in Seq(S) PROVE \A i \in 1..Len(s) : s[i] \in S
    OBVIOUS
  <2> QED BY <1>4, <2>1
<1>6. /\ FreeCut(n) \in Seq(1..Len(entries))
      /\ Len(FreeCut(n)) = Len(freeEntries) - Recycled(n)
      /\ \A i \in 1..Len(FreeCut(n)) : FreeCut(n)[i] = freeEntries[i]
  BY <1>1, <1>2 DEF FreeCut
<1> QED BY <1>1, <1>2, <1>3, <1>4, <1>5, <1>6

\* The new ids are different, and neither in use nor left in the free list.
LEMMA NewIdFacts ==
    ASSUME TypeOK, IdsPartitioned, NEW n \in Nat
    PROVE  /\ \A j \in 1..n : NewId(n, j) \in 1..Len(EntriesGrown(n))
           /\ \A i, j \in 1..n : NewId(n, i) = NewId(n, j) => i = j
           /\ \A j \in 1..n : \A h \in live : h.id # NewId(n, j)
           /\ \A j \in 1..n : NewId(n, j) \notin Range(FreeCut(n))
           /\ \A id \in 1..Len(EntriesGrown(n)) :
                 \/ id \in Range(FreeCut(n))
                 \/ \E h \in live : h.id = id
                 \/ \E j \in 1..n : id = NewId(n, j)
<1> DEFINE fn == Len(freeEntries)
           rn == Recycled(n)
           L  == Len(entries)
<1>1. /\ freeEntries \in Seq(1..L) /\ DOMAIN freeEntries = 1..fn /\ DOMAIN entries = 1..L
      /\ L \in Nat /\ fn \in Nat /\ rn \in Nat /\ rn <= fn /\ rn <= n
      /\ \A i \in 1..fn : freeEntries[i] \in 1..L
      /\ Len(EntriesGrown(n)) = L + n - rn
      /\ DOMAIN FreeCut(n) = 1..(fn - rn)
      /\ \A i \in 1..(fn - rn) : FreeCut(n)[i] = freeEntries[i]
  BY GrowFacts DEF TypeOK
<1>2. \A i, j \in 1..fn : freeEntries[i] = freeEntries[j] => i = j
  BY <1>1 DEF IdsPartitioned, IsInjective
<1>3. \A j \in 1..rn : /\ fn - rn + j \in 1..fn /\ fn - rn + j > fn - rn
                        /\ NewId(n, j) = freeEntries[fn - rn + j] /\ NewId(n, j) \in 1..L
  BY <1>1 DEF NewId
<1>4. \A j \in (rn + 1)..n : NewId(n, j) = L + j - rn /\ NewId(n, j) > L
  BY <1>1 DEF NewId
<1>5. \A j \in 1..n : j \in 1..rn \/ j \in (rn + 1)..n
  BY <1>1
<1>6. \A h \in live : h.id \in 1..L /\ \A i \in 1..fn : h.id # freeEntries[i]
  BY <1>1 DEF IdsPartitioned, Exists, Range
<1>7. \A j \in 1..n : NewId(n, j) \in 1..Len(EntriesGrown(n))
  BY <1>1, <1>3, <1>4, <1>5
<1>8. ASSUME NEW i \in 1..n, NEW j \in 1..n, NewId(n, i) = NewId(n, j) PROVE i = j
  <2>1. CASE i \in 1..rn /\ j \in 1..rn
    <3>1. fn - rn + i = fn - rn + j
      BY <2>1, <1>2, <1>3, <1>8
    <3> QED BY <3>1, <1>1
  <2>2. CASE i \in (rn + 1)..n /\ j \in (rn + 1)..n
    BY <2>2, <1>1, <1>4, <1>8
  <2>3. CASE i \in 1..rn /\ j \in (rn + 1)..n
    BY <2>3, <1>1, <1>3, <1>4, <1>8
  <2>4. CASE j \in 1..rn /\ i \in (rn + 1)..n
    BY <2>4, <1>1, <1>3, <1>4, <1>8
  <2> QED BY <1>5, <2>1, <2>2, <2>3, <2>4
<1>9. ASSUME NEW j \in 1..n, NEW h \in live PROVE h.id # NewId(n, j)
  <2>1. CASE j \in 1..rn
    BY <2>1, <1>3, <1>6
  <2>2. CASE j \in (rn + 1)..n
    BY <2>2, <1>1, <1>4, <1>6
  <2> QED BY <1>5, <2>1, <2>2
<1>10. ASSUME NEW j \in 1..n, NEW i \in 1..(fn - rn) PROVE NewId(n, j) # FreeCut(n)[i]
  <2>1. i \in 1..fn /\ FreeCut(n)[i] = freeEntries[i] /\ freeEntries[i] \in 1..L
    BY <1>1
  <2>2. CASE j \in 1..rn
    <3>1. i # fn - rn + j
      BY <2>2, <1>1
    <3> QED BY <2>1, <2>2, <3>1, <1>2, <1>3
  <2>3. CASE j \in (rn + 1)..n
    BY <2>1, <2>3, <1>1, <1>4
  <2> QED BY <1>5, <2>2, <2>3
<1>11. ASSUME NEW id \in 1..Len(EntriesGrown(n)),
              \A h \in live : h.id # id, \A j \in 1..n : id # NewId(n, j)
       PROVE  id \in Range(FreeCut(n))
  <2>1. id \in 1..L
    <3>1. SUFFICES ASSUME id > L PROVE FALSE
      BY <1>1
    <3>2. id - L + rn \in (rn + 1)..n /\ id - L + rn \in 1..n
      BY <3>1, <1>1
    <3>3. NewId(n, id - L + rn) = id
      BY <3>2, <1>1, <1>4
    <3> QED BY <3>2, <3>3, <1>11
  <2>2. PICK i \in 1..fn : freeEntries[i] = id
    BY <2>1, <1>1, <1>11 DEF IdsPartitioned, Range
  <2>3. i \in 1..(fn - rn)
    <3>1. SUFFICES ASSUME i > fn - rn PROVE FALSE
      BY <1>1
    <3>2. i - (fn - rn) \in 1..rn /\ i - (fn - rn) \in 1..n /\ fn - rn + (i - (fn - rn)) = i
      BY <3>1, <1>1
    <3> QED BY <3>2, <2>2, <1>3, <1>11
  <2> QED BY <2>2, <2>3, <1>1 DEF Range
<1> QED BY <1>1, <1>7, <1>8, <1>9, <1>10, <1>11 DEF Range

\* The handles that new_entities returns.
LEMMA NewHandleFacts ==
    ASSUME TypeOK, IdsPartitioned, NEW n \in Nat
    PROVE  /\ DOMAIN NewHandles(n) = 1..n
           /\ \A j \in 1..n :
                 /\ NewHandles(n)[j] \in Handles
                 /\ NewHandles(n)[j].id = NewId(n, j)
                 /\ NewHandles(n)[j].version = EntriesGrown(n)[NewId(n, j)].version
           /\ \A h : h \in Range(NewHandles(n)) <=> \E j \in 1..n : h = NewHandles(n)[j]
<1>1. ASSUME NEW j \in 1..n
      PROVE  NewId(n, j) \in Nat \ {0} /\ EntriesGrown(n)[NewId(n, j)].version \in Versions
  <2>1. NewId(n, j) \in 1..Len(EntriesGrown(n))
    BY NewIdFacts
  <2>2. \A id \in 1..Len(EntriesGrown(n)) : EntriesGrown(n)[id] \in Entries
    BY GrowFacts
  <2>3. EntriesGrown(n)[NewId(n, j)] \in Entries
    BY <2>1, <2>2
  <2>4. NewId(n, j) \in Nat \ {0}
    BY <2>1
  <2> QED BY <2>3, <2>4 DEF Entries
<1> QED BY <1>1 DEF NewHandles, Handles, Range

\* new_entities keeps the invariant.
LEMMA NewEntitiesStep ==
    ASSUME IInv, NEW n \in Nat, NewEntities(n)
    PROVE  IInv'
<1> DEFINE N == Range(NewHandles(n))
           G == EntriesGrown(n)
           C == FreeCut(n)
           L == Len(entries)
<1>1. /\ entries' = G /\ freeEntries' = C /\ live' = live \cup N
      /\ DOMAIN age' = DOMAIN age \cup N
      /\ \A h \in DOMAIN age' : age'[h] = IF h \in N THEN 0 ELSE age[h]
      /\ age' = [h \in DOMAIN age' |-> age'[h]]
  BY DEF NewEntities
<1>2. /\ G \in Seq(Entries) /\ L \in Nat /\ Len(G) \in Nat /\ L <= Len(G)
      /\ DOMAIN entries = 1..L /\ DOMAIN G = 1..Len(G)
      /\ \A id \in 1..L : G[id] = entries[id]
      /\ C \in Seq(1..L) /\ DOMAIN C = 1..Len(C) /\ Len(C) <= Len(freeEntries)
      /\ Len(C) \in Nat /\ Len(freeEntries) \in Nat /\ DOMAIN freeEntries = 1..Len(freeEntries)
      /\ \A i \in 1..Len(C) : C[i] = freeEntries[i]
  BY GrowFacts DEF IInv, TypeOK
<1>3. /\ \A h \in N : h \in Handles /\ h.id \in 1..Len(G) /\ h.version = G[h.id].version
      /\ \A g, h \in N : g.id = h.id => g = h
      /\ \A h \in N : \A g \in live : g.id # h.id
      /\ \A h \in N : h.id \notin Range(C)
      /\ \A id \in 1..Len(G) : \/ id \in Range(C)
                               \/ \E h \in live : h.id = id
                               \/ \E h \in N : h.id = id
  <2> DEFINE H == NewHandles(n)
  <2>0. TypeOK /\ IdsPartitioned
    BY DEF IInv
  <2>1. \A h : h \in N <=> \E j \in 1..n : h = H[j]
    BY <2>0, NewHandleFacts
  <2>2. \A j \in 1..n : /\ H[j] \in Handles /\ H[j].id = NewId(n, j)
                        /\ H[j].version = G[H[j].id].version
    BY <2>0, NewHandleFacts
  <2> HIDE DEF H, N
  <2>3. /\ \A j \in 1..n : NewId(n, j) \in 1..Len(G)
        /\ \A i, j \in 1..n : NewId(n, i) = NewId(n, j) => i = j
        /\ \A j \in 1..n : \A h \in live : h.id # NewId(n, j)
        /\ \A j \in 1..n : NewId(n, j) \notin Range(C)
        /\ \A id \in 1..Len(G) : \/ id \in Range(C)
                                 \/ \E h \in live : h.id = id
                                 \/ \E j \in 1..n : id = NewId(n, j)
    BY <2>0, NewIdFacts
  <2> HIDE DEF G, C
  <2>4. \A h \in N : h \in Handles /\ h.id \in 1..Len(G) /\ h.version = G[h.id].version
    BY <2>1, <2>2, <2>3
  <2>5. \A g, h \in N : g.id = h.id => g = h
    BY <2>1, <2>2, <2>3
  <2>6. \A h \in N : h.id \notin Range(C) /\ \A g \in live : g.id # h.id
    BY <2>1, <2>2, <2>3
  <2>7. \A j \in 1..n : H[j] \in N /\ H[j].id = NewId(n, j)
    BY <2>1, <2>2
  <2>8. \A id \in 1..Len(G) : \/ id \in Range(C)
                              \/ \E h \in live : h.id = id
                              \/ \E h \in N : h.id = id
    BY <2>3, <2>7
  <2> QED BY <2>4, <2>5, <2>6, <2>8
<1>4. /\ TransientVersion \in Nat \ {0} /\ live \subseteq DOMAIN age /\ DOMAIN age \subseteq Handles
      /\ \A h \in DOMAIN age : age[h] \in 0..TransientVersion /\ h.id \in 1..L
  BY <1>2, RegistryAssumption DEF IInv, TypeOK, AgeInv
<1>5. \A h \in live : h.id \in 1..L /\ entries[h.id].version = h.version
  BY <1>2 DEF IInv, IdsPartitioned, Exists
<1> HIDE DEF N, G, C
<1>6. TypeOK'
  <2>1. entries' \in Seq(Entries) /\ DOMAIN entries' = 1..Len(G)
    BY <1>1, <1>2
  <2>2. freeEntries' \in Seq(DOMAIN entries')
    <3>1. \A i \in 1..Len(C) : C[i] \in 1..Len(G)
      BY <1>2
    <3>2. C = [i \in 1..Len(C) |-> C[i]]
      BY <1>2
    <3>3. C \in Seq(1..Len(G))
      BY <1>2, <3>1, <3>2
    <3> QED BY <1>1, <2>1, <3>3
  <2>3. live' \subseteq DOMAIN age' /\ DOMAIN age' \subseteq Handles
    BY <1>1, <1>3, <1>4
  <2>4. age' \in [DOMAIN age' -> 0..TransientVersion]
    <3>1. \A h \in DOMAIN age' : age'[h] \in 0..TransientVersion
      BY <1>1, <1>4
    <3> QED BY <1>1, <3>1
  <2> QED BY <2>1, <2>2, <2>3, <2>4 DEF TypeOK
<1>7. IdsPartitioned'
  <2>1. \A h \in live' : h.id \in DOMAIN entries' /\ entries'[h.id].version = h.version
    BY <1>1, <1>2, <1>3, <1>5
  <2>2. \A g, h \in live' : g.id = h.id => g = h
    BY <1>1, <1>3 DEF IInv, IdsPartitioned
  <2>3. IsInjective(C)
    BY <1>2 DEF IInv, IdsPartitioned, IsInjective
  <2>4. Range(C) \subseteq Range(freeEntries)
    BY <1>2 DEF Range
  <2>5. Range(C) \subseteq 1..Len(G)
    BY <1>2 DEF Range
  <2>6. \A id \in 1..Len(G) : id \in Range(C) \/ \E h \in live' : h.id = id
    BY <1>1, <1>3
  <2>7. DOMAIN G = Range(C) \cup {h.id : h \in live'}
    BY <1>1, <1>2, <2>1, <2>5, <2>6
  <2>8. \A h \in live' : h.id \notin Range(C)
    BY <1>1, <1>3, <2>4 DEF IInv, IdsPartitioned
  <2> QED BY <1>1, <2>1, <2>2, <2>3, <2>7, <2>8 DEF IdsPartitioned, Exists
<1>8. AgeInv'
  <2> SUFFICES ASSUME NEW h \in DOMAIN age'
               PROVE  /\ h.id \in DOMAIN entries'
                      /\ age'[h] < TransientVersion =>
                            entries'[h.id].version = VersionAfter(h.version, age'[h])
                      /\ age'[h] = 0 <=> h \in live'
    BY DEF AgeInv
  <2>1. CASE h \in N
    <3>1. h.version \in Versions /\ 0 \in 0..(TransientVersion - 1)
      BY <1>3, <1>4, <2>1 DEF Handles
    <3>2. VersionAfter(h.version, 0) = h.version
      BY <3>1, VersionFacts
    <3> QED BY <1>1, <1>2, <1>3, <2>1, <3>2
  <2>2. CASE h \notin N
    <3>1. /\ h \in DOMAIN age /\ age'[h] = age[h] /\ (h \in live' <=> h \in live)
          /\ h.id \in 1..L /\ h.id \in DOMAIN entries' /\ entries'[h.id] = entries[h.id]
      BY <1>1, <1>2, <1>4, <2>2
    <3>2. /\ age[h] < TransientVersion =>
                entries[h.id].version = VersionAfter(h.version, age[h])
          /\ age[h] = 0 <=> h \in live
      BY <3>1 DEF IInv, AgeInv
    <3> QED BY <3>1, <3>2
  <2> QED BY <2>1, <2>2
<1> QED BY <1>6, <1>7, <1>8 DEF IInv

-----------------------------------------------------------------------------
(* free_entities                                                           *)

\* A batch of handles in use meets each of its ids once.
LEMMA TimesFacts ==
    ASSUME NEW n \in Nat, NEW hs \in Injection(1..n, live), IdsPartitioned, NEW id
    PROVE  Times(hs, id) = IF \E j \in 1..n : hs[j].id = id THEN 1 ELSE 0
<1>1. DOMAIN hs = 1..n /\ \A j \in 1..n : hs[j] \in live
  BY DEF Injection
<1>2. \A i, j \in 1..n : hs[i] = hs[j] => i = j
  BY <1>1 DEF Injection, IsInjective
<1> DEFINE J == {j \in DOMAIN hs : hs[j].id = id}
<1>3. CASE \E j \in 1..n : hs[j].id = id
  <2>1. PICK j \in 1..n : hs[j].id = id
    BY <1>3
  <2>2. ASSUME NEW i \in J PROVE i = j
    <3>1. hs[i] = hs[j]
      BY <1>1, <2>1 DEF IdsPartitioned
    <3> QED BY <1>1, <1>2, <3>1
  <2>3. J = {j}
    BY <1>1, <2>1, <2>2
  <2> QED BY <1>3, <2>3, FS_Singleton DEF Times
<1>4. CASE ~\E j \in 1..n : hs[j].id = id
  <2>1. J = {}
    BY <1>1, <1>4
  <2> QED BY <1>4, <2>1, FS_EmptySet DEF Times
<1> QED BY <1>3, <1>4

\* free_entities keeps the invariant.
LEMMA FreeEntitiesStep ==
    ASSUME IInv, NEW n \in Nat, NEW hs \in Injection(1..n, live), FreeEntities(hs)
    PROVE  IInv'
<1> DEFINE F == {hs[j].id : j \in 1..n}
           ids == [j \in DOMAIN hs |-> hs[j].id]
           L == Len(entries)
           T == TransientVersion
<1>1. /\ DOMAIN hs = 1..n /\ \A j \in 1..n : hs[j] \in live
      /\ \A i, j \in 1..n : hs[i] = hs[j] => i = j
  BY DEF Injection, IsInjective
<1>2. \A id : Times(hs, id) = IF id \in F THEN 1 ELSE 0
  BY TimesFacts DEF IInv
<1>3. /\ entries \in Seq(Entries) /\ L \in Nat /\ DOMAIN entries = 1..L
      /\ \A id \in 1..L : entries[id] \in Entries
      /\ freeEntries \in Seq(1..L)
      /\ live \subseteq DOMAIN age /\ DOMAIN age \subseteq Handles
      /\ \A h \in DOMAIN age : age[h] \in 0..T
      /\ T \in Nat \ {0}
  BY RegistryAssumption DEF IInv, TypeOK
<1>4. /\ \A h \in live : h.id \in 1..L /\ entries[h.id].version = h.version
      /\ \A g, h \in live : g.id = h.id => g = h
      /\ IsInjective(freeEntries)
      /\ 1..L = Range(freeEntries) \cup {h.id : h \in live}
      /\ \A h \in live : h.id \notin Range(freeEntries)
  BY <1>3 DEF IInv, IdsPartitioned, Exists
<1>5. F \subseteq 1..L
  BY <1>1, <1>4
<1>6. /\ DOMAIN entries' = 1..L
      /\ \A id \in 1..L : entries'[id] = IF id \in F THEN Freed(entries[id], 1) ELSE entries[id]
      /\ entries' = [id \in 1..L |-> entries'[id]]
  <2>1. entries' = [id \in 1..L |-> IF id \in F THEN Freed(entries[id], 1) ELSE entries[id]]
    <3>1. \A id : IF Times(hs, id) = 0 THEN id \notin F ELSE id \in F /\ Times(hs, id) = 1
      BY <1>2
    <3> QED BY <1>3, <3>1 DEF FreeEntities, EntriesFreed
  <2> QED BY <2>1
<1>7. /\ DOMAIN age' = DOMAIN age
      /\ \A h \in DOMAIN age : age'[h] = IF h.id \in F THEN Older(age[h]) ELSE age[h]
      /\ age' = [h \in DOMAIN age |-> age'[h]]
  <2>1. \A id : Times(hs, id) = 0 <=> id \notin F
    BY <1>2
  <2> HIDE DEF F
  <2> QED BY <2>1 DEF FreeEntities
<1>8. ids \in Seq(1..L) /\ Len(ids) = n /\ \A j \in 1..n : ids[j] = hs[j].id
  BY <1>1, <1>4
<1>9. IsInjective(ids) /\ Range(ids) = F
  BY <1>1, <1>4, <1>8 DEF IsInjective, Range
<1>10. freeEntries' = freeEntries \o ids /\ live' = live \ Range(hs)
  BY DEF FreeEntities, FreeExtended
<1> HIDE DEF F, ids
<1>11. /\ live' \subseteq live
       /\ \A h \in live : h \in live' <=> h.id \notin F
  <2>1. Range(hs) = {hs[j] : j \in 1..n}
    BY <1>1 DEF Range
  <2> QED BY <1>1, <1>4, <1>10, <2>1 DEF F
<1>12. /\ freeEntries' \in Seq(1..L) /\ IsInjective(freeEntries')
       /\ Range(freeEntries') = Range(freeEntries) \cup F
  <2>1. Range(freeEntries) \cap Range(ids) = {}
    BY <1>1, <1>4, <1>9 DEF F
  <2> QED BY <1>3, <1>4, <1>8, <1>9, <1>10, <2>1, JoinNoRepeat
<1>13. \A id \in 1..L : entries'[id] \in Entries
  <2> SUFFICES ASSUME NEW id \in 1..L PROVE entries'[id] \in Entries
    OBVIOUS
  <2>1. entries[id] \in Entries /\ entries[id].version \in Versions
    BY <1>3 DEF Entries
  <2>2. VersionAfter(entries[id].version, 1) \in Versions
    <3>1. 0 \in 0..(TransientVersion - 1)
      BY <1>3
    <3> QED BY <2>1, <3>1, VersionFacts
  <2>3. Freed(entries[id], 1) \in Entries
    BY <2>2 DEF Freed, Entries
  <2> QED BY <1>6, <2>1, <2>3
<1>14. TypeOK'
  <2>1. entries' \in Seq(Entries)
    BY <1>3, <1>6, <1>13
  <2>2. freeEntries' \in Seq(DOMAIN entries')
    BY <1>6, <1>12
  <2>3. \A h \in DOMAIN age : age'[h] \in 0..T
    BY <1>3, <1>7 DEF Older
  <2>4. age' \in [DOMAIN age' -> 0..T]
    BY <1>7, <2>3
  <2> QED BY <1>3, <1>7, <1>11, <2>1, <2>2, <2>4 DEF TypeOK
<1>15. IdsPartitioned'
  <2>1. \A h \in live' : h.id \in DOMAIN entries' /\ entries'[h.id].version = h.version
    BY <1>4, <1>6, <1>11
  <2>2. DOMAIN entries' = Range(freeEntries') \cup {h.id : h \in live'}
    BY <1>4, <1>5, <1>6, <1>11, <1>12
  <2>3. \A h \in live' : h.id \notin Range(freeEntries')
    BY <1>4, <1>11, <1>12
  <2> QED BY <1>4, <1>11, <1>12, <2>1, <2>2, <2>3 DEF IdsPartitioned, Exists
<1>16. AgeInv'
  <2> SUFFICES ASSUME NEW h \in DOMAIN age
               PROVE  /\ h.id \in DOMAIN entries'
                      /\ age'[h] < T => entries'[h.id].version = VersionAfter(h.version, age'[h])
                      /\ age'[h] = 0 <=> h \in live'
    BY <1>7 DEF AgeInv
  <2>1. /\ h.id \in 1..L /\ age[h] \in 0..T /\ h.version \in Versions
        /\ age[h] < T => entries[h.id].version = VersionAfter(h.version, age[h])
        /\ age[h] = 0 <=> h \in live
    BY <1>3 DEF IInv, AgeInv, Handles
  <2>2. CASE h.id \in F
    <3>1. age'[h] \in 1..T /\ (age'[h] < T => age[h] + 1 < T /\ age'[h] = age[h] + 1)
      BY <1>3, <1>7, <2>1, <2>2 DEF Older
    <3>2. h \notin live'
      BY <1>11, <2>2
    <3>3. ASSUME age'[h] < T
          PROVE  entries'[h.id].version = VersionAfter(h.version, age'[h])
      <4>1. age[h] \in 0..(TransientVersion - 1) /\ age[h] + 1 < TransientVersion
        BY <1>3, <2>1, <3>1, <3>3
      <4>2. VersionAfter(VersionAfter(h.version, age[h]), 1) = VersionAfter(h.version, age[h] + 1)
        BY <2>1, <4>1, VersionFacts
      <4>3. entries'[h.id].version = VersionAfter(entries[h.id].version, 1)
        BY <1>6, <2>1, <2>2 DEF Freed
      <4>4. age[h] < T /\ age'[h] = age[h] + 1
        BY <1>3, <2>1, <3>1, <3>3
      <4> HIDE DEF T
      <4> QED BY <2>1, <4>2, <4>3, <4>4
    <3>4. age'[h] # 0
      BY <3>1
    <3> QED BY <1>6, <2>1, <3>2, <3>3, <3>4
  <2>3. CASE h.id \notin F
    <3>1. age'[h] = age[h] /\ entries'[h.id] = entries[h.id] /\ (h \in live' <=> h \in live)
      BY <1>6, <1>7, <1>11, <2>1, <2>3
    <3> QED BY <1>6, <2>1, <3>1
  <2> QED BY <2>2, <2>3
<1> QED BY <1>14, <1>15, <1>16 DEF IInv

-----------------------------------------------------------------------------
(* The theorems.                                                           *)

\* Whatever owners do with new_entities and free_entities, the invariant holds.
THEOREM Invariance == Spec => []IInv
<1>1. Init => IInv
  BY RegistryAssumption
     DEF Init, IInv, TypeOK, IdsPartitioned, AgeInv, Exists, IsInjective, Range
<1>2. IInv /\ [Next]_vars => IInv'
  <2> SUFFICES ASSUME IInv, [Next]_vars PROVE IInv'
    OBVIOUS
  <2>1. ASSUME NEW n \in 1..MaxBatch, NewEntities(n) PROVE IInv'
    BY <2>1, HandlesAssumption, NewEntitiesStep
  <2>2. ASSUME NEW n \in 1..MaxBatch, NEW hs \in Injection(1..n, live), FreeEntities(hs)
        PROVE  IInv'
    BY <2>2, HandlesAssumption, FreeEntitiesStep
  <2>3. CASE UNCHANGED vars
    BY <2>3 DEF vars, IInv, TypeOK, IdsPartitioned, AgeInv, Exists
  <2> QED BY <2>1, <2>2, <2>3 DEF Next
<1> QED BY <1>1, <1>2, PTL DEF Spec

\* Entries, free ids, handles and their ages have their types; in particular no
\* entry ever gets the version kEntityTransientVersion.
THEOREM TypeCorrect == Spec => []TypeOK
<1>1. IInv => TypeOK
  BY DEF IInv
<1> QED BY <1>1, Invariance, PTL

\* new_entities and free_entities pass every id back and forth: it is in use,
\* by one handle that exists, or once in the free list.
THEOREM Partition == Spec => []IdsPartitioned
<1>1. IInv => IdsPartitioned
  BY DEF IInv
<1> QED BY <1>1, Invariance, PTL

\* exist() tells a freed handle apart until its id has been freed
\* kEntityTransientVersion times.
THEOREM Stale == Spec => []StaleDetected
<1>1. IInv => StaleDetected
  <2> SUFFICES ASSUME IInv, NEW h \in DOMAIN age, h \notin live, age[h] < TransientVersion
               PROVE  ~Exists(h)
    BY DEF StaleDetected
  <2>1. /\ age[h] \in 0..TransientVersion /\ age[h] # 0 /\ h.version \in Versions
        /\ entries[h.id].version = VersionAfter(h.version, age[h])
    BY DEF IInv, TypeOK, AgeInv, Handles
  <2>2. age[h] \in 0..(TransientVersion - 1)
    BY <2>1, RegistryAssumption
  <2>3. VersionAfter(h.version, age[h]) # h.version
    BY <2>1, <2>2, VersionFacts
  <2> QED BY <2>1, <2>3 DEF Exists
<1> QED BY <1>1, Invariance, PTL
=============================================================================
