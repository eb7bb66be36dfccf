------------------------- MODULE ChunkLists_proofs -------------------------
(***************************************************************************)
(* The chunk list of a group as a sequence: what add_chunk, remove_chunk,  *)
(* mark_free and mark_full do to it, and what a walk along next meets.     *)
(***************************************************************************)
EXTENDS ChunkStorage, NoRepeatSeqs, FiniteSetTheorems, WellFoundedInduction, TLAPS

ChunkPtr == Chunk \cup {NoChunk}

ChunkRec == [next : ChunkPtr, prev : ChunkPtr, group : Group \cup {NoGroup},
             pt : PoolType \cup {"none"}, ents : Seq(Handles)]
GroupRec == [firstChunk : ChunkPtr, lastChunk : ChunkPtr, firstFree : ChunkPtr,
             chunkCount : Nat, size : Nat]
Mem == [chunks : [Chunk -> ChunkRec], groups : [Group -> GroupRec]]

At(s, i) == IF i \in 1..Len(s) THEN s[i] ELSE NoChunk

\* The chunks of s are linked to each other, in their order.
Linked(m, s) ==
    /\ s \in Seq(Chunk) /\ IsInjective(s)
    /\ \A i \in 1..Len(s) : m.chunks[s[i]].next = At(s, i + 1) /\ m.chunks[s[i]].prev = At(s, i - 1)

\* The group begins and ends with them.
Ends(m, g, s) ==
    /\ m.groups[g].firstChunk = At(s, 1)
    /\ s # <<>> => m.groups[g].lastChunk = At(s, Len(s))

\* x is a chunk of s, and from there on all have room, c perhaps excepted.
FreeFromBut(m, s, x, c) ==
    \E i \in 1..Len(s) : s[i] = x /\ \A j \in i..Len(s) : s[j] # c => Room(m, s[j]) > 0
FreeFrom(m, s, x) ==
    \E i \in 1..Len(s) : s[i] = x /\ \A j \in i..Len(s) : Room(m, s[j]) > 0

\* From firstFree on all chunks have room.
FreeEnd(m, g, s) == m.groups[g].firstFree = NoChunk \/ FreeFrom(m, s, m.groups[g].firstFree)
FreeEndBut(m, g, s, c) == m.groups[g].firstFree = NoChunk \/ FreeFromBut(m, s, m.groups[g].firstFree, c)

Members(m, g) == {c \in Chunk : m.chunks[c].group = g}

\* s is the list of group g.
IsList(m, g, s) == Linked(m, s) /\ Ends(m, g, s) /\ FreeEnd(m, g, s) /\ Range(s) = Members(m, g)

\* s is the list of group g, but for the room of c.
IsListBut(m, g, s, c) == Linked(m, s) /\ Ends(m, g, s) /\ FreeEndBut(m, g, s, c) /\ Range(s) = Members(m, g)

-----------------------------------------------------------------------------
(* Assignments to the fields of one chunk.                                 *)

\* What is not a link: the group, the pool type and the entities of a chunk.
SameData(m, r) ==
    \A x \in Chunk : /\ r.chunks[x].group = m.chunks[x].group /\ r.chunks[x].pt = m.chunks[x].pt
                     /\ r.chunks[x].ents = m.chunks[x].ents
WithNext(m, c, v) == [m EXCEPT !.chunks[c].next = v]
WithPrev(m, c, v) == [m EXCEPT !.chunks[c].prev = v]

\* r is m but for the next, or the prev, of c; c may be null, and then r is m.
NextSet(m, r, c, v) ==
    /\ r \in Mem /\ r.groups = m.groups /\ SameData(m, r)
    /\ \A x \in Chunk : /\ r.chunks[x].next = IF x = c THEN v ELSE m.chunks[x].next
                        /\ r.chunks[x].prev = m.chunks[x].prev
PrevSet(m, r, c, v) ==
    /\ r \in Mem /\ r.groups = m.groups /\ SameData(m, r)
    /\ \A x \in Chunk : /\ r.chunks[x].prev = IF x = c THEN v ELSE m.chunks[x].prev
                        /\ r.chunks[x].next = m.chunks[x].next

\* c->next = v
LEMMA SetNext ==
    ASSUME NEW m \in Mem, NEW c \in ChunkPtr, NEW v \in ChunkPtr
    PROVE  NextSet(m, IF c = NoChunk THEN m ELSE WithNext(m, c, v), c, v)
<1>1. ASSUME c \in Chunk PROVE NextSet(m, WithNext(m, c, v), c, v)
  BY <1>1 DEF Mem, ChunkRec, SameData, WithNext, NextSet
<1>2. ASSUME c = NoChunk PROVE NextSet(m, m, c, v)
  BY <1>2, RegistryAssumption DEF SameData, NextSet
<1>3. c \in Chunk \/ c = NoChunk
  BY DEF ChunkPtr
<1>4. ~(c \in Chunk /\ c = NoChunk)
  BY RegistryAssumption
<1> QED BY <1>1, <1>2, <1>3, <1>4

\* c->prev = v
LEMMA SetPrev ==
    ASSUME NEW m \in Mem, NEW c \in ChunkPtr, NEW v \in ChunkPtr
    PROVE  PrevSet(m, IF c = NoChunk THEN m ELSE WithPrev(m, c, v), c, v)
<1>1. ASSUME c \in Chunk PROVE PrevSet(m, WithPrev(m, c, v), c, v)
  BY <1>1 DEF Mem, ChunkRec, SameData, WithPrev, PrevSet
<1>2. ASSUME c = NoChunk PROVE PrevSet(m, m, c, v)
  BY <1>2, RegistryAssumption DEF SameData, PrevSet
<1>3. c \in Chunk \/ c = NoChunk
  BY DEF ChunkPtr
<1>4. ~(c \in Chunk /\ c = NoChunk)
  BY RegistryAssumption
<1> QED BY <1>1, <1>2, <1>3, <1>4

\* r is m with c linked behind a.
LinkSet(m, r, a, c) ==
    LET n == m.chunks[a].next IN
    /\ r \in Mem /\ r.groups = m.groups /\ SameData(m, r)
    /\ \A x \in Chunk :
          /\ r.chunks[x].next = IF x = a THEN c ELSE IF x = c THEN n ELSE m.chunks[x].next
          /\ r.chunks[x].prev = IF x = n THEN c ELSE IF x = c THEN a ELSE m.chunks[x].prev

\* a->link(c)
LEMMA LinkFacts ==
    ASSUME NEW m \in Mem, NEW a \in Chunk, NEW c \in Chunk, a # c
    PROVE  LinkSet(m, Link(m, a, c), a, c)
<1> DEFINE n == m.chunks[a].next
           m0 == WithNext(m, c, n)
           m1 == WithPrev(m0, c, a)
           m2 == IF n = NoChunk THEN m1 ELSE WithPrev(m1, n, c)
           r == Link(m, a, c)
<1>n. n \in ChunkPtr /\ a \in ChunkPtr /\ c \in ChunkPtr /\ a # NoChunk /\ c # NoChunk
  BY RegistryAssumption DEF Mem, ChunkRec, ChunkPtr
<1>1. m1 = [m EXCEPT !.chunks[c].next = n, !.chunks[c].prev = a]
  BY DEF WithNext, WithPrev, Mem
<1>2. r = WithNext(m2, a, c)
  <2> DEFINE k == [m EXCEPT !.chunks[c].next = n, !.chunks[c].prev = a]
             rest(l) == WithNext(IF n = NoChunk THEN l ELSE WithPrev(l, n, c), a, c)
  <2>1. r = rest(k)
    BY DEF Link, WithNext, WithPrev
  <2>2. k = m1
    BY <1>1
  <2> HIDE DEF k, m1
  <2> QED BY <2>1, <2>2
<1>3. NextSet(m, m0, c, n)
  BY <1>n, SetNext
<1> HIDE DEF n, m0
<1>4. PrevSet(m0, m1, c, a)
  <2>1. m0 \in Mem
    BY <1>3 DEF NextSet
  <2> QED BY <1>n, <2>1, SetPrev
<1> HIDE DEF m1
<1>6. PrevSet(m1, m2, n, c)
  <2>1. m1 \in Mem
    BY <1>4 DEF PrevSet
  <2> QED BY <1>n, <2>1, SetPrev
<1> HIDE DEF m2
<1>8. NextSet(m2, r, a, c)
  <2>1. m2 \in Mem
    BY <1>6 DEF PrevSet
  <2> QED BY <1>n, <1>2, <2>1, SetNext
<1> HIDE DEF r
<1> QED BY <1>3, <1>4, <1>6, <1>8 DEF SameData, NextSet, PrevSet, LinkSet, n, r

\* c->unlink()
LEMMA UnlinkFacts ==
    ASSUME NEW m \in Mem, NEW c \in Chunk
    PROVE  LET p == m.chunks[c].prev
               n == m.chunks[c].next
               r == Unlink(m, c)
           IN  /\ r \in Mem /\ r.groups = m.groups /\ SameData(m, r)
               /\ \A x \in Chunk :
                     /\ r.chunks[x].next = IF x = c THEN NoChunk ELSE IF x = p THEN n ELSE m.chunks[x].next
                     /\ r.chunks[x].prev = IF x = c THEN NoChunk ELSE IF x = n THEN p ELSE m.chunks[x].prev
<1> DEFINE p == m.chunks[c].prev
           n == m.chunks[c].next
           m1 == IF p = NoChunk THEN m ELSE WithNext(m, p, n)
           m2 == IF n = NoChunk THEN m1 ELSE WithPrev(m1, n, p)
           m3 == WithPrev(m2, c, NoChunk)
           r == Unlink(m, c)
<1>n. n \in ChunkPtr /\ p \in ChunkPtr /\ c \in ChunkPtr /\ c # NoChunk /\ NoChunk \in ChunkPtr
  BY RegistryAssumption DEF Mem, ChunkRec, ChunkPtr
<1>0. r = [m2 EXCEPT !.chunks[c].prev = NoChunk, !.chunks[c].next = NoChunk]
  BY DEF Unlink, WithNext, WithPrev
<1> HIDE DEF n, p, r
<1>2. NextSet(m, m1, p, n)
  BY <1>n, SetNext
<1> HIDE DEF m1
<1>4. PrevSet(m1, m2, n, p)
  <2>1. m1 \in Mem
    BY <1>2 DEF NextSet
  <2> QED BY <1>n, <2>1, SetPrev
<1> HIDE DEF m2
<1>5. m2 \in Mem
  BY <1>4 DEF PrevSet
<1>6. r = WithNext(m3, c, NoChunk)
  BY <1>0, <1>5 DEF WithNext, WithPrev, Mem
<1>7. PrevSet(m2, m3, c, NoChunk)
  BY <1>n, <1>5, SetPrev
<1> HIDE DEF m3
<1>8. NextSet(m3, r, c, NoChunk)
  <2>1. m3 \in Mem
    BY <1>7 DEF PrevSet
  <2> QED BY <1>n, <1>6, <2>1, SetNext
<1> QED BY <1>2, <1>4, <1>7, <1>8 DEF SameData, NextSet, PrevSet, p, n, r

\* r has the group records of m, but for the ends of group g.
SameGroups(m, r, g) ==
    /\ \A x \in Group \ {g} : r.groups[x] = m.groups[x]
    /\ r.groups[g].firstFree = m.groups[g].firstFree
    /\ r.groups[g].chunkCount = m.groups[g].chunkCount /\ r.groups[g].size = m.groups[g].size

\* remove(firstChunk, lastChunk, c)
LEMMA TakeOutFacts ==
    ASSUME NEW m \in Mem, NEW g \in Group, NEW c \in Chunk
    PROVE  LET p == m.chunks[c].prev
               n == m.chunks[c].next
               r == TakeOut(m, g, c)
           IN  /\ r \in Mem /\ SameData(m, r) /\ SameGroups(m, r, g)
               /\ r.groups[g].lastChunk = IF m.groups[g].lastChunk = c THEN p ELSE m.groups[g].lastChunk
               /\ r.groups[g].firstChunk = IF m.groups[g].firstChunk = c THEN n ELSE m.groups[g].firstChunk
               /\ \A x \in Chunk :
                     /\ r.chunks[x].next = IF x = c THEN NoChunk ELSE IF x = p THEN n ELSE m.chunks[x].next
                     /\ r.chunks[x].prev = IF x = c THEN NoChunk ELSE IF x = n THEN p ELSE m.chunks[x].prev
<1> DEFINE k == [m EXCEPT !.groups[g].lastChunk = IF @ = c THEN m.chunks[c].prev ELSE @,
                          !.groups[g].firstChunk = IF @ = c THEN m.chunks[c].next ELSE @]
           r == TakeOut(m, g, c)
<1>1. r = Unlink(k, c)
  BY DEF TakeOut
<1>2. /\ k \in Mem /\ k.chunks = m.chunks /\ SameGroups(m, k, g)
      /\ k.groups[g].lastChunk = IF m.groups[g].lastChunk = c THEN m.chunks[c].prev ELSE m.groups[g].lastChunk
      /\ k.groups[g].firstChunk = IF m.groups[g].firstChunk = c THEN m.chunks[c].next ELSE m.groups[g].firstChunk
  <2>1. m.chunks[c].prev \in ChunkPtr /\ m.chunks[c].next \in ChunkPtr
    BY DEF Mem, ChunkRec
  <2>2. k \in Mem
    <3>1. m.groups \in [Group -> GroupRec] /\ m.groups[g] \in GroupRec
      BY DEF Mem
    <3>2. /\ (IF m.groups[g].lastChunk = c THEN m.chunks[c].prev ELSE m.groups[g].lastChunk) \in ChunkPtr
          /\ (IF m.groups[g].firstChunk = c THEN m.chunks[c].next ELSE m.groups[g].firstChunk) \in ChunkPtr
      BY <2>1, <3>1 DEF GroupRec
    <3>3. k.groups[g] \in GroupRec
      BY <3>1, <3>2 DEF Mem, GroupRec
    <3>4. DOMAIN k.groups = Group /\ \A x \in Group \ {g} : k.groups[x] = m.groups[x]
      BY <3>1 DEF Mem
    <3>5. k.groups \in [Group -> GroupRec]
      <4>1. k.groups = [x \in Group |-> k.groups[x]]
        BY <3>1 DEF Mem
      <4> HIDE DEF k
      <4> QED BY <3>1, <3>3, <3>4, <4>1
    <3> QED BY <3>5 DEF Mem
  <2>3. k.chunks = m.chunks
    BY DEF Mem
  <2>4. SameGroups(m, k, g)
    BY <2>1 DEF Mem, GroupRec, SameGroups
  <2>5. k.groups[g].lastChunk = IF m.groups[g].lastChunk = c THEN m.chunks[c].prev ELSE m.groups[g].lastChunk
    BY <2>1 DEF Mem, GroupRec
  <2>6. k.groups[g].firstChunk = IF m.groups[g].firstChunk = c THEN m.chunks[c].next ELSE m.groups[g].firstChunk
    BY <2>1 DEF Mem, GroupRec
  <2> HIDE DEF k
  <2> QED BY <2>2, <2>3, <2>4, <2>5, <2>6
<1> HIDE DEF k, r
<1>3. LET p == k.chunks[c].prev
          n == k.chunks[c].next
      IN  /\ r \in Mem /\ r.groups = k.groups /\ SameData(k, r)
          /\ \A x \in Chunk :
                /\ r.chunks[x].next = IF x = c THEN NoChunk ELSE IF x = p THEN n ELSE k.chunks[x].next
                /\ r.chunks[x].prev = IF x = c THEN NoChunk ELSE IF x = n THEN p ELSE k.chunks[x].prev
  BY <1>1, <1>2, UnlinkFacts
<1> QED BY <1>2, <1>3 DEF r, SameData, SameGroups

-----------------------------------------------------------------------------
(* The steps of the list operations, on the sequence of the chunks.        *)

\* A step that keeps the links of the chunks x has.
KeepsLinks(m, r, C) ==
    \A x \in C : r.chunks[x].next = m.chunks[x].next /\ r.chunks[x].prev = m.chunks[x].prev

\* Types of a list.
LEMMA ListTypes ==
    ASSUME NEW s \in Seq(Chunk), IsInjective(s)
    PROVE  /\ Len(s) \in Nat /\ DOMAIN s = 1..Len(s)
           /\ \A i \in 1..Len(s) : s[i] \in Chunk /\ s[i] # NoChunk /\ At(s, i) = s[i] /\ s[i] \in Range(s)
           /\ \A i, j \in 1..Len(s) : s[i] = s[j] => i = j
           /\ \A i \in Int : i \notin 1..Len(s) => At(s, i) = NoChunk
           /\ \A x \in Range(s) : \E i \in 1..Len(s) : x = s[i]
<1>1. Len(s) \in Nat /\ DOMAIN s = 1..Len(s) /\ \A i \in 1..Len(s) : s[i] \in Chunk
  OBVIOUS
<1> QED BY <1>1, RegistryAssumption DEF At, IsInjective, Range

\* r is m with the k-th chunk of the list s of group g taken out.
TakenOut(m, r, g, s, k) ==
    LET c == s[k]
        t == RemoveAt(s, k)
    IN  /\ r \in Mem /\ SameData(m, r) /\ SameGroups(m, r, g)
        /\ Linked(r, t) /\ Ends(r, g, t) /\ (t = <<>> => r.groups[g].lastChunk = NoChunk)
        /\ r.chunks[c].next = NoChunk /\ r.chunks[c].prev = NoChunk
        /\ KeepsLinks(m, r, Chunk \ Range(s)) /\ c \in Chunk
        /\ Range(t) = Range(s) \ {c} /\ Len(t) = Len(s) - 1

\* remove() of the k-th chunk of a list.
LEMMA TakeOutList ==
    ASSUME NEW m \in Mem, NEW g \in Group, NEW s, Linked(m, s), Ends(m, g, s), NEW k \in 1..Len(s)
    PROVE  TakenOut(m, TakeOut(m, g, s[k]), g, s, k)
<1> DEFINE c == s[k]
           r == TakeOut(m, g, c)
           t == RemoveAt(s, k)
           n == m.chunks[c].next
           p == m.chunks[c].prev
           pos(i) == IF i < k THEN i ELSE i + 1
<1>1. s \in Seq(Chunk) /\ IsInjective(s)
  BY DEF Linked
<1>2. /\ Len(s) \in Nat /\ DOMAIN s = 1..Len(s)
      /\ \A i \in 1..Len(s) : s[i] \in Chunk /\ s[i] # NoChunk /\ At(s, i) = s[i] /\ s[i] \in Range(s)
      /\ \A i, j \in 1..Len(s) : s[i] = s[j] => i = j
      /\ \A i \in Int : i \notin 1..Len(s) => At(s, i) = NoChunk
      /\ \A x \in Range(s) : \E i \in 1..Len(s) : x = s[i]
  BY <1>1, ListTypes
<1>3. n = At(s, k + 1) /\ p = At(s, k - 1)
  BY DEF Linked
<1>4. /\ r \in Mem /\ SameData(m, r) /\ SameGroups(m, r, g)
      /\ r.groups[g].lastChunk = IF m.groups[g].lastChunk = c THEN p ELSE m.groups[g].lastChunk
      /\ r.groups[g].firstChunk = IF m.groups[g].firstChunk = c THEN n ELSE m.groups[g].firstChunk
      /\ \A x \in Chunk :
            /\ r.chunks[x].next = IF x = c THEN NoChunk ELSE IF x = p THEN n ELSE m.chunks[x].next
            /\ r.chunks[x].prev = IF x = c THEN NoChunk ELSE IF x = n THEN p ELSE m.chunks[x].prev
  <2>1. c \in Chunk
    BY <1>2
  <2> QED BY <2>1, TakeOutFacts
<1>5. /\ t \in Seq(Chunk) /\ Len(t) = Len(s) - 1
      /\ \A i \in 1..(Len(s) - 1) : t[i] = s[pos(i)]
  BY <1>1, RemoveAtPlaces
<1>6. IsInjective(t) /\ Range(t) = Range(s) \ {c}
  BY <1>1, RemoveAtNoRepeat
<1> HIDE DEF r, t, n, p
<1>7. \A i \in 1..Len(t) : pos(i) \in 1..Len(s) /\ pos(i) # k /\ t[i] = s[pos(i)] /\ t[i] \in Chunk
  BY <1>2, <1>5
<1>8. /\ \A i \in 1..Len(t) : At(t, i) = s[pos(i)]
      /\ \A i \in Int : i \notin 1..Len(t) => At(t, i) = NoChunk
  BY <1>7 DEF At
<1>9. \A i \in 1..Len(s) : /\ m.chunks[s[i]].next = At(s, i + 1) /\ m.chunks[s[i]].prev = At(s, i - 1)
                           /\ s[i] = p => i = k - 1
                           /\ s[i] = n => i = k + 1
                           /\ s[i] = c => i = k
  <2>1. \A i \in Int : At(s, i) # NoChunk => i \in 1..Len(s)
    BY <1>2
  <2>2. ASSUME NEW i \in 1..Len(s), s[i] = p PROVE i = k - 1
    <3>1. k - 1 \in 1..Len(s)
      BY <1>2, <1>3, <2>1, <2>2
    <3> QED BY <1>2, <1>3, <2>2, <3>1
  <2>3. ASSUME NEW i \in 1..Len(s), s[i] = n PROVE i = k + 1
    <3>1. k + 1 \in 1..Len(s)
      BY <1>2, <1>3, <2>1, <2>3
    <3> QED BY <1>2, <1>3, <2>3, <3>1
  <2> QED BY <1>2, <2>2, <2>3 DEF Linked
<1>10. \A i \in 1..Len(s) : i # k =>
          /\ r.chunks[s[i]].next = IF i = k - 1 THEN At(s, k + 1) ELSE At(s, i + 1)
          /\ r.chunks[s[i]].prev = IF i = k + 1 THEN At(s, k - 1) ELSE At(s, i - 1)
  <2> SUFFICES ASSUME NEW i \in 1..Len(s), i # k
               PROVE  /\ r.chunks[s[i]].next = IF i = k - 1 THEN At(s, k + 1) ELSE At(s, i + 1)
                      /\ r.chunks[s[i]].prev = IF i = k + 1 THEN At(s, k - 1) ELSE At(s, i - 1)
    OBVIOUS
  <2>1. s[i] \in Chunk /\ s[i] # c
    BY <1>2
  <2>2. s[i] = p <=> i = k - 1
    BY <1>2, <1>3, <1>9
  <2>3. s[i] = n <=> i = k + 1
    BY <1>2, <1>3, <1>9
  <2> QED BY <1>3, <1>4, <1>9, <2>1, <2>2, <2>3
<1>11. ASSUME NEW i \in 1..Len(t)
       PROVE  r.chunks[t[i]].next = At(t, i + 1) /\ r.chunks[t[i]].prev = At(t, i - 1)
  <2>1. CASE i < k
    <3>1. /\ t[i] = s[i] /\ i \in 1..Len(s) /\ i # k
          /\ At(t, i - 1) = At(s, i - 1)
      BY <1>2, <1>5, <1>7, <1>8, <2>1
    <3>2. At(t, i + 1) = IF i = k - 1 THEN At(s, k + 1) ELSE At(s, i + 1)
      BY <1>2, <1>5, <1>7, <1>8, <2>1
    <3>3. i # k + 1
      BY <2>1
    <3> QED BY <1>10, <3>1, <3>2, <3>3
  <2>2. CASE i >= k
    <3>1. /\ t[i] = s[i + 1] /\ i + 1 \in 1..Len(s) /\ i + 1 # k /\ i + 1 # k - 1
          /\ At(t, i + 1) = At(s, i + 2)
      BY <1>2, <1>5, <1>7, <1>8, <2>2
    <3>2. At(t, i - 1) = IF i + 1 = k + 1 THEN At(s, k - 1) ELSE At(s, i)
      BY <1>2, <1>5, <1>7, <1>8, <2>2
    <3>3. (i + 1) + 1 = i + 2 /\ (i + 1) - 1 = i
      OBVIOUS
    <3> QED BY <1>10, <3>1, <3>2, <3>3
  <2> QED BY <2>1, <2>2, <1>5
<1>12. Linked(r, t)
  BY <1>5, <1>6, <1>11 DEF Linked
<1>13. Ends(r, g, t) /\ (t = <<>> => r.groups[g].lastChunk = NoChunk)
  <2>0. Len(s) \in Nat /\ Len(t) = Len(s) - 1 /\ k \in Nat /\ 1 <= k /\ k <= Len(s)
    BY <1>2, <1>5
  <2>1. /\ m.groups[g].firstChunk = s[1] /\ m.groups[g].lastChunk = s[Len(s)] /\ Len(s) > 0
        /\ 1 \in 1..Len(s) /\ Len(s) \in 1..Len(s)
    <3>1. s # <<>> /\ Len(s) > 0 /\ 1 \in 1..Len(s) /\ Len(s) \in 1..Len(s)
      BY <1>2
    <3> QED BY <1>2, <3>1 DEF Ends
  <2>2. r.groups[g].firstChunk = At(t, 1)
    <3>1. CASE k = 1
      <4>1. r.groups[g].firstChunk = At(s, 2)
        BY <1>3, <1>4, <2>1, <3>1
      <4>2. At(t, 1) = At(s, 2)
        BY <1>2, <1>5, <1>7, <1>8, <3>1
      <4> QED BY <4>1, <4>2
    <3>2. CASE k # 1
      <4>1. r.groups[g].firstChunk = s[1]
        BY <1>2, <1>4, <2>1, <3>2
      <4>2. 1 \in 1..Len(t) /\ 1 < k
        BY <1>2, <1>5, <3>2
      <4> QED BY <1>8, <4>1, <4>2
    <3> QED BY <3>1, <3>2
  <2>3. r.groups[g].lastChunk = At(t, Len(t))
    <3>1. CASE k = Len(s)
      <4>1. r.groups[g].lastChunk = At(s, Len(s) - 1)
        BY <1>3, <1>4, <2>1, <3>1
      <4>2. At(t, Len(s) - 1) = At(s, Len(s) - 1)
        <5>1. CASE Len(s) = 1
          <6>1. Len(s) - 1 \notin 1..Len(t) /\ Len(s) - 1 \notin 1..Len(s) /\ Len(s) - 1 \in Int
            BY <2>0, <5>1
          <6> QED BY <1>2, <1>8, <6>1
        <5>2. CASE Len(s) # 1
          <6>1. /\ Len(s) - 1 \in 1..Len(t) /\ Len(s) - 1 \in 1..Len(s)
                /\ Len(s) - 1 < k
            BY <2>0, <3>1, <5>2
          <6> QED BY <1>2, <1>8, <6>1
        <5> QED BY <5>1, <5>2
      <4> QED BY <1>5, <4>1, <4>2
    <3>2. CASE k # Len(s)
      <4>1. r.groups[g].lastChunk = s[Len(s)]
        <5>1. m.groups[g].lastChunk = s[Len(s)] /\ Len(s) \in 1..Len(s) /\ k \in 1..Len(s)
          BY <1>2, <2>1
        <5>2. s[Len(s)] # c
          BY <1>2, <3>2, <5>1
        <5> QED BY <1>4, <5>1, <5>2
      <4>2. Len(t) \in 1..Len(t) /\ ~(Len(t) < k) /\ Len(t) + 1 = Len(s)
        BY <2>0, <3>2
      <4>3. At(t, Len(t)) = s[Len(t) + 1]
        BY <1>8, <4>2
      <4> QED BY <4>1, <4>2, <4>3
    <3> QED BY <3>1, <3>2
  <2>4. t = <<>> => At(t, Len(t)) = NoChunk
    BY <1>8
  <2> QED BY <2>2, <2>3, <2>4 DEF Ends
<1>14. KeepsLinks(m, r, Chunk \ Range(s))
  <2> SUFFICES ASSUME NEW x \in Chunk \ Range(s)
               PROVE  r.chunks[x].next = m.chunks[x].next /\ r.chunks[x].prev = m.chunks[x].prev
    BY DEF KeepsLinks
  <2>1. (p \in Range(s) \/ p = NoChunk) /\ (n \in Range(s) \/ n = NoChunk) /\ c \in Range(s)
    BY <1>2, <1>3
  <2>2. x # p /\ x # n /\ x # c
    BY <2>1, RegistryAssumption
  <2> QED BY <1>4, <2>2
<1>15. r.chunks[c].next = NoChunk /\ r.chunks[c].prev = NoChunk /\ c \in Chunk
  BY <1>2, <1>4
<1> QED BY <1>4, <1>5, <1>6, <1>12, <1>13, <1>14, <1>15 DEF r, t, TakenOut

\* l is m with c linked behind the last chunk of s.
LinkedLast(m, l, s, c) ==
    LET t == Append(s, c) IN
    /\ l \in Mem /\ SameData(m, l) /\ l.groups = m.groups /\ Linked(l, t)
    /\ KeepsLinks(m, l, Chunk \ Range(t))
    /\ Range(t) = Range(s) \cup {c} /\ Len(t) = Len(s) + 1

\* A chunk that is in no list is linked to the last one.
LEMMA LinkLast ==
    ASSUME NEW m \in Mem, NEW g \in Group, NEW s, Linked(m, s), Ends(m, g, s), s # <<>>,
           NEW c \in Chunk \ Range(s)
    PROVE  LinkedLast(m, Link(m, m.groups[g].lastChunk, c), s, c)
<1> DEFINE a == m.groups[g].lastChunk
           l == Link(m, a, c)
           t == Append(s, c)
<1>1. s \in Seq(Chunk) /\ IsInjective(s)
  BY DEF Linked
<1>2. /\ Len(s) \in Nat /\ DOMAIN s = 1..Len(s)
      /\ \A i \in 1..Len(s) : s[i] \in Chunk /\ s[i] # NoChunk /\ At(s, i) = s[i] /\ s[i] \in Range(s)
      /\ \A i, j \in 1..Len(s) : s[i] = s[j] => i = j
      /\ \A i \in Int : i \notin 1..Len(s) => At(s, i) = NoChunk
      /\ \A x \in Range(s) : \E i \in 1..Len(s) : x = s[i]
  BY <1>1, ListTypes
<1>3. Len(s) > 0 /\ Len(s) \in 1..Len(s) /\ 1 \in 1..Len(s)
  BY <1>2
<1>4. a = s[Len(s)] /\ a \in Chunk /\ a # c /\ m.chunks[a].next = NoChunk
  <2>1. a = s[Len(s)]
    BY <1>2, <1>3 DEF Ends
  <2>2. Len(s) + 1 \notin 1..Len(s) /\ Len(s) + 1 \in Int
    BY <1>2
  <2> QED BY <1>2, <1>3, <2>1, <2>2 DEF Linked
<1>5. /\ l \in Mem /\ l.groups = m.groups /\ SameData(m, l)
      /\ \A x \in Chunk :
            /\ l.chunks[x].next = IF x = a THEN c ELSE IF x = c THEN NoChunk ELSE m.chunks[x].next
            /\ l.chunks[x].prev = IF x = NoChunk THEN c ELSE IF x = c THEN a ELSE m.chunks[x].prev
  <2> HIDE DEF a
  <2>1. c \in Chunk
    OBVIOUS
  <2>2. LinkSet(m, l, a, c)
    BY <1>4, <2>1, LinkFacts
  <2> HIDE DEF l
  <2> QED BY <1>4, <2>2 DEF LinkSet
<1>6. /\ t \in Seq(Chunk) /\ IsInjective(t) /\ Range(t) = Range(s) \cup {c}
  BY <1>1, AppendNoRepeat
<1>7. Len(t) = Len(s) + 1 /\ t[Len(s) + 1] = c /\ \A i \in 1..Len(s) : t[i] = s[i]
  BY <1>1
<1> HIDE DEF l, t, a
<1>8. /\ \A i \in 1..Len(s) : At(t, i) = s[i]
      /\ At(t, Len(s) + 1) = c /\ At(t, 0) = NoChunk /\ At(t, Len(s) + 2) = NoChunk
  BY <1>2, <1>7 DEF At
<1>9. ASSUME NEW i \in 1..Len(t)
      PROVE  l.chunks[t[i]].next = At(t, i + 1) /\ l.chunks[t[i]].prev = At(t, i - 1)
  <2>1. CASE i = Len(s) + 1
    <3>1. t[i] = c /\ c \in Chunk /\ c # a /\ c # NoChunk
      BY <1>4, <1>7, <2>1, RegistryAssumption
    <3>2. At(t, i + 1) = NoChunk /\ At(t, i - 1) = a
      BY <1>2, <1>3, <1>4, <1>8, <2>1
    <3> QED BY <1>5, <3>1, <3>2
  <2>2. CASE i = Len(s)
    <3>1. t[i] = a /\ a # c /\ a # NoChunk /\ At(t, i + 1) = c
      BY <1>2, <1>3, <1>4, <1>7, <1>8, <2>2
    <3>2. At(t, i - 1) = At(s, i - 1)
      <4>1. Len(s) \in Nat /\ (i - 1 \in 1..Len(s) \/ i - 1 = 0) /\ 0 \notin 1..Len(s)
        BY <1>2, <2>2, <1>3
      <4> QED BY <4>1, <1>2, <1>8
    <3>3. m.chunks[a].prev = At(s, i - 1)
      BY <1>3, <1>4, <2>2 DEF Linked
    <3> QED BY <1>4, <1>5, <3>1, <3>2, <3>3
  <2>3. CASE i < Len(s)
    <3>0. Len(s) \in Nat /\ i \in Int /\ 1 <= i /\ i < Len(s)
      BY <1>2, <1>7, <2>3
    <3>1. i \in 1..Len(s) /\ i + 1 \in 1..Len(s) /\ i # Len(s)
      BY <3>0
    <3>2. t[i] = s[i] /\ s[i] \in Chunk /\ s[i] # NoChunk /\ s[i] # a /\ s[i] # c
      <4>1. t[i] = s[i] /\ s[i] \in Chunk /\ s[i] # NoChunk /\ s[i] \in Range(s)
        BY <1>2, <1>7, <3>1
      <4>2. s[i] # s[Len(s)]
        BY <1>2, <1>3, <3>1
      <4> QED BY <1>4, <4>1, <4>2
    <3>3. At(t, i + 1) = At(s, i + 1) /\ At(t, i - 1) = At(s, i - 1)
      <4>1. (i - 1 \in 1..Len(s) \/ i - 1 = 0) /\ 0 \notin 1..Len(s) /\ 0 \in Int
        BY <3>0
      <4>2. At(t, i + 1) = At(s, i + 1)
        BY <3>1, <1>2, <1>8
      <4>3. At(s, 0) = At(t, 0)
        BY <4>1, <1>2, <1>8
      <4>4. i - 1 \in 1..Len(s) => At(t, i - 1) = At(s, i - 1)
        BY <1>2, <1>8
      <4> QED BY <4>1, <4>2, <4>3, <4>4
    <3>4. m.chunks[s[i]].next = At(s, i + 1) /\ m.chunks[s[i]].prev = At(s, i - 1)
      BY <3>1 DEF Linked
    <3> QED BY <1>5, <3>2, <3>3, <3>4
  <2>4. i \in Nat /\ 1 <= i /\ i <= Len(s) + 1 /\ Len(s) \in Nat
    BY <1>2, <1>7
  <2> QED BY <2>1, <2>2, <2>3, <2>4
<1>10. KeepsLinks(m, l, Chunk \ Range(t))
  <2>1. a \in Range(s)
    BY <1>2, <1>3, <1>4
  <2> QED BY <1>5, <1>6, <2>1, RegistryAssumption DEF KeepsLinks
<1>11. Linked(l, t)
  BY <1>6, <1>9 DEF Linked
<1> QED BY <1>5, <1>6, <1>7, <1>10, <1>11 DEF l, t, a, LinkedLast

\* Places in a sequence with a new first element.
LEMMA ConsPlaces ==
    ASSUME NEW s \in Seq(Chunk), IsInjective(s), NEW c \in Chunk \ Range(s)
    PROVE  LET t == <<c>> \o s
           IN  /\ t \in Seq(Chunk) /\ IsInjective(t) /\ Range(t) = Range(s) \cup {c}
               /\ Len(t) = Len(s) + 1 /\ t[1] = c
               /\ \A i \in 1..Len(s) : t[i + 1] = s[i]
               /\ \A i \in 2..Len(t) : t[i] = s[i - 1] /\ i - 1 \in 1..Len(s)
<1> DEFINE v == <<c>>
           t == v \o s
<1>1. v \in Seq(Chunk) /\ Len(v) = 1 /\ v[1] = c /\ DOMAIN v = {1}
  OBVIOUS
<1>2. IsInjective(v) /\ Range(v) = {c}
  BY <1>1 DEF IsInjective, Range
<1> HIDE DEF v
<1>3. t \in Seq(Chunk) /\ IsInjective(t) /\ Range(t) = Range(s) \cup {c}
  <2>1. Range(v) \cap Range(s) = {}
    BY <1>2
  <2> QED BY <1>1, <1>2, <2>1, JoinNoRepeat
<1>4. /\ Len(t) = Len(v) + Len(s) /\ \A i \in 1..Len(v) : t[i] = v[i]
      /\ \A i \in 1..Len(s) : t[Len(v) + i] = s[i]
  BY <1>1, Concatenation
<1>5. Len(s) \in Nat
  OBVIOUS
<1> HIDE DEF t
<1>6. Len(t) = Len(s) + 1 /\ t[1] = c /\ \A i \in 1..Len(s) : t[i + 1] = s[i]
  BY <1>1, <1>4, <1>5
<1>7. ASSUME NEW i \in 2..Len(t) PROVE t[i] = s[i - 1] /\ i - 1 \in 1..Len(s)
  <2>1. i - 1 \in 1..Len(s) /\ (i - 1) + 1 = i
    BY <1>5, <1>6
  <2> QED BY <1>6, <2>1
<1> QED BY <1>3, <1>6, <1>7 DEF t, v

\* c->next = h->next; c->link(h)
Before(m, c, h) == Link(WithNext(m, c, m.chunks[h].next), c, h)

\* l is m with c linked before the first chunk of s.
LinkedFirst(m, l, s, c) ==
    LET t == <<c>> \o s IN
    /\ l \in Mem /\ SameData(m, l) /\ l.groups = m.groups /\ Linked(l, t)
    /\ KeepsLinks(m, l, Chunk \ Range(t))

\* A chunk that is in no list gets the first place.
LEMMA LinkFirst ==
    ASSUME NEW m \in Mem, NEW s, Linked(m, s), s # <<>>,
           NEW c \in Chunk \ Range(s), m.chunks[c].prev = NoChunk
    PROVE  LinkedFirst(m, Before(m, c, s[1]), s, c)
<1> DEFINE h == s[1]
           n == m.chunks[h].next
           m0 == WithNext(m, c, n)
           l == Before(m, c, h)
           t == <<c>> \o s
<1>1. s \in Seq(Chunk) /\ IsInjective(s)
  BY DEF Linked
<1>2. /\ Len(s) \in Nat /\ DOMAIN s = 1..Len(s)
      /\ \A i \in 1..Len(s) : s[i] \in Chunk /\ s[i] # NoChunk /\ At(s, i) = s[i] /\ s[i] \in Range(s)
      /\ \A i, j \in 1..Len(s) : s[i] = s[j] => i = j
      /\ \A i \in Int : i \notin 1..Len(s) => At(s, i) = NoChunk
      /\ \A x \in Range(s) : \E i \in 1..Len(s) : x = s[i]
  BY <1>1, ListTypes
<1>3. Len(s) > 0 /\ 1 \in 1..Len(s)
  BY <1>2
<1>4. /\ h \in Chunk /\ h # c /\ h # NoChunk /\ h \in Range(s) /\ c \in Chunk /\ c # NoChunk
      /\ n = At(s, 2) /\ n \in ChunkPtr /\ c \in ChunkPtr /\ m.chunks[h].prev = NoChunk
  <2>1. h \in Chunk /\ h # NoChunk /\ h \in Range(s) /\ c \in Chunk /\ c # NoChunk /\ h # c
    BY <1>2, <1>3, RegistryAssumption
  <2>2. n = At(s, 1 + 1) /\ m.chunks[h].prev = At(s, 1 - 1)
    BY <1>3 DEF Linked
  <2>3. 1 + 1 = 2 /\ 1 - 1 \notin 1..Len(s) /\ 1 - 1 \in Int
    OBVIOUS
  <2>4. n \in ChunkPtr
    BY <2>1 DEF Mem, ChunkRec
  <2> QED BY <1>2, <2>1, <2>2, <2>3, <2>4 DEF ChunkPtr
<1>5. /\ t \in Seq(Chunk) /\ IsInjective(t) /\ Range(t) = Range(s) \cup {c}
      /\ Len(t) = Len(s) + 1 /\ t[1] = c
      /\ \A i \in 1..Len(s) : t[i + 1] = s[i]
      /\ \A i \in 2..Len(t) : t[i] = s[i - 1] /\ i - 1 \in 1..Len(s)
  BY <1>1, ConsPlaces
<1>6. l = Link(m0, c, h)
  BY DEF Before
<1> HIDE DEF h, n, t, l
<1>7. NextSet(m, m0, c, n)
  BY <1>4, SetNext
<1> HIDE DEF m0
<1>8. LinkSet(m0, l, c, h)
  <2>1. m0 \in Mem
    BY <1>7 DEF NextSet
  <2> QED BY <1>4, <1>6, <2>1, LinkFacts
<1>9. /\ l \in Mem /\ SameData(m, l) /\ l.groups = m.groups
      /\ \A x \in Chunk :
            /\ l.chunks[x].next = IF x = c THEN h ELSE IF x = h THEN n ELSE m.chunks[x].next
            /\ l.chunks[x].prev = IF x = n THEN h ELSE IF x = h THEN c ELSE m.chunks[x].prev
  BY <1>4, <1>7, <1>8 DEF NextSet, LinkSet, SameData
<1>10. \A i \in 1..Len(s) : s[i] = n <=> i = 2
  BY <1>2, <1>4
<1>11. ASSUME NEW i \in 1..Len(s)
       PROVE  /\ l.chunks[s[i]].next = At(s, i + 1)
              /\ l.chunks[s[i]].prev = IF i = 1 THEN c ELSE At(s, i - 1)
  <2>1. s[i] \in Chunk /\ s[i] # c /\ (s[i] = h <=> i = 1)
    BY <1>2, <1>3 DEF h
  <2>2. m.chunks[s[i]].next = At(s, i + 1) /\ m.chunks[s[i]].prev = At(s, i - 1)
    BY DEF Linked
  <2>3. At(s, 1) = h
    BY <1>2, <1>3 DEF h
  <2> QED BY <1>4, <1>9, <1>10, <2>1, <2>2, <2>3
<1>12. /\ \A i \in 1..Len(s) : At(t, i + 1) = s[i]
       /\ At(t, 1) = c /\ At(t, 0) = NoChunk /\ At(t, Len(s) + 2) = NoChunk
  BY <1>2, <1>5 DEF At
<1>13. ASSUME NEW i \in 1..Len(t)
       PROVE  l.chunks[t[i]].next = At(t, i + 1) /\ l.chunks[t[i]].prev = At(t, i - 1)
  <2>0. i \in Int /\ 1 <= i /\ i <= Len(s) + 1 /\ Len(s) \in Nat /\ 1 <= Len(s)
    BY <1>2, <1>3, <1>5
  <2>1. CASE i = 1
    <3>1. c # n /\ c # h
      BY <1>2, <1>4 DEF At
    <3>2. At(t, 2) = h /\ At(t, i - 1) = NoChunk
      <4>1. At(t, 1 + 1) = s[1]
        BY <1>3, <1>12
      <4> QED BY <1>12, <2>1, <4>1 DEF h
    <3> QED BY <1>4, <1>5, <1>9, <2>1, <3>1, <3>2
  <2>2. CASE i # 1
    <3>1. i - 1 \in 1..Len(s) /\ t[i] = s[i - 1]
      BY <1>5, <2>0, <2>2
    <3>2. l.chunks[s[i - 1]].next = At(s, (i - 1) + 1)
          /\ l.chunks[s[i - 1]].prev = IF i - 1 = 1 THEN c ELSE At(s, (i - 1) - 1)
      BY <1>11, <3>1
    <3>3. At(t, i + 1) = At(s, i)
      <4>1. CASE i \in 1..Len(s)
        BY <1>2, <1>12, <4>1
      <4>2. CASE i = Len(s) + 1
        <5>1. i \notin 1..Len(s) /\ i + 1 = Len(s) + 2
          BY <2>0, <4>2
        <5> QED BY <1>2, <1>12, <2>0, <5>1
      <4> QED BY <2>0, <4>1, <4>2
    <3>4. At(t, i - 1) = IF i - 1 = 1 THEN c ELSE At(s, (i - 1) - 1)
      <4>1. CASE i - 1 = 1
        BY <1>12, <4>1
      <4>2. CASE i - 1 # 1
        <5>1. i - 2 \in 1..Len(s) /\ (i - 2) + 1 = i - 1 /\ (i - 1) - 1 = i - 2
          BY <2>0, <2>2, <4>2
        <5> QED BY <1>2, <1>12, <4>2, <5>1
      <4> QED BY <4>1, <4>2
    <3>5. (i - 1) + 1 = i
      BY <2>0
    <3> QED BY <3>1, <3>2, <3>3, <3>4, <3>5
  <2> QED BY <2>1, <2>2
<1>14. KeepsLinks(m, l, Chunk \ Range(t))
  <2>1. n \in Range(s) \/ n = NoChunk
    BY <1>2, <1>4 DEF At
  <2> QED BY <1>4, <1>5, <1>9, <2>1, RegistryAssumption DEF KeepsLinks
<1>15. Linked(l, t)
  BY <1>5, <1>13 DEF Linked
<1> QED BY <1>9, <1>14, <1>15 DEF h, t, l, LinkedFirst

-----------------------------------------------------------------------------
(* The chunks with room.                                                   *)

\* They stay so when another chunk is taken out.
LEMMA FreeRemove ==
    ASSUME NEW m, NEW s \in Seq(Chunk), IsInjective(s), NEW k \in 1..Len(s), NEW x,
           FreeFromBut(m, s, x, s[k]), x # s[k]
    PROVE  FreeFrom(m, RemoveAt(s, k), x)
<1> DEFINE t == RemoveAt(s, k)
<1>1. Len(s) \in Nat /\ DOMAIN s = 1..Len(s) /\ \A i, j \in 1..Len(s) : s[i] = s[j] => i = j
  BY DEF IsInjective
<1>2. /\ t \in Seq(Chunk) /\ Len(t) = Len(s) - 1
      /\ \A i \in 1..(Len(s) - 1) : t[i] = s[IF i < k THEN i ELSE i + 1]
  BY RemoveAtPlaces
<1>3. PICK i \in 1..Len(s) : s[i] = x /\ \A j \in i..Len(s) : s[j] # s[k] => Room(m, s[j]) > 0
  BY DEF FreeFromBut
<1> HIDE DEF t
<1>4. i # k
  BY <1>3
<1> DEFINE p == IF i < k THEN i ELSE i - 1
<1>5. p \in 1..Len(t) /\ t[p] = x
  BY <1>1, <1>2, <1>3, <1>4
<1>6. ASSUME NEW j \in p..Len(t) PROVE Room(m, t[j]) > 0
  <2> DEFINE q == IF j < k THEN j ELSE j + 1
  <2>0. p \in Int /\ 1 <= p
    BY <1>5
  <2>1. j \in 1..(Len(s) - 1)
    BY <1>1, <1>2, <2>0
  <2>2. q \in i..Len(s) /\ q # k /\ q \in 1..Len(s)
    BY <1>1, <1>2, <1>4, <2>1
  <2>3. t[j] = s[q]
    BY <1>2, <2>1
  <2> HIDE DEF q
  <2>4. s[q] # s[k]
    BY <1>1, <2>2
  <2> QED BY <1>3, <2>2, <2>3, <2>4
<1> QED BY <1>5, <1>6 DEF FreeFrom, t

\* firstFree moves on to the next chunk.
LEMMA FreeNext ==
    ASSUME NEW m, NEW s \in Seq(Chunk), IsInjective(s), NEW k \in 1..Len(s), k + 1 \in 1..Len(s),
           FreeFromBut(m, s, s[k], s[k])
    PROVE  FreeFrom(m, s, s[k + 1])
<1>1. Len(s) \in Nat /\ DOMAIN s = 1..Len(s) /\ \A i, j \in 1..Len(s) : s[i] = s[j] => i = j
  BY DEF IsInjective
<1>2. \A j \in k..Len(s) : s[j] # s[k] => Room(m, s[j]) > 0
  BY <1>1 DEF FreeFromBut
<1>3. \A j \in (k + 1)..Len(s) : Room(m, s[j]) > 0
  <2> SUFFICES ASSUME NEW j \in (k + 1)..Len(s) PROVE Room(m, s[j]) > 0
    OBVIOUS
  <2>1. j \in k..Len(s) /\ j \in 1..Len(s) /\ j # k
    BY <1>1
  <2> QED BY <1>1, <1>2, <2>1
<1> QED BY <1>3 DEF FreeFrom

\* A chunk with room is added at the end, or any chunk at the front.
LEMMA FreeAppend ==
    ASSUME NEW m, NEW s \in Seq(Chunk), NEW c \in Chunk, Room(m, c) > 0
    PROVE  /\ FreeFrom(m, Append(s, c), c)
           /\ \A x : FreeFrom(m, s, x) => FreeFrom(m, Append(s, c), x)
<1> DEFINE t == Append(s, c)
<1>1. Len(s) \in Nat /\ Len(t) = Len(s) + 1 /\ t[Len(s) + 1] = c /\ \A i \in 1..Len(s) : t[i] = s[i]
  OBVIOUS
<1> HIDE DEF t
<1>2. FreeFrom(m, t, c)
  <2>1. \A j \in (Len(s) + 1)..Len(t) : j = Len(s) + 1
    BY <1>1
  <2>2. Len(s) + 1 \in 1..Len(t)
    BY <1>1
  <2> QED BY <1>1, <2>1, <2>2 DEF FreeFrom
<1>3. ASSUME NEW x, FreeFrom(m, s, x) PROVE FreeFrom(m, t, x)
  <2>1. PICK i \in 1..Len(s) : s[i] = x /\ \A j \in i..Len(s) : Room(m, s[j]) > 0
    BY <1>3 DEF FreeFrom
  <2>2. i \in 1..Len(t) /\ t[i] = x
    BY <1>1, <2>1
  <2>3. ASSUME NEW j \in i..Len(t) PROVE Room(m, t[j]) > 0
    <3>1. j = Len(s) + 1 \/ (j \in i..Len(s) /\ j \in 1..Len(s))
      BY <1>1
    <3> QED BY <1>1, <2>1, <3>1
  <2> QED BY <2>2, <2>3 DEF FreeFrom
<1> QED BY <1>2, <1>3 DEF t

LEMMA FreeCons ==
    ASSUME NEW m, NEW s \in Seq(Chunk), IsInjective(s), NEW c \in Chunk \ Range(s), NEW x, FreeFrom(m, s, x)
    PROVE  FreeFrom(m, <<c>> \o s, x)
<1> DEFINE t == <<c>> \o s
<1>1. /\ Len(t) = Len(s) + 1 /\ \A i \in 1..Len(s) : t[i + 1] = s[i]
      /\ \A i \in 2..Len(t) : t[i] = s[i - 1] /\ i - 1 \in 1..Len(s)
  BY ConsPlaces
<1>2. Len(s) \in Nat
  OBVIOUS
<1> HIDE DEF t
<1>3. PICK i \in 1..Len(s) : s[i] = x /\ \A j \in i..Len(s) : Room(m, s[j]) > 0
  BY DEF FreeFrom
<1>4. i + 1 \in 1..Len(t) /\ t[i + 1] = x
  BY <1>1, <1>2, <1>3
<1>5. ASSUME NEW j \in (i + 1)..Len(t) PROVE Room(m, t[j]) > 0
  <2>1. j \in 2..Len(t) /\ j - 1 \in i..Len(s)
    BY <1>1, <1>2
  <2> QED BY <1>1, <1>3, <2>1
<1> QED BY <1>4, <1>5 DEF FreeFrom, t

\* Room depends on pool type and entities only.
LEMMA FreeSame ==
    ASSUME NEW m, NEW r, NEW s \in Seq(Chunk), \A y \in Range(s) : Room(r, y) = Room(m, y),
           NEW x, FreeFrom(m, s, x)
    PROVE  FreeFrom(r, s, x)
<1>1. \A j \in 1..Len(s) : s[j] \in Range(s)
  BY DEF Range
<1>2. Len(s) \in Nat
  OBVIOUS
<1> QED BY <1>1, <1>2 DEF FreeFrom

\* Steps elsewhere keep the list of a group.
LEMMA ListKept ==
    ASSUME NEW m, NEW r, NEW x, NEW s, IsList(m, x, s), r.groups[x] = m.groups[x],
           KeepsLinks(m, r, Range(s)), \A y \in Range(s) : Room(r, y) = Room(m, y),
           Members(r, x) = Members(m, x)
    PROVE  IsList(r, x, s)
<1>1. s \in Seq(Chunk)
  BY DEF IsList, Linked
<1>2. Linked(r, s)
  <2>1. \A i \in 1..Len(s) : s[i] \in Range(s)
    BY <1>1 DEF Range
  <2> QED BY <2>1 DEF IsList, Linked, KeepsLinks
<1>3. Ends(r, x, s)
  BY DEF IsList, Ends
<1>4. FreeEnd(r, x, s)
  BY <1>1, FreeSame DEF IsList, FreeEnd
<1> QED BY <1>2, <1>3, <1>4 DEF IsList

-----------------------------------------------------------------------------
(* mark_free, mark_full and resize_chunk.                                  *)

\* r is m but for the ends of group g.
EndsSet(m, r, g, first, last, free) ==
    /\ r \in Mem /\ r.chunks = m.chunks /\ (\A x \in Group \ {g} : r.groups[x] = m.groups[x])
    /\ r.groups[g].firstChunk = first /\ r.groups[g].lastChunk = last /\ r.groups[g].firstFree = free
    /\ r.groups[g].chunkCount = m.groups[g].chunkCount /\ r.groups[g].size = m.groups[g].size

\* r is m but for the links of the chunks C and the ends of group g.
Relinked(m, r, g, C) ==
    /\ r \in Mem /\ SameData(m, r) /\ KeepsLinks(m, r, Chunk \ C)
    /\ \A x \in Group : /\ r.groups[x].chunkCount = m.groups[x].chunkCount
                        /\ r.groups[x].size = m.groups[x].size
                        /\ x # g => r.groups[x] = m.groups[x]

LEMMA SameRoom ==
    ASSUME NEW m, NEW r, SameData(m, r)
    PROVE  /\ \A x \in Chunk : Room(r, x) = Room(m, x)
           /\ \A x : Members(r, x) = Members(m, x)
BY DEF SameData, Room, Count, Members

\* mark_free: the chunk gets the last place.
LEMMA MarkFreeList ==
    ASSUME NEW m \in Mem, NEW g \in Group, NEW s, NEW k \in 1..Len(s), IsListBut(m, g, s, s[k]),
           Room(m, s[k]) > 0
    PROVE  LET r == MarkFree(m, g, s[k])
           IN  Relinked(m, r, g, Range(s)) /\ IsList(r, g, Append(RemoveAt(s, k), s[k]))
<1> DEFINE c == s[k]
           m1 == TakeOut(m, g, c)
           t == RemoveAt(s, k)
           u == Append(t, c)
           e == m1.groups[g].lastChunk
           m2 == IF e = NoChunk THEN m1 ELSE Link(m1, e, c)
           r == MarkFree(m, g, c)
           free == IF m.groups[g].firstFree = NoChunk THEN c ELSE m.groups[g].firstFree
<1>1. /\ Linked(m, s) /\ Ends(m, g, s) /\ FreeEndBut(m, g, s, c) /\ Range(s) = Members(m, g)
      /\ s \in Seq(Chunk) /\ IsInjective(s) /\ c \in Chunk /\ c \in Range(s)
  <2>1. Linked(m, s) /\ s \in Seq(Chunk) /\ IsInjective(s)
    BY DEF IsListBut, Linked
  <2> QED BY <2>1, ListTypes DEF IsListBut
<1>2. /\ m1 \in Mem /\ SameData(m, m1) /\ SameGroups(m, m1, g)
      /\ Linked(m1, t) /\ Ends(m1, g, t) /\ (t = <<>> => m1.groups[g].lastChunk = NoChunk)
      /\ m1.chunks[c].next = NoChunk /\ m1.chunks[c].prev = NoChunk
      /\ KeepsLinks(m, m1, Chunk \ Range(s))
      /\ Range(t) = Range(s) \ {c} /\ Len(t) = Len(s) - 1
  <2>1. TakenOut(m, m1, g, s, k)
    BY <1>1, TakeOutList
  <2> QED BY <2>1 DEF TakenOut
<1>r. r = [m2 EXCEPT !.groups[g].lastChunk = c,
                     !.groups[g].firstFree = IF @ = NoChunk THEN c ELSE @,
                     !.groups[g].firstChunk = IF @ = NoChunk THEN c ELSE @]
  BY DEF MarkFree
<1> HIDE DEF m1, t, r, c
<1>3. t \in Seq(Chunk) /\ IsInjective(t) /\ c \notin Range(t)
  BY <1>2 DEF Linked
<1>4. /\ u \in Seq(Chunk) /\ IsInjective(u) /\ Range(u) = Range(s)
      /\ Len(u) = Len(t) + 1 /\ u[Len(t) + 1] = c /\ \A i \in 1..Len(t) : u[i] = t[i]
  <2>1. u \in Seq(Chunk) /\ IsInjective(u) /\ Range(u) = Range(t) \cup {c}
    BY <1>1, <1>3, AppendNoRepeat
  <2> QED BY <1>1, <1>2, <1>3, <2>1
<1> HIDE DEF u
<1>5. /\ m2 \in Mem /\ SameData(m1, m2) /\ m2.groups = m1.groups /\ Linked(m2, u)
      /\ KeepsLinks(m1, m2, Chunk \ Range(u))
  <2>1. CASE t = <<>>
    <3>1. m2 = m1
      BY <1>2, <2>1
    <3>2. Len(t) = 0 /\ Len(u) = 1 /\ u[1] = c
      BY <1>4, <2>1
    <3>3. Linked(m1, u)
      <4>1. At(u, 1 + 1) = NoChunk /\ At(u, 1 - 1) = NoChunk
        BY <3>2 DEF At
      <4>2. \A i \in 1..Len(u) : i = 1
        BY <3>2
      <4> QED BY <1>2, <1>4, <3>2, <4>1, <4>2 DEF Linked
    <3> HIDE DEF m2
    <3> QED BY <1>2, <3>1, <3>3 DEF SameData, KeepsLinks
  <2>2. CASE t # <<>>
    <3>1. e = t[Len(t)] /\ e # NoChunk
      <4>1. Len(t) \in 1..Len(t)
        BY <1>3, <2>2
      <4>2. At(t, Len(t)) = t[Len(t)] /\ t[Len(t)] # NoChunk
        BY <1>3, <4>1, ListTypes
      <4> QED BY <1>2, <2>2, <4>2 DEF Ends
    <3>2. m2 = Link(m1, m1.groups[g].lastChunk, c)
      BY <3>1
    <3>3. c \in Chunk \ Range(t)
      BY <1>1, <1>3
    <3> HIDE DEF m2, e
    <3>4. LinkedLast(m1, m2, t, c)
      BY <1>2, <2>2, <3>2, <3>3, LinkLast
    <3> QED BY <3>4 DEF u, LinkedLast
  <2> QED BY <2>1, <2>2
<1> HIDE DEF m2
<1>6. EndsSet(m2, r, g, IF m2.groups[g].firstChunk = NoChunk THEN c ELSE m2.groups[g].firstChunk, c,
              IF m2.groups[g].firstFree = NoChunk THEN c ELSE m2.groups[g].firstFree)
  <2>1. c \in ChunkPtr /\ m2 \in Mem
    BY <1>1, <1>5 DEF ChunkPtr
  <2>2. r.chunks = m2.chunks /\ \A x \in Group \ {g} : r.groups[x] = m2.groups[x]
    BY <1>r, <2>1 DEF Mem
  <2>3. r.groups[g] = [m2.groups[g] EXCEPT !.lastChunk = c,
                           !.firstFree = IF m2.groups[g].firstFree = NoChunk THEN c ELSE m2.groups[g].firstFree,
                           !.firstChunk = IF m2.groups[g].firstChunk = NoChunk THEN c ELSE m2.groups[g].firstChunk]
    BY <1>r, <2>1 DEF Mem, GroupRec
  <2>4. m2.groups[g] \in GroupRec
    BY <2>1 DEF Mem
  <2>5. r.groups[g] \in GroupRec
    BY <2>1, <2>3, <2>4 DEF GroupRec
  <2>6. r \in Mem
    BY <1>r, <2>1, <2>2, <2>5 DEF Mem
  <2> QED BY <2>1, <2>2, <2>3, <2>4, <2>6 DEF EndsSet, GroupRec
<1>7. r.groups[g].firstFree = free
  BY <1>2, <1>5, <1>6 DEF EndsSet, SameGroups
<1>8. SameData(m, r)
  BY <1>2, <1>5, <1>6 DEF EndsSet, SameData
<1>9. Relinked(m, r, g, Range(s))
  <2>1. KeepsLinks(m, r, Chunk \ Range(s))
    BY <1>2, <1>4, <1>5, <1>6 DEF EndsSet, KeepsLinks
  <2> QED BY <1>2, <1>5, <1>6, <1>8, <2>1 DEF EndsSet, SameGroups, Relinked
<1>10. Linked(r, u)
  BY <1>5, <1>6 DEF Linked, EndsSet
<1>11. Ends(r, g, u)
  <2>1. r.groups[g].lastChunk = At(u, Len(u))
    <3>1. Len(t) \in Nat
      BY <1>3
    <3> QED BY <1>4, <1>6, <3>1 DEF EndsSet, At
  <2>2. r.groups[g].firstChunk = At(u, 1)
    <3>1. m2.groups[g].firstChunk = At(t, 1)
      BY <1>2, <1>5 DEF Ends
    <3>2. CASE t = <<>>
      <4>1. Len(t) = 0
        BY <3>2
      <4>2. At(t, 1) = NoChunk /\ At(u, 1) = c
        BY <1>4, <4>1 DEF At
      <4> QED BY <1>6, <3>1, <4>2 DEF EndsSet
    <3>3. CASE t # <<>>
      <4>1. 1 \in 1..Len(t) /\ Len(t) \in Nat
        BY <1>3, <3>3
      <4>2. At(t, 1) = t[1] /\ t[1] # NoChunk
        BY <1>3, <4>1, ListTypes
      <4>3. At(u, 1) = t[1]
        BY <1>4, <4>1 DEF At
      <4> QED BY <1>6, <3>1, <4>2, <4>3 DEF EndsSet
    <3> QED BY <3>2, <3>3
  <2> QED BY <2>1, <2>2 DEF Ends
<1>12. FreeEnd(r, g, u)
  <2>1. Room(r, c) > 0 /\ \A x \in Chunk : Room(r, x) = Room(m, x)
    BY <1>1, <1>8, SameRoom DEF c
  <2>2. /\ FreeFrom(r, u, c)
        /\ \A x : FreeFrom(r, t, x) => FreeFrom(r, u, x)
    BY <1>1, <1>3, <2>1, FreeAppend DEF u
  <2>3. ASSUME m.groups[g].firstFree # NoChunk, m.groups[g].firstFree # c
        PROVE  FreeFrom(r, u, m.groups[g].firstFree)
    <3> DEFINE x == m.groups[g].firstFree
    <3>1. FreeFromBut(m, s, x, c)
      BY <1>1, <2>3 DEF FreeEndBut
    <3>2. FreeFrom(m, t, x)
      BY <1>1, <2>3, <3>1, FreeRemove DEF c, t
    <3> HIDE DEF x
    <3>3. \A y \in Range(t) : Room(r, y) = Room(m, y)
      BY <1>3, <2>1 DEF Range
    <3>4. FreeFrom(r, t, x)
      BY <1>3, <3>2, <3>3, FreeSame
    <3> QED BY <2>2, <3>4 DEF x
  <2> QED BY <1>7, <2>2, <2>3 DEF FreeEnd
<1>13. Range(u) = Members(r, g)
  BY <1>1, <1>4, <1>8, SameRoom
<1> QED BY <1>9, <1>10, <1>11, <1>12, <1>13 DEF IsList, r, u, t, c

\* mark_full of firstFree: the next chunk is the first with room.
LEMMA MarkFullFirst ==
    ASSUME NEW m \in Mem, NEW g \in Group, NEW s, NEW k \in 1..Len(s), IsListBut(m, g, s, s[k]),
           m.groups[g].firstFree = s[k]
    PROVE  LET r == MarkFull(m, g, s[k])
           IN  Relinked(m, r, g, Range(s)) /\ IsList(r, g, s)
<1> DEFINE c == s[k]
           r == MarkFull(m, g, c)
           n == m.chunks[c].next
<1>1. /\ Linked(m, s) /\ Ends(m, g, s) /\ FreeEndBut(m, g, s, c) /\ Range(s) = Members(m, g)
      /\ s \in Seq(Chunk) /\ IsInjective(s) /\ c \in Chunk /\ c \in Range(s)
  <2>1. Linked(m, s) /\ s \in Seq(Chunk) /\ IsInjective(s)
    BY DEF IsListBut, Linked
  <2> QED BY <2>1, ListTypes DEF IsListBut
<1>2. n \in ChunkPtr /\ n = At(s, k + 1)
  BY <1>1 DEF Mem, ChunkRec, Linked
<1>3. r = [m EXCEPT !.groups[g].firstFree = n]
  BY DEF MarkFull
<1> HIDE DEF r, n
<1>4. EndsSet(m, r, g, m.groups[g].firstChunk, m.groups[g].lastChunk, n)
  BY <1>2, <1>3 DEF EndsSet, Mem, GroupRec
<1>5. SameData(m, r) /\ Relinked(m, r, g, Range(s))
  BY <1>4 DEF EndsSet, SameData, Relinked, KeepsLinks
<1>6. Linked(r, s) /\ Ends(r, g, s)
  BY <1>1, <1>4 DEF EndsSet, Linked, Ends
<1>7. /\ Range(s) = Members(r, g) /\ \A x \in Chunk : Room(r, x) = Room(m, x)
  BY <1>1, <1>5, SameRoom
<1>8. FreeEnd(r, g, s)
  <2>1. CASE k + 1 \in 1..Len(s)
    <3>1. n = s[k + 1]
      BY <1>2, <2>1 DEF At
    <3>2. FreeFromBut(m, s, c, c)
      BY <1>1, RegistryAssumption DEF FreeEndBut
    <3>3. FreeFrom(m, s, n)
      BY <1>1, <2>1, <3>1, <3>2, FreeNext
    <3>4. \A y \in Range(s) : Room(r, y) = Room(m, y)
      BY <1>1, <1>7 DEF Range
    <3>5. FreeFrom(r, s, n)
      BY <1>1, <3>3, <3>4, FreeSame
    <3> QED BY <1>4, <3>5 DEF FreeEnd, EndsSet
  <2>2. CASE k + 1 \notin 1..Len(s)
    BY <1>2, <1>4, <2>2 DEF FreeEnd, EndsSet, At
  <2> QED BY <2>1, <2>2
<1> QED BY <1>5, <1>6, <1>7, <1>8 DEF IsList, r

\* mark_full of another chunk: it gets the first place.
LEMMA MarkFullOther ==
    ASSUME NEW m \in Mem, NEW g \in Group, NEW s, NEW k \in 1..Len(s), IsListBut(m, g, s, s[k]),
           m.groups[g].firstFree # s[k]
    PROVE  LET r == MarkFull(m, g, s[k])
           IN  Relinked(m, r, g, Range(s)) /\ IsList(r, g, <<s[k]>> \o RemoveAt(s, k))
<1> DEFINE c == s[k]
           m1 == TakeOut(m, g, c)
           t == RemoveAt(s, k)
           u == <<c>> \o t
           h == m1.groups[g].firstChunk
           m2 == IF h = NoChunk THEN m1 ELSE Before(m1, c, h)
           r == MarkFull(m, g, c)
<1>1. /\ Linked(m, s) /\ Ends(m, g, s) /\ FreeEndBut(m, g, s, c) /\ Range(s) = Members(m, g)
      /\ s \in Seq(Chunk) /\ IsInjective(s) /\ c \in Chunk /\ c \in Range(s)
  <2>1. Linked(m, s) /\ s \in Seq(Chunk) /\ IsInjective(s)
    BY DEF IsListBut, Linked
  <2> QED BY <2>1, ListTypes DEF IsListBut
<1>2. /\ m1 \in Mem /\ SameData(m, m1) /\ SameGroups(m, m1, g)
      /\ Linked(m1, t) /\ Ends(m1, g, t) /\ (t = <<>> => m1.groups[g].lastChunk = NoChunk)
      /\ m1.chunks[c].next = NoChunk /\ m1.chunks[c].prev = NoChunk
      /\ KeepsLinks(m, m1, Chunk \ Range(s))
      /\ Range(t) = Range(s) \ {c} /\ Len(t) = Len(s) - 1
  <2>1. TakenOut(m, m1, g, s, k)
    BY <1>1, TakeOutList
  <2> QED BY <2>1 DEF TakenOut
<1>r. r = [m2 EXCEPT !.groups[g].firstChunk = c,
                     !.groups[g].lastChunk = IF @ = NoChunk THEN c ELSE @]
  BY DEF MarkFull, Before, WithNext
<1> HIDE DEF m1, t, r, c
<1>3. t \in Seq(Chunk) /\ IsInjective(t) /\ c \in Chunk \ Range(t) /\ Len(t) \in Nat
  BY <1>1, <1>2 DEF Linked
<1>4. /\ u \in Seq(Chunk) /\ IsInjective(u) /\ Range(u) = Range(s)
      /\ Len(u) = Len(t) + 1 /\ u[1] = c /\ \A i \in 1..Len(t) : u[i + 1] = t[i]
  <2>1. /\ u \in Seq(Chunk) /\ IsInjective(u) /\ Range(u) = Range(t) \cup {c}
        /\ Len(u) = Len(t) + 1 /\ u[1] = c /\ \A i \in 1..Len(t) : u[i + 1] = t[i]
    BY <1>3, ConsPlaces
  <2> QED BY <1>1, <1>2, <2>1
<1> HIDE DEF u
<1>5. /\ m2 \in Mem /\ SameData(m1, m2) /\ m2.groups = m1.groups /\ Linked(m2, u)
      /\ KeepsLinks(m1, m2, Chunk \ Range(u))
  <2>1. CASE t = <<>>
    <3>0. Len(t) = 0 /\ 1 \notin 1..0
      BY <2>1
    <3>1. m2 = m1
      BY <1>2, <3>0 DEF Ends, At
    <3>2. Len(t) = 0 /\ Len(u) = 1 /\ u[1] = c
      BY <1>4, <2>1
    <3>3. Linked(m1, u)
      <4>1. At(u, 1 + 1) = NoChunk /\ At(u, 1 - 1) = NoChunk
        BY <3>2 DEF At
      <4>2. \A i \in 1..Len(u) : i = 1
        BY <3>2
      <4> QED BY <1>2, <1>4, <3>2, <4>1, <4>2 DEF Linked
    <3> HIDE DEF m2
    <3> QED BY <1>2, <3>1, <3>3 DEF SameData, KeepsLinks
  <2>2. CASE t # <<>>
    <3>1. h = t[1] /\ h # NoChunk
      <4>1. 1 \in 1..Len(t)
        BY <1>3, <2>2
      <4>2. At(t, 1) = t[1] /\ t[1] # NoChunk
        BY <1>3, <4>1, ListTypes
      <4> QED BY <1>2, <2>2, <4>2 DEF Ends
    <3>2. m2 = Before(m1, c, t[1])
      BY <3>1
    <3> HIDE DEF m2, h
    <3>4. LinkedFirst(m1, m2, t, c)
      BY <1>2, <1>3, <2>2, <3>2, LinkFirst
    <3> QED BY <3>4 DEF u, LinkedFirst
  <2> QED BY <2>1, <2>2
<1> HIDE DEF m2
<1>6. EndsSet(m2, r, g, c, IF m2.groups[g].lastChunk = NoChunk THEN c ELSE m2.groups[g].lastChunk,
              m2.groups[g].firstFree)
  <2>1. c \in ChunkPtr /\ m2 \in Mem
    BY <1>1, <1>5 DEF ChunkPtr
  <2>2. r.chunks = m2.chunks /\ \A x \in Group \ {g} : r.groups[x] = m2.groups[x]
    BY <1>r, <2>1 DEF Mem
  <2>3. r.groups[g] = [m2.groups[g] EXCEPT !.firstChunk = c,
                           !.lastChunk = IF m2.groups[g].lastChunk = NoChunk THEN c ELSE m2.groups[g].lastChunk]
    BY <1>r, <2>1 DEF Mem, GroupRec
  <2>4. m2.groups[g] \in GroupRec
    BY <2>1 DEF Mem
  <2>5. r.groups[g] \in GroupRec
    BY <2>1, <2>3, <2>4 DEF GroupRec
  <2>6. r \in Mem
    BY <1>r, <2>1, <2>2, <2>5 DEF Mem
  <2> QED BY <2>1, <2>2, <2>3, <2>4, <2>6 DEF EndsSet, GroupRec
<1>7. r.groups[g].firstFree = m.groups[g].firstFree
  BY <1>2, <1>5, <1>6 DEF EndsSet, SameGroups
<1>8. SameData(m, r)
  BY <1>2, <1>5, <1>6 DEF EndsSet, SameData
<1>9. Relinked(m, r, g, Range(s))
  <2>1. KeepsLinks(m, r, Chunk \ Range(s))
    BY <1>2, <1>4, <1>5, <1>6 DEF EndsSet, KeepsLinks
  <2> QED BY <1>2, <1>5, <1>6, <1>8, <2>1 DEF EndsSet, SameGroups, Relinked
<1>10. Linked(r, u)
  BY <1>5, <1>6 DEF Linked, EndsSet
<1>11. Ends(r, g, u)
  <2>1. r.groups[g].firstChunk = At(u, 1)
    BY <1>3, <1>4, <1>6 DEF EndsSet, At
  <2>2. r.groups[g].lastChunk = At(u, Len(u))
    <3>2. CASE t = <<>>
      <4>1. Len(t) = 0 /\ m2.groups[g].lastChunk = NoChunk
        BY <1>2, <1>5, <3>2
      <4>2. At(u, Len(u)) = c
        BY <1>4, <4>1 DEF At
      <4> QED BY <1>6, <4>1, <4>2 DEF EndsSet
    <3>3. CASE t # <<>>
      <4>1. Len(t) \in 1..Len(t)
        BY <1>3, <3>3
      <4>2. At(t, Len(t)) = t[Len(t)] /\ t[Len(t)] # NoChunk
        BY <1>3, <4>1, ListTypes
      <4>3. At(u, Len(u)) = t[Len(t)]
        BY <1>3, <1>4, <4>1 DEF At
      <4>4. m2.groups[g].lastChunk = t[Len(t)]
        BY <1>2, <1>5, <3>3, <4>2 DEF Ends
      <4> QED BY <1>6, <4>2, <4>3, <4>4 DEF EndsSet
    <3> QED BY <3>2, <3>3
  <2> QED BY <2>1, <2>2 DEF Ends
<1>12. FreeEnd(r, g, u)
  <2>1. \A x \in Chunk : Room(r, x) = Room(m, x)
    BY <1>8, SameRoom
  <2> DEFINE x == m.groups[g].firstFree
  <2>2. ASSUME x # NoChunk PROVE FreeFrom(r, u, x)
    <3>1. FreeFromBut(m, s, x, c) /\ x # c
      BY <1>1, <2>2 DEF FreeEndBut, c
    <3> HIDE DEF x
    <3>2. FreeFrom(m, t, x)
      BY <1>1, <3>1, FreeRemove DEF c, t
    <3>3. \A y \in Range(t) : Room(r, y) = Room(m, y)
      BY <1>3, <2>1 DEF Range
    <3>4. FreeFrom(r, t, x)
      BY <1>3, <3>2, <3>3, FreeSame
    <3> QED BY <1>3, <3>4, FreeCons DEF u
  <2> QED BY <1>7, <2>2 DEF FreeEnd
<1>13. Range(u) = Members(r, g)
  BY <1>1, <1>4, <1>8, SameRoom
<1> QED BY <1>9, <1>10, <1>11, <1>12, <1>13 DEF IsList, r, u, t, c

-----------------------------------------------------------------------------
(* What the operations on a group do to all lists.                         *)

\* Every group has its list.
Lists(m) == \A g \in Group : \E s \in Seq(Chunk) : IsList(m, g, s)

\* r is m with the slots hs at the end of c, a chunk of group g.
Resized(m, r, g, c, hs) ==
    /\ r \in Mem /\ Lists(r)
    /\ \A x \in Chunk :
          /\ r.chunks[x].group = m.chunks[x].group /\ r.chunks[x].pt = m.chunks[x].pt
          /\ r.chunks[x].ents = IF x = c THEN m.chunks[x].ents \o hs ELSE m.chunks[x].ents
    /\ \A x \in Group :
          /\ r.groups[x].chunkCount = m.groups[x].chunkCount
          /\ r.groups[x].size = IF x = g THEN m.groups[x].size + Len(hs) ELSE m.groups[x].size

\* The first two assignments of resize_chunk.
Extended(m, g, c, hs) == [m EXCEPT !.groups[g].size = @ + Len(hs), !.chunks[c].ents = @ \o hs]

\* What they change.
ExtendedBy(m, r, g, c, hs) ==
    /\ r \in Mem
    /\ \A x \in Chunk :
          /\ r.chunks[x].group = m.chunks[x].group /\ r.chunks[x].pt = m.chunks[x].pt
          /\ r.chunks[x].next = m.chunks[x].next /\ r.chunks[x].prev = m.chunks[x].prev
          /\ r.chunks[x].ents = IF x = c THEN m.chunks[x].ents \o hs ELSE m.chunks[x].ents
    /\ \A x \in Group :
          /\ r.groups[x].firstChunk = m.groups[x].firstChunk
          /\ r.groups[x].lastChunk = m.groups[x].lastChunk
          /\ r.groups[x].firstFree = m.groups[x].firstFree
          /\ r.groups[x].chunkCount = m.groups[x].chunkCount
          /\ r.groups[x].size = IF x = g THEN m.groups[x].size + Len(hs) ELSE m.groups[x].size
          /\ x # g => r.groups[x] = m.groups[x]

LEMMA ExtendedFacts ==
    ASSUME NEW m \in Mem, NEW g \in Group, NEW c \in Chunk, NEW hs \in Seq(Handles)
    PROVE  ExtendedBy(m, Extended(m, g, c, hs), g, c, hs)
<1> DEFINE r == Extended(m, g, c, hs)
           ge == [m.groups[g] EXCEPT !.size = @ + Len(hs)]
           ce == [m.chunks[c] EXCEPT !.ents = @ \o hs]
<1>1. r.groups = [m.groups EXCEPT ![g] = ge] /\ r.chunks = [m.chunks EXCEPT ![c] = ce]
  BY DEF Extended, Mem
<1>2. m.groups[g] \in GroupRec /\ m.chunks[c] \in ChunkRec /\ m.groups \in [Group -> GroupRec] /\ m.chunks \in [Chunk -> ChunkRec]
  BY DEF Mem
<1>3. m.groups[g].size + Len(hs) \in Nat /\ m.chunks[c].ents \o hs \in Seq(Handles)
  <2>1. m.groups[g].size \in Nat /\ Len(hs) \in Nat /\ m.chunks[c].ents \in Seq(Handles)
    BY <1>2 DEF GroupRec, ChunkRec
  <2> QED BY <2>1, Concatenation
<1>4. ge \in GroupRec /\ ce \in ChunkRec
  BY <1>2, <1>3 DEF GroupRec, ChunkRec
<1>5. r \in Mem
  <2>1. r.chunks \in [Chunk -> ChunkRec] /\ r.groups \in [Group -> GroupRec]
    BY <1>1, <1>2, <1>4
  <2> HIDE DEF ce, ge
  <2> QED BY <2>1 DEF Mem, Extended
<1> HIDE DEF r
<1>6. \A x \in Chunk : r.chunks[x] = IF x = c THEN ce ELSE m.chunks[x]
  BY <1>1, <1>2
<1>7. \A x \in Group : r.groups[x] = IF x = g THEN ge ELSE m.groups[x]
  BY <1>1, <1>2
<1>8. /\ ge.firstChunk = m.groups[g].firstChunk /\ ge.lastChunk = m.groups[g].lastChunk
      /\ ge.firstFree = m.groups[g].firstFree /\ ge.chunkCount = m.groups[g].chunkCount
      /\ ge.size = m.groups[g].size + Len(hs)
  BY <1>2 DEF GroupRec
<1>9. /\ ce.next = m.chunks[c].next /\ ce.prev = m.chunks[c].prev /\ ce.group = m.chunks[c].group
      /\ ce.pt = m.chunks[c].pt /\ ce.ents = m.chunks[c].ents \o hs
  BY <1>2 DEF ChunkRec
<1> HIDE DEF ge, ce
<1> QED BY <1>5, <1>6, <1>7, <1>8, <1>9 DEF r, ExtendedBy

\* Groups have different chunks.
LEMMA MembersDisjoint ==
    ASSUME NEW m, NEW x, NEW y, x # y
    PROVE  Members(m, x) \cap Members(m, y) = {}
BY DEF Members

\* resize_chunk keeps the lists.
LEMMA ResizeLists ==
    ASSUME NEW m \in Mem, Lists(m), NEW g \in Group, NEW c \in Chunk, m.chunks[c].group = g,
           m.chunks[c].pt \in PoolType, NEW hs \in Seq(Handles),
           Count(m, c) + Len(hs) <= Capacity[m.chunks[c].pt]
    PROVE  Resized(m, ResizeChunk(m, g, c, hs), g, c, hs)
<1> DEFINE m1 == Extended(m, g, c, hs)
           r == ResizeChunk(m, g, c, hs)
<1>1. ExtendedBy(m, m1, g, c, hs)
  BY ExtendedFacts
<1>2. r = IF Room(m1, c) = 0 THEN MarkFull(m1, g, c) ELSE MarkFree(m1, g, c)
  BY DEF ResizeChunk, Extended
<1> HIDE DEF m1, r
<1>3. PICK s \in Seq(Chunk) : IsList(m, g, s)
  BY DEF Lists
<1>4. PICK k \in 1..Len(s) : s[k] = c
  <2>1. c \in Range(s)
    BY <1>3 DEF IsList, Members
  <2>2. IsInjective(s)
    BY <1>3 DEF IsList, Linked
  <2> QED BY <2>1, <2>2, ListTypes
<1>5. \A x \in Chunk : x # c => Room(m1, x) = Room(m, x)
  BY <1>1 DEF ExtendedBy, Room, Count
<1>6. Room(m1, c) \in Nat
  <2>1. m.chunks[c].ents \in Seq(Handles)
    BY DEF Mem, ChunkRec
  <2>2. Len(m.chunks[c].ents \o hs) = Len(m.chunks[c].ents) + Len(hs) /\ Len(m.chunks[c].ents) \in Nat /\ Len(hs) \in Nat
    BY <2>1, Concatenation
  <2>3. Capacity[m.chunks[c].pt] \in Nat
    BY StorageAssumption
  <2>4. Room(m1, c) = Capacity[m.chunks[c].pt] - (Len(m.chunks[c].ents) + Len(hs))
    BY <1>1, <2>2 DEF ExtendedBy, Room, Count
  <2> QED BY <2>2, <2>3, <2>4 DEF Count
<1>7. IsListBut(m1, g, s, c)
  <2>1. Linked(m1, s)
    <3>1. \A i \in 1..Len(s) : s[i] \in Chunk
      OBVIOUS
    <3> QED BY <1>1, <1>3, <3>1 DEF IsList, Linked, ExtendedBy
  <2>2. Ends(m1, g, s) /\ Range(s) = Members(m1, g)
    BY <1>1, <1>3 DEF IsList, Ends, ExtendedBy, Members
  <2>3. FreeEndBut(m1, g, s, c)
    <3> DEFINE x == m.groups[g].firstFree
    <3>1. ASSUME x # NoChunk PROVE FreeFromBut(m1, s, x, c)
      <4>1. FreeFrom(m, s, x)
        BY <1>3, <3>1 DEF IsList, FreeEnd
      <4>2. PICK i \in 1..Len(s) : s[i] = x /\ \A j \in i..Len(s) : Room(m, s[j]) > 0
        BY <4>1 DEF FreeFrom
      <4>3. \A j \in i..Len(s) : s[j] \in Chunk
        OBVIOUS
      <4> QED BY <1>5, <4>2, <4>3 DEF FreeFromBut
    <3> QED BY <1>1, <3>1 DEF FreeEndBut, ExtendedBy
  <2> QED BY <2>1, <2>2, <2>3 DEF IsListBut
<1>8. m1 \in Mem
  BY <1>1 DEF ExtendedBy
<1>9. Relinked(m1, r, g, Range(s)) /\ \E t \in Seq(Chunk) : IsList(r, g, t)
  <2>0. \A t : IsList(r, g, t) => t \in Seq(Chunk)
    BY DEF IsList, Linked
  <2>1. CASE Room(m1, c) = 0 /\ m1.groups[g].firstFree = c
    BY <1>2, <1>4, <1>7, <1>8, <2>0, <2>1, MarkFullFirst
  <2>2. CASE Room(m1, c) = 0 /\ m1.groups[g].firstFree # c
    BY <1>2, <1>4, <1>7, <1>8, <2>0, <2>2, MarkFullOther
  <2>3. CASE Room(m1, c) # 0
    <3>1. Room(m1, c) > 0
      BY <1>6, <2>3
    <3> QED BY <1>2, <1>4, <1>7, <1>8, <2>0, <2>3, <3>1, MarkFreeList
  <2> QED BY <2>1, <2>2, <2>3
<1>10. ASSUME NEW x \in Group, x # g PROVE \E t \in Seq(Chunk) : IsList(r, x, t)
  <2>1. PICK t \in Seq(Chunk) : IsList(m, x, t)
    BY DEF Lists
  <2>2. Range(t) = Members(m, x) /\ Range(s) = Members(m, g)
    BY <1>3, <2>1 DEF IsList
  <2>3. Range(t) \cap Range(s) = {} /\ c \notin Range(t) /\ Range(t) \subseteq Chunk
    BY <1>10, <2>2 DEF Members
  <2>4. r.groups[x] = m.groups[x]
    BY <1>1, <1>9, <1>10 DEF Relinked, ExtendedBy
  <2>5. KeepsLinks(m, r, Range(t))
    BY <1>1, <1>9, <2>3 DEF Relinked, KeepsLinks, ExtendedBy
  <2>6. \A y \in Range(t) : Room(r, y) = Room(m, y)
    <3>1. \A y \in Chunk : Room(r, y) = Room(m1, y)
      BY <1>9, SameRoom DEF Relinked
    <3> QED BY <1>5, <2>3, <3>1
  <2>7. Members(r, x) = Members(m, x)
    BY <1>1, <1>9 DEF Relinked, SameData, ExtendedBy, Members
  <2> QED BY <2>1, <2>4, <2>5, <2>6, <2>7, ListKept
<1>11. Lists(r)
  BY <1>9, <1>10 DEF Lists
<1> QED BY <1>1, <1>9, <1>11 DEF Resized, Relinked, SameData, ExtendedBy, r

\* r is m with the counts n and z of group g, and c in group o.
Recounted(m, r, g, n, z, c, o) ==
    /\ r \in Mem
    /\ \A x \in Chunk :
          /\ r.chunks[x].next = m.chunks[x].next /\ r.chunks[x].prev = m.chunks[x].prev
          /\ r.chunks[x].pt = m.chunks[x].pt /\ r.chunks[x].ents = m.chunks[x].ents
          /\ r.chunks[x].group = IF x = c THEN o ELSE m.chunks[x].group
    /\ \A x \in Group :
          /\ r.groups[x].firstChunk = m.groups[x].firstChunk
          /\ r.groups[x].lastChunk = m.groups[x].lastChunk
          /\ r.groups[x].firstFree = m.groups[x].firstFree
          /\ r.groups[x].chunkCount = IF x = g THEN n ELSE m.groups[x].chunkCount
          /\ r.groups[x].size = IF x = g THEN z ELSE m.groups[x].size
          /\ x # g => r.groups[x] = m.groups[x]

\* The first assignments of add_chunk.
Adopted(m, g, c) ==
    [m EXCEPT !.groups[g].size = @ + Count(m, c), !.groups[g].chunkCount = @ + 1, !.chunks[c].group = g]

LEMMA AdoptedFacts ==
    ASSUME NEW m \in Mem, NEW g \in Group, NEW c \in Chunk
    PROVE  Recounted(m, Adopted(m, g, c), g, m.groups[g].chunkCount + 1,
                     m.groups[g].size + Count(m, c), c, g)
<1> DEFINE r == Adopted(m, g, c)
           ge == [m.groups[g] EXCEPT !.size = m.groups[g].size + Count(m, c), !.chunkCount = m.groups[g].chunkCount + 1]
           ce == [m.chunks[c] EXCEPT !.group = g]
<1>1. r.groups = [m.groups EXCEPT ![g] = ge] /\ r.chunks = [m.chunks EXCEPT ![c] = ce]
  <2>1. r.chunks = [m.chunks EXCEPT ![c] = ce]
    BY DEF Adopted, Mem
  <2>2. r.groups = [m.groups EXCEPT ![g] = ge]
    BY DEF Adopted, Mem, GroupRec
  <2> QED BY <2>1, <2>2
<1>2. m.groups[g] \in GroupRec /\ m.chunks[c] \in ChunkRec /\ m.groups \in [Group -> GroupRec] /\ m.chunks \in [Chunk -> ChunkRec]
  BY DEF Mem
<1>3. m.groups[g].size + Count(m, c) \in Nat /\ m.groups[g].chunkCount + 1 \in Nat
  <2>1. m.groups[g].size \in Nat /\ m.groups[g].chunkCount \in Nat /\ m.chunks[c].ents \in Seq(Handles)
    BY <1>2 DEF GroupRec, ChunkRec
  <2>2. Count(m, c) \in Nat
    BY <2>1 DEF Count
  <2> QED BY <2>1, <2>2
<1>4. ge \in GroupRec /\ ce \in ChunkRec
  BY <1>2, <1>3 DEF GroupRec, ChunkRec
<1>5. r \in Mem
  <2>1. r.chunks \in [Chunk -> ChunkRec] /\ r.groups \in [Group -> GroupRec]
    BY <1>1, <1>2, <1>4
  <2> HIDE DEF ce, ge
  <2> QED BY <2>1 DEF Mem, Adopted
<1> HIDE DEF r
<1>6. \A x \in Chunk : r.chunks[x] = IF x = c THEN ce ELSE m.chunks[x]
  BY <1>1, <1>2
<1>7. \A x \in Group : r.groups[x] = IF x = g THEN ge ELSE m.groups[x]
  BY <1>1, <1>2
<1>8. /\ ge.firstChunk = m.groups[g].firstChunk /\ ge.lastChunk = m.groups[g].lastChunk
      /\ ge.firstFree = m.groups[g].firstFree /\ ge.chunkCount = m.groups[g].chunkCount + 1
      /\ ge.size = m.groups[g].size + Count(m, c)
  BY <1>2 DEF GroupRec
<1>9. /\ ce.next = m.chunks[c].next /\ ce.prev = m.chunks[c].prev /\ ce.group = g
      /\ ce.pt = m.chunks[c].pt /\ ce.ents = m.chunks[c].ents
  BY <1>2 DEF ChunkRec
<1> HIDE DEF ge, ce
<1> QED BY <1>5, <1>6, <1>7, <1>8, <1>9 DEF r, Recounted

\* r is m with c, which was in no group, in group g.
Added(m, r, g, c) ==
    /\ r \in Mem /\ Lists(r)
    /\ \A x \in Chunk :
          /\ r.chunks[x].group = IF x = c THEN g ELSE m.chunks[x].group
          /\ r.chunks[x].pt = m.chunks[x].pt /\ r.chunks[x].ents = m.chunks[x].ents
    /\ \A x \in Group :
          /\ r.groups[x].chunkCount = IF x = g THEN m.groups[x].chunkCount + 1 ELSE m.groups[x].chunkCount
          /\ r.groups[x].size = IF x = g THEN m.groups[x].size + Count(m, c) ELSE m.groups[x].size

\* add_chunk of a chunk with room keeps the lists.
LEMMA AddLists ==
    ASSUME NEW m \in Mem, Lists(m), NEW g \in Group, NEW c \in Chunk, m.chunks[c].group = NoGroup,
           m.chunks[c].next = NoChunk, m.chunks[c].prev = NoChunk, Room(m, c) > 0
    PROVE  Added(m, AddChunk(m, g, c), g, c)
<1> DEFINE m1 == Adopted(m, g, c)
           a == m.groups[g].lastChunk
           l == IF m.groups[g].firstChunk = NoChunk THEN m1 ELSE Link(m1, a, c)
           r == AddChunk(m, g, c)
<1>1. Recounted(m, m1, g, m.groups[g].chunkCount + 1, m.groups[g].size + Count(m, c), c, g)
  BY AdoptedFacts
<1>2. r = IF m.groups[g].firstChunk = NoChunk
          THEN [m1 EXCEPT !.groups[g].firstChunk = c, !.groups[g].lastChunk = c,
                          !.groups[g].firstFree = IF Room(m, c) > 0 THEN c ELSE @]
          ELSE [Link(m1, a, c) EXCEPT !.groups[g].lastChunk = c,
                                      !.groups[g].firstFree = IF @ = NoChunk THEN c ELSE @]
  <2>1. CASE m.groups[g].firstChunk = NoChunk
    BY <2>1 DEF AddChunk, Adopted
  <2>2. CASE m.groups[g].firstChunk # NoChunk
    <3>1. r = [Link(m1, a, c) EXCEPT !.groups[g].lastChunk = c,
                                     !.groups[g].firstFree = IF @ = NoChunk THEN c ELSE @]
      BY <2>2, Zenon DEF AddChunk, Adopted
    <3> HIDE DEF r, m1
    <3> QED BY <2>2, <3>1, Zenon
  <2> QED BY <2>1, <2>2
<1>l. l = IF m.groups[g].firstChunk = NoChunk THEN m1 ELSE Link(m1, a, c)
  OBVIOUS
<1> HIDE DEF m1, r
<1>3. PICK s \in Seq(Chunk) : IsList(m, g, s)
  BY DEF Lists
<1>4. /\ IsInjective(s) /\ Linked(m, s) /\ Ends(m, g, s) /\ FreeEnd(m, g, s) /\ Range(s) = Members(m, g)
      /\ Len(s) \in Nat /\ c \in Chunk \ Range(s)
  <2>1. Linked(m, s) /\ Ends(m, g, s) /\ FreeEnd(m, g, s) /\ Range(s) = Members(m, g)
    BY <1>3 DEF IsList
  <2>2. IsInjective(s)
    BY <2>1 DEF Linked
  <2>3. c \notin Members(m, g)
    BY StorageAssumption DEF Members
  <2>4. Len(s) \in Nat
    OBVIOUS
  <2> QED BY <2>1, <2>2, <2>3, <2>4
<1>5. m1 \in Mem /\ \A x \in Chunk : Room(m1, x) = Room(m, x)
  BY <1>1 DEF Recounted, Room, Count
<1>6. Linked(m1, s) /\ Ends(m1, g, s)
  <2>1. \A i \in 1..Len(s) : s[i] \in Chunk
    OBVIOUS
  <2> QED BY <1>1, <1>4, <2>1 DEF Linked, Ends, Recounted
<1> DEFINE u == Append(s, c)
<1>7. /\ u \in Seq(Chunk) /\ IsInjective(u) /\ Range(u) = Range(s) \cup {c}
      /\ Len(u) = Len(s) + 1 /\ u[Len(s) + 1] = c /\ \A i \in 1..Len(s) : u[i] = s[i]
  <2>1. u \in Seq(Chunk) /\ IsInjective(u) /\ Range(u) = Range(s) \cup {c}
    BY <1>4, AppendNoRepeat
  <2> QED BY <2>1
<1> HIDE DEF u
<1>8. /\ m.groups[g].firstChunk = IF s = <<>> THEN NoChunk ELSE s[1]
      /\ s # <<>> => s[1] # NoChunk /\ 1 \in 1..Len(s)
  <2>1. CASE s = <<>>
    <3>1. Len(s) = 0 /\ 1 \notin 1..0
      BY <2>1
    <3> QED BY <1>4, <2>1, <3>1 DEF Ends, At
  <2>2. CASE s # <<>>
    <3>1. 1 \in 1..Len(s)
      BY <2>2
    <3>2. At(s, 1) = s[1] /\ s[1] # NoChunk
      BY <1>4, <3>1, ListTypes
    <3> QED BY <1>4, <2>2, <3>1, <3>2 DEF Ends
  <2> QED BY <2>1, <2>2
<1>9. /\ l \in Mem /\ SameData(m1, l) /\ l.groups = m1.groups /\ Linked(l, u)
      /\ KeepsLinks(m1, l, Chunk \ Range(u))
  <2>1. CASE s = <<>>
    <3>1. l = m1
      BY <1>8, <2>1
    <3>2. Len(s) = 0 /\ Len(u) = 1 /\ u[1] = c
      BY <1>7, <2>1
    <3>3. m1.chunks[c].next = NoChunk /\ m1.chunks[c].prev = NoChunk
      BY <1>1 DEF Recounted
    <3>4. Linked(m1, u)
      <4>1. At(u, 1 + 1) = NoChunk /\ At(u, 1 - 1) = NoChunk
        BY <3>2 DEF At
      <4>2. \A i \in 1..Len(u) : i = 1
        BY <3>2
      <4> QED BY <1>7, <3>2, <3>3, <4>1, <4>2 DEF Linked
    <3> HIDE DEF l
    <3> QED BY <1>5, <3>1, <3>4 DEF SameData, KeepsLinks
  <2>2. CASE s # <<>>
    <3>1. l = Link(m1, m1.groups[g].lastChunk, c)
      BY <1>1, <1>8, <2>2 DEF Recounted
    <3> HIDE DEF l
    <3>2. LinkedLast(m1, l, s, c)
      BY <1>4, <1>5, <1>6, <2>2, <3>1, LinkLast
    <3> QED BY <3>2 DEF u, LinkedLast
  <2> QED BY <2>1, <2>2
<1> HIDE DEF l
<1>10. EndsSet(l, r, g, IF s = <<>> THEN c ELSE s[1], c,
               IF s = <<>> \/ l.groups[g].firstFree = NoChunk THEN c ELSE l.groups[g].firstFree)
  <2>1. c \in ChunkPtr /\ l \in Mem /\ l.groups[g] \in GroupRec
    BY <1>9 DEF ChunkPtr, Mem
  <2>0. s # <<>> => l.groups[g].firstChunk = s[1]
    BY <1>1, <1>8, <1>9 DEF Recounted
  <2>2. CASE s = <<>>
    <3>1. r = [l EXCEPT !.groups[g].firstChunk = c, !.groups[g].lastChunk = c,
                        !.groups[g].firstFree = IF Room(m, c) > 0 THEN c ELSE @]
      BY <1>2, <1>l, <1>8, <2>2
    <3>2. r.chunks = l.chunks /\ \A x \in Group \ {g} : r.groups[x] = l.groups[x]
      BY <3>1, <2>1 DEF Mem
    <3>3. r.groups[g] = [l.groups[g] EXCEPT !.firstChunk = c, !.lastChunk = c, !.firstFree = c]
      BY <3>1, <2>1 DEF Mem, GroupRec
    <3>5. r.groups[g] \in GroupRec
      BY <2>1, <3>3 DEF GroupRec
    <3>6. r \in Mem
      BY <3>1, <2>1, <3>2, <3>5 DEF Mem
    <3> QED BY <2>1, <2>2, <3>2, <3>3, <3>6 DEF EndsSet, GroupRec
  <2>3. CASE s # <<>>
    <3>1. r = [l EXCEPT !.groups[g].lastChunk = c, !.groups[g].firstFree = IF @ = NoChunk THEN c ELSE @]
      BY <1>2, <1>l, <1>8, <2>3
    <3>2. r.chunks = l.chunks /\ \A x \in Group \ {g} : r.groups[x] = l.groups[x]
      BY <3>1, <2>1 DEF Mem
    <3>3. r.groups[g] = [l.groups[g] EXCEPT !.lastChunk = c,
                             !.firstFree = IF l.groups[g].firstFree = NoChunk THEN c ELSE l.groups[g].firstFree]
      BY <3>1, <2>1 DEF Mem, GroupRec
    <3>5. r.groups[g] \in GroupRec
      BY <2>1, <3>3 DEF GroupRec
    <3>6. r \in Mem
      BY <3>1, <2>1, <3>2, <3>5 DEF Mem
    <3> QED BY <2>0, <2>1, <2>3, <3>2, <3>3, <3>6 DEF EndsSet, GroupRec
  <2> QED BY <2>2, <2>3
<1>11. r \in Mem /\ SameData(m1, r) /\ \A x \in Chunk : Room(r, x) = Room(m, x)
  <2>1. r \in Mem /\ SameData(m1, r)
    BY <1>9, <1>10 DEF EndsSet, SameData
  <2> QED BY <1>5, <2>1, SameRoom
<1>12. IsList(r, g, u)
  <2>1. Linked(r, u)
    BY <1>9, <1>10 DEF EndsSet, Linked
  <2>2. Ends(r, g, u)
    <3>1. At(u, Len(u)) = c
      BY <1>4, <1>7 DEF At
    <3>2. CASE s = <<>>
      <4>1. Len(s) = 0
        BY <3>2
      <4>2. At(u, 1) = c
        BY <1>7, <4>1 DEF At
      <4> QED BY <1>10, <3>1, <3>2, <4>2 DEF Ends, EndsSet
    <3>3. CASE s # <<>>
      <4>2. At(u, 1) = s[1]
        BY <1>4, <1>7, <1>8, <3>3 DEF At
      <4> QED BY <1>10, <3>1, <3>3, <4>2 DEF Ends, EndsSet
    <3> QED BY <3>2, <3>3
  <2>3. FreeEnd(r, g, u)
    <3>1. /\ FreeFrom(r, u, c)
          /\ \A x : FreeFrom(r, s, x) => FreeFrom(r, u, x)
      BY <1>11, FreeAppend DEF u
    <3>2. ASSUME s # <<>>, l.groups[g].firstFree # NoChunk
          PROVE  FreeFrom(r, s, l.groups[g].firstFree)
      <4>1. l.groups[g].firstFree = m.groups[g].firstFree
        BY <1>1, <1>9 DEF Recounted
      <4>2. FreeFrom(m, s, m.groups[g].firstFree)
        BY <1>4, <3>2, <4>1 DEF FreeEnd
      <4>3. \A y \in Range(s) : Room(r, y) = Room(m, y)
        BY <1>11 DEF Range
      <4> QED BY <4>1, <4>2, <4>3, FreeSame
    <3> QED BY <1>10, <3>1, <3>2 DEF FreeEnd, EndsSet
  <2>4. Range(u) = Members(r, g)
    BY <1>1, <1>4, <1>7, <1>11 DEF Recounted, SameData, Members
  <2> QED BY <2>1, <2>2, <2>3, <2>4 DEF IsList
<1>13. ASSUME NEW x \in Group, x # g PROVE \E t \in Seq(Chunk) : IsList(r, x, t)
  <2>1. PICK t \in Seq(Chunk) : IsList(m, x, t)
    BY DEF Lists
  <2>2. Range(t) = Members(m, x)
    BY <2>1 DEF IsList
  <2>3. Range(t) \cap Range(u) = {} /\ Range(t) \subseteq Chunk
    BY <1>4, <1>7, <1>13, <2>2, StorageAssumption DEF Members
  <2>4. r.groups[x] = m.groups[x]
    BY <1>1, <1>9, <1>10, <1>13 DEF EndsSet, Recounted
  <2>5. KeepsLinks(m, r, Range(t))
    BY <1>1, <1>9, <1>10, <2>3 DEF EndsSet, KeepsLinks, Recounted
  <2>6. \A y \in Range(t) : Room(r, y) = Room(m, y)
    BY <1>11, <2>3
  <2>7. Members(r, x) = Members(m, x)
    BY <1>1, <1>11, <1>13, StorageAssumption DEF Recounted, SameData, Members
  <2> QED BY <2>1, <2>4, <2>5, <2>6, <2>7, ListKept
<1>14. Lists(r)
  BY <1>7, <1>12, <1>13 DEF Lists
<1>15. \A x \in Group : r.groups[x].chunkCount = m1.groups[x].chunkCount /\ r.groups[x].size = m1.groups[x].size
  BY <1>9, <1>10 DEF EndsSet
<1> QED BY <1>1, <1>11, <1>14, <1>15 DEF Added, Recounted, SameData, r

\* The first assignments of remove_chunk, and the last one.
Dropping(m, g, c) ==
    [m EXCEPT !.groups[g].size = @ - Count(m, c), !.groups[g].chunkCount = @ - 1,
              !.groups[g].firstFree = IF @ = c THEN m.chunks[c].next ELSE @]
Orphaned(m, c) == [m EXCEPT !.chunks[c].group = NoGroup]

LEMMA DroppingFacts ==
    ASSUME NEW m \in Mem, NEW g \in Group, NEW c \in Chunk,
           m.groups[g].chunkCount >= 1, m.groups[g].size >= Count(m, c)
    PROVE  LET r == Dropping(m, g, c)
           IN  /\ r \in Mem /\ r.chunks = m.chunks
               /\ \A x \in Group \ {g} : r.groups[x] = m.groups[x]
               /\ r.groups[g].firstChunk = m.groups[g].firstChunk /\ r.groups[g].lastChunk = m.groups[g].lastChunk
               /\ r.groups[g].firstFree = IF m.groups[g].firstFree = c THEN m.chunks[c].next ELSE m.groups[g].firstFree
               /\ r.groups[g].chunkCount = m.groups[g].chunkCount - 1
               /\ r.groups[g].size = m.groups[g].size - Count(m, c)
<1> DEFINE r == Dropping(m, g, c)
           ge == [m.groups[g] EXCEPT !.size = m.groups[g].size - Count(m, c),
                     !.chunkCount = m.groups[g].chunkCount - 1,
                     !.firstFree = IF m.groups[g].firstFree = c THEN m.chunks[c].next ELSE m.groups[g].firstFree]
<1>1. r.chunks = m.chunks /\ r.groups = [m.groups EXCEPT ![g] = ge]
  <2>1. r.chunks = m.chunks
    BY DEF Dropping, Mem
  <2>2. r.groups = [m.groups EXCEPT ![g] = ge]
    BY DEF Dropping, Mem, GroupRec
  <2> QED BY <2>1, <2>2
<1>2. /\ m.groups[g] \in GroupRec /\ m.chunks[c] \in ChunkRec
      /\ m.groups \in [Group -> GroupRec] /\ m.chunks \in [Chunk -> ChunkRec]
  BY DEF Mem
<1>3. /\ m.groups[g].size - Count(m, c) \in Nat /\ m.groups[g].chunkCount - 1 \in Nat
      /\ m.chunks[c].next \in ChunkPtr
  <2>1. /\ m.groups[g].size \in Nat /\ m.groups[g].chunkCount \in Nat /\ m.chunks[c].ents \in Seq(Handles)
        /\ m.chunks[c].next \in ChunkPtr
    BY <1>2 DEF GroupRec, ChunkRec
  <2>2. Count(m, c) \in Nat
    BY <2>1 DEF Count
  <2> QED BY <2>1, <2>2
<1>4. ge \in GroupRec
  BY <1>2, <1>3 DEF GroupRec
<1>5. r \in Mem
  <2>1. r.chunks \in [Chunk -> ChunkRec] /\ r.groups \in [Group -> GroupRec]
    BY <1>1, <1>2, <1>4
  <2> HIDE DEF ge
  <2> QED BY <2>1 DEF Mem, Dropping
<1> HIDE DEF r
<1>6. /\ ge.firstChunk = m.groups[g].firstChunk /\ ge.lastChunk = m.groups[g].lastChunk
      /\ ge.firstFree = IF m.groups[g].firstFree = c THEN m.chunks[c].next ELSE m.groups[g].firstFree
      /\ ge.chunkCount = m.groups[g].chunkCount - 1 /\ ge.size = m.groups[g].size - Count(m, c)
  BY <1>2 DEF GroupRec
<1> HIDE DEF ge
<1>7. r.groups[g] = ge /\ \A x \in Group \ {g} : r.groups[x] = m.groups[x]
  BY <1>1, <1>2
<1> QED BY <1>1, <1>5, <1>6, <1>7 DEF r

\* r is m with c in no group.
Loosed(m, r, c) ==
    /\ r \in Mem /\ r.groups = m.groups
    /\ \A x \in Chunk :
          /\ r.chunks[x].next = m.chunks[x].next /\ r.chunks[x].prev = m.chunks[x].prev
          /\ r.chunks[x].pt = m.chunks[x].pt /\ r.chunks[x].ents = m.chunks[x].ents
          /\ r.chunks[x].group = IF x = c THEN NoGroup ELSE m.chunks[x].group

LEMMA OrphanedFacts ==
    ASSUME NEW m \in Mem, NEW c \in Chunk
    PROVE  Loosed(m, Orphaned(m, c), c)
BY DEF Orphaned, Mem, ChunkRec, Loosed

\* r is m with c out of group g.
Removed(m, r, g, c) ==
    /\ r \in Mem /\ Lists(r) /\ r.chunks[c].next = NoChunk /\ r.chunks[c].prev = NoChunk
    /\ \A x \in Chunk :
          /\ r.chunks[x].group = IF x = c THEN NoGroup ELSE m.chunks[x].group
          /\ r.chunks[x].pt = m.chunks[x].pt /\ r.chunks[x].ents = m.chunks[x].ents
    /\ \A x \in Group :
          /\ r.groups[x].chunkCount = IF x = g THEN m.groups[x].chunkCount - 1 ELSE m.groups[x].chunkCount
          /\ r.groups[x].size = IF x = g THEN m.groups[x].size - Count(m, c) ELSE m.groups[x].size

\* remove_chunk keeps the lists.
LEMMA RemoveLists ==
    ASSUME NEW m \in Mem, Lists(m), NEW g \in Group, NEW c \in Chunk, m.chunks[c].group = g,
           m.groups[g].chunkCount >= 1, m.groups[g].size >= Count(m, c)
    PROVE  Removed(m, RemoveChunk(m, g, c), g, c)
<1> DEFINE m1 == Dropping(m, g, c)
           m2 == TakeOut(m1, g, c)
           r == RemoveChunk(m, g, c)
<1>1. r = Orphaned(m2, c)
  BY DEF RemoveChunk, Dropping, Orphaned
<1>2. /\ m1 \in Mem /\ m1.chunks = m.chunks
      /\ \A x \in Group \ {g} : m1.groups[x] = m.groups[x]
      /\ m1.groups[g].firstChunk = m.groups[g].firstChunk /\ m1.groups[g].lastChunk = m.groups[g].lastChunk
      /\ m1.groups[g].firstFree = IF m.groups[g].firstFree = c THEN m.chunks[c].next ELSE m.groups[g].firstFree
      /\ m1.groups[g].chunkCount = m.groups[g].chunkCount - 1
      /\ m1.groups[g].size = m.groups[g].size - Count(m, c)
  BY DroppingFacts
<1> HIDE DEF m1, r
<1>3. PICK s \in Seq(Chunk) : IsList(m, g, s)
  BY DEF Lists
<1>4. /\ IsInjective(s) /\ Linked(m, s) /\ Ends(m, g, s) /\ FreeEnd(m, g, s) /\ Range(s) = Members(m, g)
      /\ Len(s) \in Nat /\ c \in Range(s)
  BY <1>3 DEF IsList, Linked, Members
<1>5. PICK k \in 1..Len(s) : s[k] = c
  BY <1>4, ListTypes
<1>6. Linked(m1, s) /\ Ends(m1, g, s)
  BY <1>2, <1>4 DEF Linked, Ends
<1> DEFINE t == RemoveAt(s, k)
<1>7. TakenOut(m1, m2, g, s, k)
  BY <1>2, <1>5, <1>6, TakeOutList
<1> HIDE DEF m2
<1>8. /\ m2 \in Mem /\ SameData(m1, m2) /\ SameGroups(m1, m2, g)
      /\ Linked(m2, t) /\ Ends(m2, g, t)
      /\ m2.chunks[c].next = NoChunk /\ m2.chunks[c].prev = NoChunk
      /\ KeepsLinks(m1, m2, Chunk \ Range(s)) /\ Range(t) = Range(s) \ {c} /\ Len(t) = Len(s) - 1
  BY <1>5, <1>7 DEF TakenOut
<1>9. /\ r \in Mem /\ r.groups = m2.groups
      /\ \A x \in Chunk :
            /\ r.chunks[x].next = m2.chunks[x].next /\ r.chunks[x].prev = m2.chunks[x].prev
            /\ r.chunks[x].pt = m2.chunks[x].pt /\ r.chunks[x].ents = m2.chunks[x].ents
            /\ r.chunks[x].group = IF x = c THEN NoGroup ELSE m2.chunks[x].group
  <2>1. Loosed(m2, r, c)
    BY <1>1, <1>8, OrphanedFacts
  <2> QED BY <2>1 DEF Loosed
<1>10. \A x \in Chunk :
          /\ r.chunks[x].group = IF x = c THEN NoGroup ELSE m.chunks[x].group
          /\ r.chunks[x].pt = m.chunks[x].pt /\ r.chunks[x].ents = m.chunks[x].ents
          /\ Room(r, x) = Room(m, x)
  BY <1>2, <1>8, <1>9 DEF SameData, Room, Count
<1>11. t \in Seq(Chunk) /\ IsInjective(t)
  BY <1>8 DEF Linked
<1>12. IsList(r, g, t)
  <2>1. Linked(r, t)
    <3>1. \A i \in 1..Len(t) : t[i] \in Chunk
      BY <1>11
    <3> HIDE DEF t
    <3> QED BY <1>8, <1>9, <3>1 DEF Linked
  <2>2. Ends(r, g, t)
    BY <1>8, <1>9 DEF Ends
  <2>3. FreeEnd(r, g, t)
    <3> DEFINE f == m.groups[g].firstFree
               x == IF f = c THEN m.chunks[c].next ELSE f
    <3>1. r.groups[g].firstFree = x
      BY <1>2, <1>8, <1>9 DEF SameGroups
    <3>2. ASSUME x # NoChunk PROVE FreeFrom(m, t, x)
      <4>1. f # NoChunk /\ FreeFrom(m, s, f)
        BY <1>4, <3>2, RegistryAssumption DEF FreeEnd
      <4>2. FreeFromBut(m, s, f, c)
        BY <4>1 DEF FreeFrom, FreeFromBut
      <4>3. CASE f # c
        BY <1>4, <1>5, <4>2, <4>3, FreeRemove
      <4>4. CASE f = c
        <5>1. x = At(s, k + 1)
          BY <1>4, <1>5, <4>4 DEF Linked
        <5>2. k + 1 \in 1..Len(s) /\ x = s[k + 1]
          BY <3>2, <5>1 DEF At
        <5>3. FreeFrom(m, s, x)
          BY <1>4, <1>5, <4>2, <4>4, <5>2, FreeNext
        <5>4. FreeFromBut(m, s, x, c) /\ x # c
          <6>1. FreeFromBut(m, s, x, c)
            BY <5>3 DEF FreeFrom, FreeFromBut
          <6>2. k # k + 1
            BY <1>5
          <6>3. s[k] # s[k + 1]
            BY <1>4, <5>2, <6>2, ListTypes
          <6> QED BY <1>5, <5>2, <6>1, <6>3
        <5> HIDE DEF x
        <5> QED BY <1>4, <1>5, <5>4, FreeRemove
      <4> QED BY <4>3, <4>4
    <3> HIDE DEF x
    <3>3. \A y \in Range(t) : Room(r, y) = Room(m, y)
      BY <1>10, <1>11 DEF Range
    <3> QED BY <1>11, <3>1, <3>2, <3>3, FreeSame DEF FreeEnd
  <2>4. Range(t) = Members(r, g)
    BY <1>4, <1>8, <1>10, StorageAssumption DEF Members
  <2> QED BY <2>1, <2>2, <2>3, <2>4 DEF IsList
<1>13. ASSUME NEW x \in Group, x # g PROVE \E v \in Seq(Chunk) : IsList(r, x, v)
  <2>1. PICK v \in Seq(Chunk) : IsList(m, x, v)
    BY DEF Lists
  <2>2. Range(v) = Members(m, x)
    BY <2>1 DEF IsList
  <2>3. Range(v) \cap Range(s) = {} /\ Range(v) \subseteq Chunk
    BY <1>4, <1>13, <2>2 DEF Members
  <2>4. r.groups[x] = m.groups[x]
    BY <1>2, <1>8, <1>9, <1>13 DEF SameGroups
  <2>5. KeepsLinks(m, r, Range(v))
    BY <1>2, <1>8, <1>9, <2>3 DEF KeepsLinks
  <2>6. \A y \in Range(v) : Room(r, y) = Room(m, y)
    BY <1>10, <2>3
  <2>7. Members(r, x) = Members(m, x)
    BY <1>10, <1>13, StorageAssumption DEF Members
  <2> QED BY <2>1, <2>4, <2>5, <2>6, <2>7, ListKept
<1>14. Lists(r)
  BY <1>11, <1>12, <1>13 DEF Lists
<1>15. \A x \in Group :
          /\ r.groups[x].chunkCount = IF x = g THEN m.groups[x].chunkCount - 1 ELSE m.groups[x].chunkCount
          /\ r.groups[x].size = IF x = g THEN m.groups[x].size - Count(m, c) ELSE m.groups[x].size
  BY <1>2, <1>8, <1>9 DEF SameGroups
<1>16. r.chunks[c].next = NoChunk /\ r.chunks[c].prev = NoChunk
  BY <1>8, <1>9
<1> QED BY <1>9, <1>10, <1>14, <1>15, <1>16 DEF Removed, r

-----------------------------------------------------------------------------
(* Walks along next.                                                       *)

\* A set of numbers has a least element.
LEMMA Least ==
    ASSUME NEW S \in SUBSET Nat, S # {}
    PROVE  \E x \in S : \A y \in S : x <= y
<1>1. IsWellFoundedOn(OpToRel(<, Nat), Nat)
  BY NatLessThanWellFounded
<1>2. PICK x \in S : \A y \in S : ~(<<y, x>> \in OpToRel(<, Nat))
  BY <1>1, WFMin
<1>3. \A y \in S : ~(y < x)
  BY <1>2 DEF OpToRel
<1> QED BY <1>3

\* A list is not longer than there are chunks.
LEMMA ListBound ==
    ASSUME NEW s \in Seq(Chunk), IsInjective(s)
    PROVE  Len(s) <= Cardinality(Chunk) /\ Cardinality(Chunk) \in Nat /\ Cardinality(Range(s)) = Len(s)
<1>1. Len(s) \in Nat /\ s \in [1..Len(s) -> Chunk] /\ DOMAIN s = 1..Len(s)
  OBVIOUS
<1>2. s \in Injection(1..Len(s), Chunk)
  BY <1>1 DEF Injection, IsInjective
<1>3. IsFiniteSet(Chunk)
  BY StorageAssumption
<1>4. Cardinality(1..Len(s)) = Len(s) /\ IsFiniteSet(1..Len(s))
  <2>1. IsFiniteSet(1..Len(s)) /\ Cardinality(1..Len(s)) = IF 1 > Len(s) THEN 0 ELSE Len(s) - 1 + 1
    BY <1>1, FS_Interval
  <2> QED BY <1>1, <2>1
<1>5. Cardinality(1..Len(s)) <= Cardinality(Chunk)
  BY <1>2, <1>3, FS_Injection
<1>6. Cardinality(Range(s)) = Len(s)
  <2>1. s \in Bijection(1..Len(s), Range(s))
    BY <1>1 DEF Bijection, Injection, Surjection, IsInjective, Range
  <2>2. ExistsBijection(1..Len(s), Range(s))
    BY <2>1 DEF ExistsBijection
  <2> QED BY <1>4, <2>2, FS_Bijection
<1> QED BY <1>3, <1>4, <1>5, <1>6, FS_CardinalityType

\* A walk from firstChunk along next meets the chunks of the list.
LEMMA ChunksOfList ==
    ASSUME NEW g \in Group, NEW s, IsList(mem, g, s)
    PROVE  ChunksOf(g) = s
<1> DEFINE N == Cardinality(Chunk)
           Body(f) == [i \in 1..N |->
               IF i = 1 THEN mem.groups[g].firstChunk
               ELSE IF f[i - 1] = NoChunk THEN NoChunk ELSE mem.chunks[f[i - 1]].next]
           walk == CHOOSE f : f = Body(f)
           w == [i \in 1..N |-> At(s, i)]
<1>1. /\ s \in Seq(Chunk) /\ IsInjective(s) /\ Linked(mem, s) /\ Ends(mem, g, s)
  BY DEF IsList, Linked
<1>2. /\ Len(s) \in Nat /\ DOMAIN s = 1..Len(s)
      /\ \A i \in 1..Len(s) : s[i] \in Chunk /\ s[i] # NoChunk /\ At(s, i) = s[i]
      /\ \A i \in Int : i \notin 1..Len(s) => At(s, i) = NoChunk
  BY <1>1, ListTypes
<1>3. N \in Nat /\ Len(s) <= N
  BY <1>1, ListBound
<1> HIDE DEF N
<1>4. \A i \in 2..N : At(s, i) = IF At(s, i - 1) = NoChunk THEN NoChunk ELSE mem.chunks[At(s, i - 1)].next
  <2> SUFFICES ASSUME NEW i \in 2..N
               PROVE  At(s, i) = IF At(s, i - 1) = NoChunk THEN NoChunk ELSE mem.chunks[At(s, i - 1)].next
    OBVIOUS
  <2>1. CASE i - 1 \in 1..Len(s)
    <3>1. mem.chunks[s[i - 1]].next = At(s, (i - 1) + 1)
      BY <1>1, <2>1 DEF Linked
    <3>2. (i - 1) + 1 = i
      OBVIOUS
    <3> QED BY <1>2, <2>1, <3>1, <3>2
  <2>2. CASE i - 1 \notin 1..Len(s)
    <3>1. i \notin 1..Len(s) /\ i - 1 \in Int
      BY <1>2, <2>2
    <3> QED BY <1>2, <2>2, <3>1
  <2> QED BY <2>1, <2>2
<1>5. mem.groups[g].firstChunk = At(s, 1)
  BY <1>1 DEF Ends
<1>6. w = Body(w)
  <2>1. \A i \in 1..N : w[i] = At(s, i)
    OBVIOUS
  <2>2. \A i \in 1..N : w[i] = Body(w)[i]
    <3> SUFFICES ASSUME NEW i \in 1..N PROVE w[i] = Body(w)[i]
      OBVIOUS
    <3>1. CASE i = 1
      BY <1>5, <3>1
    <3>2. CASE i # 1
      <4>1. i \in 2..N /\ i - 1 \in 1..N
        BY <1>3, <3>2
      <4>2. w[i - 1] = At(s, i - 1)
        BY <4>1
      <4>3. Body(w)[i] = IF w[i - 1] = NoChunk THEN NoChunk ELSE mem.chunks[w[i - 1]].next
        BY <3>2
      <4> HIDE DEF w, Body
      <4> QED BY <1>4, <2>1, <4>1, <4>2, <4>3
    <3> QED BY <3>1, <3>2
  <2> QED BY <2>2
<1>7. ASSUME NEW f, f = Body(f) PROVE f = w
  <2> DEFINE S == {i \in 1..N : f[i] # w[i]}
  <2>0. \A i \in 1..N : f[i] = Body(f)[i] /\ w[i] = Body(w)[i]
    BY <1>6, <1>7
  <2>1. S = {}
    <3> SUFFICES ASSUME S # {} PROVE FALSE
      OBVIOUS
    <3>1. S \in SUBSET Nat
      BY <1>3
    <3>2. PICK i \in S : \A y \in S : i <= y
      BY <3>1, Least
    <3>3. i \in 1..N /\ f[i] # w[i]
      BY <3>2
    <3>4. CASE i = 1
      BY <2>0, <3>3, <3>4
    <3>5. CASE i # 1
      <4>1. i - 1 \in 1..N /\ ~(i <= i - 1)
        BY <1>3, <3>3, <3>5
      <4>2. f[i - 1] = w[i - 1]
        BY <3>2, <4>1
      <4>3. Body(f)[i] = Body(w)[i]
        <5>1. /\ Body(f)[i] = IF f[i - 1] = NoChunk THEN NoChunk ELSE mem.chunks[f[i - 1]].next
              /\ Body(w)[i] = IF w[i - 1] = NoChunk THEN NoChunk ELSE mem.chunks[w[i - 1]].next
          BY <3>3, <3>5
        <5> HIDE DEF Body, w
        <5> QED BY <4>2, <5>1
      <4> HIDE DEF Body, w
      <4> QED BY <2>0, <3>3, <4>3
    <3> QED BY <3>4, <3>5
  <2>2. f = [i \in 1..N |-> f[i]]
    <3>1. f = [i \in 1..N |-> Body(f)[i]]
      BY <1>7
    <3> HIDE DEF Body
    <3> QED BY <2>0, <3>1
  <2>3. \A i \in 1..N : f[i] = w[i]
    BY <2>1
  <2>4. w = [i \in 1..N |-> w[i]]
    OBVIOUS
  <2> HIDE DEF w
  <2> QED BY <2>2, <2>3, <2>4
<1>8. walk = w
  <2> HIDE DEF Body, w
  <2>1. walk = Body(walk)
    BY <1>6
  <2> QED BY <1>7, <2>1
<1>9. ChunksOf(g) = SubSeq(walk, 1, Cardinality({i \in DOMAIN walk : walk[i] # NoChunk}))
  BY DEF ChunksOf, N
<1>10. {i \in DOMAIN w : w[i] # NoChunk} = 1..Len(s)
  BY <1>2, <1>3
<1>11. Cardinality(1..Len(s)) = Len(s)
  <2>1. Cardinality(1..Len(s)) = IF 1 > Len(s) THEN 0 ELSE Len(s) - 1 + 1
    BY <1>2, FS_Interval
  <2> QED BY <1>2, <2>1
<1>12. ChunksOf(g) = SubSeq(w, 1, Len(s))
  <2> HIDE DEF walk, w
  <2> QED BY <1>8, <1>9, <1>10, <1>11
<1>13. SubSeq(w, 1, Len(s)) = s
  <2>1. w \in Seq(Chunk \cup {NoChunk}) /\ Len(w) = N
    <3>1. \A i \in 1..N : At(s, i) \in Chunk \cup {NoChunk}
      BY <1>2
    <3> QED BY <1>3, <3>1
  <2>2. \A i \in 1..Len(s) : w[i] = s[i]
    BY <1>2, <1>3
  <2> HIDE DEF w
  <2>3. /\ SubSeq(w, 1, Len(s)) \in Seq(Chunk \cup {NoChunk}) /\ Len(SubSeq(w, 1, Len(s))) = Len(s)
        /\ \A i \in 1..Len(s) : SubSeq(w, 1, Len(s))[i] = w[i]
    BY <1>2, <1>3, <2>1
  <2> QED BY <1>1, <2>2, <2>3
<1> QED BY <1>12, <1>13

\* A walk from firstFree ends at null or at a chunk of the group with room for n.
LEMMA StrictFitFacts ==
    ASSUME NEW g \in Group, NEW s, IsList(mem, g, s), NEW n \in Nat
    PROVE  LET c == StrictFit(g, n) IN
           c = NoChunk \/ (c \in Range(s) /\ Room(mem, c) >= n)
<1> DEFINE N == Cardinality(Chunk)
           Done(c) == c = NoChunk \/ Room(mem, c) >= n
           Body(f) == [i \in 0..N |->
               IF i = 0 THEN mem.groups[g].firstFree
               ELSE IF Done(f[i - 1]) THEN f[i - 1] ELSE mem.chunks[f[i - 1]].next]
           walk == CHOOSE f : f = Body(f)
<1>1. /\ s \in Seq(Chunk) /\ IsInjective(s) /\ Linked(mem, s) /\ FreeEnd(mem, g, s)
  BY DEF IsList, Linked
<1>2. /\ Len(s) \in Nat /\ DOMAIN s = 1..Len(s)
      /\ \A i \in 1..Len(s) : s[i] \in Chunk /\ s[i] # NoChunk /\ At(s, i) = s[i] /\ s[i] \in Range(s)
      /\ \A i \in Int : i \notin 1..Len(s) => At(s, i) = NoChunk
  BY <1>1, ListTypes
<1>3. N \in Nat /\ Len(s) <= N
  BY <1>1, ListBound
<1>4. PICK a \in 1..(Len(s) + 1) : mem.groups[g].firstFree = At(s, a)
  <2>1. CASE mem.groups[g].firstFree = NoChunk
    <3>1. Len(s) + 1 \in 1..(Len(s) + 1) /\ Len(s) + 1 \in Int /\ Len(s) + 1 \notin 1..Len(s)
      BY <1>2
    <3> QED BY <1>2, <2>1, <3>1
  <2>2. CASE mem.groups[g].firstFree # NoChunk
    <3>1. PICK i \in 1..Len(s) : mem.groups[g].firstFree = s[i]
      BY <1>1, <2>2 DEF FreeEnd, FreeFrom
    <3>2. i \in 1..(Len(s) + 1)
      BY <1>2
    <3> QED BY <1>2, <3>1, <3>2
  <2> QED BY <2>1, <2>2
<1> DEFINE T == {j \in a..(Len(s) + 1) : Done(At(s, j))}
<1>5. PICK d \in T : \A y \in T : d <= y
  <2>1. T \in SUBSET Nat
    BY <1>2
  <2>2. Len(s) + 1 \in T
    <3>1. Len(s) + 1 \in a..(Len(s) + 1) /\ Len(s) + 1 \in Int /\ Len(s) + 1 \notin 1..Len(s)
      BY <1>2, <1>4
    <3> QED BY <1>2, <3>1
  <2> HIDE DEF T
  <2> QED BY <2>1, <2>2, Least
<1>6. d \in Nat /\ a <= d /\ d <= Len(s) + 1 /\ Done(At(s, d)) /\ a \in Nat /\ 1 <= a
  BY <1>2, <1>4, <1>5
<1>7. \A j \in a..(d - 1) : j \in 1..Len(s) /\ ~Done(s[j]) /\ mem.chunks[s[j]].next = At(s, j + 1)
  <2> SUFFICES ASSUME NEW j \in a..(d - 1)
               PROVE  j \in 1..Len(s) /\ ~Done(s[j]) /\ mem.chunks[s[j]].next = At(s, j + 1)
    OBVIOUS
  <2>1. j \in 1..Len(s) /\ j \in a..(Len(s) + 1) /\ ~(d <= j)
    BY <1>2, <1>6
  <2>2. ~Done(At(s, j))
    BY <1>5, <2>1
  <2>3. At(s, j) = s[j]
    BY <1>2, <2>1
  <2>4. mem.chunks[s[j]].next = At(s, j + 1)
    BY <1>1, <2>1 DEF Linked
  <2> HIDE DEF Done
  <2> QED BY <2>1, <2>2, <2>3, <2>4
<1> DEFINE pos(i) == IF a + i <= d THEN a + i ELSE d
           w == [i \in 0..N |-> At(s, pos(i))]
<1> HIDE DEF N, T
<1>8. \A i \in 1..N : At(s, pos(i)) = IF Done(At(s, pos(i - 1))) THEN At(s, pos(i - 1)) ELSE mem.chunks[At(s, pos(i - 1))].next
  <2> SUFFICES ASSUME NEW i \in 1..N
               PROVE  At(s, pos(i)) = IF Done(At(s, pos(i - 1))) THEN At(s, pos(i - 1)) ELSE mem.chunks[At(s, pos(i - 1))].next
    OBVIOUS
  <2>1. CASE a + i <= d
    <3>1. pos(i - 1) = a + i - 1 /\ pos(i) = a + i /\ a + i - 1 \in a..(d - 1) /\ (a + i - 1) + 1 = a + i
      BY <1>6, <2>1
    <3>2. a + i - 1 \in 1..Len(s) /\ ~Done(s[a + i - 1]) /\ mem.chunks[s[a + i - 1]].next = At(s, (a + i - 1) + 1)
      BY <1>7, <3>1
    <3>3. At(s, a + i - 1) = s[a + i - 1]
      BY <1>2, <3>2
    <3> HIDE DEF Done, pos
    <3> QED BY <3>1, <3>2, <3>3
  <2>2. CASE ~(a + i <= d)
    <3>1. pos(i - 1) = d /\ pos(i) = d
      BY <1>6, <2>2
    <3> HIDE DEF Done, pos
    <3> QED BY <1>6, <3>1
  <2> QED BY <2>1, <2>2
<1>9. w = Body(w)
  <2>1. \A i \in 0..N : w[i] = Body(w)[i]
    <3> SUFFICES ASSUME NEW i \in 0..N PROVE w[i] = Body(w)[i]
      OBVIOUS
    <3>1. CASE i = 0
      <4>1. pos(0) = a
        BY <1>6
      <4>2. w[0] = At(s, a) /\ Body(w)[0] = mem.groups[g].firstFree
        BY <3>1, <4>1
      <4> HIDE DEF w, Body
      <4> QED BY <1>4, <3>1, <4>2
    <3>2. CASE i # 0
      <4>1. i \in 1..N /\ i - 1 \in 0..N
        BY <1>3, <3>2
      <4>2. w[i - 1] = At(s, pos(i - 1)) /\ w[i] = At(s, pos(i))
        <5> HIDE DEF pos
        <5> QED BY <4>1
      <4>3. Body(w)[i] = IF Done(w[i - 1]) THEN w[i - 1] ELSE mem.chunks[w[i - 1]].next
        <5> HIDE DEF w, Done
        <5> QED BY <3>2
      <4> HIDE DEF w, Body, Done, pos
      <4> QED BY <1>8, <4>1, <4>2, <4>3
    <3> QED BY <3>1, <3>2
  <2> HIDE DEF pos, Done
  <2> QED BY <2>1
<1>10. ASSUME NEW f, f = Body(f) PROVE f = w
  <2> DEFINE S == {i \in 0..N : f[i] # w[i]}
  <2> HIDE DEF Done, pos
  <2>0. \A i \in 0..N : f[i] = Body(f)[i] /\ w[i] = Body(w)[i]
    <3> HIDE DEF Body, w
    <3> QED BY <1>9, <1>10
  <2>1. S = {}
    <3> SUFFICES ASSUME S # {} PROVE FALSE
      OBVIOUS
    <3>1. S \in SUBSET Nat
      BY <1>3
    <3>2. PICK i \in S : \A y \in S : i <= y
      BY <3>1, Least
    <3>3. i \in 0..N /\ f[i] # w[i]
      BY <3>2
    <3>4. CASE i = 0
      <4>1. Body(f)[i] = Body(w)[i]
        BY <3>3, <3>4
      <4> HIDE DEF Body, w
      <4> QED BY <2>0, <3>3, <4>1
    <3>5. CASE i # 0
      <4>1. i - 1 \in 0..N /\ ~(i <= i - 1)
        BY <1>3, <3>3, <3>5
      <4>2. f[i - 1] = w[i - 1]
        BY <3>2, <4>1
      <4>3. Body(f)[i] = Body(w)[i]
        <5>1. /\ Body(f)[i] = IF Done(f[i - 1]) THEN f[i - 1] ELSE mem.chunks[f[i - 1]].next
              /\ Body(w)[i] = IF Done(w[i - 1]) THEN w[i - 1] ELSE mem.chunks[w[i - 1]].next
          <6> HIDE DEF w
          <6> QED BY <3>3, <3>5
        <5> HIDE DEF Body, w
        <5> QED BY <4>2, <5>1
      <4> HIDE DEF Body, w
      <4> QED BY <2>0, <3>3, <4>3
    <3> QED BY <3>4, <3>5
  <2>2. f = [i \in 0..N |-> f[i]]
    <3>1. f = [i \in 0..N |-> Body(f)[i]]
      BY <1>10
    <3> HIDE DEF Body
    <3> QED BY <2>0, <3>1
  <2>3. \A i \in 0..N : f[i] = w[i]
    BY <2>1
  <2>4. w = [i \in 0..N |-> w[i]]
    OBVIOUS
  <2> HIDE DEF w
  <2> QED BY <2>2, <2>3, <2>4
<1>11. walk = w
  <2> HIDE DEF Body, w
  <2>1. walk = Body(walk)
    BY <1>9
  <2> QED BY <1>10, <2>1
<1>12. StrictFit(g, n) = walk[N]
  BY DEF StrictFit, N
<1>13. w[N] = At(s, d)
  <2>1. pos(N) = d
    BY <1>3, <1>6
  <2>2. w[N] = At(s, pos(N))
    BY <1>3
  <2> QED BY <2>1, <2>2
<1>14. StrictFit(g, n) = At(s, d)
  <2> HIDE DEF walk, w
  <2> QED BY <1>11, <1>12, <1>13
<1>15. At(s, d) = NoChunk \/ (At(s, d) \in Range(s) /\ Room(mem, At(s, d)) >= n)
  BY <1>2, <1>6
<1> QED BY <1>14, <1>15

-----------------------------------------------------------------------------
(* Sequences of sequences.                                                 *)

\* r has the elements of the first k sequences of qs, each once: r[p] is
\* element b[p] of sequence a[p].
Places(r, qs, k, a, b) ==
    /\ a \in [1..Len(r) -> 1..k] /\ b \in [1..Len(r) -> Nat]
    /\ \A p \in 1..Len(r) : b[p] \in 1..Len(qs[a[p]]) /\ r[p] = qs[a[p]][b[p]]
    /\ \A p, q \in 1..Len(r) : a[p] = a[q] /\ b[p] = b[q] => p = q
    /\ \A i \in 1..k : \A j \in 1..Len(qs[i]) : \E p \in 1..Len(r) : a[p] = i /\ b[p] = j
IsFlat(r, qs, k) == \E a, b : Places(r, qs, k, a, b)

\* The next sequence is appended.
LEMMA FlatStep ==
    ASSUME NEW S, NEW qs \in Seq(Seq(S)), NEW k \in Nat, k + 1 \in 1..Len(qs),
           NEW r \in Seq(S), IsFlat(r, qs, k)
    PROVE  IsFlat(r \o qs[k + 1], qs, k + 1)
<1> DEFINE q == qs[k + 1]
           u == r \o q
<1>1. PICK a, b : Places(r, qs, k, a, b)
  BY DEF IsFlat
<1>2. /\ a \in [1..Len(r) -> 1..k] /\ b \in [1..Len(r) -> Nat]
      /\ \A p \in 1..Len(r) : b[p] \in 1..Len(qs[a[p]]) /\ r[p] = qs[a[p]][b[p]]
      /\ \A p, o \in 1..Len(r) : a[p] = a[o] /\ b[p] = b[o] => p = o
      /\ \A i \in 1..k : \A j \in 1..Len(qs[i]) : \E p \in 1..Len(r) : a[p] = i /\ b[p] = j
  BY <1>1 DEF Places
<1>3. q \in Seq(S)
  OBVIOUS
<1>4. /\ u \in Seq(S) /\ Len(u) = Len(r) + Len(q) /\ Len(r) \in Nat /\ Len(q) \in Nat
      /\ \A i \in 1..Len(r) : u[i] = r[i]
      /\ \A i \in 1..Len(q) : u[Len(r) + i] = q[i]
  BY <1>3, Concatenation
<1> DEFINE a2 == [p \in 1..Len(u) |-> IF p <= Len(r) THEN a[p] ELSE k + 1]
           b2 == [p \in 1..Len(u) |-> IF p <= Len(r) THEN b[p] ELSE p - Len(r)]
<1> HIDE DEF u
<1>5. /\ \A p \in 1..Len(r) : p \in 1..Len(u) /\ a2[p] = a[p] /\ b2[p] = b[p]
      /\ \A j \in 1..Len(q) : Len(r) + j \in 1..Len(u) /\ a2[Len(r) + j] = k + 1 /\ b2[Len(r) + j] = j
  BY <1>4, SMTT(30)
<1>6. \A p \in 1..Len(u) : p \in 1..Len(r) \/ \E j \in 1..Len(q) : p = Len(r) + j
  <2> SUFFICES ASSUME NEW p \in 1..Len(u), p \notin 1..Len(r) PROVE \E j \in 1..Len(q) : p = Len(r) + j
    OBVIOUS
  <2>1. p - Len(r) \in 1..Len(q) /\ p = Len(r) + (p - Len(r))
    BY <1>4
  <2> QED BY <2>1
<1>7. \A p \in 1..Len(r) : a[p] \in 1..(k + 1) /\ a[p] # k + 1 /\ b[p] \in Nat
  <2>1. a \in [1..Len(r) -> 1..k] /\ b \in [1..Len(r) -> Nat]
    BY <1>2
  <2>2. \A p \in 1..Len(r) : a[p] \in 1..k /\ b[p] \in Nat
    BY <2>1
  <2>3. \A i \in 1..k : i \in 1..(k + 1) /\ i # k + 1
    OBVIOUS
  <2> QED BY <2>2, <2>3
<1>8. a2 \in [1..Len(u) -> 1..(k + 1)] /\ b2 \in [1..Len(u) -> Nat]
  <2>1. \A p \in 1..Len(u) : a2[p] \in 1..(k + 1) /\ b2[p] \in Nat
    <3> SUFFICES ASSUME NEW p \in 1..Len(u) PROVE a2[p] \in 1..(k + 1) /\ b2[p] \in Nat
      OBVIOUS
    <3> HIDE DEF a2, b2
    <3>1. CASE p \in 1..Len(r)
      BY <1>5, <1>7, <3>1
    <3>2. ASSUME NEW j \in 1..Len(q), p = Len(r) + j PROVE a2[p] \in 1..(k + 1) /\ b2[p] \in Nat
      <4>1. a2[p] = k + 1 /\ b2[p] = j
        BY <1>5, <3>2
      <4>2. k + 1 \in 1..(k + 1) /\ j \in Nat
        OBVIOUS
      <4> QED BY <4>1, <4>2
    <3> QED BY <1>6, <3>1, <3>2
  <2>2. a2 = [p \in 1..Len(u) |-> a2[p]] /\ b2 = [p \in 1..Len(u) |-> b2[p]]
    OBVIOUS
  <2> HIDE DEF a2, b2
  <2> QED BY <2>1, <2>2
<1> HIDE DEF a2, b2
<1>9. ASSUME NEW p \in 1..Len(u) PROVE b2[p] \in 1..Len(qs[a2[p]]) /\ u[p] = qs[a2[p]][b2[p]]
  <2>1. CASE p \in 1..Len(r)
    BY <1>2, <1>4, <1>5, <2>1
  <2>2. ASSUME NEW j \in 1..Len(q), p = Len(r) + j
        PROVE  b2[p] \in 1..Len(qs[a2[p]]) /\ u[p] = qs[a2[p]][b2[p]]
    <3>1. a2[p] = k + 1 /\ b2[p] = j /\ u[p] = q[j] /\ q = qs[k + 1]
      BY <1>4, <1>5, <2>2
    <3> HIDE DEF q
    <3> QED BY <3>1
  <2> QED BY <1>6, <2>1, <2>2
<1>10. ASSUME NEW p \in 1..Len(u), NEW o \in 1..Len(u), a2[p] = a2[o], b2[p] = b2[o] PROVE p = o
  <2>1. CASE p \in 1..Len(r) /\ o \in 1..Len(r)
    <3>1. a[p] = a[o] /\ b[p] = b[o]
      BY <1>5, <1>10, <2>1
    <3>2. \A x, y \in 1..Len(r) : a[x] = a[y] /\ b[x] = b[y] => x = y
      BY <1>2
    <3> QED BY <2>1, <3>1, <3>2
  <2>2. CASE (\E j \in 1..Len(q) : p = Len(r) + j) /\ (\E j \in 1..Len(q) : o = Len(r) + j)
    BY <1>5, <1>10, <2>2
  <2>3. CASE p \in 1..Len(r) /\ (\E j \in 1..Len(q) : o = Len(r) + j)
    BY <1>5, <1>7, <1>10, <2>3
  <2>4. CASE o \in 1..Len(r) /\ (\E j \in 1..Len(q) : p = Len(r) + j)
    BY <1>5, <1>7, <1>10, <2>4
  <2> QED BY <1>6, <2>1, <2>2, <2>3, <2>4
<1>11. ASSUME NEW i \in 1..(k + 1), NEW j \in 1..Len(qs[i])
       PROVE  \E p \in 1..Len(u) : a2[p] = i /\ b2[p] = j
  <2>1. CASE i = k + 1
    BY <1>5, <2>1
  <2>2. CASE i # k + 1
    <3>1. i \in 1..k
      BY <2>2
    <3>2. \E p \in 1..Len(r) : a[p] = i /\ b[p] = j
      BY <1>2, <3>1
    <3> QED BY <1>5, <3>2
  <2> QED BY <2>1, <2>2
<1>12. Places(u, qs, k + 1, a2, b2)
  BY <1>8, <1>9, <1>10, <1>11 DEF Places
<1> QED BY <1>12 DEF IsFlat, u

\* The recursive definition in FlattenSeq has a solution.
LEMMA FlattenDefined ==
    ASSUME NEW qs, NEW n \in Nat
    PROVE  \E f : f = [i \in 1..n |-> IF i = 1 THEN qs[i] ELSE f[i - 1] \o qs[i]]
<1> DEFINE Is(f, k) == f = [i \in 1..k |-> IF i = 1 THEN qs[i] ELSE f[i - 1] \o qs[i]]
           S == {k \in Nat : ~\E f : Is(f, k)}
<1>1. S = {}
  <2> SUFFICES ASSUME S # {} PROVE FALSE
    OBVIOUS
  <2>1. PICK k \in S : \A y \in S : k <= y
    <3>1. S \in SUBSET Nat
      OBVIOUS
    <3> HIDE DEF S
    <3> QED BY <3>1, Least
  <2>2. k \in Nat /\ ~\E f : Is(f, k)
    BY <2>1
  <2>3. CASE k = 0
    <3> DEFINE f == [i \in 1..0 |-> 0]
    <3>1. \A i \in 1..0 : FALSE
      OBVIOUS
    <3>2. f = [i \in 1..0 |-> IF i = 1 THEN qs[i] ELSE f[i - 1] \o qs[i]]
      BY <3>1
    <3>3. Is(f, k)
      BY <2>3, <3>2
    <3> HIDE DEF Is
    <3> QED BY <2>2, <3>3
  <2>4. CASE k # 0
    <3>1. k - 1 \in Nat /\ ~(k <= k - 1)
      BY <2>2, <2>4
    <3>2. PICK f : Is(f, k - 1)
      BY <2>1, <3>1
    <3> DEFINE h == [i \in 1..k |-> IF i < k THEN f[i] ELSE IF k = 1 THEN qs[k] ELSE f[k - 1] \o qs[k]]
               e == [i \in 1..k |-> IF i = 1 THEN qs[i] ELSE h[i - 1] \o qs[i]]
    <3>3. ASSUME NEW i \in 1..k PROVE h[i] = IF i = 1 THEN qs[i] ELSE h[i - 1] \o qs[i]
      <4>1. CASE i = k
        <5>1. i # 1 => h[i - 1] = f[i - 1]
          <6>1. i # 1 => i - 1 \in 1..k /\ i - 1 < k
            BY <2>2, <4>1
          <6> QED BY <6>1
        <5>2. h[i] = IF k = 1 THEN qs[k] ELSE f[k - 1] \o qs[k]
          BY <2>2, <4>1
        <5> HIDE DEF h
        <5> QED BY <4>1, <5>1, <5>2
      <4>2. CASE i # k
        <5>1. i \in 1..(k - 1) /\ i < k
          BY <2>2, <4>2
        <5>2. h[i] = f[i]
          BY <5>1
        <5>3. f[i] = IF i = 1 THEN qs[i] ELSE f[i - 1] \o qs[i]
          BY <3>2, <5>1
        <5>4. i # 1 => h[i - 1] = f[i - 1]
          <6>1. i # 1 => i - 1 \in 1..k /\ i - 1 < k
            BY <2>2, <5>1
          <6> QED BY <6>1
        <5> HIDE DEF h
        <5> QED BY <5>2, <5>3, <5>4
      <4> QED BY <4>1, <4>2
    <3>4. h = [i \in 1..k |-> h[i]]
      OBVIOUS
    <3>5. Is(h, k)
      <4> HIDE DEF h
      <4> QED BY <3>3, <3>4
    <3> HIDE DEF Is, h
    <3> QED BY <2>2, <3>5
  <2> QED BY <2>3, <2>4
<1>2. \E f : Is(f, n)
  <2> HIDE DEF Is
  <2> QED BY <1>1
<1> QED BY <1>2

\* FlattenSeq has every element of every sequence, once.
LEMMA FlattenFacts ==
    ASSUME NEW S, NEW qs \in Seq(Seq(S))
    PROVE  FlattenSeq(qs) \in Seq(S) /\ IsFlat(FlattenSeq(qs), qs, Len(qs))
<1>0. Len(qs) \in Nat /\ DOMAIN qs = 1..Len(qs) /\ \A i \in 1..Len(qs) : qs[i] \in Seq(S)
  OBVIOUS
<1>1. CASE Len(qs) = 0
  <2>1. FlattenSeq(qs) = qs /\ qs = <<>>
    BY <1>1 DEF FlattenSeq
  <2> DEFINE a == [p \in 1..0 |-> 1]
  <2>2. Places(<<>>, qs, 0, a, a)
    <3>1. Len(<<>>) = 0 /\ 1..0 = {}
      OBVIOUS
    <3>2. a \in [1..0 -> 1..0] /\ a \in [1..0 -> Nat]
      BY <3>1
    <3> HIDE DEF a
    <3> QED BY <3>1, <3>2 DEF Places
  <2> HIDE DEF a
  <2>3. <<>> \in Seq(S)
    OBVIOUS
  <2> QED BY <1>1, <2>1, <2>2, <2>3 DEF IsFlat
<1>2. CASE Len(qs) # 0
  <2> DEFINE n == Len(qs)
             Body(f) == [i \in 1..n |-> IF i = 1 THEN qs[i] ELSE f[i - 1] \o qs[i]]
             flatten == CHOOSE f : f = Body(f)
  <2>1. flatten = Body(flatten)
    <3>1. \E f : f = Body(f)
      BY <1>0, FlattenDefined
    <3> HIDE DEF Body
    <3> QED BY <3>1
  <2>2. FlattenSeq(qs) = flatten[n]
    BY <1>2 DEF FlattenSeq
  <2>3. \A i \in 1..n : flatten[i] = IF i = 1 THEN qs[i] ELSE flatten[i - 1] \o qs[i]
    <3> HIDE DEF flatten
    <3> QED BY <2>1
  <2> HIDE DEF flatten
  <2> DEFINE T == {i \in 1..n : ~(flatten[i] \in Seq(S) /\ IsFlat(flatten[i], qs, i))}
  <2>4. T = {}
    <3> SUFFICES ASSUME T # {} PROVE FALSE
      OBVIOUS
    <3>1. T \in SUBSET Nat
      BY <1>0
    <3>2. PICK i \in T : \A y \in T : i <= y
      BY <3>1, Least
    <3>3. i \in 1..n /\ ~(flatten[i] \in Seq(S) /\ IsFlat(flatten[i], qs, i))
      BY <3>2
    <3>4. CASE i = 1
      <4>1. flatten[i] = qs[1] /\ qs[1] \in Seq(S)
        BY <1>0, <2>3, <3>3, <3>4
      <4> DEFINE a == [p \in 1..Len(qs[1]) |-> 1]
                 b == [p \in 1..Len(qs[1]) |-> p]
      <4>2. Places(qs[1], qs, 1, a, b)
        <5>1. a \in [1..Len(qs[1]) -> 1..1] /\ b \in [1..Len(qs[1]) -> Nat]
          BY <4>1
        <5>2. \A p \in 1..Len(qs[1]) : a[p] = 1 /\ b[p] = p
          OBVIOUS
        <5>3. \A j \in 1..1 : j = 1
          OBVIOUS
        <5> HIDE DEF a, b
        <5> QED BY <5>1, <5>2, <5>3 DEF Places
      <4> HIDE DEF a, b
      <4> QED BY <3>3, <3>4, <4>1, <4>2 DEF IsFlat
    <3>5. CASE i # 1
      <4>1. i - 1 \in 1..n /\ ~(i <= i - 1) /\ i - 1 \in Nat /\ (i - 1) + 1 = i
        BY <1>0, <3>3, <3>5
      <4>2. flatten[i - 1] \in Seq(S) /\ IsFlat(flatten[i - 1], qs, i - 1)
        BY <3>2, <4>1
      <4>3. IsFlat(flatten[i - 1] \o qs[(i - 1) + 1], qs, (i - 1) + 1)
        BY <3>3, <4>1, <4>2, FlatStep
      <4>4. flatten[i] = flatten[i - 1] \o qs[i]
        BY <2>3, <3>3, <3>5
      <4>5. flatten[i] \in Seq(S)
        BY <1>0, <3>3, <4>2, <4>4
      <4> QED BY <3>3, <4>1, <4>3, <4>4, <4>5
    <3> QED BY <3>4, <3>5
  <2>5. n \in 1..n
    BY <1>0, <1>2
  <2> QED BY <2>2, <2>4, <2>5
<1> QED BY <1>1, <1>2
=============================================================================
