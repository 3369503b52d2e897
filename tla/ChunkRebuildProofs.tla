--------------------------- MODULE ChunkRebuildProofs ---------------------------
(***************************************************************************)
(* What freezeRecovery installs is right for any chunk and minimum size,   *)
(* any lists, keys and calls and any number of threads.                    *)
(*                                                                         *)
(* The argument is in three parts.  First, lists: a chunk whose links make *)
(* an ascending chain (Linked) is walked through by InList, and the ways   *)
(* to change it, Allocate, Insert and Delete, add and remove exactly what  *)
(* they should.  Second, building: each of the copying functions yields    *)
(* the old keys in order, in one chunk or in two halves, with the room     *)
(* that the sizes promise, and moving entries from one half to the other   *)
(* keeps them apart (Ready).  Third, the threads: what each of them has    *)
(* privately, before and after its call, and who has won (IInv).           *)
(***************************************************************************)
EXTENDS ChunkRebuild, FiniteSetTheorems, WellFoundedInduction, TLAPS

(***************************************************************************)
(* Induction as a fact about a set: the theorem of the library has an      *)
(* operator as its parameter, a set has its least element outside.         *)
(***************************************************************************)
LEMMA Induction ==
    ASSUME NEW n \in Nat, NEW X, 0 \in X, \A i \in 0 .. n - 1 : i \in X => i + 1 \in X
    PROVE  0 .. n \subseteq X
<1> DEFINE T == (0 .. n) \ X
<1>1. SUFFICES ASSUME T # {} PROVE FALSE
  OBVIOUS
<1>2. PICK m \in T : \A y \in T : <<y, m>> \notin OpToRel(<, Nat)
  <2>1. T \subseteq Nat
    OBVIOUS
  <2> QED
    BY ONLY <1>1, <2>1, NatLessThanWellFounded, WFMin
<1>3. m \in 1 .. n
  OBVIOUS
<1>4. m - 1 \notin T
  <2>1. <<m - 1, m>> \in OpToRel(<, Nat)
    BY <1>3 DEF OpToRel
  <2> QED
    BY <1>2, <2>1
<1>5. m - 1 \in X /\ m - 1 \in 0 .. n - 1 /\ (m - 1) + 1 = m
  BY <1>3, <1>4
<1> QED
  BY <1>5

(***************************************************************************)
(* The recursive function inside InList, by itself: it exists and obeys    *)
(* its equation.                                                           *)
(***************************************************************************)
IsWalk(R, c, n) ==
    R = [i \in 0 .. n |->
           IF i = 0 THEN c.next[EntryHead]
           ELSE LET p == R[i - 1] IN IF p = End THEN End ELSE c.next[p]]

Walk(c) == CHOOSE R : IsWalk(R, c, MaxEntries)

LEMMA InListWalk == \A c : InList(c) = {Walk(c)[i] : i \in 0 .. MaxEntries} \ {End}
BY DEF InList, Walk, IsWalk

LEMMA WalkExists ==
    ASSUME NEW c, NEW n \in Nat
    PROVE  \E R : IsWalk(R, c, n)
<1> DEFINE step(p) == IF p = End THEN End ELSE c.next[p]
           first == c.next[EntryHead]
           Is(R, m) == R = [i \in 0 .. m |-> IF i = 0 THEN first ELSE step(R[i - 1])]
           X == {m \in 0 .. n : \E R : Is(R, m)}
<1>1. 0 \in X
  <2> DEFINE R == [i \in 0 .. 0 |-> first]
  <2> HIDE DEF step, first
  <2>1. Is(R, 0)
    <3>1. 0 .. 0 = {0}
      OBVIOUS
    <3> QED
      BY <3>1
  <2> HIDE DEF R
  <2>2. \E Q : Is(Q, 0)
    BY <2>1
  <2> QED
    BY <2>2
<1>2. ASSUME NEW m \in 0 .. n - 1, m \in X PROVE m + 1 \in X
  <2>1. PICK R : Is(R, m)
    BY <1>2
  <2> DEFINE Q == [i \in 0 .. m + 1 |-> IF i = m + 1 THEN step(R[m]) ELSE R[i]]
  <2> HIDE DEF step, first
  <2>3. ASSUME NEW i \in 0 .. m + 1
        PROVE  Q[i] = IF i = 0 THEN first ELSE step(Q[i - 1])
    <3>1. CASE i = m + 1
      <4>1. Q[i] = step(R[m]) /\ Q[i - 1] = R[m] /\ i # 0
        BY <3>1
      <4> QED
        BY <4>1
    <3>2. CASE i \in 1 .. m
      <4>1. Q[i] = R[i] /\ Q[i - 1] = R[i - 1] /\ i # 0
        BY <3>2
      <4>2. R[i] = step(R[i - 1])
        BY <2>1, <3>2
      <4> QED
        BY <4>1, <4>2
    <3>3. CASE i = 0
      BY <2>1, <3>3
    <3> QED
      BY <3>1, <3>2, <3>3
  <2>4. Q = [i \in 0 .. m + 1 |-> IF i = 0 THEN first ELSE step(Q[i - 1])]
    <3> DEFINE G == [i \in 0 .. m + 1 |-> IF i = 0 THEN first ELSE step(Q[i - 1])]
    <3>1. \A i \in 0 .. m + 1 : Q[i] = G[i]
      BY <2>3
    <3>2. Q = [i \in 0 .. m + 1 |-> Q[i]] /\ G = [i \in 0 .. m + 1 |-> G[i]]
      OBVIOUS
    <3> HIDE DEF Q, G
    <3>3. Q = G
      BY <3>1, <3>2
    <3> QED
      BY <3>3 DEF G
  <2>5. m + 1 \in 0 .. n
    OBVIOUS
  <2> HIDE DEF Q
  <2> QED
    BY <2>4, <2>5
<1>3. 0 .. n \subseteq X
  <2> HIDE DEF X
  <2> QED
    BY <1>1, <1>2, Induction
<1>4. \E R : Is(R, n)
  BY <1>3
<1> QED
  BY <1>4 DEF IsWalk

\* the walk starts at the head and follows the links, to stay at the end
LEMMA WalkSteps ==
    ASSUME NEW c
    PROVE  /\ Walk(c)[0] = c.next[EntryHead]
           /\ \A i \in 0 .. MaxEntries - 1 :
                Walk(c)[i + 1] = IF Walk(c)[i] = End THEN End ELSE c.next[Walk(c)[i]]
<1>1. \E R : IsWalk(R, c, MaxEntries)
  BY WalkExists, SizeAssumption
<1>2. IsWalk(Walk(c), c, MaxEntries)
  BY <1>1 DEF Walk
<1> DEFINE W == Walk(c)
<1>3. W = [i \in 0 .. MaxEntries |->
             IF i = 0 THEN c.next[EntryHead]
             ELSE LET p == W[i - 1] IN IF p = End THEN End ELSE c.next[p]]
  BY <1>2 DEF IsWalk
<1> HIDE DEF W
<1>4. W[0] = c.next[EntryHead]
  BY <1>3, SizeAssumption
<1>5. ASSUME NEW i \in 0 .. MaxEntries - 1
      PROVE  W[i + 1] = IF W[i] = End THEN End ELSE c.next[W[i]]
  <2>1. i + 1 \in 0 .. MaxEntries /\ i + 1 # 0 /\ (i + 1) - 1 = i
    BY SizeAssumption
  <2> QED
    BY <1>3, <2>1
<1> QED
  BY <1>4, <1>5 DEF W

LEMMA InListWithin ==
    ASSUME NEW c, NEW P, c.next[EntryHead] \in P \cup {End},
           \A p \in P : c.next[p] \in P \cup {End}
    PROVE  InList(c) \subseteq P
<1> DEFINE W == Walk(c)
           X == {i \in 0 .. MaxEntries : W[i] \in P \cup {End}}
<1>1. 0 \in X
  BY WalkSteps, SizeAssumption
<1>2. \A i \in 0 .. MaxEntries - 1 : i \in X => i + 1 \in X
  <2> SUFFICES ASSUME NEW i \in 0 .. MaxEntries - 1, i \in X PROVE i + 1 \in X
    OBVIOUS
  <2>1. W[i] \in P \cup {End} /\ W[i + 1] = IF W[i] = End THEN End ELSE c.next[W[i]]
    BY WalkSteps
  <2>2. i + 1 \in 0 .. MaxEntries
    BY SizeAssumption
  <2> QED
    BY <2>1, <2>2
<1>3. 0 .. MaxEntries \subseteq X
  <2> HIDE DEF X
  <2> QED
    BY <1>1, <1>2, Induction, SizeAssumption
<1> QED
  BY <1>3, InListWalk

\* the slots P are linked in ascending order of their keys, from the head to the end
Links(c, P) ==
    /\ P \subseteq Slot
    /\ c.next[EntryHead] \in P \cup {End}
    /\ \A p \in P : /\ c.key[p] \in Key
                    /\ c.next[p] \in P \cup {End}
                    /\ c.next[p] # End => c.key[p] < c.key[c.next[p]]
    /\ \A q \in P : \E p \in P \cup {EntryHead} : c.next[p] = q

\* as long as the walk meets entries, their keys ascend
LEMMA WalkAscends ==
    ASSUME NEW c, NEW P, Links(c, P)
    PROVE  \A i \in 0 .. MaxEntries :
             /\ Walk(c)[i] \in P \cup {End}
             /\ \A j \in 0 .. i - 1 :
                  Walk(c)[i] # End => /\ Walk(c)[j] \in P
                                      /\ c.key[Walk(c)[j]] < c.key[Walk(c)[i]]
<1> DEFINE W == Walk(c)
           E(i) == \A j \in 0 .. i - 1 : W[i] # End => W[j] \in P /\ c.key[W[j]] < c.key[W[i]]
           X == {i \in 0 .. MaxEntries : W[i] \in P \cup {End} /\ E(i)}
<1> USE SizeAssumption
<1>1. 0 \in X
  BY WalkSteps DEF Links
<1>2. ASSUME NEW i \in 0 .. MaxEntries - 1, i \in X PROVE i + 1 \in X
  <2>1. W[i] \in P \cup {End} /\ W[i + 1] = IF W[i] = End THEN End ELSE c.next[W[i]]
    BY <1>2, WalkSteps
  <2>2. W[i + 1] \in P \cup {End}
    BY <2>1 DEF Links
  <2>3. E(i + 1)
    <3> SUFFICES ASSUME NEW j \in 0 .. (i + 1) - 1, W[i + 1] # End
                 PROVE  W[j] \in P /\ c.key[W[j]] < c.key[W[i + 1]]
      OBVIOUS
    <3>1. W[i] \in P /\ W[i + 1] \in P /\ c.key[W[i]] < c.key[W[i + 1]]
      BY <2>1, <2>2 DEF Links
    <3>2. \A p \in P : c.key[p] \in Int
      BY DEF Links, Key
    <3>3. CASE j = i
      BY <3>1, <3>3
    <3>4. CASE j # i
      <4>1. j \in 0 .. i - 1 /\ W[i] # End
        BY <3>1, <3>4 DEF Links, Slot, End
      <4>2. W[j] \in P /\ c.key[W[j]] < c.key[W[i]]
        BY <1>2, <4>1
      <4> QED
        BY <3>1, <3>2, <4>2
    <3> QED
      BY <3>3, <3>4
  <2> QED
    BY <2>2, <2>3
<1>3. 0 .. MaxEntries \subseteq X
  <2> HIDE DEF X
  <2> QED
    BY <1>1, <1>2, Induction
<1> QED
  BY <1>3

\* so that it meets no entry twice and, by the pigeonhole, comes to the end
LEMMA WalkEnds ==
    ASSUME NEW c, NEW P, Links(c, P)
    PROVE  Walk(c)[MaxEntries] = End
<1> DEFINE W == Walk(c)
<1> USE SizeAssumption
<1>1. SUFFICES ASSUME W[MaxEntries] # End PROVE FALSE
  OBVIOUS
<1>2. W[MaxEntries] \in P /\ \A i \in 0 .. MaxEntries - 1 : W[i] \in P
  BY <1>1, WalkAscends
<1>3. \A i \in 0 .. MaxEntries : W[i] \in P
  <2> SUFFICES ASSUME NEW i \in 0 .. MaxEntries PROVE W[i] \in P
    OBVIOUS
  <2>1. i = MaxEntries \/ i \in 0 .. MaxEntries - 1
    OBVIOUS
  <2> QED
    BY <1>2, <2>1
<1> DEFINE f == [i \in 0 .. MaxEntries |-> W[i]]
<1>4. f \in [0 .. MaxEntries -> Slot]
  BY <1>3 DEF Links
<1>5. /\ IsFiniteSet(0 .. MaxEntries) /\ Cardinality(0 .. MaxEntries) = MaxEntries + 1
      /\ IsFiniteSet(Slot) /\ Cardinality(Slot) = MaxEntries
  BY FS_Interval DEF Slot
<1>6. PICK x, y \in 0 .. MaxEntries : x # y /\ f[x] = f[y]
  <2> HIDE DEF f
  <2> QED
    BY <1>4, <1>5, FS_PigeonHole
<1>7. ASSUME NEW i \in 0 .. MaxEntries, NEW j \in 0 .. MaxEntries, i < j PROVE W[i] # W[j]
  <2>1. W[j] \in P /\ W[j] # End /\ i \in 0 .. j - 1
    BY <1>3, <1>7 DEF Links, Slot, End
  <2>2. c.key[W[i]] < c.key[W[j]] /\ c.key[W[j]] \in Int
    BY <2>1, WalkAscends DEF Links, Key
  <2> QED
    BY <2>2
<1> QED
  BY <1>6, <1>7

\* the walk meets every entry that is linked
LEMMA InListIs ==
    ASSUME NEW c, NEW P, Links(c, P)
    PROVE  InList(c) = P
<1> DEFINE W == Walk(c)
<1>1. InList(c) \subseteq P
  BY InListWithin DEF Links
<1>2. ASSUME NEW p \in InList(c), c.next[p] # End PROVE c.next[p] \in InList(c)
  <2>1. PICK i \in 0 .. MaxEntries : W[i] = p /\ p # End
    BY InListWalk
  <2>2. i \in 0 .. MaxEntries - 1 /\ i + 1 \in 0 .. MaxEntries
    BY <2>1, WalkEnds, SizeAssumption
  <2>3. W[i + 1] = c.next[p]
    BY <2>1, <2>2, WalkSteps
  <2> QED
    BY <1>2, <2>2, <2>3, InListWalk
<1>3. c.next[EntryHead] # End => c.next[EntryHead] \in InList(c)
  BY WalkSteps, InListWalk, SizeAssumption
<1>4. SUFFICES ASSUME P \ InList(c) # {} PROVE FALSE
  BY <1>1
<1> DEFINE Lost == {c.key[p] : p \in P \ InList(c)}
<1>5. PICK k \in Lost : \A j \in Lost : <<j, k>> \notin OpToRel(<, Nat)
  <2>1. Lost \subseteq Nat /\ Lost # {}
    BY <1>4 DEF Links, Key
  <2> HIDE DEF Lost
  <2> QED
    BY ONLY <2>1, NatLessThanWellFounded, WFMin
<1>6. PICK q \in P : q \notin InList(c) /\ c.key[q] = k
  BY <1>5
<1>7. PICK p \in P \cup {EntryHead} : c.next[p] = q
  BY <1>6 DEF Links
<1>8. q # End /\ EntryHead \notin P
  BY SizeAssumption DEF Links, Slot, End, EntryHead
<1>9. p \in P \ InList(c)
  BY <1>2, <1>3, <1>6, <1>7, <1>8
<1>10. c.key[p] < c.key[q] /\ c.key[p] \in Nat /\ c.key[q] \in Nat
  BY <1>7, <1>8, <1>9 DEF Links, Key
<1>11. <<c.key[p], k>> \in OpToRel(<, Nat)
  BY <1>6, <1>10 DEF OpToRel
<1> QED
  BY <1>5, <1>9, <1>11

\* a chunk whose list is in order
Linked(c) == Links(c, InList(c))

LEMMA LinksLinked ==
    ASSUME NEW c, NEW P, Links(c, P)
    PROVE  Linked(c) /\ InList(c) = P
BY InListIs DEF Linked

\* what Linked says, with the numbers that the provers need
LEMMA LinkedFacts ==
    ASSUME NEW c, Linked(c)
    PROVE  /\ InList(c) \subseteq Slot
           /\ End \notin InList(c) /\ EntryHead \notin InList(c)
           /\ c.next[EntryHead] \in InList(c) \cup {End}
           /\ \A p \in InList(c) : /\ c.key[p] \in Key /\ c.key[p] \in Int
                                   /\ c.next[p] \in InList(c) \cup {End}
                                   /\ c.next[p] # End => c.key[p] < c.key[c.next[p]]
           /\ \A q \in InList(c) : \E p \in InList(c) \cup {EntryHead} : c.next[p] = q
           /\ IsFiniteSet(InList(c)) /\ Cardinality(InList(c)) \in Nat
<1>1. IsFiniteSet(Slot)
  BY SizeAssumption, FS_Interval DEF Slot
<1>2. IsFiniteSet(InList(c)) /\ Cardinality(InList(c)) \in Nat
  BY <1>1, FS_Subset, FS_CardinalityType DEF Linked, Links
<1> QED
  BY <1>2, SizeAssumption DEF Linked, Links, Slot, End, EntryHead, Key

(***************************************************************************)
(* No key of the list lies between those of neighbours, and no two entries *)
(* have the same key.                                                      *)
(***************************************************************************)
LEMMA NothingBetween ==
    ASSUME NEW c, Linked(c), NEW q \in InList(c)
    PROVE  /\ c.next[EntryHead] # End /\ c.key[c.next[EntryHead]] <= c.key[q]
           /\ \A p \in InList(c) :
                \/ c.key[q] <= c.key[p]
                \/ c.next[p] # End /\ c.key[c.next[p]] <= c.key[q]
           /\ \A p \in InList(c) : c.key[p] = c.key[q] => p = q
<1> DEFINE W == Walk(c)
<1> USE SizeAssumption
<1>1. PICK j \in 0 .. MaxEntries : W[j] = q
  BY InListWalk
<1>2. q # End /\ \A p \in InList(c) : c.key[p] \in Int
  BY LinkedFacts
<1>3. \A i \in 0 .. j - 1 : W[i] \in InList(c) /\ c.key[W[i]] < c.key[q]
  <2>1. Links(c, InList(c))
    BY DEF Linked
  <2> QED
    BY <1>1, <1>2, <2>1, WalkAscends
<1>4. c.next[EntryHead] # End /\ c.key[c.next[EntryHead]] <= c.key[q]
  <2>1. W[0] = c.next[EntryHead]
    BY WalkSteps
  <2>2. W[0] \in InList(c) /\ c.key[W[0]] <= c.key[q]
    <3>1. CASE j = 0
      BY <1>1, <1>2, <3>1
    <3>2. CASE j # 0
      <4>1. 0 \in 0 .. j - 1
        BY <3>2
      <4>2. W[0] \in InList(c) /\ c.key[W[0]] < c.key[q]
        BY <1>3, <4>1
      <4> QED
        BY <1>2, <4>2
    <3> QED
      BY <3>1, <3>2
  <2> QED
    BY <2>1, <2>2, LinkedFacts
<1>5. ASSUME NEW p \in InList(c)
      PROVE  /\ c.key[q] <= c.key[p] \/ (c.next[p] # End /\ c.key[c.next[p]] <= c.key[q])
             /\ c.key[p] = c.key[q] => p = q
  <2>1. PICK i \in 0 .. MaxEntries : W[i] = p
    BY InListWalk
  <2>2. p # End
    BY LinkedFacts
  <2>3. CASE i = j
    BY <1>1, <1>2, <2>1, <2>3
  <2>4. CASE j < i
    <3>1. j \in 0 .. i - 1
      BY <2>4
    <3>2. Links(c, InList(c))
      BY DEF Linked
    <3>3. c.key[q] < c.key[p]
      BY <1>1, <2>1, <2>2, <3>1, <3>2, WalkAscends
    <3> QED
      BY <1>2, <3>3
  <2>5. CASE i < j
    <3>1. i \in 0 .. j - 1 /\ i \in 0 .. MaxEntries - 1
      BY <2>5
    <3>2. c.key[p] < c.key[q] /\ W[i + 1] = c.next[p]
      BY <1>3, <2>1, <2>2, <3>1, WalkSteps
    <3>3. W[i + 1] \in InList(c) /\ c.key[W[i + 1]] <= c.key[q]
      <4>1. CASE i + 1 = j
        BY <1>1, <1>2, <4>1
      <4>2. CASE i + 1 # j
        <5>1. i + 1 \in 0 .. j - 1
          BY <2>5, <4>2
        <5>2. W[i + 1] \in InList(c) /\ c.key[W[i + 1]] < c.key[q]
          BY <1>3, <5>1
        <5> QED
          BY <1>2, <5>2
      <4> QED
        BY <4>1, <4>2
    <3>4. c.next[p] # End
      BY <3>2, <3>3, LinkedFacts
    <3> QED
      BY <1>2, <3>2, <3>3, <3>4
  <2> QED
    BY <2>3, <2>4, <2>5
<1> QED
  BY <1>4, <1>5

\* there is a place for every key, found by Before
LEMMA BeforeExists ==
    ASSUME NEW c, Linked(c), NEW k \in Key
    PROVE  /\ Before(c, k) \in InList(c) \cup {EntryHead}
           /\ Before(c, k) = EntryHead \/ c.key[Before(c, k)] < k
           /\ c.next[Before(c, k)] = End \/ c.key[c.next[Before(c, k)]] >= k
<1> DEFINE W == Walk(c)
           Is(p) == /\ p = EntryHead \/ c.key[p] < k
                    /\ c.next[p] = End \/ c.key[c.next[p]] >= k
           X == {i \in 0 .. MaxEntries : W[i] \in InList(c) /\ c.key[W[i]] < k}
<1> USE SizeAssumption
<1>1. \E p \in InList(c) \cup {EntryHead} : Is(p)
  <2> SUFFICES ASSUME \A p \in InList(c) \cup {EntryHead} : ~Is(p) PROVE FALSE
    OBVIOUS
  <2>1. \A p \in InList(c) \cup {EntryHead} :
          p = EntryHead \/ c.key[p] < k =>
             c.next[p] # End /\ c.next[p] \in InList(c) /\ c.key[c.next[p]] < k
    BY LinkedFacts DEF Key
  <2>2. 0 \in X
    BY <2>1, WalkSteps
  <2>3. ASSUME NEW i \in 0 .. MaxEntries - 1, i \in X PROVE i + 1 \in X
    <3>1. W[i] # End /\ W[i + 1] = c.next[W[i]]
      BY <2>3, WalkSteps, LinkedFacts
    <3>2. c.next[W[i]] \in InList(c) /\ c.key[c.next[W[i]]] < k
      BY <2>1, <2>3
    <3> QED
      BY <3>1, <3>2
  <2>4. 0 .. MaxEntries \subseteq X
    <3> HIDE DEF X
    <3> QED
      BY <2>2, <2>3, Induction
  <2>5. W[MaxEntries] \in InList(c)
    BY <2>4
  <2> QED
    BY <2>5, WalkEnds, LinkedFacts DEF Linked
<1> QED
  BY <1>1 DEF Before

\* allocateEntry finds a free entry if there is one
LEMMA FirstFreeIsFree ==
    ASSUME NEW c, Free(c) # {}
    PROVE  FirstFree(c) \in Slot /\ c.key[FirstFree(c)] = NoKey
<1>1. PICK s \in Free(c) : \A r \in Free(c) : <<r, s>> \notin OpToRel(<, Nat)
  <2>1. Free(c) \subseteq Nat
    BY DEF Free, Slot
  <2> QED
    BY ONLY Free(c) # {}, <2>1, NatLessThanWellFounded, WFMin
<1>2. \A r \in Free(c) : s <= r
  <2>1. \A r \in Free(c) : r \in Nat /\ s \in Nat
    BY DEF Free, Slot
  <2>2. \A r \in Free(c) : ~(r < s)
    BY <1>1, <2>1 DEF OpToRel
  <2> QED
    BY <2>1, <2>2
<1>3. FirstFree(c) \in Free(c)
  BY <1>2 DEF FirstFree
<1> QED
  BY <1>3 DEF Free

\* a key in an entry that is not linked is no key of the chunk
LEMMA AllocateKeeps ==
    ASSUME NEW c \in Chunk, Linked(c), NEW k \in Key, Free(c) # {}
    PROVE  /\ Allocate(c, k) \in Chunk
           /\ Linked(Allocate(c, k))
           /\ InList(Allocate(c, k)) = InList(c) /\ KeysIn(Allocate(c, k)) = KeysIn(c)
           /\ Allocate(c, k).counter = c.counter
           /\ Allocate(c, k).next = c.next
<1> DEFINE f == FirstFree(c)
           d == Allocate(c, k)
<1>1. f \in Slot /\ c.key[f] = NoKey
  BY FirstFreeIsFree
<1>2. f \notin InList(c)
  BY <1>1, LinkedFacts, SizeAssumption DEF NoKey, Key
<1>3. [c.key EXCEPT ![f] = k] \in [Slot -> 1 .. NoKey]
  BY <1>1, SizeAssumption DEF Chunk, NoKey, Key
<1>4. d \in Chunk /\ d.key = [c.key EXCEPT ![f] = k] /\ d.next = c.next /\ d.counter = c.counter
  <2> HIDE DEF f
  <2> QED
    BY <1>3 DEF Allocate, Chunk, f
<1>5. \A s \in Slot : s # f => d.key[s] = c.key[s]
  <2> HIDE DEF d
  <2> QED
    BY <1>4 DEF Chunk
<1> HIDE DEF d, f
<1>6. \A s \in InList(c) : d.key[s] = c.key[s]
  BY <1>2, <1>5, LinkedFacts
<1>7. Links(d, InList(c))
  <2>0. \A s \in InList(c) : c.next[s] # End => c.next[s] \in InList(c)
    BY LinkedFacts
  <2>1. ASSUME NEW p \in InList(c)
        PROVE  /\ d.key[p] \in Key
               /\ d.next[p] \in InList(c) \cup {End}
               /\ d.next[p] # End => d.key[p] < d.key[d.next[p]]
    BY <1>4, <1>6, <2>0, LinkedFacts
  <2> QED
    BY <1>4, <2>1, LinkedFacts DEF Links
<1> QED
  BY <1>4, <1>6, <1>7, LinksLinked DEF KeysIn, d

\* insertToChunk puts one entry in its place
LEMMA InsertKeeps ==
    ASSUME NEW c \in Chunk, Linked(c), NEW k \in Key, k \notin KeysIn(c), Free(c) # {}
    PROVE  /\ Insert(c, k) \in Chunk
           /\ Linked(Insert(c, k))
           /\ KeysIn(Insert(c, k)) = KeysIn(c) \cup {k}
           /\ Insert(c, k).counter = c.counter + 1
           /\ Cardinality(InList(Insert(c, k))) = Cardinality(InList(c)) + 1
<1> DEFINE f == FirstFree(c)
           b == Before(c, k)
           d == Insert(c, k)
           P == InList(c) \cup {f}
<1> USE SizeAssumption
<1>1. f \in Slot /\ c.key[f] = NoKey
  BY FirstFreeIsFree
<1>2. f \notin InList(c) /\ f # EntryHead /\ f # End
  BY <1>1, LinkedFacts DEF NoKey, Key, Slot, EntryHead, End
<1>3. /\ b \in InList(c) \cup {EntryHead} /\ b \in Cell /\ f \in Cell /\ f # b
      /\ b = EntryHead \/ c.key[b] < k
      /\ c.next[b] = End \/ c.key[c.next[b]] >= k
      /\ c.next[b] \in InList(c) \cup {End}
  BY <1>1, <1>2, BeforeExists, LinkedFacts DEF Cell
<1>4. c.next[b] # End => c.key[c.next[b]] > k
  BY <1>3, LinkedFacts DEF KeysIn, Key
<1>5. /\ d.key = [c.key EXCEPT ![f] = k]
      /\ d.next = [c.next EXCEPT ![f] = c.next[b], ![b] = f]
      /\ d.counter = c.counter + 1
  BY DEF Insert, Allocate, Chunk
<1>6. /\ d.key[f] = k /\ \A s \in Slot \ {f} : d.key[s] = c.key[s]
      /\ d.next[f] = c.next[b] /\ d.next[b] = f
      /\ \A p \in Cell \ {f, b} : d.next[p] = c.next[p]
  BY <1>1, <1>3, <1>5 DEF Chunk
<1>7. d \in Chunk
  <2> DEFINE a == Allocate(c, k)
             N == [c.next EXCEPT ![f] = c.next[b], ![b] = f]
  <2>1. N \in [Cell -> 0 .. MaxEntries] /\ c.counter + 1 \in Nat
    <3>1. c.next \in [Cell -> 0 .. MaxEntries] /\ c.counter \in Nat
      BY DEF Chunk
    <3>2. f \in 0 .. MaxEntries /\ c.next[b] \in 0 .. MaxEntries
      BY <1>1, <1>3, <3>1 DEF Slot
    <3> HIDE DEF f, b
    <3>3. N \in [Cell -> 0 .. MaxEntries]
      BY ONLY <3>1, <3>2
    <3> HIDE DEF N
    <3> QED
      BY <3>1, <3>3
  <2>2. a \in Chunk /\ a.next = c.next /\ a.counter = c.counter
    BY AllocateKeeps
  <2>3. d = [a EXCEPT !.next = N, !.counter = c.counter + 1]
    <3> HIDE DEF a, f, b
    <3> QED
      BY <2>2 DEF Insert, a, f, b
  <2> HIDE DEF a, N, d
  <2> QED
    BY <2>1, <2>2, <2>3 DEF Chunk
<1> HIDE DEF d, f, b
<1>8. Links(d, P)
  <2>1. P \subseteq Slot
    BY <1>1, LinkedFacts
  <2>2. d.next[EntryHead] \in P \cup {End}
    BY <1>2, <1>3, <1>6, LinkedFacts DEF Cell
  <2>3. ASSUME NEW p \in P
        PROVE  /\ d.key[p] \in Key
               /\ d.next[p] \in P \cup {End}
               /\ d.next[p] # End => d.key[p] < d.key[d.next[p]]
    <3>1. CASE p = f
      BY <1>2, <1>3, <1>4, <1>6, <3>1, LinkedFacts DEF Key
    <3>2. CASE p # f /\ p = b
      BY <1>1, <1>2, <1>3, <1>6, <3>2, LinkedFacts
    <3>3. CASE p # f /\ p # b
      <4>1. p \in InList(c) /\ p \in Cell \ {f, b} /\ p \in Slot \ {f}
        BY <3>3, LinkedFacts DEF Cell
      <4>2. d.key[p] = c.key[p] /\ d.next[p] = c.next[p]
        BY <1>6, <4>1
      <4>3. c.next[p] # End => c.next[p] \in Slot \ {f}
        BY <1>2, <4>1, LinkedFacts
      <4> QED
        BY <1>6, <4>1, <4>2, <4>3, LinkedFacts
    <3> QED
      BY <3>1, <3>2, <3>3
  <2>4. ASSUME NEW q \in P PROVE \E p \in P \cup {EntryHead} : d.next[p] = q
    <3>1. CASE q = f
      BY <1>3, <1>6, <3>1
    <3>2. CASE q # f
      <4>1. PICK p \in InList(c) \cup {EntryHead} : c.next[p] = q
        BY <3>2, LinkedFacts
      <4>2. CASE p = b
        BY <1>6, <4>1, <4>2
      <4>3. CASE p # b
        BY <1>2, <1>6, <4>1, <4>3, LinkedFacts DEF Cell
      <4> QED
        BY <4>2, <4>3
    <3> QED
      BY <3>1, <3>2
  <2> QED
    BY <2>1, <2>2, <2>3, <2>4 DEF Links
<1>9. Linked(d) /\ InList(d) = P
  BY <1>8, LinksLinked
<1>10. KeysIn(d) = KeysIn(c) \cup {k}
  <2>1. \A s \in InList(c) : d.key[s] = c.key[s]
    BY <1>2, <1>6, LinkedFacts
  <2> QED
    BY <1>6, <1>9, <2>1 DEF KeysIn
<1>11. Cardinality(P) = Cardinality(InList(c)) + 1
  BY <1>2, LinkedFacts, FS_AddElement
<1> QED
  BY <1>5, <1>7, <1>9, <1>10, <1>11 DEF d

\* deleteInChunk takes one entry out
LEMMA DeleteKeeps ==
    ASSUME NEW c \in Chunk, Linked(c), NEW k \in KeysIn(c), c.counter # 0
    PROVE  /\ Delete(c, k) \in Chunk
           /\ Linked(Delete(c, k))
           /\ KeysIn(Delete(c, k)) = KeysIn(c) \ {k}
           /\ Delete(c, k).counter = c.counter - 1
           /\ Cardinality(InList(Delete(c, k))) = Cardinality(InList(c)) - 1
<1> DEFINE b == Before(c, k)
           n == c.next[b]
           d == Delete(c, k)
           P == InList(c) \ {n}
<1> USE SizeAssumption
<1>1. PICK q \in InList(c) : c.key[q] = k
  BY DEF KeysIn
<1>2. /\ b \in InList(c) \cup {EntryHead} /\ b \in Cell
      /\ b = EntryHead \/ c.key[b] < k
      /\ n = End \/ c.key[n] >= k
      /\ n \in InList(c) \cup {End}
  BY <1>1, BeforeExists, LinkedFacts DEF Cell
<1>3. n = q
  <2>1. n # End /\ c.key[n] <= k
    BY <1>1, <1>2, NothingBetween, LinkedFacts
  <2>2. c.key[n] = c.key[q]
    BY <1>1, <1>2, <2>1, LinkedFacts
  <2> QED
    BY <1>1, <1>2, <2>1, <2>2, NothingBetween
<1>4. b # n /\ n \in InList(c) /\ n \in Cell /\ n # End /\ c.key[n] = k
  BY <1>1, <1>2, <1>3, LinkedFacts DEF Cell
<1>5. /\ d.key = c.key /\ d.next = [c.next EXCEPT ![b] = c.next[n]]
      /\ d.counter = c.counter - 1
  BY DEF Delete, Chunk
<1>6. d.next[b] = c.next[n] /\ \A p \in Cell \ {b} : d.next[p] = c.next[p]
  BY <1>2, <1>5 DEF Chunk
<1>7. d \in Chunk
  <2>1. [c.next EXCEPT ![b] = c.next[n]] \in [Cell -> 0 .. MaxEntries]
    BY <1>2, <1>4 DEF Chunk
  <2>2. c.counter - 1 \in Nat
    BY DEF Chunk
  <2> QED
    BY <2>1, <2>2 DEF Chunk, Delete
<1> HIDE DEF d, n, b
<1>8. c.next[n] # n
  BY <1>4, LinkedFacts
<1>9. \A p \in InList(c) \cup {EntryHead} : c.next[p] = n => p = b
  <2> SUFFICES ASSUME NEW p \in InList(c) \cup {EntryHead}, c.next[p] = n, p # b PROVE FALSE
    OBVIOUS
  <2>0. c.next[b] = n
    BY DEF n
  <2>1. CASE b = EntryHead
    BY <1>4, <2>0, <2>1, NothingBetween, LinkedFacts
  <2>2. CASE p = EntryHead
    BY <1>2, <1>4, <2>0, <2>2, NothingBetween, LinkedFacts
  <2>3. CASE p \in InList(c) /\ b \in InList(c)
    <3>1. c.key[p] <= c.key[b] \/ c.key[n] <= c.key[p]
      BY <2>0, <2>3, NothingBetween
    <3>2. c.key[b] <= c.key[p] \/ c.key[n] <= c.key[b]
      BY <2>0, <2>3, NothingBetween
    <3>3. c.key[p] < c.key[n] /\ c.key[b] < c.key[n]
      BY <1>4, <2>0, <2>3, LinkedFacts
    <3>4. c.key[p] = c.key[b]
      BY <1>4, <2>3, <3>1, <3>2, <3>3, LinkedFacts
    <3> QED
      BY <2>3, <3>4, NothingBetween
  <2> QED
    BY <1>2, <2>1, <2>2, <2>3
<1>10. Links(d, P)
  <2>1. P \subseteq Slot
    BY LinkedFacts
  <2>2. d.next[EntryHead] \in P \cup {End}
    BY <1>4, <1>6, <1>8, <1>9, LinkedFacts DEF Cell
  <2>3. ASSUME NEW p \in P
        PROVE  /\ d.key[p] \in Key
               /\ d.next[p] \in P \cup {End}
               /\ d.next[p] # End => d.key[p] < d.key[d.next[p]]
    <3>1. CASE p = b
      <4>1. c.key[p] < c.key[n]
        BY <3>1, LinkedFacts, <1>4 DEF n
      <4>2. c.next[n] # End => c.key[n] < c.key[c.next[n]] /\ c.key[c.next[n]] \in Int
        BY <1>4, LinkedFacts
      <4> QED
        BY <1>4, <1>5, <1>6, <1>8, <3>1, <4>1, <4>2, LinkedFacts
    <3>2. CASE p # b
      <4>1. d.next[p] = c.next[p]
        BY <1>6, <3>2, LinkedFacts DEF Cell
      <4> QED
        BY <1>5, <1>9, <3>2, <4>1, LinkedFacts
    <3> QED
      BY <3>1, <3>2
  <2>4. ASSUME NEW r \in P PROVE \E p \in P \cup {EntryHead} : d.next[p] = r
    <3>1. PICK p \in InList(c) \cup {EntryHead} : c.next[p] = r
      BY LinkedFacts
    <3>2. CASE p = n
      BY <1>2, <1>4, <1>6, <3>1, <3>2
    <3>3. CASE p # n
      <4>1. p # b
        BY <3>1 DEF n
      <4> QED
        BY <1>6, <3>1, <3>3, <4>1, LinkedFacts DEF Cell
    <3> QED
      BY <3>2, <3>3
  <2> QED
    BY <2>1, <2>2, <2>3, <2>4 DEF Links
<1>11. Linked(d) /\ InList(d) = P
  BY <1>10, LinksLinked
<1>12. KeysIn(d) = KeysIn(c) \ {k}
  BY <1>4, <1>5, <1>11, NothingBetween DEF KeysIn
<1>13. Cardinality(P) = Cardinality(InList(c)) - 1
  BY <1>4, LinkedFacts, FS_RemoveElement
<1> QED
  BY <1>5, <1>7, <1>11, <1>12, <1>13 DEF d
-----------------------------------------------------------------------------
\* the two halves differ by at most one key
LEMMA Median ==
    ASSUME NEW n \in Nat, n >= 1
    PROVE  MedianIndex(n) \in Nat /\ MedianIndex(n) >= 1
           /\ (2 * MedianIndex(n) = n \/ 2 * MedianIndex(n) = n + 1)
BY DEF MedianIndex

\* the keys from o + 1 to o + n of s are in the first n entries, linked in this order
Straight(c, s, o, n) ==
    /\ c \in Chunk
    /\ c.next[EntryHead] = IF n = 0 THEN End ELSE 0
    /\ \A p \in 0 .. n - 1 : /\ c.key[p] = s[o + p + 1]
                             /\ c.next[p] = IF p = n - 1 THEN End ELSE p + 1
    /\ \A p \in Slot : p >= n => c.key[p] = NoKey
    /\ c.counter = n

LEMMA EmptyChunkType == EmptyChunk \in Chunk
BY SizeAssumption DEF EmptyChunk, Chunk, State, NoKey, End

LEMMA AscendingLess ==
    ASSUME NEW s \in Seq(Key), Ascending(s), NEW i \in 1 .. Len(s), NEW j \in 1 .. Len(s), i < j
    PROVE  s[i] < s[j]
BY DEF Ascending

LEMMA StraightLinked ==
    ASSUME NEW c, NEW s \in Seq(Key), Ascending(s), NEW o \in Nat, NEW n \in Nat,
           o + n <= Len(s), n <= MaxEntries, Straight(c, s, o, n)
    PROVE  /\ Linked(c) /\ InList(c) = 0 .. n - 1
           /\ KeysIn(c) = {s[i] : i \in o + 1 .. o + n}
           /\ Cardinality(InList(c)) = n
           /\ n < MaxEntries => Free(c) # {}
<1> USE SizeAssumption
<1>1. Links(c, 0 .. n - 1)
  <2>1. 0 .. n - 1 \subseteq Slot
    BY DEF Slot
  <2>2. c.next[EntryHead] \in (0 .. n - 1) \cup {End}
    BY DEF Straight
  <2>3. ASSUME NEW p \in 0 .. n - 1
        PROVE  /\ c.key[p] \in Key
               /\ c.next[p] \in (0 .. n - 1) \cup {End}
               /\ c.next[p] # End => c.key[p] < c.key[c.next[p]]
    <3>1. c.key[p] = s[o + p + 1] /\ o + p + 1 \in 1 .. Len(s)
      BY DEF Straight
    <3>2. c.key[p] \in Key
      BY <3>1
    <3>3. CASE p = n - 1
      BY <3>2, <3>3 DEF Straight
    <3>4. CASE p # n - 1
      <4>1. p + 1 \in 0 .. n - 1 /\ o + (p + 1) + 1 \in 1 .. Len(s) /\ o + p + 1 < o + (p + 1) + 1
        BY <3>4
      <4>2. c.next[p] = p + 1 /\ c.key[p + 1] = s[o + (p + 1) + 1]
        BY <3>4, <4>1 DEF Straight
      <4>3. c.key[p] < c.key[p + 1]
        BY <3>1, <4>1, <4>2, AscendingLess
      <4> QED
        BY <3>2, <4>1, <4>2, <4>3
    <3> QED
      BY <3>3, <3>4
  <2>4. ASSUME NEW q \in 0 .. n - 1
        PROVE  \E p \in (0 .. n - 1) \cup {EntryHead} : c.next[p] = q
    <3>1. CASE q = 0
      <4>1. n # 0 /\ c.next[EntryHead] = 0
        BY <3>1 DEF Straight
      <4> QED
        BY <3>1, <4>1
    <3>2. CASE q # 0
      <4>1. q - 1 \in 0 .. n - 1 /\ q - 1 # n - 1 /\ (q - 1) + 1 = q
        BY <3>2
      <4>2. c.next[q - 1] = q
        BY <4>1 DEF Straight
      <4> QED
        BY <4>1, <4>2
    <3> QED
      BY <3>1, <3>2
  <2> QED
    BY <2>1, <2>2, <2>3, <2>4 DEF Links
<1>2. Linked(c) /\ InList(c) = 0 .. n - 1
  BY <1>1, LinksLinked
<1>3. KeysIn(c) = {s[i] : i \in o + 1 .. o + n}
  <2>1. \A p \in 0 .. n - 1 : c.key[p] = s[o + p + 1] /\ o + p + 1 \in o + 1 .. o + n
    BY DEF Straight
  <2>2. \A i \in o + 1 .. o + n : i - o - 1 \in 0 .. n - 1 /\ c.key[i - o - 1] = s[i]
    <3> SUFFICES ASSUME NEW i \in o + 1 .. o + n
                 PROVE  i - o - 1 \in 0 .. n - 1 /\ c.key[i - o - 1] = s[i]
      OBVIOUS
    <3>1. i - o - 1 \in 0 .. n - 1 /\ o + (i - o - 1) + 1 = i
      OBVIOUS
    <3> QED
      BY <2>1, <3>1
  <2>3. KeysIn(c) = {c.key[p] : p \in 0 .. n - 1}
    BY <1>2 DEF KeysIn
  <2>4. ASSUME NEW k \in KeysIn(c) PROVE k \in {s[i] : i \in o + 1 .. o + n}
    BY <2>1, <2>3
  <2>5. ASSUME NEW i \in o + 1 .. o + n PROVE s[i] \in KeysIn(c)
    BY <2>2, <2>3
  <2> QED
    BY <2>4, <2>5
<1>4. Cardinality(0 .. n - 1) = n
  BY FS_Interval
<1>5. n < MaxEntries => n \in Slot /\ c.key[n] = NoKey
  BY DEF Straight, Slot
<1> QED
  BY <1>2, <1>3, <1>4, <1>5 DEF Free

\* the first n entries are filled and lead on, to an entry to be copied there
Open(c, s, o, n) ==
    /\ c \in Chunk
    /\ \A p \in 0 .. n - 1 : c.key[p] = s[o + p + 1] /\ c.next[p] = p + 1
    /\ \A p \in Slot : p >= n => c.key[p] = NoKey
    /\ c.counter = n

LEMMA EmptyChunkOpen ==
    ASSUME NEW s, NEW o
    PROVE  Open(EmptyChunk, s, o, 0) /\ Straight(EmptyChunk, s, o, 0)
<1>1. EmptyChunk.counter = 0 /\ \A p \in Slot : EmptyChunk.key[p] = NoKey
  BY DEF EmptyChunk
<1>2. EmptyChunk.next[EntryHead] = End
  BY DEF EmptyChunk, Cell
<1> HIDE DEF EmptyChunk
<1> QED
  BY <1>1, <1>2, EmptyChunkType DEF Open, Straight

LEMMA ConnectOpens ==
    ASSUME NEW c, NEW s, NEW o \in Nat, NEW n \in Nat, 1 <= n, n < MaxEntries, Straight(c, s, o, n)
    PROVE  Open(Connect(c, n - 1), s, o, n)
<1> DEFINE d == Connect(c, n - 1)
<1> USE SizeAssumption
<1>1. n - 1 \in Cell /\ (n - 1) + 1 = n /\ n \in 0 .. MaxEntries
  BY DEF Cell, Slot
<1>2. c \in Chunk /\ c.counter = n
  BY DEF Straight
<1>3. d \in Chunk /\ d.key = c.key /\ d.next = [c.next EXCEPT ![n - 1] = n] /\ d.counter = c.counter
  BY <1>1, <1>2 DEF Connect, Chunk
<1> HIDE DEF d
<1>4. ASSUME NEW p \in 0 .. n - 1 PROVE d.key[p] = s[o + p + 1] /\ d.next[p] = p + 1
  <2>1. p \in Cell
    BY DEF Cell, Slot
  <2>2. d.next[p] = IF p = n - 1 THEN n ELSE c.next[p]
    BY <1>1, <1>2, <1>3, <2>1 DEF Chunk
  <2> QED
    BY <1>3, <2>2 DEF Straight
<1> QED
  BY <1>2, <1>3, <1>4 DEF Open, Straight, d

\* the next k keys of two lists, from places a and b on
SameKeys(list, a, s, b, k) == \A i \in 1 .. k : list[a + i] = s[b + i]

(***************************************************************************)
(* The k entries a .. b of a list are copied behind the n keys that c      *)
(* holds: these and the copied keys are m consecutive keys of s.           *)
(***************************************************************************)
LEMMA CopyIsStraight ==
    ASSUME NEW c, NEW s \in Seq(Key), NEW o \in Nat, NEW n \in Nat, Open(c, s, o, n),
           NEW list \in Seq(Key), NEW a \in Nat, NEW b \in Nat, a <= b, b < Len(list),
           NEW q \in Nat, NEW k \in Nat, NEW m \in Nat, q = o + n, k = b - a + 1, m = n + k,
           m <= MaxEntries, o + m <= Len(s), SameKeys(list, a, s, q, k)
    PROVE  Straight(CopyEntries(list, a, b, n, c), s, o, m)
<1> DEFINE d == CopyEntries(list, a, b, n, c)
           newEnd == n + b - a
           place == n .. newEnd
           K == [p \in Slot |-> IF p \in place THEN list[a + p - n + 1] ELSE c.key[p]]
           N == [p \in Cell |-> IF p = EntryHead THEN 0
                                ELSE IF p \notin place THEN c.next[p]
                                ELSE IF p = newEnd THEN End ELSE p + 1]
<1> USE SizeAssumption
<1>1. c \in Chunk /\ c.key \in [Slot -> 1 .. NoKey] /\ c.next \in [Cell -> 0 .. MaxEntries]
      /\ c.counter = n
  BY DEF Open, Chunk
<1>2. \A p \in place : list[a + p - n + 1] = s[o + p + 1] /\ list[a + p - n + 1] \in Key
  <2> SUFFICES ASSUME NEW p \in place
               PROVE  list[a + p - n + 1] = s[o + p + 1] /\ list[a + p - n + 1] \in Key
    OBVIOUS
  <2>1. p - n + 1 \in 1 .. k /\ a + (p - n + 1) = a + p - n + 1 /\ q + (p - n + 1) = o + p + 1
    OBVIOUS
  <2>2. a + p - n + 1 \in 1 .. Len(list)
    OBVIOUS
  <2>3. list[a + (p - n + 1)] = s[q + (p - n + 1)]
    BY <2>1 DEF SameKeys
  <2>4. list[a + p - n + 1] = s[o + p + 1]
    BY ONLY <2>1, <2>3, Zenon
  <2>5. list[a + p - n + 1] \in Key
    BY ONLY <2>2, list \in Seq(Key)
  <2> QED
    BY ONLY <2>4, <2>5
<1>3. K \in [Slot -> 1 .. NoKey]
  <2> SUFFICES ASSUME NEW p \in Slot PROVE K[p] \in 1 .. NoKey
    OBVIOUS
  <2>1. Key \subseteq 1 .. NoKey
    BY DEF Key, NoKey
  <2> HIDE DEF place
  <2> QED
    BY <1>1, <1>2, <2>1
<1>4. N \in [Cell -> 0 .. MaxEntries]
  <2> SUFFICES ASSUME NEW p \in Cell PROVE N[p] \in 0 .. MaxEntries
    OBVIOUS
  <2>1. p \in place /\ p # newEnd => p + 1 \in 0 .. MaxEntries
    OBVIOUS
  <2> QED
    BY <1>1, <2>1 DEF End
<1>5. d.key = K /\ d.next = N /\ d.counter = n + b - a + 1
  BY <1>1 DEF CopyEntries, Chunk
<1>6. d \in Chunk
  <2>1. d = [c EXCEPT !.key = K, !.next = N, !.counter = @ + b - a + 1]
    BY DEF CopyEntries
  <2>2. n + b - a + 1 \in Nat
    OBVIOUS
  <2> HIDE DEF d, K, N
  <2> QED
    BY <1>1, <1>3, <1>4, <2>1, <2>2 DEF Chunk
<1> HIDE DEF d
<1>7. ASSUME NEW p \in 0 .. m - 1
      PROVE  d.key[p] = s[o + p + 1] /\ d.next[p] = IF p = m - 1 THEN End ELSE p + 1
  <2>1. p \in Slot /\ p \in Cell /\ p # EntryHead /\ m - 1 = newEnd
    BY DEF Cell, Slot, EntryHead
  <2>2. CASE p \in place
    BY <1>2, <1>5, <2>1, <2>2
  <2>3. CASE p \notin place
    <3>1. p \in 0 .. n - 1 /\ p # m - 1
      BY <2>3
    <3> QED
      BY <1>5, <2>1, <2>3, <3>1 DEF Open
  <2> QED
    BY <2>2, <2>3
<1>8. \A p \in Slot : p >= m => d.key[p] = NoKey
  BY <1>5 DEF Open, Slot
<1>9. d.next[EntryHead] = 0 /\ m # 0
  <2>1. EntryHead \in Cell
    BY DEF Cell
  <2>2. d.next[EntryHead] = 0
    BY ONLY <1>5, <2>1
  <2>3. m # 0
    BY ONLY a <= b, k = b - a + 1, m = n + k, a \in Nat, b \in Nat, n \in Nat, k \in Nat, m \in Nat
  <2> QED
    BY ONLY <2>2, <2>3
<1>10. d.counter = m
  BY ONLY <1>5, k = b - a + 1, m = n + k, a \in Nat, b \in Nat, n \in Nat, k \in Nat, m \in Nat
<1>11. Straight(d, s, o, m)
  BY <1>6, <1>7, <1>8, <1>9, <1>10 DEF Straight
<1> QED
  BY <1>11 DEF d

LEMMA CopyFirst ==
    ASSUME NEW s \in Seq(Key), NEW o \in Nat, NEW list \in Seq(Key),
           NEW a \in Nat, NEW b \in Nat, NEW m \in Nat, m = b - a + 1, m # 0,
           b < Len(list), m <= MaxEntries, o + m <= Len(s), SameKeys(list, a, s, o, m)
    PROVE  Straight(CopyEntries(list, a, b, 0, EmptyChunk), s, o, m)
<1>1. Open(EmptyChunk, s, o, 0)
  BY EmptyChunkOpen
<1>2. o = o + 0 /\ m = 0 + m /\ a <= b /\ 0 \in Nat
  OBVIOUS
<1> QED
  BY <1>1, <1>2, CopyIsStraight

LEMMA CopyBehind ==
    ASSUME NEW c, NEW s \in Seq(Key), NEW o \in Nat, NEW n \in Nat, NEW list \in Seq(Key),
           Straight(c, s, o, n), n >= 1,
           NEW a \in Nat, NEW b \in Nat, NEW q \in Nat, NEW k \in Nat, NEW m \in Nat,
           q = o + n, k = b - a + 1, m = n + k, k # 0,
           b < Len(list), m <= MaxEntries, o + m <= Len(s), SameKeys(list, a, s, q, k)
    PROVE  Straight(CopyEntries(list, a, b, n, Connect(c, n - 1)), s, o, m)
<1>1. n < MaxEntries /\ a <= b
  BY SizeAssumption
<1>2. Open(Connect(c, n - 1), s, o, n)
  BY <1>1, ConnectOpens
<1> QED
  BY <1>1, <1>2, CopyIsStraight
-----------------------------------------------------------------------------
All == low \o high

\* what freeze hands over does not change
OldInv ==
    /\ low \in Seq(Key) /\ high \in Seq(Key)
    /\ Len(low) <= MaxEntries /\ Len(high) <= MaxEntries /\ Ascending(All)
    /\ root \in BOOLEAN /\ inner \in BOOLEAN
    /\ \/ /\ recov = "R_COPY" /\ high = <<>>
          /\ Len(low) < MaxEntries /\ (root \/ Len(low) > MinEntries)
       \/ /\ recov = "R_SPLIT" /\ high = <<>>
          /\ Len(low) = MaxEntries
       \/ /\ recov = "R_MERGE" /\ ~root
          /\ Len(low) >= MinEntries /\ Len(high) >= MinEntries
          /\ MinEntries \in {Len(low), Len(high)}

\* the old keys one after the other, the low partner first
LEMMA AllFacts ==
    ASSUME OldInv
    PROVE  /\ All \in Seq(Key) /\ Len(All) = Len(low) + Len(high)
           /\ Len(low) \in Nat /\ Len(high) \in Nat
           /\ \A i \in 1 .. Len(low) : All[i] = low[i]
           /\ \A i \in 1 .. Len(high) : All[Len(low) + i] = high[i]
<1>1. low \in Seq(Key) /\ high \in Seq(Key)
  BY DEF OldInv
<1>2. All \in Seq(Key) /\ Len(All) = Len(low) + Len(high) /\ Len(low) \in Nat /\ Len(high) \in Nat
  BY <1>1 DEF All
<1>3. ASSUME NEW i \in 1 .. Len(low) PROVE All[i] = low[i]
  BY <1>1 DEF All
<1>4. ASSUME NEW i \in 1 .. Len(high) PROVE All[Len(low) + i] = high[i]
  BY <1>1, <1>2 DEF All
<1> QED
  BY <1>2, <1>3, <1>4

LEMMA OldKeysAre ==
    ASSUME OldInv
    PROVE  OldKeys = {All[i] : i \in 1 .. Len(All)}
<1>1. ASSUME NEW k \in OldKeys PROVE k \in {All[i] : i \in 1 .. Len(All)}
  <2>1. CASE \E i \in 1 .. Len(low) : k = low[i]
    BY <2>1, AllFacts
  <2>2. CASE \E i \in 1 .. Len(high) : k = high[i]
    <3>1. PICK i \in 1 .. Len(high) : k = high[i]
      BY <2>2
    <3>2. Len(low) + i \in 1 .. Len(All) /\ All[Len(low) + i] = k
      BY <3>1, AllFacts
    <3> QED
      BY <3>2
  <2> QED
    BY <1>1, <2>1, <2>2 DEF OldKeys
<1>2. ASSUME NEW i \in 1 .. Len(All) PROVE All[i] \in OldKeys
  <2>1. CASE i <= Len(low)
    BY <2>1, AllFacts DEF OldKeys
  <2>2. CASE i > Len(low)
    <3>1. i - Len(low) \in 1 .. Len(high) /\ Len(low) + (i - Len(low)) = i
      BY <2>2, AllFacts
    <3>2. All[i] = high[i - Len(low)]
      BY <3>1, AllFacts
    <3> QED
      BY <3>1, <3>2 DEF OldKeys
  <2> QED
    BY <2>1, <2>2, AllFacts
<1> QED
  BY <1>1, <1>2

(***************************************************************************)
(* One chunk that holds all the keys and has room, or two that hold the    *)
(* lower and the upper half of them.                                       *)
(***************************************************************************)
OneChunk(p) ==
    /\ p \in Replacement /\ ~p.two
    /\ Straight(p.low, All, 0, Len(All))
    /\ Len(All) < MaxEntries
    /\ (root /\ recov = "R_COPY") \/ Len(All) > MinEntries

TwoChunks(p) ==
    LET m == MedianIndex(Len(All))
    IN  /\ p \in Replacement /\ p.two /\ p.sep = All[m]
        /\ Straight(p.low, All, 0, m)
        /\ Straight(p.high, All, m, Len(All) - m)
        /\ Len(All) \in MaxEntries .. MaxEntries + MinEntries

LEMMA WholeIsStraight ==
    ASSUME OldInv, Len(low) >= 1
    PROVE  Straight(Whole(low), All, 0, Len(low))
<1> DEFINE n == Len(low)
<1>1. SameKeys(low, 0, All, 0, n)
  BY AllFacts DEF SameKeys
<1>2. /\ n \in Nat /\ n - 1 \in Nat /\ n = (n - 1) - 0 + 1 /\ n # 0 /\ n - 1 < n /\ 0 + n <= Len(All)
      /\ low \in Seq(Key) /\ All \in Seq(Key) /\ n <= MaxEntries
  BY AllFacts DEF OldInv
<1>3. Straight(CopyEntries(low, 0, n - 1, 0, EmptyChunk), All, 0, n)
  BY <1>1, <1>2, CopyFirst
<1> QED
  BY <1>3 DEF Whole

LEMMA NothingType == Nothing \in Replacement
BY EmptyChunkType, SizeAssumption DEF Nothing, Replacement, Key

LEMMA NothingBut ==
    ASSUME NEW c \in Chunk
    PROVE  LET p == [Nothing EXCEPT !.low = c] IN p \in Replacement /\ ~p.two /\ p.low = c
<1>1. ~Nothing.two
  BY DEF Nothing
<1> QED
  BY <1>1, NothingType DEF Replacement

LEMMA CopyShape ==
    ASSUME OldInv, recov = "R_COPY"
    PROVE  OneChunk(CopyToOneChunk(low))
<1> DEFINE p == CopyToOneChunk(low)
<1>1. Len(All) = Len(low) /\ Len(low) < MaxEntries /\ (root \/ Len(low) > MinEntries)
  <2>1. high = <<>> /\ Len(<<>>) = 0
    BY DEF OldInv
  <2> QED
    BY <2>1, AllFacts DEF OldInv
<1> DEFINE c == IF low = <<>> THEN EmptyChunk ELSE Whole(low)
<1>2. Straight(c, All, 0, Len(All))
  <2>1. CASE low = <<>>
    BY <1>1, <2>1, EmptyChunkOpen
  <2>2. CASE low # <<>>
    <3>1. Len(low) >= 1
      BY <2>2 DEF OldInv
    <3> QED
      BY <1>1, <2>2, <3>1, WholeIsStraight
  <2> QED
    BY <2>1, <2>2
<1>3. p = [Nothing EXCEPT !.low = c]
  BY DEF CopyToOneChunk
<1> HIDE DEF c, p
<1>4. OneChunk(p)
  BY <1>1, <1>2, <1>3, NothingBut DEF OneChunk, Straight
<1> QED
  BY <1>4 DEF p

LEMMA SplitShape ==
    ASSUME OldInv, recov = "R_SPLIT"
    PROVE  TwoChunks(SplitIntoTwoChunks(low))
<1> DEFINE n == Len(low)
           m == MedianIndex(n)
           p == SplitIntoTwoChunks(low)
           L == CopyEntries(low, 0, m - 1, 0, EmptyChunk)
           H == CopyEntries(low, m, n - 1, 0, EmptyChunk)
<1>1. /\ Len(All) = n /\ n = MaxEntries /\ low \in Seq(Key) /\ All = low /\ All \in Seq(Key)
      /\ n \in Nat /\ n >= 2 /\ n \in MaxEntries .. MaxEntries + MinEntries
  <2>1. high = <<>> /\ low \in Seq(Key) /\ Len(low) = MaxEntries
    BY DEF OldInv
  <2> QED
    BY <2>1, SizeAssumption DEF All
<1> HIDE DEF n
<1>2. m \in Nat /\ m >= 1 /\ m < n
  BY <1>1, Median
<1> HIDE DEF m
<1>3. SameKeys(low, 0, All, 0, m) /\ SameKeys(low, m, All, m, n - m)
  BY <1>1 DEF SameKeys
<1>4. Straight(L, All, 0, m)
  <2>1. m - 1 \in Nat /\ m = (m - 1) - 0 + 1 /\ m # 0 /\ m - 1 < n /\ m <= MaxEntries /\ 0 + m <= n
    BY <1>1, <1>2
  <2> QED
    BY <1>1, <1>2, <1>3, <2>1, CopyFirst DEF n
<1>5. Straight(H, All, m, n - m)
  <2>1. /\ n - 1 \in Nat /\ n - m \in Nat /\ n - m = (n - 1) - m + 1 /\ n - m # 0 /\ n - 1 < n
        /\ n - m <= MaxEntries /\ m + (n - m) <= n
    BY <1>1, <1>2
  <2> QED
    BY <1>1, <1>2, <1>3, <2>1, CopyFirst DEF n
<1>6. p = [low |-> L, high |-> H, two |-> TRUE, sep |-> low[m]]
  BY DEF SplitIntoTwoChunks, m, n
<1> HIDE DEF p, L, H
<1>7. p.low = L /\ p.high = H /\ p.two /\ p.sep = All[m] /\ p \in Replacement
  <2>1. low[m] = All[m] /\ low[m] \in Key
    BY <1>1, <1>2
  <2>2. L \in Chunk /\ H \in Chunk
    BY <1>4, <1>5 DEF Straight
  <2> QED
    BY <1>6, <2>1, <2>2 DEF Replacement
<1>8. TwoChunks(p)
  BY <1>1, <1>4, <1>5, <1>7 DEF TwoChunks, m
<1> QED
  BY <1>8 DEF p

LEMMA MergeToOneShape ==
    ASSUME OldInv, recov = "R_MERGE", ~TwoNeeded(Len(low) + Len(high))
    PROVE  OneChunk(MergeToOneChunk(low, high))
<1> DEFINE n == Len(low)
           h == Len(high)
           p == MergeToOneChunk(low, high)
           d == CopyEntries(high, 0, h - 1, n, Connect(Whole(low), n - 1))
<1>1. /\ n >= MinEntries /\ h >= MinEntries /\ low \in Seq(Key) /\ high \in Seq(Key) /\ All \in Seq(Key)
      /\ n \in Nat /\ h \in Nat /\ Len(All) = n + h
  BY AllFacts DEF OldInv
<1>2. n >= 1 /\ h >= 1 /\ n + h < MaxEntries /\ n + h > MinEntries
  BY <1>1, SizeAssumption DEF TwoNeeded
<1>3. Straight(Whole(low), All, 0, n)
  BY <1>2, WholeIsStraight
<1>4. SameKeys(high, 0, All, n, h)
  BY AllFacts DEF SameKeys
<1> HIDE DEF n, h
<1>5. Straight(d, All, 0, n + h)
  <2>1. /\ h - 1 \in Nat /\ n + h \in Nat /\ n = 0 + n /\ h = (h - 1) - 0 + 1 /\ h # 0 /\ h - 1 < h
        /\ n + h <= MaxEntries /\ 0 + (n + h) <= n + h
    BY <1>1, <1>2, SizeAssumption
  <2> QED
    BY <1>1, <1>2, <1>3, <1>4, <2>1, CopyBehind DEF h
<1>6. p = [Nothing EXCEPT !.low = d]
  BY DEF MergeToOneChunk, n, h
<1> HIDE DEF p, d
<1>7. OneChunk(p)
  BY <1>1, <1>2, <1>5, <1>6, NothingBut DEF OneChunk, Straight
<1> QED
  BY <1>7 DEF p

LEMMA MergeToTwoShape ==
    ASSUME OldInv, recov = "R_MERGE", TwoNeeded(Len(low) + Len(high))
    PROVE  TwoChunks(MergeToTwoChunks(low, high))
<1> DEFINE n == Len(low)
           h == Len(high)
           m == MedianIndex(n + h)
           p == MergeToTwoChunks(low, high)
           c == CopyEntries(low, m, n - 1, 0, EmptyChunk)
           L == IF n >= m THEN CopyEntries(low, 0, m - 1, 0, EmptyChunk)
                ELSE CopyEntries(high, 0, m - 1 - n, n, Connect(Whole(low), n - 1))
           H == IF n > m THEN CopyEntries(high, 0, h - 1, n - m, Connect(c, n - m - 1))
                ELSE CopyEntries(high, m - n, h - 1, 0, EmptyChunk)
<1>1. /\ n \in Nat /\ h \in Nat /\ low \in Seq(Key) /\ high \in Seq(Key) /\ All \in Seq(Key)
      /\ n >= MinEntries /\ h >= MinEntries /\ n <= MaxEntries /\ h <= MaxEntries
      /\ n = MinEntries \/ h = MinEntries
      /\ Len(All) = n + h /\ n + h >= MaxEntries
  BY AllFacts DEF OldInv, TwoNeeded
<1>2. n >= 1 /\ h >= 1 /\ n + h \in MaxEntries .. MaxEntries + MinEntries /\ n + h \in Nat /\ n + h >= 1
  BY <1>1, SizeAssumption
<1>3. n >= 1 => Straight(Whole(low), All, 0, n)
  BY WholeIsStraight
<1>4. (\A i \in 1 .. n : low[i] = All[i]) /\ (\A i \in 1 .. h : high[i] = All[n + i])
  BY AllFacts
<1>5. p = [low |-> L, high |-> H, two |-> TRUE, sep |-> All[m]]
  BY DEF MergeToTwoChunks, All
<1>6. m \in Nat /\ m >= 1 /\ (2 * m = n + h \/ 2 * m = n + h + 1)
  BY <1>2, Median
<1> HIDE DEF m
<1>7. m < n + h /\ m <= MaxEntries /\ n + h - m <= MaxEntries /\ n + h - m \in Nat /\ n + h - m # 0
  BY <1>1, <1>2, <1>6, SizeAssumption
<1> USE <1>1, <1>2, <1>6, <1>7
<1>8. Straight(L, All, 0, m)
  <2>1. CASE n >= m
    <3>1. SameKeys(low, 0, All, 0, m)
      <4> SUFFICES ASSUME NEW i \in 1 .. m PROVE low[0 + i] = All[0 + i]
        BY DEF SameKeys
      <4>1. i \in 1 .. n /\ 0 + i = i
        BY <2>1
      <4> QED
        BY <1>4, <4>1
    <3>2. m - 1 \in Nat /\ m = (m - 1) - 0 + 1 /\ m # 0 /\ m - 1 < n /\ 0 + m <= n + h
      BY <2>1
    <3>3. Straight(CopyEntries(low, 0, m - 1, 0, EmptyChunk), All, 0, m)
      BY <3>1, <3>2, CopyFirst
    <3> QED
      BY <2>1, <3>3
  <2>2. CASE ~(n >= m)
    <3> DEFINE b == m - 1 - n
               k == m - n
    <3>1. SameKeys(high, 0, All, n, k)
      <4> SUFFICES ASSUME NEW i \in 1 .. k PROVE high[0 + i] = All[n + i]
        BY DEF SameKeys
      <4>1. i \in 1 .. h /\ 0 + i = i
        BY <2>2
      <4> QED
        BY <1>4, <4>1
    <3>2. /\ b \in Nat /\ k \in Nat /\ n = 0 + n /\ k = b - 0 + 1 /\ m = n + k /\ k # 0 /\ b < h
          /\ 0 + m <= n + h
      BY <2>2
    <3> HIDE DEF b, k
    <3>3. Straight(CopyEntries(high, 0, b, n, Connect(Whole(low), n - 1)), All, 0, m)
      BY <1>3, <3>1, <3>2, CopyBehind
    <3> QED
      BY <2>2, <3>3 DEF b
  <2> QED
    BY <2>1, <2>2
<1>9. Straight(H, All, m, n + h - m)
  <2> DEFINE r == n + h - m
  <2>1. CASE n > m
    <3> DEFINE j == n - m
    <3>0. SameKeys(low, m, All, m, j)
      <4> SUFFICES ASSUME NEW i \in 1 .. j PROVE low[m + i] = All[m + i]
        BY DEF SameKeys
      <4>1. m + i \in 1 .. n
        BY <2>1
      <4> QED
        BY <1>4, <4>1
    <3>1. SameKeys(high, 0, All, n, h)
      BY <1>4 DEF SameKeys
    <3>2. j \in Nat /\ n - 1 \in Nat /\ j = (n - 1) - m + 1 /\ j # 0 /\ n - 1 < n /\ m + j <= n + h
          /\ j <= MaxEntries
      <4>1. j \in Nat /\ j # 0 /\ j <= MaxEntries /\ n - 1 \in Nat
        BY <2>1, SizeAssumption
      <4>2. j = (n - 1) - m + 1 /\ n - 1 < n /\ m + j <= n + h
        BY <2>1
      <4> QED
        BY <4>1, <4>2
    <3>3. h - 1 \in Nat /\ r \in Nat /\ n = m + j /\ h = (h - 1) - 0 + 1 /\ r = j + h /\ h # 0 /\ h - 1 < h
          /\ m + r <= n + h /\ j >= 1 /\ r <= MaxEntries
      BY <2>1
    <3> HIDE DEF j, r
    <3>4. Straight(c, All, m, j)
      BY <3>0, <3>2, CopyFirst
    <3> HIDE DEF c
    <3>5. Straight(CopyEntries(high, 0, h - 1, j, Connect(c, j - 1)), All, m, r)
      BY <3>1, <3>2, <3>3, <3>4, CopyBehind
    <3> QED
      BY <2>1, <3>5 DEF j, r
  <2>2. CASE ~(n > m)
    <3> DEFINE a == m - n
    <3>1. SameKeys(high, a, All, m, r)
      <4> SUFFICES ASSUME NEW i \in 1 .. r PROVE high[a + i] = All[m + i]
        BY DEF SameKeys
      <4>1. a + i \in 1 .. h /\ n + (a + i) = m + i
        BY <2>2
      <4> QED
        BY <1>4, <4>1
    <3>2. /\ a \in Nat /\ h - 1 \in Nat /\ r \in Nat /\ r = (h - 1) - a + 1 /\ r # 0 /\ h - 1 < h
          /\ r <= MaxEntries /\ m + r <= n + h
      BY <2>2
    <3> HIDE DEF a, r
    <3>3. Straight(CopyEntries(high, a, h - 1, 0, EmptyChunk), All, m, r)
      BY <3>1, <3>2, CopyFirst
    <3> QED
      BY <2>2, <3>3 DEF a, r
  <2> QED
    BY <2>1, <2>2
<1> HIDE DEF p, L, H
<1>10. p.low = L /\ p.high = H /\ p.two /\ p.sep = All[m] /\ p \in Replacement
  <2>1. All[m] \in Key
    BY AllFacts
  <2>2. L \in Chunk /\ H \in Chunk
    BY <1>8, <1>9 DEF Straight
  <2> QED
    BY <1>5, <2>1, <2>2 DEF Replacement
<1>11. TwoChunks(p)
  BY <1>8, <1>9, <1>10 DEF TwoChunks, m
<1> QED
  BY <1>11 DEF p

LEMMA BuiltShape ==
    ASSUME OldInv
    PROVE  OneChunk(Built) \/ (TwoChunks(Built) /\ recov # "R_COPY")
<1>1. CASE recov = "R_COPY"
  BY <1>1, CopyShape DEF Built
<1>2. CASE recov = "R_SPLIT"
  BY <1>2, SplitShape DEF Built
<1>3. CASE recov = "R_MERGE"
  BY <1>3, MergeToOneShape, MergeToTwoShape DEF Built
<1> QED
  BY <1>1, <1>2, <1>3 DEF OldInv
-----------------------------------------------------------------------------
KeysOf(p) == KeysIn(p.low) \cup IF p.two THEN KeysIn(p.high) ELSE {}

Room(c)   == Free(c) # {} /\ MayDelete(c) /\ (InList(c) # {} => c.counter # 0)
Exact(c)  == c.counter = Cardinality(InList(c))
Apart(p)  == p.two => /\ \A k \in KeysIn(p.low) : k <= p.sep
                      /\ \A k \in KeysIn(p.high) : k > p.sep

\* a replacement whose lists are in order, and divided by the separator
Orderly(p) ==
    /\ p \in Replacement /\ Linked(p.low) /\ (p.two => Linked(p.high))
    /\ Apart(p)
    /\ ~inner => /\ p.two = Built.two /\ p.sep = Built.sep
                 /\ Exact(p.low) /\ (p.two => Exact(p.high))

\* ... that is ready for the call
Ready(p) ==
    /\ Orderly(p) /\ Room(p.low) /\ (p.two => Room(p.high))
    /\ ~inner => KeysOf(p) = OldKeys

LEMMA OneReady ==
    ASSUME OldInv, OneChunk(Built)
    PROVE  Ready(Built)
<1> DEFINE c == Built.low
           n == Len(All)
<1>1. /\ All \in Seq(Key) /\ Ascending(All) /\ 0 + n <= n /\ n <= MaxEntries /\ n \in Nat /\ n < MaxEntries
      /\ Built \in Replacement /\ ~Built.two /\ Straight(c, All, 0, n)
  BY AllFacts, SizeAssumption DEF OneChunk, OldInv
<1>2. Linked(c) /\ InList(c) = 0 .. n - 1 /\ KeysIn(c) = {All[i] : i \in 0 + 1 .. 0 + n}
      /\ Cardinality(InList(c)) = n /\ Free(c) # {}
  BY <1>1, StraightLinked
<1>3. c.counter = n
  BY <1>1 DEF Straight
<1>4. KeysIn(c) = OldKeys
  BY <1>1, <1>2, OldKeysAre
<1>5. Room(c)
  BY <1>1, <1>2, <1>3 DEF Room, MayDelete, OneChunk
<1> QED
  BY <1>1, <1>2, <1>3, <1>4, <1>5 DEF Ready, Orderly, Apart, Exact, KeysOf

(***************************************************************************)
(* After k moves: the lower half has k keys less; in the upper half the    *)
(* list begins with the key moved last, followed by the keys of before.    *)
(* The key moved first is not met any more when there are two.             *)
(***************************************************************************)
AfterMoves(q, k) ==
    LET m == MedianIndex(Len(All))
        h == Len(All) - m
    IN  /\ q \in Replacement /\ q.two
        /\ Straight(q.low, All, 0, m - k)
        /\ q.high \in Chunk /\ q.high.counter = h + k
        /\ \A p \in 0 .. h - 1 : /\ q.high.key[p] = All[m + p + 1]
                                 /\ q.high.next[p] = IF p = h - 1 THEN End ELSE p + 1
        /\ \A p \in Slot : p >= h + k => q.high.key[p] = NoKey
        /\ IF k = 0 THEN q.high.next[EntryHead] = 0
           ELSE /\ q.high.next[EntryHead] = h + k - 1
                /\ q.high.next[h + k - 1] = 0
                /\ q.high.key[h + k - 1] = All[m - k + 1]

\* with two chunks, both are larger and both smaller than the bounds by what is needed
LEMMA HalfSizes ==
    ASSUME OldInv, Len(All) \in MaxEntries .. MaxEntries + MinEntries
    PROVE  LET m == MedianIndex(Len(All))
               h == Len(All) - m
           IN  /\ m \in Nat /\ h \in Nat /\ Len(All) \in Nat /\ m + h = Len(All)
               /\ m >= MinEntries + 3 /\ h >= MinEntries + 3
               /\ m + 2 < MaxEntries /\ h + 2 < MaxEntries
<1> DEFINE n == Len(All)
           m == MedianIndex(n)
           h == n - m
<1>1. n \in Nat /\ n >= 1 /\ n \in MaxEntries .. MaxEntries + MinEntries
  BY SizeAssumption
<1> HIDE DEF n
<1>2. m \in Nat /\ (2 * m = n \/ 2 * m = n + 1)
  BY <1>1, Median
<1> HIDE DEF m
<1>3. /\ h \in Nat /\ m + h = n /\ m >= MinEntries + 3 /\ h >= MinEntries + 3
      /\ m + 2 < MaxEntries /\ h + 2 < MaxEntries
  BY <1>1, <1>2, SizeAssumption
<1> QED
  BY <1>1, <1>2, <1>3 DEF m, n

LEMMA NotMoved ==
    ASSUME OldInv, TwoChunks(Built)
    PROVE  AfterMoves(Built, 0)
<1> DEFINE m == MedianIndex(Len(All))
           h == Len(All) - m
<1>1. /\ m \in Nat /\ h \in Nat /\ m >= MinEntries + 3 /\ h >= MinEntries + 3
      /\ m + h = Len(All) /\ Len(All) \in Nat
  <2>1. Len(All) \in MaxEntries .. MaxEntries + MinEntries
    BY DEF TwoChunks
  <2> QED
    BY <2>1, HalfSizes
<1>2. Straight(Built.low, All, 0, m) /\ Straight(Built.high, All, m, h)
      /\ Built \in Replacement /\ Built.two
  BY DEF TwoChunks
<1>5. m - 0 = m /\ h + 0 = h /\ h # 0
  <2> HIDE DEF m, h
  <2> QED
    BY <1>1, SizeAssumption
<1>6. /\ Built.high \in Chunk /\ Built.high.counter = h /\ Built.high.next[EntryHead] = 0
      /\ \A p \in 0 .. h - 1 : /\ Built.high.key[p] = All[m + p + 1]
                               /\ Built.high.next[p] = IF p = h - 1 THEN End ELSE p + 1
      /\ \A p \in Slot : p >= h => Built.high.key[p] = NoKey
  BY <1>2, <1>5 DEF Straight
<1> QED
  BY <1>2, <1>5, <1>6 DEF AfterMoves

LEMMA MoveOnce ==
    ASSUME OldInv, Len(All) \in MaxEntries .. MaxEntries + MinEntries,
           NEW q, NEW k \in {0, 1}, AfterMoves(q, k)
    PROVE  AfterMoves(Move(q), k + 1)
<1> DEFINE m == MedianIndex(Len(All))
           h == Len(All) - m
           a == q.low.counter - 1
           b == q.high.counter
           L == [q.low EXCEPT !.key[a] = NoKey, !.next[a] = End, !.next[a - 1] = End, !.counter = a]
           H == [q.high EXCEPT !.key[b] = q.low.key[a], !.next[b] = 0,
                               !.next[EntryHead] = b, !.counter = b + 1]
           r == Move(q)
<1>1. /\ m \in Nat /\ h \in Nat /\ m >= MinEntries + 3 /\ h >= MinEntries + 3
      /\ h + 2 < MaxEntries /\ m + 2 < MaxEntries /\ m + h = Len(All) /\ Len(All) \in Nat
      /\ MinEntries \in Nat /\ MaxEntries \in Nat
  BY HalfSizes, SizeAssumption
<1>2. /\ q \in Replacement /\ q.two /\ Straight(q.low, All, 0, m - k)
      /\ q.low \in Chunk /\ q.low.counter = m - k
      /\ q.high \in Chunk /\ b = h + k
  BY DEF AfterMoves, Straight
<1>3. a = m - k - 1 /\ a \in Slot /\ a - 1 \in Slot /\ b \in Slot
  <2> HIDE DEF m, h, b
  <2> QED
    BY <1>1, <1>2 DEF Slot
<1>4. q.low.key[a] = All[m - k] /\ All[m - k] \in Key
  <2>1. a \in 0 .. (m - k) - 1 /\ 0 + a + 1 = m - k /\ m - k \in 1 .. Len(All)
    <3> HIDE DEF m, h, a
    <3> QED
      BY <1>1, <1>3
  <2> QED
    BY <1>2, <2>1, AllFacts DEF Straight
<1> HIDE DEF m, h, a, b
<1> DEFINE KL == [q.low.key EXCEPT ![a] = NoKey]
           NL == [q.low.next EXCEPT ![a] = End, ![a - 1] = End]
           KH == [q.high.key EXCEPT ![b] = All[m - k]]
           NH == [q.high.next EXCEPT ![b] = 0, ![EntryHead] = b]
<1>5. /\ q.low.key \in [Slot -> 1 .. NoKey] /\ q.low.next \in [Cell -> 0 .. MaxEntries]
      /\ q.high.key \in [Slot -> 1 .. NoKey] /\ q.high.next \in [Cell -> 0 .. MaxEntries]
      /\ q.low.counter \in Nat /\ q.high.counter \in Nat
  BY <1>2 DEF Chunk
<1>6. /\ NoKey \in 1 .. NoKey /\ All[m - k] \in 1 .. NoKey /\ End \in 0 .. MaxEntries
      /\ b \in 0 .. MaxEntries /\ 0 \in 0 .. MaxEntries
      /\ a \in Cell /\ a - 1 \in Cell /\ b \in Cell /\ EntryHead \in Cell /\ b # EntryHead
  BY <1>3, <1>4, SizeAssumption DEF NoKey, Key, End, Slot, Cell, EntryHead
<1>7. /\ KL \in [Slot -> 1 .. NoKey] /\ KH \in [Slot -> 1 .. NoKey]
  BY <1>5, <1>6
<1>8. NL \in [Cell -> 0 .. MaxEntries]
  BY <1>5, <1>6
<1>9. NH \in [Cell -> 0 .. MaxEntries]
  BY <1>5, <1>6
<1>10. L.key = KL /\ L.next = NL /\ L.counter = m - k - 1 /\ L \in Chunk
  <2>1. L = [q.low EXCEPT !.key = KL, !.next = NL, !.counter = a]
    BY <1>2 DEF Chunk
  <2>2. a = m - k - 1 /\ a \in Nat
    BY <1>3 DEF Slot
  <2> HIDE DEF L, KL, NL
  <2> QED
    BY <1>2, <1>7, <1>8, <2>1, <2>2 DEF Chunk
<1>11. H.key = KH /\ H.next = NH /\ H.counter = h + k + 1 /\ H \in Chunk
  <2>1. H = [q.high EXCEPT !.key = KH, !.next = NH, !.counter = b + 1]
    BY <1>2, <1>4 DEF Chunk
  <2>2. b + 1 = h + k + 1 /\ b + 1 \in Nat
    BY <1>1, <1>2
  <2> HIDE DEF H, KH, NH
  <2> QED
    BY <1>2, <1>7, <1>9, <2>1, <2>2 DEF Chunk
<1>12. r.low = L /\ r.high = H /\ r.two /\ r \in Replacement
  <2>1. r = [q EXCEPT !.high = H, !.low = L]
    BY DEF Move, a, b
  <2> HIDE DEF r, H, L
  <2> QED
    BY <1>2, <1>10, <1>11, <2>1 DEF Replacement
<1> HIDE DEF r, H, L
<1>13. Straight(L, All, 0, m - k - 1)
  <2> DEFINE n == m - k - 1
  <2>1. L.next[EntryHead] = 0 /\ n # 0
    <3>1. EntryHead # a /\ EntryHead # a - 1
      BY <1>3 DEF Slot, EntryHead
    <3>2. q.low.next[EntryHead] = 0
      BY <1>1, <1>2 DEF Straight
    <3> QED
      BY <1>1, <1>5, <1>6, <1>10, <3>1, <3>2
  <2>2. ASSUME NEW p \in 0 .. n - 1
        PROVE  L.key[p] = All[0 + p + 1] /\ L.next[p] = IF p = n - 1 THEN End ELSE p + 1
    <3>1. p \in Slot /\ p \in Cell /\ p # a /\ (p = a - 1 <=> p = n - 1)
      BY <1>1, <1>3 DEF Slot, Cell
    <3>2. p \in 0 .. (m - k) - 1 /\ p # (m - k) - 1
      BY <1>1
    <3>3. q.low.key[p] = All[0 + p + 1] /\ q.low.next[p] = p + 1
      BY <1>2, <3>2 DEF Straight
    <3> QED
      BY <1>5, <1>6, <1>10, <3>1, <3>3
  <2>3. ASSUME NEW p \in Slot, p >= n PROVE L.key[p] = NoKey
    <3>1. p = a \/ p >= m - k
      BY <1>1, <1>3, <2>3 DEF Slot
    <3> QED
      BY <1>2, <1>3, <1>5, <1>10, <3>1 DEF Straight
  <2> QED
    BY <1>10, <2>1, <2>2, <2>3 DEF Straight
<1>14. ASSUME NEW p \in 0 .. h - 1
       PROVE  H.key[p] = All[m + p + 1] /\ H.next[p] = IF p = h - 1 THEN End ELSE p + 1
  <2>1. p \in Slot /\ p \in Cell /\ p # b /\ p # EntryHead
    BY <1>1, <1>2 DEF Slot, Cell, EntryHead
  <2>2. q.high.key[p] = All[m + p + 1] /\ q.high.next[p] = IF p = h - 1 THEN End ELSE p + 1
    BY DEF AfterMoves, m, h
  <2> QED
    BY <1>5, <1>6, <1>11, <2>1, <2>2
<1>15. ASSUME NEW p \in Slot, p >= h + (k + 1) PROVE H.key[p] = NoKey
  <2>1. p # b /\ p >= h + k
    BY <1>1, <1>2, <1>15 DEF Slot
  <2>2. q.high.key[p] = NoKey
    BY <2>1 DEF AfterMoves, m, h
  <2> QED
    BY <1>5, <1>11, <2>1, <2>2
<1> DEFINE j == k + 1
<1>16. b = h + j - 1 /\ m - k = m - j + 1 /\ j # 0 /\ h + k + 1 = h + j /\ m - k - 1 = m - j
  BY <1>1, <1>2
<1>17. H.next[EntryHead] = b /\ H.next[b] = 0 /\ H.key[b] = All[m - k]
  BY <1>3, <1>5, <1>6, <1>11
<1> HIDE DEF j
<1>18. /\ Straight(L, All, 0, m - j) /\ H \in Chunk /\ H.counter = h + j
       /\ H.next[EntryHead] = h + j - 1 /\ H.next[h + j - 1] = 0 /\ H.key[h + j - 1] = All[m - j + 1]
  BY <1>11, <1>13, <1>16, <1>17
<1>19. \A p \in Slot : p >= h + j => H.key[p] = NoKey
  BY <1>15 DEF j
<1>20. AfterMoves(r, j)
  BY <1>12, <1>14, <1>16, <1>18, <1>19 DEF AfterMoves, m, h
<1> QED
  BY <1>20 DEF r, j

LEMMA KeyInt == \A k \in Key : k \in Int
BY DEF Key

LEMMA UpperHalfLinked ==
    ASSUME OldInv, Len(All) \in MaxEntries .. MaxEntries + MinEntries,
           NEW q, NEW k \in {1, 2}, AfterMoves(q, k)
    PROVE  /\ Linked(q.high) /\ Free(q.high) # {}
           /\ \A x \in KeysIn(q.high) : x > All[MedianIndex(Len(All)) - k]
<1> DEFINE m == MedianIndex(Len(All))
           h == Len(All) - m
           c == q.high
           e == h + k - 1
           P == (0 .. h - 1) \cup {e}
<1>1. /\ m \in Nat /\ h \in Nat /\ m >= MinEntries + 3 /\ h >= MinEntries + 3
      /\ h + 2 < MaxEntries /\ m + h = Len(All) /\ Len(All) \in Nat
      /\ MinEntries \in Nat /\ MaxEntries \in Nat
  BY HalfSizes, SizeAssumption
<1>2. All \in Seq(Key) /\ Ascending(All)
  BY AllFacts DEF OldInv
<1>3. /\ \A p \in 0 .. h - 1 : c.key[p] = All[m + p + 1] /\ c.next[p] = IF p = h - 1 THEN End ELSE p + 1
      /\ \A p \in Slot : p >= h + k => c.key[p] = NoKey
      /\ c.next[EntryHead] = e /\ c.next[e] = 0 /\ c.key[e] = All[m - k + 1]
  BY DEF AfterMoves
<1> HIDE DEF m, h, c
<1>4. ASSUME NEW i \in 1 .. Len(All), NEW j \in 1 .. Len(All), i < j
      PROVE  All[i] < All[j]
  BY <1>2, <1>4, AscendingLess
<1>5. ASSUME NEW i \in 1 .. Len(All) PROVE All[i] \in Key /\ All[i] \in Int
  BY <1>2, KeyInt
<1>6. /\ e \in Slot /\ P \subseteq Slot /\ 0 \in 0 .. h - 1 /\ e \notin 0 .. h - 1 /\ e # End
      /\ m - k + 1 \in 1 .. Len(All) /\ m - k \in 1 .. Len(All) /\ m - k + 1 < m + 0 + 1 /\ m - k < m - k + 1
  BY <1>1 DEF Slot, End
<1>7. ASSUME NEW p \in 0 .. h - 1 PROVE m + p + 1 \in 1 .. Len(All) /\ m - k < m + p + 1
  BY <1>1
<1>8. Links(c, P)
  <2>1. c.next[EntryHead] \in P \cup {End}
    BY <1>3
  <2>2. ASSUME NEW p \in P
        PROVE  /\ c.key[p] \in Key /\ c.next[p] \in P \cup {End}
               /\ c.next[p] # End => c.key[p] < c.key[c.next[p]]
    <3>1. CASE p = e
      <4>1. c.key[0] = All[m + 0 + 1] /\ m + 0 + 1 \in 1 .. Len(All)
        BY <1>3, <1>6, <1>7
      <4>2. All[m - k + 1] < All[m + 0 + 1] /\ All[m - k + 1] \in Key
        BY <1>4, <1>5, <1>6, <4>1
      <4> QED
        BY <1>3, <1>6, <3>1, <4>1, <4>2
    <3>2. CASE p \in 0 .. h - 1 /\ p = h - 1
      BY <1>3, <1>5, <1>7, <3>2
    <3>3. CASE p \in 0 .. h - 1 /\ p # h - 1
      <4>1. p + 1 \in 0 .. h - 1 /\ m + p + 1 < m + (p + 1) + 1
        BY <1>1, <3>3
      <4>2. c.key[p] = All[m + p + 1] /\ c.key[p + 1] = All[m + (p + 1) + 1] /\ c.next[p] = p + 1
        BY <1>3, <3>3, <4>1
      <4>3. All[m + p + 1] < All[m + (p + 1) + 1] /\ All[m + p + 1] \in Key
        BY <1>4, <1>5, <1>7, <3>3, <4>1
      <4> QED
        BY <4>1, <4>2, <4>3
    <3> QED
      BY <3>1, <3>2, <3>3
  <2>3. ASSUME NEW r \in P PROVE \E p \in P \cup {EntryHead} : c.next[p] = r
    <3>1. CASE r = e
      BY <1>3, <3>1
    <3>2. CASE r = 0
      BY <1>3, <3>2
    <3>3. CASE r # e /\ r # 0
      <4>1. r - 1 \in 0 .. h - 1 /\ r - 1 # h - 1 /\ (r - 1) + 1 = r
        BY <1>1, <3>3
      <4> QED
        BY <1>3, <4>1
    <3> QED
      BY <3>1, <3>2, <3>3
  <2> QED
    BY <1>6, <2>1, <2>2, <2>3 DEF Links
<1>9. Linked(c) /\ InList(c) = P
  BY <1>8, LinksLinked
<1>10. ASSUME NEW x \in KeysIn(c) PROVE x > All[m - k]
  <2>1. PICK p \in P : x = c.key[p]
    BY <1>9 DEF KeysIn
  <2>2. CASE p = e
    <3>1. All[m - k] < All[m - k + 1]
      BY <1>4, <1>6
    <3> QED
      BY <1>3, <1>5, <1>6, <2>1, <2>2, <3>1
  <2>3. CASE p \in 0 .. h - 1
    <3>1. All[m - k] < All[m + p + 1]
      BY <1>4, <1>6, <1>7, <2>3
    <3> QED
      BY <1>3, <1>5, <1>6, <1>7, <2>1, <2>3, <3>1
  <2> QED
    BY <2>2, <2>3
<1>11. Free(c) # {}
  <2>1. h + k \in Slot /\ h + k >= h + k
    BY <1>1 DEF Slot
  <2> QED
    BY <1>3, <2>1 DEF Free
<1> QED
  BY <1>9, <1>10, <1>11 DEF c, m

\* the lower half after k moves, and its last key
LEMMA LowerHalfLinked ==
    ASSUME OldInv, Len(All) \in MaxEntries .. MaxEntries + MinEntries,
           NEW q, NEW k \in {0, 1, 2}, AfterMoves(q, k)
    PROVE  LET n == MedianIndex(Len(All)) - k
           IN  /\ Linked(q.low) /\ Free(q.low) # {}
               /\ InList(q.low) = 0 .. n - 1 /\ Cardinality(InList(q.low)) = n
               /\ KeysIn(q.low) = {All[i] : i \in 1 .. n}
               /\ \A x \in KeysIn(q.low) : x <= All[n]
               /\ MaxKeyIn(q.low) = All[n] /\ All[n] \in Key
               /\ q.low.counter = n /\ n > MinEntries
<1> DEFINE m == MedianIndex(Len(All))
           n == m - k
           c == q.low
<1>1. /\ m \in Nat /\ m >= MinEntries + 3 /\ m + 2 < MaxEntries /\ m <= Len(All) /\ Len(All) \in Nat
      /\ MinEntries \in Nat /\ MaxEntries \in Nat
  <2>1. /\ m \in Nat /\ m >= MinEntries + 3 /\ m + 2 < MaxEntries /\ Len(All) \in Nat
        /\ Len(All) - m \in Nat /\ m + (Len(All) - m) = Len(All)
    BY HalfSizes
  <2> HIDE DEF m
  <2> QED
    BY <2>1, SizeAssumption
<1>2. All \in Seq(Key) /\ Ascending(All)
  BY AllFacts DEF OldInv
<1>3. Straight(c, All, 0, n)
  BY DEF AfterMoves
<1> HIDE DEF m
<1>4. /\ n \in Nat /\ 0 + n <= Len(All) /\ n <= MaxEntries /\ n < MaxEntries /\ n > MinEntries
      /\ n \in 1 .. Len(All) /\ n - 1 \in 0 .. n - 1 /\ 0 + (n - 1) + 1 = n /\ 0 + 1 = 1 /\ 0 + n = n
  BY <1>1
<1> HIDE DEF n
<1>5. /\ Linked(c) /\ InList(c) = 0 .. n - 1 /\ KeysIn(c) = {All[i] : i \in 0 + 1 .. 0 + n}
      /\ Cardinality(InList(c)) = n /\ Free(c) # {}
  BY <1>2, <1>3, <1>4, StraightLinked
<1>6. All[n] \in Key /\ All[n] \in Int
  BY <1>2, <1>4, KeyInt
<1>7. ASSUME NEW i \in 1 .. n PROVE All[i] <= All[n]
  <2>1. i = n \/ (i < n /\ i \in 1 .. Len(All))
    BY <1>4
  <2>2. i < n /\ i \in 1 .. Len(All) => All[i] < All[n] /\ All[i] \in Int
    BY <1>2, <1>4, AscendingLess, KeyInt
  <2> QED
    BY <1>6, <2>1, <2>2
<1>8. MaxKeyIn(c) = All[n]
  <2> DEFINE s == CHOOSE s \in InList(c) : c.next[s] = End
  <2>1. c.next[n - 1] = End
    BY <1>3, <1>4 DEF Straight
  <2>2. s \in 0 .. n - 1 /\ c.next[s] = End
    BY <1>4, <1>5, <2>1
  <2> HIDE DEF s
  <2>3. s = n - 1
    BY <1>3, <1>4, <2>2 DEF Straight, End
  <2>4. c.key[n - 1] = All[n]
    BY <1>3, <1>4 DEF Straight
  <2> QED
    BY <2>3, <2>4 DEF MaxKeyIn, s
<1>9. c.counter = n
  BY <1>3 DEF Straight
<1> QED
  BY <1>4, <1>5, <1>6, <1>7, <1>8, <1>9 DEF n, m

LEMMA NotMovedReady ==
    ASSUME OldInv, TwoChunks(Built)
    PROVE  Ready(Built)
<1> DEFINE m == MedianIndex(Len(All))
           h == Len(All) - m
           c == Built.high
<1>1. Len(All) \in MaxEntries .. MaxEntries + MinEntries /\ AfterMoves(Built, 0)
      /\ Built \in Replacement /\ Built.two /\ Built.sep = All[m] /\ Straight(c, All, m, h)
  BY NotMoved DEF TwoChunks
<1>2. /\ m \in Nat /\ h \in Nat /\ m >= MinEntries + 3 /\ h >= MinEntries + 3
      /\ h + 2 < MaxEntries /\ m + h = Len(All) /\ Len(All) \in Nat
      /\ MinEntries \in Nat /\ MaxEntries \in Nat
  BY <1>1, HalfSizes, SizeAssumption
<1>3. All \in Seq(Key) /\ Ascending(All)
  BY AllFacts DEF OldInv
<1>4. /\ Linked(Built.low) /\ Free(Built.low) # {}
      /\ InList(Built.low) = 0 .. m - 1 /\ Cardinality(InList(Built.low)) = m
      /\ KeysIn(Built.low) = {All[i] : i \in 1 .. m}
      /\ \A x \in KeysIn(Built.low) : x <= All[m]
      /\ Built.low.counter = m /\ m > MinEntries
  <2>1. m - 0 = m
    BY <1>2
  <2>2. LET n == m - 0
        IN  /\ Linked(Built.low) /\ Free(Built.low) # {}
            /\ InList(Built.low) = 0 .. n - 1 /\ Cardinality(InList(Built.low)) = n
            /\ KeysIn(Built.low) = {All[i] : i \in 1 .. n}
            /\ \A x \in KeysIn(Built.low) : x <= All[n]
            /\ Built.low.counter = n /\ n > MinEntries
    BY <1>1, LowerHalfLinked
  <2> HIDE DEF m
  <2> QED
    BY <2>1, <2>2
<1> HIDE DEF m, h
<1>5. h <= MaxEntries /\ h < MaxEntries /\ m + h <= Len(All) /\ h # MinEntries /\ m # MinEntries /\ h # 0 /\ m # 0
  BY <1>2
<1>6. /\ Linked(c) /\ InList(c) = 0 .. h - 1 /\ KeysIn(c) = {All[i] : i \in m + 1 .. m + h}
      /\ Cardinality(InList(c)) = h /\ Free(c) # {}
  BY <1>1, <1>2, <1>3, <1>5, StraightLinked
<1>7. c.counter = h
  BY <1>1 DEF Straight
<1>8. \A x \in KeysIn(c) : x > All[m]
  <2> SUFFICES ASSUME NEW i \in m + 1 .. m + h PROVE All[i] > All[m]
    BY <1>6
  <2>1. i \in 1 .. Len(All) /\ m \in 1 .. Len(All) /\ m < i
    BY <1>2
  <2>2. All[m] < All[i] /\ All[i] \in Int /\ All[m] \in Int
    BY <1>3, <2>1, AscendingLess, KeyInt
  <2> QED
    BY <2>2
<1>9. KeysIn(Built.low) \cup KeysIn(c) = OldKeys
  <2>1. \A i : i \in 1 .. Len(All) <=> i \in 1 .. m \/ i \in m + 1 .. m + h
    BY <1>2
  <2>2. OldKeys = {All[i] : i \in 1 .. Len(All)}
    BY OldKeysAre
  <2> QED
    BY <1>4, <1>6, <2>1, <2>2
<1>10. Room(Built.low) /\ Room(c)
  BY <1>4, <1>5, <1>6, <1>7 DEF Room, MayDelete
<1> QED
  BY <1>1, <1>4, <1>6, <1>7, <1>8, <1>9, <1>10 DEF Ready, Orderly, Apart, Exact, KeysOf

LEMMA ShiftedReady ==
    ASSUME OldInv, inner, TwoChunks(Built), NEW n \in {1, 2}
    PROVE  Ready(Shifted(Built, n))
<1> DEFINE q == IF n = 2 THEN Move(Move(Built)) ELSE Move(Built)
           m == MedianIndex(Len(All))
           r == Shifted(Built, n)
<1>1. Len(All) \in MaxEntries .. MaxEntries + MinEntries
  BY DEF TwoChunks
<1>2. AfterMoves(q, n)
  <2>1. AfterMoves(Move(Built), 0 + 1)
    BY <1>1, NotMoved, MoveOnce
  <2>2. 0 + 1 = 1 /\ 1 + 1 = 2
    OBVIOUS
  <2>3. AfterMoves(Move(Move(Built)), 1 + 1)
    BY <1>1, <2>1, <2>2, MoveOnce
  <2> QED
    BY <2>1, <2>2, <2>3
<1> HIDE DEF q
<1>3. /\ Linked(q.low) /\ Free(q.low) # {}
      /\ \A x \in KeysIn(q.low) : x <= All[m - n]
      /\ MaxKeyIn(q.low) = All[m - n] /\ All[m - n] \in Key
      /\ q.low.counter = m - n /\ m - n > MinEntries
  BY <1>1, <1>2, LowerHalfLinked
<1>4. Linked(q.high) /\ Free(q.high) # {} /\ \A x \in KeysIn(q.high) : x > All[m - n]
  BY <1>1, <1>2, UpperHalfLinked
<1>5. q \in Replacement /\ q.two /\ q.high.counter = Len(All) - m + n
  BY <1>2 DEF AfterMoves
<1>6. m \in Nat /\ Len(All) - m \in Nat /\ Len(All) - m >= MinEntries + 3 /\ MinEntries \in Nat
  BY <1>1, HalfSizes, SizeAssumption
<1> HIDE DEF m
<1>7. /\ q.high.counter # MinEntries /\ q.low.counter # MinEntries
      /\ q.high.counter # 0 /\ q.low.counter # 0
  BY <1>3, <1>5, <1>6
<1>8. r = [q EXCEPT !.sep = MaxKeyIn(q.low)]
  BY DEF Shifted, q
<1> HIDE DEF r
<1>9. r.low = q.low /\ r.high = q.high /\ r.two = q.two /\ r.sep = All[m - n] /\ r \in Replacement
  BY <1>3, <1>5, <1>8 DEF Replacement
<1>10. Ready(r)
  BY <1>3, <1>4, <1>5, <1>7, <1>9 DEF Ready, Orderly, Apart, Room, MayDelete
<1> QED
  BY <1>10 DEF r

LEMMA BuildReady ==
    ASSUME OldInv, NEW t \in Thread, Build(t)
    PROVE  \E p : Ready(p) /\ mine' = [mine EXCEPT ![t] = p]
<1>0. PICK n \in Moves : mine' = [mine EXCEPT ![t] = Shifted(Built, n)]
  BY DEF Build
<1>1. n \in {0, 1, 2} /\ (n # 0 => Built.two /\ inner)
  <2>1. \A x, y, z \in Partner : ShouldMove(x, y, z) \in {0, 1, 2}
    BY DEF ShouldMove, Partner
  <2> QED
    BY <2>1 DEF Moves
<1>2. CASE n = 0
  <2>1. Shifted(Built, n) = Built
    BY <1>2 DEF Shifted
  <2>2. Ready(Built)
    BY BuiltShape, OneReady, NotMovedReady
  <2> QED
    BY <1>0, <2>1, <2>2
<1>3. CASE n # 0
  <2>1. TwoChunks(Built)
    BY <1>1, <1>3, BuiltShape DEF OneChunk
  <2>2. Ready(Shifted(Built, n))
    BY <1>1, <1>3, <2>1, ShiftedReady
  <2> QED
    BY <1>0, <2>2
<1> QED
  BY <1>2, <1>3
-----------------------------------------------------------------------------
LEMMA SameLinks ==
    ASSUME NEW c, NEW d, Linked(c), d.key = c.key, d.next = c.next
    PROVE  Linked(d) /\ InList(d) = InList(c) /\ KeysIn(d) = KeysIn(c)
<1>1. Links(d, InList(c))
  BY DEF Linked, Links
<1>2. Linked(d) /\ InList(d) = InList(c)
  BY <1>1, LinksLinked
<1> QED
  BY <1>2 DEF KeysIn

\* one half is replaced by a chunk that has its keys on the same side
LEMMA PutLow ==
    ASSUME NEW p, Orderly(p), NEW d \in Chunk, Linked(d), ~inner => Exact(d),
           p.two => \A k \in KeysIn(d) : k <= p.sep
    PROVE  LET r == [p EXCEPT !["low"] = d]
           IN  Orderly(r) /\ r.low = d /\ r.high = p.high /\ r.two = p.two /\ r.sep = p.sep
<1> DEFINE r == [p EXCEPT !["low"] = d]
<1>1. r \in Replacement /\ r.low = d /\ r.high = p.high /\ r.two = p.two /\ r.sep = p.sep
  BY DEF Orderly, Replacement
<1> HIDE DEF r
<1>2. Orderly(r)
  BY <1>1 DEF Orderly, Apart
<1> QED
  BY <1>1, <1>2 DEF r

LEMMA PutHigh ==
    ASSUME NEW p, Orderly(p), NEW d \in Chunk, Linked(d), ~inner => Exact(d),
           \A k \in KeysIn(d) : k > p.sep
    PROVE  LET r == [p EXCEPT !["high"] = d]
           IN  Orderly(r) /\ r.low = p.low /\ r.high = d /\ r.two = p.two /\ r.sep = p.sep
<1> DEFINE r == [p EXCEPT !["high"] = d]
<1>1. r \in Replacement /\ r.low = p.low /\ r.high = d /\ r.two = p.two /\ r.sep = p.sep
  BY DEF Orderly, Replacement
<1> HIDE DEF r
<1>2. Orderly(r)
  BY <1>1 DEF Orderly, Apart
<1> QED
  BY <1>1, <1>2 DEF r

(***************************************************************************)
(* What a call leaves in the private replacement, and its answer.          *)
(***************************************************************************)
KeysAfter(t, r) ==
    LET k == call[t].key
        g == call[t].trigger
    IN  IF r /\ g = "INSERT" THEN OldKeys \cup {k}
        ELSE IF r /\ g = "DELETE" THEN OldKeys \ {k}
        ELSE OldKeys

Outcome(t, p, r) ==
    /\ Orderly(p) /\ r \in BOOLEAN
    /\ ~inner => /\ KeysOf(p) = KeysAfter(t, r)
                 /\ call[t].trigger = "INSERT" => r = (call[t].key \notin OldKeys)
                 /\ call[t].trigger = "DELETE" => r = (call[t].key \in OldKeys)

LEMMA ReadyHalf ==
    ASSUME NEW p, Ready(p), NEW k \in Key
    PROVE  LET h == Half(p, k)
               c == p[h]
           IN  /\ h = "low" \/ (h = "high" /\ p.two)
               /\ c \in Chunk /\ Linked(c) /\ Free(c) # {} /\ (~inner => Exact(c))
               /\ ~inner /\ k \notin KeysIn(c) => k \notin OldKeys
               /\ ~inner /\ k \in KeysIn(c) => k \in OldKeys
               /\ h = "high" => k > p.sep
               /\ h = "low" /\ p.two => k <= p.sep
<1>1. p \in Replacement /\ p.low \in Chunk /\ p.high \in Chunk /\ p.two \in BOOLEAN /\ p.sep \in Key
  BY DEF Ready, Orderly, Replacement
<1>2. CASE p.two /\ k > p.sep
  <2>1. Half(p, k) = "high"
    BY <1>2 DEF Half, HighHalf
  <2>2. k \notin KeysIn(p.low)
    BY <1>1, <1>2, KeyInt DEF Ready, Orderly, Apart
  <2> QED
    BY <1>1, <1>2, <2>1, <2>2 DEF Ready, Orderly, Room, KeysOf
<1>3. CASE p.two /\ ~(k > p.sep)
  <2>1. Half(p, k) = "low"
    BY <1>3 DEF Half, HighHalf
  <2>2. k \notin KeysIn(p.high) /\ k <= p.sep
    BY <1>1, <1>3, KeyInt DEF Ready, Orderly, Apart
  <2> QED
    BY <1>1, <1>3, <2>1, <2>2 DEF Ready, Orderly, Room, KeysOf
<1>4. CASE ~p.two
  <2>1. Half(p, k) = "low"
    BY <1>4 DEF Half, HighHalf
  <2> QED
    BY <1>1, <1>4, <2>1 DEF Ready, Orderly, Room, KeysOf
<1> QED
  BY <1>2, <1>3, <1>4

LEMMA InsertOutcome ==
    ASSUME NEW t \in Thread, Ready(mine[t]), call[t].key \in Key, PerformInsert(t)
    PROVE  \E p, r : Ends(t, p, r) /\ Outcome(t, p, r)
<1> DEFINE p == mine[t]
           k == call[t].key
           h == Half(p, k)
           c == p[h]
<1>1. /\ h = "low" \/ (h = "high" /\ p.two)
      /\ c \in Chunk /\ Linked(c) /\ Free(c) # {} /\ (~inner => Exact(c))
      /\ ~inner /\ k \notin KeysIn(c) => k \notin OldKeys
      /\ ~inner /\ k \in KeysIn(c) => k \in OldKeys
      /\ h = "high" => k > p.sep
      /\ h = "low" /\ p.two => k <= p.sep
  BY ReadyHalf
<1>2. Orderly(p) /\ (~inner => KeysOf(p) = OldKeys) /\ call[t].trigger = "INSERT"
  BY DEF Ready, PerformInsert
<1>3. CASE k \in KeysIn(c) /\ Ends(t, p, FALSE)
  <2>1. Outcome(t, p, FALSE)
    BY <1>1, <1>2, <1>3 DEF Outcome, KeysAfter
  <2> QED
    BY <1>3, <2>1
<1>4. CASE k \notin KeysIn(c) /\ Ends(t, [p EXCEPT ![h] = Insert(c, k)], TRUE)
  <2> DEFINE d == Insert(c, k)
             r == [p EXCEPT ![h] = d]
  <2>1. /\ d \in Chunk /\ Linked(d) /\ KeysIn(d) = KeysIn(c) \cup {k}
        /\ d.counter = c.counter + 1 /\ Cardinality(InList(d)) = Cardinality(InList(c)) + 1
    BY <1>1, <1>4, InsertKeeps
  <2>2. ~inner => Exact(d)
    BY <1>1, <2>1 DEF Exact
  <2> HIDE DEF d
  <2>3. Orderly(r) /\ (~inner => KeysOf(r) = OldKeys \cup {k})
    <3>1. CASE h = "low"
      <4>1. p.two => \A x \in KeysIn(d) : x <= p.sep
        BY <1>1, <1>2, <2>1, <3>1 DEF Orderly, Apart
      <4>2. r = [p EXCEPT !["low"] = d]
        BY <3>1
      <4>3. Orderly(r) /\ r.low = d /\ r.high = p.high /\ r.two = p.two /\ r.sep = p.sep
        BY <1>2, <2>1, <2>2, <4>1, <4>2, PutLow
      <4> HIDE DEF r
      <4> QED
        BY <1>2, <2>1, <3>1, <4>3 DEF KeysOf
    <3>2. CASE h = "high" /\ p.two
      <4>1. \A x \in KeysIn(d) : x > p.sep
        BY <1>1, <1>2, <2>1, <3>2 DEF Orderly, Apart
      <4>2. r = [p EXCEPT !["high"] = d]
        BY <3>2
      <4>3. Orderly(r) /\ r.low = p.low /\ r.high = d /\ r.two = p.two /\ r.sep = p.sep
        BY <1>2, <2>1, <2>2, <4>1, <4>2, PutHigh
      <4> HIDE DEF r
      <4> QED
        BY <1>2, <2>1, <3>2, <4>3 DEF KeysOf
    <3> QED
      BY <1>1, <3>1, <3>2
  <2> HIDE DEF r
  <2>4. Outcome(t, r, TRUE)
    BY <1>1, <1>2, <1>4, <2>3 DEF Outcome, KeysAfter
  <2> QED
    BY <1>4, <2>4 DEF r, d
<1>5. CASE inner /\ Ends(t, [p EXCEPT ![h] = Allocate(c, k)], TRUE)
  <2> DEFINE d == Allocate(c, k)
             r == [p EXCEPT ![h] = d]
  <2>1. d \in Chunk /\ Linked(d) /\ KeysIn(d) = KeysIn(c)
    BY <1>1, AllocateKeeps
  <2> HIDE DEF d
  <2>2. Orderly(r)
    <3>1. CASE h = "low"
      <4>1. r = [p EXCEPT !["low"] = d] /\ (p.two => \A x \in KeysIn(d) : x <= p.sep)
        BY <1>2, <2>1, <3>1 DEF Orderly, Apart
      <4> QED
        BY <1>2, <1>5, <2>1, <4>1, PutLow
    <3>2. CASE h = "high" /\ p.two
      <4>1. r = [p EXCEPT !["high"] = d] /\ \A x \in KeysIn(d) : x > p.sep
        BY <1>2, <2>1, <3>2 DEF Orderly, Apart
      <4> QED
        BY <1>2, <1>5, <2>1, <4>1, PutHigh
    <3> QED
      BY <1>1, <3>1, <3>2
  <2> HIDE DEF r
  <2>3. Outcome(t, r, TRUE)
    BY <1>5, <2>2 DEF Outcome
  <2> QED
    BY <1>5, <2>3 DEF r, d
<1> QED
  BY <1>1, <1>3, <1>4, <1>5 DEF PerformInsert

LEMMA DeleteOutcome ==
    ASSUME NEW t \in Thread, Ready(mine[t]), call[t].key \in Key, PerformDelete(t)
    PROVE  \E p, r : Ends(t, p, r) /\ Outcome(t, p, r)
<1> DEFINE p == mine[t]
           k == call[t].key
           tried == {"low"} \cup IF p.two /\ k \notin KeysIn(p.low) THEN {"high"} ELSE {}
           found == {h \in tried : k \in KeysIn(p[h])}
<1>1. /\ p \in Replacement /\ p.low \in Chunk /\ p.high \in Chunk
      /\ Orderly(p) /\ Linked(p.low) /\ Room(p.low) /\ (p.two => Linked(p.high) /\ Room(p.high))
      /\ (~inner => KeysOf(p) = OldKeys /\ Exact(p.low) /\ (p.two => Exact(p.high)))
      /\ call[t].trigger = "DELETE"
  BY DEF Ready, Orderly, Replacement, PerformDelete
<1>2. \A h \in tried : MayDelete(p[h])
  BY <1>1 DEF Room
<1>3. CASE found = {} /\ Ends(t, p, FALSE)
  <2>1. ~inner => k \notin OldKeys
    BY <1>1, <1>3 DEF KeysOf
  <2>2. Outcome(t, p, FALSE)
    BY <1>1, <2>1 DEF Outcome, KeysAfter
  <2> QED
    BY <1>3, <2>2
<1>4. ASSUME NEW h \in found, Ends(t, [p EXCEPT ![h] = Delete(@, k)], TRUE)
      PROVE  \E q, r : Ends(t, q, r) /\ Outcome(t, q, r)
  <2> DEFINE c == p[h]
             d == Delete(c, k)
             q == [p EXCEPT ![h] = d]
  <2>1. (h = "low" \/ (h = "high" /\ p.two)) /\ k \in KeysIn(c) /\ c \in Chunk /\ Linked(c)
        /\ Room(c) /\ (~inner => Exact(c))
    BY <1>1
  <2>2. c.counter # 0
    BY <2>1 DEF Room, KeysIn
  <2>3. /\ d \in Chunk /\ Linked(d) /\ KeysIn(d) = KeysIn(c) \ {k}
        /\ d.counter = c.counter - 1 /\ Cardinality(InList(d)) = Cardinality(InList(c)) - 1
    BY <2>1, <2>2, DeleteKeeps
  <2>4. ~inner => Exact(d)
    BY <2>1, <2>3 DEF Exact
  <2> HIDE DEF d
  <2>5. Orderly(q) /\ (~inner => k \in OldKeys /\ KeysOf(q) = OldKeys \ {k})
    <3>1. CASE h = "low"
      <4>1. p.two => (\A x \in KeysIn(d) : x <= p.sep) /\ k \notin KeysIn(p.high)
        <5>1. p.two => /\ \A x \in KeysIn(p.low) : x <= p.sep
                       /\ \A x \in KeysIn(p.high) : x > p.sep
          BY <1>1 DEF Orderly, Apart
        <5>2. p.sep \in Int /\ k \in Int
          BY <1>1, KeyInt DEF Replacement
        <5> QED
          BY <2>1, <2>3, <3>1, <5>1, <5>2
      <4>2. q = [p EXCEPT !["low"] = d]
        BY <3>1
      <4>3. Orderly(q) /\ q.low = d /\ q.high = p.high /\ q.two = p.two /\ q.sep = p.sep
        BY <1>1, <2>3, <2>4, <4>1, <4>2, PutLow
      <4> HIDE DEF q
      <4> QED
        BY <1>1, <2>1, <2>3, <3>1, <4>1, <4>3 DEF KeysOf
    <3>2. CASE h = "high" /\ p.two
      <4>1. (\A x \in KeysIn(d) : x > p.sep) /\ k \notin KeysIn(p.low)
        BY <1>1, <2>1, <2>3, <3>2 DEF Orderly, Apart
      <4>2. q = [p EXCEPT !["high"] = d]
        BY <3>2
      <4>3. Orderly(q) /\ q.low = p.low /\ q.high = d /\ q.two = p.two /\ q.sep = p.sep
        BY <1>1, <2>3, <2>4, <4>1, <4>2, PutHigh
      <4> HIDE DEF q
      <4> QED
        BY <1>1, <2>1, <2>3, <3>2, <4>1, <4>3 DEF KeysOf
    <3> QED
      BY <2>1, <3>1, <3>2
  <2>6. Ends(t, q, TRUE)
    BY <1>4 DEF d
  <2> HIDE DEF q
  <2>7. Outcome(t, q, TRUE)
    BY <1>1, <2>5 DEF Outcome, KeysAfter
  <2> QED
    BY <2>6, <2>7
<1>5. ASSUME inner, NEW h \in found, Ends(t, [p EXCEPT ![h].counter = @ - 1], TRUE)
      PROVE  \E q, r : Ends(t, q, r) /\ Outcome(t, q, r)
  <2> DEFINE c == p[h]
             d == [c EXCEPT !.counter = @ - 1]
             q == [p EXCEPT ![h] = d]
  <2>1. (h = "low" \/ (h = "high" /\ p.two)) /\ k \in KeysIn(c) /\ c \in Chunk /\ Linked(c) /\ Room(c)
    BY <1>1
  <2>2. c.counter # 0 /\ c.counter \in Nat
    BY <2>1 DEF Room, KeysIn, Chunk
  <2>3. d \in Chunk /\ d.key = c.key /\ d.next = c.next
    BY <2>1, <2>2 DEF Chunk
  <2>4. [p EXCEPT ![h].counter = @ - 1] = q
    BY <1>1, <2>1 DEF Replacement
  <2> HIDE DEF d
  <2>5. Linked(d) /\ KeysIn(d) = KeysIn(c)
    BY <2>1, <2>3, SameLinks
  <2>6. Orderly(q)
    <3>1. CASE h = "low"
      <4>1. q = [p EXCEPT !["low"] = d] /\ (p.two => \A x \in KeysIn(d) : x <= p.sep)
        BY <1>1, <2>5, <3>1 DEF Orderly, Apart
      <4> QED
        BY <1>1, <1>5, <2>3, <2>5, <4>1, PutLow
    <3>2. CASE h = "high" /\ p.two
      <4>1. q = [p EXCEPT !["high"] = d] /\ \A x \in KeysIn(d) : x > p.sep
        BY <1>1, <2>5, <3>2 DEF Orderly, Apart
      <4> QED
        BY <1>1, <1>5, <2>3, <2>5, <4>1, PutHigh
    <3> QED
      BY <2>1, <3>1, <3>2
  <2>7. Ends(t, q, TRUE)
    BY <1>5, <2>4
  <2> HIDE DEF q
  <2>8. Outcome(t, q, TRUE)
    BY <1>5, <2>6 DEF Outcome
  <2> QED
    BY <2>7, <2>8
<1> QED
  BY <1>2, <1>3, <1>4, <1>5 DEF PerformDelete

LEMMA OtherOutcome ==
    ASSUME NEW t \in Thread, Ready(mine[t]), PerformSwap(t) \/ PerformEnslave(t)
    PROVE  \E p, r : Ends(t, p, r) /\ Outcome(t, p, r)
<1> DEFINE p == mine[t]
<1>1. Orderly(p) /\ (~inner => KeysOf(p) = OldKeys) /\ p \in Replacement /\ p.low \in Chunk /\ Linked(p.low)
  BY DEF Ready, Orderly, Replacement
<1>2. call[t].trigger # "INSERT" /\ call[t].trigger # "DELETE"
  BY DEF PerformSwap, PerformEnslave
<1>3. \A r \in BOOLEAN : Outcome(t, p, r)
  BY <1>1, <1>2 DEF Outcome, KeysAfter
<1>4. CASE PerformSwap(t)
  <2>1. PICK match \in BOOLEAN : Ends(t, p, match /\ call[t].key \in KeysIn(p[Half(p, call[t].key)]))
    BY <1>4 DEF PerformSwap
  <2> DEFINE r == match /\ call[t].key \in KeysIn(p[Half(p, call[t].key)])
  <2>2. Ends(t, p, r) /\ r \in BOOLEAN
    BY <2>1
  <2> HIDE DEF r
  <2> QED
    BY <1>3, <2>2
<1>5. CASE PerformEnslave(t)
  <2> DEFINE d == [p.low EXCEPT !.state = "SLAVE_FREEZE"]
             q == [p EXCEPT !["low"] = d]
  <2>1. Ends(t, p, FALSE) \/ Ends(t, q, FALSE)
    <3>1. [p EXCEPT !.low.state = "SLAVE_FREEZE"] = q
      BY <1>1 DEF Replacement
    <3> QED
      BY <1>5, <3>1 DEF PerformEnslave
  <2>2. d \in Chunk /\ d.key = p.low.key /\ d.next = p.low.next /\ d.counter = p.low.counter
    BY <1>1 DEF Chunk, State
  <2> HIDE DEF d
  <2>3. Linked(d) /\ InList(d) = InList(p.low) /\ KeysIn(d) = KeysIn(p.low)
    BY <1>1, <2>2, SameLinks
  <2>4. Orderly(q) /\ q.low = d /\ q.high = p.high /\ q.two = p.two /\ q.sep = p.sep
    <3>1. (~inner => Exact(d)) /\ (p.two => \A x \in KeysIn(d) : x <= p.sep)
      BY <1>1, <2>2, <2>3 DEF Orderly, Exact, Apart
    <3> QED
      BY <1>1, <2>2, <2>3, <3>1, PutLow
  <2> HIDE DEF q
  <2>5. KeysOf(q) = KeysOf(p)
    BY <2>3, <2>4 DEF KeysOf
  <2>6. Outcome(t, q, FALSE)
    BY <1>1, <1>2, <2>4, <2>5 DEF Outcome, KeysAfter
  <2> QED
    BY <1>3, <2>1, <2>6
<1> QED
  BY <1>4, <1>5
-----------------------------------------------------------------------------
(***************************************************************************)
(* The invariants of the run are not inductive: what is installed is what  *)
(* the winner has built and performed its call in, so that the private     *)
(* replacements of all the threads have to be known, and how a thread      *)
(* learns that it has won or lost.                                         *)
(***************************************************************************)
Installed(t) == pc[t] \in {"repoint", "done"}

Progress(t) ==
    /\ pc[t] # "fault"
    /\ pc[t] = "perform" => Ready(mine[t])
    /\ pc[t] = "install" \/ Installed(t) => Outcome(t, mine[t], result[t])
    /\ Installed(t) => \/ sentTo[t] = "none" /\ winner = {t}
                       \/ sentTo[t] = Destination(t) /\ winner # {}
    /\ ~Installed(t) => sentTo[t] = "none"

Winning ==
    \/ winner = {} /\ newChunk = Nothing
    \/ \E t \in Thread : winner = {t} /\ Installed(t) /\ newChunk = mine[t]

IInv == TypeOK /\ OldInv /\ Winning /\ \A t \in Thread : Progress(t)
-----------------------------------------------------------------------------
LEMMA CallType ==
    ASSUME TypeOK, NEW t \in Thread
    PROVE  call[t].key \in Key
BY WorkAssumption DEF TypeOK

LEMMA InitInvariant ==
    ASSUME Init PROVE IInv
<1>1. OldInv
  <2>1. low \in Seq(Key) /\ Len(low) <= MaxEntries /\ Ascending(low)
    BY WorkAssumption DEF Init
  <2>2. high \in Seq(Key) /\ Len(high) <= MaxEntries /\ Ascending(All)
    <3>1. CASE high = <<>>
      <4>1. low \o <<>> = low /\ Len(<<>>) = 0 /\ <<>> \in Seq(Key)
        BY <2>1
      <4> QED
        BY <2>1, <3>1, <4>1, SizeAssumption DEF All
    <3>2. CASE high # <<>>
      BY <3>2, WorkAssumption DEF Init, All
    <3> QED
      BY <3>1, <3>2
  <2>3. Len(low) \in Nat /\ Len(high) \in Nat
    BY <2>1, <2>2
  <2> QED
    BY <2>1, <2>2, <2>3, SizeAssumption DEF Init, OldInv
<1>2. TypeOK
  BY NothingType DEF Init, TypeOK
<1>3. Winning
  BY DEF Init, Winning
<1>4. \A t \in Thread : Progress(t)
  BY DEF Init, Progress, Installed
<1> QED
  BY <1>1, <1>2, <1>3, <1>4 DEF IInv

\* the sets that a step leaves as they are
LEMMA OldSame ==
    ASSUME UNCHANGED old
    PROVE  /\ OldInv' = OldInv /\ OldKeys' = OldKeys /\ Built' = Built
           /\ root' = root /\ inner' = inner /\ recov' = recov
BY DEF old, OldInv, OldKeys, Built, All

\* a thread that does not move keeps its progress, whoever wins
LEMMA ReadyStays ==
    ASSUME UNCHANGED old, NEW u \in Thread, mine'[u] = mine[u]
    PROVE  Orderly(mine[u])' = Orderly(mine[u]) /\ Ready(mine[u])' = Ready(mine[u])
<1>1. Orderly(mine[u])' = Orderly(mine[u])
  BY OldSame DEF Orderly, Apart, Exact
<1>2. Room(mine[u].low)' = Room(mine[u].low) /\ Room(mine[u].high)' = Room(mine[u].high)
  BY OldSame DEF Room, MayDelete
<1> QED
  BY <1>1, <1>2, OldSame DEF Ready

LEMMA OutcomeStays ==
    ASSUME UNCHANGED <<old, call>>, NEW u \in Thread, mine'[u] = mine[u], result'[u] = result[u]
    PROVE  Outcome(u, mine[u], result[u])' = Outcome(u, mine[u], result[u])
<1>1. Orderly(mine[u])' = Orderly(mine[u])
  BY ReadyStays
<1>2. KeysAfter(u, result[u])' = KeysAfter(u, result[u])
  BY OldSame DEF KeysAfter
<1> QED
  BY <1>1, <1>2, OldSame DEF Outcome

LEMMA OthersProgress ==
    ASSUME UNCHANGED <<old, call>>, NEW u \in Thread, Progress(u), pc'[u] = pc[u],
           mine'[u] = mine[u], result'[u] = result[u], sentTo'[u] = sentTo[u],
           winner' = winner \/ winner = {}
    PROVE  Progress(u)'
<1>1. Ready(mine[u])' = Ready(mine[u]) /\ Outcome(u, mine[u], result[u])' = Outcome(u, mine[u], result[u])
  BY ReadyStays, OutcomeStays
<1>2. Destination(u)' = Destination(u)
  BY DEF Destination
<1>3. Installed(u) => winner # {}
  BY DEF Progress
<1> QED
  BY <1>1, <1>2, <1>3 DEF Progress, Installed

Steps == {"build", "perform", "install", "repoint", "done", "fault"}

\* a private replacement that becomes another one, and the rest that stays
LEMMA TypeStays ==
    ASSUME TypeOK, UNCHANGED <<old, call, newChunk, winner, sentTo, request>>,
           NEW t \in Thread, NEW p \in Replacement, NEW r \in BOOLEAN,
           mine' = [mine EXCEPT ![t] = p], result' = [result EXCEPT ![t] = r],
           NEW s \in {"perform", "install"}, pc' = [pc EXCEPT ![t] = s]
    PROVE  TypeOK'
BY DEF TypeOK, old

LEMMA BuildInvariant ==
    ASSUME IInv, NEW t \in Thread, Build(t)
    PROVE  IInv'
<1>1. /\ pc[t] = "build" /\ pc' = [pc EXCEPT ![t] = "perform"] /\ UNCHANGED <<old, call>>
      /\ UNCHANGED <<result, newChunk, winner, sentTo, request>>
      /\ TypeOK /\ OldInv /\ Winning /\ \A u \in Thread : Progress(u)
  BY DEF Build, IInv
<1>2. PICK p : Ready(p) /\ mine' = [mine EXCEPT ![t] = p]
  BY <1>1, BuildReady
<1>3. p \in Replacement /\ mine \in [Thread -> Replacement] /\ pc \in [Thread -> Steps]
      /\ result \in [Thread -> BOOLEAN]
  BY <1>1, <1>2 DEF Ready, Orderly, TypeOK, Steps
<1>4. TypeOK'
  <2>1. result' = [result EXCEPT ![t] = result[t]] /\ result[t] \in BOOLEAN
    BY <1>1, <1>3
  <2> QED
    BY <1>1, <1>2, <1>3, <2>1, TypeStays DEF old
<1>5. OldInv'
  BY <1>1, OldSame
<1>6. ASSUME NEW u \in Thread, u # t PROVE Progress(u)'
  BY <1>1, <1>2, <1>3, <1>6, OthersProgress
<1>7. Progress(t)'
  <2>1. pc'[t] = "perform" /\ mine'[t] = p
    BY <1>1, <1>2, <1>3
  <2>2. Ready(mine[t])'
    <3>1. Orderly(mine[t])'
      BY <1>1, <1>2, <2>1, OldSame DEF Ready, Orderly, Apart, Exact
    <3>2. Room(mine[t].low)' /\ (mine'[t].two => Room(mine[t].high)')
      BY <1>1, <1>2, <2>1, OldSame DEF Ready, Room, MayDelete
    <3> QED
      BY <1>1, <1>2, <2>1, <3>1, <3>2, OldSame DEF Ready
  <2>3. sentTo[t] = "none"
    BY <1>1 DEF Progress, Installed
  <2> QED
    BY <1>1, <2>1, <2>2, <2>3 DEF Progress, Installed
<1>8. Winning'
  <2>1. ASSUME NEW u \in Thread, Installed(u) PROVE u # t /\ mine'[u] = mine[u] /\ pc'[u] = pc[u]
    BY <1>1, <1>2, <1>3, <2>1 DEF Installed
  <2> QED
    BY <1>1, <2>1 DEF Winning, Installed
<1> QED
  BY <1>4, <1>5, <1>6, <1>7, <1>8 DEF IInv

LEMMA PerformInvariant ==
    ASSUME IInv, NEW t \in Thread, Perform(t)
    PROVE  IInv'
<1>1. /\ pc[t] = "perform" /\ UNCHANGED <<old, call>>
      /\ UNCHANGED <<newChunk, winner, sentTo, request>>
      /\ TypeOK /\ OldInv /\ Winning /\ \A u \in Thread : Progress(u)
  BY DEF Perform, IInv
<1>2. PICK p, r : Ends(t, p, r) /\ Outcome(t, p, r)
  <2>1. Ready(mine[t]) /\ call[t].key \in Key
    BY <1>1, CallType DEF Progress
  <2> QED
    BY <2>1, InsertOutcome, DeleteOutcome, OtherOutcome DEF Perform
<1>3. /\ mine' = [mine EXCEPT ![t] = p] /\ result' = [result EXCEPT ![t] = r]
      /\ pc' = [pc EXCEPT ![t] = "install"] /\ p \in Replacement /\ r \in BOOLEAN
      /\ mine \in [Thread -> Replacement] /\ pc \in [Thread -> Steps] /\ result \in [Thread -> BOOLEAN]
  BY <1>1, <1>2 DEF Ends, Outcome, Orderly, TypeOK, Steps
<1>4. TypeOK'
  BY <1>1, <1>3, TypeStays DEF old
<1>5. OldInv'
  BY <1>1, OldSame
<1>6. ASSUME NEW u \in Thread, u # t PROVE Progress(u)'
  BY <1>1, <1>3, <1>6, OthersProgress
<1>7. Progress(t)'
  <2>1. pc'[t] = "install" /\ mine'[t] = p /\ result'[t] = r
    BY <1>3
  <2>2. Outcome(t, mine[t], result[t])'
    <3>1. Orderly(mine[t])'
      BY <1>1, <1>2, <2>1, OldSame DEF Outcome, Orderly, Apart, Exact
    <3> QED
      BY <1>1, <1>2, <2>1, <3>1, OldSame DEF Outcome, KeysAfter
  <2>3. sentTo[t] = "none"
    BY <1>1 DEF Progress, Installed
  <2> QED
    BY <1>1, <2>1, <2>2, <2>3 DEF Progress, Installed
<1>8. Winning'
  <2>1. ASSUME NEW u \in Thread, Installed(u) PROVE u # t /\ mine'[u] = mine[u] /\ pc'[u] = pc[u]
    BY <1>1, <1>3, <2>1 DEF Installed
  <2> QED
    BY <1>1, <2>1 DEF Winning, Installed
<1> QED
  BY <1>4, <1>5, <1>6, <1>7, <1>8 DEF IInv

LEMMA InstallInvariant ==
    ASSUME IInv, NEW t \in Thread, Install(t)
    PROVE  IInv'
<1>1. /\ pc[t] = "install" /\ pc' = [pc EXCEPT ![t] = "repoint"] /\ UNCHANGED <<old, call>>
      /\ UNCHANGED <<mine, result, request>>
      /\ TypeOK /\ OldInv /\ Winning /\ \A u \in Thread : Progress(u)
  BY DEF Install, IInv
<1>2. \/ winner = {} /\ newChunk' = mine[t] /\ winner' = {t} /\ UNCHANGED sentTo
      \/ winner # {} /\ sentTo' = [sentTo EXCEPT ![t] = Destination(t)] /\ UNCHANGED <<newChunk, winner>>
  BY DEF Install, NotInstalled
<1>3. Destination(t) \in {"low", "high"} /\ Destination(t)' = Destination(t)
  BY <1>1 DEF Destination, Half
<1>4. TypeOK'
  BY <1>1, <1>2, <1>3 DEF TypeOK, old
<1>5. OldInv'
  BY <1>1, OldSame
<1>6. ASSUME NEW u \in Thread, u # t PROVE Progress(u)'
  <2>1. sentTo'[u] = sentTo[u] /\ pc'[u] = pc[u] /\ (winner' = winner \/ winner = {})
    BY <1>1, <1>2, <1>6 DEF TypeOK
  <2> QED
    BY <1>1, <2>1, OthersProgress
<1>7. Progress(t)'
  <2>1. Outcome(t, mine[t], result[t])'
    BY <1>1, OutcomeStays DEF Progress
  <2>2. sentTo[t] = "none" /\ pc'[t] = "repoint"
    BY <1>1 DEF Progress, Installed, TypeOK
  <2>3. \/ sentTo'[t] = "none" /\ winner' = {t}
        \/ sentTo'[t] = Destination(t)' /\ winner' # {}
    BY <1>1, <1>2, <1>3, <2>2 DEF TypeOK
  <2> QED
    BY <2>1, <2>2, <2>3 DEF Progress, Installed
<1>8. Winning'
  <2>1. CASE winner = {}
    BY <1>1, <1>2, <2>1 DEF Winning, Installed, TypeOK
  <2>2. CASE winner # {}
    <3>1. PICK u \in Thread : winner = {u} /\ Installed(u) /\ newChunk = mine[u]
      BY <1>1, <2>2 DEF Winning
    <3>2. Installed(u)'
      BY <1>1, <3>1 DEF Installed, TypeOK
    <3> QED
      BY <1>1, <1>2, <2>2, <3>1, <3>2 DEF Winning
  <2> QED
    BY <2>1, <2>2
<1> QED
  BY <1>4, <1>5, <1>6, <1>7, <1>8 DEF IInv

LEMMA RepointInvariant ==
    ASSUME IInv, NEW t \in Thread, Repoint(t)
    PROVE  IInv'
<1>1. /\ pc[t] = "repoint" /\ pc' = [pc EXCEPT ![t] = "done"] /\ UNCHANGED <<old, call>>
      /\ UNCHANGED <<mine, result, newChunk, winner, sentTo>>
      /\ TypeOK /\ OldInv /\ Winning /\ \A u \in Thread : Progress(u)
  BY DEF Repoint, IInv
<1>2. TypeOK'
  <2>1. request' \in [Thread -> {"old", "new"}]
    BY <1>1 DEF Repoint, TypeOK
  <2> QED
    BY <1>1, <2>1 DEF TypeOK, old
<1>3. OldInv'
  BY <1>1, OldSame
<1>4. ASSUME NEW u \in Thread, u # t PROVE Progress(u)'
  <2>1. pc'[u] = pc[u]
    BY <1>1, <1>4 DEF TypeOK
  <2> QED
    BY <1>1, <2>1, OthersProgress
<1>5. Progress(t)'
  <2>1. Outcome(t, mine[t], result[t])' /\ Destination(t)' = Destination(t)
    BY <1>1, OutcomeStays DEF Progress, Installed, Destination
  <2>2. pc'[t] = "done"
    BY <1>1 DEF TypeOK
  <2> QED
    BY <1>1, <2>1, <2>2 DEF Progress, Installed
<1>6. Winning'
  <2>1. ASSUME NEW u \in Thread, Installed(u) PROVE Installed(u)'
    BY <1>1, <2>1 DEF Installed, TypeOK
  <2> QED
    BY <1>1, <2>1 DEF Winning
<1> QED
  BY <1>2, <1>3, <1>4, <1>5, <1>6 DEF IInv

LEMMA NextInvariant == IInv /\ [Next]_vars => IInv'
<1> SUFFICES ASSUME IInv, [Next]_vars PROVE IInv'
  OBVIOUS
<1>1. CASE UNCHANGED vars
  <2>1. UNCHANGED <<old, call>> /\ UNCHANGED <<mine, result, pc, newChunk, winner, sentTo, request>>
    BY <1>1 DEF vars, old
  <2>2. OldInv'
    BY <2>1, OldSame DEF IInv
  <2>3. TypeOK'
    BY <2>1 DEF IInv, TypeOK, old
  <2>4. \A u \in Thread : Progress(u)'
    BY <2>1, OthersProgress DEF IInv
  <2>5. Winning'
    BY <2>1 DEF IInv, Winning, Installed
  <2> QED
    BY <2>2, <2>3, <2>4, <2>5 DEF IInv
<1>2. CASE Next
  BY <1>2, BuildInvariant, PerformInvariant, InstallInvariant, RepointInvariant DEF Next
<1> QED
  BY <1>1, <1>2
-----------------------------------------------------------------------------
LEMMA InvariantHolds == Spec => []IInv
<1>1. Init => IInv
  BY InitInvariant
<1> QED
  BY <1>1, NextInvariant, PTL DEF Spec

(***************************************************************************)
(* The contents of the variables stay what they are declared to be:        *)
(* whatever freezeRecovery builds, moves, performs and installs, the       *)
(* entries, links and counters of a replacement are entries, links and     *)
(* counters of a chunk.                                                    *)
(***************************************************************************)
THEOREM TypeCorrect == Spec => []TypeOK
<1>1. IInv => TypeOK
  BY DEF IInv
<1> QED
  BY <1>1, InvariantHolds, PTL

(***************************************************************************)
(* Nobody has to freeze a chunk that is not yet installed (the assertions  *)
(* on INFANT in freeze and deleteInChunk): MAX_ENTRIES >= 2 * MIN_ENTRIES  *)
(* + 6 leaves a free entry and a key to spare in every replacement, also   *)
(* after moveEntryFromFirstToSecond.                                       *)
(***************************************************************************)
THEOREM RoomGuaranteed == Spec => []RoomForTheCall
<1>1. IInv => RoomForTheCall
  BY DEF IInv, Progress, RoomForTheCall
<1> QED
  BY <1>1, InvariantHolds, PTL

\* a thread that is not sent on is the one whose replacement was installed
LEMMA WinnersOwn ==
    ASSUME IInv, NEW t \in Thread, Installed(t), sentTo[t] = "none"
    PROVE  newChunk = mine[t] /\ Outcome(t, mine[t], result[t])
<1>1. Destination(t) # "none"
  BY DEF Destination, Half
<1>2. winner = {t} /\ Outcome(t, mine[t], result[t])
  BY <1>1 DEF IInv, Progress
<1>3. PICK u \in Thread : winner = {u} /\ newChunk = mine[u]
  BY <1>2 DEF IInv, Winning
<1> QED
  BY <1>2, <1>3

\* what is installed is the outcome of somebody's call
LEMMA InstalledOutcome ==
    ASSUME IInv, winner # {}
    PROVE  \E u \in Thread : newChunk = mine[u] /\ Outcome(u, mine[u], result[u])
BY DEF IInv, Winning, Progress

(***************************************************************************)
(* Of all the calls that met in a frozen leaf exactly one is in the chunks *)
(* that replace it: they hold the old keys, changed by the call of the     *)
(* thread that installed them in freezeRecovery and by no other.           *)
(***************************************************************************)
THEOREM OneCallIsInstalled == Spec => []OneCallInstalled
<1>1. IInv => OneCallInstalled
  <2> SUFFICES ASSUME IInv, NEW t \in Thread, ~inner, Installed(t), sentTo[t] = "none"
               PROVE  NewKeys = Performed(t)
    BY DEF OneCallInstalled, Installed
  <2>1. newChunk = mine[t] /\ Outcome(t, mine[t], result[t])
    BY WinnersOwn
  <2>2. NewKeys = KeysOf(newChunk)
    BY DEF NewKeys, KeysOf
  <2>3. Performed(t) = KeysAfter(t, result[t])
    BY DEF Performed, KeysAfter
  <2> QED
    BY <2>1, <2>2, <2>3 DEF Outcome
<1> QED
  BY <1>1, InvariantHolds, PTL

(***************************************************************************)
(* The answer that freezeRecovery leaves to the caller of the winner is    *)
(* the one the old keys give, although insertToChunk and deleteInChunk     *)
(* looked in one half of the replacement only.                             *)
(***************************************************************************)
THEOREM AnswerCorrect == Spec => []AnswerIsRight
<1>1. IInv => AnswerIsRight
  BY WinnersOwn DEF Outcome, AnswerIsRight, Installed
<1> QED
  BY <1>1, InvariantHolds, PTL

\* nobody has installed anything: there are no entries
LEMMA NothingHasNoEntries ==
    Nothing.low = EmptyChunk /\ ~Nothing.two /\ EmptyChunk.counter = 0 /\ InList(EmptyChunk) = {}
<1>1. Links(EmptyChunk, {})
  BY SizeAssumption DEF Links, EmptyChunk, Cell, EntryHead
<1>2. InList(EmptyChunk) = {}
  BY <1>1, InListIs
<1> QED
  BY <1>2 DEF Nothing, EmptyChunk

(***************************************************************************)
(* The counters of the chunks that replace a leaf are the numbers of the   *)
(* entries that their links lead to: copyEntriesArray, insertToChunk and   *)
(* deleteInChunk keep up one apart from the other.                         *)
(***************************************************************************)
THEOREM CountersCorrect == Spec => []CountersRight
<1>1. IInv => CountersRight
  <2> SUFFICES ASSUME IInv, ~inner, NEW c \in Halves
               PROVE  c.counter = Cardinality(InList(c))
    BY DEF CountersRight
  <2>1. CASE winner = {}
    <3>1. newChunk = Nothing
      BY <2>1 DEF IInv, Winning
    <3> QED
      BY <3>1, NothingHasNoEntries, FS_EmptySet DEF Halves
  <2>2. CASE winner # {}
    BY <2>2, InstalledOutcome DEF Halves, Outcome, Orderly, Exact
  <2> QED
    BY <2>1, <2>2
<1> QED
  BY <1>1, InvariantHolds, PTL

(***************************************************************************)
(* The separator that insertTwoNewRefs or replaceTwoRefs gives the parent  *)
(* divides the keys of the two chunks, in leaves and in inner chunks, also *)
(* when entries were moved from the one to the other after the copying.    *)
(***************************************************************************)
THEOREM SeparatorDivides == Spec => []Divided
<1>1. IInv => Divided
  <2> SUFFICES ASSUME IInv, newChunk.two PROVE Apart(newChunk)
    BY DEF Divided, Apart
  <2>1. winner # {}
    BY NothingHasNoEntries DEF IInv, Winning
  <2> QED
    BY <2>1, InstalledOutcome DEF Outcome, Orderly
<1> QED
  BY <1>1, InvariantHolds, PTL

(***************************************************************************)
(* A thread that lost the race for a leaf chooses the chunk to go on in    *)
(* from the replacement it built itself and threw away; it is the chunk    *)
(* of the installed replacement that its key belongs to.                   *)
(***************************************************************************)
THEOREM LosersSentToTheirHalf == Spec => []SentToItsHalf
<1>1. IInv => SentToItsHalf
  <2> SUFFICES ASSUME IInv, NEW t \in Thread, ~inner, sentTo[t] # "none"
               PROVE  sentTo[t] = "high" <=> newChunk.two /\ call[t].key > newChunk.sep
    BY DEF SentToItsHalf
  <2>1. Installed(t) /\ sentTo[t] = Destination(t) /\ winner # {} /\ Outcome(t, mine[t], result[t])
    BY DEF IInv, Progress
  <2>2. PICK u \in Thread : newChunk = mine[u] /\ Outcome(u, mine[u], result[u])
    BY <2>1, InstalledOutcome
  <2>3. mine[t].two = newChunk.two /\ mine[t].sep = newChunk.sep
    BY <2>1, <2>2 DEF Outcome, Orderly
  <2> QED
    BY <2>1, <2>3 DEF Destination, Half, HighHalf
<1> QED
  BY <1>1, InvariantHolds, PTL

================================================================================
