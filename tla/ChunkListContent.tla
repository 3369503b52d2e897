--------------------------- MODULE ChunkListContent ---------------------------
(***************************************************************************)
(* The list of a chunk is what the calls have made of it, for any number   *)
(* of threads, any size of the chunk and any workload in which no key is   *)
(* inserted that is larger than a key some call deletes (InsertsBelow).    *)
(* Without this restriction it is not so: an insert is lost when its       *)
(* predecessor is deleted while it links its entry.                        *)
(*                                                                         *)
(* The invariant speaks of the entries that were ever linked, a set L that *)
(* the state does not show as such: those of them that are not marked are  *)
(* the content, and no way along the words leads past one of them.         *)
(***************************************************************************)
EXTENDS ChunkListProofs, FiniteSetTheorems, WellFoundedInduction

(***************************************************************************)
(* The keys that some call may insert, and the workloads that are treated  *)
(* here.                                                                   *)
(***************************************************************************)
InsertKeys ==
    {k \in Key : \E t \in Thread : \E w \in Work[t] : w.kind = "insert" /\ w.key = k}

InsertsBelow ==
    \A t \in Thread : \A w \in Work[t] :
        w.kind = "delete" => \A k \in InsertKeys : k <= w.key
-----------------------------------------------------------------------------
(***************************************************************************)
(* Induction as a fact about a set: the theorem of the library has an      *)
(* operator as its parameter, a set has its least element outside.         *)
(***************************************************************************)
LEMMA Induction ==
    ASSUME NEW n \in Nat, NEW X, 0 \in X, \A i \in 0 .. n - 1 : i \in X => i + 1 \in X
    PROVE  0 .. n \subseteq X
<1> DEFINE T == (0 .. n) \ X
<1>1. SUFFICES ASSUME T # {} PROVE FALSE
  OBVIOUS
<1>2. PICK m \in T : \A y \in T : <<y, m>> \notin OpToRel(<, Nat)
  <2>1. T \subseteq Nat
    OBVIOUS
  <2> QED
    BY ONLY <1>1, <2>1, NatLessThanWellFounded, WFMin
<1>3. m \in 1 .. n
  OBVIOUS
<1>4. m - 1 \notin T
  <2>1. <<m - 1, m>> \in OpToRel(<, Nat)
    BY <1>3 DEF OpToRel
  <2> QED
    BY <1>2, <2>1
<1>5. m - 1 \in X /\ m - 1 \in 0 .. n - 1 /\ (m - 1) + 1 = m
  BY <1>3, <1>4
<1> QED
  BY <1>5

(***************************************************************************)
(* The function Reached by itself, for any words nx.                       *)
(***************************************************************************)
IsWalk(R, nx, n) ==
    R = [i \in 0 .. n |->
           IF i = 0 THEN nx[EntryHead].idx
           ELSE LET p == R[i - 1] IN IF p = End THEN End ELSE nx[p].idx]

Walk(nx) == CHOOSE R : IsWalk(R, nx, MaxEntries)

LEMMA ReachedWalk == Reached = Walk(next)
BY DEF Reached, Walk, IsWalk

LEMMA WalkExists ==
    ASSUME NEW nx, NEW n \in Nat
    PROVE  \E R : IsWalk(R, nx, n)
<1> DEFINE step(p) == IF p = End THEN End ELSE nx[p].idx
           first == nx[EntryHead].idx
           Is(R, m) == R = [i \in 0 .. m |-> IF i = 0 THEN first ELSE step(R[i - 1])]
           X == {m \in 0 .. n : \E R : Is(R, m)}
<1>1. 0 \in X
  <2> DEFINE R == [i \in 0 .. 0 |-> first]
  <2> HIDE DEF step, first
  <2>1. Is(R, 0)
    <3>1. 0 .. 0 = {0}
      OBVIOUS
    <3> QED
      BY <3>1
  <2> HIDE DEF R
  <2>2. \E Q : Is(Q, 0)
    BY <2>1
  <2> QED
    BY <2>2
<1>2. ASSUME NEW m \in 0 .. n - 1, m \in X PROVE m + 1 \in X
  <2>1. PICK R : Is(R, m)
    BY <1>2
  <2> DEFINE Q == [i \in 0 .. m + 1 |-> IF i = m + 1 THEN step(R[m]) ELSE R[i]]
  <2> HIDE DEF step, first
  <2>3. ASSUME NEW i \in 0 .. m + 1
        PROVE  Q[i] = IF i = 0 THEN first ELSE step(Q[i - 1])
    <3>1. CASE i = m + 1
      <4>1. Q[i] = step(R[m]) /\ Q[i - 1] = R[m] /\ i # 0
        BY <3>1
      <4> QED
        BY <4>1
    <3>2. CASE i \in 1 .. m
      <4>1. Q[i] = R[i] /\ Q[i - 1] = R[i - 1] /\ i # 0
        BY <3>2
      <4>2. R[i] = step(R[i - 1])
        BY <2>1, <3>2
      <4> QED
        BY <4>1, <4>2
    <3>3. CASE i = 0
      BY <2>1, <3>3
    <3> QED
      BY <3>1, <3>2, <3>3
  <2>4. Q = [i \in 0 .. m + 1 |-> IF i = 0 THEN first ELSE step(Q[i - 1])]
    <3> DEFINE G == [i \in 0 .. m + 1 |-> IF i = 0 THEN first ELSE step(Q[i - 1])]
    <3>1. \A i \in 0 .. m + 1 : Q[i] = G[i]
      BY <2>3
    <3>2. Q = [i \in 0 .. m + 1 |-> Q[i]] /\ G = [i \in 0 .. m + 1 |-> G[i]]
      OBVIOUS
    <3> HIDE DEF Q, G
    <3>3. Q = G
      BY <3>1, <3>2
    <3> QED
      BY <3>3 DEF G
  <2>5. m + 1 \in 0 .. n
    OBVIOUS
  <2> HIDE DEF Q
  <2> QED
    BY <2>4, <2>5
<1>3. 0 .. n \subseteq X
  <2> HIDE DEF X
  <2> QED
    BY <1>1, <1>2, Induction
<1>4. \E R : Is(R, n)
  BY <1>3
<1> QED
  BY <1>4 DEF IsWalk

\* the walk starts at the head and follows the words, to stay at the end
LEMMA WalkSteps ==
    ASSUME NEW nx
    PROVE  /\ Walk(nx) = [i \in 0 .. MaxEntries |-> Walk(nx)[i]]
           /\ Walk(nx)[0] = nx[EntryHead].idx
           /\ \A i \in 0 .. MaxEntries - 1 :
                Walk(nx)[i + 1] = IF Walk(nx)[i] = End THEN End ELSE nx[Walk(nx)[i]].idx
<1>1. \E R : IsWalk(R, nx, MaxEntries)
  BY WalkExists, SizeAssumption
<1>2. IsWalk(Walk(nx), nx, MaxEntries)
  BY <1>1 DEF Walk
<1> DEFINE W == Walk(nx)
<1>3. W = [i \in 0 .. MaxEntries |->
             IF i = 0 THEN nx[EntryHead].idx
             ELSE LET p == W[i - 1] IN IF p = End THEN End ELSE nx[p].idx]
  BY <1>2 DEF IsWalk
<1> HIDE DEF W
<1>4. W[0] = nx[EntryHead].idx
  BY <1>3, SizeAssumption
<1>5. ASSUME NEW i \in 0 .. MaxEntries - 1
      PROVE  W[i + 1] = IF W[i] = End THEN End ELSE nx[W[i]].idx
  <2>1. i + 1 \in 0 .. MaxEntries /\ i + 1 # 0 /\ (i + 1) - 1 = i
    BY SizeAssumption
  <2> QED
    BY <1>3, <2>1
<1>6. W = [i \in 0 .. MaxEntries |-> W[i]]
  BY ONLY <1>3
<1> QED
  BY <1>4, <1>5, <1>6 DEF W

\* words that lead from P into P keep the walk in P
LEMMA WalkWithin ==
    ASSUME NEW nx, NEW P, nx[EntryHead].idx \in P \cup {End},
           \A p \in P : nx[p].idx \in P \cup {End}
    PROVE  \A i \in 0 .. MaxEntries : Walk(nx)[i] \in P \cup {End}
<1> DEFINE W == Walk(nx)
           X == {i \in 0 .. MaxEntries : W[i] \in P \cup {End}}
<1>1. 0 \in X
  BY WalkSteps, SizeAssumption
<1>2. \A i \in 0 .. MaxEntries - 1 : i \in X => i + 1 \in X
  <2> SUFFICES ASSUME NEW i \in 0 .. MaxEntries - 1, i \in X PROVE i + 1 \in X
    OBVIOUS
  <2>1. W[i] \in P \cup {End} /\ W[i + 1] = IF W[i] = End THEN End ELSE nx[W[i]].idx
    BY WalkSteps
  <2>2. i + 1 \in 0 .. MaxEntries
    BY SizeAssumption
  <2> QED
    BY <2>1, <2>2
<1>3. 0 .. MaxEntries \subseteq X
  <2> HIDE DEF X
  <2> QED
    BY <1>1, <1>2, Induction, SizeAssumption
<1> QED
  BY <1>3

\* the walk depends on the words of P alone
LEMMA WalkSame ==
    ASSUME NEW nx, NEW ny, NEW P, nx[EntryHead].idx \in P \cup {End},
           \A p \in P : nx[p].idx \in P \cup {End},
           ny[EntryHead].idx = nx[EntryHead].idx, \A p \in P : ny[p].idx = nx[p].idx
    PROVE  Walk(ny) = Walk(nx)
<1> DEFINE V == Walk(nx)
           W == Walk(ny)
           X == {i \in 0 .. MaxEntries : W[i] = V[i]}
<1>1. 0 \in X
  BY WalkSteps, SizeAssumption
<1>2. \A i \in 0 .. MaxEntries - 1 : i \in X => i + 1 \in X
  <2> SUFFICES ASSUME NEW i \in 0 .. MaxEntries - 1, i \in X PROVE i + 1 \in X
    OBVIOUS
  <2>1. /\ W[i + 1] = IF W[i] = End THEN End ELSE ny[W[i]].idx
        /\ V[i + 1] = IF V[i] = End THEN End ELSE nx[V[i]].idx
    BY WalkSteps
  <2>2. i + 1 \in 0 .. MaxEntries /\ i \in 0 .. MaxEntries
    BY SizeAssumption
  <2>3. W[i] = V[i] /\ V[i] \in P \cup {End}
    BY <2>2, WalkWithin
  <2> QED
    BY <2>1, <2>2, <2>3
<1>3. 0 .. MaxEntries \subseteq X
  <2> HIDE DEF X
  <2> QED
    BY <1>1, <1>2, Induction, SizeAssumption
<1>4. W = [i \in 0 .. MaxEntries |-> W[i]] /\ V = [i \in 0 .. MaxEntries |-> V[i]]
  BY WalkSteps
<1>5. \A i \in 0 .. MaxEntries : W[i] = V[i]
  BY <1>3
<1> HIDE DEF W, V, X
<1>6. W = V
  BY ONLY <1>4, <1>5
<1> QED
  BY <1>6 DEF W, V

\* no walk meets MaxEntries + 1 entries, each with a larger key than the one before
LEMMA WalkNotForever ==
    ASSUME NEW W, \A i \in 0 .. MaxEntries : W[i] \in Slot /\ kd[W[i]].key \in Int,
           \A i \in 0 .. MaxEntries : \A j \in 0 .. i - 1 : kd[W[j]].key < kd[W[i]].key
    PROVE  FALSE
<1> USE SizeAssumption
<1> DEFINE f == [i \in 0 .. MaxEntries |-> W[i]]
<1>1. f \in [0 .. MaxEntries -> Slot]
  OBVIOUS
<1>2. /\ IsFiniteSet(0 .. MaxEntries) /\ Cardinality(0 .. MaxEntries) = MaxEntries + 1
      /\ IsFiniteSet(Slot) /\ Cardinality(Slot) = MaxEntries
  BY FS_Interval DEF Slot
<1>3. PICK x, y \in 0 .. MaxEntries : x # y /\ f[x] = f[y]
  <2> HIDE DEF f
  <2> QED
    BY <1>1, <1>2, FS_PigeonHole
<1>4. ASSUME NEW i \in 0 .. MaxEntries, NEW j \in 0 .. MaxEntries, i < j PROVE W[i] # W[j]
  <2>1. i \in 0 .. j - 1
    BY <1>4
  <2>2. kd[W[i]].key < kd[W[j]].key /\ kd[W[j]].key \in Int
    BY <2>1
  <2> QED
    BY <2>2
<1> QED
  BY <1>3, <1>4
-----------------------------------------------------------------------------
(***************************************************************************)
(* The invariant of the list.  L holds the entries that were ever linked.  *)
(***************************************************************************)
Live(L)  == {s \in L : ~next[s].del}
Cells(L) == L \cup {EntryHead}
Ends(L)  == L \cup {End}

\* a way that has come to key b and goes on to i leads past no live entry
LeadsOn(L, b, i) ==
    \A x \in Live(L) : kd[x].key > b => i = x \/ (i # End /\ kd[i].key < kd[x].key)

\* words lead to linked entries; those marked are linked, above all keys to be inserted
WordsIn(L)  == \A c \in Cell : next[c].idx \in Ends(L)
MarkedIn(L) == /\ ~next[EntryHead].del
               /\ \A s \in Slot : next[s].del => s \in L /\ \A k \in InsertKeys : k <= kd[s].key

\* a linked entry has a key and, as long as not all is frozen, is not private
Linked(L)   == \A s \in L : kd[s].key # NoKey /\ (Private(s) => AllFrozen)

\* an entry that has a key and is not linked waits to be
Waiting(L)  == \A s \in Slot \ L : kd[s].key # NoKey => kd[s].key \in InsertKeys

\* the entries that are not marked are the content, once each, and none is skipped
Apart(L)    == \A x, y \in Live(L) : kd[x].key = kd[y].key => x = y
Holds(L)    == content = KeysIn(Live(L))
NoSkip(L)   == \A c \in Cells(L) : LeadsOn(L, KeyOf(c), next[c].idx)

ListInv(L) ==
    WordsIn(L) /\ MarkedIn(L) /\ Linked(L) /\ Waiting(L) /\ Apart(L) /\ Holds(L) /\ NoSkip(L)

LEMMA Numbers ==
    ASSUME TypeInv
    PROVE  /\ \A x \in Slot : kd[x].key \in Int
           /\ \A c \in Cell : KeyOf(c) \in Int
           /\ \A x \in Slot : KeyOf(x) = kd[x].key /\ x # End /\ x # EntryHead /\ x \in Cell
           /\ KeyOf(EntryHead) = 0 /\ EntryHead \in Cell
           /\ \A c \in Cell : c # EntryHead => c \in Slot
<1>1. \A x \in Slot : kd[x].key \in Int /\ x # End /\ x # EntryHead /\ x \in Cell
  BY SizeAssumption DEF TypeInv, TypeOK, KeyWord, NoKey, Slot, End, EntryHead, Cell
<1>2. EntryHead \in Cell /\ \A c \in Cell : c # EntryHead => c \in Slot
  BY DEF Cell
<1> QED
  BY <1>1, <1>2 DEF KeyOf

LEMMA KeysPositive ==
    ASSUME TypeInv
    PROVE  (\A x \in Slot : KeyOf(x) > 0) /\ \A c \in Cell : KeyOf(c) >= 0
<1>1. \A x \in Slot : kd[x].key \in Int /\ kd[x].key > 0
  BY DEF TypeInv, TypeOK, KeyWord, NoKey
<1> QED
  BY <1>1, Numbers

LEMMA CellsAre ==
    ASSUME TypeInv, NEW L \in SUBSET Slot
    PROVE  /\ Cells(L) \subseteq Cell /\ Live(L) \subseteq L /\ Live(L) \subseteq Slot
           /\ EntryHead \notin L /\ End \notin L
           /\ \A c \in Cells(L) : KeyOf(c) \in Int
           /\ \A x \in L : kd[x].key \in Int /\ KeyOf(x) = kd[x].key
BY Numbers DEF Cells, Live

(***************************************************************************)
(* Where the keys ascend and no live entry is skipped, a walk meets every  *)
(* live entry, and only linked ones.                                       *)
(***************************************************************************)
LEMMA InListLinked ==
    ASSUME NEW L \in SUBSET Slot, WordsIn(L)
    PROVE  InList \subseteq L
<1>1. next[EntryHead].idx \in L \cup {End} /\ \A p \in L : next[p].idx \in L \cup {End}
  BY DEF WordsIn, Ends, Cell
<1>2. \A i \in 0 .. MaxEntries : Reached[i] \in L \cup {End}
  BY <1>1, WalkWithin, ReachedWalk
<1> QED
  BY <1>2 DEF InList

LEMMA LiveMet ==
    ASSUME TypeInv, ListSorted, NEW L \in SUBSET Slot, WordsIn(L), NoSkip(L), NEW x \in Live(L)
    PROVE  x \in InList
<1> DEFINE W == Reached
           G(i) == /\ W[i] \in L /\ kd[W[i]].key < kd[x].key
                   /\ \A j \in 0 .. i - 1 : W[j] \in L /\ kd[W[j]].key < kd[W[i]].key
           X == {i \in 0 .. MaxEntries : G(i)}
<1>1. SUFFICES ASSUME x \notin InList PROVE FALSE
  OBVIOUS
<1>2. x \in L /\ x \in Slot /\ x # End /\ kd[x].key \in Int /\ kd[x].key > 0
      /\ \A y \in L : kd[y].key \in Int
  <2>1. x \in L /\ x \in Slot /\ x # End /\ \A y \in L : kd[y].key \in Int
    BY CellsAre
  <2>2. kd[x].key > 0
    BY <2>1 DEF TypeInv, TypeOK, KeyWord, NoKey
  <2> QED
    BY <2>1, <2>2
<1>3. \A i \in 0 .. MaxEntries : W[i] # x
  BY <1>1, <1>2 DEF InList
<1>4. /\ W[0] = next[EntryHead].idx
      /\ \A i \in 0 .. MaxEntries - 1 : W[i + 1] = IF W[i] = End THEN End ELSE next[W[i]].idx
  BY WalkSteps, ReachedWalk
<1>5. ASSUME NEW c \in Cells(L), KeyOf(c) < kd[x].key, next[c].idx # x
      PROVE  next[c].idx \in L /\ kd[next[c].idx].key < kd[x].key
  <2>1. next[c].idx # End /\ kd[next[c].idx].key < kd[x].key
    BY <1>5 DEF NoSkip, LeadsOn
  <2> QED
    BY <2>1, CellsAre DEF WordsIn, Ends
<1>6. 0 \in X
  <2>1. EntryHead \in Cells(L) /\ KeyOf(EntryHead) = 0 /\ 0 \in 0 .. MaxEntries
    BY SizeAssumption DEF Cells, KeyOf
  <2>2. W[0] \in L /\ kd[W[0]].key < kd[x].key
    BY <1>2, <1>3, <1>4, <1>5, <2>1
  <2> QED
    BY <2>1, <2>2
<1>7. ASSUME NEW i \in 0 .. MaxEntries - 1, i \in X PROVE i + 1 \in X
  <2>0. G(i) /\ i + 1 \in 0 .. MaxEntries
    <3>1. G(i)
      BY ONLY <1>7, Zenon
    <3>2. i + 1 \in 0 .. MaxEntries
      BY ONLY i \in 0 .. MaxEntries - 1, SizeAssumption
    <3> QED
      BY ONLY <3>1, <3>2
  <2>1. G(i) /\ i + 1 \in 0 .. MaxEntries /\ W[i] # End
    BY ONLY <2>0, CellsAre, TypeInv, L \in SUBSET Slot
  <2>2. W[i] \in Cells(L) /\ KeyOf(W[i]) < kd[x].key /\ W[i + 1] = next[W[i]].idx
    BY <1>4, <2>1, CellsAre DEF Cells
  <2>3. W[i + 1] \in L /\ kd[W[i + 1]].key < kd[x].key
    BY <1>3, <1>5, <2>1, <2>2
  <2>4. kd[W[i]].key < kd[W[i + 1]].key
    <3>1. W[i] \in Cell /\ next[W[i]].idx # End
      BY <2>1, <2>2, <2>3, CellsAre
    <3> QED
      BY <2>1, <2>2, <3>1, CellsAre DEF ListSorted
  <2>5. ASSUME NEW j \in 0 .. (i + 1) - 1 PROVE W[j] \in L /\ kd[W[j]].key < kd[W[i + 1]].key
    <3>1. CASE j = i
      BY <2>1, <2>4, <3>1
    <3>2. CASE j # i
      <4>1. j \in 0 .. i - 1
        BY <3>2
      <4>2. W[j] \in L /\ kd[W[j]].key < kd[W[i]].key
        BY <2>1, <4>1
      <4>3. kd[W[j]].key \in Int /\ kd[W[i]].key \in Int /\ kd[W[i + 1]].key \in Int
        BY <1>2, <2>1, <2>3, <4>2
      <4> QED
        BY ONLY <2>4, <4>2, <4>3
    <3> QED
      BY <3>1, <3>2
  <2> QED
    BY <2>1, <2>3, <2>5
<1>8. 0 .. MaxEntries \subseteq X
  <2> HIDE DEF X
  <2> QED
    BY <1>6, <1>7, Induction, SizeAssumption
<1>9. /\ \A i \in 0 .. MaxEntries : W[i] \in Slot /\ kd[W[i]].key \in Int
      /\ \A i \in 0 .. MaxEntries : \A j \in 0 .. i - 1 : kd[W[j]].key < kd[W[i]].key
  BY <1>2, <1>8
<1> QED
  BY <1>9, WalkNotForever

(***************************************************************************)
(* A walk meets the live entries and no others that are not marked.        *)
(***************************************************************************)
LEMMA LiveAre ==
    ASSUME TypeInv, ListSorted, NEW L \in SUBSET Slot, ListInv(L)
    PROVE  LiveInList = Live(L) /\ ListIsContent
<1>1. LiveInList = Live(L)
  BY LiveMet, InListLinked DEF ListInv, LiveInList, Live
<1> QED
  BY <1>1 DEF ListIsContent, ListInv, Holds
-----------------------------------------------------------------------------
(***************************************************************************)
(* What the threads rely on.  A word read in cell c is still there or is   *)
(* past: versions grow, and a word is frozen once.                         *)
(***************************************************************************)
Gone(c, w) == w.ver < next[c].ver \/ (next[c].frz /\ ~w.frz)
Past(c, w) == w = next[c] \/ Gone(c, w)

\* where t is in insertEntry, and whether its compare-and-swaps would succeed
NotFound(t) == pc[t] = "ifound" /\ ~my[t].found
CanPoint(t) == NotFound(t) /\ next[Ent(t)] = my[t].saved
AtPlace(t)  == pc[t] = "link" /\ next[tg[t].prev] = tg[t].cur

\* t has the key of its delete, or has found the entry to be marked
Deleting(t) == \/ pc[t] \in {"dec", "dfound", "dmark", "dunlink"}
               \/ pc[t] \in FindPC /\ my[t].ret = "dfound"
Holding(t)  == (pc[t] = "dfound" /\ my[t].found) \/ pc[t] \in {"dmark", "dunlink"}

\* the call is one of those that t may make
CallInv(t) ==
    /\ call[t].kind # "idle" =>
          \E w \in Work[t] : w.kind = call[t].kind /\ w.key = call[t].key
    /\ Deleting(t) => call[t].kind = "delete"

\* t knows linked entries only; what it is to disconnect is marked for good
SeenInv(L, t) ==
    /\ tg[t].prev \in Cells(L) /\ tg[t].cur.idx \in Ends(L) /\ tg[t].next.idx \in Ends(L)
    /\ ~tg[t].cur.del
    /\ pc[t] = "funlink" => /\ next[tg[t].cur.idx].del
                            /\ next[tg[t].cur.idx].idx = tg[t].next.idx
    /\ pc[t] = "dmark" => ~my[t].saved.del

\* the words an insert compares with are not to come back
PlaceInv(t) ==
    /\ (pc[t] \in FindPC /\ my[t].ret = "ifound") \/ pc[t] = "ifound" =>
          Past(Ent(t), my[t].saved)
    /\ NotFound(t) \/ pc[t] = "link" => /\ tg[t].cur.idx = End \/ Past(tg[t].prev, tg[t].cur)
                                        /\ Below(Ent(t), tg[t].cur.idx)

\* an entry leads where its predecessor leads when it is linked, and from then on goes its own way
LinkInv(L, t) ==
    /\ AtPlace(t) /\ Ent(t) \notin L => next[Ent(t)].idx = tg[t].cur.idx
    /\ pc[t] = "link" /\ Ent(t) \notin L =>
          \/ next[Ent(t)].idx = tg[t].cur.idx
          \/ AllFrozen /\ next[Ent(t)].idx \in Live(L) \cup {End}
    /\ CanPoint(t) /\ Ent(t) \in L => tg[t].cur.idx = next[Ent(t)].idx

\* the successor that find has read leads past nothing that is not deleted
MarkInv(L, t) ==
    Holding(t) => /\ tg[t].cur.idx # End /\ kd[tg[t].cur.idx].key = call[t].key
                  /\ LeadsOn(L, kd[tg[t].cur.idx].key, tg[t].next.idx)
                  /\ pc[t] = "dunlink" => next[tg[t].cur.idx].del

At(L, t) == CallInv(t) /\ SeenInv(L, t) /\ PlaceInv(t) /\ LinkInv(L, t) /\ MarkInv(L, t)

\* two threads link the same entry: they have found the same successor
Meet(L, t, u) ==
    pc[t] = "link" /\ CanPoint(u) /\ Ent(t) = Ent(u) =>
        /\ tg[u].cur.idx \in Live(L) \cup {End}
        /\ AtPlace(t) => tg[u].cur.idx = tg[t].cur.idx

Content(L) ==
    /\ ListInv(L)
    /\ \A t \in Thread : At(L, t)
    /\ \A t, u \in Thread : t # u => Meet(L, t, u)

\* everything that is known of a state
Known(L) == TypeInv /\ PrivacyInv /\ OrderInv /\ Content(L)
-----------------------------------------------------------------------------
(***************************************************************************)
(* What a step of t does to the words and keys of others.  Afterwards M    *)
(* are the entries that were ever linked.                                  *)
(***************************************************************************)
Advances(c) ==
    \/ next'[c] = next[c]
    \/ next'[c].ver > next[c].ver /\ next'[c].frz = next[c].frz
    \/ next'[c].ver = next[c].ver /\ next'[c].frz /\ ~next[c].frz

\* an entry that only t has to do with
Spare(L, t, c) == ~AllFrozen /\ c \in Slot \ L /\ \A u \in Thread \ {t} : my[u].own # c

CallsStay(t) ==
    \A u \in Thread \ {t} : call'[u].kind = call[u].kind /\ call'[u].key = call[u].key

Onward(L, M, t) ==
    /\ OthersStill(t) /\ KeysStay(t) /\ CallsStay(t) /\ L \subseteq M
    /\ AllFrozen => AllFrozen' /\ Live(L) \subseteq Live(M)'
    /\ \A c \in Cell : Advances(c) \/ Spare(L, t, c)
    /\ \A c \in Cell : next[c].del => next'[c].del /\ next'[c].idx = next[c].idx
    /\ \A x \in Live(M)' : x \in Live(L) \/ kd'[x].key \in InsertKeys

LEMMA WordTypes ==
    ASSUME TypeInv, NEW c \in Cell
    PROVE  next[c] \in Word /\ next[c].ver \in Nat /\ next[c].frz \in BOOLEAN /\ next[c].del \in BOOLEAN
           /\ next[c].idx \in 0 .. MaxEntries
BY DEF TypeInv, TypeOK, Word

LEMMA NotBack ==
    ASSUME TypeInv, NEW c \in Cell, NEW w \in Word, Gone(c, w)
    PROVE  w # next[c]
BY WordTypes DEF Gone, Word

LEMMA PastStays ==
    ASSUME TypeInv, TypeInv', NEW c \in Cell, NEW w \in Word, Advances(c), Past(c, w)
    PROVE  Past(c, w)' /\ (Gone(c, w) => Gone(c, w)') /\ (w = next'[c] => w = next[c])
<1>1. /\ next[c].ver \in Nat /\ next'[c].ver \in Nat
      /\ next[c].frz \in BOOLEAN /\ next'[c].frz \in BOOLEAN
      /\ w.ver \in Nat /\ w.frz \in BOOLEAN
  BY DEF TypeInv, TypeOK, Word
<1>2. Gone(c, w) => Gone(c, w)'
  BY <1>1 DEF Gone, Advances
<1>3. Past(c, w)'
  BY <1>1, <1>2 DEF Past, Gone, Advances
<1>4. w = next'[c] => ~Gone(c, w)'
  BY <1>1 DEF Gone
<1> QED
  BY <1>2, <1>3, <1>4 DEF Past

\* the keys of linked entries stay
LEMMA LinkedKeys ==
    ASSUME NEW L \in SUBSET Slot, Known(L), NEW t \in Thread, KeysStay(t)
    PROVE  /\ \A s \in L : kd'[s].key = kd[s].key
           /\ \A c \in Cells(L) : KeyOf(c)' = KeyOf(c)
<1>1. \A s \in L : kd'[s].key = kd[s].key
  BY DEF Known, Content, ListInv, Linked, KeysStay
<1> QED
  BY <1>1 DEF Cells, KeyOf

\* so does what an insert of another thread has in hand
LEMMA EntryStays ==
    ASSUME NEW L \in SUBSET Slot, NEW M, NEW t \in Thread, TypeInv, Onward(L, M, t),
           NEW u \in Thread \ {t}, Inserting(u)
    PROVE  /\ Ent(u) \in Slot /\ Ent(u) \in Cell /\ Ent(u)' = Ent(u) /\ Advances(Ent(u))
           /\ kd'[Ent(u)].key = kd[Ent(u)].key /\ Inserting(u)'
<1>1. /\ Ent(u) \in Slot /\ Ent(u) \in Cell
      /\ my[u].trig # "-" => AllFrozen
  BY EntryAtHand
<1>2. my'[u] = my[u] /\ pc'[u] = pc[u] /\ KeysStay(t) /\ \A c \in Cell : Advances(c) \/ Spare(L, t, c)
  BY DEF Onward, OthersStill
<1>3. Ent(u)' = Ent(u) /\ Inserting(u)'
  BY <1>2 DEF Ent, Inserting
<1>4. my[u].trig = "-" => Ent(u) = my[u].own
  BY DEF Ent
<1>5. ~Spare(L, t, Ent(u))
  BY <1>1, <1>4 DEF Spare
<1>6. kd'[Ent(u)].key = kd[Ent(u)].key
  BY <1>1, <1>2, <1>4 DEF KeysStay
<1> QED
  BY <1>1, <1>2, <1>3, <1>5, <1>6

LEMMA PlaceTypes ==
    ASSUME TypeInv, NEW u \in Thread
    PROVE  /\ tg[u].prev \in Cell /\ tg[u].cur \in Word /\ tg[u].next \in Word
           /\ my[u].saved \in Word /\ my[u].own \in 0 .. MaxEntries /\ my[u].ret \in Return \cup {"-"}
<1>1. tg[u] \in Place /\ my[u] \in Local
  BY DEF TypeInv, TypeOK, Place
<1> QED
  BY <1>1 DEF Place, Local

\* only when all is frozen do two threads insert the same entry
LEMMA TwoInserting ==
    ASSUME TypeInv, NEW t \in Thread, NEW u \in Thread \ {t},
           Inserting(t), Inserting(u), Ent(t) = Ent(u)
    PROVE  AllFrozen
<1>1. CASE my[t].trig = "-" /\ my[u].trig = "-"
  <2>1. my[t].own = my[u].own /\ my[t].own # End
    BY <1>1, EntryAtHand DEF Ent
  <2> QED
    BY <2>1 DEF TypeInv, OwnDistinct
<1> QED
  BY <1>1, EntryAtHand
-----------------------------------------------------------------------------
(***************************************************************************)
(* After a step of t the others may rely on the same.                      *)
(***************************************************************************)
LEMMA OthersSeen ==
    ASSUME NEW L \in SUBSET Slot, NEW M \in SUBSET Slot, NEW t \in Thread, Known(L), TypeInv',
           Onward(L, M, t), NEW u \in Thread \ {t}
    PROVE  CallInv(u)' /\ SeenInv(M, u)'
<1>1. my'[u] = my[u] /\ pc'[u] = pc[u] /\ tg'[u] = tg[u] /\ L \subseteq M
      /\ call'[u].kind = call[u].kind /\ call'[u].key = call[u].key
  BY DEF Onward, OthersStill, CallsStay
<1>2. CallInv(u) /\ SeenInv(L, u)
  BY DEF Known, Content, At
<1>3. CallInv(u)'
  BY <1>1, <1>2 DEF CallInv, Deleting
<1>4. ASSUME pc[u] = "funlink"
      PROVE  next'[tg[u].cur.idx].del /\ next'[tg[u].cur.idx].idx = tg[u].next.idx
  <2>1. tg[u].cur.idx \in Cell
    BY <1>4, PlaceTypes, Indices, Constants DEF Known, TypeInv, ThreadInv, FindInv
  <2> QED
    BY <1>2, <1>4, <2>1 DEF SeenInv, Onward
<1>5. SeenInv(M, u)'
  BY <1>1, <1>2, <1>4 DEF SeenInv, Cells, Ends
<1> QED
  BY <1>3, <1>5

LEMMA OthersPlace ==
    ASSUME NEW L \in SUBSET Slot, NEW M \in SUBSET Slot, NEW t \in Thread, Known(L), TypeInv',
           Onward(L, M, t), NEW u \in Thread \ {t}
    PROVE  PlaceInv(u)'
<1>1. my'[u] = my[u] /\ pc'[u] = pc[u] /\ tg'[u] = tg[u] /\ KeysStay(t)
  BY DEF Onward, OthersStill
<1>2. TypeInv /\ PlaceInv(u) /\ SeenInv(L, u)
  BY DEF Known, Content, At
<1>3. tg[u].prev \in Cell /\ tg[u].cur \in Word /\ my[u].saved \in Word
  BY <1>2, PlaceTypes
<1>4. Inserting(u) => /\ Ent(u) \in Slot /\ Ent(u) \in Cell /\ Ent(u)' = Ent(u) /\ Advances(Ent(u))
                      /\ kd'[Ent(u)].key = kd[Ent(u)].key
  BY <1>2, EntryStays
<1>5. ASSUME (pc[u] \in FindPC /\ my[u].ret = "ifound") \/ pc[u] = "ifound"
      PROVE  Past(Ent(u), my[u].saved)'
  <2>1. Inserting(u) /\ Past(Ent(u), my[u].saved)
    BY <1>2, <1>5 DEF Inserting, PlaceInv
  <2>2. Past(Ent(u), my[u].saved)' <=>
            \/ my[u].saved = next'[Ent(u)]
            \/ my[u].saved.ver < next'[Ent(u)].ver \/ (next'[Ent(u)].frz /\ ~my[u].saved.frz)
    BY <1>1, <1>4, <2>1 DEF Past, Gone
  <2> DEFINE e == Ent(u)
             w == my[u].saved
  <2>3. PICK d \in Cell : d = Ent(u)
    BY <1>4, <2>1
  <2>4. PICK v \in Word : v = my[u].saved
    BY <1>3
  <2>5. Past(d, v)'
    BY <1>2, <1>4, <2>1, <2>3, <2>4, PastStays
  <2> QED
    BY <2>2, <2>3, <2>4, <2>5 DEF Past, Gone
<1>6. ASSUME NotFound(u) \/ pc[u] = "link"
      PROVE  (tg[u].cur.idx = End \/ Past(tg[u].prev, tg[u].cur))' /\ Below(Ent(u), tg[u].cur.idx)'
  <2>1. Inserting(u) /\ (tg[u].cur.idx = End \/ Past(tg[u].prev, tg[u].cur)) /\ Below(Ent(u), tg[u].cur.idx)
    BY <1>2, <1>6 DEF Inserting, PlaceInv, NotFound
  <2>2. PICK d \in Cell : d = tg[u].prev
    BY <1>3
  <2>3. PICK v \in Word : v = tg[u].cur
    BY <1>3
  <2>4. ~Spare(L, t, d)
    BY <1>2, <2>2 DEF SeenInv, Cells, Spare, Slot, EntryHead
  <2>5. Past(d, v) => Past(d, v)'
    BY <1>2, <2>4, PastStays DEF Onward
  <2>6. (tg[u].cur.idx = End \/ Past(tg[u].prev, tg[u].cur))'
    BY <1>1, <2>1, <2>2, <2>3, <2>5 DEF Past, Gone
  <2>7. tg[u].cur.idx # End => tg[u].cur.idx \in L /\ kd'[tg[u].cur.idx].key = kd[tg[u].cur.idx].key
    BY <1>1, <1>2, LinkedKeys DEF SeenInv, Ends
  <2>8. Ent(u) # EntryHead
    BY <1>4, <2>1 DEF Slot, EntryHead
  <2>9. Below(Ent(u), tg[u].cur.idx)'
    BY <1>1, <1>4, <2>1, <2>7, <2>8 DEF Below, KeyOf
  <2> QED
    BY <2>6, <2>9
<1>7. NotFound(u)' <=> NotFound(u)
  BY <1>1 DEF NotFound
<1> QED
  BY <1>1, <1>5, <1>6, <1>7 DEF PlaceInv
LEMMA DeleteAbove ==
    ASSUME InsertsBelow, NEW u \in Thread, CallInv(u), Deleting(u), WorkAssumption
    PROVE  \A k \in InsertKeys : k <= call[u].key
<1>1. PICK w \in Work[u] : w.kind = "delete" /\ w.key = call[u].key
  BY DEF CallInv
<1> QED
  BY <1>1 DEF InsertsBelow

LEMMA OthersMark ==
    ASSUME NEW L \in SUBSET Slot, NEW M \in SUBSET Slot, NEW t \in Thread, Known(L), TypeInv',
           InsertsBelow, Onward(L, M, t), NEW u \in Thread \ {t}
    PROVE  MarkInv(M, u)'
<1>1. my'[u] = my[u] /\ pc'[u] = pc[u] /\ tg'[u] = tg[u] /\ KeysStay(t) /\ L \subseteq M
      /\ call'[u].kind = call[u].kind /\ call'[u].key = call[u].key
  BY DEF Onward, OthersStill, CallsStay
<1>2. TypeInv /\ CallInv(u) /\ MarkInv(L, u) /\ SeenInv(L, u)
  BY DEF Known, Content, At
<1>3. (Holding(u)' <=> Holding(u)) /\ (Holding(u) => Deleting(u))
  BY <1>1 DEF Holding, Deleting
<1> SUFFICES ASSUME Holding(u) PROVE MarkInv(M, u)'
  BY <1>3 DEF MarkInv
<1> DEFINE m == tg[u].cur.idx
           i == tg[u].next.idx
<1>4. m # End /\ kd[m].key = call[u].key /\ LeadsOn(L, kd[m].key, i)
      /\ (pc[u] = "dunlink" => next[m].del)
  BY <1>2 DEF MarkInv
<1>5. \A s \in L : kd'[s].key = kd[s].key
  BY <1>1, LinkedKeys
<1>6. m \in L /\ i \in L \cup {End} /\ kd'[m].key = kd[m].key
  BY <1>2, <1>4, <1>5 DEF SeenInv, Ends
<1>7. \A k \in InsertKeys : k <= kd[m].key
  BY <1>2, <1>3, <1>4, DeleteAbove, WorkAssumption
<1>8. LeadsOn(M, kd[m].key, i)'
  <2> SUFFICES ASSUME NEW x \in Live(M)', kd'[x].key > kd'[m].key
               PROVE  i = x \/ (i # End /\ kd'[i].key < kd'[x].key)
    BY <1>1 DEF LeadsOn
  <2>1. x \in Live(L)
    <3>1. x \in Live(L) \/ kd'[x].key \in InsertKeys
      BY DEF Onward
    <3>2. kd'[x].key \in Int /\ kd[m].key \in Int
      <4>1. x \in Slot
        BY DEF Live
      <4>2. kd'[x].key \in Int
        BY <4>1 DEF TypeInv, TypeOK, KeyWord, NoKey
      <4> QED
        BY <1>2, <1>6, <4>2, Numbers
    <3>3. kd'[x].key \in InsertKeys => kd'[x].key <= kd[m].key
      BY <1>7
    <3> QED
      BY <1>6, <3>1, <3>2, <3>3
  <2>2. x \in L
    BY <2>1 DEF Live
  <2>3. i = x \/ (i # End /\ kd[i].key < kd[x].key)
    BY <1>4, <1>5, <1>6, <2>1, <2>2 DEF LeadsOn
  <2> QED
    BY <1>5, <1>6, <2>2, <2>3
<1>9. pc[u] = "dunlink" => next'[m].del
  <2>1. m \in Cell
    BY <1>6, Constants
  <2> QED
    BY <1>4, <2>1 DEF Onward
<1> HIDE DEF m, i
<1> QED
  BY <1>1, <1>4, <1>6, <1>8, <1>9 DEF MarkInv, m, i

\* what is known of a thread that links an entry, or is about to point it at its successor
LEMMA HandFacts ==
    ASSUME NEW L \in SUBSET Slot, Known(L), NEW u \in Thread, pc[u] \in {"ifound", "link"}
    PROVE  /\ Inserting(u) /\ Ent(u) \in Slot /\ Ent(u) \in Cell /\ kd[Ent(u)].key \in Int
           /\ tg[u].prev \in Cells(L) /\ tg[u].prev \in Cell /\ KeyOf(tg[u].prev) \in Int
           /\ KeyOf(tg[u].prev) < kd[Ent(u)].key
           /\ tg[u].cur.idx \in L \cup {End}
           /\ NotFound(u) \/ pc[u] = "link" =>
                 (tg[u].cur.idx # End => kd[Ent(u)].key < kd[tg[u].cur.idx].key)
           /\ \A x \in L : kd[x].key \in Int
<1>1. Inserting(u) /\ Placing(u) /\ TypeInv /\ SeenInv(L, u) /\ PlaceInv(u) /\ Ordered(u)
  BY DEF Inserting, Placing, Known, Content, At, OrderInv
<1>2. Ent(u) \in Slot /\ Ent(u) \in Cell
  BY <1>1, EntryAtHand
<1>3. kd[Ent(u)].key \in Int /\ KeyOf(Ent(u)) = kd[Ent(u)].key /\ \A x \in L : kd[x].key \in Int
  BY <1>1, <1>2, Numbers
<1>4. KeyOf(tg[u].prev) < kd[Ent(u)].key
  BY <1>1 DEF Ordered, Placed
<1>5. /\ tg[u].prev \in Cells(L) /\ tg[u].prev \in Cell /\ KeyOf(tg[u].prev) \in Int
      /\ tg[u].cur.idx \in L \cup {End}
  BY <1>1, CellsAre DEF SeenInv, Ends
<1>6. NotFound(u) \/ pc[u] = "link" => Below(Ent(u), tg[u].cur.idx)
  BY <1>1 DEF PlaceInv
<1> QED
  BY <1>1, <1>2, <1>3, <1>4, <1>5, <1>6 DEF Below

\* no predecessor of an entry that stays live leads to the end
LEMMA NotPastEnd ==
    ASSUME NEW L \in SUBSET Slot, NEW M \in SUBSET Slot, NEW t \in Thread, Known(L), Onward(L, M, t),
           NoSkip(M)', NEW p \in Cells(L), NEW y \in L, y \in Live(M)', KeyOf(p) < kd[y].key,
           next'[p].idx = End
    PROVE  FALSE
<1>1. KeyOf(p)' = KeyOf(p) /\ kd'[y].key = kd[y].key /\ L \subseteq M
  BY LinkedKeys DEF Onward
<1>2. p \in Cells(M)
  BY <1>1 DEF Cells
<1>3. LeadsOn(M, KeyOf(p), next[p].idx)'
  BY <1>2 DEF NoSkip, Cells
<1>4. y # End
  BY SizeAssumption DEF Slot, End
<1>5. KeyOf(p)' < kd'[y].key
  BY <1>1
<1> QED
  BY <1>3, <1>4, <1>5 DEF LeadsOn, KeyOf

(***************************************************************************)
(* A compare-and-swap that succeeds only after the step of t: its word has *)
(* not come back, but the predecessor leads to the end, as expected.       *)
(***************************************************************************)
LEMMA NewlyAtPlace ==
    ASSUME NEW L \in SUBSET Slot, NEW M \in SUBSET Slot, NEW t \in Thread, Known(L), Onward(L, M, t),
           TypeInv', NEW u \in Thread \ {t}, AtPlace(u)'
    PROVE  AtPlace(u) \/ (next'[tg[u].prev].idx = End /\ tg[u].cur.idx = End)
<1>1. pc[u] = "link" /\ tg'[u] = tg[u] /\ next'[tg[u].prev] = tg[u].cur
  BY DEF Onward, OthersStill, AtPlace
<1>2. tg[u].cur.idx = End \/ Past(tg[u].prev, tg[u].cur)
  BY <1>1 DEF Known, Content, At, PlaceInv
<1>3. TypeInv /\ SeenInv(L, u)
  BY DEF Known, Content, At
<1>4. tg[u].prev \in Cell /\ tg[u].cur \in Word
  BY <1>3, PlaceTypes
<1>5. ~Spare(L, t, tg[u].prev)
  BY <1>3 DEF SeenInv, Cells, Spare, Slot, EntryHead
<1>6. Past(tg[u].prev, tg[u].cur) => tg[u].cur = next[tg[u].prev]
  BY <1>1, <1>3, <1>4, <1>5, PastStays DEF Onward
<1> QED
  BY <1>1, <1>2, <1>6 DEF AtPlace

\* what CanPoint expects does not come back either
LEMMA StillCanPoint ==
    ASSUME NEW L \in SUBSET Slot, NEW M \in SUBSET Slot, NEW t \in Thread, Known(L), Onward(L, M, t),
           TypeInv', NEW u \in Thread \ {t}, CanPoint(u)'
    PROVE  CanPoint(u) /\ next'[Ent(u)] = next[Ent(u)] /\ Ent(u)' = Ent(u) /\ tg'[u] = tg[u]
<1>1. NotFound(u) /\ Inserting(u) /\ my'[u] = my[u] /\ tg'[u] = tg[u]
  BY DEF Onward, OthersStill, CanPoint, NotFound, Inserting
<1>2. TypeInv /\ Past(Ent(u), my[u].saved)
  BY <1>1 DEF Known, Content, At, PlaceInv, NotFound
<1>3. Ent(u) \in Cell /\ Ent(u)' = Ent(u) /\ Advances(Ent(u))
  BY <1>1, <1>2, EntryStays
<1>4. my[u].saved \in Word /\ next'[Ent(u)] = my[u].saved
  BY <1>1, <1>2, <1>3, PlaceTypes DEF CanPoint
<1>5. my[u].saved = next[Ent(u)]
  BY <1>2, <1>3, <1>4, PastStays
<1> QED
  BY <1>1, <1>3, <1>4, <1>5 DEF CanPoint

\* the entry another thread is about to link leads where it did, or where that thread would have it
StillLeads(M, u) ==
    pc[u] = "link" /\ Ent(u) \notin M =>
        \/ next'[Ent(u)].idx = next[Ent(u)].idx
        \/ /\ AllFrozen' /\ next'[Ent(u)].idx \in Live(M)' \cup {End}
           /\ AtPlace(u)' => next'[Ent(u)].idx = tg[u].cur.idx

LEMMA OthersLink ==
    ASSUME NEW L \in SUBSET Slot, NEW M \in SUBSET Slot, NEW t \in Thread, Known(L), Onward(L, M, t),
           TypeInv', NEW u \in Thread \ {t}, ListInv(M)',
           StillLeads(M, u),
           CanPoint(u) /\ Ent(u) \in M \ L => tg[u].cur.idx = next[Ent(u)].idx
    PROVE  LinkInv(M, u)'
<1>1. /\ my'[u] = my[u] /\ pc'[u] = pc[u] /\ tg'[u] = tg[u] /\ L \subseteq M
      /\ AllFrozen => AllFrozen' /\ Live(L) \subseteq Live(M)'
  BY DEF Onward, OthersStill
<1>2. TypeInv /\ LinkInv(L, u)
  BY DEF Known, Content, At
<1>3. Inserting(u) => Ent(u)' = Ent(u) /\ kd'[Ent(u)].key = kd[Ent(u)].key /\ Ent(u) \in Cell
  BY <1>2, EntryStays
<1>4. ASSUME pc[u] = "link", Ent(u) \notin M
      PROVE  /\ AtPlace(u)' => next'[Ent(u)].idx = tg[u].cur.idx
             /\ \/ next'[Ent(u)].idx = tg[u].cur.idx
                \/ AllFrozen' /\ next'[Ent(u)].idx \in Live(M)' \cup {End}
  <2>0. Inserting(u) /\ Ent(u) \notin L
    <3>1. Inserting(u)
      BY <1>4 DEF Inserting
    <3>2. Ent(u) \notin L
      BY ONLY <1>1, <1>4
    <3> QED
      BY <3>1, <3>2
  <2> SUFFICES ASSUME next'[Ent(u)].idx = next[Ent(u)].idx
               PROVE  /\ AtPlace(u)' => next'[Ent(u)].idx = tg[u].cur.idx
                      /\ \/ next'[Ent(u)].idx = tg[u].cur.idx
                         \/ AllFrozen' /\ next'[Ent(u)].idx \in Live(M)' \cup {End}
    BY <1>4 DEF StillLeads
  <2>1. Inserting(u) /\ next'[Ent(u)].idx = next[Ent(u)].idx /\ Ent(u) \notin L
    BY <1>4, <2>0
  <2>2. \/ next[Ent(u)].idx = tg[u].cur.idx
        \/ AllFrozen /\ next[Ent(u)].idx \in Live(L) \cup {End}
    BY <1>2, <1>4, <2>1 DEF LinkInv
  <2>3. AtPlace(u) => next[Ent(u)].idx = tg[u].cur.idx
    BY <1>2, <2>1 DEF LinkInv
  <2>4. ASSUME AtPlace(u)', ~AtPlace(u), next[Ent(u)].idx # tg[u].cur.idx PROVE FALSE
    <3>1. next'[tg[u].prev].idx = End /\ tg[u].cur.idx = End
      BY <2>4, NewlyAtPlace
    <3> DEFINE y == next[Ent(u)].idx
    <3>2. AllFrozen /\ y \in Live(L) /\ y # End
      BY <2>2, <2>4, <3>1
    <3>3. y \in Live(M)' /\ y \in L
      BY <1>1, <3>2 DEF Live
    <3>4. KeyOf(Ent(u)) < kd[y].key
      BY <1>3, <2>1, <3>2 DEF Known, OrderInv, ListSorted
    <3>5. /\ tg[u].prev \in Cells(L) /\ KeyOf(tg[u].prev) \in Int /\ kd[Ent(u)].key \in Int
          /\ KeyOf(tg[u].prev) < kd[Ent(u)].key /\ Ent(u) \in Slot /\ kd[y].key \in Int
      BY <1>4, <3>3, HandFacts
    <3>6. KeyOf(tg[u].prev) < kd[y].key
      BY <1>2, <3>4, <3>5, Numbers
    <3>7. PICK p \in Cells(L) : p = tg[u].prev
      BY <3>5
    <3>8. PICK z \in Live(M)' : z = y
      BY <3>3
    <3> QED
      BY <1>1, <3>1, <3>2, <3>3, <3>6, <3>7, <3>8, NotPastEnd DEF ListInv
  <2> QED
    BY <1>1, <2>1, <2>2, <2>3, <2>4
<1>5. ASSUME CanPoint(u)', Ent(u) \in M PROVE tg[u].cur.idx = next'[Ent(u)].idx
  <2>1. CanPoint(u) /\ next'[Ent(u)] = next[Ent(u)]
    BY <1>5, StillCanPoint
  <2> QED
    BY <1>2, <1>5, <2>1 DEF LinkInv
<1>6. AtPlace(u)' => pc[u] = "link" /\ Inserting(u)
  BY ONLY <1>1 DEF AtPlace, Inserting
<1>7. CanPoint(u)' => Inserting(u)
  <2>1. CanPoint(u) => Inserting(u)
    BY DEF CanPoint, NotFound, Inserting
  <2> QED
    BY <2>1, StillCanPoint
<1>8. pc[u] = "link" => Inserting(u)
  BY DEF Inserting
<1> QED
  BY <1>1, <1>3, <1>4, <1>5, <1>6, <1>7, <1>8 DEF LinkInv

LEMMA OthersMeet ==
    ASSUME NEW L \in SUBSET Slot, NEW M \in SUBSET Slot, NEW t \in Thread, Known(L), Onward(L, M, t),
           TypeInv', NEW u \in Thread \ {t}, NEW v \in Thread \ {t}, u # v, ListInv(M)'
    PROVE  Meet(M, u, v)'
<1>1. /\ pc'[u] = pc[u] /\ tg'[u] = tg[u] /\ L \subseteq M
      /\ AllFrozen => AllFrozen' /\ Live(L) \subseteq Live(M)'
  BY DEF Onward, OthersStill
<1> SUFFICES ASSUME pc[u] = "link", CanPoint(v)', Ent(u)' = Ent(v)'
             PROVE  /\ tg[v].cur.idx \in Live(M)' \cup {End}
                    /\ AtPlace(u)' => tg[v].cur.idx = tg[u].cur.idx
  BY <1>1 DEF Meet, Onward, OthersStill
<1>2. CanPoint(v) /\ Ent(v)' = Ent(v)
  BY StillCanPoint
<1>3. Inserting(u) /\ Inserting(v) /\ pc[v] = "ifound" /\ NotFound(v) /\ TypeInv
  BY <1>2 DEF CanPoint, NotFound, Inserting, Known
<1>4. Ent(u) = Ent(v)
  BY <1>2, <1>3, EntryStays
<1>5. tg[v].cur.idx \in Live(L) \cup {End} /\ (AtPlace(u) => tg[v].cur.idx = tg[u].cur.idx)
  BY <1>2, <1>4 DEF Known, Content, Meet
<1>6. AllFrozen
  BY <1>3, <1>4, TwoInserting
<1>7. tg[v].cur.idx \in Live(M)' \cup {End}
  BY <1>1, <1>5, <1>6
<1>8. ASSUME AtPlace(u)', ~AtPlace(u), tg[v].cur.idx # End PROVE FALSE
  <2>1. next'[tg[u].prev].idx = End
    BY <1>8, NewlyAtPlace
  <2> DEFINE y == tg[v].cur.idx
  <2>2. y \in Live(M)' /\ y \in L
    BY <1>1, <1>5, <1>6, <1>8 DEF Live
  <2>3. /\ tg[u].prev \in Cells(L) /\ KeyOf(tg[u].prev) \in Int /\ kd[Ent(u)].key \in Int
        /\ KeyOf(tg[u].prev) < kd[Ent(u)].key /\ kd[y].key \in Int
    BY <2>2, HandFacts
  <2>4. kd[Ent(u)].key < kd[y].key
    BY <1>3, <1>4, <1>8, HandFacts
  <2>5. KeyOf(tg[u].prev) < kd[y].key
    BY <2>3, <2>4
  <2>6. PICK p \in Cells(L) : p = tg[u].prev
    BY <2>3
  <2>7. PICK z \in Live(M)' : z = y
    BY <2>2
  <2> QED
    BY <1>1, <2>1, <2>2, <2>5, <2>6, <2>7, NotPastEnd DEF ListInv
<1>9. AtPlace(u)' /\ ~AtPlace(u) => tg[u].cur.idx = End
  BY NewlyAtPlace
<1> QED
  BY <1>5, <1>7, <1>8, <1>9

(***************************************************************************)
(* What remains to be shown of a step of t: the list, t's own part, and    *)
(* the entries that others are about to link.                              *)
(***************************************************************************)
Undisturbed(L, M, t) ==
    \A u \in Thread \ {t} :
        /\ StillLeads(M, u)
        /\ CanPoint(u) /\ Ent(u) \in M \ L => tg[u].cur.idx = next[Ent(u)].idx

MeetsOthers(M, t) == \A u \in Thread \ {t} : Meet(M, t, u) /\ Meet(M, u, t)

LEMMA ContentKeeps ==
    ASSUME NEW L \in SUBSET Slot, NEW M \in SUBSET Slot, NEW t \in Thread, Known(L), TypeInv',
           InsertsBelow, Onward(L, M, t), Undisturbed(L, M, t),
           ListInv(M)', At(M, t)', MeetsOthers(M, t)'
    PROVE  Content(M)'
<1>1. ASSUME NEW u \in Thread, u # t PROVE At(M, u)'
  BY <1>1, OthersSeen, OthersPlace, OthersMark, OthersLink DEF At, Undisturbed
<1>2. ASSUME NEW u \in Thread, NEW v \in Thread, u # v PROVE Meet(M, u, v)'
  <2>1. CASE u = t
    BY <1>2, <2>1 DEF MeetsOthers
  <2>2. CASE v = t
    BY <1>2, <2>2 DEF MeetsOthers
  <2>3. CASE u # t /\ v # t
    BY <1>2, <2>3, OthersMeet
  <2> QED
    BY <2>1, <2>2, <2>3
<1> QED
  BY <1>1, <1>2 DEF Content

-----------------------------------------------------------------------------
(***************************************************************************)
(* What stabilizeChunk works towards: below key b no live entry leads to   *)
(* a marked one, and what is allocated and not deleted is in the list.     *)
(***************************************************************************)
CleanTo(L, b) ==
    \A c \in Live(L) \cup {EntryHead} : KeyOf(c) < b => next[c].idx \in Live(L) \cup {End}
Complete(i) ==
    \A s \in Slot : s < i /\ kd[s].key # NoKey /\ ~next[s].del => kd[s].key \in content

\* what has been reached is kept, and the list that is finished does not change
StaysClean(L, M) ==
    AllFrozen =>
        /\ \A b \in Int : CleanTo(L, b) => CleanTo(M, b)'
        /\ CleanTo(L, NoKey) /\ Complete(MaxEntries) =>
              \A c \in Live(L) \cup {EntryHead} : next'[c].idx = next[c].idx

\* the outcome of a step
Follows(L, M, t) == M \in SUBSET Slot /\ Onward(L, M, t) /\ Content(M)' /\ StaysClean(L, M)

LEMMA PrivateStays ==
    ASSUME NEW L \in SUBSET Slot, Known(L), NEW t \in Thread, OthersStill(t), FreesOwn(t),
           TakesFree(t), NEW s \in L, Private(s)', kd'[s].key # NoKey
    PROVE  Private(s)
<1>1. PICK u \in Thread : Unlinked(u)' /\ my'[u].own = s
  BY DEF Private
<1>2. kd[s].key # NoKey
  BY DEF Known, Content, ListInv, Linked
<1>3. CASE u = t
  <2>1. Unlinked(t) /\ my[t].own = s
    BY <1>1, <1>2, <1>3 DEF TakesFree
  <2> QED
    BY <2>1 DEF Private
<1>4. CASE u # t
  <2>1. pc'[u] = pc[u] /\ my'[u] = my[u]
    BY <1>4 DEF OthersStill
  <2>2. Unlinked(u) /\ my[u].own = s
    BY <1>1, <2>1 DEF Unlinked, Inserting
  <2> QED
    BY <2>2 DEF Private
<1> QED
  BY <1>3, <1>4

(***************************************************************************)
(* A step that changes no word, no key and not the content.                *)
(***************************************************************************)
LEMMA QuietFollows ==
    ASSUME NEW L \in SUBSET Slot, NEW t \in Thread, Known(L), TypeInv', InsertsBelow,
           UNCHANGED <<next, kd, content>>, OthersStill(t), CallsStay(t), TakesFree(t),
           At(L, t)', MeetsOthers(L, t)'
    PROVE  Follows(L, L, t)
<1>1. /\ Live(L)' = Live(L) /\ AllFrozen' = AllFrozen /\ KeysIn(Live(L))' = KeysIn(Live(L))
      /\ \A c : KeyOf(c)' = KeyOf(c)
  BY DEF Live, AllFrozen, KeyFrozen, KeysIn, KeyOf
<1>2. FreesOwn(t)
  BY DEF FreesOwn
<1>3. ListInv(L)
  BY DEF Known, Content
<1>4. ListInv(L)'
  <2>1. WordsIn(L)' /\ MarkedIn(L)' /\ Waiting(L)' /\ Apart(L)' /\ Holds(L)' /\ NoSkip(L)'
    BY <1>1, <1>3 DEF ListInv, WordsIn, MarkedIn, Waiting, Apart, Holds, NoSkip, LeadsOn
  <2>2. Linked(L)'
    BY <1>1, <1>2, <1>3, PrivateStays DEF ListInv, Linked
  <2> QED
    BY <2>1, <2>2 DEF ListInv
<1>5. Onward(L, L, t)
  BY <1>1 DEF Onward, KeysStay, Advances
<1>6. Undisturbed(L, L, t)
  BY DEF Undisturbed, StillLeads
<1>7. Content(L)'
  BY <1>4, <1>5, <1>6, ContentKeeps
<1>8. StaysClean(L, L)
  BY <1>1 DEF StaysClean, CleanTo
<1> QED
  BY <1>5, <1>7, <1>8 DEF Follows

\* t is where nothing is asked of it but that it knows linked entries
Resting(t) ==
    /\ pc[t] \notin {"ifound", "link", "funlink", "dmark", "dunlink", "dfound"}
    /\ pc[t] \in FindPC => my[t].ret # "ifound"

LEMMA RestAt ==
    ASSUME NEW L \in SUBSET Slot, NEW M \in SUBSET Slot, NEW t \in Thread, Known(L),
           L \subseteq M, Resting(t)', CallInv(t)', tg'[t] = NoPlace \/ tg'[t] = tg[t]
    PROVE  At(M, t)' /\ MeetsOthers(M, t)'
<1>1. SeenInv(L, t)
  BY DEF Known, Content, At
<1>2. SeenInv(M, t)'
  <2>1. CASE tg'[t] = tg[t]
    BY <1>1, <2>1 DEF SeenInv, Resting, Cells, Ends
  <2>2. CASE tg'[t] = NoPlace
    BY <2>2 DEF SeenInv, Resting, Cells, Ends, NoPlace, NoWord
  <2> QED
    BY <2>1, <2>2
<1>3. ~AtPlace(t)' /\ ~CanPoint(t)' /\ ~NotFound(t)' /\ pc'[t] # "link" /\ ~Holding(t)'
  BY DEF AtPlace, CanPoint, NotFound, Holding, Resting
<1>4. PlaceInv(t)'
  BY <1>3 DEF PlaceInv, Resting
<1>5. LinkInv(M, t)' /\ MarkInv(M, t)'
  BY <1>3 DEF LinkInv, MarkInv
<1>6. MeetsOthers(M, t)'
  BY <1>3 DEF MeetsOthers, Meet
<1> QED
  BY <1>2, <1>4, <1>5, <1>6 DEF At

LEMMA RestFollows ==
    ASSUME NEW L \in SUBSET Slot, NEW t \in Thread, Known(L), TypeInv', InsertsBelow,
           UNCHANGED <<next, kd, content>>, OthersStill(t), CallsStay(t), TakesFree(t),
           Resting(t)', CallInv(t)', tg'[t] = NoPlace \/ tg'[t] = tg[t]
    PROVE  Follows(L, L, t)
BY RestAt, QuietFollows
-----------------------------------------------------------------------------
(***************************************************************************)
(* The steps that stand aside.                                             *)
(***************************************************************************)
LEMMA AnswersRests ==
    ASSUME TypeInv, NEW t \in Thread, NEW r, Answers(t, r)
    PROVE  /\ OthersStill(t) /\ CallsStay(t) /\ TakesFree(t) /\ Resting(t)' /\ CallInv(t)'
           /\ tg'[t] = NoPlace /\ content' = content
<1>1. /\ pc'[t] = "idle" /\ call'[t].kind = "idle" /\ tg'[t] = NoPlace /\ content' = content
      /\ \A u \in Thread \ {t} : call'[u] = call[u]
  BY DEF Answers, Goto, Forget, TypeInv, TypeOK
<1>2. OthersStill(t)
  BY AnswersAway
<1>3. Resting(t)' /\ CallInv(t)' /\ TakesFree(t)
  BY <1>1 DEF Resting, CallInv, Deleting, FindPC, TakesFree, Unlinked, Inserting
<1> QED
  BY <1>1, <1>2, <1>3 DEF CallsStay

LEMMA NewCalls ==
    ASSUME NEW t \in Thread, UNCHANGED call, CallInv(t), Deleting(t)' => Deleting(t)
    PROVE  CallInv(t)' /\ CallsStay(t)
BY DEF CallInv, CallsStay

LEMMA AwayTakesNone ==
    ASSUME NEW t \in Thread, Away(t)' PROVE TakesFree(t)
BY DEF Away, TakesFree, Unlinked, Inserting

LEMMA InvokeRests ==
    ASSUME TypeInv, NEW t \in Thread, Invoke(t)
    PROVE  Resting(t)' /\ CallInv(t)' /\ CallsStay(t) /\ content' = content
<1>1. PICK w \in Work[t] :
         /\ call' = [call EXCEPT ![t] = [kind |-> w.kind, key |-> w.key, eff |-> FALSE,
                                         seen |-> {w.key \in content}, res |-> "none"]]
         /\ Goto(t, Start(w.kind))
         /\ my' = [my EXCEPT ![t].ret = IF w.kind = "search" THEN "sfound" ELSE "-"]
  BY DEF Invoke
<1>2. w.kind \in Kind
  BY WorkAssumption
<1>3. pc'[t] = Start(w.kind) /\ my'[t].ret = IF w.kind = "search" THEN "sfound" ELSE "-"
  <2>1. pc'[t] = Start(w.kind)
    BY <1>1 DEF TypeInv, TypeOK, Goto
  <2>2. my'[t] = [my[t] EXCEPT !.ret = IF w.kind = "search" THEN "sfound" ELSE "-"]
    BY <1>1 DEF TypeInv, TypeOK
  <2>3. my[t] \in Local
    BY DEF TypeInv, TypeOK
  <2> QED
    BY <2>1, <2>2, <2>3 DEF Local
<1>4. call'[t].kind = w.kind /\ call'[t].key = w.key /\ \A u \in Thread \ {t} : call'[u] = call[u]
  BY <1>1 DEF TypeInv, TypeOK
<1>5. /\ pc'[t] \in {"fhead", "alloc", "dec", "slave"} /\ (pc'[t] = "dec" => w.kind = "delete")
      /\ my'[t].ret \notin {"ifound", "dfound"}
  BY <1>2, <1>3 DEF Kind, Start
<1>6. Resting(t)' /\ CallInv(t)'
  BY <1>4, <1>5 DEF Resting, CallInv, Deleting
<1> QED
  BY <1>4, <1>6 DEF CallsStay, Invoke

LEMMA GoesToRest ==
    ASSUME TypeInv, NEW t \in Thread, CallInv(t), UNCHANGED call,
           pc'[t] \notin FindPC, pc'[t] \notin {"ifound", "link", "dec", "dmark", "dunlink", "dfound"}
    PROVE  Resting(t)' /\ CallInv(t)' /\ CallsStay(t)
<1>1. Resting(t)'
  BY DEF Resting, FindPC
<1>2. ~Deleting(t)'
  BY DEF Deleting
<1> QED
  BY <1>1, <1>2, NewCalls

LEMMA CallFindRests ==
    ASSUME TypeInv, NEW t \in Thread, CallInv(t), UNCHANGED call,
           NEW m \in Local, NEW r \in Return \ {"ifound"}, CallFind(t, m, r),
           r = "dfound" => Deleting(t)
    PROVE  Resting(t)' /\ CallInv(t)' /\ CallsStay(t) /\ tg'[t] = NoPlace
<1>1. pc'[t] = "fhead" /\ my'[t] = [m EXCEPT !.ret = r, !.found = FALSE] /\ tg'[t] = NoPlace
  BY DEF CallFind, Goto, Forget, TypeInv, TypeOK
<1>2. my'[t].ret = r
  BY <1>1 DEF Local
<1>3. Resting(t)' /\ (Deleting(t)' => Deleting(t))
  BY <1>1, <1>2 DEF Resting, Deleting
<1> QED
  BY <1>1, <1>3, NewCalls

LEMMA AsideRests ==
    ASSUME TypeInv, NEW t \in Thread, CallInv(t), AsideStep(t)
    PROVE  Resting(t)' /\ CallInv(t)' /\ CallsStay(t) /\ content' = content
<1>0. my[t] \in Local /\ pc \in [Thread -> Label]
  BY DEF TypeInv, TypeOK
<1>1. CASE SearchFound(t) \/ InsertCount(t) \/ ClearFound(t) \/ DeleteFixed(t)
  BY <1>1, AnswersRests DEF SearchFound, InsertCount, ClearFound, DeleteFixed
<1>2. CASE FreezeStart(t) \/ FreezeSwitch(t) \/ StabilizeDone(t) \/ Decide(t)
  <2>1. pc'[t] \in {"switch", "mark", "recover", "decide"} /\ UNCHANGED <<call, content>>
    BY <1>0, <1>2 DEF FreezeStart, FreezeSwitch, StabilizeDone, Decide, Goto, history
  <2> QED
    BY <2>1, GoesToRest DEF FindPC
<1>3. CASE ClearHelp(t)
  <2>1. pc'[t] \in {"fault", "frz"} /\ UNCHANGED <<call, content>>
    BY <1>0, <1>3 DEF ClearHelp, CallFreeze, Goto, history
  <2> QED
    BY <2>1, GoesToRest DEF FindPC
<1>4. CASE DeleteCount(t)
  <2>1. UNCHANGED <<call, content>> /\ Deleting(t)
    BY <1>4 DEF DeleteCount, history, Deleting
  <2>2. CASE CallFind(t, my[t], "dfound")
    BY <1>0, <2>1, <2>2, CallFindRests DEF Return
  <2>3. CASE CallFreeze(t, "DELETE")
    <3>1. pc'[t] = "frz"
      BY <1>0, <2>3 DEF CallFreeze, Goto
    <3> QED
      BY <2>1, <3>1, GoesToRest DEF FindPC
  <2> QED
    BY <1>4, <2>2, <2>3 DEF DeleteCount
<1>5. CASE DeleteUndo(t)
  <2>1. pc'[t] = "frz" /\ UNCHANGED <<call, content>>
    BY <1>0, <1>5 DEF DeleteUndo, CallFreeze, Goto, history
  <2> QED
    BY <2>1, GoesToRest DEF FindPC
<1>6. CASE Enslave(t)
  <2>1. pc'[t] \in {"mark", "frz"} /\ UNCHANGED <<call, content>>
    BY <1>0, <1>6 DEF Enslave, CallFreeze, Goto, history
  <2> QED
    BY <2>1, GoesToRest DEF FindPC
<1>7. CASE MarkedAll(t)
  <2>1. UNCHANGED <<call, content>>
    BY <1>7 DEF MarkedAll, history
  <2>2. [my[t] EXCEPT !.scan = 0] \in Local
    BY <1>0, SizeAssumption DEF Local
  <2> QED
    BY <1>7, <2>1, <2>2, CallFindRests DEF MarkedAll, Return
<1>8. CASE Recover(t)
  <2>1. CASE Answers(t, "moved")
    BY <2>1, AnswersRests
  <2>2. CASE CallFind(t, [my[t] EXCEPT !.trig = "-"], "cfound") /\ UNCHANGED history
    <3>1. [my[t] EXCEPT !.trig = "-"] \in Local
      BY <1>0 DEF Local
    <3>2. UNCHANGED <<call, content>>
      BY <2>2 DEF history
    <3> QED
      BY <2>2, <3>1, <3>2, CallFindRests DEF Return
  <2> QED
    BY <1>8, <2>1, <2>2 DEF Recover
<1>9. CASE Invoke(t)
  BY <1>9, InvokeRests
<1> QED
  BY <1>1, <1>2, <1>3, <1>4, <1>5, <1>6, <1>7, <1>8, <1>9 DEF AsideStep

LEMMA AsideFollows ==
    ASSUME NEW L \in SUBSET Slot, NEW t \in Thread, Known(L), TypeInv', InsertsBelow, AsideStep(t)
    PROVE  Follows(L, L, t)
<1>1. TypeInv /\ CallInv(t)
  BY DEF Known, Content, At
<1>2. StandsAside(t)
  BY <1>1, AsideSteps
<1>3. Resting(t)' /\ CallInv(t)' /\ CallsStay(t) /\ content' = content
  BY <1>1, AsideRests
<1> QED
  BY <1>2, <1>3, RestFollows, AwayTakesNone DEF StandsAside

-----------------------------------------------------------------------------
(***************************************************************************)
(* The other steps that only end in a new step of the thread.              *)
(***************************************************************************)
\* t goes on to step l, with what it knows
LEMMA GotoRests ==
    ASSUME TypeInv, NEW t \in Thread, CallInv(t), NEW l \in Label \ FindPC, Goto(t, l),
           l \notin {"ifound", "link", "dec", "dmark", "dunlink", "dfound"},
           UNCHANGED <<tg, my, call>>
    PROVE  OthersStill(t) /\ CallsStay(t) /\ Resting(t)' /\ CallInv(t)' /\ tg'[t] = tg[t]
<1>1. pc'[t] = l /\ \A u \in Thread \ {t} : pc'[u] = pc[u]
  BY DEF Goto, TypeInv, TypeOK
<1> QED
  BY <1>1, GoesToRest DEF OthersStill

LEMMA NextSlotRests ==
    ASSUME TypeInv, NEW t \in Thread, CallInv(t), NextSlot(t), UNCHANGED call
    PROVE  OthersStill(t) /\ CallsStay(t) /\ TakesFree(t) /\ Resting(t)' /\ CallInv(t)'
           /\ (tg'[t] = NoPlace \/ tg'[t] = tg[t])
<1>1. pc'[t] = "slot"
  BY DEF NextSlot, GoToSlot, Goto, TypeInv, TypeOK
<1> QED
  BY <1>1, NextSlotAway, AwayTakesNone, GoesToRest DEF FindPC

\* what a thread inserts remains its own while it goes on to insert
LEMMA SameEntryTaken ==
    ASSUME NEW t \in Thread, Inserting(t) \/ my'[t].trig # "-", my'[t].trig = my[t].trig,
           my'[t].own = my[t].own
    PROVE  TakesFree(t)
BY DEF TakesFree, Unlinked

LEMMA FailedFollows ==
    ASSUME NEW L \in SUBSET Slot, NEW t \in Thread, Known(L), TypeInv', InsertsBelow,
           UNCHANGED <<next, kd, content, call, my, tg>>,
           \/ Inserting(t) /\ Goto(t, "ifrom")
           \/ Inserting(t) /\ Goto(t, "cnext")
           \/ pc[t] \in {"cnext", "ckey"} /\ Goto(t, "chelp")
           \/ pc[t] = "dmark" /\ Goto(t, "dundo")
    PROVE  Follows(L, L, t)
<1>1. TypeInv /\ CallInv(t)
  BY DEF Known, Content, At
<1>2. PICK l \in {"ifrom", "cnext", "chelp", "dundo"} :
         Goto(t, l) /\ (l \in {"ifrom", "cnext"} => Inserting(t))
  OBVIOUS
<1>3. l \in Label \ FindPC
  BY <1>2 DEF Label, FindPC, InsertPC, DeletePC
<1>4. OthersStill(t) /\ CallsStay(t) /\ Resting(t)' /\ CallInv(t)' /\ tg'[t] = tg[t]
  BY <1>1, <1>2, <1>3, GotoRests
<1>5. TakesFree(t)
  <2>1. pc'[t] = l
    BY <1>1, <1>2 DEF Goto, TypeInv, TypeOK
  <2>2. CASE l \in {"ifrom", "cnext"}
    BY <1>2, <2>2, SameEntryTaken
  <2>3. CASE l \notin {"ifrom", "cnext"}
    BY <1>2, <2>1, <2>3 DEF TakesFree, Unlinked, Inserting, FindPC
  <2> QED
    BY <2>2, <2>3
<1> QED
  BY <1>4, <1>5, RestFollows

LEMMA StabilizeNextFollows ==
    ASSUME NEW L \in SUBSET Slot, NEW t \in Thread, Known(L), TypeInv', InsertsBelow,
           StabilizeNext(t)
    PROVE  Follows(L, L, t)
<1>1. TypeInv /\ CallInv(t) /\ my[t] \in Local /\ UNCHANGED <<next, kd, content, call>>
  BY DEF Known, Content, At, StabilizeNext, shared, history, TypeInv, TypeOK
<1>2. PICK s \in Slot : CallFind(t, [my[t] EXCEPT !.scan = s], "slotfound")
  BY DEF StabilizeNext, Pending
<1> DEFINE m == [my[t] EXCEPT !.scan = s]
<1>3. m \in Local
  BY <1>1, SizeAssumption DEF Local, Slot
<1>4. Resting(t)' /\ CallInv(t)' /\ CallsStay(t) /\ tg'[t] = NoPlace
  <2> HIDE DEF m
  <2>1. CallFind(t, m, "slotfound")
    BY <1>2 DEF m
  <2> QED
    BY <1>1, <1>3, <2>1, CallFindRests DEF Return
<1>5. pc'[t] = "fhead" /\ my'[t].ret = "slotfound"
  <2>1. pc'[t] = "fhead" /\ my'[t] = [m EXCEPT !.ret = "slotfound", !.found = FALSE]
    BY <1>1, <1>2 DEF CallFind, Goto, TypeInv, TypeOK
  <2> QED
    BY <1>3, <2>1 DEF Local
<1>6. OthersStill(t)
  BY <1>1, <1>2 DEF OthersStill, CallFind, Goto, Forget, TypeInv, TypeOK
<1>7. TakesFree(t)
  BY <1>5 DEF TakesFree, Unlinked, Inserting, FindPC
<1> QED
  BY <1>1, <1>4, <1>6, <1>7, RestFollows

LEMMA StabilizeFoundFollows ==
    ASSUME NEW L \in SUBSET Slot, NEW t \in Thread, Known(L), TypeInv', InsertsBelow,
           StabilizeFound(t)
    PROVE  Follows(L, L, t)
<1>1. TypeInv /\ CallInv(t) /\ UNCHANGED <<next, kd, content, call>> /\ pc[t] = "slotfound"
  BY DEF Known, Content, At, StabilizeFound, shared, history
<1>2. CASE NextSlot(t)
  BY <1>1, <1>2, NextSlotRests, RestFollows
<1>3. CASE Goto(t, "ifrom") /\ UNCHANGED <<tg, my>>
  <2>1. my[t].trig # "-"
    BY <1>1 DEF TypeInv, ThreadInv, StableInv, Stabilizing, Choosing
  <2>2. TakesFree(t)
    BY <1>3, <2>1, SameEntryTaken
  <2>3. OthersStill(t) /\ CallsStay(t) /\ Resting(t)' /\ CallInv(t)' /\ tg'[t] = tg[t]
    BY <1>1, <1>3, GotoRests DEF Label, FindPC, InsertPC
  <2> QED
    BY <1>1, <2>2, <2>3, RestFollows
<1> QED
  BY <1>2, <1>3 DEF StabilizeFound

LEMMA InsertFromFollows ==
    ASSUME NEW L \in SUBSET Slot, NEW t \in Thread, Known(L), TypeInv', InsertsBelow, InsertFrom(t)
    PROVE  Follows(L, L, t)
<1>1. TypeInv /\ CallInv(t) /\ my[t] \in Local /\ UNCHANGED <<next, kd, content, call>>
      /\ pc[t] = "ifrom" /\ Inserting(t)
  BY DEF Known, Content, At, InsertFrom, shared, history, Inserting, TypeInv, TypeOK
<1>2. Ent(t) \in Slot /\ Ent(t) \in Cell
  BY <1>1, EntryAtHand
<1> DEFINE m == [my[t] EXCEPT !.saved = next[Ent(t)]]
           n == [m EXCEPT !.ret = "ifound", !.found = FALSE]
<1>3. n.ret = "ifound" /\ n.own = my[t].own /\ n.trig = my[t].trig /\ n.scan = my[t].scan
      /\ n.saved = next[Ent(t)]
  BY <1>1 DEF Local
<1>4. pc'[t] = "fhead" /\ my'[t] = n /\ tg'[t] = NoPlace
  BY <1>1 DEF InsertFrom, CallFind, Goto, Forget, TypeInv, TypeOK
<1> HIDE DEF n
<1>5. OthersStill(t)
  BY <1>1 DEF OthersStill, InsertFrom, CallFind, Goto, Forget, TypeInv, TypeOK
<1>6. Ent(t)' = Ent(t) /\ TakesFree(t)
  BY <1>1, <1>3, <1>4, SameEntryTaken DEF Ent
<1>7. ~AtPlace(t)' /\ ~CanPoint(t)' /\ ~NotFound(t)' /\ ~Holding(t)' /\ ~Deleting(t)'
  BY <1>3, <1>4 DEF AtPlace, CanPoint, NotFound, Holding, Deleting
<1>8. At(L, t)' /\ MeetsOthers(L, t)'
  <2>1. CallInv(t)' /\ CallsStay(t)
    BY <1>1, <1>7, NewCalls
  <2>2. SeenInv(L, t)'
    BY <1>4 DEF SeenInv, NoPlace, NoWord, Cells, Ends
  <2>3. PlaceInv(t)'
    BY <1>1, <1>3, <1>4, <1>6, <1>7 DEF PlaceInv, Past
  <2>4. LinkInv(L, t)' /\ MarkInv(L, t)' /\ MeetsOthers(L, t)'
    BY <1>4, <1>7 DEF LinkInv, MarkInv, MeetsOthers, Meet
  <2> QED
    BY <2>1, <2>2, <2>3, <2>4 DEF At
<1>9. CallsStay(t)
  BY <1>1 DEF CallsStay
<1> QED
  BY <1>1, <1>5, <1>6, <1>8, <1>9, QuietFollows

LEMMA DeleteFoundFollows ==
    ASSUME NEW L \in SUBSET Slot, NEW t \in Thread, Known(L), TypeInv', InsertsBelow, DeleteFound(t)
    PROVE  Follows(L, L, t)
<1>1. TypeInv /\ At(L, t) /\ pc[t] = "dfound" /\ UNCHANGED <<next, kd>> /\ my[t] \in Local
  BY DEF Known, Content, DeleteFound, TypeInv, TypeOK
<1>2. CASE Answers(t, "FALSE")
  BY <1>1, <1>2, AnswersRests, RestFollows
<1>3. CASE /\ my[t].found /\ my' = [my EXCEPT ![t].saved = Unmarked(next[tg[t].cur.idx])]
           /\ Goto(t, "dmark") /\ UNCHANGED <<tg, history>>
  <2>1. UNCHANGED <<tg, content, call>> /\ pc'[t] = "dmark" /\ OthersStill(t)
    BY <1>1, <1>3 DEF OthersStill, Goto, history, TypeInv, TypeOK
  <2>2. tg[t].cur.idx # End
    BY <1>1, <1>3 DEF TypeInv, ThreadInv, FindInv
  <2>3. tg[t].cur.idx \in Cell
    BY <1>1, <2>2, PlaceTypes, Indices, Constants
  <2>4. next[tg[t].cur.idx] \in Word
    BY <1>1, <2>3 DEF TypeInv, TypeOK
  <2>5. ~my'[t].saved.del
    <3>1. my'[t] = [my[t] EXCEPT !.saved = Unmarked(next[tg[t].cur.idx])]
      BY <1>1, <1>3 DEF TypeInv, TypeOK
    <3>2. ~Unmarked(next[tg[t].cur.idx]).del
      BY <2>4 DEF Unmarked, Word
    <3> QED
      BY <1>1, <3>1, <3>2 DEF Local
  <2>6. Holding(t) /\ ~AtPlace(t)' /\ ~CanPoint(t)' /\ ~NotFound(t)' /\ pc'[t] \notin FindPC
    BY <1>1, <1>3, <2>1 DEF Holding, AtPlace, CanPoint, NotFound, FindPC
  <2>7. CallInv(t)' /\ CallsStay(t)
    BY <1>1, <2>1, NewCalls DEF At, Deleting
  <2>8. SeenInv(L, t)'
    BY <1>1, <2>1, <2>5 DEF At, SeenInv
  <2>9. PlaceInv(t)' /\ LinkInv(L, t)' /\ MeetsOthers(L, t)'
    BY <2>1, <2>6 DEF PlaceInv, LinkInv, MeetsOthers, Meet
  <2>10. MarkInv(L, t)'
    <3>1. MarkInv(L, t)
      BY <1>1 DEF At
    <3> QED
      BY <1>1, <2>1, <2>6, <3>1 DEF MarkInv, LeadsOn, Live
  <2>11. TakesFree(t)
    BY <2>1 DEF TakesFree, Unlinked, Inserting, FindPC
  <2> QED
    BY <1>1, <2>1, <2>7, <2>8, <2>9, <2>10, <2>11, QuietFollows DEF At
<1> QED
  BY <1>2, <1>3 DEF DeleteFound

-----------------------------------------------------------------------------
(***************************************************************************)
(* After a step: where a key would be, if find has come past the smaller   *)
(* keys and stopped at a larger one.                                       *)
(***************************************************************************)
LEMMA EntUnmarked ==
    ASSUME TypeInv, PrivacyInv, NEW t \in Thread, Inserting(t) PROVE ~next[Ent(t)].del
<1>1. Ent(t) \in Slot
  BY EntryAtHand
<1>2. CASE my[t].trig = "-"
  BY <1>1, <1>2 DEF Ent, PrivacyInv, UnmarkedInv, Private, Unlinked
<1>3. CASE my[t].trig # "-"
  BY <1>3 DEF Ent, Choosing, PrivacyInv, Own, ChosenInv
<1> QED
  BY <1>2, <1>3

LEMMA NewKeys ==
    ASSUME TypeInv', NEW L \in SUBSET Slot, WordsIn(L)'
    PROVE  /\ \A x \in Slot : kd'[x].key \in Int /\ kd'[x].key > 0 /\ x # EntryHead /\ x # End
           /\ \A c \in Cells(L) : c \in Cell /\ KeyOf(c)' \in Int
                                  /\ (next'[c].idx # End => next'[c].idx \in L)
           /\ \A x \in L : KeyOf(x)' = kd'[x].key
           /\ KeyOf(EntryHead)' = 0
<1>1. ASSUME NEW x \in Slot PROVE kd'[x].key \in Int /\ kd'[x].key > 0 /\ x # EntryHead /\ x # End
  BY SizeAssumption DEF TypeInv, TypeOK, KeyWord, NoKey, Slot, End, EntryHead
<1>2. \A c \in Cells(L) : c \in Cell
  BY DEF Cells, Cell
<1>3. \A c \in Cells(L) : next'[c].idx # End => next'[c].idx \in L
  BY <1>2 DEF WordsIn, Ends
<1>4. \A x \in L : KeyOf(x)' = kd'[x].key
  BY <1>1 DEF KeyOf
<1>5. KeyOf(EntryHead)' = 0
  BY DEF KeyOf
<1>6. \A c \in Cells(L) : KeyOf(c)' \in Int
  BY <1>1, <1>4, <1>5 DEF Cells
<1> QED
  BY <1>1, <1>2, <1>3, <1>4, <1>5, <1>6

\* an entry that would come between a cell and its successor is not in the list
LEMMA NotThere ==
    ASSUME NEW L \in SUBSET Slot, TypeInv', ListInv(L)', NEW p \in Cells(L), NEW x \in Live(L)',
           KeyOf(p)' < kd'[x].key, next'[p].idx # End => kd'[x].key < kd'[next'[p].idx].key
    PROVE  FALSE
<1>1. x \in Slot /\ kd'[x].key \in Int
  BY NewKeys DEF ListInv, Live
<1>2. next'[p].idx # End => next'[p].idx \in L /\ kd'[next'[p].idx].key \in Int
  BY NewKeys DEF ListInv
<1>3. next'[p].idx = x \/ (next'[p].idx # End /\ kd'[next'[p].idx].key < kd'[x].key)
  <2>1. LeadsOn(L, KeyOf(p), next[p].idx)'
    BY DEF ListInv, NoSkip, Cells
  <2> QED
    BY <2>1 DEF LeadsOn
<1>4. x # End
  BY <1>1, NewKeys DEF ListInv
<1> QED
  BY <1>1, <1>2, <1>3, <1>4

\* the place of key k is the same for all
LEMMA LowerFirst ==
    ASSUME NEW L \in SUBSET Slot, TypeInv', ListInv(L)', NEW k \in Int,
           NEW p \in Live(L)' \cup {EntryHead}, NEW q \in Live(L)' \cup {EntryHead},
           KeyOf(p)' < k, KeyOf(q)' < k, next'[p].idx # End => k < kd'[next'[p].idx].key
    PROVE  ~(KeyOf(p)' < KeyOf(q)')
<1> SUFFICES ASSUME KeyOf(p)' < KeyOf(q)' PROVE FALSE
  OBVIOUS
<1>1. p \in Cells(L) /\ q \in Cells(L) /\ KeyOf(p)' \in Int /\ KeyOf(q)' \in Int
  <2>1. p \in Cells(L) /\ q \in Cells(L)
    BY DEF Cells, Live
  <2> QED
    BY <2>1, NewKeys DEF ListInv
<1>2. q \in Live(L)'
  <2>1. CASE q = EntryHead
    <3>1. KeyOf(p)' >= 0
      <4>1. CASE p = EntryHead
        BY <4>1, NewKeys DEF ListInv
      <4>2. CASE p \in Live(L)'
        <5>1. p \in Slot /\ p \in L
          BY <4>2 DEF Live
        <5>2. kd'[p].key > 0 /\ KeyOf(p)' = kd'[p].key /\ kd'[p].key \in Int
          BY <5>1, NewKeys DEF ListInv
        <5> QED
          BY <5>2
      <4> QED
        BY <4>1, <4>2
    <3>2. KeyOf(q)' = 0
      BY <2>1, NewKeys DEF ListInv
    <3> QED
      BY <1>1, <3>1, <3>2
  <2> QED
    BY <2>1
<1>3. KeyOf(q)' = kd'[q].key /\ q # End
  <2>1. q \in L /\ q \in Slot
    BY <1>2 DEF Live
  <2> QED
    BY <2>1, NewKeys DEF ListInv
<1>4. next'[p].idx # End => kd'[next'[p].idx].key \in Int
  BY <1>1, NewKeys DEF ListInv
<1>5. next'[p].idx # End => kd'[q].key < kd'[next'[p].idx].key
  BY <1>1, <1>3, <1>4
<1> QED
  BY <1>1, <1>2, <1>3, <1>5, NotThere

LEMMA SamePlace ==
    ASSUME NEW L \in SUBSET Slot, TypeInv', ListInv(L)', NEW k \in Int,
           NEW p \in Live(L)' \cup {EntryHead}, NEW q \in Live(L)' \cup {EntryHead},
           KeyOf(p)' < k, KeyOf(q)' < k,
           next'[p].idx # End => k < kd'[next'[p].idx].key,
           next'[q].idx # End => k < kd'[next'[q].idx].key
    PROVE  p = q
<1>1. KeyOf(p)' \in Int /\ KeyOf(q)' \in Int
  <2>1. p \in Cells(L) /\ q \in Cells(L)
    BY DEF Cells, Live
  <2> QED
    BY <2>1, NewKeys DEF ListInv
<1>2. KeyOf(p)' = KeyOf(q)'
  BY <1>1, LowerFirst
<1>3. \A x \in Live(L)' : x \in L /\ x \in Slot
  BY DEF Live
<1>4. CASE p \in Live(L)' /\ q \in Live(L)'
  BY <1>2, <1>3, <1>4, NewKeys DEF ListInv, Apart
<1>5. \A x \in Live(L)' : KeyOf(x)' # KeyOf(EntryHead)'
  <2> SUFFICES ASSUME NEW x \in Live(L)' PROVE KeyOf(x)' # KeyOf(EntryHead)'
    OBVIOUS
  <2>1. x \in L /\ x \in Slot
    BY <1>3
  <2>2. KeyOf(x)' = kd'[x].key /\ kd'[x].key > 0 /\ kd'[x].key \in Int /\ KeyOf(EntryHead)' = 0
    BY <2>1, NewKeys DEF ListInv
  <2> QED
    BY <2>2
<1> QED
  BY <1>2, <1>4, <1>5

(***************************************************************************)
(* What find has found when it returns.                                    *)
(***************************************************************************)
Arrived(L, t) ==
    /\ next[tg[t].prev].idx = tg[t].cur.idx /\ ~next[tg[t].prev].del
    /\ tg[t].cur.idx \in Live(L) \cup {End}
    /\ tg[t].cur.idx = End \/ next[tg[t].prev] = tg[t].cur
    /\ my[t].found => /\ tg[t].cur.idx # End /\ kd[tg[t].cur.idx].key = Sought(t)
                      /\ LeadsOn(L, kd[tg[t].cur.idx].key, tg[t].next.idx)
    /\ my[t].ret = "ifound" /\ ~my[t].found =>
          (tg[t].cur.idx # End => Sought(t) < kd[tg[t].cur.idx].key)

\* a step of find leaves the call as it is
Finding(t) ==
    /\ pc[t] \in FindPC /\ OthersStill(t) /\ UNCHANGED <<kd, content, call>>
    /\ pc'[t] \in FindPC \/ pc'[t] = my[t].ret
    /\ my'[t].ret = my[t].ret /\ my'[t].own = my[t].own
    /\ my'[t].trig = my[t].trig /\ my'[t].scan = my[t].scan /\ my'[t].saved = my[t].saved
    /\ \A c \in Cell : Advances(c) /\ next'[c].del = next[c].del

LEMMA FindingSame ==
    ASSUME NEW L \in SUBSET Slot, NEW t \in Thread, Known(L), TypeInv', Finding(t)
    PROVE  /\ Ent(t)' = Ent(t) /\ Sought(t)' = Sought(t) /\ my[t].ret \in Return
           /\ CallInv(t)' /\ CallsStay(t)
           /\ (pc'[t] \in FindPC /\ my[t].ret = "ifound") \/ pc'[t] = "ifound" =>
                 Inserting(t) /\ Inserting(t)' /\ Past(Ent(t), my[t].saved)'
           /\ (Deleting(t)' => Deleting(t)) /\ (pc'[t] = "dfound" => my[t].ret = "dfound")
           /\ (pc'[t] = "ifound" => my[t].ret = "ifound")
           /\ pc'[t] \notin {"link", "dmark", "dunlink"}
<1>1. TypeInv /\ CallInv(t) /\ PlaceInv(t) /\ my[t] \in Local
  BY DEF Known, Content, At, TypeInv, TypeOK
<1>2. my[t].ret \in Return
  BY <1>1 DEF TypeInv, ThreadInv, FindInv, Finding, Local
<1>3. Ent(t)' = Ent(t)
  BY DEF Ent, Finding
<1>4. Sought(t)' = Sought(t)
  BY <1>3 DEF Sought, Finding
<1>5. /\ pc'[t] \notin {"link", "dmark", "dunlink"}
      /\ (Deleting(t)' => Deleting(t)) /\ (pc'[t] = "dfound" => my[t].ret = "dfound")
      /\ (pc'[t] = "ifound" => my[t].ret = "ifound")
  BY <1>2 DEF Finding, Return, FindPC, Deleting
<1>6. CallInv(t)' /\ CallsStay(t)
  BY <1>1, <1>5, NewCalls DEF Finding
<1>7. ASSUME (pc'[t] \in FindPC /\ my[t].ret = "ifound") \/ pc'[t] = "ifound"
      PROVE  Inserting(t) /\ Inserting(t)' /\ Past(Ent(t), my[t].saved)'
  <2>1. my[t].ret = "ifound" /\ my'[t].ret = "ifound" /\ Inserting(t)
    BY <1>5, <1>7 DEF Finding, Inserting
  <2>2. Inserting(t)' /\ Past(Ent(t), my[t].saved)
    BY <1>1, <1>7, <2>1 DEF Inserting, PlaceInv, Finding
  <2>3. PICK d \in Cell : d = Ent(t)
    BY <1>1, <2>1, EntryAtHand
  <2>4. PICK v \in Word : v = my[t].saved
    BY <1>1, PlaceTypes
  <2>5. Past(d, v)'
    BY <1>1, <2>2, <2>3, <2>4, PastStays DEF Finding
  <2>6. my'[t].saved = v /\ Ent(t)' = d
    BY <1>3, <2>3, <2>4 DEF Finding
  <2> QED
    BY <2>1, <2>2, <2>5, <2>6 DEF Past, Gone
<1> QED
  BY <1>2, <1>3, <1>4, <1>5, <1>6, <1>7

LEMMA FindAt ==
    ASSUME NEW L \in SUBSET Slot, NEW t \in Thread, Known(L), TypeInv', OrderInv', ListInv(L)',
           Finding(t), SeenInv(L, t)', pc'[t] \notin FindPC => Arrived(L, t)'
    PROVE  At(L, t)' /\ MeetsOthers(L, t)'
<1>1. TypeInv /\ PrivacyInv /\ kd' = kd /\ \A c \in Cell : next'[c].del = next[c].del
  BY DEF Known, Finding
<1>2. /\ Ent(t)' = Ent(t) /\ Sought(t)' = Sought(t) /\ CallInv(t)'
      /\ pc'[t] \notin {"link", "dmark", "dunlink"}
      /\ (pc'[t] = "ifound" => my[t].ret = "ifound")
      /\ (pc'[t] = "dfound" => my[t].ret = "dfound")
  BY FindingSame
<1>3. ASSUME NotFound(t)'
      PROVE  /\ pc[t] \in FindPC /\ pc'[t] \notin FindPC /\ Arrived(L, t)' /\ ~my'[t].found
             /\ Inserting(t) /\ Sought(t) = kd[Ent(t)].key
             /\ Ent(t) \in Slot /\ kd'[Ent(t)].key \in Int
             /\ \E p \in Live(L)' \cup {EntryHead} : p = tg'[t].prev /\ KeyOf(p)' < kd'[Ent(t)].key
             /\ (tg'[t].cur.idx # End => kd'[Ent(t)].key < kd'[tg'[t].cur.idx].key)
             /\ next'[tg'[t].prev].idx = tg'[t].cur.idx
  <2>1. pc'[t] = "ifound" /\ ~my'[t].found /\ pc'[t] \notin FindPC /\ Arrived(L, t)' /\ pc[t] \in FindPC
    BY <1>3 DEF NotFound, FindPC, Finding
  <2>2. Inserting(t) /\ Sought(t) = kd[Ent(t)].key
    BY <1>2, <2>1 DEF Inserting, Sought
  <2>3. Ent(t) \in Slot /\ kd'[Ent(t)].key \in Int
    BY <1>1, <2>2, EntryAtHand, Numbers
  <2>4. tg'[t].prev \in Live(L)' \cup {EntryHead}
    BY <2>1 DEF Arrived, SeenInv, Cells, Live
  <2>5. KeyOf(tg[t].prev)' < kd'[Ent(t)'].key
    BY <2>1 DEF OrderInv, Ordered, Placed, Placing
  <2>6. \E p \in Live(L)' \cup {EntryHead} : p = tg'[t].prev /\ KeyOf(p)' < kd'[Ent(t)].key
    <3>1. PICK p \in Live(L)' \cup {EntryHead} : p = tg'[t].prev
      BY <2>4
    <3>2. KeyOf(p)' < kd'[Ent(t)].key
      BY <1>2, <2>5, <3>1 DEF KeyOf
    <3> QED
      BY <3>1, <3>2
  <2>7. tg'[t].cur.idx # End => kd'[Ent(t)].key < kd'[tg'[t].cur.idx].key
    <3>1. my'[t].ret = "ifound"
      BY <1>2, <2>1 DEF Finding
    <3> QED
      BY <1>1, <1>2, <2>1, <2>2, <3>1 DEF Arrived
  <2>8. next'[tg'[t].prev].idx = tg'[t].cur.idx
    BY <2>1 DEF Arrived
  <2> QED
    BY <2>1, <2>2, <2>3, <2>4, <2>6, <2>7, <2>8
<1>4. PlaceInv(t)'
  <2>1. (pc'[t] \in FindPC /\ my'[t].ret = "ifound") \/ pc'[t] = "ifound" =>
             Past(Ent(t), my[t].saved)'
    BY FindingSame DEF Finding
  <2>2. NotFound(t)' => /\ (tg[t].cur.idx = End \/ Past(tg[t].prev, tg[t].cur))'
                        /\ Below(Ent(t), tg[t].cur.idx)'
    <3> SUFFICES ASSUME NotFound(t)'
                 PROVE  /\ (tg[t].cur.idx = End \/ Past(tg[t].prev, tg[t].cur))'
                        /\ Below(Ent(t), tg[t].cur.idx)'
      OBVIOUS
    <3>1. (tg[t].cur.idx = End \/ Past(tg[t].prev, tg[t].cur))'
      BY <1>3 DEF Arrived, Past
    <3>2. Ent(t)' # EntryHead
      BY <1>2, <1>3 DEF Slot, EntryHead
    <3>3. Below(Ent(t), tg[t].cur.idx)'
      BY <1>2, <1>3, <3>2 DEF Below, KeyOf
    <3> QED
      BY <3>1, <3>3
  <2> QED
    BY <1>2, <2>1, <2>2 DEF PlaceInv
<1>5. LinkInv(L, t)'
  <2>1. ASSUME CanPoint(t)', Ent(t) \in L PROVE FALSE
    <3>1. NotFound(t)'
      BY <2>1 DEF CanPoint, NotFound
    <3>2. ~next'[Ent(t)].del
      BY <1>1, <1>3, <3>1, EntUnmarked DEF Cell
    <3>3. PICK x \in Live(L)' : x = Ent(t)
      BY <2>1, <3>2 DEF Live
    <3>4. PICK p \in Live(L)' \cup {EntryHead} : p = tg'[t].prev /\ KeyOf(p)' < kd'[Ent(t)].key
      BY <1>3, <3>1
    <3>5. p \in Cells(L)
      BY DEF Live, Cells
    <3>6. KeyOf(p)' < kd'[x].key /\ (next'[p].idx # End => kd'[x].key < kd'[next'[p].idx].key)
      BY <1>3, <3>1, <3>3, <3>4
    <3> QED
      BY <3>5, <3>6, NotThere
  <2> QED
    BY <1>2, <2>1 DEF LinkInv, AtPlace
<1>6. MarkInv(L, t)'
  <2>1. ASSUME Holding(t)'
        PROVE  /\ tg'[t].cur.idx # End /\ kd'[tg'[t].cur.idx].key = call'[t].key
               /\ LeadsOn(L, kd[tg[t].cur.idx].key, tg[t].next.idx)'
               /\ pc'[t] # "dunlink"
    <3>1. pc'[t] = "dfound" /\ my'[t].found /\ my'[t].ret = "dfound" /\ pc'[t] \notin FindPC
      BY <1>2, <2>1 DEF Holding, FindPC, Finding
    <3>2. Sought(t)' = call'[t].key
      BY <3>1 DEF Sought
    <3> QED
      BY <3>1, <3>2 DEF Arrived
  <2> QED
    BY <2>1 DEF MarkInv
<1>7. MeetsOthers(L, t)'
  <2>1. ASSUME NEW u \in Thread \ {t}, pc'[u] = "link", CanPoint(t)', Ent(t)' = Ent(u)'
        PROVE  /\ tg'[t].cur.idx \in Live(L)' \cup {End}
               /\ AtPlace(u)' => tg'[t].cur.idx = tg'[u].cur.idx
    <3>1. NotFound(t)'
      BY <2>1 DEF CanPoint, NotFound
    <3>2. tg'[t].cur.idx \in Live(L)' \cup {End}
      BY <1>3, <3>1 DEF Arrived
    <3>3. ASSUME AtPlace(u)' PROVE tg'[t].cur.idx = tg'[u].cur.idx
      <4>1. pc[u] = "link" /\ tg'[u] = tg[u] /\ my'[u] = my[u] /\ next'[tg[u].prev] = tg[u].cur
        BY <2>1, <3>3 DEF Finding, OthersStill, AtPlace
      <4>2. Ent(u)' = Ent(u)
        BY <4>1 DEF Ent
      <4>3. /\ tg[u].prev \in Cells(L) /\ KeyOf(tg[u].prev) < kd[Ent(u)].key
            /\ (tg[u].cur.idx # End => kd[Ent(u)].key < kd[tg[u].cur.idx].key)
        BY <4>1, HandFacts
      <4>4. ~tg[u].cur.del
        BY DEF Known, Content, At, SeenInv
      <4>5. PICK q \in Live(L)' \cup {EntryHead} : q = tg[u].prev
        BY <4>1, <4>3, <4>4 DEF Live, Cells
      <4>6. PICK p \in Live(L)' \cup {EntryHead} : p = tg'[t].prev /\ KeyOf(p)' < kd'[Ent(t)].key
        BY <1>3, <3>1
      <4>7. PICK k \in Int : k = kd'[Ent(t)].key
        BY <1>3, <3>1
      <4>8. KeyOf(p)' < k /\ next'[p].idx = tg'[t].cur.idx /\ (next'[p].idx # End => k < kd'[next'[p].idx].key)
        BY <1>3, <3>1, <4>6, <4>7
      <4>9. KeyOf(q)' < k /\ next'[q].idx = tg[u].cur.idx /\ (next'[q].idx # End => k < kd'[next'[q].idx].key)
        BY <1>1, <1>2, <2>1, <4>1, <4>2, <4>3, <4>5, <4>7 DEF KeyOf
      <4>10. p = q
        BY <4>8, <4>9, SamePlace
      <4> QED
        BY <4>1, <4>8, <4>9, <4>10
    <3> QED
      BY <3>2, <3>3
  <2>2. ASSUME NEW u \in Thread \ {t} PROVE Meet(L, u, t)'
    BY <2>1 DEF Meet
  <2>3. ASSUME NEW u \in Thread \ {t} PROVE Meet(L, t, u)'
    BY <1>2 DEF Meet
  <2> QED
    BY <2>2, <2>3 DEF MeetsOthers
<1> QED
  BY <1>2, <1>4, <1>5, <1>6, <1>7 DEF At

\* find only reads
LEMMA FindReadFollows ==
    ASSUME NEW L \in SUBSET Slot, NEW t \in Thread, Known(L), TypeInv', OrderInv', InsertsBelow,
           Finding(t), next' = next, SeenInv(L, t)', pc'[t] \notin FindPC => Arrived(L, t)'
    PROVE  Follows(L, L, t)
<1>1. TypeInv /\ ListInv(L) /\ kd' = kd /\ content' = content
  BY DEF Known, Content, Finding
<1>2. Inserting(t)' /\ my'[t].trig = "-" => Inserting(t) /\ my[t].trig = "-"
  <2>1. pc'[t] \notin {"ifrom", "link"} /\ my'[t].ret = my[t].ret /\ my'[t].trig = my[t].trig
    BY FindingSame DEF Finding, Return, FindPC
  <2>2. pc'[t] = "ifound" \/ (pc'[t] \in FindPC /\ my[t].ret = "ifound") => Inserting(t)
    BY FindingSame
  <2> QED
    BY <2>1, <2>2 DEF Inserting
<1>3. TakesFree(t)
  <2>1. pc'[t] \notin {"cnext", "ckey"}
    BY FindingSame DEF Finding, Return, FindPC
  <2> QED
    BY <1>2, <2>1 DEF TakesFree, Unlinked, Finding
<1>4. ListInv(L)'
  <2>1. Live(L)' = Live(L) /\ KeysIn(Live(L))' = KeysIn(Live(L)) /\ AllFrozen' = AllFrozen
        /\ \A c : KeyOf(c)' = KeyOf(c)
    BY <1>1 DEF Live, KeysIn, KeyOf, AllFrozen, KeyFrozen
  <2>2. WordsIn(L)' /\ MarkedIn(L)' /\ Waiting(L)' /\ Apart(L)' /\ Holds(L)' /\ NoSkip(L)'
    BY <1>1, <2>1 DEF ListInv, WordsIn, MarkedIn, Waiting, Apart, Holds, NoSkip, LeadsOn
  <2>3. FreesOwn(t) /\ OthersStill(t)
    BY <1>1 DEF FreesOwn, Finding
  <2>4. Linked(L)'
    BY <1>1, <1>3, <2>1, <2>3, PrivateStays DEF ListInv, Linked
  <2> QED
    BY <2>2, <2>4 DEF ListInv
<1>5. At(L, t)' /\ MeetsOthers(L, t)'
  BY <1>4, FindAt
<1>6. OthersStill(t) /\ CallsStay(t)
  BY FindingSame DEF Finding
<1> QED
  BY <1>1, <1>3, <1>5, <1>6, QuietFollows

-----------------------------------------------------------------------------
(***************************************************************************)
(* The steps of find that only read.                                       *)
(***************************************************************************)
LEMMA FindReads ==
    ASSUME TypeInv, NEW t \in Thread, pc[t] \in FindPC, UNCHANGED <<kd, content, call>>,
           \/ \E b \in BOOLEAN : FindReturns(t, b)
           \/ UNCHANGED my /\ (UNCHANGED pc \/ \E l \in FindPC : Goto(t, l)),
           \A u \in Thread \ {t} : tg'[u] = tg[u],
           \A c \in Cell : Advances(c) /\ next'[c].del = next[c].del
    PROVE  Finding(t)
<1>1. my'[t].saved = my[t].saved
  <2>1. my[t] \in Local
    BY DEF TypeInv, TypeOK
  <2>2. ASSUME NEW b \in BOOLEAN, FindReturns(t, b) PROVE my'[t].saved = my[t].saved
    <3>1. my'[t] = [my[t] EXCEPT !.found = b]
      BY <2>2 DEF FindReturns, TypeInv, TypeOK
    <3> QED
      BY <2>1, <3>1 DEF Local
  <2> QED
    BY <2>2
<1> QED
  BY <1>1, FindMy DEF Finding, OthersStill

LEMMA ReadOnly ==
    ASSUME next' = next
    PROVE  \A c \in Cell : Advances(c) /\ next'[c].del = next[c].del
BY DEF Advances

LEMMA ReturnsTo ==
    ASSUME TypeInv, NEW t \in Thread, pc[t] \in FindPC, NEW b \in BOOLEAN, FindReturns(t, b)
    PROVE  pc'[t] = my[t].ret /\ pc'[t] \notin FindPC /\ pc'[t] # "dmark" /\ my'[t].found = b
           /\ my'[t].ret = my[t].ret
<1>1. my[t].ret \in Return
  BY PlaceTypes DEF TypeInv, ThreadInv, FindInv
<1>2. pc'[t] = my[t].ret
  BY DEF FindReturns, Goto, TypeInv, TypeOK
<1>3. my'[t].found = b /\ my'[t].ret = my[t].ret
  BY FindReturnsEffect DEF TypeInv
<1> QED
  BY <1>1, <1>2, <1>3 DEF Return, FindPC

LEMMA FindHeadFollows ==
    ASSUME NEW L \in SUBSET Slot, NEW t \in Thread, Known(L), TypeInv', OrderInv', InsertsBelow,
           FindHead(t)
    PROVE  Follows(L, L, t)
<1> DEFINE h == next[EntryHead]
<1>1. /\ TypeInv /\ pc[t] \in FindPC /\ UNCHANGED <<next, kd, content, call>>
      /\ tg'[t] = [prev |-> EntryHead, cur |-> h, next |-> NoWord]
      /\ \A u \in Thread \ {t} : tg'[u] = tg[u]
  BY DEF Known, FindHead, shared, history, FindPC, TypeInv, TypeOK
<1>2. tg'[t].prev = EntryHead /\ tg'[t].cur = h /\ tg'[t].next.idx = End
  BY <1>1 DEF NoWord
<1>3. h.idx \in Ends(L) /\ ~h.del
  BY Constants DEF Known, Content, ListInv, WordsIn, MarkedIn
<1>4. \/ FindReturns(t, FALSE) /\ h.idx = End
      \/ Goto(t, "fnext") /\ UNCHANGED my
  BY DEF FindHead
<1>5. Finding(t)
  BY <1>1, <1>4, FindReads, ReadOnly DEF FindPC
<1>6. pc'[t] \notin {"funlink", "dmark"} /\ (pc'[t] \notin FindPC => h.idx = End /\ ~my'[t].found)
  <2>1. CASE FindReturns(t, FALSE) /\ h.idx = End
    BY <1>1, <2>1, ReturnsTo DEF FindPC
  <2>2. CASE Goto(t, "fnext")
    BY <1>1, <2>2 DEF Goto, TypeInv, TypeOK, FindPC
  <2> QED
    BY <1>4, <2>1, <2>2
<1>7. SeenInv(L, t)'
  BY <1>2, <1>3, <1>6 DEF SeenInv, Cells, Ends
<1>8. pc'[t] \notin FindPC => Arrived(L, t)'
  BY <1>1, <1>2, <1>3, <1>6 DEF Arrived
<1> QED
  BY <1>1, <1>5, <1>7, <1>8, FindReadFollows

LEMMA FindNextFollows ==
    ASSUME NEW L \in SUBSET Slot, NEW t \in Thread, Known(L), TypeInv', OrderInv', InsertsBelow,
           FindNext(t)
    PROVE  Follows(L, L, t)
<1> DEFINE c == tg[t].cur.idx
           w == next[c]
           k == kd[c].key = Sought(t)
<1>1. /\ TypeInv /\ pc[t] = "fnext" /\ pc[t] \in FindPC /\ UNCHANGED <<next, kd, content, call>>
      /\ SeenInv(L, t) /\ ListInv(L)
  BY DEF Known, Content, At, FindNext, shared, history, FindPC
<1>2. c \in Slot /\ c \in Cell /\ \A u \in Thread \ {t} : tg'[u] = tg[u]
  BY <1>1, FindNextMoves
<1>3. c \in L /\ c # End /\ tg[t] \in Place /\ w.idx \in Ends(L)
  BY <1>1, <1>2, SizeAssumption DEF SeenInv, Ends, Slot, End, TypeInv, TypeOK, Place, ListInv, WordsIn
<1>4. CASE Goto(t, "fhead") /\ UNCHANGED <<tg, my>>
  <2>1. pc'[t] = "fhead" /\ pc'[t] \in FindPC
    BY <1>1, <1>4 DEF Goto, TypeInv, TypeOK, FindPC
  <2>2. SeenInv(L, t)'
    BY <1>1, <1>4, <2>1 DEF SeenInv
  <2>3. Finding(t)
    BY <1>1, <1>2, <1>4, FindReads, ReadOnly DEF FindPC
  <2> QED
    BY <1>1, <2>1, <2>2, <2>3, FindReadFollows
<1>5. CASE /\ w.del /\ tg' = [tg EXCEPT ![t].next = w]
           /\ Goto(t, "funlink") /\ UNCHANGED my
  <2>1. pc'[t] = "funlink" /\ pc'[t] \in FindPC
    BY <1>1, <1>5 DEF Goto, TypeInv, TypeOK, FindPC
  <2>2. tg'[t].prev = tg[t].prev /\ tg'[t].cur = tg[t].cur /\ tg'[t].next = w
    BY <1>3, <1>5 DEF TypeInv, TypeOK, Place
  <2>3. SeenInv(L, t)'
    BY <1>1, <1>3, <1>5, <2>1, <2>2 DEF SeenInv
  <2>4. Finding(t)
    BY <1>1, <1>2, <1>5, FindReads, ReadOnly DEF FindPC
  <2> QED
    BY <1>1, <2>1, <2>3, <2>4, FindReadFollows
<1>6. CASE /\ next[tg[t].prev] = tg[t].cur /\ ~w.del /\ StopsAt(kd[c].key, Sought(t))
           /\ tg' = [tg EXCEPT ![t].next = w] /\ FindReturns(t, k)
  <2>1. pc'[t] = my[t].ret /\ pc'[t] \notin FindPC /\ pc'[t] # "dmark" /\ my'[t].found = k
        /\ my'[t].ret = my[t].ret
    BY <1>1, <1>6, ReturnsTo
  <2>2. tg'[t].prev = tg[t].prev /\ tg'[t].cur = tg[t].cur /\ tg'[t].next = w
    BY <1>3, <1>6 DEF TypeInv, TypeOK, Place
  <2>3. SeenInv(L, t)'
    BY <1>1, <1>3, <1>6, <2>1, <2>2 DEF SeenInv, FindPC
  <2>4. Finding(t)
    BY <1>1, <1>2, <1>6, FindReads, ReadOnly
  <2>5. c \in Live(L)' /\ ~next[tg[t].prev].del
    BY <1>1, <1>3, <1>6 DEF Live, SeenInv
  <2>6. LeadsOn(L, kd[c].key, w.idx)
    BY <1>1, <1>2, <1>3, CellsAre DEF ListInv, NoSkip, Cells
  <2>7. LeadsOn(L, kd[tg[t].cur.idx].key, tg[t].next.idx)'
    BY <1>1, <2>2, <2>6 DEF LeadsOn, Live
  <2>8. ASSUME my[t].ret = "ifound", ~k PROVE Sought(t) < kd[c].key
    <3>1. Sought(t) = kd[Ent(t)].key /\ Inserting(t)
      BY <1>1, <2>8 DEF Sought, Inserting
    <3>2. Sought(t) \in Int /\ kd[c].key \in Int
      BY <1>1, <1>2, <3>1, EntryAtHand, Numbers
    <3> QED
      BY <1>6, <2>8, <3>2 DEF StopsAt
  <2>9. Sought(t)' = Sought(t)
    BY <2>4, FindingSame
  <2>10. Arrived(L, t)'
    BY <1>1, <1>3, <1>6, <2>1, <2>2, <2>5, <2>7, <2>8, <2>9 DEF Arrived
  <2> QED
    BY <1>1, <2>3, <2>4, <2>10, FindReadFollows
<1>7. CASE /\ next[tg[t].prev] = tg[t].cur /\ ~w.del
           /\ tg' = [tg EXCEPT ![t] = [prev |-> c, cur |-> w, next |-> w]]
           /\ IF w.idx = End THEN FindReturns(t, FALSE) ELSE UNCHANGED <<pc, my>>
  <2>1. tg'[t].prev = c /\ tg'[t].cur = w /\ tg'[t].next = w
    BY <1>7 DEF TypeInv, TypeOK
  <2>2. pc'[t] \notin {"funlink", "dmark"} /\ (pc'[t] \notin FindPC => w.idx = End /\ ~my'[t].found)
    <3>1. CASE w.idx = End
      BY <1>1, <1>7, <3>1, ReturnsTo DEF FindPC
    <3>2. CASE w.idx # End
      BY <1>1, <1>7, <3>2
    <3> QED
      BY <3>1, <3>2
  <2>3. SeenInv(L, t)'
    BY <1>3, <1>7, <2>1, <2>2 DEF SeenInv, Cells
  <2>4. Finding(t)
    BY <1>1, <1>2, <1>7, FindReads, ReadOnly
  <2>5. pc'[t] \notin FindPC => Arrived(L, t)'
    BY <1>1, <1>7, <2>1, <2>2 DEF Arrived
  <2> QED
    BY <1>1, <2>3, <2>4, <2>5, FindReadFollows
<1> QED
  BY <1>4, <1>5, <1>6, <1>7 DEF FindNext

-----------------------------------------------------------------------------
(***************************************************************************)
(* A marked entry m is bypassed: its predecessor p goes on to i.           *)
(***************************************************************************)
LEMMA RedirectWords ==
    ASSUME TypeInv, NEW p \in Cell, NEW i \in 0 .. MaxEntries,
           next' = [next EXCEPT ![p] = Bump(next[p], i)]
    PROVE  /\ next'[p].idx = i /\ next'[p].ver > next[p].ver
           /\ next'[p].frz = next[p].frz /\ next'[p].del = next[p].del
           /\ \A c \in Cell : c # p => next'[c] = next[c]
           /\ \A c \in Cell : next'[c].del = next[c].del /\ Advances(c)
<1>1. next[p] \in Word /\ next[p].ver \in Nat
  BY WordTypes
<1>2. next'[p] = Bump(next[p], i) /\ \A c \in Cell : c # p => next'[c] = next[c]
  BY DEF TypeInv, TypeOK
<1>3. /\ Bump(next[p], i).idx = i /\ Bump(next[p], i).ver = next[p].ver + 1
      /\ Bump(next[p], i).frz = next[p].frz /\ Bump(next[p], i).del = next[p].del
  BY <1>1 DEF Bump, Word
<1>4. /\ next'[p].idx = i /\ next'[p].ver > next[p].ver
      /\ next'[p].frz = next[p].frz /\ next'[p].del = next[p].del
  BY <1>1, <1>2, <1>3
<1>5. ASSUME NEW c \in Cell PROVE next'[c].del = next[c].del /\ Advances(c)
  <2>1. CASE c = p
    BY <1>4, <2>1 DEF Advances
  <2>2. CASE c # p
    BY <1>2, <2>2 DEF Advances
  <2> QED
    BY <2>1, <2>2
<1> QED
  BY <1>2, <1>4, <1>5

LEMMA BypassFacts ==
    ASSUME NEW L \in SUBSET Slot, NEW t \in Thread, Known(L), TypeInv',
           NEW p \in Cells(L), NEW m \in L, NEW i \in Ends(L),
           next[p].idx = m, ~next[p].del, next[m].del, LeadsOn(L, kd[m].key, i),
           next' = [next EXCEPT ![p] = Bump(next[p], i)], UNCHANGED <<kd, content>>,
           OthersStill(t), CallsStay(t), TakesFree(t)
    PROVE  /\ ListInv(L)' /\ Onward(L, L, t) /\ Undisturbed(L, L, t) /\ StaysClean(L, L)
           /\ \A c \in Cell : Advances(c) /\ next'[c].del = next[c].del
<1>1. TypeInv /\ ListInv(L) /\ p \in Cell /\ m \in Slot /\ i \in 0 .. MaxEntries
      /\ L \subseteq Cell
  BY CellsAre, SizeAssumption DEF Known, Content, Ends, End, Slot, Cell
<1>2. /\ next'[p].idx = i /\ next'[p].ver > next[p].ver
      /\ next'[p].frz = next[p].frz /\ next'[p].del = next[p].del
      /\ \A c \in Cell : c # p => next'[c] = next[c]
      /\ \A c \in Cell : next'[c].del = next[c].del /\ Advances(c)
  BY <1>1, RedirectWords
<1>3. /\ Live(L)' = Live(L) /\ KeysIn(Live(L))' = KeysIn(Live(L))
      /\ \A c : KeyOf(c)' = KeyOf(c)
  BY <1>1, <1>2 DEF Live, KeysIn, KeyOf
<1>4. AllFrozen => AllFrozen'
  BY <1>1, <1>2 DEF AllFrozen, KeyFrozen
<1>5. \A x \in Live(L) : x \in L /\ x \in Slot /\ x # m /\ kd[x].key \in Int /\ KeyOf(x) = kd[x].key
  BY <1>1, CellsAre DEF Live
<1>6. kd[m].key \in Int /\ KeyOf(p) \in Int /\ m # End /\ KeyOf(p) < kd[m].key
  BY <1>1, CellsAre, Numbers DEF Known, OrderInv, ListSorted
<1>7. LeadsOn(L, KeyOf(p), i)
  <2> SUFFICES ASSUME NEW x \in Live(L), kd[x].key > KeyOf(p)
               PROVE  i = x \/ (i # End /\ kd[i].key < kd[x].key)
    BY DEF LeadsOn
  <2>1. kd[m].key < kd[x].key
    BY <1>1, <1>5 DEF ListInv, NoSkip, LeadsOn
  <2> QED
    BY <1>5, <1>6, <2>1 DEF LeadsOn
<1>8. ListInv(L)'
  <2>1. WordsIn(L)'
    BY <1>1, <1>2 DEF ListInv, WordsIn, Ends
  <2>2. MarkedIn(L)'
    BY <1>1, <1>2, Constants DEF ListInv, MarkedIn
  <2>3. Waiting(L)' /\ Apart(L)' /\ Holds(L)'
    BY <1>1, <1>3 DEF ListInv, Waiting, Apart, Holds
  <2>4. NoSkip(L)'
    <3> SUFFICES ASSUME NEW c \in Cells(L) PROVE LeadsOn(L, KeyOf(c), next[c].idx)'
      BY DEF NoSkip, Cells
    <3>1. c \in Cell
      BY <1>1, CellsAre
    <3>2. CASE c = p
      BY <1>2, <1>3, <1>7, <3>2 DEF LeadsOn
    <3>3. CASE c # p
      BY <1>1, <1>2, <1>3, <3>1, <3>3 DEF LeadsOn, ListInv, NoSkip
    <3> QED
      BY <3>2, <3>3
  <2>5. Linked(L)'
    <3>1. FreesOwn(t)
      BY DEF FreesOwn
    <3> QED
      BY <1>1, <1>4, <3>1, PrivateStays DEF ListInv, Linked
  <2> QED
    BY <2>1, <2>2, <2>3, <2>4, <2>5 DEF ListInv
<1>9. Onward(L, L, t)
  <2>1. \A c \in Cell : next[c].del => next'[c].del /\ next'[c].idx = next[c].idx
    BY <1>2
  <2>2. KeysStay(t)
    BY DEF KeysStay
  <2> QED
    BY <1>2, <1>3, <1>4, <2>1, <2>2 DEF Onward
<1>10. Undisturbed(L, L, t)
  <2> SUFFICES ASSUME NEW u \in Thread \ {t}, pc[u] = "link", Ent(u) \notin L
               PROVE  next'[Ent(u)].idx = next[Ent(u)].idx
    BY DEF Undisturbed, StillLeads
  <2>1. Ent(u) \in Slot /\ Ent(u) \in Cell
    BY HandFacts
  <2>2. Ent(u) # p
    BY <2>1, Numbers, <1>1 DEF Cells
  <2> QED
    BY <1>2, <2>1, <2>2
<1>11. StaysClean(L, L)
  <2>1. ASSUME NEW b \in Int, CleanTo(L, b), KeyOf(p) < b PROVE FALSE
    <3>1. p \in Live(L) \cup {EntryHead}
      BY DEF Cells, Live
    <3>2. m \in Live(L)
      BY <1>6, <2>1, <3>1 DEF CleanTo
    <3> QED
      BY <1>5, <3>2
  <2>2. ASSUME NEW b \in Int, CleanTo(L, b) PROVE CleanTo(L, b)'
    <3> SUFFICES ASSUME NEW c \in Live(L) \cup {EntryHead}, KeyOf(c) < b
                 PROVE  next'[c].idx \in Live(L) \cup {End}
      BY <1>3 DEF CleanTo
    <3>1. c # p /\ c \in Cell
      BY <1>5, <2>1, <2>2 DEF Cell
    <3> QED
      BY <1>2, <2>2, <3>1 DEF CleanTo
  <2>3. ASSUME CleanTo(L, NoKey) PROVE \A c \in Live(L) \cup {EntryHead} : next'[c].idx = next[c].idx
    <3>1. NoKey \in Int /\ KeyOf(p) < NoKey
      <4>1. kd[m].key <= NoKey /\ NoKey \in Int
        BY <1>1, SizeAssumption DEF TypeInv, TypeOK, KeyWord, NoKey
      <4> QED
        BY <1>6, <4>1
    <3>2. FALSE
      BY <2>1, <2>3, <3>1
    <3> QED
      BY <3>2
  <2> QED
    BY <2>2, <2>3 DEF StaysClean
<1> QED
  BY <1>2, <1>8, <1>9, <1>10, <1>11

LEMMA FindUnlinkFollows ==
    ASSUME NEW L \in SUBSET Slot, NEW t \in Thread, Known(L), TypeInv', OrderInv', InsertsBelow,
           FindUnlink(t)
    PROVE  Follows(L, L, t)
<1>1. /\ TypeInv /\ pc[t] = "funlink" /\ pc[t] \in FindPC /\ UNCHANGED <<kd, content, call>>
      /\ SeenInv(L, t) /\ ListInv(L) /\ tg[t] \in Place /\ tg[t].cur.idx # End
  BY DEF Known, Content, At, FindUnlink, history, FindPC, TypeInv, TypeOK, Place, ThreadInv, FindInv
<1>2. \A u \in Thread \ {t} : tg'[u] = tg[u]
  BY <1>1, FindUnlinkMoves
<1>3. CASE Goto(t, "fhead") /\ UNCHANGED <<next, tg, my>>
  <2>1. pc'[t] = "fhead" /\ pc'[t] \in FindPC
    BY <1>1, <1>3 DEF Goto, TypeInv, TypeOK, FindPC
  <2>2. SeenInv(L, t)'
    BY <1>1, <1>3, <2>1 DEF SeenInv
  <2>3. Finding(t)
    BY <1>1, <1>2, <1>3, FindReads, ReadOnly DEF FindPC
  <2> QED
    BY <1>1, <1>3, <2>1, <2>2, <2>3, FindReadFollows
<1>4. CASE /\ next[tg[t].prev] = tg[t].cur
           /\ next' = [next EXCEPT ![tg[t].prev] = Bump(tg[t].cur, tg[t].next.idx)]
           /\ tg' = [tg EXCEPT ![t].cur = [tg[t].next EXCEPT !.del = FALSE]]
           /\ IF tg[t].next.idx = End THEN FindReturns(t, FALSE)
                                      ELSE Goto(t, "fnext") /\ UNCHANGED my
  <2>1. PICK p \in Cells(L) : p = tg[t].prev
    BY <1>1 DEF SeenInv
  <2>2. PICK m \in L : m = tg[t].cur.idx
    BY <1>1 DEF SeenInv, Ends
  <2>3. PICK i \in Ends(L) : i = tg[t].next.idx
    BY <1>1 DEF SeenInv
  <2>4. /\ next[p].idx = m /\ ~next[p].del /\ next[m].del /\ next[m].idx = i
        /\ next' = [next EXCEPT ![p] = Bump(next[p], i)]
    BY <1>1, <1>4, <2>1, <2>2, <2>3 DEF SeenInv
  <2>5. LeadsOn(L, kd[m].key, i)
    BY <1>1, <2>4, CellsAre DEF ListInv, NoSkip, Cells
  <2>6. p \in Cell /\ i \in 0 .. MaxEntries
    BY <1>1, <2>3, CellsAre, PlaceTypes DEF Word
  <2>7. \A c \in Cell : Advances(c) /\ next'[c].del = next[c].del
    BY <1>1, <2>4, <2>6, RedirectWords
  <2>8. Finding(t)
    BY <1>1, <1>2, <1>4, <2>7, FindReads DEF FindPC
  <2>9. tg'[t].prev = p /\ tg'[t].cur.idx = i /\ ~tg'[t].cur.del /\ tg'[t].next.idx = i
    <3>1. tg'[t] = [tg[t] EXCEPT !.cur = [tg[t].next EXCEPT !.del = FALSE]]
      BY <1>1, <1>4 DEF TypeInv, TypeOK
    <3>2. tg[t].next \in Word
      BY <1>1, PlaceTypes
    <3>3. [tg[t].next EXCEPT !.del = FALSE].idx = i /\ ~[tg[t].next EXCEPT !.del = FALSE].del
      BY <2>3, <3>2 DEF Word
    <3> QED
      BY <1>1, <2>1, <2>3, <3>1, <3>3 DEF Place
  <2>10. pc'[t] \notin {"funlink", "dmark"} /\ (pc'[t] \notin FindPC => i = End /\ ~my'[t].found)
    <3>1. CASE i = End
      BY <1>1, <1>4, <2>3, <3>1, ReturnsTo DEF FindPC
    <3>2. CASE i # End
      BY <1>1, <1>4, <2>3, <3>2 DEF Goto, TypeInv, TypeOK, FindPC
    <3> QED
      BY <3>1, <3>2
  <2>11. SeenInv(L, t)'
    BY <2>9, <2>10 DEF SeenInv, Cells, Ends
  <2>12. pc'[t] \notin FindPC => Arrived(L, t)'
    <3>1. next'[p].idx = i /\ ~next'[p].del
      BY <1>1, <2>4, <2>6, RedirectWords
    <3> QED
      BY <2>9, <2>10, <3>1 DEF Arrived
  <2>13. OthersStill(t) /\ CallsStay(t)
    BY <2>8, FindingSame DEF Finding
  <2>14. TakesFree(t)
    <3>1. pc'[t] \notin {"cnext", "ckey", "ifrom", "link"} /\ my'[t].ret = my[t].ret
          /\ my'[t].trig = my[t].trig /\ my'[t].own = my[t].own
      BY <2>8, FindingSame DEF Finding, Return, FindPC
    <3>2. pc'[t] = "ifound" \/ (pc'[t] \in FindPC /\ my[t].ret = "ifound") => Inserting(t)
      BY <2>8, FindingSame
    <3> QED
      BY <3>1, <3>2 DEF TakesFree, Unlinked, Inserting
  <2>15. ListInv(L)' /\ Onward(L, L, t) /\ Undisturbed(L, L, t) /\ StaysClean(L, L)
    BY <1>1, <2>4, <2>5, <2>13, <2>14, BypassFacts
  <2>16. At(L, t)' /\ MeetsOthers(L, t)'
    BY <2>8, <2>11, <2>12, <2>15, FindAt
  <2> QED
    BY <2>15, <2>16, ContentKeeps DEF Follows
<1> QED
  BY <1>3, <1>4 DEF FindUnlink

LEMMA DeleteUnlinkFollows ==
    ASSUME NEW L \in SUBSET Slot, NEW t \in Thread, Known(L), TypeInv', InsertsBelow,
           DeleteUnlink(t)
    PROVE  Follows(L, L, t)
<1>1. /\ TypeInv /\ pc[t] = "dunlink" /\ UNCHANGED kd /\ At(L, t) /\ SeenInv(L, t)
      /\ MarkInv(L, t) /\ Holding(t) /\ my[t] \in Local
  BY DEF Known, Content, At, DeleteUnlink, Holding, TypeInv, TypeOK
<1>2. CASE CallFind(t, my[t], "dfix") /\ UNCHANGED <<next, history>>
  <2>1. UNCHANGED <<call, content>>
    BY <1>2 DEF history
  <2>2. Resting(t)' /\ CallInv(t)' /\ CallsStay(t) /\ tg'[t] = NoPlace
    BY <1>1, <1>2, <2>1, CallFindRests DEF Return, At
  <2>3. OthersStill(t) /\ TakesFree(t)
    BY <1>1, <1>2, CallFindAway, AwayTakesNone DEF Return
  <2> QED
    BY <1>1, <1>2, <2>1, <2>2, <2>3, RestFollows
<1>3. CASE /\ next[tg[t].prev] = tg[t].cur
           /\ next' = [next EXCEPT ![tg[t].prev] = Bump(tg[t].cur, tg[t].next.idx)]
           /\ Answers(t, "TRUE")
  <2>1. PICK p \in Cells(L) : p = tg[t].prev
    BY <1>1 DEF SeenInv
  <2>2. PICK m \in L : m = tg[t].cur.idx
    BY <1>1 DEF SeenInv, Ends, MarkInv
  <2>3. PICK i \in Ends(L) : i = tg[t].next.idx
    BY <1>1 DEF SeenInv
  <2>4. /\ next[p].idx = m /\ ~next[p].del /\ next[m].del /\ LeadsOn(L, kd[m].key, i)
        /\ next' = [next EXCEPT ![p] = Bump(next[p], i)]
    BY <1>1, <1>3, <2>1, <2>2, <2>3 DEF SeenInv, MarkInv
  <2>5. /\ OthersStill(t) /\ CallsStay(t) /\ TakesFree(t) /\ Resting(t)' /\ CallInv(t)'
        /\ tg'[t] = NoPlace /\ content' = content
    BY <1>1, <1>3, AnswersRests
  <2>6. ListInv(L)' /\ Onward(L, L, t) /\ Undisturbed(L, L, t) /\ StaysClean(L, L)
    BY <1>1, <2>4, <2>5, BypassFacts
  <2>7. At(L, t)' /\ MeetsOthers(L, t)'
    BY <2>5, RestAt
  <2> QED
    BY <2>6, <2>7, ContentKeeps DEF Follows
<1> QED
  BY <1>2, <1>3 DEF DeleteUnlink

-----------------------------------------------------------------------------
(***************************************************************************)
(* An entry is pointed at its successor.  It may be linked already, by     *)
(* another thread that stabilises the chunk, and then leads there anyway;  *)
(* or another thread is about to link it, and wants it to lead there.      *)
(***************************************************************************)
LEMMA PointFollows ==
    ASSUME NEW L \in SUBSET Slot, NEW t \in Thread, Known(L), TypeInv', InsertsBelow,
           CanPoint(t), next' = [next EXCEPT ![Ent(t)] = Bump(my[t].saved, tg[t].cur.idx)],
           Goto(t, "link"), UNCHANGED <<kd, tg, my, content, call>>
    PROVE  Follows(L, L, t)
<1>1. /\ TypeInv /\ PrivacyInv /\ ListInv(L) /\ At(L, t) /\ SeenInv(L, t) /\ PlaceInv(t) /\ LinkInv(L, t)
      /\ pc[t] = "ifound" /\ NotFound(t) /\ Inserting(t) /\ next[Ent(t)] = my[t].saved
  BY DEF Known, Content, At, CanPoint, NotFound, Inserting
<1>2. PICK e \in Slot : e = Ent(t) /\ e \in Cell /\ ~next[e].del
  BY <1>1, EntryAtHand, EntUnmarked
<1>3. PICK i \in Ends(L) : i = tg[t].cur.idx
  BY <1>1 DEF SeenInv
<1>4. i \in 0 .. MaxEntries /\ next' = [next EXCEPT ![e] = Bump(next[e], i)]
  BY <1>1, <1>2, <1>3, PlaceTypes DEF Word
<1>5. /\ next'[e].idx = i /\ next'[e].ver > next[e].ver
      /\ next'[e].frz = next[e].frz /\ next'[e].del = next[e].del
      /\ \A c \in Cell : c # e => next'[c] = next[c]
      /\ \A c \in Cell : next'[c].del = next[c].del /\ Advances(c)
  BY <1>1, <1>2, <1>4, RedirectWords
<1>6. e \in L => next[e].idx = i
  BY <1>1, <1>2, <1>3 DEF LinkInv
<1>7. pc'[t] = "link" /\ \A u \in Thread \ {t} : pc'[u] = pc[u]
  BY <1>1 DEF Goto, TypeInv, TypeOK
<1>8. OthersStill(t) /\ CallsStay(t) /\ Ent(t)' = e
  BY <1>2, <1>7 DEF OthersStill, CallsStay, Ent
<1>9. /\ Live(L)' = Live(L) /\ KeysIn(Live(L))' = KeysIn(Live(L))
      /\ \A c : KeyOf(c)' = KeyOf(c)
      /\ L \subseteq Cell /\ Cells(L) \subseteq Cell
  BY <1>1, <1>5, CellsAre DEF Live, KeysIn, KeyOf, Cell
<1>10. AllFrozen => AllFrozen'
  BY <1>2, <1>5 DEF AllFrozen, KeyFrozen
<1>11. \A c \in Cells(L) : next'[c].idx = next[c].idx
  <2> SUFFICES ASSUME NEW c \in Cells(L) PROVE next'[c].idx = next[c].idx
    OBVIOUS
  <2>1. c \in Cell /\ e # EntryHead
    BY <1>1, <1>9, Numbers
  <2>2. CASE c = e
    BY <1>5, <1>6, <2>1, <2>2 DEF Cells
  <2>3. CASE c # e
    BY <1>5, <2>1, <2>3
  <2> QED
    BY <2>2, <2>3
<1>12. ListInv(L)'
  <2>1. WordsIn(L)'
    BY <1>1, <1>3, <1>5 DEF ListInv, WordsIn
  <2>2. MarkedIn(L)'
    BY <1>1, <1>5, Constants DEF ListInv, MarkedIn
  <2>3. Waiting(L)' /\ Apart(L)' /\ Holds(L)' /\ NoSkip(L)'
    BY <1>1, <1>9, <1>11 DEF ListInv, Waiting, Apart, Holds, NoSkip, LeadsOn, Cells
  <2>4. FreesOwn(t) /\ TakesFree(t)
    BY <1>1, SameEntryTaken DEF FreesOwn
  <2>5. Linked(L)'
    BY <1>1, <1>8, <1>10, <2>4, PrivateStays DEF ListInv, Linked
  <2> QED
    BY <2>1, <2>2, <2>3, <2>5 DEF ListInv
<1>13. Onward(L, L, t)
  <2>1. \A c \in Cell : next[c].del => next'[c].del /\ next'[c].idx = next[c].idx
    BY <1>2, <1>5
  <2>2. KeysStay(t)
    BY DEF KeysStay
  <2> QED
    BY <1>5, <1>8, <1>9, <1>10, <2>1, <2>2 DEF Onward
<1>14. Undisturbed(L, L, t)
  <2> SUFFICES ASSUME NEW u \in Thread \ {t}, pc[u] = "link", Ent(u) \notin L
               PROVE  \/ next'[Ent(u)].idx = next[Ent(u)].idx
                      \/ /\ AllFrozen' /\ next'[Ent(u)].idx \in Live(L)' \cup {End}
                         /\ AtPlace(u)' => next'[Ent(u)].idx = tg[u].cur.idx
    BY DEF Undisturbed, StillLeads
  <2>1. Ent(u) \in Cell /\ Inserting(u) /\ tg[u].prev \in Cells(L)
    BY HandFacts
  <2>2. CASE Ent(u) # e
    BY <1>5, <2>1, <2>2
  <2>3. CASE Ent(u) = e
    <3>1. Meet(L, u, t)
      BY DEF Known, Content
    <3>2. i \in Live(L) \cup {End} /\ (AtPlace(u) => i = tg[u].cur.idx)
      BY <1>2, <1>3, <2>3, <3>1 DEF Meet
    <3>3. AllFrozen
      BY <1>1, <1>2, <2>1, <2>3, TwoInserting
    <3>4. tg[u].prev # e /\ tg[u].prev \in Cell
      BY <1>1, <1>9, <2>1, <2>3, Numbers DEF Cells
    <3>5. AtPlace(u)' => AtPlace(u)
      BY <1>5, <1>7, <3>4 DEF AtPlace
    <3> QED
      BY <1>5, <1>9, <1>10, <2>3, <3>2, <3>3, <3>5
  <2> QED
    BY <2>2, <2>3
<1>15. At(L, t)'
  <2>1. CallInv(t)'
    BY <1>1, <1>7, NewCalls DEF At, Deleting, FindPC
  <2>2. SeenInv(L, t)'
    BY <1>1, <1>7 DEF SeenInv
  <2>3. PlaceInv(t)'
    <3>1. tg[t].cur.idx = End \/ Past(tg[t].prev, tg[t].cur)
      BY <1>1 DEF PlaceInv
    <3>2. PICK d \in Cell : d = tg[t].prev
      BY <1>1, PlaceTypes
    <3>3. PICK v \in Word : v = tg[t].cur
      BY <1>1, PlaceTypes
    <3>4. Past(d, v) => Past(d, v)'
      BY <1>1, <1>5, PastStays
    <3>5. (tg[t].cur.idx = End \/ Past(tg[t].prev, tg[t].cur))'
      BY <3>1, <3>2, <3>3, <3>4 DEF Past, Gone
    <3>6. Below(Ent(t), tg[t].cur.idx)'
      BY <1>1, <1>2, <1>8 DEF PlaceInv, Below, KeyOf
    <3> QED
      BY <1>7, <3>5, <3>6 DEF PlaceInv, FindPC
  <2>4. LinkInv(L, t)'
    BY <1>3, <1>5, <1>7, <1>8 DEF LinkInv, CanPoint, NotFound
  <2>5. MarkInv(L, t)'
    BY <1>7 DEF MarkInv, Holding
  <2> QED
    BY <2>1, <2>2, <2>3, <2>4, <2>5 DEF At
<1>16. MeetsOthers(L, t)'
  <2>1. ASSUME NEW u \in Thread \ {t}, CanPoint(u)' PROVE Ent(u)' # e
    <3>1. CanPoint(u) /\ next'[Ent(u)] = next[Ent(u)] /\ Ent(u)' = Ent(u)
      BY <1>13, <2>1, StillCanPoint
    <3>2. next[e].ver \in Nat /\ next'[e].ver \in Nat
      BY <1>1, <1>2 DEF TypeInv, TypeOK, Word
    <3> QED
      BY <1>5, <3>1, <3>2
  <2>2. ASSUME NEW u \in Thread \ {t} PROVE Meet(L, t, u)'
    BY <1>8, <2>1 DEF Meet
  <2>3. ASSUME NEW u \in Thread \ {t} PROVE Meet(L, u, t)'
    BY <1>7 DEF Meet, CanPoint, NotFound
  <2> QED
    BY <2>2, <2>3 DEF MeetsOthers
<1>17. StaysClean(L, L)
  <2>1. Live(L) \cup {EntryHead} \subseteq Cells(L)
    BY DEF Live, Cells
  <2> QED
    BY <1>9, <1>11, <2>1 DEF StaysClean, CleanTo
<1> QED
  BY <1>12, <1>13, <1>14, <1>15, <1>16, <1>17, ContentKeeps DEF Follows

LEMMA InsertFoundFollows ==
    ASSUME NEW L \in SUBSET Slot, NEW t \in Thread, Known(L), TypeInv', InsertsBelow, InsertFound(t)
    PROVE  Follows(L, L, t)
<1>1. TypeInv /\ CallInv(t) /\ Inserting(t) /\ kd' = kd
  BY DEF Known, Content, At, InsertFound, Inserting
<1>2. CASE NextSlot(t) /\ UNCHANGED <<next, history>>
  BY <1>1, <1>2, NextSlotRests, RestFollows DEF history
<1>3. CASE Answers(t, "TRUE") /\ UNCHANGED next
  BY <1>1, <1>3, AnswersRests, RestFollows
<1>4. CASE Goto(t, "cnext") /\ UNCHANGED <<next, tg, my, history>>
  BY <1>1, <1>4, FailedFollows DEF history
<1>5. CASE Goto(t, "ifrom") /\ UNCHANGED <<next, tg, my, history>>
  BY <1>1, <1>5, FailedFollows DEF history
<1>6. CASE /\ ~my[t].found /\ next[Ent(t)] = my[t].saved
           /\ next' = [next EXCEPT ![Ent(t)] = Bump(my[t].saved, Ahead(t))]
           /\ Goto(t, "link") /\ UNCHANGED <<tg, my, history>>
  <2>1. CanPoint(t)
    BY <1>6 DEF CanPoint, NotFound, InsertFound
  <2> QED
    BY <1>1, <1>6, <2>1, PointFollows DEF Ahead, history
<1> QED
  BY <1>2, <1>3, <1>4, <1>5, <1>6 DEF InsertFound

-----------------------------------------------------------------------------
(***************************************************************************)
(* An entry is linked.  Its predecessor p is not marked, so that no other  *)
(* live entry leads past the new one; no marked entry does, because its    *)
(* key is not smaller (InsertsBelow).                                      *)
(***************************************************************************)
LEMMA PlaceFacts ==
    ASSUME NEW L \in SUBSET Slot, NEW t \in Thread, Known(L), AtPlace(t)
    PROVE  \E p \in Live(L) \cup {EntryHead}, e \in Slot, i \in Ends(L) :
              /\ p = tg[t].prev /\ e = Ent(t) /\ i = tg[t].cur.idx
              /\ p \in Cell /\ e \in Cell /\ e \notin L /\ e # p /\ e # EntryHead /\ e # End
              /\ ~next[p].del /\ ~next[e].del /\ kd[e].key # NoKey
              /\ next[p] = tg[t].cur /\ next[p].idx = i /\ next[e].idx = i
              /\ KeyOf(p) \in Int /\ kd[e].key \in Int /\ KeyOf(e) = kd[e].key
              /\ KeyOf(p) < kd[e].key
              /\ (i # End => kd[i].key \in Int /\ kd[e].key < kd[i].key)
              /\ \A x \in Live(L) : kd[x].key # kd[e].key
              /\ kd[e].key \in InsertKeys /\ Inserting(t)
<1>1. /\ TypeInv /\ PrivacyInv /\ ListInv(L) /\ SeenInv(L, t) /\ LinkInv(L, t)
      /\ pc[t] = "link" /\ Inserting(t) /\ next[tg[t].prev] = tg[t].cur
  BY DEF Known, Content, At, AtPlace, Inserting
<1>2. PICK e \in Slot : /\ e = Ent(t) /\ e \in Cell /\ ~next[e].del /\ kd[e].key \in Key
                        /\ kd[e].key \in Int
  BY <1>1, EntryAtHand, EntUnmarked, Numbers
<1>3. PICK i \in Ends(L) : i = tg[t].cur.idx
  BY <1>1 DEF SeenInv
<1>4. PICK p \in Live(L) \cup {EntryHead} : p = tg[t].prev /\ p \in Cell /\ p \in Cells(L)
  <2>1. ~next[tg[t].prev].del
    BY <1>1 DEF SeenInv
  <2>2. tg[t].prev \in Cells(L) /\ tg[t].prev \in Cell
    BY <1>1, CellsAre DEF SeenInv
  <2> QED
    BY <2>1, <2>2 DEF Cells, Live
<1>5. ~next[p].del /\ next[p] = tg[t].cur /\ next[p].idx = i
  BY <1>1, <1>3, <1>4 DEF SeenInv
<1>6. KeyOf(p) \in Int /\ KeyOf(p) < kd[e].key /\ \A x \in L : kd[x].key \in Int
  BY <1>1, <1>2, <1>4, HandFacts
<1>7. i # End => kd[i].key \in Int /\ kd[e].key < kd[i].key
  BY <1>1, <1>2, <1>3, HandFacts
<1>8. ASSUME NEW x \in Live(L), kd[x].key = kd[e].key PROVE FALSE
  <2>1. i = x \/ (i # End /\ kd[i].key < kd[x].key)
    BY <1>1, <1>4, <1>5, <1>6, <1>8 DEF ListInv, NoSkip, LeadsOn
  <2>2. x # End
    BY <1>1, CellsAre DEF Live
  <2> QED
    BY <1>2, <1>7, <1>8, <2>1, <2>2
<1>9. e \notin L
  BY <1>2, <1>8 DEF Live
<1>10. next[e].idx = i
  BY <1>1, <1>2, <1>3, <1>9 DEF LinkInv
<1>11. kd[e].key # NoKey
  BY <1>2, SizeAssumption DEF NoKey, Key
<1>12. kd[e].key \in InsertKeys
  BY <1>1, <1>9, <1>11 DEF ListInv, Waiting
<1>13. e # p /\ e # EntryHead /\ e # End /\ KeyOf(e) = kd[e].key
  BY <1>1, <1>9, Numbers DEF Live
<1> QED
  BY <1>1, <1>2, <1>3, <1>4, <1>5, <1>6, <1>7, <1>8, <1>9, <1>10, <1>11, <1>12, <1>13

LEMMA LinkList ==
    ASSUME NEW L \in SUBSET Slot, NEW t \in Thread, Known(L), TypeInv', PrivacyInv', InsertsBelow,
           NEW p \in Live(L) \cup {EntryHead}, NEW e \in Slot, NEW i \in Ends(L),
           p \in Cell, e \in Cell, e \notin L, e # p, e # EntryHead, e # End,
           ~next[e].del, kd[e].key # NoKey, next[p].idx = i, next[e].idx = i,
           KeyOf(p) \in Int, kd[e].key \in Int, KeyOf(e) = kd[e].key, KeyOf(p) < kd[e].key,
           i # End => kd[i].key \in Int /\ kd[e].key < kd[i].key,
           \A x \in Live(L) : kd[x].key # kd[e].key, kd[e].key \in InsertKeys,
           next' = [next EXCEPT ![p] = Bump(next[p], e)], kd' = kd,
           content' = content \cup {kd[e].key}, OthersStill(t), TakesFree(t)
    PROVE  ListInv(L \cup {e})' /\ Live(L \cup {e})' = Live(L) \cup {e}
<1> DEFINE M == L \cup {e}
<1>1. TypeInv /\ ListInv(L) /\ e \in 0 .. MaxEntries
  BY SizeAssumption DEF Known, Content, Slot
<1>2. /\ next'[p].idx = e /\ next'[p].frz = next[p].frz
      /\ \A c \in Cell : c # p => next'[c] = next[c]
      /\ \A c \in Cell : next'[c].del = next[c].del
  BY <1>1, RedirectWords
<1>3. /\ L \subseteq Cell /\ Cells(L) \subseteq Cell /\ Cells(M) = Cells(L) \cup {e} /\ End \notin L
      /\ \A x \in L : kd[x].key \in Int /\ KeyOf(x) = kd[x].key
      /\ \A c \in Cells(L) : KeyOf(c) \in Int
  BY <1>1, CellsAre DEF Cells, Cell
<1>4. Live(M)' = Live(L) \cup {e} /\ \A c : KeyOf(c)' = KeyOf(c)
  BY <1>2, <1>3 DEF Live, KeyOf
<1>5. \A x \in Live(L) : x \in L /\ ~next[x].del
  BY DEF Live
<1>6. WordsIn(M)'
  BY <1>1, <1>2 DEF ListInv, WordsIn, Ends
<1>7. MarkedIn(M)'
  BY <1>1, <1>2, Constants DEF ListInv, MarkedIn
<1>8. Waiting(M)' /\ Apart(M)' /\ Holds(M)'
  <2>1. Waiting(M)'
    BY <1>1 DEF ListInv, Waiting
  <2>2. Apart(M)'
    BY <1>1, <1>4 DEF ListInv, Apart
  <2>3. Holds(M)'
    <3>1. KeysIn(Live(M))' = KeysIn(Live(L)) \cup {kd[e].key}
      BY <1>4 DEF KeysIn
    <3> QED
      BY <1>1, <3>1 DEF ListInv, Holds
  <2> QED
    BY <2>1, <2>2, <2>3
<1>9. Linked(M)'
  <2>1. AllFrozen => AllFrozen'
    BY <1>2 DEF AllFrozen, KeyFrozen
  <2>2. ASSUME NEW s \in L, Private(s)' PROVE AllFrozen'
    <3>1. FreesOwn(t) /\ kd[s].key # NoKey
      BY <1>1 DEF FreesOwn, ListInv, Linked
    <3> QED
      BY <1>1, <2>1, <2>2, <3>1, PrivateStays DEF ListInv, Linked
  <2>3. Private(e)' => AllFrozen'
    <3>1. Referenced(e)'
      BY <1>2 DEF Referenced
    <3> QED
      BY <3>1 DEF PrivacyInv, HiddenInv
  <2> QED
    BY <1>1, <2>2, <2>3 DEF ListInv, Linked
<1>10. NoSkip(M)'
  <2> SUFFICES ASSUME NEW c \in Cells(M), NEW x \in Live(M)', kd[x].key > KeyOf(c)
               PROVE  next'[c].idx = x \/ (next'[c].idx # End /\ kd[next'[c].idx].key < kd[x].key)
    BY <1>4 DEF NoSkip, LeadsOn, Cells
  <2>0. kd[x].key \in Int /\ x # End
    BY <1>3, <1>4, <1>5
  <2>1. ASSUME NEW d \in Cells(L), x \in Live(L), kd[x].key > KeyOf(d)
        PROVE  next[d].idx = x \/ (next[d].idx # End /\ kd[next[d].idx].key < kd[x].key)
    BY <1>1, <2>1 DEF ListInv, NoSkip, LeadsOn
  <2>2. p \in Cells(L)
    BY <1>5 DEF Cells
  <2>3. CASE c = p
    <3>1. CASE x = e
      BY <1>2, <2>3, <3>1
    <3>2. CASE x \in Live(L)
      <4>1. i = x \/ (i # End /\ kd[i].key < kd[x].key)
        BY <2>1, <2>2, <2>3, <3>2
      <4>2. kd[e].key < kd[x].key
        BY <2>0, <4>1
      <4> QED
        BY <1>2, <2>3, <4>2
    <3> QED
      BY <1>4, <3>1, <3>2
  <2>4. CASE c = e
    <3>0. kd[x].key > kd[e].key
      BY ONLY <2>4, KeyOf(e) = kd[e].key, kd[x].key > KeyOf(c), Zenon
    <3>1. x # e
      BY <2>0, <3>0
    <3>2. x \in Live(L)
      BY <1>4, <3>1
    <3>3. kd[x].key > KeyOf(p)
      BY <2>0, <3>0
    <3>4. i = x \/ (i # End /\ kd[i].key < kd[x].key)
      BY <2>1, <2>2, <3>2, <3>3
    <3>5. next'[c].idx = i
      BY <1>2, <2>4
    <3> QED
      BY <3>4, <3>5
  <2>5. CASE c # p /\ c \in Cells(L)
    <3>1. next'[c] = next[c] /\ KeyOf(c) \in Int
      <4>1. c \in Cell
        BY <1>3, <2>5
      <4>2. KeyOf(c) \in Int
        BY <1>3, <2>5
      <4> QED
        BY <1>2, <2>5, <4>1, <4>2
    <3>2. CASE x \in Live(L)
      BY <2>1, <2>5, <3>1, <3>2
    <3>3. CASE x = e
      <4>1. ~next[c].del
        <5>1. CASE c = EntryHead
          BY <1>1, <5>1 DEF ListInv, MarkedIn
        <5>2. CASE c \in L
          <6>1. next[c].del => kd[e].key <= kd[c].key
            BY <1>1, <5>2 DEF ListInv, MarkedIn
          <6>2. kd[c].key \in Int /\ KeyOf(c) = kd[c].key
            BY <1>3, <5>2
          <6> QED
            BY <3>3, <6>1, <6>2
        <5> QED
          BY <2>5, <5>1, <5>2 DEF Cells
      <4>2. ~(KeyOf(p) < KeyOf(c))
        <5> SUFFICES ASSUME KeyOf(p) < KeyOf(c) PROVE FALSE
          OBVIOUS
        <5>1. c # EntryHead
          <6>1. KeyOf(p) >= 0
            BY <1>1, Numbers, KeysPositive DEF Cells
          <6>2. KeyOf(EntryHead) = 0
            BY <1>1, Numbers
          <6> QED
            BY <6>1, <6>2
        <5>2. c \in Live(L) /\ KeyOf(c) = kd[c].key /\ c # End
          BY <1>3, <2>5, <4>1, <5>1 DEF Cells, Live
        <5>3. i = c \/ (i # End /\ kd[i].key < kd[c].key)
          BY <1>1, <2>2, <5>2 DEF ListInv, NoSkip, LeadsOn
        <5> QED
          BY <3>1, <3>3, <5>2, <5>3
      <4>3. KeyOf(p) # KeyOf(c)
        <5>1. \A y \in Live(L) : KeyOf(y) # 0
          BY <1>1, <1>3, <1>5, KeysPositive
        <5>2. KeyOf(EntryHead) = 0
          BY <1>1, Numbers
        <5>3. c \in Live(L) \cup {EntryHead}
          BY <2>5, <4>1 DEF Cells, Live
        <5> QED
          BY <1>1, <1>3, <1>5, <2>5, <5>1, <5>2, <5>3 DEF ListInv, Apart
      <4>4. KeyOf(c) < KeyOf(p)
        BY <3>1, <4>2, <4>3
      <4>5. p \in Live(L)
        <5>1. KeyOf(c) >= 0
          BY <1>1, <1>3, <2>5, KeysPositive
        <5>2. KeyOf(EntryHead) = 0
          BY <1>1, Numbers
        <5> QED
          BY <3>1, <4>4, <5>1, <5>2
      <4>6. KeyOf(p) = kd[p].key
        BY <1>3, <1>5, <4>5
      <4>7. next[c].idx = p \/ (next[c].idx # End /\ kd[next[c].idx].key < kd[p].key)
        BY <1>1, <2>5, <4>4, <4>5, <4>6 DEF ListInv, NoSkip, LeadsOn
      <4>8. next[c].idx # End /\ kd[next[c].idx].key \in Int
        <5>1. next[c].idx # End
          BY <1>3, <1>5, <4>5, <4>7
        <5>2. next[c].idx \in L
          BY <1>1, <1>3, <2>5, <5>1 DEF ListInv, WordsIn, Ends
        <5> QED
          BY <1>3, <5>1, <5>2
      <4> QED
        BY <3>1, <3>3, <4>6, <4>7, <4>8
    <3> QED
      BY <1>4, <3>2, <3>3
  <2> QED
    BY <1>3, <2>3, <2>4, <2>5
<1> QED
  BY <1>4, <1>6, <1>7, <1>8, <1>9, <1>10 DEF ListInv

LEMMA LinkOnward ==
    ASSUME NEW L \in SUBSET Slot, NEW t \in Thread, Known(L),
           NEW p \in Live(L) \cup {EntryHead}, NEW e \in Slot, NEW i \in Ends(L),
           p \in Cell, e \in Cell, e \notin L, e # p, ~next[p].del, ~next[e].del,
           kd[e].key # NoKey, kd[e].key \in InsertKeys, next[p].idx = i, next[e].idx = i,
           KeyOf(p) \in Int, kd[e].key \in Int, KeyOf(e) = kd[e].key, KeyOf(p) < kd[e].key,
           \A x \in Live(L) : kd[x].key # kd[e].key,
           next' = [next EXCEPT ![p] = Bump(next[p], e)], kd' = kd,
           OthersStill(t), CallsStay(t), Live(L \cup {e})' = Live(L) \cup {e}
    PROVE  Onward(L, L \cup {e}, t) /\ StaysClean(L, L \cup {e})
<1> DEFINE M == L \cup {e}
<1>1. TypeInv /\ ListInv(L) /\ e \in 0 .. MaxEntries
  BY SizeAssumption DEF Known, Content, Slot
<1>2. /\ next'[p].idx = e /\ next'[p].frz = next[p].frz
      /\ \A c \in Cell : c # p => next'[c] = next[c]
      /\ \A c \in Cell : next'[c].del = next[c].del /\ Advances(c)
  BY <1>1, RedirectWords
<1>3. AllFrozen => AllFrozen'
  BY <1>1, <1>2 DEF AllFrozen, KeyFrozen
<1>4. Onward(L, M, t)
  <2>1. \A c \in Cell : next[c].del => next'[c].del /\ next'[c].idx = next[c].idx
    BY <1>2
  <2>2. KeysStay(t)
    BY DEF KeysStay
  <2>3. \A x \in Live(M)' : x \in Live(L) \/ kd'[x].key \in InsertKeys
    OBVIOUS
  <2> QED
    BY <1>2, <1>3, <2>1, <2>2, <2>3 DEF Onward
<1>5. ASSUME NEW b \in Int, CleanTo(L, b) PROVE CleanTo(M, b)'
  <2>0. \A c : KeyOf(c)' = KeyOf(c)
    BY DEF KeyOf
  <2> SUFFICES ASSUME NEW c \in Live(L) \cup {e, EntryHead}, KeyOf(c) < b
               PROVE  next'[c].idx \in Live(L) \cup {e, End}
    BY <2>0 DEF CleanTo
  <2>1. c \in Cell
    BY DEF Live, Cell
  <2>2. CASE c = p
    BY <1>2, <2>2
  <2>3. CASE c = e
    <3>1. KeyOf(p) < b
      BY <2>3
    <3>2. i \in Live(L) \cup {End}
      BY <1>5, <3>1 DEF CleanTo
    <3> QED
      BY <1>2, <2>1, <2>3, <3>2
  <2>4. CASE c # p /\ c # e
    <3>1. next[c].idx \in Live(L) \cup {End}
      BY <1>5, <2>4 DEF CleanTo
    <3> QED
      BY <1>2, <2>1, <2>4, <3>1
  <2> QED
    BY <2>2, <2>3, <2>4
<1>6. ~Complete(MaxEntries)
  <2>1. e < MaxEntries
    BY SizeAssumption DEF Slot
  <2>2. kd[e].key \notin content
    BY <1>1 DEF ListInv, Holds, KeysIn
  <2> QED
    BY <2>1, <2>2 DEF Complete
<1> QED
  BY <1>4, <1>5, <1>6 DEF StaysClean

\* the entry at hand is linked
Links(t) ==
    /\ AtPlace(t)
    /\ next' = [next EXCEPT ![tg[t].prev] = Bump(tg[t].cur, Ent(t))]
    /\ TakesEffect(Owners(Ent(t)), content \cup {kd[Ent(t)].key})
    /\ IF my[t].trig = "-" THEN Goto(t, "inc") /\ UNCHANGED <<tg, my>>
                           ELSE NextSlot(t)
    /\ UNCHANGED <<kd, counter, fstate, todo>>

LEMMA EffectOn ==
    ASSUME NEW E, NEW C, TakesEffect(E, C) PROVE content' = C /\ settled' = settled
BY Zenon DEF TakesEffect

LEMMA LinkedFollows ==
    ASSUME NEW L \in SUBSET Slot, NEW t \in Thread, Known(L), TypeInv', PrivacyInv', InsertsBelow,
           Links(t)
    PROVE  \E e \in Slot \ L :
              /\ e = Ent(t) /\ ~next[e].del /\ kd[e].key # NoKey
              /\ \A x \in Live(L) : kd[x].key # kd[e].key
              /\ Follows(L, L \cup {e}, t) /\ Live(L \cup {e})' = Live(L) \cup {e}
<1>1. /\ TypeInv /\ CallInv(t) /\ Inserting(t) /\ pc[t] = "link" /\ kd' = kd /\ my[t] \in Local
  BY DEF Known, Content, At, Links, AtPlace, Inserting, TypeInv, TypeOK
<1>2. /\ next[tg[t].prev] = tg[t].cur
      /\ next' = [next EXCEPT ![tg[t].prev] = Bump(tg[t].cur, Ent(t))]
      /\ TakesEffect(Owners(Ent(t)), content \cup {kd[Ent(t)].key})
      /\ IF my[t].trig = "-" THEN Goto(t, "inc") /\ UNCHANGED <<tg, my>>
                             ELSE NextSlot(t)
  BY DEF Links, AtPlace
<1>3. AtPlace(t)
  BY DEF Links
<1>4. PICK p \in Live(L) \cup {EntryHead}, e \in Slot, i \in Ends(L) :
            /\ p = tg[t].prev /\ e = Ent(t) /\ i = tg[t].cur.idx
            /\ p \in Cell /\ e \in Cell /\ e \notin L /\ e # p /\ e # EntryHead /\ e # End
            /\ ~next[p].del /\ ~next[e].del /\ kd[e].key # NoKey
            /\ next[p] = tg[t].cur /\ next[p].idx = i /\ next[e].idx = i
            /\ KeyOf(p) \in Int /\ kd[e].key \in Int /\ KeyOf(e) = kd[e].key
            /\ KeyOf(p) < kd[e].key
            /\ (i # End => kd[i].key \in Int /\ kd[e].key < kd[i].key)
            /\ \A x \in Live(L) : kd[x].key # kd[e].key
            /\ kd[e].key \in InsertKeys /\ Inserting(t)
  BY <1>3, PlaceFacts
<1>5. next' = [next EXCEPT ![p] = Bump(next[p], e)] /\ content' = content \cup {kd[e].key}
  <2>1. content' = content \cup {kd[Ent(t)].key}
    BY <1>2, EffectOn
  <2>2. p = tg[t].prev /\ e = Ent(t) /\ next[p] = tg[t].cur
    BY <1>4
  <2> QED
    BY <1>2, <2>1, <2>2
<1>6. \A u \in Thread : call'[u].kind = call[u].kind /\ call'[u].key = call[u].key
  <2>1. content \cup {kd[Ent(t)].key} \in SUBSET Key
    <3>1. content' = content \cup {kd[Ent(t)].key} /\ content' \in SUBSET Key
      BY <1>2, EffectOn DEF TypeInv, TypeOK
    <3> QED
      BY <3>1
  <2> QED
    BY <1>1, <1>2, <2>1, TakesEffectFine DEF CallsFine
<1>7. /\ OthersStill(t) /\ Resting(t)' /\ ~Deleting(t)' /\ TakesFree(t)
      /\ tg'[t] = NoPlace \/ tg'[t] = tg[t]
  <2>1. CASE my[t].trig = "-"
    <3>1. pc'[t] = "inc" /\ UNCHANGED <<tg, my>> /\ OthersStill(t)
      BY <1>1, <1>2, <2>1 DEF Goto, OthersStill, TypeInv, TypeOK
    <3> QED
      BY <3>1 DEF Resting, Deleting, FindPC, TakesFree, Unlinked, Inserting
  <2>2. CASE my[t].trig # "-"
    <3>1. pc'[t] = "slot"
      BY <1>1, <1>2, <2>2 DEF NextSlot, GoToSlot, Goto, TypeInv, TypeOK
    <3>2. OthersStill(t) /\ Away(t)' /\ (tg'[t] = NoPlace \/ tg'[t] = tg[t])
      BY <1>1, <1>2, <2>2, NextSlotAway
    <3> QED
      BY <3>1, <3>2, AwayTakesNone DEF Resting, Deleting, FindPC
  <2> QED
    BY <2>1, <2>2
<1>8. CallInv(t)' /\ CallsStay(t)
  BY <1>1, <1>6, <1>7 DEF CallInv, CallsStay
<1> DEFINE M == L \cup {e}
<1>9. M \in SUBSET Slot /\ L \subseteq M
  OBVIOUS
<1>10. ListInv(M)' /\ Live(M)' = Live(L) \cup {e}
  <2>1. i # End => kd[i].key \in Int /\ kd[e].key < kd[i].key
    BY ONLY <1>4
  <2>2. /\ p \in Cell /\ e \in Cell /\ e \notin L /\ e # p /\ e # EntryHead /\ e # End
        /\ ~next[e].del /\ kd[e].key # NoKey /\ next[p].idx = i /\ next[e].idx = i
        /\ KeyOf(p) \in Int /\ kd[e].key \in Int /\ KeyOf(e) = kd[e].key
        /\ KeyOf(p) < kd[e].key /\ kd[e].key \in InsertKeys
        /\ \A x \in Live(L) : kd[x].key # kd[e].key
    BY ONLY <1>4
  <2>3. OthersStill(t) /\ TakesFree(t) /\ kd' = kd
    BY ONLY <1>1, <1>7
  <2> QED
    BY <1>5, <2>1, <2>2, <2>3, LinkList
<1>11. Onward(L, M, t) /\ StaysClean(L, M)
  BY <1>1, <1>4, <1>5, <1>7, <1>8, <1>10, LinkOnward
<1>12. Undisturbed(L, M, t)
  <2> SUFFICES ASSUME NEW u \in Thread \ {t}
               PROVE  /\ StillLeads(M, u)
                      /\ CanPoint(u) /\ Ent(u) \in M \ L => tg[u].cur.idx = next[Ent(u)].idx
    BY DEF Undisturbed
  <2>1. ASSUME pc[u] = "link", Ent(u) \notin M PROVE next'[Ent(u)].idx = next[Ent(u)].idx
    <3>1. Ent(u) \in Slot /\ Ent(u) \in Cell
      BY <2>1, HandFacts
    <3>2. Ent(u) # p
      BY <1>1, <2>1, <3>1, Numbers DEF Live
    <3> QED
      BY <1>1, <1>4, <1>5, <3>1, <3>2 DEF TypeInv, TypeOK
  <2>2. ASSUME CanPoint(u), Ent(u) \in M \ L PROVE tg[u].cur.idx = next[Ent(u)].idx
    <3>1. Ent(u) = e
      BY <2>2
    <3>2. Meet(L, t, u)
      BY DEF Known, Content
    <3> QED
      BY <1>1, <1>3, <1>4, <2>2, <3>1, <3>2 DEF Meet
  <2> QED
    BY <2>1, <2>2 DEF StillLeads
<1>13. At(M, t)' /\ MeetsOthers(M, t)'
  <2> HIDE DEF M
  <2> QED
    BY <1>7, <1>8, <1>9, RestAt
<1>14. Follows(L, M, t)
  <2> HIDE DEF M
  <2> QED
    BY <1>9, <1>10, <1>11, <1>12, <1>13, ContentKeeps DEF Follows
<1>15. Live(M)' = Live(L) \cup {e}
  BY <1>10
<1> HIDE DEF M
<1> QED
  BY <1>4, <1>14, <1>15 DEF M

LEMMA InsertLinkFollows ==
    ASSUME NEW L \in SUBSET Slot, NEW t \in Thread, Known(L), TypeInv', PrivacyInv', InsertsBelow,
           InsertLink(t)
    PROVE  \/ Follows(L, L, t) /\ Goto(t, "ifrom") /\ UNCHANGED <<next, tg, my, history>>
           \/ Links(t)
<1>1. Inserting(t) /\ kd' = kd
  BY DEF InsertLink, Inserting
<1>2. CASE Goto(t, "ifrom") /\ UNCHANGED <<next, tg, my, history>>
  BY <1>1, <1>2, FailedFollows DEF history
<1>3. CASE Links(t)
  BY <1>3
<1> QED
  BY <1>2, <1>3 DEF InsertLink, Links, AtPlace

-----------------------------------------------------------------------------
(***************************************************************************)
(* An entry is marked; its word is not frozen, so that not all is frozen.  *)
(***************************************************************************)
LEMMA MarkFacts ==
    ASSUME NEW L \in SUBSET Slot, NEW t \in Thread, Known(L), InsertsBelow, pc[t] = "dmark",
           next[tg[t].cur.idx] = my[t].saved
    PROVE  \E c \in Live(L) : /\ c = tg[t].cur.idx /\ c \in Cell /\ c \in Slot
                              /\ ~next[c].del /\ ~next[c].frz /\ ~AllFrozen
                              /\ \A k \in InsertKeys : k <= kd[c].key
<1>1. /\ TypeInv /\ SeenInv(L, t) /\ MarkInv(L, t) /\ CallInv(t) /\ Holding(t) /\ Deleting(t)
      /\ ~my[t].saved.frz
  BY DEF Known, Content, At, Holding, Deleting, PrivacyInv, Own, SavedInv
<1>2. PICK c \in L : c = tg[t].cur.idx /\ kd[c].key = call[t].key
  BY <1>1 DEF MarkInv, SeenInv, Ends
<1>3. ~next[c].del /\ ~next[c].frz /\ c \in Cell
  BY <1>1, <1>2, Constants DEF SeenInv
<1>4. \A k \in InsertKeys : k <= kd[c].key
  BY <1>1, <1>2, DeleteAbove, WorkAssumption
<1> QED
  BY <1>2, <1>3, <1>4 DEF Live, AllFrozen

LEMMA MarkedWords ==
    ASSUME TypeInv, NEW c \in Cell,
           next' = [next EXCEPT ![c] = [Bump(@, @.idx) EXCEPT !.del = TRUE]]
    PROVE  /\ next'[c].del /\ Advances(c)
           /\ \A d \in Cell : next'[d].idx = next[d].idx
           /\ \A d \in Cell : d # c => next'[d] = next[d]
<1> DEFINE w == [Bump(next[c], next[c].idx) EXCEPT !.del = TRUE]
<1>1. next[c] \in Word /\ next[c].ver \in Nat
  BY WordTypes
<1>2. w.idx = next[c].idx /\ w.del /\ w.frz = next[c].frz /\ w.ver = next[c].ver + 1
  BY <1>1 DEF Bump, Word
<1>3. next'[c] = w /\ \A d \in Cell : d # c => next'[d] = next[d]
  BY DEF TypeInv, TypeOK
<1> HIDE DEF w
<1>4. Advances(c)
  <2>1. next'[c].ver = next[c].ver + 1 /\ next'[c].frz = next[c].frz
    BY ONLY <1>2, <1>3
  <2>2. next'[c].ver > next[c].ver
    BY ONLY <1>1, <2>1
  <2> QED
    BY <2>1, <2>2 DEF Advances
<1> QED
  BY <1>2, <1>3, <1>4

LEMMA MarkList ==
    ASSUME NEW L \in SUBSET Slot, NEW t \in Thread, Known(L),
           NEW c \in Live(L), c \in Cell, c \in Slot, ~next[c].del, ~AllFrozen,
           \A k \in InsertKeys : k <= kd[c].key,
           next' = [next EXCEPT ![c] = [Bump(@, @.idx) EXCEPT !.del = TRUE]], kd' = kd,
           content' = content \ {kd[c].key}, OthersStill(t), CallsStay(t), TakesFree(t)
    PROVE  /\ ListInv(L)' /\ Onward(L, L, t) /\ Undisturbed(L, L, t) /\ StaysClean(L, L)
           /\ Live(L)' \subseteq Live(L)
<1>1. TypeInv /\ ListInv(L) /\ c \in L /\ L \subseteq Cell /\ EntryHead \in Cell /\ c # EntryHead
  BY CellsAre DEF Known, Content, Live, Cell
<1>2. /\ next'[c].del /\ Advances(c)
      /\ \A d \in Cell : next'[d].idx = next[d].idx
      /\ \A d \in Cell : d # c => next'[d] = next[d]
  BY <1>1, MarkedWords
<1>3. Live(L)' = Live(L) \ {c} /\ \A d : KeyOf(d)' = KeyOf(d)
  BY <1>1, <1>2 DEF Live, KeyOf
<1>4. ListInv(L)'
  <2>1. WordsIn(L)'
    BY <1>1, <1>2 DEF ListInv, WordsIn
  <2>2. MarkedIn(L)'
    BY <1>1, <1>2, Constants DEF ListInv, MarkedIn
  <2>3. Waiting(L)' /\ Apart(L)'
    BY <1>1, <1>3 DEF ListInv, Waiting, Apart
  <2>4. Holds(L)'
    <3>1. KeysIn(Live(L))' = {kd[x].key : x \in Live(L) \ {c}}
      BY <1>3 DEF KeysIn
    <3>2. \A x \in Live(L) \ {c} : kd[x].key # kd[c].key
      BY <1>1 DEF ListInv, Apart
    <3>3. content = {kd[x].key : x \in Live(L)}
      BY <1>1 DEF ListInv, Holds, KeysIn
    <3> QED
      BY <3>1, <3>2, <3>3 DEF Holds
  <2>5. NoSkip(L)'
    <3> SUFFICES ASSUME NEW d \in Cells(L) PROVE LeadsOn(L, KeyOf(d), next[d].idx)'
      BY DEF NoSkip, Cells
    <3>1. d \in Cell /\ LeadsOn(L, KeyOf(d), next[d].idx)
      BY <1>1, CellsAre DEF ListInv, NoSkip
    <3>2. next'[d].idx = next[d].idx
      BY <1>2, <3>1
    <3> QED
      BY <1>3, <3>1, <3>2 DEF LeadsOn
  <2>6. Linked(L)'
    <3>1. FreesOwn(t)
      BY DEF FreesOwn
    <3> QED
      BY <1>1, <3>1, PrivateStays DEF ListInv, Linked
  <2> QED
    BY <2>1, <2>2, <2>3, <2>4, <2>5, <2>6 DEF ListInv
<1>5. Onward(L, L, t)
  <2>1. \A d \in Cell : next[d].del => next'[d].del /\ next'[d].idx = next[d].idx
    BY <1>2
  <2>2. KeysStay(t) /\ \A d \in Cell : Advances(d)
    BY <1>2 DEF KeysStay, Advances
  <2> QED
    BY <1>3, <2>1, <2>2 DEF Onward
<1>6. Undisturbed(L, L, t)
  <2> SUFFICES ASSUME NEW u \in Thread \ {t}, pc[u] = "link", Ent(u) \notin L
               PROVE  next'[Ent(u)].idx = next[Ent(u)].idx
    BY DEF Undisturbed, StillLeads
  <2>1. Ent(u) \in Cell
    BY HandFacts
  <2> QED
    BY <1>2, <2>1
<1> QED
  BY <1>3, <1>4, <1>5, <1>6 DEF StaysClean

LEMMA DeleteMarkFollows ==
    ASSUME NEW L \in SUBSET Slot, NEW t \in Thread, Known(L), TypeInv', InsertsBelow, DeleteMark(t)
    PROVE  Follows(L, L, t)
<1>1. /\ TypeInv /\ At(L, t) /\ CallInv(t) /\ SeenInv(L, t) /\ MarkInv(L, t)
      /\ Holding(t) /\ Deleting(t) /\ pc[t] = "dmark" /\ kd' = kd /\ my[t] \in Local
  BY DEF Known, Content, At, DeleteMark, Holding, Deleting, TypeInv, TypeOK
<1>2. CASE Goto(t, "dundo") /\ UNCHANGED <<next, tg, my, history>>
  BY <1>1, <1>2, FailedFollows DEF history
<1>3. CASE CallFind(t, my[t], "dfound") /\ UNCHANGED <<next, history>>
  <2>1. UNCHANGED <<call, content>>
    BY <1>3 DEF history
  <2>2. Resting(t)' /\ CallInv(t)' /\ CallsStay(t) /\ tg'[t] = NoPlace
    BY <1>1, <1>3, <2>1, CallFindRests DEF Return
  <2>3. OthersStill(t) /\ TakesFree(t)
    BY <1>1, <1>3, CallFindAway, AwayTakesNone DEF Return
  <2> QED
    BY <1>1, <1>3, <2>1, <2>2, <2>3, RestFollows
<1>4. CASE /\ next[tg[t].cur.idx] = my[t].saved
           /\ next' = [next EXCEPT ![tg[t].cur.idx] = [Bump(@, @.idx) EXCEPT !.del = TRUE]]
           /\ TakesEffect({t}, content \ {kd[tg[t].cur.idx].key})
           /\ Goto(t, "dunlink") /\ UNCHANGED <<tg, my>>
  <2>1. PICK c \in Live(L) : /\ c = tg[t].cur.idx /\ c \in Cell /\ c \in Slot
                             /\ ~next[c].del /\ ~next[c].frz /\ ~AllFrozen
                             /\ \A k \in InsertKeys : k <= kd[c].key
    BY <1>1, <1>4, MarkFacts
  <2>2. /\ next' = [next EXCEPT ![c] = [Bump(@, @.idx) EXCEPT !.del = TRUE]]
        /\ content' = content \ {kd[c].key}
    BY <1>4, <2>1 DEF TakesEffect
  <2>3. \A u \in Thread : call'[u].kind = call[u].kind /\ call'[u].key = call[u].key
    <3>1. content \ {kd[tg[t].cur.idx].key} \in SUBSET Key
      BY <1>1 DEF TypeInv, TypeOK
    <3> QED
      BY <1>1, <1>4, <3>1, TakesEffectFine DEF CallsFine
  <2>4. pc'[t] = "dunlink" /\ UNCHANGED <<tg, my>> /\ OthersStill(t)
    BY <1>1, <1>4 DEF Goto, OthersStill, TypeInv, TypeOK
  <2>5. /\ TakesFree(t) /\ ~AtPlace(t)' /\ ~CanPoint(t)' /\ ~NotFound(t)' /\ pc'[t] \notin FindPC
        /\ Deleting(t)'
    BY <2>4 DEF AtPlace, CanPoint, NotFound, FindPC, Deleting, TakesFree, Unlinked, Inserting
  <2>6. CallInv(t)' /\ CallsStay(t)
    BY <1>1, <2>3, <2>5 DEF CallInv, CallsStay
  <2>7. /\ ListInv(L)' /\ Onward(L, L, t) /\ Undisturbed(L, L, t) /\ StaysClean(L, L)
        /\ Live(L)' \subseteq Live(L)
    BY <1>1, <2>1, <2>2, <2>4, <2>5, <2>6, MarkList
  <2>8. SeenInv(L, t)'
    BY <1>1, <2>4 DEF SeenInv
  <2>9. PlaceInv(t)' /\ LinkInv(L, t)' /\ MeetsOthers(L, t)'
    BY <2>4, <2>5 DEF PlaceInv, LinkInv, MeetsOthers, Meet
  <2>10. MarkInv(L, t)'
    <3>1. c # End /\ kd[c].key = call[t].key /\ LeadsOn(L, kd[c].key, tg[t].next.idx)
      BY <1>1, <2>1 DEF MarkInv
    <3>2. LeadsOn(L, kd[c].key, tg[t].next.idx)'
      BY <1>1, <2>4, <2>7, <3>1 DEF LeadsOn
    <3>3. next'[c].del
      BY <1>1, <2>1, <2>2, MarkedWords
    <3> QED
      BY <1>1, <2>1, <2>3, <2>4, <3>1, <3>2, <3>3 DEF MarkInv
  <2> QED
    BY <2>6, <2>7, <2>8, <2>9, <2>10, ContentKeeps DEF At, Follows
<1> QED
  BY <1>2, <1>3, <1>4 DEF DeleteMark

(***************************************************************************)
(* A word is frozen: it keeps its index, its version and its deleted bit.  *)
(***************************************************************************)
LEMMA MarkFrozenFollows ==
    ASSUME NEW L \in SUBSET Slot, NEW t \in Thread, Known(L), TypeInv', InsertsBelow, MarkFrozen(t)
    PROVE  Follows(L, L, t)
<1>1. PICK c \in ToBeFrozen :
        IF ~next[c].frz THEN next' = [next EXCEPT ![c].frz = TRUE] /\ UNCHANGED kd
                        ELSE kd' = [kd EXCEPT ![c].frz = TRUE] /\ UNCHANGED next
  BY DEF MarkFrozen
<1>2. /\ UNCHANGED <<pc, tg, my, content, call>> /\ pc[t] = "mark"
      /\ TypeInv /\ CallInv(t) /\ ListInv(L)
  BY DEF MarkFrozen, history, Known, Content, At
<1>3. c \in Cell /\ (next[c].frz => c \in Slot) /\ ~AllFrozen
  BY <1>1 DEF ToBeFrozen, KeyFrozen, AllFrozen, Cell
<1>4. \A d \in Cell : next'[d].idx = next[d].idx /\ next'[d].del = next[d].del /\ Advances(d)
  <2>1. \A d \in Cell : next[d] \in Word
    BY <1>2 DEF TypeInv, TypeOK
  <2> SUFFICES ASSUME NEW d \in Cell
               PROVE  next'[d].idx = next[d].idx /\ next'[d].del = next[d].del /\ Advances(d)
    OBVIOUS
  <2>2. CASE next'[d] = next[d]
    BY <2>2 DEF Advances
  <2>3. CASE next'[d] = [next[d] EXCEPT !.frz = TRUE] /\ ~next[d].frz
    BY <2>1, <2>3 DEF Advances, Word
  <2>4. next'[d] = next[d] \/ (next'[d] = [next[d] EXCEPT !.frz = TRUE] /\ ~next[d].frz)
    BY <1>1, <1>2, <1>3 DEF TypeInv, TypeOK
  <2> QED
    BY <2>2, <2>3, <2>4
<1>5. \A s \in Slot : kd'[s].key = kd[s].key
  <2>1. \A s \in Slot : kd[s] \in KeyWord
    BY <1>2 DEF TypeInv, TypeOK
  <2>2. \A s \in Slot : kd'[s] = kd[s] \/ kd'[s] = [kd[s] EXCEPT !.frz = TRUE]
    BY <1>1, <1>2, <1>3 DEF TypeInv, TypeOK
  <2> QED
    BY <2>1, <2>2 DEF KeyWord
<1>6. OthersStill(t) /\ CallsStay(t) /\ FreesOwn(t) /\ KeysStay(t) /\ Resting(t)' /\ TakesFree(t)
  BY <1>2, <1>5 DEF OthersStill, CallsStay, FreesOwn, KeysStay, Resting, FindPC, TakesFree,
                    Unlinked, Inserting
<1>7. CallInv(t)'
  BY <1>2 DEF CallInv, Deleting
<1>8. /\ L \subseteq Cell /\ EntryHead \in Cell /\ Cells(L) \subseteq Cell
      /\ \A d \in Cells(L) : KeyOf(d)' = KeyOf(d)
  BY <1>2, <1>5, CellsAre DEF Cell, Cells, KeyOf
<1>9. Live(L)' = Live(L) /\ KeysIn(Live(L))' = KeysIn(Live(L))
  <2>1. Live(L)' = Live(L)
    BY <1>4, <1>8 DEF Live
  <2>2. \A s \in Live(L) : kd'[s].key = kd[s].key
    BY <1>5 DEF Live
  <2> QED
    BY <2>1, <2>2 DEF KeysIn
<1>10. ListInv(L)'
  <2>1. WordsIn(L)'
    BY <1>2, <1>4 DEF ListInv, WordsIn
  <2>2. MarkedIn(L)'
    BY <1>2, <1>4, <1>5, Constants DEF ListInv, MarkedIn
  <2>3. Waiting(L)' /\ Holds(L)'
    BY <1>2, <1>5, <1>9 DEF ListInv, Waiting, Holds
  <2>4. Apart(L)'
    BY <1>2, <1>5, <1>9 DEF ListInv, Apart, Live
  <2>5. NoSkip(L)'
    <3> SUFFICES ASSUME NEW d \in Cells(L) PROVE LeadsOn(L, KeyOf(d), next[d].idx)'
      BY DEF NoSkip, Cells
    <3>1. d \in Cell /\ LeadsOn(L, KeyOf(d), next[d].idx) /\ next[d].idx \in L \cup {End}
      BY <1>2, <1>8 DEF ListInv, NoSkip, WordsIn, Ends
    <3>2. next'[d].idx = next[d].idx /\ KeyOf(d)' = KeyOf(d)
      BY <1>4, <1>8, <3>1
    <3>3. \A x \in Live(L) : kd'[x].key = kd[x].key
      BY <1>5 DEF Live
    <3> QED
      BY <1>5, <1>9, <3>1, <3>2, <3>3 DEF LeadsOn
  <2>6. Linked(L)'
    BY <1>2, <1>3, <1>5, <1>6, PrivateStays DEF ListInv, Linked
  <2> QED
    BY <2>1, <2>2, <2>3, <2>4, <2>5, <2>6 DEF ListInv
<1>11. Onward(L, L, t) /\ StaysClean(L, L)
  BY <1>3, <1>4, <1>6, <1>9 DEF Onward, StaysClean
<1>12. Undisturbed(L, L, t)
  <2> SUFFICES ASSUME NEW u \in Thread \ {t}, pc[u] = "link", Ent(u) \notin L
               PROVE  next'[Ent(u)].idx = next[Ent(u)].idx
    BY DEF Undisturbed, StillLeads
  <2>1. Ent(u) \in Cell
    BY HandFacts
  <2> QED
    BY <1>4, <2>1
<1>13. At(L, t)' /\ MeetsOthers(L, t)'
  BY <1>2, <1>6, <1>7, RestAt
<1> QED
  BY <1>10, <1>11, <1>12, <1>13, ContentKeeps DEF Follows

-----------------------------------------------------------------------------
(***************************************************************************)
(* The key of an entry that is not linked changes: it is allocated for an  *)
(* insert, or freed.                                                       *)
(***************************************************************************)
LEMMA RekeyFollows ==
    ASSUME NEW L \in SUBSET Slot, NEW t \in Thread, Known(L), TypeInv', InsertsBelow,
           UNCHANGED <<next, content>>, NEW s \in Slot, Private(s), ~AllFrozen,
           \A u \in Thread \ {t} : my[u].own # s,
           \A x \in Slot : x # s => kd'[x].key = kd[x].key, kd'[s].key \in InsertKeys \cup {NoKey},
           FreesOwn(t), OthersStill(t), CallsStay(t), TakesFree(t),
           Resting(t)', CallInv(t)', tg'[t] = NoPlace \/ tg'[t] = tg[t]
    PROVE  Follows(L, L, t)
<1>1. TypeInv /\ ListInv(L)
  BY DEF Known, Content
<1>2. s \notin L
  BY <1>1 DEF ListInv, Linked
<1>3. /\ \A x \in L : kd'[x].key = kd[x].key
      /\ \A c \in Cells(L) : KeyOf(c)' = KeyOf(c)
  BY <1>2 DEF Cells, KeyOf
<1>4. Live(L)' = Live(L) /\ KeysIn(Live(L))' = KeysIn(Live(L))
  <2>1. Live(L)' = Live(L) /\ \A x \in Live(L) : kd'[x].key = kd[x].key
    BY <1>3 DEF Live
  <2> QED
    BY <2>1 DEF KeysIn
<1>5. ListInv(L)'
  <2>1. WordsIn(L)'
    BY <1>1 DEF ListInv, WordsIn
  <2>2. MarkedIn(L)'
    BY <1>1, <1>3 DEF ListInv, MarkedIn
  <2>3. Waiting(L)' /\ Holds(L)'
    BY <1>1, <1>4 DEF ListInv, Waiting, Holds
  <2>4. Apart(L)'
    BY <1>1, <1>3, <1>4 DEF ListInv, Apart, Live
  <2>5. NoSkip(L)'
    <3> SUFFICES ASSUME NEW d \in Cells(L) PROVE LeadsOn(L, KeyOf(d), next[d].idx)'
      BY DEF NoSkip, Cells
    <3>1. LeadsOn(L, KeyOf(d), next[d].idx) /\ next[d].idx \in L \cup {End}
      BY <1>1, CellsAre DEF ListInv, NoSkip, WordsIn, Ends
    <3>2. KeyOf(d)' = KeyOf(d)
      BY <1>3
    <3>3. \A x \in Live(L) : kd'[x].key = kd[x].key
      BY <1>3 DEF Live
    <3> QED
      BY <1>3, <1>4, <3>1, <3>2, <3>3 DEF LeadsOn
  <2>6. Linked(L)'
    BY <1>1, <1>3, PrivateStays DEF ListInv, Linked
  <2> QED
    BY <2>1, <2>2, <2>3, <2>4, <2>5, <2>6 DEF ListInv
<1>6. KeysStay(t)
  BY DEF KeysStay
<1>7. Onward(L, L, t) /\ StaysClean(L, L)
  BY <1>4, <1>6 DEF Onward, StaysClean, Advances
<1>8. Undisturbed(L, L, t)
  BY DEF Undisturbed, StillLeads
<1>9. At(L, t)' /\ MeetsOthers(L, t)'
  BY RestAt
<1> QED
  BY <1>5, <1>7, <1>8, <1>9, ContentKeeps DEF Follows

LEMMA AllocateFollows ==
    ASSUME NEW L \in SUBSET Slot, NEW t \in Thread, Known(L), TypeInv', InsertsBelow, Allocate(t)
    PROVE  Follows(L, L, t)
<1>1. /\ TypeInv /\ CallInv(t) /\ pc[t] = "alloc" /\ UNCHANGED <<next, content, call>>
      /\ my[t] \in Local /\ my[t].own = End /\ my[t].trig = "-" /\ call[t].kind = "insert"
  BY DEF Known, Content, At, Allocate, history, TypeInv, TypeOK, ThreadInv, OwnInv
<1>2. CASE CallFreeze(t, "INSERT") /\ UNCHANGED kd
  <2>1. OthersStill(t) /\ Away(t)' /\ (tg'[t] = NoPlace \/ tg'[t] = tg[t])
    BY <1>1, <1>2, CallFreezeAway
  <2>2. pc'[t] = "frz"
    BY <1>1, <1>2 DEF CallFreeze, Goto, TypeInv, TypeOK
  <2> QED
    BY <1>1, <1>2, <2>1, <2>2, GoesToRest, AwayTakesNone, RestFollows DEF FindPC
<1>3. CASE my' = [my EXCEPT ![t].scan = @ + 1] /\ UNCHANGED <<pc, kd, tg>>
  <2>1. OthersStill(t) /\ pc'[t] = "alloc"
    BY <1>1, <1>3 DEF OthersStill
  <2>2. TakesFree(t)
    BY <2>1 DEF TakesFree, Unlinked, Inserting, FindPC
  <2> QED
    BY <1>1, <1>3, <2>1, <2>2, GoesToRest, RestFollows DEF FindPC
<1>4. CASE /\ my[t].scan < MaxEntries
           /\ kd[my[t].scan] = [key |-> NoKey, frz |-> FALSE]
           /\ kd' = [kd EXCEPT ![my[t].scan].key = call[t].key]
           /\ my' = [my EXCEPT ![t].own = my[t].scan]
           /\ Goto(t, "ifrom") /\ UNCHANGED tg
  <2>1. PICK s \in Slot : s = my[t].scan /\ kd[s].key = NoKey /\ ~kd[s].frz
    BY <1>1, <1>4, SizeAssumption DEF Local, Slot
  <2>2. Private(s) /\ ~AllFrozen
    BY <2>1, Constants, SizeAssumption DEF Private, AllFrozen, KeyFrozen, Slot, EntryHead
  <2>3. \A x \in Slot : x # s => kd'[x] = kd[x]
    BY <1>1, <1>4, <2>1 DEF TypeInv, TypeOK
  <2>4. kd'[s].key = call[t].key
    <3>1. kd[s] \in KeyWord /\ kd' = [kd EXCEPT ![s].key = call[t].key]
      BY <1>1, <1>4, <2>1 DEF TypeInv, TypeOK
    <3> QED
      BY <1>1, <3>1 DEF TypeInv, TypeOK, KeyWord
  <2>5. call[t].key \in InsertKeys
    <3>1. call[t].key \in Key
      BY <1>1 DEF TypeInv, TypeOK
    <3> QED
      BY <1>1, <3>1 DEF CallInv, InsertKeys
  <2>6. \A u \in Thread \ {t} : my[u].own # s
    <3> SUFFICES ASSUME NEW u \in Thread \ {t}, my[u].own = s PROVE FALSE
      OBVIOUS
    <3>1. s # End
      BY SizeAssumption DEF Slot, End
    <3>2. kd[s].key = call[u].key /\ call[u].key \in Key
      BY <1>1, <3>1 DEF TypeInv, TypeOK, ThreadInv, OwnInv
    <3> QED
      BY <2>1, <3>2, SizeAssumption DEF Key, NoKey
  <2>7. pc'[t] = "ifrom" /\ my'[t].own = s /\ OthersStill(t) /\ tg'[t] = tg[t]
    <3>1. my'[t] = [my[t] EXCEPT !.own = s]
      BY <1>1, <1>4, <2>1 DEF TypeInv, TypeOK
    <3>2. my'[t].own = s
      BY <1>1, <3>1 DEF Local
    <3> QED
      BY <1>1, <1>4, <3>2 DEF OthersStill, Goto, TypeInv, TypeOK
  <2>8. Resting(t)' /\ CallInv(t)' /\ CallsStay(t)
    BY <1>1, <2>7, GoesToRest DEF FindPC
  <2>9. TakesFree(t)
    BY <2>1, <2>7 DEF TakesFree
  <2>10. FreesOwn(t)
    <3>1. call[t].key # NoKey
      BY <1>1, SizeAssumption DEF TypeInv, TypeOK, Key, NoKey
    <3> QED
      BY <2>3, <2>4, <3>1 DEF FreesOwn
  <2> QED
    BY <1>1, <2>2, <2>3, <2>4, <2>5, <2>6, <2>7, <2>8, <2>9, <2>10, RekeyFollows
<1> QED
  BY <1>2, <1>3, <1>4 DEF Allocate

(***************************************************************************)
(* clearEntry: the entry of t is still private, and is freed.              *)
(***************************************************************************)
LEMMA OwnSlot ==
    ASSUME NEW L \in SUBSET Slot, Known(L), NEW t \in Thread, pc[t] \in {"cnext", "ckey"}
    PROVE  \E s \in Slot : /\ s = my[t].own /\ s \in Cell /\ s # EntryHead /\ Private(s) /\ Unlinked(t)
                           /\ (~AllFrozen => s \notin L) /\ ~next[s].del
                           /\ \A u \in Thread \ {t} : my[u].own # s
<1>1. TypeInv /\ PrivacyInv /\ ListInv(L) /\ my[t].trig = "-" /\ my[t].own # End
  BY DEF Known, Content, PrivacyInv, Own, ClearInv, TypeInv, ThreadInv, OwnInv
<1>2. PICK s \in Slot : s = my[t].own /\ s \in Cell /\ s # EntryHead /\ s # End
  BY <1>1, SizeAssumption, Numbers DEF TypeInv, TypeOK, Local, Slot, End
<1>3. Private(s) /\ Unlinked(t)
  BY <1>1, <1>2 DEF Private, Unlinked
<1>4. \A u \in Thread \ {t} : my[u].own # s
  BY <1>1, <1>2 DEF TypeInv, OwnDistinct
<1> QED
  BY <1>1, <1>2, <1>3, <1>4 DEF ListInv, Linked, PrivacyInv, UnmarkedInv

LEMMA ClearKeyFollows ==
    ASSUME NEW L \in SUBSET Slot, NEW t \in Thread, Known(L), TypeInv', InsertsBelow, ClearKey(t)
    PROVE  Follows(L, L, t)
<1>1. TypeInv /\ pc[t] = "ckey" /\ UNCHANGED next
  BY DEF Known, ClearKey
<1>2. PICK s \in Slot : /\ s = my[t].own /\ s \in Cell /\ s # EntryHead /\ Private(s) /\ Unlinked(t)
                        /\ (~AllFrozen => s \notin L) /\ ~next[s].del
                        /\ \A u \in Thread \ {t} : my[u].own # s
  BY <1>1, OwnSlot
<1>3. CASE Goto(t, "chelp") /\ UNCHANGED <<kd, tg, my, history>>
  BY <1>1, <1>3, FailedFollows DEF history
<1>4. CASE /\ ~kd[my[t].own].frz /\ kd' = [kd EXCEPT ![my[t].own].key = NoKey]
           /\ Answers(t, "FALSE")
  <2>1. ~AllFrozen
    BY <1>2, <1>4 DEF AllFrozen, KeyFrozen
  <2>2. \A x \in Slot : x # s => kd'[x] = kd[x]
    BY <1>1, <1>2, <1>4 DEF TypeInv, TypeOK
  <2>3. kd'[s].key = NoKey
    <3>1. kd[s] \in KeyWord /\ kd' = [kd EXCEPT ![s].key = NoKey]
      BY <1>1, <1>2, <1>4 DEF TypeInv, TypeOK
    <3> QED
      BY <1>1, <3>1 DEF TypeInv, TypeOK, KeyWord
  <2>4. FreesOwn(t)
    BY <1>2, <2>2 DEF FreesOwn
  <2>5. /\ OthersStill(t) /\ CallsStay(t) /\ TakesFree(t) /\ Resting(t)' /\ CallInv(t)'
        /\ tg'[t] = NoPlace /\ content' = content
    BY <1>1, <1>4, AnswersRests
  <2> QED
    BY <1>1, <1>2, <2>1, <2>2, <2>3, <2>4, <2>5, RekeyFollows
<1> QED
  BY <1>3, <1>4 DEF ClearKey

LEMMA ClearNextFollows ==
    ASSUME NEW L \in SUBSET Slot, NEW t \in Thread, Known(L), TypeInv', InsertsBelow, ClearNext(t)
    PROVE  Follows(L, L, t)
<1>1. /\ TypeInv /\ CallInv(t) /\ ListInv(L) /\ pc[t] = "cnext"
      /\ UNCHANGED <<kd, tg, my, content, call>>
  BY DEF Known, Content, At, ClearNext, history
<1>2. PICK s \in Slot : /\ s = my[t].own /\ s \in Cell /\ s # EntryHead /\ Private(s) /\ Unlinked(t)
                        /\ (~AllFrozen => s \notin L) /\ ~next[s].del
                        /\ \A u \in Thread \ {t} : my[u].own # s
  BY <1>1, OwnSlot
<1>3. CASE Goto(t, "chelp") /\ UNCHANGED next
  BY <1>1, <1>3, FailedFollows
<1>4. CASE /\ ~next[my[t].own].frz /\ next' = [next EXCEPT ![my[t].own] = NoWord]
           /\ Goto(t, "ckey")
  <2>1. ~AllFrozen /\ s \notin L
    BY <1>2, <1>4 DEF AllFrozen
  <2>2. /\ next'[s].idx = End /\ ~next'[s].del
        /\ \A c \in Cell : c # s => next'[c] = next[c]
    BY <1>1, <1>2, <1>4 DEF TypeInv, TypeOK, NoWord
  <2>3. pc'[t] = "ckey" /\ OthersStill(t)
    BY <1>1, <1>4 DEF OthersStill, Goto, TypeInv, TypeOK
  <2>4. CallsStay(t) /\ FreesOwn(t) /\ KeysStay(t) /\ Resting(t)' /\ TakesFree(t) /\ CallInv(t)'
    BY <1>1, <1>2, <2>3 DEF CallsStay, FreesOwn, KeysStay, Resting, FindPC, TakesFree, Unlinked,
                            CallInv, Deleting, Inserting
  <2>5. L \subseteq Cell /\ Cells(L) \subseteq Cell /\ \A c \in Cells(L) : next'[c] = next[c]
    BY <1>1, <1>2, <2>1, <2>2, CellsAre DEF Cells, Cell
  <2>6. /\ Live(L)' = Live(L) /\ KeysIn(Live(L))' = KeysIn(Live(L))
        /\ \A c : KeyOf(c)' = KeyOf(c)
    BY <1>1, <2>5 DEF Live, KeysIn, KeyOf, Cells
  <2>7. ListInv(L)'
    <3>1. WordsIn(L)'
      BY <1>1, <2>2 DEF ListInv, WordsIn, Ends
    <3>2. MarkedIn(L)'
      BY <1>1, <1>2, <2>2, Constants DEF ListInv, MarkedIn
    <3>3. Waiting(L)' /\ Holds(L)' /\ Apart(L)'
      BY <1>1, <2>6 DEF ListInv, Waiting, Holds, Apart
    <3>4. NoSkip(L)'
      BY <1>1, <2>5, <2>6 DEF ListInv, NoSkip, LeadsOn, Cells
    <3>5. Linked(L)'
      BY <1>1, <2>1, <2>3, <2>4, PrivateStays DEF ListInv, Linked
    <3> QED
      BY <3>1, <3>2, <3>3, <3>4, <3>5 DEF ListInv
  <2>8. Onward(L, L, t) /\ StaysClean(L, L)
    <3>1. Spare(L, t, s) /\ \A c \in Cell : c # s => Advances(c)
      BY <1>2, <2>1, <2>2 DEF Spare, Advances
    <3>2. \A c \in Cell : next[c].del => next'[c].del /\ next'[c].idx = next[c].idx
      BY <1>2, <2>2
    <3> QED
      BY <2>1, <2>3, <2>4, <2>6, <3>1, <3>2 DEF Onward, StaysClean
  <2>9. Undisturbed(L, L, t)
    <3> SUFFICES ASSUME NEW u \in Thread \ {t}, pc[u] = "link", Ent(u) \notin L
                 PROVE  next'[Ent(u)].idx = next[Ent(u)].idx
      BY DEF Undisturbed, StillLeads
    <3>1. Inserting(u) /\ Ent(u) \in Cell
      BY HandFacts
    <3>2. my[u].trig = "-"
      BY <1>1, <2>1, <3>1, EntryAtHand
    <3>3. Ent(u) # s
      BY <1>2, <3>2 DEF Ent
    <3> QED
      BY <2>2, <3>1, <3>3
  <2>10. At(L, t)' /\ MeetsOthers(L, t)'
    BY <1>1, <2>4, RestAt
  <2> QED
    BY <2>7, <2>8, <2>9, <2>10, ContentKeeps DEF Follows
<1> QED
  BY <1>3, <1>4 DEF ClearNext

-----------------------------------------------------------------------------
(***************************************************************************)
(* Every step leaves a set of linked entries.                              *)
(***************************************************************************)
LEMMA StepFollows ==
    ASSUME NEW L \in SUBSET Slot, NEW t \in Thread, Known(L), TypeInv', PrivacyInv', OrderInv',
           InsertsBelow, Invoke(t) \/ Step(t)
    PROVE  \E M \in SUBSET Slot : Follows(L, M, t)
<1>1. CASE AsideStep(t)
  <2>1. Follows(L, L, t)
    BY <1>1, AsideFollows
  <2> QED
    BY <2>1
<1>2. CASE FindStep(t)
  <2>1. Follows(L, L, t)
    BY <1>2, FindHeadFollows, FindNextFollows, FindUnlinkFollows DEF FindStep
  <2> QED
    BY <2>1
<1>3. CASE Allocate(t) \/ InsertFrom(t) \/ InsertFound(t)
  <2>1. Follows(L, L, t)
    BY <1>3, AllocateFollows, InsertFromFollows, InsertFoundFollows
  <2> QED
    BY <2>1
<1>4. CASE InsertLink(t)
  <2>1. CASE Follows(L, L, t)
    BY <2>1
  <2>2. CASE Links(t)
    <3>1. PICK e \in Slot \ L : Follows(L, L \cup {e}, t)
      BY <2>2, LinkedFollows
    <3> QED
      BY <3>1
  <2> QED
    BY <1>4, <2>1, <2>2, InsertLinkFollows
<1>5. CASE ClearNext(t) \/ ClearKey(t) \/ DeleteFound(t) \/ DeleteMark(t) \/ DeleteUnlink(t)
  <2>1. Follows(L, L, t)
    BY <1>5, ClearNextFollows, ClearKeyFollows, DeleteFoundFollows, DeleteMarkFollows,
       DeleteUnlinkFollows
  <2> QED
    BY <2>1
<1>6. CASE MarkFrozen(t) \/ StabilizeNext(t) \/ StabilizeFound(t)
  <2>1. Follows(L, L, t)
    BY <1>6, MarkFrozenFollows, StabilizeNextFollows, StabilizeFoundFollows
  <2> QED
    BY <2>1
<1> QED
  BY <1>1, <1>2, <1>3, <1>4, <1>5, <1>6
     DEF Step, AsideStep, InsertStep, ClearStep, DeleteStep, FreezeStep, StabilizeStep

\* no thread takes a step
LEMMA StillContent ==
    ASSUME NEW L \in SUBSET Slot, Content(L), UNCHANGED <<next, kd, pc, tg, my, content, call>>
    PROVE  Content(L)'
<1>1. /\ Live(L)' = Live(L) /\ (AllFrozen' <=> AllFrozen) /\ KeysIn(Live(L))' = KeysIn(Live(L))
      /\ \A c : KeyOf(c)' = KeyOf(c)
  BY DEF Live, AllFrozen, KeyFrozen, KeysIn, KeyOf
<1>2. \A t \in Thread : Ent(t)' = Ent(t) /\ (Inserting(t)' <=> Inserting(t))
  BY DEF Ent, Inserting
<1>3. ListInv(L)'
  <2>1. \A s \in Slot : Private(s)' <=> Private(s)
    BY <1>2 DEF Private, Unlinked
  <2> QED
    BY <1>1, <2>1 DEF Content, ListInv, WordsIn, MarkedIn, Linked, Waiting, Apart, Holds, NoSkip,
                      LeadsOn
<1>4. ASSUME NEW t \in Thread PROVE At(L, t)'
  <2>1. At(L, t)
    BY DEF Content
  <2>2. CallInv(t)' /\ SeenInv(L, t)'
    BY <2>1 DEF At, CallInv, Deleting, SeenInv
  <2>3. PlaceInv(t)'
    BY <1>1, <1>2, <2>1 DEF At, PlaceInv, NotFound, Past, Gone, Below
  <2>4. LinkInv(L, t)'
    BY <1>1, <1>2, <2>1 DEF At, LinkInv, AtPlace, CanPoint, NotFound
  <2>5. MarkInv(L, t)'
    BY <1>1, <2>1 DEF At, MarkInv, Holding, LeadsOn
  <2> QED
    BY <2>2, <2>3, <2>4, <2>5 DEF At
<1>5. ASSUME NEW t \in Thread, NEW u \in Thread, t # u PROVE Meet(L, t, u)'
  <2>1. Meet(L, t, u)
    BY <1>5 DEF Content
  <2> QED
    BY <1>1, <1>2, <2>1 DEF Meet, CanPoint, NotFound, AtPlace
<1> QED
  BY <1>3, <1>4, <1>5 DEF Content

HasList == \E L \in SUBSET Slot : Content(L)

LEMMA NextContent ==
    ASSUME InsertsBelow, TypeInv, PrivacyInv, OrderInv, HasList,
           TypeInv', PrivacyInv', OrderInv', [Next]_vars
    PROVE  HasList'
<1>1. PICK L \in SUBSET Slot : Content(L) /\ Known(L)
  BY DEF HasList, Known
<1>2. ASSUME NEW t \in Thread, Invoke(t) \/ Step(t) PROVE HasList'
  <2>1. PICK M \in SUBSET Slot : Follows(L, M, t)
    BY <1>1, <1>2, StepFollows
  <2>2. Content(M)'
    BY <2>1 DEF Follows
  <2> QED
    BY <2>2 DEF HasList
<1>3. CASE PartnerResolves \/ AllDone \/ UNCHANGED vars
  <2>1. UNCHANGED <<next, kd, pc, tg, my, content, call>>
    BY <1>3 DEF PartnerResolves, AllDone, vars, history
  <2>2. Content(L)'
    BY <1>1, <2>1, StillContent
  <2> QED
    BY <2>2 DEF HasList
<1> QED
  BY <1>2, <1>3 DEF Next

(***************************************************************************)
(* The chunk as copyEntriesArray leaves it.                                *)
(***************************************************************************)
LEMMA InitWords ==
    ASSUME Init
    PROVE  \E n \in 0 .. MaxEntries :
              /\ \A c \in Cell : /\ ~next[c].del
                                 /\ next[c].idx = IF c + 1 < n THEN c + 1 ELSE End
              /\ \A s \in Slot : s < n => /\ kd[s].key \in Key /\ kd[s].key # NoKey
                                          /\ s + 1 \in 1 .. n /\ kd[s].key = InitList[s + 1]
              /\ \A s \in Slot : ~(s < n) => kd[s].key = NoKey
              /\ \A r, s \in Slot : r < s /\ s < n => kd[r].key < kd[s].key
              /\ content = {InitList[i] : i \in 1 .. n}
<1>1. PICK n \in Nat : n = Len(InitList) /\ n <= MaxEntries
  BY InitListAssumption, SizeAssumption
<1>2. n \in 0 .. MaxEntries
  BY <1>1, SizeAssumption
<1>3. \A c \in Cell : ~next[c].del /\ next[c].idx = IF c + 1 < n THEN c + 1 ELSE End
  BY <1>1 DEF Init
<1>4. \A s \in Slot : kd[s].key = IF s < n THEN InitList[s + 1] ELSE NoKey
  BY <1>1 DEF Init
<1>5. ASSUME NEW s \in Slot, s < n
      PROVE  s + 1 \in 1 .. n /\ kd[s].key = InitList[s + 1] /\ kd[s].key \in Key /\ kd[s].key # NoKey
  <2>1. s + 1 \in 1 .. n
    BY <1>5, SizeAssumption DEF Slot
  <2>2. InitList[s + 1] \in Key
    BY <1>1, <2>1, InitListAssumption
  <2>3. \A k \in Key : k # NoKey
    BY SizeAssumption DEF Key, NoKey
  <2> QED
    BY <1>4, <1>5, <2>1, <2>2, <2>3
<1>6. ASSUME NEW r \in Slot, NEW s \in Slot, r < s, s < n PROVE kd[r].key < kd[s].key
  <2>1. r < n /\ r + 1 \in 1 .. n /\ s + 1 \in 1 .. n /\ r + 1 < s + 1
    BY <1>1, <1>6, SizeAssumption DEF Slot
  <2>2. InitList[r + 1] < InitList[s + 1]
    BY <1>1, <2>1, InitListAssumption
  <2> QED
    BY <1>4, <1>6, <2>1, <2>2
<1>7. content = {InitList[i] : i \in 1 .. n}
  BY <1>1 DEF Init, InitKeys
<1> QED
  BY <1>2, <1>3, <1>4, <1>5, <1>6, <1>7

LEMMA InitContent == Init => HasList
<1> SUFFICES ASSUME Init PROVE HasList
  OBVIOUS
<1>1. PICK n \in 0 .. MaxEntries :
              /\ \A c \in Cell : /\ ~next[c].del
                                 /\ next[c].idx = IF c + 1 < n THEN c + 1 ELSE End
              /\ \A s \in Slot : s < n => /\ kd[s].key \in Key /\ kd[s].key # NoKey
                                          /\ s + 1 \in 1 .. n /\ kd[s].key = InitList[s + 1]
              /\ \A s \in Slot : ~(s < n) => kd[s].key = NoKey
              /\ \A r, s \in Slot : r < s /\ s < n => kd[r].key < kd[s].key
              /\ content = {InitList[i] : i \in 1 .. n}
  BY InitWords
<1> DEFINE L == {s \in Slot : s < n}
<1>2. L \in SUBSET Slot /\ Live(L) = L
  BY <1>1, Constants DEF Live
<1>3. \A s \in Slot : s \in Int /\ s >= 0 /\ s < MaxEntries
  BY SizeAssumption DEF Slot
<1>4. WordsIn(L)
  <2> SUFFICES ASSUME NEW c \in Cell PROVE next[c].idx \in L \cup {End}
    BY DEF WordsIn, Ends
  <2>1. c \in Int /\ c + 1 >= 0
    BY <1>3 DEF Cell, EntryHead
  <2>2. c + 1 < n => c + 1 \in L
    BY <2>1, SizeAssumption DEF Slot
  <2> QED
    BY <1>1, <2>2
<1>5. MarkedIn(L)
  BY <1>1, Constants DEF MarkedIn
<1>6. Linked(L) /\ Waiting(L)
  <2>1. \A t \in Thread : ~Unlinked(t)
    BY DEF Init, Unlinked, Inserting, FindPC
  <2> QED
    BY <1>1, <2>1 DEF Linked, Waiting, Private
<1>7. Apart(L)
  <2> SUFFICES ASSUME NEW x \in L, NEW y \in L, kd[x].key = kd[y].key PROVE x = y
    BY <1>2 DEF Apart
  <2>1. kd[x].key \in Int /\ x \in Slot /\ y \in Slot /\ x < n /\ y < n
    BY <1>1 DEF Key
  <2>2. ~(x < y) /\ ~(y < x)
    BY <1>1, <2>1
  <2> QED
    BY <1>3, <2>1, <2>2
<1>8. Holds(L)
  <2>1. ASSUME NEW i \in 1 .. n PROVE \E s \in L : kd[s].key = InitList[i]
    <3>1. i - 1 \in Slot /\ i - 1 < n /\ (i - 1) + 1 = i
      BY SizeAssumption DEF Slot
    <3> QED
      BY <1>1, <3>1
  <2>2. \A s \in L : \E i \in 1 .. n : kd[s].key = InitList[i]
    BY <1>1
  <2>3. {InitList[i] : i \in 1 .. n} = {kd[s].key : s \in L}
    BY <2>1, <2>2
  <2> QED
    BY <1>1, <1>2, <2>3 DEF Holds, KeysIn
<1>9. NoSkip(L)
  <2> SUFFICES ASSUME NEW c \in Cells(L), NEW x \in L, kd[x].key > KeyOf(c)
               PROVE  next[c].idx = x \/ (next[c].idx # End /\ kd[next[c].idx].key < kd[x].key)
    BY <1>2 DEF NoSkip, LeadsOn
  <2>1. x \in Int /\ x >= 0 /\ x < n /\ c \in Int /\ c \in Cell
    BY <1>3 DEF Cells, Cell, EntryHead
  <2>2. c < x
    <3>1. CASE c = EntryHead
      BY <2>1, <3>1 DEF EntryHead
    <3>2. CASE c \in L
      <4>1. c # EntryHead /\ KeyOf(c) = kd[c].key /\ kd[c].key \in Int /\ kd[x].key \in Int
        BY <1>1, <1>3, <3>2 DEF EntryHead, KeyOf, Key
      <4>2. c # x /\ ~(x < c)
        BY <1>1, <3>2, <4>1
      <4> QED
        BY <2>1, <4>2
    <3> QED
      BY <3>1, <3>2 DEF Cells
  <2>3. next[c].idx = c + 1 /\ c + 1 # End
    BY <1>1, <2>1, <2>2, SizeAssumption DEF End
  <2>4. c + 1 # x => c + 1 \in Slot /\ c + 1 < x
    BY <1>3, <2>1, <2>2, SizeAssumption DEF Slot, Cell, EntryHead
  <2> QED
    BY <1>1, <2>1, <2>3, <2>4
<1>10. ASSUME NEW t \in Thread PROVE At(L, t)
  <2>1. /\ pc[t] = "idle" /\ tg[t] = NoPlace /\ call[t].kind = "idle" /\ "idle" \notin FindPC
    BY DEF Init, FindPC
  <2>2. CallInv(t) /\ SeenInv(L, t)
    BY <2>1 DEF CallInv, Deleting, SeenInv, NoPlace, NoWord, Cells, Ends
  <2>3. PlaceInv(t) /\ LinkInv(L, t) /\ MarkInv(L, t)
    BY <2>1 DEF PlaceInv, NotFound, LinkInv, AtPlace, CanPoint, MarkInv, Holding
  <2> QED
    BY <2>2, <2>3 DEF At
<1>11. \A t, u \in Thread : t # u => Meet(L, t, u)
  BY DEF Init, Meet
<1> HIDE DEF L
<1>12. Content(L)
  BY <1>4, <1>5, <1>6, <1>7, <1>8, <1>9, <1>10, <1>11 DEF Content, ListInv
<1> QED
  BY <1>2, <1>12 DEF HasList

(***************************************************************************)
(* What is proved of the list in the module before comes first.            *)
(***************************************************************************)
THEOREM ListInvariant ==
    ASSUME InsertsBelow PROVE Spec => [](TypeInv /\ PrivacyInv /\ OrderInv /\ HasList)
<1>1. HasList /\ TypeInv /\ PrivacyInv /\ OrderInv /\ TypeInv' /\ PrivacyInv' /\ OrderInv'
        /\ [Next]_vars => HasList'
  BY NextContent
<1> QED
  BY InitContent, OrderInvariant, <1>1, PTL DEF Spec

(***************************************************************************)
(* A walk along the list meets the keys that have been inserted and not    *)
(* deleted, and no others, in every state (getEntrNum, copyEntriesArray    *)
(* and noDeletedEntries walk this way): for every value of the constants   *)
(* with which no key is inserted that is larger than one deleted.          *)
(***************************************************************************)
THEOREM ContentFound ==
    ASSUME InsertsBelow PROVE Spec => []ListIsContent
<1>1. TypeInv /\ PrivacyInv /\ OrderInv /\ HasList => ListIsContent
  BY LiveAre DEF HasList, Content, OrderInv
<1> QED
  BY <1>1, ListInvariant, PTL
===============================================================================
