------------------------------ MODULE BTreeProofs ------------------------------
(***************************************************************************)
(* What the tree keeps, for any initial tree, any number of threads,       *)
(* chunks and keys and any sizes of the chunks that the code allows: the   *)
(* steps that change chunks, the start barrier, and the theorems.          *)
(***************************************************************************)
EXTENDS BTreeInvariant

(***************************************************************************)
(* A step of t that changes chunk c to y.                                  *)
(***************************************************************************)
Alike(x, y) ==
    /\ y.height = x.height /\ y.low = x.low /\ y.next = x.next /\ y.creator = x.creator
    /\ y.root => x.root \/ y.next = Null
    /\ DOMAIN x.e \subseteq DOMAIN y.e
    /\ x.frozen => y.frozen /\ EntrNum(y) >= EntrNum(x)

OnlyChunk(c, y) == chunk' = [chunk EXCEPT ![c] = y] /\ UNCHANGED <<root, top, word>>

LEMMA OneChunk ==
    ASSUME Shape, Words, NEW c \in Ids, NEW y, Sound(y), Alike(chunk[c], y), OnlyChunk(c, y)
    PROVE  Shape' /\ Words' /\ Grows /\ FinalsStay
<1>1. /\ Ids' = Ids /\ DOMAIN chunk = Ids /\ DOMAIN chunk' = Ids
      /\ chunk'[c] = y /\ \A d \in Ids \ {c} : chunk'[d] = chunk[d]
  BY DEF OnlyChunk, Shape, Ids
<1>2. ASSUME NEW d \in Ids
      PROVE  /\ H(d)' = H(d)
             /\ DOMAIN chunk[d].e \subseteq DOMAIN chunk'[d].e
             /\ chunk[d].frozen => chunk'[d].frozen
             /\ chunk'[d].low = chunk[d].low /\ chunk'[d].next = chunk[d].next
             /\ chunk'[d].creator = chunk[d].creator
             /\ chunk'[d].root => chunk[d].root \/ chunk'[d].next = Null
             /\ chunk[d].frozen => EntrNum(chunk'[d]) >= EntrNum(chunk[d])
             /\ EntrNum(chunk[d]) \in Nat /\ EntrNum(chunk'[d]) \in Nat
  <2>1. EntrNum(chunk[d]) \in Nat
    BY ChunkTyped
  <2>2. CASE d = c
    <3>1. EntrNum(y) \in Nat
      BY LinkedFinite DEF Sound
    <3> QED
      BY <1>1, <2>1, <2>2, <3>1 DEF Alike, H
  <2>3. CASE d # c
    BY <1>1, <2>1, <2>3 DEF H
  <2> QED
    BY <2>2, <2>3
<1>3. ASSUME NEW d \in Ids, MinFrozen(d) PROVE MinFrozen(d)'
  <2>1. chunk'[d].frozen /\ EntrNum(chunk'[d]) >= MinEntries
    BY <1>2, <1>3, SizeAssumption DEF MinFrozen
  <2>2. MinFrozen(d)' <=> (chunk'[d].frozen /\ EntrNum(chunk'[d]) >= MinEntries)
    BY DEF MinFrozen, EntrNum, Linked
  <2> QED
    BY <2>1, <2>2
<1>4. FinalsStay
  BY DEF OnlyChunk, FinalsStay
<1>5. Grows
  BY <1>1, <1>2, <1>3, <1>4 DEF Grows, FinalsStay
<1>6. ASSUME NEW d \in Ids PROVE Sound(chunk[d])'
  <2>1. PICK z : z = chunk'[d]
    OBVIOUS
  <2>2. Sound(z)
    BY <1>1, <2>1 DEF Shape
  <2>3. Sound(z)'
    BY <1>5, <2>2, SoundStays
  <2> QED
    BY <2>1, <2>3
<1>7. ASSUME NEW d \in Ids PROVE Related(d)'
  <2>1. Related(d)
    BY DEF Shape
  <2>2. /\ chunk[d].low # Null => chunk'[d].low \in Ids' /\ H(chunk[d].low)' = H(d)'
        /\ chunk[d].next # Null => chunk'[d].next \in Ids' /\ H(chunk[d].next)' = H(d)'
    BY <1>1, <1>2, <2>1 DEF Related
  <2>3. chunk[d].creator # Null =>
           /\ chunk'[d].creator \in Ids' /\ H(chunk[d].creator)' = H(d)'
           /\ chunk'[chunk'[d].creator].low # Null
    BY <1>1, <1>2, <2>1 DEF Related
  <2>4. chunk'[d].root => chunk'[d].next = Null
    BY <1>2, <2>1 DEF Related
  <2> QED
    BY <1>2, <2>2, <2>3, <2>4 DEF Related
<1>8. Shape'
  BY <1>1, <1>6, <1>7 DEF Shape, OnlyChunk
<1>9. Words'
  <2>1. WordType'
    BY DEF Words, WordType, OnlyChunk
  <2>2. ASSUME NEW d \in Ids PROVE WordOK(d)'
    <3>1. word'[d] = word[d] /\ WordOK(d) /\ (Bud(d) # Null => Bud(d) \in Ids)
      BY WordIs DEF OnlyChunk
    <3>2. (Bud(d) # Null => H(Bud(d)) = H(d))'
      BY <1>2, <3>1 DEF WordOK, Bud
    <3>3. (St(d) = "MERGE" => Paired(d, Bud(d)))'
      BY <3>1 DEF WordOK, Paired, St, Bud, OnlyChunk
    <3>4. (St(d) \in {"REQUEST_SLAVE", "MERGE"} => MinFrozen(d))'
      BY <1>3, <3>1 DEF WordOK, St
    <3>5. (St(d) = "SPLIT" => chunk[d].frozen /\ EntrNum(chunk[d]) >= MaxEntries)'
      <4>1. EntrNum(chunk[d])' = EntrNum(chunk'[d])
        BY DEF EntrNum, Linked
      <4> QED
        BY <1>2, <3>1, <4>1, SizeAssumption DEF WordOK, St
    <3>6. (chunk[d].low # Null => St(d) \in {"COPY", "SPLIT", "MERGE"})'
      BY <1>2, <3>1 DEF WordOK, St
    <3>7. (St(d) = "SPLIT" /\ chunk[d].low # Null => ReplacedByTwo(d))'
      <4>1. ASSUME St(d) = "SPLIT", chunk[d].low # Null PROVE ReplacedByTwo(d)'
        BY <1>5, <3>1, <4>1, TwoStays DEF WordOK, Shape
      <4> QED
        BY <1>2, <3>1, <4>1 DEF St
    <3> QED
      BY <3>2, <3>3, <3>4, <3>5, <3>6, <3>7 DEF WordOK
  <2> QED
    BY <1>1, <2>1, <2>2 DEF Words
<1> QED
  BY <1>4, <1>5, <1>8, <1>9

LEMMA OwedAre ==
    ASSUME NEW t \in Thread, OnlyOf(t), NEW d
    PROVE  /\ Owed(d)' \ {t} = Owed(d) \ {t}
           /\ t \in Owed(d)' <=> Counting(t)' /\ Now(t)'.c = d
           /\ t \in Owed(d) <=> Counting(t) /\ Now(t).c = d
<1>1. ASSUME NEW u \in Thread PROVE u \in Owed(d)' <=> Counting(u)' /\ Now(u)'.c = d
  BY DEF Owed, Counting
<1>2. ASSUME NEW u \in Thread PROVE u \in Owed(d) <=> Counting(u) /\ Now(u).c = d
  BY DEF Owed, Counting
<1>3. ASSUME NEW u \in Thread, u # t PROVE u \in Owed(d)' <=> u \in Owed(d)
  <2>1. (Counting(u)' <=> Counting(u)) /\ Now(u)' = Now(u)
    BY <1>3, Others DEF Counting
  <2> QED
    BY <1>1, <1>2, <2>1
<1>4. Owed(d) \subseteq Thread /\ Owed(d)' \subseteq Thread
  BY DEF Owed
<1> QED
  BY <1>1, <1>2, <1>3, <1>4

LEMMA OwedNumbers ==
    ASSUME NEW t \in Thread, OnlyOf(t), NEW d
    PROVE  /\ Cardinality(Owed(d)') \in Nat /\ Cardinality(Owed(d)) \in Nat
           /\ Cardinality(Owed(d)') <= Cardinality(Owed(d)) + 1
           /\ t \notin Owed(d)' => Cardinality(Owed(d)') <= Cardinality(Owed(d))
           /\ t \notin Owed(d)' /\ t \in Owed(d) => Cardinality(Owed(d)') <= Cardinality(Owed(d)) - 1
           /\ t \in Owed(d) => Cardinality(Owed(d)') <= Cardinality(Owed(d))
<1>1. PICK a, b : a = Owed(d) /\ b = Owed(d)'
  OBVIOUS
<1>2. b \ {t} = a \ {t}
  BY <1>1, OwedAre
<1>3. IsFiniteSet(a) /\ Cardinality(a) \in Nat
  BY <1>1, OwedFinite
<1>4. IsFiniteSet(a \cup {t}) /\ b \subseteq a \cup {t}
  BY <1>2, <1>3, FS_AddElement
<1>5. Cardinality(a \cup {t}) = IF t \in a THEN Cardinality(a) ELSE Cardinality(a) + 1
  BY <1>3, FS_AddElement
<1>6. IsFiniteSet(b) /\ Cardinality(b) \in Nat /\ Cardinality(b) <= Cardinality(a \cup {t})
  BY <1>4, FS_Subset, FS_CardinalityType
<1>7. ASSUME t \notin b PROVE Cardinality(b) <= Cardinality(a)
  <2>1. b \subseteq a
    BY <1>2, <1>7
  <2> QED
    BY <1>3, <2>1, FS_Subset
<1>8. ASSUME t \notin b, t \in a PROVE Cardinality(b) <= Cardinality(a) - 1
  <2>1. b = a \ {t}
    BY <1>2, <1>8
  <2> QED
    BY <1>3, <1>8, <2>1, FS_RemoveElement
<1> QED
  BY <1>1, <1>3, <1>5, <1>6, <1>7, <1>8

LEMMA CountsOne ==
    ASSUME NEW K, Shape, Counts(K), NEW c \in Ids, NEW y, OnlyChunk(c, y), Enough(K, y),
           Kept(K, y) => EntrNum(y) >= y.cnt + Cardinality(Owed(c)'),
           \A d \in Ids \ {c} : Owed(d)' \subseteq Owed(d)
    PROVE  Counts(K)'
<1>1. Ids' = Ids /\ chunk'[c] = y /\ \A d \in Ids \ {c} : chunk'[d] = chunk[d]
  BY DEF OnlyChunk, Shape, Ids
<1>2. Enough(K, chunk[c])' /\ CountsUp(K, c)'
  <2>1. Cardinality(Owed(c))' = Cardinality(Owed(c)')
    OBVIOUS
  <2> QED
    BY <1>1, <2>1 DEF Enough, CountsUp, Kept, EntrNum, Linked
<1>3. ASSUME NEW d \in Ids \ {c} PROVE Enough(K, chunk[d])' /\ CountsUp(K, d)'
  <2>1. Enough(K, chunk[d]) /\ CountsUp(K, d) /\ chunk'[d] = chunk[d]
    BY <1>1 DEF Counts
  <2>2. Cardinality(Owed(d)') <= Cardinality(Owed(d)) /\ Cardinality(Owed(d)') \in Nat /\ Cardinality(Owed(d)) \in Nat
    BY OwedFewer, OwedFinite
  <2>3. chunk[d].cnt \in Int /\ EntrNum(chunk[d]) \in Nat
    BY ChunkTyped
  <2>4. Kept(K, chunk[d]) => EntrNum(chunk[d]) >= chunk[d].cnt + Cardinality(Owed(d)')
    BY <2>1, <2>2, <2>3 DEF CountsUp
  <2>5. Cardinality(Owed(d))' = Cardinality(Owed(d)')
    OBVIOUS
  <2> QED
    BY <2>1, <2>4, <2>5 DEF Enough, CountsUp, Kept, EntrNum, Linked
<1> QED
  BY <1>1, <1>2, <1>3 DEF Counts

\* what a step that changes chunk c has to show
LEMMA ChunkKeeps ==
    ASSUME NEW K \in BOOLEAN, TreeInv(K), NEW t \in Thread, todo[t] # <<>>, NEW s, Then(t, s),
           NEW c \in Ids, NEW y, Sound(y), Alike(chunk[c], y), OnlyChunk(c, y), During(t),
           Top(K, s)', Now(t).do = "settle" => chunk'[Now(t).c].frozen,
           Owning', Holds', Counts(K)'
    PROVE  TreeInv(K)' /\ FinalsStay
<1>1. Shape /\ Words /\ Stacks(K) /\ Calls
  BY DEF TreeInv
<1>2. Shape' /\ Words' /\ Grows /\ FinalsStay
  BY <1>1, OneChunk
<1>3. Pushes(t, s)
  BY DEF Pushes, Then
<1>4. Stacks(K)'
  BY <1>1, <1>2, <1>3, StackPushed
<1>5. Calls'
  BY <1>1, CallsStay DEF During
<1> QED
  BY <1>2, <1>4, <1>5 DEF TreeInv

(***************************************************************************)
(* What the other threads are in the middle of, when chunk c changes.      *)
(***************************************************************************)
LEMMA WhereIs ==
    ASSUME NEW K, TreeInv(K), NEW u \in Thread
    PROVE  /\ Placing(u) => /\ Now(u).c \in Ids /\ H(Now(u).c) # 0
                            /\ Now(u).slot \in DOMAIN chunk[Now(u).c].e
                            /\ Now(u).own \in BOOLEAN /\ (Now(u).own \/ chunk[Now(u).c].frozen)
           /\ Counting(u) => Now(u).c \in Ids /\ H(Now(u).c) # 0 /\ Now(u).key \in Key
           /\ hold[u] # NoHold => (Placing(u) \/ Counting(u)) /\ hold[u].c = Now(u).c /\ hold[u].c \in Ids
<1>1. todo[u] # <<>> => StepOK(K, Now(u))
  BY HeadIs
<1>2. Placing(u) => StepOK(K, Now(u)) /\ Now(u).do \in {"place", "link"}
  BY <1>1, AtIs DEF Placing
<1>3. Counting(u) => StepOK(K, Now(u)) /\ Now(u).do \in {"compare", "mark"}
  BY <1>1, AtIs DEF Counting
<1>4. /\ Placing(u) => /\ Now(u).c \in Ids /\ H(Now(u).c) # 0
                       /\ Now(u).slot \in DOMAIN chunk[Now(u).c].e
                       /\ Now(u).own \in BOOLEAN /\ (Now(u).own \/ chunk[Now(u).c].frozen)
  BY <1>2 DEF StepOK
<1>5. Counting(u) => Now(u).c \in Ids /\ H(Now(u).c) # 0 /\ Now(u).key \in Key
  BY <1>3 DEF StepOK
<1>6. ASSUME hold[u] # NoHold PROVE (Placing(u) \/ Counting(u)) /\ hold[u].c = Now(u).c
  BY <1>6 DEF TreeInv, Holds, HoldOK, Placing, Counting
<1> QED
  BY <1>4, <1>5, <1>6

LEMMA LeafFree ==
    ASSUME NEW K, TreeInv(K), NEW c \in Ids, Leaf(c), NEW u \in Thread
    PROVE  /\ ~(Placing(u) /\ Now(u).c = c) /\ ~(Counting(u) /\ Now(u).c = c)
           /\ hold[u] # NoHold => hold[u].c # c
<1>1. H(c) = 0
  BY DEF Leaf, H
<1> QED
  BY <1>1, WhereIs

LEMMA OwnersOne ==
    ASSUME NEW K, TreeInv(K), NEW t \in Thread, OnlyOf(t), ~OwnsSlot(t)', NEW c \in Ids, NEW y,
           OnlyChunk(c, y), chunk[c].frozen => y.frozen,
           \A u \in Thread \ {t} : OwnsSlot(u) /\ Now(u).c = c =>
              y.frozen \/ y.e[Now(u).slot].at = "pending"
    PROVE  Owning'
<1>1. DOMAIN chunk = Ids /\ Owning /\ chunk'[c] = y /\ \A d \in Ids \ {c} : chunk'[d] = chunk[d]
  BY DEF TreeInv, Shape, OnlyChunk
<1>2. ASSUME NEW u \in Thread, OwnsSlot(u)'
      PROVE  /\ OwnsSlot(u) /\ Now(u)'.c = Now(u).c /\ Now(u)'.slot = Now(u).slot
             /\ chunk'[Now(u).c].e[Now(u).slot].at = "pending"
  <2>1. u # t
    BY <1>2
  <2>2. Now(u)' = Now(u) /\ (Placing(u)' <=> Placing(u))
    BY <2>1, Others DEF Placing
  <2>3. Placing(u) /\ Now(u).own /\ ~chunk'[Now(u).c].frozen
    BY <1>2, <2>2 DEF OwnsSlot
  <2>4. Now(u).c \in Ids
    BY <2>3, WhereIs
  <2>5. OwnsSlot(u)
    BY <1>1, <2>3, <2>4 DEF OwnsSlot
  <2>6. chunk'[Now(u).c].e[Now(u).slot].at = "pending"
    <3>1. CASE Now(u).c = c
      BY <1>1, <2>1, <2>3, <2>5, <3>1
    <3>2. CASE Now(u).c # c
      BY <1>1, <2>4, <2>5, <3>2 DEF Owning
    <3> QED
      BY <3>1, <3>2
  <2> QED
    BY <2>2, <2>5, <2>6
<1> QED
  BY <1>1, <1>2, OwningStays DEF OwnersStay

\* what u holds is good in y, the new chunk
HoldIn(u, y) ==
    /\ At(u, "link") => /\ ~Has(y, y.e[Now(u).slot].key)
                        /\ hold[u].at = PrevOf(y, y.e[Now(u).slot].key)
    /\ At(u, "mark") => ~y.frozen /\ hold[u].at \in Linked(y)

\* t holds nothing after the step, and the others what is good in y
HoldsLeft(t, c, y) ==
    /\ DOMAIN hold' = Thread /\ hold'[t] = NoHold
    /\ \A u \in Thread \ {t} :
          /\ hold'[u] = hold[u] \/ hold'[u] = NoHold
          /\ hold'[u] # NoHold /\ hold[u].c = c => HoldIn(u, y)

LEMMA HoldsOne ==
    ASSUME NEW K, TreeInv(K), NEW t \in Thread, OnlyOf(t), NEW c \in Ids, NEW y, OnlyChunk(c, y),
           HoldsLeft(t, c, y)
    PROVE  Holds'
<1>1. DOMAIN chunk = Ids /\ chunk'[c] = y /\ \A d \in Ids \ {c} : chunk'[d] = chunk[d]
  BY DEF TreeInv, Shape, OnlyChunk
<1>2. ASSUME NEW u \in Thread, hold'[u] # NoHold PROVE HoldOK(u)'
  <2>1. u # t /\ hold'[u] = hold[u]
    BY <1>2 DEF HoldsLeft
  <2>2. /\ Now(u)' = Now(u)
        /\ At(u, "link")' <=> At(u, "link")
        /\ At(u, "mark")' <=> At(u, "mark")
    BY <2>1, Others
  <2>3. HoldOK(u) /\ hold[u].c \in Ids
    BY <1>2, <2>1, WhereIs DEF TreeInv, Holds
  <2>4. CASE hold[u].c # c
    <3>1. chunk'[hold[u].c] = chunk[hold[u].c]
      BY <1>1, <2>3, <2>4
    <3> QED
      BY <2>1, <2>2, <2>3, <3>1 DEF HoldOK, Linked
  <2>5. CASE hold[u].c = c
    <3>1. HoldIn(u, y) /\ chunk'[hold[u].c] = y
      BY <1>1, <1>2, <2>1, <2>5 DEF HoldsLeft
    <3> QED
      BY <2>1, <2>2, <2>3, <3>1 DEF HoldOK, HoldIn, Linked
  <2> QED
    BY <2>4, <2>5
<1> QED
  BY <1>2 DEF Holds, HoldsLeft

\* y has the same entries in its list as x
SameLinks(x, y) ==
    /\ y \in ChunkRecord /\ Linked(y) = Linked(x) /\ y.frozen = x.frozen
    /\ \A i \in Linked(x) : y.e[i].key = x.e[i].key

LEMMA HoldSame ==
    ASSUME NEW K, TreeInv(K), NEW c \in Ids, NEW y, SameLinks(chunk[c], y),
           NEW u \in Thread, hold[u] # NoHold, hold[u].c = c,
           At(u, "link") => y.e[Now(u).slot].key = chunk[c].e[Now(u).slot].key
    PROVE  HoldIn(u, y)
<1>1. HoldOK(u) /\ chunk[c] \in ChunkRecord /\ Now(u).c = c
  BY ChunkTyped, WhereIs DEF TreeInv, Holds
<1>2. CASE At(u, "link")
  <2>1. PICK k : k = chunk[c].e[Now(u).slot].key
    OBVIOUS
  <2>2. ~Has(chunk[c], k) /\ hold[u].at = PrevOf(chunk[c], k)
    BY <1>1, <1>2, <2>1 DEF HoldOK
  <2>3. k \in Key
    BY <1>1, <1>2, <2>1, WhereIs, EntriesAre DEF Placing
  <2>4. ~Has(y, k) /\ PrevOf(y, k) = PrevOf(chunk[c], k)
    BY <1>1, <2>2, <2>3, SameList DEF SameLinks
  <2>5. ~At(u, "mark")
    BY <1>2 DEF At
  <2> QED
    BY <1>2, <2>1, <2>2, <2>4, <2>5 DEF HoldIn
<1>3. CASE ~At(u, "link")
  BY <1>1, <1>3 DEF HoldIn, HoldOK, SameLinks
<1> QED
  BY <1>2, <1>3

\* the debts of a chunk without that of t
Rest(t, c) == IF t \in Owed(c) THEN Cardinality(Owed(c)) - 1 ELSE Cardinality(Owed(c))

\* when t is in the middle of nothing afterwards
LEMMA EasyKeeps ==
    ASSUME NEW K \in BOOLEAN, TreeInv(K), NEW t \in Thread, todo[t] # <<>>, Now(t).do # "settle",
           NEW s, Easy(K, s), Then(t, s),
           NEW c \in Ids, NEW y, Sound(y), Alike(chunk[c], y), OnlyChunk(c, y), During(t),
           Enough(K, y), Kept(K, y) => EntrNum(y) >= y.cnt + Rest(t, c),
           \A u \in Thread \ {t} : OwnsSlot(u) /\ Now(u).c = c =>
              y.frozen \/ y.e[Now(u).slot].at = "pending",
           HoldsLeft(t, c, y)
    PROVE  TreeInv(K)' /\ FinalsStay
<1>1. Shape /\ Words /\ Stacks(K) /\ Counts(K)
  BY DEF TreeInv
<1>2. Grows
  BY <1>1, OneChunk
<1>3. Pushes(t, s) /\ IsSeq(s) /\ Top(K, s)
  BY DEF Pushes, Then, Easy, Top
<1>4. OnlyOf(t) /\ Idle(t)'
  BY <1>1, <1>3, Heads, HeadIdle
<1>5. Top(K, s)'
  BY <1>1, <1>2, <1>3, TopStays
<1>6. Owning'
  <2>1. ~OwnsSlot(t)'
    BY <1>4 DEF Idle, Plain, OwnsSlot, Placing, At, Now
  <2> QED
    BY <1>4, <2>1, OwnersOne DEF Alike
<1>7. Holds'
  BY <1>4, HoldsOne
<1>8. ~Counting(t)'
  BY <1>4 DEF Idle, Plain, Counting, At, Now
<1>9. Counts(K)'
  <2>1. \A d \in Ids \ {c} : Owed(d)' \subseteq Owed(d)
    BY <1>4, <1>8, OwedAre
  <2>2. t \notin Owed(c)'
    BY <1>4, <1>8, OwedAre
  <2>3. /\ Cardinality(Owed(c)') <= Rest(t, c)
        /\ Cardinality(Owed(c)') \in Nat /\ Rest(t, c) \in Int
    BY <1>4, <2>2, OwedNumbers DEF Rest
  <2>4. y.cnt \in Int /\ EntrNum(y) \in Nat
    BY EntriesAre, LinkedFinite DEF Sound
  <2>5. Kept(K, y) => EntrNum(y) >= y.cnt + Cardinality(Owed(c)')
    BY <2>3, <2>4
  <2> QED
    BY <1>1, <2>1, <2>5, CountsOne
<1> QED
  BY <1>5, <1>6, <1>7, <1>9, ChunkKeeps

LEMMA LeafKeeps ==
    ASSUME NEW K \in BOOLEAN, TreeInv(K), NEW t \in Thread, todo[t] # <<>>,
           Now(t).do \notin {"settle", "link", "mark"}, NEW s, Easy(K, s), Then(t, s),
           NEW c \in Ids, Leaf(c), NEW y, Sound(y), Alike(chunk[c], y), OnlyChunk(c, y), During(t),
           Enough(K, y), EntrNum(y) >= y.cnt, UNCHANGED hold
    PROVE  TreeInv(K)' /\ FinalsStay
<1>1. Owed(c) = {}
  BY LeafFree DEF Owed, Counting
<1>2. Rest(t, c) = 0
  BY <1>1, FS_EmptySet DEF Rest
<1>3. y.cnt \in Int /\ EntrNum(y) \in Nat
  BY EntriesAre, LinkedFinite DEF Sound
<1>4. \A u \in Thread \ {t} : ~(OwnsSlot(u) /\ Now(u).c = c)
  BY LeafFree DEF OwnsSlot
<1>5. HoldsLeft(t, c, y)
  <2>1. hold[t] = NoHold
    BY HeadIs
  <2> QED
    BY <2>1, LeafFree DEF HoldsLeft, TreeInv, Holds
<1>6. Kept(K, y) => EntrNum(y) >= y.cnt + Rest(t, c)
  BY <1>2, <1>3
<1> QED
  BY <1>4, <1>5, <1>6, EasyKeeps

LEMMA FrameAlike ==
    ASSUME NEW x, NEW y, Frame(x, y), DOMAIN x.e \subseteq DOMAIN y.e,
           x.frozen => EntrNum(y) >= EntrNum(x)
    PROVE  Alike(x, y)
BY DEF Frame, Alike

LEMMA CallOfIs ==
    ASSUME NEW i, NEW h, i.key \in Key, Fits(h, i.data)
    PROVE  /\ CallOK(h, CallOf(i, "INSERT", 0))
           /\ h # 0 => CallOK(h, CallOf(i, "SWAP", i.exp))
BY DEF CallOf, CallOK

LEMMA CallOfDelete ==
    ASSUME NEW i, NEW h, i.key \in Key PROVE CallOK(h, CallOf(i, "DELETE", 0))
BY DEF CallOf, CallOK

\* the numbers of a chunk
LEMMA Numbers ==
    ASSUME NEW K, Shape, Counts(K), NEW c \in Ids, NEW t
    PROVE  /\ chunk[c].cnt \in Int /\ EntrNum(chunk[c]) \in Nat /\ Rest(t, c) \in Int
           /\ Cardinality(Owed(c)) \in Nat
           /\ Kept(K, chunk[c]) => EntrNum(chunk[c]) >= chunk[c].cnt + Cardinality(Owed(c))
           /\ Enough(K, chunk[c])
           /\ t \in Owed(c) => Rest(t, c) = Cardinality(Owed(c)) - 1
           /\ t \notin Owed(c) => Rest(t, c) = Cardinality(Owed(c))
BY ChunkTyped, OwedFinite DEF Counts, CountsUp, Rest

(***************************************************************************)
(* insertToChunk.                                                          *)
(***************************************************************************)
LEMMA InsertLeafKeeps ==
    ASSUME NEW K \in BOOLEAN, TreeInv(K), NEW t \in Thread, During(t),
           todo[t] # <<>>, Now(t).do = "insert",
           NEW c \in Ids, Leaf(c), ~chunk[c].frozen, NEW k \in Key, NEW d, Fits(H(c), d),
           OnlyChunk(c, Put(chunk[c], k, d, "linked")), Then(t, <<Respond(TRUE)>>), UNCHANGED hold
    PROVE  TreeInv(K)' /\ FinalsStay
<1>1. Shape /\ Counts(K)
  BY DEF TreeInv
<1>2. PICK x : x = chunk[c]
  OBVIOUS
<1>3. PICK y : y = Put(x, k, d, "linked")
  OBVIOUS
<1>4. PICK n : n = FreeSlot(x)
  OBVIOUS
<1>5. x \in ChunkRecord /\ Sound(x) /\ x.height = H(c) /\ x.height = 0 /\ ~x.frozen
  BY <1>1, <1>2, ChunkTyped DEF Leaf, H
<1>6. d \in Thread \cup {Null} \cup ChunkId
  BY <1>1, FitsType DEF DataType
<1>7. Added(x, y, n, k, d, "linked")
  BY <1>3, <1>4, <1>5, <1>6, PutIs
<1>8. EntrNum(y) = EntrNum(x) + 1 /\ y.cnt = x.cnt + 1
  BY <1>5, <1>7, AddedLinks DEF Added
<1>9. Sound(y)
  BY <1>5, <1>7, SoundAdded
<1>10. Alike(x, y) /\ y.root = x.root /\ y.height = 0
  <2>1. Frame(x, y) /\ DOMAIN x.e \subseteq DOMAIN y.e
    BY <1>7 DEF Added
  <2> QED
    BY <1>5, <2>1, FrameAlike DEF Frame
<1>11. /\ x.cnt \in Int /\ EntrNum(x) \in Nat /\ Cardinality(Owed(c)) \in Nat
       /\ EntrNum(x) >= x.cnt + Cardinality(Owed(c)) /\ (x.root \/ x.cnt >= MinEntries)
  <2>1. Kept(K, x)
    BY <1>5 DEF Kept
  <2> QED
    BY <1>1, <1>2, <2>1, Numbers DEF Enough
<1>12. EntrNum(y) >= y.cnt /\ Enough(K, y)
  <2>1. y.root \/ y.cnt >= MinEntries
    BY <1>8, <1>10, <1>11, SizeAssumption
  <2>2. EntrNum(y) >= y.cnt
    BY <1>8, <1>11
  <2> QED
    BY <2>1, <2>2 DEF Enough
<1>13. PICK s : s = <<Respond(TRUE)>>
  OBVIOUS
<1>14. Easy(K, s)
  BY <1>13, GoodRespond, Good1, EasyIs
<1> QED
  BY <1>2, <1>3, <1>9, <1>10, <1>12, <1>13, <1>14, LeafKeeps

\* nobody else has the slot that an entry of an inner chunk gets
LEMMA NotFree ==
    ASSUME NEW K, TreeInv(K), NEW c \in Ids, ~chunk[c].frozen, NEW u \in Thread, Placing(u), Now(u).c = c
    PROVE  /\ OwnsSlot(u) /\ Now(u).slot \in DOMAIN chunk[c].e
           /\ chunk[c].e[Now(u).slot].at = "pending"
<1>1. Now(u).slot \in DOMAIN chunk[c].e /\ Now(u).own
  BY WhereIs
<1>2. OwnsSlot(u)
  BY <1>1 DEF OwnsSlot
<1> QED
  BY <1>1, <1>2 DEF TreeInv, Owning

LEMMA InsertInnerKeeps ==
    ASSUME NEW K \in BOOLEAN, TreeInv(K), NEW t \in Thread, During(t),
           todo[t] # <<>>, Now(t).do = "insert",
           NEW c \in Ids, ~Leaf(c), ~chunk[c].frozen, NEW k \in Key, NEW d, Fits(H(c), d),
           OnlyChunk(c, Put(chunk[c], k, d, "pending")),
           Then(t, <<Place(c, FreeSlot(chunk[c]), TRUE)>>), UNCHANGED hold
    PROVE  TreeInv(K)' /\ FinalsStay
<1>1. Shape /\ Counts(K) /\ Words /\ Stacks(K) /\ Holds /\ Owning
  BY DEF TreeInv
<1>2. PICK x : x = chunk[c]
  OBVIOUS
<1>3. PICK y : y = Put(x, k, d, "pending")
  OBVIOUS
<1>4. PICK n : n = FreeSlot(x)
  OBVIOUS
<1>5. x \in ChunkRecord /\ Sound(x) /\ x.height = H(c) /\ x.height # 0 /\ ~x.frozen
  BY <1>1, <1>2, ChunkTyped DEF Leaf, H
<1>6. d \in Thread \cup {Null} \cup ChunkId
  BY <1>1, FitsType DEF DataType
<1>7. Added(x, y, n, k, d, "pending")
  BY <1>3, <1>4, <1>5, <1>6, PutIs
<1>8. Linked(y) = Linked(x) /\ EntrNum(y) = EntrNum(x) /\ y.cnt = x.cnt
  BY <1>5, <1>7, AddedLinks DEF Added
<1>9. Sound(y)
  BY <1>5, <1>7, SoundAdded
<1>10. /\ Alike(x, y) /\ Frame(x, y) /\ y.frozen = x.frozen /\ n \in DOMAIN y.e /\ y.e[n].at = "pending"
       /\ \A j \in DOMAIN x.e \ {n} : y.e[j] = x.e[j]
  <2>1. Frame(x, y) /\ DOMAIN x.e \subseteq DOMAIN y.e
    BY <1>7 DEF Added
  <2> QED
    BY <1>5, <1>7, <2>1, FrameAlike DEF Frame, Added
<1>11. OnlyChunk(c, y) /\ Shape' /\ Words' /\ Grows
  BY <1>1, <1>2, <1>3, <1>9, <1>10, OneChunk
<1>12. chunk'[c] = y /\ \A e \in Ids \ {c} : chunk'[e] = chunk[e]
  BY <1>1, <1>11 DEF OnlyChunk, Shape
<1>13. PICK p : p = Place(c, n, TRUE)
  OBVIOUS
<1>14. p.do = "place" /\ p.c = c /\ p.slot = n /\ p.own = TRUE
  BY <1>13 DEF Place
<1>15. PICK s : s = <<p>>
  OBVIOUS
<1>16. Then(t, s)
  BY <1>2, <1>4, <1>13, <1>15
<1>17. Top(K, s)'
  <2>1. c \in Ids' /\ H(c)' # 0 /\ n \in DOMAIN chunk'[c].e
    BY <1>5, <1>10, <1>11, <1>12 DEF Grows
  <2>2. StepOK(K, p)'
    BY <1>14, <2>1 DEF StepOK, Steps
  <2> QED
    BY <1>14, <1>15, <2>2, SeqOf1 DEF Top, IsSeq
<1>18. /\ OnlyOf(t) /\ Now(t)' = p /\ todo'[t] # <<>>
       /\ At(t, "place")' /\ ~Counting(t)' /\ ~At(t, "link")' /\ ~At(t, "mark")'
  <2>1. Pushes(t, s) /\ IsSeq(s) /\ s # <<>> /\ s[1] = p
    BY <1>15, <1>16, SeqOf1 DEF Pushes, Then
  <2>2. OnlyOf(t) /\ Now(t)' = p /\ todo'[t] # <<>>
    BY <1>1, <2>1, Heads DEF Now
  <2> QED
    BY <1>14, <2>2 DEF At, Now, Counting
<1>19. ASSUME NEW u \in Thread, Placing(u), Now(u).c = c
       PROVE  /\ Now(u).slot # n /\ Now(u).slot \in DOMAIN x.e
              /\ y.e[Now(u).slot] = x.e[Now(u).slot] /\ x.e[Now(u).slot].at = "pending"
  <2>1. Now(u).slot \in DOMAIN x.e /\ x.e[Now(u).slot].at = "pending"
    BY <1>2, <1>19, NotFree
  <2>2. Now(u).slot # n
    BY <1>7, <2>1 DEF Added
  <2> QED
    BY <1>10, <2>1, <2>2
<1>20. Owning'
  <2>1. ASSUME NEW u \in Thread, u # t, OwnsSlot(u)'
        PROVE  /\ OwnsSlot(u) /\ Now(u)' = Now(u) /\ Now(u).c \in Ids
               /\ chunk'[Now(u).c].e[Now(u).slot].at = "pending"
               /\ Now(u).c = c => Now(u).slot # n
    <3>1. Now(u)' = Now(u) /\ (Placing(u)' <=> Placing(u))
      BY <1>18, <2>1, Others DEF Placing
    <3>2. Placing(u) /\ Now(u).own /\ ~chunk'[Now(u).c].frozen /\ Now(u).c \in Ids
      BY <2>1, <3>1, WhereIs DEF OwnsSlot
    <3>3. OwnsSlot(u)
      BY <1>2, <1>5, <1>12, <3>2 DEF OwnsSlot
    <3>4. CASE Now(u).c = c
      BY <1>12, <1>19, <3>1, <3>2, <3>3, <3>4
    <3>5. CASE Now(u).c # c
      BY <1>1, <1>12, <3>1, <3>2, <3>3, <3>5 DEF Owning
    <3> QED
      BY <3>4, <3>5
  <2>2. chunk'[Now(t)'.c].e[Now(t)'.slot].at = "pending"
    BY <1>10, <1>12, <1>14, <1>18
  <2>3. ASSUME NEW u \in Thread, NEW v \in Thread, OwnsSlot(u)', OwnsSlot(v)', u # v
        PROVE  Now(u)'.c # Now(v)'.c \/ Now(u)'.slot # Now(v)'.slot
    <3>1. CASE u = t
      BY <1>14, <1>18, <2>1, <2>3, <3>1
    <3>2. CASE v = t
      BY <1>14, <1>18, <2>1, <2>3, <3>2
    <3>3. CASE u # t /\ v # t
      BY <1>1, <2>1, <2>3, <3>3 DEF Owning
    <3> QED
      BY <3>1, <3>2, <3>3
  <2>4. ASSUME NEW u \in Thread, OwnsSlot(u)' PROVE chunk'[Now(u)'.c].e[Now(u)'.slot].at = "pending"
    <3>1. CASE u = t
      BY <2>2, <3>1
    <3>2. CASE u # t
      BY <2>1, <2>4, <3>2
    <3> QED
      BY <3>1, <3>2
  <2> QED
    BY <2>3, <2>4 DEF Owning
<1>21. Holds'
  <2>1. hold[t] = NoHold
    BY HeadIs
  <2>2. SameLinks(x, y)
    <3>1. n \notin Linked(x) /\ Linked(x) \subseteq DOMAIN x.e
      BY <1>7 DEF Added, Linked
    <3> QED
      BY <1>7, <1>8, <1>10, <3>1 DEF SameLinks, Added
  <2>3. ASSUME NEW u \in Thread \ {t}, hold[u] # NoHold, hold[u].c = c PROVE HoldIn(u, y)
    <3>1. At(u, "link") => y.e[Now(u).slot] = x.e[Now(u).slot]
      BY <1>19, <2>3, WhereIs DEF Placing
    <3> QED
      BY <1>2, <2>2, <2>3, <3>1, HoldSame
  <2>4. HoldsLeft(t, c, y)
    BY <1>1, <2>1, <2>3 DEF HoldsLeft, Holds
  <2> QED
    BY <1>11, <1>18, <2>4, HoldsOne
<1>22. Counts(K)'
  <2>1. \A e \in Ids : Owed(e)' \subseteq Owed(e)
    BY <1>18, OwedAre
  <2>2. Cardinality(Owed(c)') <= Cardinality(Owed(c)) /\ Cardinality(Owed(c)') \in Nat
    BY <2>1, OwedFewer
  <2>3. Enough(K, y) /\ (Kept(K, y) <=> Kept(K, x))
    BY <1>1, <1>2, <1>8, <1>10, Numbers DEF Enough, Kept, Frame
  <2>4. Kept(K, y) => EntrNum(y) >= y.cnt + Cardinality(Owed(c)')
    <3>1. /\ x.cnt \in Int /\ EntrNum(x) \in Nat /\ Cardinality(Owed(c)) \in Nat
          /\ Kept(K, x) => EntrNum(x) >= x.cnt + Cardinality(Owed(c))
      BY <1>1, <1>2, Numbers
    <3> QED
      BY <1>8, <2>2, <2>3, <3>1
  <2> QED
    BY <1>1, <1>11, <2>1, <2>3, <2>4, CountsOne
<1> QED
  BY <1>2, <1>9, <1>10, <1>11, <1>16, <1>17, <1>20, <1>21, <1>22, ChunkKeeps

LEMMA InsertKeeps ==
    ASSUME NEW K \in BOOLEAN, TreeInv(K), NEW t \in Thread, InsertStep(t), During(t)
    PROVE  TreeInv(K)' /\ FinalsStay
<1>1. Shape
  BY DEF TreeInv
<1>2. todo[t] # <<>> /\ Now(t).do = "insert" /\ StepOK(K, Now(t))
  BY AtIs, HeadIs DEF InsertStep
<1>3. PICK i : i = Now(t)
  OBVIOUS
<1>4. PICK c \in Ids : c = i.c
  BY <1>2, <1>3 DEF StepOK
<1>5. i.key \in Key /\ Fits(H(c), i.data)
  BY <1>2, <1>3, <1>4 DEF StepOK
<1>6. CASE Privately(t, <<Freeze(c, CallOf(i, "INSERT", 0))>>)
  <2>1. PICK w : w = CallOf(i, "INSERT", 0)
    OBVIOUS
  <2>2. CallOK(H(c), w)
    BY <1>5, <2>1, CallOfIs
  <2>3. AllGood(K, <<Freeze(c, w)>>)
    BY <2>2, GoodCalls, Good1
  <2> QED
    BY <1>2, <1>6, <2>1, <2>3, PrivateKeeps
<1>7. CASE Privately(t, <<Respond(FALSE)>>)
  <2>1. AllGood(K, <<Respond(FALSE)>>)
    BY GoodRespond, Good1
  <2> QED
    BY <1>2, <1>7, <2>1, PrivateKeeps
<1>8. CASE /\ ~chunk[c].frozen /\ Leaf(c)
           /\ chunk' = [chunk EXCEPT ![c] = Put(chunk[c], i.key, i.data, "linked")]
           /\ Then(t, <<Respond(TRUE)>>) /\ UNCHANGED <<root, top, word, hold, fault>>
  <2>1. OnlyChunk(c, Put(chunk[c], i.key, i.data, "linked")) /\ UNCHANGED hold
    BY <1>8 DEF OnlyChunk
  <2> QED
    BY <1>2, <1>5, <1>8, <2>1, InsertLeafKeeps
<1>9. CASE /\ ~chunk[c].frozen /\ ~Leaf(c)
           /\ chunk' = [chunk EXCEPT ![c] = Put(chunk[c], i.key, i.data, "pending")]
           /\ Then(t, <<Place(c, FreeSlot(chunk[c]), TRUE)>>) /\ UNCHANGED <<root, top, word, hold, fault>>
  <2>1. OnlyChunk(c, Put(chunk[c], i.key, i.data, "pending")) /\ UNCHANGED hold
    BY <1>9 DEF OnlyChunk
  <2> QED
    BY <1>2, <1>5, <1>9, <2>1, InsertInnerKeeps
<1> QED
  BY <1>3, <1>4, <1>6, <1>7, <1>8, <1>9 DEF InsertStep

(***************************************************************************)
(* insertEntry in an inner chunk.                                          *)
(***************************************************************************)
LEMMA OneField ==
    ASSUME NEW x, x \in ChunkRecord, NEW f, NEW n
    PROVE  /\ [x EXCEPT !.e = f] = [x EXCEPT !.e = f, !.cnt = x.cnt]
           /\ [[x EXCEPT !.e = f] EXCEPT !.cnt = n] = [x EXCEPT !.e = f, !.cnt = n]
           /\ [x EXCEPT !.e = f].cnt = x.cnt
BY DEF ChunkRecord

LEMMA SetAtIs ==
    ASSUME NEW c \in DOMAIN chunk, chunk[c] \in ChunkRecord, NEW i, NEW a
    PROVE  [chunk EXCEPT ![c].e[i].at = a] = [chunk EXCEPT ![c] = SetAt(chunk[c], i, a, chunk[c].cnt)]
<1>1. PICK x : x = chunk[c]
  OBVIOUS
<1>2. PICK f : f = [x.e EXCEPT ![i] = [x.e[i] EXCEPT !.at = a]]
  OBVIOUS
<1>3. [chunk EXCEPT ![c].e[i].at = a] = [chunk EXCEPT ![c] = [x EXCEPT !.e = f]]
  BY <1>1, <1>2
<1>4. [x EXCEPT !.e = f] = SetAt(x, i, a, x.cnt)
  BY <1>1, <1>2, OneField DEF SetAt
<1> QED
  BY <1>1, <1>3, <1>4

\* what t may hold when its next step is p
HoldFor(h, p) ==
    h # NoHold =>
        /\ h.c = p.c
        /\ \/ p.do = "link" /\ ~Has(chunk[p.c], chunk[p.c].e[p.slot].key)
              /\ h.at = PrevOf(chunk[p.c], chunk[p.c].e[p.slot].key)
           \/ p.do = "mark" /\ ~chunk[p.c].frozen /\ h.at \in Linked(chunk[p.c])

\* t goes on with what it is in the middle of
LEMMA ContinueKeeps ==
    ASSUME NEW K \in BOOLEAN, TreeInv(K), NEW t \in Thread, todo[t] # <<>>,
           NEW p, StepOK(K, p), Then(t, <<p>>), UNCHANGED <<root, top, chunk, word>>, During(t),
           p.c = Now(t).c,
           \/ /\ Placing(t) /\ p.do \in {"place", "link"} /\ p.slot = Now(t).slot /\ p.own = Now(t).own
           \/ Counting(t) /\ p.do \in {"compare", "mark"},
           DOMAIN hold' = Thread, \A u \in Thread \ {t} : hold'[u] = hold[u], HoldFor(hold'[t], p)
    PROVE  TreeInv(K)' /\ FinalsStay
<1>1. Shape /\ Words /\ Stacks(K) /\ Calls /\ Holds /\ Owning /\ Counts(K)
  BY DEF TreeInv
<1>2. Words' /\ FinalsStay
  BY <1>1, WordsQuiet
<1>3. Grows
  BY <1>1, <1>2, GrowsQuiet
<1>4. Now(t).do # "settle" /\ p.do # "decide"
  BY AtIs DEF Placing, Counting
<1>5. PICK s : s = <<p>>
  OBVIOUS
<1>6. IsSeq(s) /\ s # <<>> /\ s[1] = p /\ Pushes(t, s)
  BY <1>5, SeqOf1 DEF Pushes, Then
<1>7. Top(K, s)
  BY <1>4, <1>5, TopOf1
<1>8. Stacks(K)'
  BY <1>1, <1>3, <1>4, <1>6, <1>7, TopStays, StackPushed
<1>9. OnlyOf(t) /\ Now(t)' = p /\ todo'[t] # <<>>
  BY <1>1, <1>6, Heads DEF Now
<1>10. /\ At(t, "place")' <=> p.do = "place"
       /\ At(t, "link")' <=> p.do = "link"
       /\ At(t, "compare")' <=> p.do = "compare"
       /\ At(t, "mark")' <=> p.do = "mark"
  BY <1>9 DEF At, Now
<1>11. Continues(t)
  BY <1>9, <1>10 DEF Continues, Placing, Counting
<1>12. Shape'
  BY <1>1, ShapeQuiet DEF Shape
<1>13. Owning'
  BY <1>1, <1>9, <1>11, OwnersQuiet, OwningStays
<1>14. Holds'
  <2>1. ASSUME NEW u \in Thread, u # t, hold'[u] # NoHold PROVE HoldOK(u)'
    <3>1. HoldOK(u) /\ hold'[u] = hold[u]
      BY <1>1, <2>1 DEF Holds
    <3>2. /\ Now(u)' = Now(u)
          /\ At(u, "link")' <=> At(u, "link")
          /\ At(u, "mark")' <=> At(u, "mark")
      BY <1>9, <2>1, Others
    <3> QED
      BY <3>1, <3>2 DEF HoldOK
  <2>2. ASSUME hold'[t] # NoHold PROVE HoldOK(t)'
    BY <1>9, <1>10, <2>2 DEF HoldOK, HoldFor
  <2> QED
    BY <2>1, <2>2 DEF Holds
<1>15. Counts(K)'
  <2>1. \A c \in Ids : Owed(c)' \subseteq Owed(c)
    BY <1>9, <1>11, OwedKept
  <2> QED
    BY <1>1, <2>1, CountsQuiet
<1>16. Calls'
  BY <1>1, CallsStay DEF During
<1> QED
  BY <1>2, <1>8, <1>12, <1>13, <1>14, <1>15, <1>16 DEF TreeInv

\* the entry of t turns out not to be needed
LEMMA ClearKeeps ==
    ASSUME NEW K \in BOOLEAN, TreeInv(K), NEW t \in Thread, During(t),
           At(t, "place"), NEW c \in Ids, c = Now(t).c, ~chunk[c].frozen, NEW i, i = Now(t).slot,
           OnlyChunk(c, SetAt(chunk[c], i, "free", chunk[c].cnt)), Then(t, <<>>), UNCHANGED hold
    PROVE  TreeInv(K)' /\ FinalsStay
<1>1. Shape /\ Counts(K) /\ Holds /\ Owning
  BY DEF TreeInv
<1>2. todo[t] # <<>> /\ Now(t).do = "place" /\ Placing(t)
  BY AtIs DEF Placing
<1>3. PICK x : x = chunk[c]
  OBVIOUS
<1>4. PICK y : y = SetAt(x, i, "free", x.cnt)
  OBVIOUS
<1>5. x \in ChunkRecord /\ Sound(x) /\ ~x.frozen /\ x.cnt \in Int
  BY <1>1, <1>3, ChunkTyped
<1>6. i \in DOMAIN x.e /\ x.e[i].at = "pending" /\ OwnsSlot(t)
  BY <1>2, <1>3, NotFree
<1>7. Reset(x, y, i, "free") /\ y.cnt = x.cnt
  BY <1>4, <1>5, <1>6, ResetIs DEF States
<1>8. Linked(y) = Linked(x) /\ EntrNum(y) = EntrNum(x)
  <2>1. i \notin Linked(x)
    BY <1>6 DEF Linked
  <2> QED
    BY <1>5, <1>6, <1>7, <2>1, ResetLinks DEF States
<1>9. Sound(y)
  BY <1>5, <1>7, SoundReset
<1>10. Frame(x, y) /\ DOMAIN y.e = DOMAIN x.e /\ y \in ChunkRecord
  BY <1>7 DEF Reset
<1>11. Alike(x, y)
  BY <1>5, <1>10, FrameAlike
<1>12. Enough(K, y) /\ (Kept(K, y) => EntrNum(y) >= y.cnt + Rest(t, c))
  <2>1. ~Counting(t)
    BY <1>2 DEF Counting, At, Now
  <2>2. t \notin Owed(c)
    BY <2>1 DEF Owed, Counting
  <2> QED
    BY <1>1, <1>3, <1>7, <1>8, <1>10, <2>2, Numbers DEF Enough, Kept, Frame
<1>13. ASSUME NEW u \in Thread \ {t}, OwnsSlot(u), Now(u).c = c PROVE y.e[Now(u).slot].at = "pending"
  <2>1. Now(u).slot # i
    BY <1>1, <1>6, <1>13 DEF Owning
  <2>2. Now(u).slot \in DOMAIN x.e /\ x.e[Now(u).slot].at = "pending"
    BY <1>3, <1>13, NotFree DEF OwnsSlot
  <2> QED
    BY <1>7, <2>1, <2>2 DEF Reset
<1>14. HoldsLeft(t, c, y)
  <2>1. hold[t] = NoHold
    BY <1>2, HeadIs
  <2>2. SameLinks(x, y)
    BY <1>7, <1>8, <1>10 DEF SameLinks, Frame, Reset, Linked
  <2>3. ASSUME NEW u \in Thread \ {t}, hold[u] # NoHold, hold[u].c = c PROVE HoldIn(u, y)
    <3>1. At(u, "link") => Now(u).slot \in DOMAIN x.e
      BY <1>3, <2>3, WhereIs DEF Placing
    <3>2. At(u, "link") => y.e[Now(u).slot].key = x.e[Now(u).slot].key
      BY <1>7, <3>1 DEF Reset
    <3> QED
      BY <1>3, <2>2, <2>3, <3>2, HoldSame
  <2> QED
    BY <1>1, <2>1, <2>3 DEF HoldsLeft, Holds
<1>15. PICK s : s = <<>>
  OBVIOUS
<1>16. Easy(K, s) /\ Then(t, s)
  BY <1>15, Good0, EasyIs
<1>17. OnlyChunk(c, y)
  BY <1>3, <1>4
<1> QED
  BY <1>2, <1>3, <1>9, <1>11, <1>12, <1>13, <1>14, <1>16, <1>17, EasyKeeps

LEMMA PlaceKeeps ==
    ASSUME NEW K \in BOOLEAN, TreeInv(K), NEW t \in Thread, PlaceStep(t), During(t)
    PROVE  TreeInv(K)' /\ FinalsStay
<1>1. Shape
  BY DEF TreeInv
<1>2. At(t, "place") /\ todo[t] # <<>> /\ Now(t).do = "place" /\ StepOK(K, Now(t)) /\ Placing(t)
  BY AtIs, HeadIs DEF PlaceStep, Placing
<1>3. PICK c \in Ids : c = Now(t).c
  BY <1>2 DEF StepOK
<1>4. PICK i : i = Now(t).slot
  OBVIOUS
<1>5. PICK own : own = Now(t).own
  OBVIOUS
<1>6. H(c) # 0 /\ i \in DOMAIN chunk[c].e /\ own \in BOOLEAN /\ (own \/ chunk[c].frozen)
  BY <1>2, <1>3, <1>4, <1>5 DEF StepOK
<1>7. CASE Privately(t, <<>>)
  BY <1>2, <1>7, PrivateKeeps, Good0
<1>8. CASE Privately(t, <<Freeze(c, NoCall)>>)
  <2>1. CallOK(H(c), NoCall)
    BY DEF CallOK, NoCall
  <2>2. AllGood(K, <<Freeze(c, NoCall)>>)
    BY <2>1, GoodCalls, Good1
  <2> QED
    BY <1>2, <1>8, <2>2, PrivateKeeps
<1>9. CASE /\ ~chunk[c].frozen
           /\ chunk' = [chunk EXCEPT ![c].e[i].at = "free"]
           /\ Then(t, <<>>) /\ UNCHANGED <<root, top, word, hold, fault>>
  <2>1. c \in DOMAIN chunk /\ chunk[c] \in ChunkRecord
    BY <1>1, ChunkTyped DEF Shape
  <2>2. OnlyChunk(c, SetAt(chunk[c], i, "free", chunk[c].cnt))
    BY <1>9, <2>1, SetAtIs DEF OnlyChunk
  <2> QED
    BY <1>2, <1>3, <1>4, <1>9, <2>2, ClearKeeps
<1>10. CASE /\ ~Has(chunk[c], chunk[c].e[i].key)
            /\ hold' = [hold EXCEPT ![t] = [c |-> c, at |-> PrevOf(chunk[c], chunk[c].e[i].key)]]
            /\ Then(t, <<Link(c, i, own)>>)
            /\ UNCHANGED <<Shared, fault>>
  <2>1. PICK p : p = Link(c, i, own)
    OBVIOUS
  <2>2. p.do = "link" /\ p.c = c /\ p.slot = i /\ p.own = own
    BY <2>1 DEF Link
  <2>3. StepOK(K, p)
    BY <1>6, <2>2 DEF StepOK, Steps
  <2>4. /\ DOMAIN hold' = Thread /\ \A u \in Thread \ {t} : hold'[u] = hold[u]
        /\ hold'[t] = [c |-> c, at |-> PrevOf(chunk[c], chunk[c].e[i].key)]
    BY <1>10 DEF TreeInv, Holds
  <2>5. HoldFor(hold'[t], p)
    BY <1>10, <2>2, <2>4 DEF HoldFor
  <2>6. Then(t, <<p>>) /\ UNCHANGED <<root, top, chunk, word>>
    BY <1>10, <2>1 DEF Shared
  <2> QED
    BY <1>2, <1>3, <1>4, <1>5, <2>2, <2>3, <2>4, <2>5, <2>6, ContinueKeeps
<1> QED
  BY <1>3, <1>4, <1>5, <1>7, <1>8, <1>9, <1>10 DEF PlaceStep

\* an entry with key k comes into the list; what others hold is not the entry before
LEMMA PrevKept ==
    ASSUME NEW x, x \in ChunkRecord, NEW y, y \in ChunkRecord, NEW i \in DOMAIN x.e, NEW k \in Key,
           x.e[i].key = k, ~Has(x, k), DOMAIN y.e = DOMAIN x.e, Linked(y) = Linked(x) \cup {i},
           \A j \in DOMAIN x.e : y.e[j].key = x.e[j].key,
           NEW l \in Key, ~Has(x, l), PrevOf(x, l) # PrevOf(x, k)
    PROVE  ~Has(y, l) /\ PrevOf(y, l) = PrevOf(x, l)
<1>1. k \in Nat /\ l \in Nat /\ Linked(x) \subseteq DOMAIN x.e /\ Linked(y) \subseteq DOMAIN x.e
  BY KeysAre DEF Linked
<1>2. \A j \in DOMAIN x.e : x.e[j].key \in Nat
  BY EntriesAre
<1>3. /\ \A j \in Linked(x) : x.e[j].key # k /\ x.e[j].key # l
      /\ k # l
  BY <1>1, HasIs
<1>4. ~Has(y, l)
  <2>1. \A j \in Linked(y) : y.e[j].key # l
    BY <1>1, <1>3
  <2> QED
    BY <2>1, HasIs
<1>5. PICK p, q : p = PrevOf(x, l) /\ q = PrevOf(x, k)
  OBVIOUS
<1>6. p = Null => \A j \in Linked(x) : ~(x.e[j].key < l)
  BY <1>1, <1>5, PrevIs
<1>7. p # Null => /\ p \in Linked(x) /\ p \in DOMAIN x.e /\ x.e[p].key < l
                  /\ \A j \in Linked(x) \ {p} : x.e[j].key < l => Precedes(x, j, p)
  BY <1>1, <1>5, PrevIs
<1>8. q = Null => \A j \in Linked(x) : ~(x.e[j].key < k)
  BY <1>1, <1>5, PrevIs
<1>9. q # Null => /\ q \in Linked(x) /\ q \in DOMAIN x.e /\ x.e[q].key < k
                  /\ \A j \in Linked(x) \ {q} : x.e[j].key < k => Precedes(x, j, q)
  BY <1>1, <1>5, PrevIs
<1>10. CASE p = Null
  <2>1. ~(k < l)
    <3>1. q # Null
      BY <1>5, <1>10
    <3>2. q \in Linked(x) /\ x.e[q].key < k /\ x.e[q].key \in Nat
      BY <1>1, <1>2, <1>9, <3>1
    <3> QED
      BY <1>1, <1>6, <1>10, <3>2
  <2>2. \A j \in Linked(y) : ~(y.e[j].key < l)
    BY <1>1, <1>6, <1>10, <2>1
  <2>3. PrevOf(y, l) = Null
    <3>1. PrevOf(y, l) # Null => PrevOf(y, l) \in Linked(y) /\ y.e[PrevOf(y, l)].key < l
      BY <1>1, PrevIs
    <3> QED
      BY <2>2, <3>1
  <2> QED
    BY <1>4, <1>5, <1>10, <2>3
<1>11. CASE p # Null
  <2>1. ASSUME k < l PROVE x.e[p].key > k
    <3>1. x.e[p].key \in Nat /\ x.e[p].key # k
      BY <1>2, <1>3, <1>7, <1>11
    <3>2. ASSUME x.e[p].key < k PROVE FALSE
      <4>1. \A j \in Linked(x) \ {p} : x.e[j].key < k => Precedes(x, j, p)
        BY <1>1, <1>2, <1>7, <1>11, <2>1
      <4>2. PrevOf(x, k) = p
        BY <1>1, <1>7, <1>11, <3>2, <4>1, PrevUnique
      <4> QED
        BY <1>5, <4>2
    <3> QED
      BY <1>1, <3>1, <3>2
  <2>2. p \in Linked(y) /\ y.e[p].key < l
    BY <1>7, <1>11
  <2>3. ASSUME NEW j \in Linked(y) \ {p}, y.e[j].key < l PROVE Precedes(y, j, p)
    <3>1. CASE j \in Linked(x)
      <4>1. Precedes(x, j, p) /\ j \in DOMAIN x.e
        BY <1>1, <1>7, <1>11, <2>3, <3>1
      <4> QED
        BY <1>7, <1>11, <4>1 DEF Precedes
    <3>2. CASE j = i
      <4>1. k < l /\ y.e[j].key = k
        BY <2>3, <3>2
      <4>2. y.e[p].key > k /\ y.e[p].key \in Nat
        BY <1>2, <1>7, <1>11, <2>1, <4>1
      <4> QED
        BY <1>1, <4>1, <4>2 DEF Precedes
    <3> QED
      BY <2>3, <3>1, <3>2
  <2>4. PrevOf(y, l) = p
    BY <1>1, <2>2, <2>3, PrevUnique
  <2> QED
    BY <1>4, <1>5, <2>4
<1> QED
  BY <1>10, <1>11

LEMMA LinkedKeeps ==
    ASSUME NEW K \in BOOLEAN, TreeInv(K), NEW t \in Thread, During(t),
           At(t, "link"), hold[t] # NoHold, NEW c \in Ids, c = Now(t).c,
           NEW i, i = Now(t).slot,
           NEW n \in Int, n = chunk[c].cnt + 1 \/ (n = chunk[c].cnt /\ ~Now(t).own),
           OnlyChunk(c, SetAt(chunk[c], i, "linked", n)),
           Touch(c, {hold[t].at, i}), Then(t, <<>>)
    PROVE  TreeInv(K)' /\ FinalsStay
<1>1. Shape /\ Counts(K) /\ Holds /\ Owning
  BY DEF TreeInv
<1>2. /\ todo[t] # <<>> /\ Now(t).do = "link" /\ Placing(t) /\ ~Counting(t)
      /\ ~At(t, "mark")
  BY AtIs DEF Placing, Counting, At, Now
<1>3. PICK x : x = chunk[c]
  OBVIOUS
<1>4. PICK own : own = Now(t).own
  OBVIOUS
<1>5. PICK y : y = SetAt(x, i, "linked", n)
  OBVIOUS
<1>6. PICK k : k = x.e[i].key
  OBVIOUS
<1>7. PICK at : at = hold[t].at
  OBVIOUS
<1>8. x \in ChunkRecord /\ Sound(x) /\ x.cnt \in Int /\ n \in Int /\ (n = x.cnt \/ n = x.cnt + 1)
  BY <1>1, <1>3, ChunkTyped
<1>9. i \in DOMAIN x.e /\ own \in BOOLEAN /\ (own \/ x.frozen)
  BY <1>2, <1>3, <1>4, WhereIs
<1>10. k \in Key /\ k \in Nat
  BY <1>6, <1>8, <1>9, EntriesAre
<1>11. HoldOK(t) /\ hold[t].c = c /\ ~Has(x, k) /\ at = PrevOf(x, k)
  BY <1>1, <1>3, <1>6, <1>7 DEF Holds, HoldOK
<1>12. Reset(x, y, i, "linked") /\ y.cnt = n
  BY <1>5, <1>8, <1>9, ResetIs DEF States
<1>13. i \notin Linked(x)
  BY <1>6, <1>8, <1>10, <1>11, HasIs
<1>14. Linked(y) = Linked(x) \cup {i} /\ EntrNum(y) = EntrNum(x) + 1
  BY <1>8, <1>9, <1>12, <1>13, ResetLinks DEF States
<1>15. Sound(y)
  BY <1>8, <1>12, SoundReset
<1>16. Frame(x, y) /\ DOMAIN y.e = DOMAIN x.e /\ y \in ChunkRecord
  BY <1>12 DEF Reset
<1>17. /\ EntrNum(x) \in Nat /\ Rest(t, c) \in Int
       /\ Kept(K, x) => EntrNum(x) >= x.cnt + Rest(t, c)
       /\ Enough(K, x)
  <2>1. t \notin Owed(c)
    BY <1>2 DEF Owed, Counting
  <2> QED
    BY <1>1, <1>3, <2>1, Numbers
<1>18. Alike(x, y)
  BY <1>14, <1>16, <1>17, FrameAlike
<1>19. Enough(K, y) /\ (Kept(K, y) => EntrNum(y) >= y.cnt + Rest(t, c))
  <2>1. (Kept(K, y) <=> Kept(K, x)) /\ y.root = x.root
    BY <1>16 DEF Kept, Frame
  <2>2. Enough(K, y)
    BY <1>8, <1>12, <1>17, <2>1, SizeAssumption DEF Enough
  <2>3. Kept(K, y) => EntrNum(y) >= y.cnt + Rest(t, c)
    BY <1>8, <1>12, <1>14, <1>17, <2>1
  <2> QED
    BY <2>2, <2>3
<1>20. ASSUME NEW u \in Thread \ {t}, OwnsSlot(u), Now(u).c = c PROVE y.e[Now(u).slot].at = "pending"
  <2>1. ~x.frozen
    BY <1>3, <1>20 DEF OwnsSlot
  <2>2. OwnsSlot(t)
    BY <1>2, <1>3, <1>4, <1>9, <2>1 DEF OwnsSlot
  <2>3. Now(u).slot # i
    BY <1>1, <1>20, <2>2 DEF Owning
  <2>4. Now(u).slot \in DOMAIN x.e /\ x.e[Now(u).slot].at = "pending"
    BY <1>3, <1>20, <2>1, NotFree DEF OwnsSlot
  <2> QED
    BY <1>12, <2>3, <2>4 DEF Reset
<1>21. HoldsLeft(t, c, y)
  <2>1. hold' = [u \in Thread |-> IF hold[u].c = c /\ hold[u].at \in {at, i} THEN NoHold ELSE hold[u]]
    BY <1>7 DEF Touch
  <2>2. hold'[t] = NoHold
    BY <1>7, <1>11, <2>1
  <2>3. ASSUME NEW u \in Thread \ {t}, hold'[u] # NoHold, hold[u].c = c PROVE HoldIn(u, y)
    <3>1. hold[u] # NoHold /\ hold[u].at \notin {at, i}
      BY <2>1, <2>3
    <3>2. HoldOK(u) /\ Now(u).c = c
      BY <1>1, <2>3, <3>1 DEF Holds, HoldOK
    <3>3. CASE At(u, "link")
      <4>1. PICK j : j = Now(u).slot
        OBVIOUS
      <4>2. j \in DOMAIN x.e
        BY <1>3, <3>2, <3>3, <4>1, WhereIs DEF Placing
      <4>3. PICK l : l = x.e[j].key
        OBVIOUS
      <4>4. l \in Key /\ y.e[j].key = l
        BY <1>8, <1>12, <4>2, <4>3, EntriesAre DEF Reset
      <4>5. ~Has(x, l) /\ hold[u].at = PrevOf(x, l)
        BY <1>3, <2>3, <3>2, <3>3, <4>1, <4>3 DEF HoldOK
      <4>6. PrevOf(x, l) # PrevOf(x, k)
        BY <1>11, <3>1, <4>5
      <4>7. \A e \in DOMAIN x.e : y.e[e].key = x.e[e].key
        BY <1>12 DEF Reset
      <4>8. ~Has(y, l) /\ PrevOf(y, l) = PrevOf(x, l)
        BY <1>6, <1>8, <1>9, <1>10, <1>11, <1>14, <1>16, <4>4, <4>5, <4>6, <4>7, PrevKept
      <4>9. ~At(u, "mark")
        BY <3>3 DEF At
      <4> QED
        BY <3>3, <4>1, <4>4, <4>5, <4>8, <4>9 DEF HoldIn
    <3>4. CASE ~At(u, "link")
      BY <1>3, <1>14, <1>16, <2>3, <3>2, <3>4 DEF HoldIn, HoldOK, Frame
    <3> QED
      BY <3>3, <3>4
  <2> QED
    BY <2>1, <2>2, <2>3 DEF HoldsLeft
<1>22. PICK s : s = <<>>
  OBVIOUS
<1>23. Easy(K, s) /\ Then(t, s)
  BY <1>22, Good0, EasyIs
<1>24. OnlyChunk(c, y)
  BY <1>3, <1>5
<1> QED
  BY <1>2, <1>3, <1>15, <1>18, <1>19, <1>20, <1>21, <1>23, <1>24, EasyKeeps

LEMMA LinkKeeps ==
    ASSUME NEW K \in BOOLEAN, TreeInv(K), NEW t \in Thread, LinkStep(t), During(t)
    PROVE  TreeInv(K)' /\ FinalsStay
<1>1. Shape
  BY DEF TreeInv
<1>2. At(t, "link") /\ todo[t] # <<>> /\ Now(t).do = "link" /\ StepOK(K, Now(t)) /\ Placing(t)
  BY AtIs, HeadIs DEF LinkStep, Placing
<1>3. PICK c \in Ids : c = Now(t).c
  BY <1>2 DEF StepOK
<1>4. PICK i : i = Now(t).slot
  OBVIOUS
<1>5. PICK own : own = Now(t).own
  OBVIOUS
<1>6. H(c) # 0 /\ i \in DOMAIN chunk[c].e /\ own \in BOOLEAN /\ (own \/ chunk[c].frozen)
  BY <1>2, <1>3, <1>4, <1>5 DEF StepOK
<1>7. CASE hold[t] = NoHold /\ Privately(t, <<Place(c, i, own)>>)
  <2>1. PICK p : p = Place(c, i, own)
    OBVIOUS
  <2>2. p.do = "place" /\ p.c = c /\ p.slot = i /\ p.own = own
    BY <2>1 DEF Place
  <2>3. StepOK(K, p)
    BY <1>6, <2>2 DEF StepOK, Steps
  <2>4. Then(t, <<p>>) /\ UNCHANGED <<root, top, chunk, word, hold>>
    BY <1>7, <2>1 DEF Privately, Shared
  <2>5. DOMAIN hold' = Thread /\ HoldFor(hold'[t], p)
    BY <1>7, <2>4 DEF TreeInv, Holds, HoldFor
  <2> QED
    BY <1>2, <1>3, <1>4, <1>5, <2>2, <2>3, <2>4, <2>5, ContinueKeeps
<1>8. CASE /\ hold[t] # NoHold
           /\ chunk' = [chunk EXCEPT ![c].e[i].at = "linked", ![c].cnt = IF own THEN @ + 1 ELSE @]
           /\ Touch(c, {hold[t].at, i}) /\ Then(t, <<>>) /\ UNCHANGED <<root, top, word, fault>>
  <2>1. c \in DOMAIN chunk /\ chunk[c] \in ChunkRecord
    BY <1>1, ChunkTyped DEF Shape
  <2>2. PICK x : x = chunk[c]
    OBVIOUS
  <2>3. PICK f : f = [x.e EXCEPT ![i] = [x.e[i] EXCEPT !.at = "linked"]]
    OBVIOUS
  <2>4. PICK z : z = [x EXCEPT !.e = f]
    OBVIOUS
  <2>5. PICK g : g = [chunk EXCEPT ![c].e[i].at = "linked"]
    OBVIOUS
  <2>6. g = [chunk EXCEPT ![c] = z] /\ g[c] = z
    BY <2>1, <2>2, <2>3, <2>4, <2>5
  <2>7. PICK n : n = IF own THEN x.cnt + 1 ELSE x.cnt
    OBVIOUS
  <2>8. n \in Int /\ (n = chunk[c].cnt + 1 \/ (n = chunk[c].cnt /\ ~own))
    BY <2>1, <2>2, <2>7, EntriesAre
  <2>9. z.cnt = x.cnt
    BY <2>1, <2>2, <2>4, OneField
  <2>10. chunk' = [g EXCEPT ![c].cnt = IF own THEN @ + 1 ELSE @]
    BY <1>8, <2>5
  <2>11. chunk' = [g EXCEPT ![c] = [z EXCEPT !.cnt = n]]
    BY <2>6, <2>7, <2>9, <2>10
  <2>12. chunk' = [chunk EXCEPT ![c] = [z EXCEPT !.cnt = n]]
    BY <2>6, <2>11
  <2>13. [z EXCEPT !.cnt = n] = SetAt(x, i, "linked", n)
    BY <2>1, <2>2, <2>3, <2>4, OneField DEF SetAt
  <2>14. OnlyChunk(c, SetAt(chunk[c], i, "linked", n))
    BY <1>8, <2>2, <2>12, <2>13 DEF OnlyChunk
  <2>15. hold[t] # NoHold /\ Touch(c, {hold[t].at, i}) /\ Then(t, <<>>)
    BY <1>8
  <2> QED
    BY <1>2, <1>3, <1>4, <1>5, <2>8, <2>14, <2>15, LinkedKeeps
<1> QED
  BY <1>3, <1>4, <1>5, <1>7, <1>8 DEF LinkStep

(***************************************************************************)
(* deleteInChunk.                                                          *)
(***************************************************************************)
\* only the counter of x changes
LEMMA CountLinks ==
    ASSUME NEW x, Sound(x), NEW y, NEW n, Counted(x, y, n)
    PROVE  /\ Sound(y) /\ Alike(x, y) /\ SameLinks(x, y) /\ EntrNum(y) = EntrNum(x)
           /\ y.e = x.e /\ y.cnt = n /\ y.root = x.root /\ y.height = x.height /\ y.next = x.next
<1>1. x \in ChunkRecord /\ y \in ChunkRecord /\ y.e = x.e /\ y.cnt = n /\ Frame(x, y)
  BY DEF Sound, Counted
<1>2. Linked(y) = Linked(x) /\ Pending(y) = Pending(x) /\ EntrNum(y) = EntrNum(x)
  BY <1>1 DEF Linked, Pending, EntrNum
<1>3. Sound(y)
  BY <1>1, <1>2 DEF Sound, Frame
<1>4. Alike(x, y)
  <2>1. EntrNum(x) \in Nat
    BY <1>1, LinkedFinite
  <2> QED
    BY <1>1, <1>2, <2>1, FrameAlike
<1>5. SameLinks(x, y)
  BY <1>1, <1>2 DEF SameLinks, Frame
<1> QED
  BY <1>1, <1>2, <1>3, <1>4, <1>5 DEF Frame

LEMMA CountHolds ==
    ASSUME NEW K, TreeInv(K), NEW t \in Thread, NEW c \in Ids, NEW y, NEW n, Counted(chunk[c], y, n),
           hold[t] = NoHold, UNCHANGED hold
    PROVE  HoldsLeft(t, c, y)
<1>1. SameLinks(chunk[c], y) /\ y.e = chunk[c].e
  <2>1. Sound(chunk[c])
    BY DEF TreeInv, Shape
  <2> QED
    BY <2>1, CountLinks
<1>2. ASSUME NEW u \in Thread \ {t}, hold[u] # NoHold, hold[u].c = c PROVE HoldIn(u, y)
  BY <1>1, <1>2, HoldSame
<1> QED
  BY <1>2 DEF HoldsLeft, TreeInv, Holds

LEMMA CountOwners ==
    ASSUME NEW K, TreeInv(K), NEW c \in Ids, NEW y, NEW n, Counted(chunk[c], y, n),
           NEW u \in Thread, OwnsSlot(u), Now(u).c = c
    PROVE  y.e[Now(u).slot].at = "pending"
<1>1. y.e = chunk[c].e
  BY DEF Counted
<1> QED
  BY <1>1, NotFree DEF OwnsSlot

\* a delete gives back what it has counted off
LEMMA CountUpKeeps ==
    ASSUME NEW K \in BOOLEAN, TreeInv(K), NEW t \in Thread, During(t),
           Counting(t), hold[t] = NoHold, NEW c \in Ids, c = Now(t).c,
           OnlyChunk(c, [chunk[c] EXCEPT !.cnt = chunk[c].cnt + 1]),
           NEW s, Easy(K, s), Then(t, s), UNCHANGED hold
    PROVE  TreeInv(K)' /\ FinalsStay
<1>1. Shape /\ Counts(K)
  BY DEF TreeInv
<1>2. todo[t] # <<>> /\ Now(t).do # "settle" /\ t \in Owed(c)
  BY AtIs DEF Counting, Owed
<1>3. PICK x : x = chunk[c]
  OBVIOUS
<1>4. PICK y : y = [x EXCEPT !.cnt = x.cnt + 1]
  OBVIOUS
<1>5. x \in ChunkRecord /\ Sound(x) /\ x.cnt \in Int /\ x.cnt + 1 \in Int
  BY <1>1, <1>3, ChunkTyped
<1>6. Counted(x, y, x.cnt + 1)
  BY <1>4, <1>5, CountIs
<1>7. /\ Sound(y) /\ Alike(x, y) /\ EntrNum(y) = EntrNum(x) /\ y.cnt = x.cnt + 1
      /\ y.root = x.root /\ y.height = x.height /\ y.next = x.next
  BY <1>5, <1>6, CountLinks
<1>8. /\ EntrNum(x) \in Nat /\ Rest(t, c) \in Int /\ Cardinality(Owed(c)) \in Nat
      /\ Kept(K, x) => EntrNum(x) >= x.cnt + Cardinality(Owed(c))
      /\ Enough(K, x) /\ Rest(t, c) = Cardinality(Owed(c)) - 1
  BY <1>1, <1>2, <1>3, Numbers
<1>9. Enough(K, y) /\ (Kept(K, y) => EntrNum(y) >= y.cnt + Rest(t, c))
  <2>1. Kept(K, y) <=> Kept(K, x)
    BY <1>7 DEF Kept
  <2>2. Enough(K, y)
    BY <1>5, <1>7, <1>8, <2>1, SizeAssumption DEF Enough
  <2>3. Kept(K, y) => EntrNum(y) >= y.cnt + Rest(t, c)
    BY <1>5, <1>7, <1>8, <2>1
  <2> QED
    BY <2>2, <2>3
<1>10. HoldsLeft(t, c, y)
  BY <1>3, <1>6, CountHolds
<1>11. \A u \in Thread \ {t} : OwnsSlot(u) /\ Now(u).c = c => y.e[Now(u).slot].at = "pending"
  BY <1>3, <1>6, CountOwners
<1>12. OnlyChunk(c, y)
  BY <1>3, <1>4
<1> QED
  BY <1>2, <1>3, <1>7, <1>9, <1>10, <1>11, <1>12, EasyKeeps

\* decCount, in an inner chunk
LEMMA CountDownKeeps ==
    ASSUME NEW K \in BOOLEAN, TreeInv(K), NEW t \in Thread, During(t),
           todo[t] # <<>>, Now(t).do = "delete", NEW c \in Ids, H(c) # 0, MayDecrement(chunk[c]),
           OnlyChunk(c, [chunk[c] EXCEPT !.cnt = chunk[c].cnt - 1]),
           NEW k \in Key, NEW d, Then(t, <<Compare(c, k, d)>>), UNCHANGED hold
    PROVE  TreeInv(K)' /\ FinalsStay
<1>1. Shape /\ Words /\ Stacks(K) /\ Counts(K)
  BY DEF TreeInv
<1>2. hold[t] = NoHold
  BY HeadIs
<1>3. PICK x : x = chunk[c]
  OBVIOUS
<1>4. PICK y : y = [x EXCEPT !.cnt = x.cnt - 1]
  OBVIOUS
<1>5. x \in ChunkRecord /\ Sound(x) /\ x.cnt \in Int /\ x.cnt - 1 \in Int
  BY <1>1, <1>3, ChunkTyped
<1>6. Counted(x, y, x.cnt - 1)
  BY <1>4, <1>5, CountIs
<1>7. /\ Sound(y) /\ Alike(x, y) /\ EntrNum(y) = EntrNum(x) /\ y.cnt = x.cnt - 1
      /\ y.root = x.root /\ y.height = x.height /\ y.next = x.next
  BY <1>5, <1>6, CountLinks
<1>8. OnlyChunk(c, y)
  BY <1>3, <1>4
<1>9. Grows
  BY <1>1, <1>3, <1>7, <1>8, OneChunk
<1>10. PICK p : p = Compare(c, k, d)
  OBVIOUS
<1>11. p.do = "compare" /\ p.c = c /\ p.key = k
  BY <1>10 DEF Compare
<1>12. PICK s : s = <<p>>
  OBVIOUS
<1>13. Then(t, s)
  BY <1>10, <1>12
<1>14. Top(K, s)'
  <2>1. StepOK(K, p)
    BY <1>11 DEF StepOK, Steps
  <2>2. Top(K, s)
    BY <1>11, <1>12, <2>1, TopOf1
  <2> QED
    BY <1>1, <1>9, <2>2, TopStays
<1>15. OnlyOf(t) /\ Now(t)' = p /\ todo'[t] # <<>>
  <2>1. Pushes(t, s) /\ IsSeq(s) /\ s # <<>> /\ s[1] = p
    BY <1>12, <1>13, SeqOf1 DEF Pushes, Then
  <2> QED
    BY <1>1, <2>1, Heads DEF Now
<1>16. Owning'
  <2>1. ~OwnsSlot(t)'
    BY <1>11, <1>15 DEF OwnsSlot, Placing, At, Now
  <2>2. \A u \in Thread \ {t} : OwnsSlot(u) /\ Now(u).c = c => y.e[Now(u).slot].at = "pending"
    BY <1>3, <1>6, CountOwners
  <2> QED
    BY <1>3, <1>7, <1>8, <1>15, <2>1, <2>2, OwnersOne DEF Alike
<1>17. Holds'
  <2>1. HoldsLeft(t, c, y)
    BY <1>2, <1>3, <1>6, CountHolds
  <2> QED
    BY <1>8, <1>15, <2>1, HoldsOne
<1>18. Counts(K)'
  <2>1. \A e \in Ids \ {c} : Owed(e)' \subseteq Owed(e)
    BY <1>11, <1>15, OwedAre
  <2>2. /\ Cardinality(Owed(c)') <= Cardinality(Owed(c)) + 1
        /\ Cardinality(Owed(c)') \in Nat
    BY <1>15, OwedNumbers
  <2>3. /\ EntrNum(x) \in Nat /\ Cardinality(Owed(c)) \in Nat /\ Enough(K, x)
        /\ Kept(K, x) => EntrNum(x) >= x.cnt + Cardinality(Owed(c))
    BY <1>1, <1>3, Numbers
  <2>4. Kept(K, y) <=> Kept(K, x)
    BY <1>7 DEF Kept
  <2>5. Enough(K, y)
    BY <1>3, <1>5, <1>7, <2>3, <2>4, SizeAssumption DEF Enough, MayDecrement
  <2>6. Kept(K, y) => EntrNum(y) >= y.cnt + Cardinality(Owed(c)')
    BY <1>5, <1>7, <2>2, <2>3, <2>4
  <2> QED
    BY <1>1, <1>8, <2>1, <2>5, <2>6, CountsOne
<1> QED
  BY <1>3, <1>7, <1>8, <1>13, <1>14, <1>16, <1>17, <1>18, ChunkKeeps

LEMMA DeleteLeafKeeps ==
    ASSUME NEW K \in BOOLEAN, TreeInv(K), NEW t \in Thread, During(t),
           todo[t] # <<>>, Now(t).do = "delete", NEW c \in Ids, Leaf(c), MayDecrement(chunk[c]),
           ~chunk[c].frozen, NEW k \in Key, Has(chunk[c], k), OnlyChunk(c, Remove(chunk[c], k)),
           Then(t, <<Respond(TRUE)>>), UNCHANGED hold
    PROVE  TreeInv(K)' /\ FinalsStay
<1>1. Shape /\ Counts(K)
  BY DEF TreeInv
<1>2. PICK x : x = chunk[c]
  OBVIOUS
<1>3. PICK y : y = Remove(x, k)
  OBVIOUS
<1>4. PICK i : i = CurOf(x, k)
  OBVIOUS
<1>5. x \in ChunkRecord /\ Sound(x) /\ x.height = 0 /\ ~x.frozen /\ k \in Nat
  BY <1>1, <1>2, ChunkTyped, KeysAre DEF Leaf
<1>6. Reset(x, y, i, "deleted") /\ y.cnt = x.cnt - 1 /\ EntrNum(y) = EntrNum(x) - 1
  BY <1>2, <1>3, <1>4, <1>5, RemoveIs
<1>7. Sound(y)
  BY <1>5, <1>6, SoundReset
<1>8. Alike(x, y) /\ y.root = x.root
  <2>1. Frame(x, y) /\ DOMAIN y.e = DOMAIN x.e
    BY <1>6 DEF Reset
  <2> QED
    BY <1>5, <2>1, FrameAlike DEF Frame
<1>9. EntrNum(y) >= y.cnt /\ Enough(K, y)
  <2>1. Kept(K, x)
    BY <1>5 DEF Kept
  <2>2. /\ x.cnt \in Int /\ EntrNum(x) \in Nat /\ Cardinality(Owed(c)) \in Nat
        /\ EntrNum(x) >= x.cnt + Cardinality(Owed(c)) /\ (x.root \/ x.cnt >= MinEntries)
    BY <1>1, <1>2, <2>1, Numbers DEF Enough
  <2>3. EntrNum(y) >= y.cnt
    BY <1>6, <2>2
  <2>4. y.root \/ y.cnt >= MinEntries
    BY <1>2, <1>6, <1>8, <2>2, SizeAssumption DEF MayDecrement
  <2> QED
    BY <2>3, <2>4 DEF Enough
<1>10. PICK s : s = <<Respond(TRUE)>>
  OBVIOUS
<1>11. Easy(K, s) /\ Then(t, s)
  BY <1>10, GoodRespond, Good1, EasyIs
<1>12. OnlyChunk(c, y)
  BY <1>2, <1>3
<1> QED
  BY <1>2, <1>7, <1>8, <1>9, <1>11, <1>12, LeafKeeps

LEMMA DeleteKeeps ==
    ASSUME NEW K \in BOOLEAN, TreeInv(K), NEW t \in Thread, DeleteStep(t), During(t)
    PROVE  TreeInv(K)' /\ FinalsStay
<1>1. Shape
  BY DEF TreeInv
<1>2. todo[t] # <<>> /\ Now(t).do = "delete" /\ StepOK(K, Now(t))
  BY AtIs, HeadIs DEF DeleteStep
<1>3. PICK i : i = Now(t)
  OBVIOUS
<1>4. PICK c \in Ids : c = i.c
  BY <1>2, <1>3 DEF StepOK
<1>5. i.key \in Key
  BY <1>2, <1>3 DEF StepOK
<1>6. CASE Fails(t, "deleteInChunk: infant chunk")
  BY <1>2, <1>6, FailsKeeps
<1>7. CASE Privately(t, <<Freeze(c, CallOf(i, "DELETE", 0))>>)
  <2>1. PICK w : w = CallOf(i, "DELETE", 0)
    OBVIOUS
  <2>2. CallOK(H(c), w)
    BY <1>5, <2>1, CallOfDelete
  <2>3. AllGood(K, <<Freeze(c, w)>>)
    BY <2>2, GoodCalls, Good1
  <2> QED
    BY <1>2, <1>7, <2>1, <2>3, PrivateKeeps
<1>8. CASE Privately(t, <<Respond(FALSE)>>)
  <2>1. AllGood(K, <<Respond(FALSE)>>)
    BY GoodRespond, Good1
  <2> QED
    BY <1>2, <1>8, <2>1, PrivateKeeps
<1>9. CASE /\ Leaf(c) /\ MayDecrement(chunk[c]) /\ ~chunk[c].frozen /\ Has(chunk[c], i.key)
           /\ chunk' = [chunk EXCEPT ![c] = Remove(chunk[c], i.key)]
           /\ Then(t, <<Respond(TRUE)>>) /\ UNCHANGED <<root, top, word, hold, fault>>
  <2>1. OnlyChunk(c, Remove(chunk[c], i.key)) /\ UNCHANGED hold
    BY <1>9 DEF OnlyChunk
  <2> QED
    BY <1>2, <1>5, <1>9, <2>1, DeleteLeafKeeps
<1>10. CASE /\ ~Leaf(c) /\ MayDecrement(chunk[c])
            /\ chunk' = [chunk EXCEPT ![c].cnt = @ - 1]
            /\ Then(t, <<Compare(c, i.key, i.data)>>) /\ UNCHANGED <<root, top, word, hold, fault>>
  <2>1. OnlyChunk(c, [chunk[c] EXCEPT !.cnt = chunk[c].cnt - 1]) /\ UNCHANGED hold
    BY <1>10 DEF OnlyChunk
  <2>2. H(c) # 0
    BY <1>10 DEF Leaf, H
  <2> QED
    BY <1>2, <1>5, <1>10, <2>1, <2>2, CountDownKeeps
<1> QED
  BY <1>3, <1>4, <1>6, <1>7, <1>8, <1>9, <1>10 DEF DeleteStep

LEMMA CompareKeeps ==
    ASSUME NEW K \in BOOLEAN, TreeInv(K), NEW t \in Thread, CompareStep(t), During(t)
    PROVE  TreeInv(K)' /\ FinalsStay
<1>1. Shape
  BY DEF TreeInv
<1>2. todo[t] # <<>> /\ Now(t).do = "compare" /\ StepOK(K, Now(t)) /\ Counting(t) /\ hold[t] = NoHold
  BY AtIs, HeadIs DEF CompareStep, Counting
<1>3. PICK i : i = Now(t)
  OBVIOUS
<1>4. PICK c \in Ids : c = i.c
  BY <1>2, <1>3 DEF StepOK
<1>5. i.key \in Key /\ H(c) # 0
  BY <1>2, <1>3, <1>4 DEF StepOK
<1>6. CASE /\ chunk' = [chunk EXCEPT ![c].cnt = @ + 1]
           /\ Then(t, <<>>) /\ UNCHANGED <<root, top, word, hold, fault>>
  <2>1. OnlyChunk(c, [chunk[c] EXCEPT !.cnt = chunk[c].cnt + 1]) /\ UNCHANGED hold
    BY <1>6 DEF OnlyChunk
  <2>2. PICK s : s = <<>>
    OBVIOUS
  <2>3. Easy(K, s) /\ Then(t, s)
    BY <1>6, <2>2, Good0, EasyIs
  <2> QED
    BY <1>2, <1>3, <1>4, <2>1, <2>3, CountUpKeeps
<1>7. CASE Privately(t, <<>>)
  BY <1>2, <1>7, PrivateKeeps, Good0
<1>8. CASE /\ Has(chunk[c], i.key)
           /\ hold' = IF chunk[c].frozen THEN hold
                      ELSE [hold EXCEPT ![t] = [c |-> c, at |-> CurOf(chunk[c], i.key)]]
           /\ Then(t, <<Mark(c, i.key, i.data)>>) /\ UNCHANGED <<Shared, fault>>
  <2>1. PICK p : p = Mark(c, i.key, i.data)
    OBVIOUS
  <2>2. p.do = "mark" /\ p.c = c /\ p.key = i.key
    BY <2>1 DEF Mark
  <2>3. StepOK(K, p)
    BY <1>5, <2>2 DEF StepOK, Steps
  <2>4. CurOf(chunk[c], i.key) \in Linked(chunk[c])
    BY <1>1, <1>8, ChunkTyped, CurIn DEF Has
  <2>5. /\ DOMAIN hold' = Thread /\ \A u \in Thread \ {t} : hold'[u] = hold[u]
        /\ hold'[t] = IF chunk[c].frozen THEN NoHold ELSE [c |-> c, at |-> CurOf(chunk[c], i.key)]
    BY <1>2, <1>8 DEF TreeInv, Holds
  <2>6. HoldFor(hold'[t], p)
    BY <2>2, <2>4, <2>5 DEF HoldFor
  <2>7. Then(t, <<p>>) /\ UNCHANGED <<root, top, chunk, word>>
    BY <1>8, <2>1 DEF Shared
  <2> QED
    BY <1>2, <1>3, <1>4, <2>2, <2>3, <2>5, <2>6, <2>7, ContinueKeeps
<1> QED
  BY <1>3, <1>4, <1>6, <1>7, <1>8 DEF CompareStep

\* an entry goes out of the list; what others hold is another one
LEMMA PrevLeft ==
    ASSUME NEW x, x \in ChunkRecord, NEW y, y \in ChunkRecord, NEW i \in DOMAIN x.e,
           DOMAIN y.e = DOMAIN x.e, Linked(y) = Linked(x) \ {i},
           \A j \in DOMAIN x.e : y.e[j].key = x.e[j].key,
           NEW l \in Key, ~Has(x, l), PrevOf(x, l) # i
    PROVE  ~Has(y, l) /\ PrevOf(y, l) = PrevOf(x, l)
<1>1. l \in Nat /\ Linked(x) \subseteq DOMAIN x.e /\ Linked(y) \subseteq Linked(x)
  BY KeysAre DEF Linked
<1>2. ~Has(y, l)
  <2>1. \A j \in Linked(y) : y.e[j].key # l
    BY <1>1, HasIs
  <2> QED
    BY <2>1, HasIs
<1>3. PICK p : p = PrevOf(x, l)
  OBVIOUS
<1>4. CASE p = Null
  <2>1. \A j \in Linked(y) : ~(y.e[j].key < l)
    BY <1>1, <1>3, <1>4, PrevIs
  <2>2. PrevOf(y, l) # Null => PrevOf(y, l) \in Linked(y) /\ y.e[PrevOf(y, l)].key < l
    BY <1>1, PrevIs
  <2> QED
    BY <1>2, <1>3, <1>4, <2>1, <2>2
<1>5. CASE p # Null
  <2>1. /\ p \in Linked(x) /\ x.e[p].key < l
        /\ \A j \in Linked(x) \ {p} : x.e[j].key < l => Precedes(x, j, p)
    BY <1>1, <1>3, <1>5, PrevIs
  <2>2. p \in Linked(y) /\ y.e[p].key < l
    BY <1>1, <1>3, <2>1
  <2>3. \A j \in Linked(y) \ {p} : y.e[j].key < l => Precedes(y, j, p)
    BY <1>1, <2>1 DEF Precedes
  <2>4. PrevOf(y, l) = p
    BY <1>1, <2>2, <2>3, PrevUnique
  <2> QED
    BY <1>2, <1>3, <2>4
<1> QED
  BY <1>4, <1>5

LEMMA MarkedKeeps ==
    ASSUME NEW K \in BOOLEAN, TreeInv(K), NEW t \in Thread, During(t),
           At(t, "mark"), hold[t] # NoHold, NEW c \in Ids, c = Now(t).c, NEW k \in Key,
           OnlyChunk(c, SetAt(chunk[c], hold[t].at, "deleted", chunk[c].cnt)),
           Touch(c, {hold[t].at, PrevOf(chunk[c], k)}), Then(t, <<>>)
    PROVE  TreeInv(K)' /\ FinalsStay
<1>1. Shape /\ Counts(K) /\ Holds
  BY DEF TreeInv
<1>2. todo[t] # <<>> /\ Now(t).do = "mark" /\ Counting(t) /\ t \in Owed(c)
  BY AtIs DEF Counting, Owed
<1>3. PICK x : x = chunk[c]
  OBVIOUS
<1>4. PICK i : i = hold[t].at
  OBVIOUS
<1>5. PICK y : y = SetAt(x, i, "deleted", x.cnt)
  OBVIOUS
<1>6. x \in ChunkRecord /\ Sound(x) /\ x.cnt \in Int
  BY <1>1, <1>3, ChunkTyped
<1>7. hold[t].c = c /\ ~x.frozen /\ i \in Linked(x) /\ i \in DOMAIN x.e
  BY <1>1, <1>3, <1>4 DEF Holds, HoldOK, Linked
<1>8. Reset(x, y, i, "deleted") /\ y.cnt = x.cnt
  BY <1>5, <1>6, <1>7, ResetIs DEF States
<1>9. Linked(y) = Linked(x) \ {i} /\ EntrNum(y) = EntrNum(x) - 1
  BY <1>6, <1>7, <1>8, ResetLinks DEF States
<1>10. Sound(y)
  BY <1>6, <1>8, SoundReset
<1>11. Frame(x, y) /\ DOMAIN y.e = DOMAIN x.e /\ y \in ChunkRecord
  BY <1>8 DEF Reset
<1>12. Alike(x, y)
  BY <1>7, <1>11, FrameAlike
<1>13. Enough(K, y) /\ (Kept(K, y) => EntrNum(y) >= y.cnt + Rest(t, c))
  <2>1. /\ EntrNum(x) \in Nat /\ Cardinality(Owed(c)) \in Nat /\ Enough(K, x)
        /\ Rest(t, c) = Cardinality(Owed(c)) - 1
        /\ Kept(K, x) => EntrNum(x) >= x.cnt + Cardinality(Owed(c))
    BY <1>1, <1>2, <1>3, Numbers
  <2>2. (Kept(K, y) <=> Kept(K, x)) /\ y.root = x.root
    BY <1>11 DEF Kept, Frame
  <2>3. Enough(K, y)
    BY <1>8, <2>1, <2>2 DEF Enough
  <2>4. Kept(K, y) => EntrNum(y) >= y.cnt + Rest(t, c)
    BY <1>6, <1>8, <1>9, <2>1, <2>2
  <2> QED
    BY <2>3, <2>4
<1>14. ASSUME NEW u \in Thread \ {t}, OwnsSlot(u), Now(u).c = c PROVE y.e[Now(u).slot].at = "pending"
  <2>1. Now(u).slot \in DOMAIN x.e /\ x.e[Now(u).slot].at = "pending"
    BY <1>3, <1>14, NotFree DEF OwnsSlot
  <2>2. Now(u).slot # i
    BY <1>7, <2>1 DEF Linked
  <2> QED
    BY <1>8, <2>1, <2>2 DEF Reset
<1>15. HoldsLeft(t, c, y)
  <2>1. PICK q : q = PrevOf(x, k)
    OBVIOUS
  <2>2. hold' = [u \in Thread |-> IF hold[u].c = c /\ hold[u].at \in {i, q} THEN NoHold ELSE hold[u]]
    BY <1>3, <1>4, <2>1 DEF Touch
  <2>3. hold'[t] = NoHold
    BY <1>4, <1>7, <2>2
  <2>4. ASSUME NEW u \in Thread \ {t}, hold'[u] # NoHold, hold[u].c = c PROVE HoldIn(u, y)
    <3>1. hold[u] # NoHold /\ hold[u].at # i
      BY <2>2, <2>4
    <3>2. HoldOK(u) /\ Now(u).c = c
      BY <1>1, <2>4, <3>1 DEF Holds, HoldOK
    <3>3. CASE At(u, "link")
      <4>1. PICK j : j = Now(u).slot
        OBVIOUS
      <4>2. j \in DOMAIN x.e
        BY <1>3, <3>2, <3>3, <4>1, WhereIs DEF Placing
      <4>3. PICK l : l = x.e[j].key
        OBVIOUS
      <4>4. l \in Key /\ y.e[j].key = l
        BY <1>6, <1>8, <4>2, <4>3, EntriesAre DEF Reset
      <4>5. ~Has(x, l) /\ hold[u].at = PrevOf(x, l)
        BY <1>3, <2>4, <3>2, <3>3, <4>1, <4>3 DEF HoldOK
      <4>6. PrevOf(x, l) # i
        BY <3>1, <4>5
      <4>7. \A e \in DOMAIN x.e : y.e[e].key = x.e[e].key
        BY <1>8 DEF Reset
      <4>8. ~Has(y, l) /\ PrevOf(y, l) = PrevOf(x, l)
        BY <1>6, <1>7, <1>9, <1>11, <4>4, <4>5, <4>6, <4>7, PrevLeft
      <4>9. ~At(u, "mark")
        BY <3>3 DEF At
      <4> QED
        BY <3>3, <4>1, <4>4, <4>5, <4>8, <4>9 DEF HoldIn
    <3>4. CASE ~At(u, "link")
      BY <1>3, <1>9, <1>11, <2>4, <3>1, <3>2, <3>4 DEF HoldIn, HoldOK, Frame
    <3> QED
      BY <3>3, <3>4
  <2> QED
    BY <2>2, <2>3, <2>4 DEF HoldsLeft
<1>16. PICK s : s = <<>>
  OBVIOUS
<1>17. Easy(K, s) /\ Then(t, s)
  BY <1>16, Good0, EasyIs
<1>18. OnlyChunk(c, y)
  BY <1>3, <1>4, <1>5
<1> QED
  BY <1>2, <1>3, <1>10, <1>12, <1>13, <1>14, <1>15, <1>17, <1>18, EasyKeeps

LEMMA MarkKeeps ==
    ASSUME NEW K \in BOOLEAN, TreeInv(K), NEW t \in Thread, MarkStep(t), During(t)
    PROVE  TreeInv(K)' /\ FinalsStay
<1>1. Shape
  BY DEF TreeInv
<1>2. todo[t] # <<>> /\ Now(t).do = "mark" /\ At(t, "mark") /\ StepOK(K, Now(t)) /\ Counting(t)
  BY AtIs, HeadIs DEF MarkStep, Counting
<1>3. PICK i : i = Now(t)
  OBVIOUS
<1>4. PICK c \in Ids : c = i.c
  BY <1>2, <1>3 DEF StepOK
<1>5. i.key \in Key /\ H(c) # 0
  BY <1>2, <1>3, <1>4 DEF StepOK
<1>6. CASE /\ hold[t] # NoHold
           /\ chunk' = [chunk EXCEPT ![c].e[hold[t].at].at = "deleted"]
           /\ Touch(c, {hold[t].at, PrevOf(chunk[c], i.key)})
           /\ Then(t, <<>>) /\ UNCHANGED <<root, top, word, fault>>
  <2>1. c \in DOMAIN chunk /\ chunk[c] \in ChunkRecord
    BY <1>1, ChunkTyped DEF Shape
  <2>2. PICK a : a = hold[t].at
    OBVIOUS
  <2>3. [chunk EXCEPT ![c].e[a].at = "deleted"] = [chunk EXCEPT ![c] = SetAt(chunk[c], a, "deleted", chunk[c].cnt)]
    BY <2>1, SetAtIs
  <2>4. OnlyChunk(c, SetAt(chunk[c], a, "deleted", chunk[c].cnt))
    BY <1>6, <2>2, <2>3 DEF OnlyChunk
  <2>5. hold[t] # NoHold /\ Touch(c, {hold[t].at, PrevOf(chunk[c], i.key)}) /\ Then(t, <<>>)
    BY <1>6
  <2> QED
    BY <1>2, <1>3, <1>4, <1>5, <2>2, <2>4, <2>5, MarkedKeeps
<1>7. CASE hold[t] = NoHold /\ Privately(t, <<Compare(c, i.key, i.data)>>)
  <2>1. PICK p : p = Compare(c, i.key, i.data)
    OBVIOUS
  <2>2. p.do = "compare" /\ p.c = c /\ p.key = i.key
    BY <2>1 DEF Compare
  <2>3. StepOK(K, p)
    BY <1>5, <2>2 DEF StepOK, Steps
  <2>4. Then(t, <<p>>) /\ UNCHANGED <<root, top, chunk, word, hold>>
    BY <1>7, <2>1 DEF Privately, Shared
  <2>5. DOMAIN hold' = Thread /\ HoldFor(hold'[t], p)
    BY <1>7, <2>4 DEF TreeInv, Holds, HoldFor
  <2> QED
    BY <1>2, <1>3, <1>4, <2>2, <2>3, <2>4, <2>5, ContinueKeeps
<1>8. CASE /\ hold[t] = NoHold
           /\ chunk' = [chunk EXCEPT ![c].cnt = @ + 1]
           /\ Then(t, <<Freeze(c, CallOf(i, "DELETE", 0))>>) /\ UNCHANGED <<root, top, word, hold, fault>>
  <2>1. OnlyChunk(c, [chunk[c] EXCEPT !.cnt = chunk[c].cnt + 1]) /\ UNCHANGED hold
    BY <1>8 DEF OnlyChunk
  <2>2. PICK w : w = CallOf(i, "DELETE", 0)
    OBVIOUS
  <2>3. CallOK(H(c), w)
    BY <1>5, <2>2, CallOfDelete
  <2>4. PICK s : s = <<Freeze(c, w)>>
    OBVIOUS
  <2>5. Easy(K, s) /\ Then(t, s)
    BY <1>8, <2>2, <2>3, <2>4, GoodCalls, Good1, EasyIs
  <2> QED
    BY <1>2, <1>3, <1>4, <1>8, <2>1, <2>5, CountUpKeeps
<1> QED
  BY <1>3, <1>4, <1>6, <1>7, <1>8 DEF MarkStep

(***************************************************************************)
(* Changes that touch neither the list of a chunk nor its counter.         *)
(***************************************************************************)
Steady(x, y) ==
    /\ y \in ChunkRecord /\ y.cnt = x.cnt /\ y.frozen = x.frozen
    /\ y.height = x.height /\ y.next = x.next /\ (x.root => y.root)
    /\ DOMAIN y.e = DOMAIN x.e
    /\ \A i \in DOMAIN x.e : y.e[i].key = x.e[i].key /\ y.e[i].at = x.e[i].at

LEMMA SteadyLinks ==
    ASSUME NEW x, NEW y, Steady(x, y)
    PROVE  Linked(y) = Linked(x) /\ Pending(y) = Pending(x) /\ EntrNum(y) = EntrNum(x)
<1>1. Linked(y) = Linked(x) /\ Pending(y) = Pending(x)
  BY DEF Steady, Linked, Pending
<1> QED
  BY <1>1 DEF EntrNum

LEMMA SteadyKeeps ==
    ASSUME NEW K \in BOOLEAN, TreeInv(K), NEW t \in Thread, During(t),
           todo[t] # <<>>, Now(t).do \notin {"settle", "link", "compare", "mark"},
           NEW s, Easy(K, s), Then(t, s), UNCHANGED hold,
           NEW c \in Ids, NEW y, Sound(y), Alike(chunk[c], y), Steady(chunk[c], y), OnlyChunk(c, y)
    PROVE  TreeInv(K)' /\ FinalsStay
<1>1. Shape /\ Counts(K) /\ hold[t] = NoHold
  BY HeadIs DEF TreeInv
<1>2. PICK x : x = chunk[c]
  OBVIOUS
<1>3. Linked(y) = Linked(x) /\ EntrNum(y) = EntrNum(x)
  BY <1>2, SteadyLinks
<1>4. Enough(K, y) /\ (Kept(K, y) => EntrNum(y) >= y.cnt + Rest(t, c))
  <2>1. t \notin Owed(c)
    BY DEF Owed, At, Now
  <2>2. /\ Enough(K, x) /\ Rest(t, c) = Cardinality(Owed(c))
        /\ Kept(K, x) => EntrNum(x) >= x.cnt + Cardinality(Owed(c))
    BY <1>1, <1>2, <2>1, Numbers
  <2>3. Kept(K, y) <=> Kept(K, x)
    BY <1>2 DEF Kept, Steady
  <2> QED
    BY <1>2, <1>3, <2>2, <2>3 DEF Enough, Steady
<1>5. ASSUME NEW u \in Thread \ {t}, OwnsSlot(u), Now(u).c = c PROVE y.e[Now(u).slot].at = "pending"
  <2>1. Now(u).slot \in DOMAIN x.e /\ x.e[Now(u).slot].at = "pending"
    BY <1>2, <1>5, NotFree DEF OwnsSlot
  <2> QED
    BY <1>2, <2>1 DEF Steady
<1>6. HoldsLeft(t, c, y)
  <2>1. SameLinks(x, y)
    BY <1>2, <1>3 DEF SameLinks, Steady, Linked
  <2>2. ASSUME NEW u \in Thread \ {t}, hold[u] # NoHold, hold[u].c = c PROVE HoldIn(u, y)
    <3>1. At(u, "link") => Now(u).slot \in DOMAIN x.e
      BY <1>2, <2>2, WhereIs DEF Placing
    <3>2. At(u, "link") => y.e[Now(u).slot].key = x.e[Now(u).slot].key
      BY <1>2, <3>1 DEF Steady
    <3> QED
      BY <1>2, <2>1, <2>2, <3>2, HoldSame
  <2> QED
    BY <1>1, <2>2 DEF HoldsLeft, TreeInv, Holds
<1> QED
  BY <1>1, <1>2, <1>4, <1>5, <1>6, EasyKeeps

(***************************************************************************)
(* replaceInChunk.                                                         *)
(***************************************************************************)
LEMMA SwappedKeeps ==
    ASSUME NEW K \in BOOLEAN, TreeInv(K), NEW t \in Thread, During(t),
           todo[t] # <<>>, Now(t).do = "swap", NEW c \in Ids, NEW i \in DOMAIN chunk[c].e,
           NEW d, Fits(H(c), d),
           NEW y, y = [chunk[c] EXCEPT !.e[i].data = d], OnlyChunk(c, y), Then(t, <<>>), UNCHANGED hold
    PROVE  TreeInv(K)' /\ FinalsStay
<1>1. Shape
  BY DEF TreeInv
<1>2. PICK x : x = chunk[c]
  OBVIOUS
<1>3. x \in ChunkRecord /\ Sound(x) /\ x.height = H(c) /\ EntrNum(x) \in Nat /\ i \in DOMAIN x.e
  BY <1>1, <1>2, ChunkTyped DEF H
<1>4. d \in DataType
  BY <1>1, FitsType
<1>5. Redirected(x, y, i, d)
  <2>1. y = [x EXCEPT !.e[i].data = d]
    BY <1>2
  <2> QED
    BY <1>3, <1>4, <2>1, RedirectIs
<1>6. EntrNum(y) = EntrNum(x) /\ Sound(y)
  BY <1>3, <1>5, RedirectLinks, SoundRedirected
<1>7. Frame(x, y) /\ DOMAIN y.e = DOMAIN x.e
  BY <1>5 DEF Redirected
<1>8. Alike(x, y)
  <2>1. EntrNum(y) >= EntrNum(x) /\ DOMAIN x.e \subseteq DOMAIN y.e
    BY <1>3, <1>6, <1>7
  <2> QED
    BY <1>7, <2>1, FrameAlike
<1>9. Steady(x, y)
  BY <1>5 DEF Steady, Redirected, Frame
<1>10. PICK s : s = <<>>
  OBVIOUS
<1>11. Easy(K, s) /\ Then(t, s)
  BY <1>10, Good0, EasyIs
<1> QED
  BY <1>2, <1>6, <1>8, <1>9, <1>11, SteadyKeeps

LEMMA SwapKeeps ==
    ASSUME NEW K \in BOOLEAN, TreeInv(K), NEW t \in Thread, SwapStep(t), During(t)
    PROVE  TreeInv(K)' /\ FinalsStay
<1>1. Shape
  BY DEF TreeInv
<1>2. todo[t] # <<>> /\ Now(t).do = "swap" /\ StepOK(K, Now(t))
  BY AtIs, HeadIs DEF SwapStep
<1>3. PICK i : i = Now(t)
  OBVIOUS
<1>4. PICK c \in Ids : c = i.c
  BY <1>2, <1>3 DEF StepOK
<1>5. /\ i.key \in Key /\ H(c) # 0 /\ Fits(H(c), i.data)
      /\ i.slot \in DOMAIN chunk[c].e
  BY <1>2, <1>3, <1>4 DEF StepOK
<1>6. CASE Privately(t, <<Freeze(c, CallOf(i, "SWAP", i.exp))>>)
  <2>1. PICK w : w = CallOf(i, "SWAP", i.exp)
    OBVIOUS
  <2>2. CallOK(H(c), w)
    BY <1>5, <2>1, CallOfIs
  <2>3. AllGood(K, <<Freeze(c, w)>>)
    BY <2>2, GoodCalls, Good1
  <2> QED
    BY <1>2, <1>6, <2>1, <2>3, PrivateKeeps
<1>7. CASE Privately(t, <<>>)
  BY <1>2, <1>7, PrivateKeeps, Good0
<1>8. CASE /\ chunk' = [chunk EXCEPT ![c].e[i.slot].data = i.data]
           /\ Then(t, <<>>) /\ UNCHANGED <<root, top, word, hold, fault>>
  <2>1. PICK j : j = i.slot
    OBVIOUS
  <2>2. PICK d : d = i.data
    OBVIOUS
  <2>3. PICK y : y = [chunk[c] EXCEPT !.e[j].data = d]
    OBVIOUS
  <2>4. chunk' = [chunk EXCEPT ![c] = y]
    BY <1>8, <2>1, <2>2, <2>3
  <2>5. OnlyChunk(c, y) /\ UNCHANGED hold /\ Then(t, <<>>)
    BY <1>8, <2>4 DEF OnlyChunk
  <2> QED
    BY <1>2, <1>5, <2>1, <2>2, <2>3, <2>5, SwappedKeeps
<1> QED
  BY <1>3, <1>4, <1>6, <1>7, <1>8 DEF SwapStep

LEMMA SetRootKeeps ==
    ASSUME NEW K \in BOOLEAN, TreeInv(K), NEW t \in Thread, SetRootStep(t), During(t)
    PROVE  TreeInv(K)' /\ FinalsStay
<1>1. Shape
  BY DEF TreeInv
<1>2. todo[t] # <<>> /\ Now(t).do = "setRoot" /\ StepOK(K, Now(t))
  BY AtIs, HeadIs DEF SetRootStep
<1>3. PICK c \in Ids : c = Now(t).new /\ chunk[c].next = Null
  BY <1>2 DEF StepOK
<1>4. PICK x : x = chunk[c]
  OBVIOUS
<1>5. PICK y : y = [x EXCEPT !.root = TRUE]
  OBVIOUS
<1>6. x \in ChunkRecord /\ Sound(x) /\ EntrNum(x) \in Nat
  BY <1>1, <1>4, ChunkTyped
<1>7. /\ y \in ChunkRecord /\ y.e = x.e /\ y.root = TRUE /\ y.cnt = x.cnt /\ y.height = x.height
      /\ y.frozen = x.frozen /\ y.low = x.low /\ y.next = x.next /\ y.creator = x.creator
  BY <1>5, <1>6 DEF ChunkRecord
<1>8. Steady(x, y)
  BY <1>7 DEF Steady
<1>9. Linked(y) = Linked(x) /\ Pending(y) = Pending(x) /\ EntrNum(y) = EntrNum(x)
  BY <1>8, SteadyLinks
<1>10. Sound(y)
  BY <1>6, <1>7, <1>9 DEF Sound
<1>11. Alike(x, y)
  BY <1>3, <1>4, <1>6, <1>7, <1>9 DEF Alike
<1>12. OnlyChunk(c, y) /\ UNCHANGED hold
  BY <1>3, <1>4, <1>5 DEF SetRootStep, OnlyChunk
<1>13. PICK s : s = <<>>
  OBVIOUS
<1>14. Easy(K, s) /\ Then(t, s)
  BY <1>13, Good0, EasyIs DEF SetRootStep
<1> QED
  BY <1>2, <1>4, <1>8, <1>10, <1>11, <1>12, <1>14, SteadyKeeps

(***************************************************************************)
(* markChunkFrozen.                                                        *)
(***************************************************************************)
LEMMA LateIs ==
    ASSUME NEW c, chunk[c] \in ChunkRecord
    PROVE  /\ Len(EntriesToLink(c)) \in Nat /\ DOMAIN EntriesToLink(c) = 1 .. Len(EntriesToLink(c))
           /\ \A m \in DOMAIN EntriesToLink(c) : EntriesToLink(c)[m] \in Pending(chunk[c])
<1> DEFINE S == Pending(chunk[c])
           R == {p \in S \X S : p[1] < p[2]}
           Nth(m) == CHOOSE i \in S : Cardinality({j \in S : j < i}) = m - 1
<1>1. S \in SUBSET (DOMAIN chunk[c].e) /\ \A i \in S : i \in Nat
  BY EntriesAre DEF Pending
<1>2. IsFiniteSet(S) /\ Cardinality(S) \in Nat
  BY <1>1, SlotsFinite
<1>3. Ordered(S, R) /\ \A i, j \in S : <<i, j>> \in R <=> i < j
  BY <1>1 DEF Ordered
<1>4. ASSUME NEW m \in 1 .. Cardinality(S) PROVE Nth(m) \in S
  <2>1. PICK i \in S : Cardinality(Ahead(S, R, i)) = m - 1
    BY <1>2, <1>3, RankExists
  <2>2. Ahead(S, R, i) = {j \in S : j < i}
    BY <1>3, <2>1 DEF Ahead
  <2>3. Cardinality({j \in S : j < i}) = m - 1
    BY <2>1, <2>2
  <2> QED
    BY <2>3
<1>5. EntriesToLink(c) = [m \in 1 .. Cardinality(S) |-> Nth(m)]
  BY DEF EntriesToLink
<1> HIDE DEF Nth, S
<1>6. Len(EntriesToLink(c)) = Cardinality(S) /\ DOMAIN EntriesToLink(c) = 1 .. Cardinality(S)
  BY <1>2, <1>5
<1>7. \A m \in DOMAIN EntriesToLink(c) : EntriesToLink(c)[m] \in S
  BY <1>4, <1>5, <1>6
<1> QED
  BY <1>2, <1>6, <1>7 DEF S

LEMMA SettleKeeps ==
    ASSUME NEW K \in BOOLEAN, TreeInv(K), NEW t \in Thread, SettleStep(t), During(t)
    PROVE  TreeInv(K)' /\ FinalsStay
<1>1. Shape /\ Words /\ Stacks(K) /\ Counts(K) /\ Holds
  BY DEF TreeInv
<1>2. todo[t] # <<>> /\ Now(t).do = "settle" /\ StepOK(K, Now(t)) /\ hold[t] = NoHold
  BY AtIs, HeadIs DEF SettleStep
<1>3. PICK c \in Ids : c = Now(t).c
  BY <1>2 DEF StepOK
<1>4. PICK x : x = chunk[c]
  OBVIOUS
<1>5. PICK y : y = [x EXCEPT !.frozen = TRUE]
  OBVIOUS
<1>6. PICK late : late = EntriesToLink(c)
  OBVIOUS
<1>7. PICK s : s = [m \in DOMAIN late |-> Place(c, late[m], FALSE)]
  OBVIOUS
<1>8. /\ x \in ChunkRecord /\ Sound(x) /\ EntrNum(x) \in Nat /\ x.cnt \in Int
      /\ x.frozen \in BOOLEAN /\ x.height = H(c)
  BY <1>1, <1>4, ChunkTyped, EntriesAre DEF H
<1>9. /\ y \in ChunkRecord /\ y.e = x.e /\ y.frozen = TRUE /\ y.cnt = x.cnt /\ y.height = x.height
      /\ y.root = x.root /\ y.low = x.low /\ y.next = x.next /\ y.creator = x.creator
  BY <1>5, <1>8 DEF ChunkRecord
<1>10. Linked(y) = Linked(x) /\ Pending(y) = Pending(x) /\ EntrNum(y) = EntrNum(x)
  BY <1>9 DEF Linked, Pending, EntrNum
<1>11. Sound(y)
  BY <1>8, <1>9, <1>10 DEF Sound
<1>12. Alike(x, y)
  BY <1>8, <1>9, <1>10 DEF Alike
<1>13. /\ OnlyChunk(c, y) /\ Then(t, s)
       /\ hold' = IF x.frozen THEN hold
                  ELSE [u \in Thread |-> IF hold[u].c = c /\ hold[u].at \in {Null} \cup DOMAIN x.e
                                         THEN NoHold ELSE hold[u]]
  BY <1>3, <1>4, <1>5, <1>6, <1>7 DEF SettleStep, OnlyChunk, Touch
<1>14. Shape' /\ Grows
  BY <1>1, <1>4, <1>11, <1>12, <1>13, OneChunk
<1>15. DOMAIN chunk = Ids /\ Ids' = Ids /\ chunk'[c] = y
  BY <1>1, <1>13 DEF OnlyChunk, Shape, Ids
<1>16. /\ Len(late) \in Nat /\ DOMAIN late = 1 .. Len(late)
       /\ \A m \in DOMAIN late : late[m] \in Pending(x)
  BY <1>4, <1>6, <1>8, LateIs
<1>17. IsSeq(s) /\ Len(s) = Len(late)
  <2>1. s = [m \in 1 .. Len(late) |-> s[m]]
    BY <1>7, <1>16
  <2> QED
    BY <1>16, <2>1, SeqIs
<1>18. ASSUME NEW m \in 1 .. Len(s)
       PROVE  StepOK(K, s[m])' /\ Plain(s[m]) /\ s[m].do = "place" /\ ~s[m].own
  <2>1. PICK p : p = s[m]
    OBVIOUS
  <2>2. m \in DOMAIN late
    BY <1>16, <1>17
  <2>3. p = Place(c, late[m], FALSE)
    BY <1>7, <2>1, <2>2
  <2>4. p.do = "place" /\ p.c = c /\ p.slot = late[m] /\ p.own = FALSE
    BY <2>3 DEF Place
  <2>5. late[m] \in DOMAIN x.e /\ late[m] \in Pending(x)
    BY <1>16, <2>2 DEF Pending
  <2>6. H(c) # 0
    BY <1>8, <2>5 DEF Sound
  <2>7. c \in Ids' /\ H(c)' # 0 /\ late[m] \in DOMAIN chunk'[c].e /\ chunk'[c].frozen
    BY <1>8, <1>9, <1>15, <2>5, <2>6 DEF H
  <2>8. StepOK(K, p)'
    BY <2>4, <2>7 DEF StepOK, Steps
  <2> QED
    BY <2>1, <2>4, <2>8 DEF Plain
<1>19. Top(K, s)'
  <2>1. Len(s) \in Nat
    BY <1>16, <1>17
  <2>2. \A m \in 1 .. Len(s) : s[m].do # "decide"
    BY <1>18
  <2>3. \A m \in 2 .. Len(s) : Plain(s[m])
    <3>1. 2 .. Len(s) \subseteq 1 .. Len(s)
      BY <2>1
    <3> QED
      BY <1>18, <3>1
  <2>4. \A m \in 1 .. Len(s) : StepOK(K, s[m])'
    BY <1>18
  <2>5. IsSeq(s)'
    BY <1>17 DEF IsSeq
  <2> QED
    BY <2>2, <2>3, <2>4, <2>5 DEF Top
<1>20. OnlyOf(t) /\ Idle(t)'
  <2>1. Pushes(t, s)
    BY <1>2, <1>13 DEF Pushes, Then
  <2>2. /\ OnlyOf(t)
        /\ s # <<>> => Head(todo'[t]) = s[1]
        /\ (s = <<>> /\ todo'[t] # <<>>) => Plain(Head(todo'[t]))
    BY <1>1, <1>17, <2>1, Heads
  <2>3. s # <<>> => Plain(s[1])
    <3>1. s # <<>> => 1 \in 1 .. Len(s)
      BY <1>17, TailIs, IsSeqIs
    <3> QED
      BY <1>18, <3>1
  <2> QED
    BY <2>2, <2>3 DEF Idle, Now, Plain
<1>21. Owning'
  <2>1. ~OwnsSlot(t)'
    BY <1>20 DEF Idle, Plain, OwnsSlot, Placing, At, Now
  <2> QED
    BY <1>9, <1>13, <1>20, <2>1, OwnersOne
<1>22. Holds'
  <2>1. HoldsLeft(t, c, y)
    <3>1. CASE x.frozen
      <4>1. SameLinks(x, y)
        BY <1>9, <1>10, <3>1 DEF SameLinks
      <4>2. ASSUME NEW u \in Thread \ {t}, hold[u] # NoHold, hold[u].c = c PROVE HoldIn(u, y)
        BY <1>4, <1>9, <4>1, <4>2, HoldSame
      <4>3. hold' = hold
        BY <1>13, <3>1
      <4> QED
        BY <1>1, <1>2, <4>2, <4>3 DEF HoldsLeft, Holds
    <3>2. CASE ~x.frozen
      <4>1. hold' = [u \in Thread |-> IF hold[u].c = c /\ hold[u].at \in {Null} \cup DOMAIN x.e
                                      THEN NoHold ELSE hold[u]]
        BY <1>13, <3>2
      <4>2. ASSUME NEW u \in Thread, hold[u] # NoHold, hold[u].c = c PROVE hold[u].at \in {Null} \cup DOMAIN x.e
        <5>1. HoldOK(u) /\ Now(u).c = c
          BY <1>1, <4>2 DEF Holds, HoldOK
        <5>2. CASE At(u, "mark")
          BY <1>4, <4>2, <5>1, <5>2 DEF HoldOK, Linked
        <5>3. CASE At(u, "link")
          <6>1. PICK k : k = x.e[Now(u).slot].key
            OBVIOUS
          <6>2. k \in Key
            BY <1>4, <1>8, <5>1, <5>3, <6>1, WhereIs, EntriesAre DEF Placing
          <6>3. hold[u].at = PrevOf(x, k)
            BY <1>4, <4>2, <5>1, <5>3, <6>1 DEF HoldOK
          <6>4. PrevOf(x, k) # Null => PrevOf(x, k) \in DOMAIN x.e
            BY <1>8, <6>2, KeysAre, PrevIs
          <6> QED
            BY <6>3, <6>4
        <5> QED
          BY <5>1, <5>2, <5>3 DEF HoldOK
      <4>3. hold'[t] = NoHold
        BY <1>2, <4>1
      <4>4. ASSUME NEW u \in Thread PROVE ~(hold'[u] # NoHold /\ hold[u].c = c) /\ (hold'[u] = hold[u] \/ hold'[u] = NoHold)
        BY <4>1, <4>2
      <4> QED
        BY <4>1, <4>3, <4>4 DEF HoldsLeft
    <3> QED
      BY <1>8, <3>1, <3>2
  <2> QED
    BY <1>13, <1>20, <2>1, HoldsOne
<1>23. Counts(K)'
  <2>1. \A d \in Ids : Owed(d)' \subseteq Owed(d)
    BY <1>20, OwedKept
  <2>2. Cardinality(Owed(c)') <= Cardinality(Owed(c)) /\ Cardinality(Owed(c)') \in Nat
    BY <2>1, OwedFewer
  <2>3. /\ Enough(K, x) /\ Cardinality(Owed(c)) \in Nat
        /\ Kept(K, x) => EntrNum(x) >= x.cnt + Cardinality(Owed(c))
    BY <1>1, <1>4, Numbers
  <2>4. Enough(K, y) /\ (Kept(K, y) <=> Kept(K, x))
    BY <1>9, <2>3 DEF Enough, Kept
  <2>5. Kept(K, y) => EntrNum(y) >= y.cnt + Cardinality(Owed(c)')
    BY <1>8, <1>9, <1>10, <2>2, <2>3, <2>4
  <2> QED
    BY <1>1, <1>13, <2>1, <2>4, <2>5, CountsOne
<1>24. chunk'[Now(t).c].frozen
  BY <1>3, <1>9, <1>15
<1> QED
  BY <1>2, <1>4, <1>11, <1>12, <1>13, <1>19, <1>21, <1>22, <1>23, <1>24, ChunkKeeps
-----------------------------------------------------------------------------
(***************************************************************************)
(* New chunks come into use; an old one may get its replacement.           *)
(***************************************************************************)
Prior(x, y) ==
    /\ y \in ChunkRecord /\ y.e = x.e /\ y.cnt = x.cnt /\ y.height = x.height /\ y.root = x.root
    /\ y.frozen = x.frozen /\ y.next = x.next /\ y.creator = x.creator
    /\ x.low # Null => y.low = x.low

Extends ==
    /\ top' \in ChunkId /\ Ids \subseteq Ids' /\ DOMAIN chunk' = Ids' /\ root' \in Ids'
    /\ \A d \in Ids : Prior(chunk[d], chunk'[d]) /\ word'[d] = word[d]
    /\ WordType'

FreshOK(K, d) ==
    /\ Sound(chunk[d]) /\ Related(d) /\ WordOK(d)
    /\ Enough(K, chunk[d]) /\ (Kept(K, chunk[d]) => EntrNum(chunk[d]) >= chunk[d].cnt)

Replaced(d) ==
    /\ chunk[d].low \in Ids /\ H(chunk[d].low) = H(d)
    /\ St(d) \in {"COPY", "SPLIT", "MERGE"} /\ (St(d) = "SPLIT" => ReplacedByTwo(d))

LEMMA ExtendGrows ==
    ASSUME Shape, Extends
    PROVE  /\ Grows /\ FinalsStay
           /\ \A d \in Ids : EntrNum(chunk'[d]) = EntrNum(chunk[d])
<1>1. ASSUME NEW d \in Ids
      PROVE  /\ H(d)' = H(d) /\ EntrNum(chunk'[d]) = EntrNum(chunk[d])
             /\ chunk'[d].e = chunk[d].e /\ chunk'[d].frozen = chunk[d].frozen
             /\ chunk[d].low # Null => chunk'[d].low = chunk[d].low
             /\ chunk'[d].next = chunk[d].next /\ word'[d] = word[d]
  <2>1. Prior(chunk[d], chunk'[d]) /\ word'[d] = word[d]
    BY DEF Extends
  <2>2. chunk'[d].e = chunk[d].e
    BY <2>1 DEF Prior
  <2>3. EntrNum(chunk'[d]) = EntrNum(chunk[d])
    BY <2>2 DEF EntrNum, Linked
  <2> QED
    BY <2>1, <2>2, <2>3 DEF Prior, H
<1>2. ASSUME NEW d \in Ids, MinFrozen(d) PROVE MinFrozen(d)'
  <2>1. MinFrozen(d)' <=> (chunk'[d].frozen /\ EntrNum(chunk'[d]) >= MinEntries)
    BY DEF MinFrozen, EntrNum, Linked
  <2> QED
    BY <1>1, <1>2, <2>1 DEF MinFrozen
<1>3. FinalsStay
  BY <1>1 DEF FinalsStay
<1>4. Grows
  BY <1>1, <1>2 DEF Grows, Extends
<1> QED
  BY <1>1, <1>3, <1>4

LEMMA ExtendShape ==
    ASSUME Shape, Extends, NEW K,
           \A d \in Ids : chunk'[d].low # chunk[d].low => Replaced(d)',
           \A d \in Ids' \ Ids : FreshOK(K, d)'
    PROVE  Shape'
<1>1. Grows
  BY ExtendGrows
<1>2. ASSUME NEW d \in Ids PROVE Sound(chunk[d])' /\ Related(d)'
  <2>1. PICK x : x = chunk[d]
    OBVIOUS
  <2>2. PICK y : y = chunk'[d]
    OBVIOUS
  <2>3. Prior(x, y) /\ Sound(x) /\ Related(d)
    BY <2>1, <2>2, ChunkTyped DEF Extends
  <2>4. Sound(x)'
    BY <1>1, <2>3, SoundStays
  <2>5. Sound(y)'
    <3>1. Pending(y) = Pending(x)
      BY <2>3 DEF Pending, Prior
    <3>2. Sound(x)' <=> /\ x \in ChunkRecord
                        /\ \A i \in DOMAIN x.e : Fits(x.height, x.e[i].data)'
                        /\ (x.height = 0 => Pending(x) = {})
      BY DEF Sound
    <3>3. Sound(y)' <=> /\ y \in ChunkRecord
                        /\ \A i \in DOMAIN y.e : Fits(y.height, y.e[i].data)'
                        /\ (y.height = 0 => Pending(y) = {})
      BY DEF Sound
    <3> QED
      BY <2>3, <2>4, <3>1, <3>2, <3>3 DEF Prior
  <2>6. y.low # Null => y.low \in Ids' /\ H(y.low)' = H(d)'
    <3>1. CASE y.low = x.low
      BY <1>1, <2>1, <2>3, <3>1 DEF Related, Grows
    <3>2. CASE y.low # x.low
      BY <2>1, <2>2, <3>2 DEF Replaced
    <3> QED
      BY <3>1, <3>2
  <2>7. y.next # Null => y.next \in Ids' /\ H(y.next)' = H(d)'
    BY <1>1, <2>1, <2>3 DEF Related, Prior, Grows
  <2>8. y.creator # Null =>
           /\ y.creator \in Ids' /\ H(y.creator)' = H(d)' /\ chunk'[y.creator].low # Null
    BY <1>1, <2>1, <2>3 DEF Related, Prior, Grows
  <2>9. y.root => y.next = Null
    BY <2>1, <2>3 DEF Related, Prior
  <2> QED
    BY <2>2, <2>5, <2>6, <2>7, <2>8, <2>9 DEF Related
<1>3. ASSUME NEW d \in Ids' PROVE Sound(chunk[d])' /\ Related(d)'
  BY <1>2, <1>3 DEF FreshOK
<1> QED
  BY <1>3 DEF Shape, Extends

LEMMA ExtendWords ==
    ASSUME Shape, Words, Extends, NEW K,
           \A d \in Ids : chunk'[d].low # chunk[d].low => Replaced(d)',
           \A d \in Ids' \ Ids : FreshOK(K, d)'
    PROVE  Words'
<1>1. Grows /\ \A d \in Ids : EntrNum(chunk'[d]) = EntrNum(chunk[d])
  BY ExtendGrows
<1>2. ASSUME NEW d \in Ids PROVE WordOK(d)'
  <2>1. word'[d] = word[d] /\ WordOK(d) /\ (Bud(d) # Null => Bud(d) \in Ids)
    BY WordIs DEF Extends
  <2>2. St(d)' = St(d) /\ Bud(d)' = Bud(d)
    BY <2>1 DEF St, Bud
  <2>3. (Bud(d) # Null => H(Bud(d)) = H(d))'
    BY <1>1, <2>1, <2>2 DEF WordOK, Grows
  <2>4. (St(d) = "MERGE" => Paired(d, Bud(d)))'
    <3>1. ASSUME St(d) = "MERGE" PROVE Paired(d, Bud(d))'
      <4>1. Paired(d, Bud(d)) /\ Bud(d) \in Ids
        BY <2>1, <3>1 DEF WordOK, Paired
      <4> QED
        BY <2>1, <2>2, <4>1 DEF Paired, Extends
    <3> QED
      BY <2>2, <3>1
  <2>5. (St(d) \in {"REQUEST_SLAVE", "MERGE"} => MinFrozen(d))'
    BY <1>1, <2>1, <2>2 DEF WordOK, Grows
  <2>6. (St(d) = "SPLIT" => chunk[d].frozen /\ EntrNum(chunk[d]) >= MaxEntries)'
    <3>1. EntrNum(chunk[d])' = EntrNum(chunk'[d])
      BY DEF EntrNum, Linked
    <3> QED
      BY <1>1, <2>1, <2>2, <3>1 DEF WordOK, Grows
  <2>7. CASE chunk'[d].low = chunk[d].low
    <3>1. (chunk[d].low # Null => St(d) \in {"COPY", "SPLIT", "MERGE"})'
      BY <2>1, <2>2, <2>7 DEF WordOK
    <3>2. ASSUME St(d) = "SPLIT", chunk[d].low # Null PROVE ReplacedByTwo(d)'
      BY <1>1, <2>1, <3>2, TwoStays DEF WordOK, Shape
    <3>3. (St(d) = "SPLIT" /\ chunk[d].low # Null => ReplacedByTwo(d))'
      BY <2>2, <2>7, <3>2
    <3> QED
      BY <2>3, <2>4, <2>5, <2>6, <3>1, <3>3 DEF WordOK
  <2>8. CASE chunk'[d].low # chunk[d].low
    <3>1. Replaced(d)'
      BY <2>8
    <3> QED
      BY <2>3, <2>4, <2>5, <2>6, <3>1 DEF WordOK, Replaced
  <2> QED
    BY <2>7, <2>8
<1>3. ASSUME NEW d \in Ids' PROVE WordOK(d)'
  BY <1>2, <1>3 DEF FreshOK
<1> QED
  BY <1>3 DEF Words, Extends

LEMMA ExtendCounts ==
    ASSUME NEW K, TreeInv(K), Extends, \A d \in Ids' \ Ids : FreshOK(K, d)',
           \A d : Owed(d)' \subseteq Owed(d)
    PROVE  Counts(K)'
<1>1. Shape /\ Counts(K)
  BY DEF TreeInv
<1>2. ASSUME NEW d \in Ids PROVE (Enough(K, chunk[d]) /\ CountsUp(K, d))'
  <2>1. PICK x : x = chunk[d]
    OBVIOUS
  <2>2. PICK y : y = chunk'[d]
    OBVIOUS
  <2>3. Prior(x, y) /\ EntrNum(y) = EntrNum(x)
    BY <1>1, <2>1, <2>2, ExtendGrows DEF Extends
  <2>4. /\ x.cnt \in Int /\ EntrNum(x) \in Nat /\ Cardinality(Owed(d)) \in Nat /\ Enough(K, x)
        /\ Kept(K, x) => EntrNum(x) >= x.cnt + Cardinality(Owed(d))
    BY <1>1, <2>1, Numbers
  <2>5. Cardinality(Owed(d)') <= Cardinality(Owed(d)) /\ Cardinality(Owed(d)') \in Nat
    BY OwedFewer
  <2>6. Enough(K, y) /\ (Kept(K, y) => EntrNum(y) >= y.cnt + Cardinality(Owed(d)'))
    BY <2>3, <2>4, <2>5 DEF Enough, Kept, Prior
  <2>7. Enough(K, chunk[d])'
    BY <2>2, <2>6 DEF Enough, Kept
  <2>8. CountsUp(K, d)' <=> (Kept(K, y) => EntrNum(y) >= y.cnt + Cardinality(Owed(d)'))
    BY <2>2 DEF CountsUp, Kept, EntrNum, Linked
  <2> QED
    BY <2>6, <2>7, <2>8
<1>3. ASSUME NEW d \in Ids' \ Ids PROVE (Enough(K, chunk[d]) /\ CountsUp(K, d))'
  <2>1. PICK y : y = chunk'[d]
    OBVIOUS
  <2>2. FreshOK(K, d)'
    BY <1>3
  <2>3. Enough(K, chunk[d])' /\ Sound(chunk[d])'
    BY <2>2 DEF FreshOK
  <2>4. Kept(K, y) => EntrNum(y) >= y.cnt
    BY <2>1, <2>2 DEF FreshOK, Kept, EntrNum, Linked
  <2>5. y \in ChunkRecord
    BY <2>1, <2>3 DEF Sound
  <2>6. y.cnt \in Int /\ EntrNum(y) \in Nat
    BY <2>5, EntriesAre, LinkedFinite
  <2>7. Owed(d)' = {}
    <3>1. Owed(d) = {}
      BY <1>3, WhereIs DEF Owed, Counting
    <3> QED
      BY <3>1
  <2>8. Cardinality(Owed(d)') = 0
    BY <2>7, FS_EmptySet
  <2>9. CountsUp(K, d)' <=> (Kept(K, y) => EntrNum(y) >= y.cnt + Cardinality(Owed(d)'))
    BY <2>1 DEF CountsUp, Kept, EntrNum, Linked
  <2> QED
    BY <2>3, <2>4, <2>6, <2>8, <2>9
<1> QED
  BY <1>2, <1>3 DEF Counts, Extends

LEMMA ExtendKeeps ==
    ASSUME NEW K \in BOOLEAN, TreeInv(K), NEW t \in Thread, During(t),
           todo[t] # <<>>, Now(t).do \notin {"settle", "link", "mark"},
           Extends, UNCHANGED hold,
           \A d \in Ids : chunk'[d].low # chunk[d].low => Replaced(d)',
           \A d \in Ids' \ Ids : FreshOK(K, d)',
           NEW s, Top(K, s)', s # <<>> => Plain(s[1]), Then(t, s)
    PROVE  TreeInv(K)' /\ FinalsStay
<1>1. Shape /\ Words /\ Stacks(K) /\ Owning /\ Holds /\ Calls /\ hold[t] = NoHold
  BY HeadIs DEF TreeInv
<1>2. Grows /\ FinalsStay /\ Shape' /\ Words'
  BY <1>1, ExtendGrows, ExtendShape, ExtendWords
<1>3. Pushes(t, s) /\ IsSeq(s)
  <2>1. IsSeq(s)' <=> IsSeq(s)
    BY DEF IsSeq
  <2> QED
    BY <2>1 DEF Pushes, Then, Top
<1>4. Stacks(K)'
  BY <1>1, <1>2, <1>3, StackPushed
<1>5. OnlyOf(t) /\ Idle(t)'
  <2>1. /\ OnlyOf(t)
        /\ s # <<>> => Head(todo'[t]) = s[1]
        /\ (s = <<>> /\ todo'[t] # <<>>) => Plain(Head(todo'[t]))
    BY <1>1, <1>3, Heads
  <2> QED
    BY <2>1 DEF Idle, Now, Plain
<1>6. ASSUME NEW u \in Thread, u # t
      PROVE  /\ Now(u)' = Now(u) /\ (Placing(u)' <=> Placing(u))
             /\ (At(u, "link")' <=> At(u, "link")) /\ (At(u, "mark")' <=> At(u, "mark"))
  BY <1>5, <1>6, Others DEF Placing
<1>7. \A d \in Ids : chunk'[d].e = chunk[d].e /\ chunk'[d].frozen = chunk[d].frozen
  BY DEF Extends, Prior
<1>8. Owning'
  <2>1. ASSUME NEW u \in Thread, OwnsSlot(u)'
        PROVE  /\ OwnsSlot(u) /\ Now(u)'.c = Now(u).c /\ Now(u)'.slot = Now(u).slot
               /\ chunk'[Now(u).c].e[Now(u).slot].at = "pending"
    <3>1. u # t
      BY <1>5, <2>1 DEF Idle, Plain, OwnsSlot, Placing, At, Now
    <3>2. Placing(u) /\ Now(u)' = Now(u) /\ Now(u).own /\ ~chunk'[Now(u).c].frozen
      BY <1>6, <2>1, <3>1 DEF OwnsSlot
    <3>3. Now(u).c \in Ids
      BY <3>2, WhereIs
    <3>4. OwnsSlot(u)
      BY <1>7, <3>2, <3>3 DEF OwnsSlot
    <3> QED
      BY <1>1, <1>7, <3>2, <3>3, <3>4 DEF Owning
  <2> QED
    BY <1>1, <2>1, OwningStays DEF OwnersStay
<1>9. Holds'
  <2>1. ASSUME NEW u \in Thread, hold'[u] # NoHold PROVE HoldOK(u)'
    <3>1. u # t /\ hold'[u] = hold[u] /\ HoldOK(u) /\ hold[u].c \in Ids
      BY <1>1, <2>1, WhereIs DEF Holds
    <3>2. PICK x : x = chunk[hold[u].c]
      OBVIOUS
    <3>3. PICK y : y = chunk'[hold[u].c]
      OBVIOUS
    <3>4. /\ y.e = x.e /\ y.frozen = x.frozen /\ Linked(y) = Linked(x)
          /\ y \in ChunkRecord /\ x \in ChunkRecord
      <4>1. Prior(x, y) /\ x \in ChunkRecord
        BY <1>1, <3>1, <3>2, <3>3, ChunkTyped DEF Extends
      <4> QED
        BY <4>1 DEF Linked, Prior
    <3>5. CASE At(u, "link")
      <4>1. PICK k : k = x.e[Now(u).slot].key
        OBVIOUS
      <4>2. ~Has(x, k) /\ hold[u].at = PrevOf(x, k) /\ hold[u].c = Now(u).c
        BY <3>1, <3>2, <3>5, <4>1 DEF HoldOK
      <4>3. k \in Key
        BY <3>2, <3>4, <3>5, <4>1, <4>2, WhereIs, EntriesAre DEF Placing
      <4>4. ~Has(y, k) /\ hold[u].at = PrevOf(y, k) /\ k = y.e[Now(u).slot].key
        BY <3>4, <4>1, <4>2, <4>3, SameList
      <4>5. ~At(u, "mark")
        BY <3>5 DEF At
      <4> QED
        BY <1>6, <3>1, <3>3, <3>5, <4>2, <4>4, <4>5 DEF HoldOK
    <3>6. CASE ~At(u, "link")
      <4>1. (hold[u].at \in Linked(chunk[hold[u].c]))' <=> hold'[u].at \in Linked(y)
        BY <3>1, <3>3 DEF Linked
      <4> QED
        BY <1>6, <3>1, <3>2, <3>3, <3>4, <3>6, <4>1 DEF HoldOK
    <3> QED
      BY <3>5, <3>6
  <2> QED
    BY <1>1, <2>1 DEF Holds
<1>10. Counts(K)'
  BY <1>5, OwedKept, ExtendCounts
<1>11. Calls'
  BY <1>1, CallsStay DEF During
<1> QED
  BY <1>2, <1>4, <1>8, <1>9, <1>10, <1>11 DEF TreeInv

(***************************************************************************)
(* splitRoot: a new root with the two new chunks as sons.                  *)
(***************************************************************************)
ChunksListed == chunk = [c \in 1 .. top |-> chunk[c]]

Longer(s, e) == Append(s, e)

Lengthens(S, n, s, e, z) ==
    z \in [1 .. n + 1 -> S] /\ (\A i \in 1 .. n : z[i] = s[i]) /\ z[n + 1] = e

LEMMA Appended ==
    ASSUME NEW S, NEW n \in Nat, NEW s, s \in [1 .. n -> S], NEW e \in S
    PROVE  Lengthens(S, n, s, e, Longer(s, e))
<1>1. s \in Seq(S) /\ Len(s) = n
  OBVIOUS
<1>2. PICK z : z = Longer(s, e)
  OBVIOUS
<1>3. z \in Seq(S) /\ Len(z) = n + 1 /\ (\A i \in 1 .. n : z[i] = s[i]) /\ z[n + 1] = e
  BY <1>1, <1>2, AppendProperties DEF Longer
<1>4. z \in [1 .. n + 1 -> S]
  BY <1>3
<1> QED
  BY <1>2, <1>3, <1>4 DEF Lengthens

\* a root with two sons
AllLinked(list) == \A i \in 1 .. Len(list) : list[i].at = "linked"

IsRoot(x, list, h, r) ==
    /\ x \in ChunkRecord /\ x.e = list /\ EntrNum(x) = Len(list) /\ x.cnt = Len(list)
    /\ x.height = h /\ x.root = r /\ x.low = Null /\ x.next = Null /\ x.creator = Null

LEMMA RootIs ==
    ASSUME NEW h \in Nat, NEW list, list \in Seq(EntryRecord), AllLinked(list), NEW r \in BOOLEAN, NEW t \in Thread
    PROVE  IsRoot(Chunk(list, h, r, Null, t), list, h, r)
<1> DEFINE e == [i \in DOMAIN list |-> [list[i] EXCEPT !.at = "linked"]]
           x == Chunk(list, h, r, Null, t)
<1>1. DOMAIN list = 1 .. Len(list) /\ Len(list) \in Nat
  OBVIOUS
<1>2. ASSUME NEW i \in 1 .. Len(list) PROVE e[i] = list[i]
  <2>1. PICK y : y = list[i]
    OBVIOUS
  <2>2. y \in EntryRecord /\ y.at = "linked"
    BY <1>1, <2>1 DEF AllLinked
  <2>3. e[i] = [y EXCEPT !.at = "linked"]
    BY <1>1, <2>1
  <2>4. [y EXCEPT !.at = "linked"] = y
    BY <2>2 DEF EntryRecord
  <2> QED
    BY <2>1, <2>3, <2>4
<1>3. DOMAIN e = 1 .. Len(list) /\ e = [i \in 1 .. Len(list) |-> e[i]] /\ list = [i \in 1 .. Len(list) |-> list[i]]
  BY <1>1
<1>4. x = [e |-> e, cnt |-> Len(list), height |-> h, root |-> r, frozen |-> FALSE,
           low |-> Null, next |-> Null, creator |-> Null, by |-> t]
  BY DEF Chunk
<1> HIDE DEF e, x
<1>5. e = list
  BY <1>2, <1>3
<1>6. /\ x.e = list /\ x.cnt = Len(list) /\ x.height = h /\ x.root = r /\ x.low = Null /\ x.next = Null
      /\ x.creator = Null
  BY <1>4, <1>5
<1>7. x \in ChunkRecord
  BY <1>4, <1>5 DEF ChunkRecord
<1>8. EntrNum(x) = Len(list)
  <2>1. Linked(x) = 1 .. Len(list)
    BY <1>1, <1>6 DEF Linked, AllLinked
  <2>2. PICK n : n = Len(list)
    OBVIOUS
  <2>3. /\ n \in Nat /\ 1 \in Int
        /\ ~(1 > n) \/ n = 0
    BY <1>1, <2>2
  <2>4. Cardinality(1 .. n) = n
    BY <2>3, FS_Interval
  <2> QED
    BY <2>1, <2>2, <2>4 DEF EntrNum
<1>9. IsRoot(x, list, h, r)
  BY <1>6, <1>7, <1>8 DEF IsRoot
<1> QED
  BY <1>9 DEF x

LEMMA NewRootKeeps ==
    ASSUME NEW K \in BOOLEAN, TreeInv(K), ChunksListed, NEW t \in Thread, NewRootStep(t), During(t)
    PROVE  TreeInv(K)' /\ FinalsStay
<1>1. Shape /\ Words
  BY DEF TreeInv
<1>2. todo[t] # <<>> /\ Now(t).do = "newRoot" /\ StepOK(K, Now(t))
  BY AtIs, HeadIs DEF NewRootStep
<1>3. PICK c \in Ids : c = Now(t).c
  BY <1>2 DEF StepOK
<1>4. PICK sep \in Key : sep = Now(t).sep
  BY <1>2 DEF StepOK
<1>5. Then(t, <<>>) /\ UNCHANGED hold
  BY DEF NewRootStep
<1>6. CASE root # c
  <2>1. Privately(t, <<>>)
    BY <1>3, <1>6 DEF NewRootStep, Privately, Shared
  <2> QED
    BY <1>2, <2>1, Good0, PrivateKeeps
<1>7. CASE root = c
  <2>1. PICK low, high : low = LowNew(c) /\ high = HighNew(c)
    OBVIOUS
  <2>2. low \in Ids /\ H(low) = H(c) /\ high \in Ids /\ H(high) = H(c)
    <3>1. ReplacedByTwo(c)
      BY <1>2, <1>3 DEF StepOK
    <3>2. chunk[c].low # Null
      BY <3>1 DEF ReplacedByTwo
    <3> QED
      BY <1>1, <2>1, <3>1, <3>2, NewsAre
  <2>3. PICK list : list = <<[key |-> sep, data |-> low, at |-> "linked"],
                             [key |-> MaxKey, data |-> high, at |-> "linked"]>>
    OBVIOUS
  <2>3a. PICK x : x = Chunk(list, H(c) + 1, TRUE, Null, t)
    OBVIOUS
  <2>0. PICK n : n = top + 1
    OBVIOUS
  <2>4. /\ top < MaxChunks /\ top' = top + 1 /\ root' = top + 1
        /\ chunk' = Append(chunk, x) /\ word' = Append(word, W("NORMAL", Null))
    BY <1>3, <1>4, <1>7, <2>1, <2>3, <2>3a DEF NewRootStep, H
  <2>5. /\ top \in Nat /\ top' \in ChunkId /\ Ids \subseteq Ids' /\ Ids \subseteq ChunkId
        /\ Ids' = Ids \cup {top + 1} /\ top + 1 \notin Ids /\ H(c) \in Nat
    BY <1>1, <1>3, <2>4, ChunkTyped, StartsAssumption DEF Shape, Ids, ChunkId
  <2>6. /\ x \in ChunkRecord /\ DOMAIN x.e = 1 .. 2
        /\ x.e[1].data = low /\ x.e[2].data = high
        /\ EntrNum(x) = 2 /\ x.cnt = 2 /\ x.height = H(c) + 1 /\ x.root
        /\ x.low = Null /\ x.next = Null /\ x.creator = Null
    <3>1. PICK a, b : /\ a = [key |-> sep, data |-> low, at |-> "linked"]
                      /\ b = [key |-> MaxKey, data |-> high, at |-> "linked"]
      OBVIOUS
    <3>2. /\ a \in EntryRecord /\ b \in EntryRecord /\ a.data = low /\ b.data = high
          /\ a.at = "linked" /\ b.at = "linked"
      BY <2>2, <2>5, <3>1, KeysAre DEF EntryRecord
    <3>3. list = <<a, b>>
      BY <2>3, <3>1
    <3>4. /\ list \in Seq(EntryRecord) /\ Len(list) = 2 /\ DOMAIN list = 1 .. 2
          /\ list[1] = a /\ list[2] = b
      BY <3>2, <3>3
    <3>5. PICK r \in BOOLEAN : r = TRUE
      OBVIOUS
    <3>6. PICK h \in Nat : h = H(c) + 1
      BY <2>5
    <3>7. PICK z : z = Chunk(list, h, r, Null, t)
      OBVIOUS
    <3>8. /\ z \in ChunkRecord /\ z.e = list /\ EntrNum(z) = 2 /\ z.cnt = 2
          /\ z.height = h /\ z.root = r /\ z.low = Null /\ z.next = Null /\ z.creator = Null
      <4>1. AllLinked(list)
        BY <3>2, <3>4 DEF AllLinked
      <4>2. IsRoot(z, list, h, r)
        BY <3>4, <3>7, <4>1, RootIs
      <4> QED
        BY <3>4, <4>2 DEF IsRoot
    <3>9. x = z
      BY <2>3a, <3>5, <3>6, <3>7
    <3> QED
      BY <3>2, <3>4, <3>5, <3>6, <3>8, <3>9
  <2>7. chunk \in [1 .. top -> ChunkRecord]
    BY <1>1, ChunkTyped DEF ChunksListed, Ids
  <2>8. DOMAIN chunk' = Ids' /\ (\A d \in Ids : chunk'[d] = chunk[d]) /\ chunk'[top + 1] = x
    BY <2>4, <2>5, <2>6, <2>7, Appended DEF Ids, Longer, Lengthens
  <2>9. W("NORMAL", Null) \in [st : Alone, bud : {Null}] \cup [st : Together, bud : 1 .. top + 1]
    BY DEF W, Alone
  <2>10. word \in [1 .. top -> [st : Alone, bud : {Null}] \cup [st : Together, bud : 1 .. top + 1]]
    <3>1. word \in [1 .. top -> [st : Alone, bud : {Null}] \cup [st : Together, bud : 1 .. top]]
      BY <1>1 DEF Words, WordType
    <3>2. 1 .. top \subseteq 1 .. top + 1
      BY <2>5
    <3> QED
      BY <3>1, <3>2
  <2>11. /\ word' \in [1 .. top + 1 -> [st : Alone, bud : {Null}] \cup [st : Together, bud : 1 .. top + 1]]
         /\ \A d \in Ids : word'[d] = word[d]
         /\ word'[top + 1] = W("NORMAL", Null)
    <3>1. PICK S : S = [st : Alone, bud : {Null}] \cup [st : Together, bud : 1 .. top + 1]
      OBVIOUS
    <3>2. PICK w \in S : w = W("NORMAL", Null)
      BY <2>9, <3>1
    <3>3. PICK v : v = word
      OBVIOUS
    <3>4. PICK m : m = top
      OBVIOUS
    <3>5. v \in [1 .. m -> S] /\ word' = Longer(v, w)
      BY <2>4, <2>10, <3>1, <3>2, <3>3, <3>4 DEF Longer
    <3>5a. m \in Nat
      BY <2>5, <3>4
    <3>6. PICK z : z = Longer(v, w)
      OBVIOUS
    <3>7. Lengthens(S, m, v, w, z)
      BY <3>2, <3>5, <3>5a, <3>6, Appended
    <3>10. word' = z
      BY <3>5, <3>6
    <3> QED
      BY <3>1, <3>2, <3>3, <3>4, <3>7, <3>10 DEF Ids, Lengthens
  <2>12. Extends
    <3>1. \A d \in Ids : Prior(chunk[d], chunk'[d])
      BY <1>1, <2>8, ChunkTyped DEF Prior
    <3>2. WordType'
      BY <2>4, <2>11 DEF WordType
    <3> QED
      BY <2>4, <2>5, <2>8, <2>11, <3>1, <3>2 DEF Extends
  <2>13. n \in Ids' /\ chunk'[n] = x /\ word'[n] = W("NORMAL", Null)
    BY <2>0, <2>5, <2>8, <2>11
  <2>14. Sound(x)'
    <3>1. ASSUME NEW i \in DOMAIN x.e PROVE Fits(x.height, x.e[i].data)'
      <4>1. x.e[i].data \in {low, high}
        BY <2>6, <3>1
      <4>2. PICK s \in Ids : s = x.e[i].data /\ H(s) = H(c)
        BY <2>2, <4>1
      <4>3. s \in DOMAIN chunk' /\ chunk'[s].height = H(c)
        BY <2>5, <2>8, <4>2 DEF H
      <4>4. x.height # 0 /\ x.height - 1 = H(c)
        BY <2>5, <2>6
      <4> QED
        BY <4>2, <4>3, <4>4 DEF Fits, FitsIn
    <3>2. x.height # 0
      BY <2>5, <2>6
    <3> QED
      BY <2>6, <3>1, <3>2 DEF Sound
  <2>15. FreshOK(K, n)'
    <3>1. Sound(chunk[n])'
      <4>1. Sound(chunk[n])' <=> Sound(x)'
        BY <2>13 DEF Sound, Pending, Fits
      <4> QED
        BY <2>14, <4>1
    <3>2. Related(n)'
      BY <2>6, <2>13 DEF Related
    <3>3. WordOK(n)'
      BY <2>6, <2>13 DEF WordOK, St, Bud, W
    <3>4. Enough(K, chunk[n])'
      BY <2>6, <2>13 DEF Enough
    <3>5. (Kept(K, chunk[n]) => EntrNum(chunk[n]) >= chunk[n].cnt)'
      <4>1. EntrNum(chunk'[n]) = 2 /\ chunk'[n].cnt = 2
        BY <2>6, <2>13
      <4>2. EntrNum(chunk[n])' = EntrNum(chunk'[n])
        BY DEF EntrNum, Linked
      <4> QED
        BY <4>1, <4>2
    <3> QED
      BY <3>1, <3>2, <3>3, <3>4, <3>5 DEF FreshOK
  <2>16. \A d \in Ids' \ Ids : FreshOK(K, d)'
    <3>1. \A d \in Ids' \ Ids : d = n
      BY <2>0, <2>5
    <3> QED
      BY <2>15, <3>1
  <2>17. \A d \in Ids : chunk'[d].low # chunk[d].low => Replaced(d)'
    BY <2>8
  <2>18. PICK s : s = <<>>
    OBVIOUS
  <2>19. Top(K, s)'
    BY <2>18 DEF Top, IsSeq
  <2> QED
    BY <1>2, <1>5, <2>12, <2>16, <2>17, <2>18, <2>19, ExtendKeeps
<1> QED
  BY <1>6, <1>7

(***************************************************************************)
(* The replacement is installed, by one thread; the others go on with it.  *)
(***************************************************************************)
SameEntries(x, y) == y.e = x.e /\ y.cnt = x.cnt /\ y.height = x.height /\ y.root = x.root

LEMMA FreshIs ==
    ASSUME Shape, Extends, NEW K \in BOOLEAN, NEW c \in Ids, NEW kept \in BOOLEAN,
           NEW x, NewOK(kept, c, x), NEW y, y \in ChunkRecord,
           SameEntries(x, y), y.low = Null, y.creator = c, NEW d \in Ids', chunk'[d] = y,
           y.next # Null => y.next \in Ids' /\ H(y.next)' = H(c) /\ ~y.root,
           chunk'[c].low # Null,
           K \/ H(c) = 0 \/ y.next # Null => kept,
           word'[d].st \in {"INFANT", "SLAVE_FREEZE"},
           word'[d].bud # Null => word'[d].bud \in Ids /\ H(word'[d].bud) = H(c)
    PROVE  FreshOK(K, d)'
<1>0. y.e = x.e /\ y.cnt = x.cnt /\ y.height = x.height /\ y.root = x.root
  BY DEF SameEntries
<1>1. Grows
  BY ExtendGrows
<1>2. Sound(x) /\ x.height = H(c) /\ (kept => EntrNum(x) >= x.cnt /\ (x.root \/ x.cnt >= MinEntries))
  BY DEF NewOK
<1>3. H(d)' = H(c) /\ H(c)' = H(c) /\ c \in Ids'
  <2>1. H(d)' = y.height
    BY DEF H
  <2> QED
    BY <1>0, <1>1, <1>2, <2>1 DEF Grows
<1>4. Sound(chunk[d])'
  <2>1. Sound(x)'
    BY <1>1, <1>2, SoundStays
  <2>2. Pending(y) = Pending(x)
    BY <1>0 DEF Pending
  <2>3. Sound(x)' <=> /\ x \in ChunkRecord
                      /\ \A i \in DOMAIN x.e : Fits(x.height, x.e[i].data)'
                      /\ (x.height = 0 => Pending(x) = {})
    BY DEF Sound
  <2>4. Sound(chunk[d])' <=> /\ y \in ChunkRecord
                             /\ \A i \in DOMAIN y.e : Fits(y.height, y.e[i].data)'
                             /\ (y.height = 0 => Pending(y) = {})
    BY DEF Sound
  <2> QED
    BY <1>0, <2>1, <2>2, <2>3, <2>4
<1>5. Related(d)'
  BY <1>0, <1>3 DEF Related
<1>6. WordOK(d)'
  <2>1. St(d)' \in {"INFANT", "SLAVE_FREEZE"} /\ Bud(d)' = word'[d].bud
    BY DEF St, Bud
  <2>2. (Bud(d) # Null => H(Bud(d)) = H(d))'
    BY <1>1, <1>3, <2>1 DEF Grows
  <2>3. (chunk[d].low = Null)'
    OBVIOUS
  <2> QED
    BY <2>1, <2>2, <2>3 DEF WordOK
<1>7. EntrNum(y) = EntrNum(x) /\ (Kept(K, y) => kept)
  BY <1>0, <1>2 DEF EntrNum, Linked, Kept
<1>8. Enough(K, chunk[d])'
  <2>1. Enough(K, y)
    BY <1>0, <1>2, <1>7 DEF Enough
  <2> QED
    BY <2>1 DEF Enough, Kept
<1>9. (Kept(K, chunk[d]) => EntrNum(chunk[d]) >= chunk[d].cnt)'
  <2>1. Kept(K, y) => EntrNum(y) >= y.cnt
    BY <1>0, <1>2, <1>7
  <2>2. (EntrNum(chunk[d]))' = EntrNum(y)
    BY DEF EntrNum, Linked
  <2>3. (Kept(K, chunk[d]))' <=> Kept(K, y)
    BY DEF Kept
  <2> QED
    BY <2>1, <2>2, <2>3
<1> QED
  BY <1>4, <1>5, <1>6, <1>8, <1>9 DEF FreshOK

LEMMA LowSet ==
    ASSUME NEW x, x \in ChunkRecord, NEW n \in ChunkId
    PROVE  LET y == [x EXCEPT !.low = n] IN (Prior(x, y) /\ y.low = n) \/ x.low # Null
<1>1. PICK y : y = [x EXCEPT !.low = n]
  OBVIOUS
<1>2. y \in ChunkRecord
  BY <1>1 DEF ChunkRecord
<1>3. /\ y.low = n /\ y.e = x.e /\ y.cnt = x.cnt /\ y.height = x.height /\ y.root = x.root
      /\ y.frozen = x.frozen /\ y.next = x.next /\ y.creator = x.creator
  BY <1>1 DEF ChunkRecord
<1> QED
  BY <1>1, <1>2, <1>3 DEF Prior

LEMMA NextSet ==
    ASSUME NEW x, x \in ChunkRecord, NEW n \in ChunkId \cup {Null}
    PROVE  LET y == [x EXCEPT !.next = n]
           IN  /\ y \in ChunkRecord /\ y.next = n
               /\ y.e = x.e /\ y.cnt = x.cnt /\ y.height = x.height /\ y.root = x.root
               /\ y.low = x.low /\ y.creator = x.creator
<1>1. PICK y : y = [x EXCEPT !.next = n]
  OBVIOUS
<1>2. y \in ChunkRecord
  BY <1>1 DEF ChunkRecord
<1>3. /\ y.next = n /\ y.e = x.e /\ y.cnt = x.cnt /\ y.height = x.height /\ y.root = x.root
      /\ y.low = x.low /\ y.creator = x.creator
  BY <1>1 DEF ChunkRecord
<1> QED
  BY <1>1, <1>2, <1>3

LEMMA GoodFinished ==
    ASSUME NEW K, NEW c, NEW w, NEW r PROVE AllGood(K, Finished(c, w, r))
BY GoodRespond, Good0, Good1 DEF Finished

LEMMA GoodRepeated ==
    ASSUME NEW K, NEW h, NEW n \in Ids, H(n) = h, NEW w, CallOK(h, w) PROVE AllGood(K, Repeated(n, w))
<1>1. CASE w.trigger = "INSERT"
  <2>1. w.key \in Key /\ Fits(H(n), w.data)
    BY <1>1 DEF CallOK
  <2>2. PICK a, b : a = [do |-> "helpInfant", c |-> n] /\ b = InsertTo(n, w.key, w.data)
    OBVIOUS
  <2>3. Good(K, a) /\ Good(K, b)
    BY <2>1, <2>2, GoodSimple, GoodInsert
  <2>4. AllGood(K, <<a, b>>)
    BY <2>3, Good2
  <2> QED
    BY <1>1, <2>2, <2>4 DEF Repeated
<1>2. CASE w.trigger = "DELETE"
  <2>1. w.key \in Key
    BY <1>2 DEF CallOK
  <2>2. PICK a : a = DeleteFrom(n, w.key, w.data)
    OBVIOUS
  <2>3. Good(K, a)
    BY <2>1, <2>2, GoodDelete
  <2>4. AllGood(K, <<a>>)
    BY <2>3, Good1
  <2> QED
    BY <1>2, <2>2, <2>4 DEF Repeated
<1>3. CASE w.trigger = "SWAP"
  <2>1. w.key \in Key /\ Fits(H(n), w.data) /\ H(n) # 0
    BY <1>3 DEF CallOK
  <2>2. PICK a : a = ReplaceIn(n, w.key, w.exp, w.data)
    OBVIOUS
  <2>3. Good(K, a)
    BY <2>1, <2>2, GoodReplace
  <2>4. AllGood(K, <<a>>)
    BY <2>3, Good1
  <2> QED
    BY <1>3, <2>2, <2>4 DEF Repeated
<1>4. CASE w.trigger \in {"NONE", "ENSLAVE"}
  BY <1>4, Good0 DEF Repeated
<1> QED
  BY <1>1, <1>2, <1>3, <1>4 DEF CallOK

\* what is left to do once the replacement of c is installed
LEMMA TopInstalled ==
    ASSUME NEW K, NEW c \in Ids', (chunk[c].low # Null)', NEW dec \in {"COPY", "SPLIT", "MERGE"},
           (St(c) = dec)', NEW sep \in Key, NEW a, NEW b,
           a = [do |-> "repoint", c |-> c], b = [do |-> "update", c |-> c, dec |-> dec, sep |-> sep],
           NEW f, f = <<>> \/ \E r : f = <<Respond(r)>>
    PROVE  Top(K, <<a, b>> \o f)' /\ (<<a, b>> \o f # <<>> => Plain((<<a, b>> \o f)[1]))
<1>1. IsSeq(<<a, b>>) /\ Len(<<a, b>>) = 2 /\ <<a, b>>[1] = a /\ <<a, b>>[2] = b
  BY DEF IsSeq
<1>2. IsSeq(f) /\ Len(f) \in Nat /\ \A i \in 1 .. Len(f) : f[i].do = "respond"
  <2>1. CASE f = <<>>
    BY <2>1 DEF IsSeq
  <2>2. ASSUME NEW r, f = <<Respond(r)>> PROVE IsSeq(f) /\ Len(f) \in Nat /\ \A i \in 1 .. Len(f) : f[i].do = "respond"
    <3>1. PICK z : z = Respond(r)
      OBVIOUS
    <3>2. z.do = "respond" /\ f = <<z>>
      BY <2>2, <3>1 DEF Respond
    <3>3. IsSeq(f) /\ Len(f) = 1 /\ f[1] = z
      BY <3>2, SeqOf1
    <3> QED
      BY <3>2, <3>3
  <2> QED
    BY <2>1, <2>2
<1>3. PICK u : u = <<a, b>>
  OBVIOUS
<1>4. PICK s : s = u \o f
  OBVIOUS
<1>5. /\ IsSeq(s) /\ Len(s) = 2 + Len(f) /\ s[1] = a /\ s[2] = b
      /\ \A i \in 1 .. Len(s) : s[i] \in {a, b} \/ s[i].do = "respond"
  <2>0. IsSeq(u) /\ IsSeq(f)
    BY <1>1, <1>2, <1>3
  <2>1. /\ IsSeq(s) /\ Len(s) = Len(u) + Len(f)
        /\ \A i \in 1 .. Len(u) : s[i] = u[i]
        /\ \A i \in 1 .. Len(s) : i <= Len(u) \/ (i > Len(u) /\ i - Len(u) \in 1 .. Len(f)
                                                  /\ s[i] = f[i - Len(u)])
    BY <1>4, <2>0, SeqCat
  <2>2. Len(u) = 2 /\ u[1] = a /\ u[2] = b
    BY <1>1, <1>3
  <2>3. s[1] = a /\ s[2] = b
    BY <2>1, <2>2
  <2>4. ASSUME NEW i \in 1 .. Len(s) PROVE s[i] \in {a, b} \/ s[i].do = "respond"
    <3>1. CASE i <= 2
      BY <2>3, <3>1
    <3>2. CASE ~(i <= 2)
      BY <1>2, <2>1, <2>2, <3>2
    <3> QED
      BY <3>1, <3>2
  <2> QED
    BY <2>1, <2>2, <2>3, <2>4
<1>6. a.do = "repoint" /\ a.c = c /\ b.do = "update" /\ b.c = c /\ b.dec = dec /\ b.sep = sep
  OBVIOUS
<1>7. Plain(a) /\ Plain(b) /\ StepOK(K, a)' /\ StepOK(K, b)'
  BY <1>6 DEF Plain, StepOK, Steps
<1>8. ASSUME NEW i \in 1 .. Len(s) PROVE StepOK(K, s[i])' /\ Plain(s[i]) /\ s[i].do # "decide"
  <2>1. CASE s[i] \in {a, b}
    BY <1>6, <1>7, <2>1
  <2>2. CASE s[i].do = "respond"
    <3>1. PICK z : z = s[i]
      OBVIOUS
    <3>2. z.do = "respond"
      BY <2>2, <3>1
    <3>3. StepOK(K, z)' /\ Plain(z) /\ z.do # "decide"
      BY <3>2 DEF StepOK, Plain, Steps
    <3> QED
      BY <3>1, <3>3
  <2> QED
    BY <1>5, <2>1, <2>2
<1>9. Top(K, s)'
  BY <1>2, <1>5, <1>8 DEF Top, IsSeq, Plain
<1>10. Plain(s[1])
  BY <1>5, <1>7
<1> QED
  BY <1>3, <1>4, <1>9, <1>10

LEMMA InstallKeeps ==
    ASSUME NEW K \in BOOLEAN, TreeInv(K), NEW t \in Thread, InstallStep(t), During(t)
    PROVE  TreeInv(K)' /\ FinalsStay
<1>1. Shape /\ Words
  BY DEF TreeInv
<1>2. todo[t] # <<>> /\ Now(t).do = "install" /\ StepOK(K, Now(t))
  BY AtIs, HeadIs DEF InstallStep
<1>3. PICK c \in Ids : c = Now(t).c
  BY <1>2 DEF StepOK
<1>4. PICK dec \in {"COPY", "SPLIT", "MERGE"} : dec = Now(t).dec
  BY <1>2 DEF StepOK
<1>5. PICK w, new, r : w = Now(t).w /\ new = Now(t).new /\ r = Now(t).result
  OBVIOUS
<1>6. CallOK(H(c), w) /\ St(c) = dec /\ ReplacementOK(K, c, dec, new)
  BY <1>2, <1>3, <1>4, <1>5 DEF StepOK
<1>7. PICK two \in BOOLEAN : two = new.two
  BY <1>6 DEF ReplacementOK
<1>8. PICK sep \in Key : sep = new.sep
  BY <1>6 DEF ReplacementOK
<1>9. PICK a, b : /\ a = [do |-> "repoint", c |-> c]
                  /\ b = [do |-> "update", c |-> c, dec |-> dec, sep |-> sep]
  OBVIOUS
<1>10. PICK f : f = Finished(c, w, r)
  OBVIOUS
<1>11. PICK s : s = <<a, b>> \o f
  OBVIOUS
<1>12. CASE chunk[c].low # Null
  <2>1. PICK n : n = Half(c, w, sep)
    OBVIOUS
  <2>2. PICK g : g = IF n = Null THEN f ELSE Repeated(n, w)
    OBVIOUS
  <2>3. Privately(t, <<a, b>> \o g)
    BY <1>3, <1>4, <1>5, <1>8, <1>9, <1>10, <1>12, <2>1, <2>2 DEF InstallStep
  <2>4. n # Null => n \in Ids /\ H(n) = H(c)
    BY <1>1, <1>12, <2>1, NewsAre DEF Half, LowNew, HighNew
  <2>5. AllGood(K, g)
    <3>1. n = Null => AllGood(K, g)
      BY <1>10, <2>2, GoodFinished
    <3>2. n # Null => AllGood(K, g)
      BY <1>6, <2>2, <2>4, GoodRepeated
    <3> QED
      BY <3>1, <3>2
  <2>6. AllGood(K, <<a, b>>)
    BY <1>6, <1>9, <1>12, GoodUpdate, Good2
  <2>7. PICK u : u = <<a, b>>
    OBVIOUS
  <2>8. AllGood(K, u \o g)
    BY <2>5, <2>6, <2>7, GoodCat
  <2> QED
    BY <1>2, <2>3, <2>7, <2>8, PrivateKeeps
<1>13. CASE chunk[c].low = Null
  <2>1. PICK n1 : n1 = top + 1
    OBVIOUS
  <2>2. PICK n2 : n2 = IF two THEN top + 2 ELSE Null
    OBVIOUS
  <2>3. PICK m : m = IF two THEN top + 2 ELSE top + 1
    OBVIOUS
  <2>4. /\ top + 2 <= MaxChunks
        /\ top' = m
        /\ chunk' = [d \in 1 .. m |->
                       IF d = c THEN [chunk[c] EXCEPT !.low = n1]
                       ELSE IF d <= top THEN chunk[d]
                       ELSE IF d = n1 THEN [new.low EXCEPT !.next = n2]
                       ELSE new.high]
        /\ word' = [d \in 1 .. m |->
                       IF d <= top THEN word[d]
                       ELSE IF d = n1 /\ new.master # Null
                            THEN W("SLAVE_FREEZE", new.master) ELSE W("INFANT", Null)]
        /\ Then(t, s)
        /\ UNCHANGED <<root, hold>>
    BY <1>3, <1>4, <1>5, <1>7, <1>8, <1>9, <1>10, <1>11, <1>13, <2>1, <2>2, <2>3 DEF InstallStep
  <2>5. /\ top \in Nat /\ MaxChunks \in Nat /\ m \in ChunkId /\ n1 \in 1 .. m /\ Ids \subseteq 1 .. m
        /\ n1 \notin Ids /\ n1 \in ChunkId /\ n1 # Null
        /\ (two => n2 \in 1 .. m /\ n2 \in ChunkId /\ n2 # Null /\ n2 # n1 /\ n2 \notin Ids)
        /\ (~two => n2 = Null) /\ n2 \in ChunkId \cup {Null}
        /\ \A d \in 1 .. m : d \in Ids \/ d = n1 \/ (two /\ d = n2)
        /\ \A d \in Ids : d <= top /\ d # n1
    <3>1. top \in Nat /\ top >= 1 /\ MaxChunks \in Nat /\ top + 2 <= MaxChunks
      BY <1>1, <2>4, StartsAssumption DEF Shape, ChunkId
    <3>2. Ids = 1 .. top /\ ChunkId = 1 .. MaxChunks /\ Null = 0
      BY DEF Ids, ChunkId, Null
    <3>3. CASE two
      <4>1. m = top + 2 /\ n2 = top + 2
        BY <2>2, <2>3, <3>3
      <4>2. /\ m \in ChunkId /\ n1 \in 1 .. m /\ Ids \subseteq 1 .. m /\ n1 \notin Ids /\ n1 \in ChunkId
            /\ n1 # Null /\ n2 \in 1 .. m /\ n2 \in ChunkId /\ n2 # Null /\ n2 # n1 /\ n2 \notin Ids
        BY <2>1, <3>1, <3>2, <4>1
      <4>3. /\ \A d \in 1 .. m : d \in Ids \/ d = n1 \/ d = n2
            /\ \A d \in Ids : d <= top /\ d # n1
        BY <2>1, <3>1, <3>2, <4>1
      <4> QED
        BY <3>1, <3>3, <4>2, <4>3
    <3>4. CASE ~two
      <4>1. m = top + 1 /\ n2 = Null
        BY <2>2, <2>3, <3>4
      <4>2. /\ m \in ChunkId /\ n1 \in 1 .. m /\ Ids \subseteq 1 .. m /\ n1 \notin Ids /\ n1 \in ChunkId
            /\ n1 # Null
        BY <2>1, <3>1, <3>2, <4>1
      <4>3. /\ \A d \in 1 .. m : d \in Ids \/ d = n1
            /\ \A d \in Ids : d <= top /\ d # n1
        BY <2>1, <3>1, <3>2, <4>1
      <4> QED
        BY <3>1, <3>4, <4>1, <4>2, <4>3
    <3> QED
      BY <3>3, <3>4
  <2>6. Ids' = 1 .. m
    BY <2>4 DEF Ids
  <2>7. PICK x, y : x = chunk[c] /\ y = [x EXCEPT !.low = n1]
    OBVIOUS
  <2>8. PICK x1, y1, x2 : x1 = new.low /\ y1 = [x1 EXCEPT !.next = n2] /\ x2 = new.high
    OBVIOUS
  <2>9. /\ DOMAIN chunk' = 1 .. m /\ chunk'[c] = y /\ chunk'[n1] = y1
        /\ \A d \in Ids : d # c => chunk'[d] = chunk[d]
        /\ two => chunk'[n2] = x2
    <3>1. chunk' = [d \in 1 .. m |-> IF d = c THEN y ELSE IF d <= top THEN chunk[d]
                                     ELSE IF d = n1 THEN y1 ELSE x2]
      BY <2>4, <2>7, <2>8
    <3>2. DOMAIN chunk' = 1 .. m /\ chunk'[c] = y
      BY <2>5, <3>1
    <3>3. ASSUME NEW d \in Ids, d # c PROVE chunk'[d] = chunk[d]
      <4>1. d \in 1 .. m /\ d <= top
        BY <2>5
      <4> QED
        BY <3>1, <3>3, <4>1
    <3>4. ASSUME NEW d \in 1 .. m, d \notin Ids PROVE chunk'[d] = IF d = n1 THEN y1 ELSE x2
      <4>1. d # c /\ ~(d <= top)
        BY <2>5, <3>4 DEF Ids
      <4> QED
        BY <3>1, <4>1
    <3>5. chunk'[n1] = y1
      BY <2>5, <3>4
    <3>6. two => chunk'[n2] = x2
      BY <2>5, <3>4
    <3> QED
      BY <3>2, <3>3, <3>5, <3>6
  <2>10. PICK v1 : v1 = IF new.master # Null THEN W("SLAVE_FREEZE", new.master) ELSE W("INFANT", Null)
    OBVIOUS
  <2>11. /\ word' = [d \in 1 .. m |-> word'[d]] /\ word'[n1] = v1
         /\ \A d \in Ids : word'[d] = word[d]
         /\ two => word'[n2] = W("INFANT", Null)
    <3>1. word' = [d \in 1 .. m |-> IF d <= top THEN word[d] ELSE IF d = n1 THEN v1 ELSE W("INFANT", Null)]
      BY <2>4, <2>10
    <3>2. word' = [d \in 1 .. m |-> word'[d]]
      BY <2>4
    <3>3. ASSUME NEW d \in Ids PROVE word'[d] = word[d]
      <4>1. d \in 1 .. m /\ d <= top
        BY <2>5
      <4> QED
        BY <3>1, <4>1
    <3>4. ASSUME NEW d \in 1 .. m, d \notin Ids PROVE word'[d] = IF d = n1 THEN v1 ELSE W("INFANT", Null)
      <4>1. ~(d <= top)
        BY <2>5, <3>4 DEF Ids
      <4> QED
        BY <3>1, <4>1
    <3>5. word'[n1] = v1
      BY <2>5, <3>4
    <3>6. two => word'[n2] = W("INFANT", Null)
      BY <2>5, <3>4
    <3> QED
      BY <3>2, <3>3, <3>5, <3>6
  <2>12. new.master # Null => new.master \in Ids /\ H(new.master) = H(c)
    BY <1>6 DEF ReplacementOK
  <2>13. /\ v1.st \in {"INFANT", "SLAVE_FREEZE"}
         /\ v1.bud # Null => v1.bud \in Ids /\ H(v1.bud) = H(c)
         /\ v1 \in [st : Alone, bud : {Null}] \cup [st : Together, bud : 1 .. m]
    <3>1. CASE new.master # Null
      <4>1. v1 = W("SLAVE_FREEZE", new.master) /\ new.master \in 1 .. m
        BY <2>5, <2>10, <2>12, <3>1
      <4> QED
        BY <2>12, <3>1, <4>1 DEF W, Together
    <3>2. CASE new.master = Null
      <4>1. v1 = W("INFANT", Null)
        BY <2>10, <3>2
      <4> QED
        BY <4>1 DEF W, Alone
    <3> QED
      BY <3>1, <3>2
  <2>14. WordType'
    <3>1. ASSUME NEW d \in 1 .. m
          PROVE  word'[d] \in [st : Alone, bud : {Null}] \cup [st : Together, bud : 1 .. m]
      <4>1. CASE d \in Ids
        <5>1. word[d] \in [st : Alone, bud : {Null}] \cup [st : Together, bud : 1 .. top]
          BY <1>1, <4>1 DEF Words, WordType, Ids
        <5>2. 1 .. top \subseteq 1 .. m
          BY <2>5 DEF Ids
        <5> QED
          BY <2>11, <4>1, <5>1, <5>2
      <4>2. CASE d = n1
        BY <2>11, <2>13, <4>2
      <4>3. CASE two /\ d = n2
        BY <2>11, <4>3 DEF W, Alone
      <4> QED
        BY <2>5, <4>1, <4>2, <4>3
    <3>2. word' \in [1 .. m -> [st : Alone, bud : {Null}] \cup [st : Together, bud : 1 .. m]]
      BY <2>11, <3>1
    <3> QED
      BY <2>4, <3>2 DEF WordType
  <2>15. Prior(x, y) /\ y.low = n1
    BY <1>1, <1>13, <2>5, <2>7, ChunkTyped, LowSet
  <2>16. Extends
    <3>1. ASSUME NEW d \in Ids PROVE Prior(chunk[d], chunk'[d])
      <4>1. CASE d = c
        BY <2>7, <2>9, <2>15, <4>1
      <4>2. CASE d # c
        <5>1. chunk'[d] = chunk[d] /\ chunk[d] \in ChunkRecord
          BY <1>1, <2>9, <4>2, ChunkTyped
        <5> QED
          BY <5>1 DEF Prior
      <4> QED
        BY <4>1, <4>2
    <3>2. root' \in Ids'
      BY <1>1, <2>4, <2>5, <2>6 DEF Shape
    <3> QED
      BY <2>4, <2>5, <2>6, <2>9, <2>11, <2>14, <3>1, <3>2 DEF Extends
  <2>17. PICK kept1 \in BOOLEAN : kept1 = (K \/ H(c) = 0 \/ two)
    OBVIOUS
  <2>18. PICK kept2 \in BOOLEAN : kept2 = (K \/ H(c) = 0)
    OBVIOUS
  <2>19. /\ NewOK(kept1, c, x1)
         /\ two => NewOK(kept2, c, x2) /\ ~x1.root /\ ~x2.root
    BY <1>6, <1>7, <2>8, <2>17, <2>18 DEF ReplacementOK
  <2>20. /\ y1 \in ChunkRecord /\ y1.next = n2
         /\ y1.e = x1.e /\ y1.cnt = x1.cnt /\ y1.height = x1.height /\ y1.root = x1.root
         /\ y1.low = Null /\ y1.creator = c /\ y1.height = H(c)
    BY <2>5, <2>8, <2>19, NextSet DEF NewOK, Sound
  <2>21. two => H(n2)' = H(c) /\ n2 \in Ids'
    BY <2>5, <2>6, <2>9, <2>19 DEF H, NewOK
  <2>22. FreshOK(K, n1)'
    <3>1. y1.next # Null => y1.next \in Ids' /\ H(y1.next)' = H(c) /\ ~y1.root
      BY <2>5, <2>19, <2>20, <2>21
    <3>2. K \/ H(c) = 0 \/ y1.next # Null => kept1
      BY <2>5, <2>17, <2>20
    <3>3. n1 \in Ids' /\ chunk'[n1] = y1 /\ chunk'[c].low # Null /\ word'[n1] = v1
      BY <2>5, <2>6, <2>9, <2>11, <2>15
    <3>4. /\ word'[n1].st \in {"INFANT", "SLAVE_FREEZE"}
          /\ word'[n1].bud # Null => word'[n1].bud \in Ids /\ H(word'[n1].bud) = H(c)
      BY <2>13, <3>3
    <3>5. NewOK(kept1, c, x1)
      BY <2>19
    <3>6. y1 \in ChunkRecord /\ SameEntries(x1, y1) /\ y1.low = Null /\ y1.creator = c
      BY <2>20 DEF SameEntries
    <3> QED
      BY <1>1, <2>16, <3>1, <3>2, <3>3, <3>4, <3>5, <3>6, FreshIs
  <2>23. two => FreshOK(K, n2)'
    <3>1. ASSUME two PROVE FreshOK(K, n2)'
      <4>1. NewOK(kept2, c, x2) /\ x2 \in ChunkRecord /\ x2.low = Null /\ x2.next = Null /\ x2.creator = c
        BY <2>19, <3>1 DEF NewOK, Sound
      <4>2. PICK v2 : v2 = W("INFANT", Null)
        OBVIOUS
      <4>3. v2.st \in {"INFANT", "SLAVE_FREEZE"} /\ v2.bud = Null
        BY <4>2 DEF W
      <4>4. n2 \in Ids' /\ chunk'[n2] = x2 /\ chunk'[c].low # Null /\ word'[n2] = v2
        BY <2>5, <2>6, <2>9, <2>11, <2>15, <3>1, <4>2
      <4>5. K \/ H(c) = 0 \/ x2.next # Null => kept2
        BY <2>18, <4>1
      <4> QED
        BY <1>1, <2>16, <4>1, <4>3, <4>4, <4>5, FreshIs DEF SameEntries
    <3> QED
      BY <3>1
  <2>24. \A d \in Ids' \ Ids : FreshOK(K, d)'
    <3>1. ASSUME NEW d \in Ids' \ Ids PROVE d = n1 \/ (two /\ d = n2)
      BY <2>5, <2>6
    <3> QED
      BY <2>22, <2>23, <3>1
  <2>25. Replaced(c)'
    <3>1. H(n1)' = H(c) /\ H(c)' = H(c) /\ n1 \in Ids'
      <4>1. H(n1)' = y1.height
        BY <2>9 DEF H
      <4>2. Grows
        BY <1>1, <2>16, ExtendGrows
      <4> QED
        BY <2>5, <2>6, <2>20, <4>1, <4>2 DEF Grows
    <3>2. St(c)' = dec
      BY <1>6, <2>11 DEF St
    <3>3. dec = "SPLIT" => two
      BY <1>6, <1>7 DEF ReplacementOK
    <3>4. two => ReplacedByTwo(c)'
      BY <2>5, <2>9, <2>15, <2>20 DEF ReplacedByTwo
    <3> QED
      BY <2>9, <2>15, <3>1, <3>2, <3>3, <3>4 DEF Replaced
  <2>26. \A d \in Ids : chunk'[d].low # chunk[d].low => Replaced(d)'
    <3>1. \A d \in Ids : chunk'[d].low # chunk[d].low => d = c
      BY <2>9
    <3> QED
      BY <2>25, <3>1
  <2>27. Top(K, s)' /\ (s # <<>> => Plain(s[1]))
    <3>1. c \in Ids' /\ chunk'[c].low # Null /\ St(c)' = dec
      BY <2>5, <2>6, <2>25, <1>6, <2>9, <2>11, <2>15 DEF St
    <3>2. f = <<>> \/ \E q : f = <<Respond(q)>>
      BY <1>10 DEF Finished
    <3>3. PICK g : g = f
      OBVIOUS
    <3>4. Top(K, <<a, b>> \o g)' /\ (<<a, b>> \o g # <<>> => Plain((<<a, b>> \o g)[1]))
      BY <1>9, <3>1, <3>2, <3>3, TopInstalled
    <3> QED
      BY <1>11, <3>3, <3>4
  <2> QED
    BY <1>2, <2>4, <2>16, <2>24, <2>26, <2>27, ExtendKeeps
<1> QED
  BY <1>12, <1>13

(***************************************************************************)
(* The initial trees, and every step.                                      *)
(***************************************************************************)
LEMMA InitShape ==
    ASSUME NEW K \in BOOLEAN, Init
    PROVE  Shape /\ ChunksListed /\ (\A c \in Ids : Enough(K, chunk[c]) /\ EntrNum(chunk[c]) >= chunk[c].cnt)
<1>1. PICK s \in Starts : chunk = s.chunk /\ root = s.root
  BY DEF Init
<1>2. WellFormed(s)
  BY StartsAssumption
<1>3. /\ chunk \in Seq(ChunkRecord) /\ Len(chunk) \in ChunkId /\ root \in DOMAIN chunk
      /\ \A c \in DOMAIN chunk :
            /\ ~chunk[c].frozen /\ chunk[c].low = Null /\ chunk[c].next = Null /\ chunk[c].creator = Null
            /\ \A i \in DOMAIN chunk[c].e : FitsIn(chunk, chunk[c].height, chunk[c].e[i].data)
            /\ chunk[c].height = 0 => Pending(chunk[c]) = {}
            /\ EntrNum(chunk[c]) >= chunk[c].cnt
            /\ chunk[c].root \/ chunk[c].cnt >= MinEntries
  BY <1>1, <1>2 DEF WellFormed
<1>4. top = Len(chunk) /\ DOMAIN chunk = Ids /\ top \in ChunkId
  BY <1>3 DEF Init, Ids
<1>5. ASSUME NEW c \in Ids PROVE Sound(chunk[c]) /\ Related(c)
  <2>1. chunk[c] \in ChunkRecord
    BY <1>3, <1>4
  <2>2. Sound(chunk[c])
    BY <1>3, <1>4, <2>1 DEF Sound, Fits
  <2>3. Related(c)
    BY <1>3, <1>4 DEF Related
  <2> QED
    BY <2>2, <2>3
<1>6. Shape
  BY <1>3, <1>4, <1>5 DEF Shape
<1>7. ChunksListed
  BY <1>3, <1>4 DEF ChunksListed
<1>8. ASSUME NEW c \in Ids PROVE Enough(K, chunk[c]) /\ EntrNum(chunk[c]) >= chunk[c].cnt
  BY <1>3, <1>4 DEF Enough
<1> QED
  BY <1>6, <1>7, <1>8

LEMMA InitWords ==
    ASSUME Init PROVE Words
<1>1. Shape /\ ChunksListed /\ \A c \in Ids : chunk[c].low = Null
  <2>1. PICK s \in Starts : chunk = s.chunk
    BY DEF Init
  <2>2. WellFormed(s)
    BY StartsAssumption
  <2>3. Shape /\ ChunksListed /\ DOMAIN chunk = Ids
    BY InitShape DEF Shape
  <2> QED
    BY <2>1, <2>2, <2>3 DEF WellFormed
<1>2. word = [c \in Ids |-> W("NORMAL", Null)]
  BY <1>1 DEF Init, Shape
<1>3. W("NORMAL", Null) \in [st : Alone, bud : {Null}]
  BY DEF W, Alone
<1>4. WordType
  BY <1>2, <1>3 DEF WordType, Ids
<1>5. ASSUME NEW c \in Ids PROVE WordOK(c)
  <2>1. St(c) = "NORMAL" /\ Bud(c) = Null
    BY <1>2 DEF St, Bud, W
  <2> QED
    BY <1>1, <2>1 DEF WordOK
<1> QED
  BY <1>4, <1>5 DEF Words

LEMMA InitInv ==
    ASSUME NEW K \in BOOLEAN, Init PROVE TreeInv(K) /\ ChunksListed
<1>1. Shape /\ ChunksListed /\ \A c \in Ids : Enough(K, chunk[c]) /\ EntrNum(chunk[c]) >= chunk[c].cnt
  BY InitShape
<1>2. Words
  BY InitWords
<1>3. \A t \in Thread : todo[t] = <<>> /\ hold[t] = NoHold
  BY DEF Init
<1>4. DOMAIN todo = Thread /\ DOMAIN hold = Thread
  BY DEF Init
<1>5. Stacks(K)
  <2>1. Stack(K, <<>>)
    BY DEF Stack, IsSeq
  <2> QED
    BY <1>3, <1>4, <2>1 DEF Stacks
<1>6. \A t \in Thread : ~Placing(t) /\ ~At(t, "compare") /\ ~At(t, "mark")
  BY <1>3 DEF Placing, At
<1>7. Owning
  BY <1>6 DEF Owning, OwnsSlot
<1>8. Holds
  BY <1>3, <1>4 DEF Holds
<1>9. Counts(K)
  <2>1. ASSUME NEW c \in Ids PROVE CountsUp(K, c)
    <3>1. Owed(c) = {}
      BY <1>6 DEF Owed
    <3>2. Cardinality(Owed(c)) = 0
      BY <3>1, FS_EmptySet
    <3>3. chunk[c].cnt \in Int /\ EntrNum(chunk[c]) \in Nat
      BY <1>1, ChunkTyped
    <3> QED
      BY <1>1, <3>2, <3>3 DEF CountsUp
  <2> QED
    BY <1>1, <2>1 DEF Counts
<1>10. Calls
  <2>1. 1 \in Key
    BY SizeAssumption DEF Key
  <2>2. call \in [Thread -> CallState]
    <3>1. PICK y : y = [kind |-> "idle", key |-> 1, eff |-> FALSE, seen |-> {}, res |-> "none"]
      OBVIOUS
    <3>2. y \in CallState
      BY <2>1, <3>1 DEF CallState
    <3>3. call = [t \in Thread |-> y]
      BY <3>1 DEF Init
    <3> QED
      BY <3>2, <3>3
  <2>3. left \in [Thread -> Seq(CallRecord)]
    <3>1. PICK s \in Starts : left = s.calls
      BY DEF Init
    <3> QED
      BY <3>1, StartsAssumption DEF WellFormed
  <2> QED
    BY <2>2, <2>3 DEF Calls
<1> QED
  BY <1>1, <1>2, <1>5, <1>7, <1>8, <1>9, <1>10 DEF TreeInv

LEMMA StepInv ==
    ASSUME NEW K \in BOOLEAN, TreeInv(K), ChunksListed, K => NothingLost, NEW t \in Thread, Step(t)
    PROVE  TreeInv(K)' /\ FinalsStay
<1>1. CASE Begin(t) \/ Invoke(t) \/ Return(t)
  BY <1>1, BeginKeeps, InvokeKeeps, ReturnKeeps
<1>2. CASE During(t) /\ (DescendStep(t) \/ OntoStep(t) \/ InsertStep(t) \/ PlaceStep(t) \/ LinkStep(t)
                         \/ DeleteStep(t) \/ CompareStep(t) \/ MarkStep(t) \/ ReplaceStep(t) \/ SwapStep(t))
  BY <1>2, DescendKeeps, OntoKeeps, InsertKeeps, PlaceKeeps, LinkKeeps, DeleteKeeps, CompareKeeps, MarkKeeps,
     ReplaceKeeps, SwapKeeps
<1>3. CASE During(t) /\ (FreezeStep(t) \/ SettleStep(t) \/ DecideStep(t) \/ PairStep(t) \/ RequestStep(t)
                         \/ CheckStep(t) \/ SetSlaveStep(t) \/ LookStep(t) \/ YieldStep(t) \/ TakeStep(t))
  BY <1>3, FreezeKeeps, SettleKeeps, DecideKeeps, PairKeeps, RequestKeeps, CheckKeeps, SetSlaveKeeps,
     LookKeeps, YieldKeeps, TakeKeeps
<1>4. CASE During(t) /\ (BuildStep(t) \/ InstallStep(t) \/ RepointStep(t) \/ UpdateStep(t) \/ HelpStep(t)
                         \/ HelpNot(t) \/ NormalStep(t))
  BY <1>4, BuildKeeps, InstallKeeps, RepointKeeps, UpdateKeeps, HelpKeeps, HelpNotKeeps, NormalKeeps
<1>5. CASE During(t) /\ (ParentStep(t) \/ FoundStep(t) \/ OnwardStep(t) \/ UnlinkStep(t)
                         \/ SetRootStep(t) \/ SwapRootStep(t) \/ NewRootStep(t))
  BY <1>5, ParentKeeps, FoundKeeps, OnwardKeeps, UnlinkKeeps, SetRootKeeps, SwapRootKeeps, NewRootKeeps
<1> QED
  BY <1>1, <1>2, <1>3, <1>4, <1>5 DEF Step

(***************************************************************************)
(* The chunks stay a sequence.                                             *)
(***************************************************************************)
IsFunction(f) == f = [x \in DOMAIN f |-> f[x]]

LEMMA ExceptIs ==
    ASSUME NEW f, NEW a, NEW b PROVE IsFunction([f EXCEPT ![a] = b])
BY DEF IsFunction

LEMMA ChunksAlone ==
    ASSUME NEW t \in Thread,
           \/ Begin(t) \/ Invoke(t) \/ Return(t)
           \/ DescendStep(t) \/ OntoStep(t) \/ ReplaceStep(t) \/ FreezeStep(t) \/ DecideStep(t) \/ PairStep(t)
           \/ RequestStep(t) \/ CheckStep(t) \/ SetSlaveStep(t) \/ LookStep(t) \/ YieldStep(t) \/ TakeStep(t)
           \/ BuildStep(t) \/ RepointStep(t) \/ UpdateStep(t) \/ HelpStep(t) \/ HelpNot(t) \/ NormalStep(t)
           \/ ParentStep(t) \/ FoundStep(t) \/ OnwardStep(t) \/ UnlinkStep(t) \/ SwapRootStep(t)
    PROVE  UNCHANGED chunk
<1>1. CASE Begin(t) \/ Invoke(t) \/ Return(t)
  BY <1>1 DEF Begin, Invoke, Return, Shared
<1>2. CASE DescendStep(t) \/ OntoStep(t) \/ ReplaceStep(t) \/ FreezeStep(t) \/ DecideStep(t) \/ PairStep(t)
  BY <1>2 DEF DescendStep, OntoStep, ReplaceStep, FreezeStep, DecideStep, PairStep, Privately, Fails, Shared
<1>3. CASE RequestStep(t) \/ CheckStep(t) \/ SetSlaveStep(t) \/ LookStep(t) \/ YieldStep(t) \/ TakeStep(t)
  BY <1>3 DEF RequestStep, CheckStep, SetSlaveStep, LookStep, YieldStep, TakeStep, Privately, Fails, Shared
<1>4. CASE BuildStep(t) \/ RepointStep(t) \/ UpdateStep(t) \/ HelpStep(t) \/ HelpNot(t) \/ NormalStep(t)
  BY <1>4 DEF BuildStep, RepointStep, UpdateStep, HelpStep, HelpNot, NormalStep, Privately, Fails, Shared
<1>5. CASE ParentStep(t) \/ FoundStep(t) \/ OnwardStep(t) \/ UnlinkStep(t) \/ SwapRootStep(t)
  <2>1. ASSUME NEW s, Privately(t, s) PROVE UNCHANGED chunk
    BY <2>1 DEF Privately, Shared
  <2>2. ASSUME NEW f, Fails(t, f) PROVE UNCHANGED chunk
    BY <2>2 DEF Fails, Shared
  <2>3. CASE ParentStep(t)
    <3>1. NoParent(t) => UNCHANGED chunk
      BY <2>1, <2>2 DEF NoParent
    <3>2. PICK p, cur : p = Now(t).at /\ cur = CurOf(chunk[p], Now(t).key)
      OBVIOUS
    <3>3. PICK near : near = IF Now(t).then = "enslave" THEN Neighbour(p, cur) ELSE Null
      OBVIOUS
    <3>4. \/ NoParent(t)
          \/ Privately(t, <<SearchIn(root, Now(t))>>)
          \/ Privately(t, <<Found(p, Now(t), cur, near)>>)
      BY <2>3, <3>2, <3>3 DEF ParentStep
    <3> QED
      BY <2>1, <2>2, <3>1, <3>4
  <2>6. CASE FoundStep(t) \/ OnwardStep(t)
    BY <2>6 DEF FoundStep, OnwardStep, Privately, Fails, Shared
  <2>4. CASE UnlinkStep(t)
    <3>1. PICK new : new = LowNew(Now(t).master)
      OBVIOUS
    <3>2. \/ Privately(t, <<DeleteFrom(Now(t).c, Now(t).key, Now(t).low)>>)
          \/ Fails(t, "mergeRoot: two entries")
          \/ Privately(t, <<SetRoot(Now(t).c, new), SwapRoot(Now(t).c, new)>>)
          \/ Privately(t, <<>>)
      BY <2>4, <3>1 DEF UnlinkStep
    <3> QED
      BY <2>1, <2>2, <3>2
  <2>5. CASE SwapRootStep(t)
    BY <2>5 DEF SwapRootStep
  <2> QED
    BY <1>5, <2>3, <2>4, <2>5, <2>6
<1> QED
  BY <1>1, <1>2, <1>3, <1>4, <1>5

LEMMA StaysFunction ==
    ASSUME ChunksListed, Shape, NEW t \in Thread, Step(t) PROVE IsFunction(chunk')
<1>1. IsFunction(chunk)
  BY DEF ChunksListed, Shape, Ids, IsFunction
<1>2. ASSUME UNCHANGED chunk PROVE IsFunction(chunk')
  BY <1>1, <1>2
<1>3. CASE UNCHANGED chunk
  BY <1>2, <1>3
<1>8. ASSUME NEW a, NEW b, chunk' = [chunk EXCEPT ![a] = b] PROVE IsFunction(chunk')
  BY <1>8, ExceptIs
<1>9. CASE InsertStep(t)
  BY <1>2, <1>8, <1>9 DEF InsertStep, Privately, Fails, Shared
<1>10. CASE PlaceStep(t)
  BY <1>2, <1>8, <1>10 DEF PlaceStep, Privately, Fails, Shared
<1>11. CASE LinkStep(t)
  <2>1. CASE hold[t] = NoHold /\ Privately(t, <<Place(Now(t).c, Now(t).slot, Now(t).own)>>)
    BY <1>2, <2>1 DEF Privately, Shared
  <2>2. CASE chunk' = [chunk EXCEPT ![Now(t).c].e[Now(t).slot].at = "linked",
                                    ![Now(t).c].cnt = IF Now(t).own THEN @ + 1 ELSE @]
    <3>1. PICK f : f = [chunk EXCEPT ![Now(t).c].e[Now(t).slot].at = "linked"]
      OBVIOUS
    <3>2. chunk' = [f EXCEPT ![Now(t).c].cnt = IF Now(t).own THEN @ + 1 ELSE @]
      BY <2>2, <3>1
    <3>3. PICK b : b = [f[Now(t).c] EXCEPT !.cnt = IF Now(t).own THEN @ + 1 ELSE @]
      OBVIOUS
    <3>4. chunk' = [f EXCEPT ![Now(t).c] = b]
      BY <3>2, <3>3
    <3> QED
      BY <3>4, ExceptIs
  <2> QED
    BY <1>11, <2>1, <2>2 DEF LinkStep
<1>12. CASE DeleteStep(t)
  BY <1>2, <1>8, <1>12 DEF DeleteStep, Privately, Fails, Shared
<1>13. CASE CompareStep(t)
  BY <1>2, <1>8, <1>13 DEF CompareStep, Privately, Fails, Shared
<1>14. CASE MarkStep(t)
  BY <1>2, <1>8, <1>14 DEF MarkStep, Privately, Fails, Shared
<1>15. CASE SwapStep(t)
  BY <1>2, <1>8, <1>15 DEF SwapStep, Privately, Fails, Shared
<1>16. CASE SettleStep(t)
  BY <1>2, <1>8, <1>16 DEF SettleStep, Privately, Fails, Shared
<1>17. CASE SetRootStep(t)
  BY <1>2, <1>8, <1>17 DEF SetRootStep
<1>18. CASE InstallStep(t)
  BY <1>2, <1>18 DEF InstallStep, Privately, Shared, IsFunction
<1>19. CASE NewRootStep(t)
  <2>1. CASE UNCHANGED chunk
    BY <1>2, <2>1
  <2>2. CASE \E x : chunk' = Append(chunk, x)
    <3>1. PICK x : chunk' = Append(chunk, x)
      BY <2>2
    <3>2. PICK S : S = ChunkRecord \cup {x}
      OBVIOUS
    <3>3. PICK n \in Nat : n = top
      BY DEF Shape, ChunkId
    <3>4. PICK s : s = chunk
      OBVIOUS
    <3>5. s \in [1 .. n -> S] /\ x \in S
      BY <3>2, <3>3, <3>4, ChunkTyped DEF ChunksListed, Ids
    <3>6. PICK z : z = Longer(s, x)
      OBVIOUS
    <3>7. Lengthens(S, n, s, x, z)
      BY <3>3, <3>5, <3>6, Appended
    <3>8. IsFunction(z)
      BY <3>7 DEF Lengthens, IsFunction
    <3>9. chunk' = z
      BY <3>1, <3>4, <3>6 DEF Longer
    <3> QED
      BY <3>8, <3>9
  <2> QED
    BY <1>19, <2>1, <2>2 DEF NewRootStep
<1> QED
  BY <1>3, <1>9, <1>10, <1>11, <1>12, <1>13, <1>14, <1>15, <1>16, <1>17, <1>18, <1>19, ChunksAlone
  DEF Step
-----------------------------------------------------------------------------
(***************************************************************************)
(* The start barrier.                                                      *)
(***************************************************************************)
\* who has come and not gone on
Inside == {t \in Thread : place[t] \in {"waits", "woken"}}

(***************************************************************************)
(* StartTogether is not inductive: that the last thread to come is the     *)
(* last one is known from the count of those inside, and that nobody comes *)
(* late from the fact that a woken thread was woken by the last.           *)
(***************************************************************************)
InsideCounted  == waiting = Cardinality(Inside)
NoneLate == (\E t \in Thread : place[t] \in {"woken", "through"}) => \A t \in Thread : place[t] # "before"

GateInv ==
    /\ place \in [Thread -> {"before", "waits", "woken", "through"}]
    /\ InsideCounted
    /\ NoneLate
-----------------------------------------------------------------------------
LEMMA InsideFinite ==
    IsFiniteSet(Inside) /\ Cardinality(Inside) \in Nat
<1>1. Inside \subseteq Thread
  BY DEF Inside
<1> QED
  BY <1>1, ThreadAssumption, FS_Subset, FS_CardinalityType

LEMMA BarrierInitInvariant ==
    ASSUME BarrierInit PROVE GateInv
<1>1. Inside = {}
  BY DEF BarrierInit, Inside
<1> QED
  BY <1>1, FS_EmptySet DEF BarrierInit, GateInv, InsideCounted, NoneLate

(***************************************************************************)
(* The thread that makes the count complete is the last one.               *)
(***************************************************************************)
LEMMA LastOne ==
    ASSUME GateInv, NEW t \in Thread, place[t] = "before", waiting + 1 = size
    PROVE  \A u \in Thread \ {t} : place[u] \in {"waits", "woken"}
<1>1. t \notin Inside /\ Inside \cup {t} \subseteq Thread
  BY DEF Inside
<1>2. Cardinality(Inside \cup {t}) = Cardinality(Thread)
  BY <1>1, InsideFinite, FS_AddElement DEF GateInv, InsideCounted, size
<1>3. Inside \cup {t} = Thread
  BY <1>1, <1>2, ThreadAssumption, FS_Subset
<1> QED
  BY <1>3 DEF Inside

LEMMA ArriveInvariant ==
    ASSUME GateInv, NEW t \in Thread, Arrive(t) PROVE GateInv'
<1>1. place[t] = "before" /\ t \notin Inside
  BY DEF Arrive, Inside
<1>2. CASE waiting + 1 = size /\ place' = Broadcast(t) /\ UNCHANGED waiting
  <2>1. place' \in [Thread -> {"before", "waits", "woken", "through"}]
    BY <1>2 DEF GateInv, Broadcast
  <2>2. Inside' = Inside
    BY <1>1, <1>2 DEF GateInv, Inside, Broadcast
  <2>3. \A u \in Thread : place'[u] # "before"
    BY <1>1, <1>2, LastOne DEF GateInv, Broadcast
  <2> QED
    BY <1>2, <2>1, <2>2, <2>3 DEF GateInv, InsideCounted, NoneLate
<1>3. CASE waiting + 1 # size /\ place' = [place EXCEPT ![t] = "waits"] /\ waiting' = waiting + 1
  <2>1. place' \in [Thread -> {"before", "waits", "woken", "through"}]
    BY <1>3 DEF GateInv
  <2>2. Inside' = Inside \cup {t}
    BY <1>1, <1>3 DEF GateInv, Inside
  <2>3. Cardinality(Inside') = Cardinality(Inside) + 1
    BY <1>1, <2>2, InsideFinite, FS_AddElement
  <2>4. NoneLate'
    BY <1>1, <1>3 DEF GateInv, NoneLate
  <2> QED
    BY <1>3, <2>1, <2>3, <2>4 DEF GateInv, InsideCounted
<1> QED
  BY <1>2, <1>3 DEF Arrive

LEMMA LeaveInvariant ==
    ASSUME GateInv, NEW t \in Thread, Leave(t) PROVE GateInv'
<1>1. place[t] = "woken" /\ t \in Inside
  BY DEF Leave, Inside
<1>2. place' \in [Thread -> {"before", "waits", "woken", "through"}]
  BY DEF GateInv, Leave
<1>3. Inside' = Inside \ {t}
  BY <1>1 DEF GateInv, Inside, Leave
<1>4. Cardinality(Inside') = Cardinality(Inside) - 1
  BY <1>1, <1>3, InsideFinite, FS_RemoveElement
<1>5. NoneLate'
  BY <1>1 DEF GateInv, NoneLate, Leave
<1> QED
  BY <1>2, <1>4, <1>5, InsideFinite DEF GateInv, InsideCounted, Leave
-----------------------------------------------------------------------------
LEMMA GateTypes ==
    ASSUME GateInv PROVE BarrierType
<1>1. Inside \in SUBSET Thread
  BY DEF Inside
<1>2. Cardinality(Inside) <= size
  BY <1>1, ThreadAssumption, FS_Subset DEF size
<1>3. size \in Nat
  BY ThreadAssumption, FS_CardinalityType DEF size
<1> QED
  BY <1>2, <1>3, InsideFinite DEF GateInv, InsideCounted, BarrierType

LEMMA BarrierInvariant == BarrierSpec => []GateInv
<1>1. BarrierInit => GateInv
  BY BarrierInitInvariant
<1>2. GateInv /\ [BarrierNext]_gate => GateInv'
  <2> SUFFICES ASSUME GateInv, [BarrierNext]_gate PROVE GateInv'
    OBVIOUS
  <2>1. CASE UNCHANGED gate
    BY <2>1 DEF gate, GateInv, InsideCounted, NoneLate, Inside
  <2>2. CASE BarrierNext
    BY <2>2, ArriveInvariant, LeaveInvariant DEF BarrierNext
  <2> QED
    BY <2>1, <2>2
<1> QED
  BY <1>1, <1>2, PTL DEF BarrierSpec

(***************************************************************************)
(* The tree implements the barrier: nothing but the start of its threads   *)
(* touches it (the lock and the condition at the head of start_routine).   *)
(***************************************************************************)
THEOREM StartIsTheBarrier == Spec => BarrierSpec
<1>1. Init => BarrierInit
  BY DEF Init
<1>2. [Next]_vars => [BarrierNext]_gate
  <2> SUFFICES ASSUME [Next]_vars PROVE [BarrierNext]_gate
    OBVIOUS
  <2>1. UNCHANGED gate \/ \E t \in Thread : Begin(t)
    BY DEF Next, AllDone, Step, During, Invoke, Return, vars
  <2> QED
    BY <2>1 DEF Begin, BarrierNext
<1> QED
  BY <1>1, <1>2, PTL DEF Spec, BarrierSpec

LEMMA GateInvariant == Spec => []GateInv
BY BarrierInvariant, StartIsTheBarrier, PTL

(***************************************************************************)
(* What no step does to a frozen chunk, see FrozenStays.                   *)
(***************************************************************************)
Preserved(x, y) ==
    x.frozen => /\ y.frozen
                /\ \A i \in Linked(x) : y.e[i] = x.e[i]
                /\ x.low # Null => y.low = x.low

FrozenKept == \A c \in Ids : Preserved(chunk[c], chunk'[c])

LEMMA KeptAll ==
    ASSUME UNCHANGED chunk PROVE FrozenKept
BY DEF FrozenKept, Preserved

LEMMA KeptBut ==
    ASSUME Shape, NEW c \in Ids, NEW y, chunk' = [chunk EXCEPT ![c] = y], Preserved(chunk[c], y)
    PROVE  FrozenKept
<1>1. \A d \in Ids : chunk'[d] = IF d = c THEN y ELSE chunk[d]
  BY DEF Shape
<1>2. \A d \in Ids : Preserved(chunk[d], chunk[d])
  BY DEF Preserved
<1> QED
  BY <1>1, <1>2 DEF FrozenKept

LEMMA KeptCounted ==
    ASSUME Shape, NEW c \in Ids, NEW n, chunk' = [chunk EXCEPT ![c].cnt = n] PROVE FrozenKept
<1>1. PICK y : y = [chunk[c] EXCEPT !.cnt = n]
  OBVIOUS
<1>2. chunk' = [chunk EXCEPT ![c] = y]
  BY <1>1
<1>3. chunk[c] \in ChunkRecord
  BY ChunkTyped
<1>4. Preserved(chunk[c], y)
  BY <1>1, <1>3 DEF Preserved, ChunkRecord
<1> QED
  BY <1>2, <1>4, KeptBut

LEMMA KeptByLink ==
    ASSUME NEW K, TreeInv(K), NEW t \in Thread, LinkStep(t) PROVE FrozenKept
<1>1. Shape
  BY DEF TreeInv
<1>2. StepOK(K, Now(t)) /\ Now(t).do = "link"
  BY AtIs, HeadIs DEF LinkStep
<1>3. PICK c \in Ids : c = Now(t).c
  BY <1>2 DEF StepOK
<1>4. PICK i : i = Now(t).slot
  OBVIOUS
<1>5. CASE UNCHANGED chunk
  BY <1>5, KeptAll
<1>6. CASE chunk' = [chunk EXCEPT ![c].e[i].at = "linked", ![c].cnt = IF Now(t).own THEN @ + 1 ELSE @]
  <2>1. c \in DOMAIN chunk /\ chunk[c] \in ChunkRecord
    BY <1>1, ChunkTyped DEF Shape
  <2>2. PICK x : x = chunk[c]
    OBVIOUS
  <2>3. i \in DOMAIN x.e /\ x \in ChunkRecord
    BY <1>2, <1>3, <1>4, <2>1, <2>2 DEF StepOK
  <2>4. PICK f : f = [x.e EXCEPT ![i] = [x.e[i] EXCEPT !.at = "linked"]]
    OBVIOUS
  <2>5. PICK z : z = [x EXCEPT !.e = f]
    OBVIOUS
  <2>6. PICK g : g = [chunk EXCEPT ![c].e[i].at = "linked"]
    OBVIOUS
  <2>7. g = [chunk EXCEPT ![c] = z] /\ g[c] = z
    BY <2>1, <2>2, <2>4, <2>5, <2>6
  <2>8. PICK n : n = IF Now(t).own THEN z.cnt + 1 ELSE z.cnt
    OBVIOUS
  <2>9. PICK y : y = [z EXCEPT !.cnt = n]
    OBVIOUS
  <2>10. chunk' = [g EXCEPT ![c].cnt = IF Now(t).own THEN @ + 1 ELSE @]
    BY <1>6, <2>6
  <2>11. chunk' = [g EXCEPT ![c] = y]
    BY <2>7, <2>8, <2>9, <2>10
  <2>12. chunk' = [chunk EXCEPT ![c] = y]
    BY <2>7, <2>11
  <2>13. y.frozen = x.frozen /\ y.low = x.low /\ y.e = f
    BY <2>3, <2>5, <2>9 DEF ChunkRecord
  <2>14. \A j \in Linked(x) : f[j] = x.e[j]
    <3>1. ASSUME NEW j \in Linked(x), j # i PROVE f[j] = x.e[j]
      BY <2>4, <3>1 DEF Linked
    <3>2. ASSUME i \in Linked(x) PROVE f[i] = x.e[i]
      <4>1. PICK ent : ent = x.e[i]
        OBVIOUS
      <4>2. ent \in EntryRecord /\ ent.at = "linked"
        BY <2>3, <3>2, <4>1, EntriesAre DEF Linked
      <4>3. [ent EXCEPT !.at = "linked"] = ent
        BY <4>2 DEF EntryRecord
      <4>4. f[i] = [ent EXCEPT !.at = "linked"]
        BY <2>3, <2>4, <4>1
      <4> QED
        BY <4>1, <4>3, <4>4
    <3> QED
      BY <3>1, <3>2
  <2>15. Preserved(chunk[c], y)
    BY <2>2, <2>13, <2>14 DEF Preserved
  <2> QED
    BY <1>1, <2>12, <2>15, KeptBut
<1> QED
  BY <1>3, <1>4, <1>5, <1>6 DEF LinkStep, Privately, Shared

LEMMA KeptByMark ==
    ASSUME NEW K, TreeInv(K), NEW t \in Thread, MarkStep(t) PROVE FrozenKept
<1>1. Shape /\ Holds
  BY DEF TreeInv
<1>2. StepOK(K, Now(t)) /\ Now(t).do = "mark"
  BY AtIs, HeadIs DEF MarkStep
<1>3. PICK c \in Ids : c = Now(t).c
  BY <1>2 DEF StepOK
<1>4. CASE UNCHANGED chunk
  BY <1>4, KeptAll
<1>5. CASE chunk' = [chunk EXCEPT ![c].cnt = @ + 1]
  <2>1. PICK n : n = chunk[c].cnt + 1
    OBVIOUS
  <2>2. c \in DOMAIN chunk
    BY <1>1 DEF Shape
  <2>3. chunk' = [chunk EXCEPT ![c].cnt = n]
    BY <1>5, <2>1, <2>2
  <2> QED
    BY <1>1, <2>3, KeptCounted
<1>6. CASE hold[t] # NoHold /\ chunk' = [chunk EXCEPT ![c].e[hold[t].at].at = "deleted"]
  <2>1. ~chunk[c].frozen
    BY <1>1, <1>3, <1>6 DEF Holds, HoldOK, MarkStep
  <2>2. PICK y : y = [chunk[c] EXCEPT !.e[hold[t].at].at = "deleted"]
    OBVIOUS
  <2>3. chunk' = [chunk EXCEPT ![c] = y]
    BY <1>6, <2>2
  <2>4. Preserved(chunk[c], y)
    BY <2>1 DEF Preserved
  <2> QED
    BY <1>1, <2>3, <2>4, KeptBut
<1> QED
  BY <1>3, <1>4, <1>5, <1>6 DEF MarkStep, Privately, Shared

LEMMA KeptByInstall ==
    ASSUME NEW K, TreeInv(K), NEW t \in Thread, InstallStep(t) PROVE FrozenKept
<1>1. Shape
  BY DEF TreeInv
<1>2. CASE UNCHANGED chunk
  BY <1>2, KeptAll
<1>3. ASSUME NEW n, NEW m, NEW low, NEW high,
             chunk[Now(t).c].low = Null, m = top + 1 \/ m = top + 2,
             chunk' = [d \in 1 .. m |-> IF d = Now(t).c THEN [chunk[Now(t).c] EXCEPT !.low = n]
                                        ELSE IF d <= top THEN chunk[d]
                                        ELSE IF d = top + 1 THEN low ELSE high]
      PROVE  FrozenKept
  <2>1. ASSUME NEW d \in Ids PROVE Preserved(chunk[d], chunk'[d])
    <3>1. d \in 1 .. m /\ d <= top
      BY <1>1, <1>3, StartsAssumption DEF Shape, Ids, ChunkId
    <3>2. CASE d = Now(t).c
      <4>1. chunk'[d] = [chunk[d] EXCEPT !.low = n] /\ chunk[d].low = Null
        BY <1>3, <3>1, <3>2
      <4>2. chunk[d] \in ChunkRecord
        BY <1>1, ChunkTyped
      <4> QED
        BY <4>1, <4>2 DEF Preserved, ChunkRecord
    <3>3. CASE d # Now(t).c
      BY <1>3, <3>1, <3>3 DEF Preserved
    <3> QED
      BY <3>2, <3>3
  <2> QED
    BY <2>1 DEF FrozenKept
<1> QED
  <2>1. CASE UNCHANGED chunk
    BY <1>2, <2>1
  <2>2. CASE /\ chunk[Now(t).c].low = Null
             /\ top' = IF Now(t).new.two THEN top + 2 ELSE top + 1
             /\ chunk' = [d \in 1 .. top' |->
                             IF d = Now(t).c THEN [chunk[Now(t).c] EXCEPT !.low = top + 1]
                             ELSE IF d <= top THEN chunk[d]
                             ELSE IF d = top + 1
                                  THEN [Now(t).new.low EXCEPT !.next = IF Now(t).new.two THEN top + 2 ELSE Null]
                             ELSE Now(t).new.high]
    <3>1. PICK n, m, low, high :
             /\ n = top + 1 /\ m = top'
             /\ low = [Now(t).new.low EXCEPT !.next = IF Now(t).new.two THEN top + 2 ELSE Null]
             /\ high = Now(t).new.high
      OBVIOUS
    <3>2. m = top + 1 \/ m = top + 2
      BY <2>2, <3>1
    <3>3. chunk' = [d \in 1 .. m |-> IF d = Now(t).c THEN [chunk[Now(t).c] EXCEPT !.low = n]
                                     ELSE IF d <= top THEN chunk[d]
                                     ELSE IF d = top + 1 THEN low ELSE high]
      BY <2>2, <3>1
    <3> QED
      BY <1>3, <2>2, <3>2, <3>3
  <2> QED
    BY <2>1, <2>2 DEF InstallStep, Privately, Shared

LEMMA KeptByNewRoot ==
    ASSUME Shape, ChunksListed, NEW t \in Thread, NewRootStep(t) PROVE FrozenKept
<1>1. CASE UNCHANGED chunk
  BY <1>1, KeptAll
<1>2. CASE \E x : chunk' = Append(chunk, x)
  <2>1. PICK x : chunk' = Append(chunk, x)
    BY <1>2
  <2>2. PICK S : S = ChunkRecord \cup {x}
    OBVIOUS
  <2>3. PICK n \in Nat : n = top
    BY StartsAssumption DEF Shape, ChunkId
  <2>4. PICK s : s = chunk
    OBVIOUS
  <2>5. s \in [1 .. n -> S] /\ x \in S
    BY <2>2, <2>3, <2>4, ChunkTyped DEF ChunksListed, Ids
  <2>6. PICK z : z = Longer(s, x)
    OBVIOUS
  <2>7. Lengthens(S, n, s, x, z)
    BY <2>3, <2>5, <2>6, Appended
  <2>8. \A d \in Ids : chunk'[d] = chunk[d]
    BY <2>1, <2>3, <2>4, <2>6, <2>7 DEF Longer, Lengthens, Ids
  <2> QED
    BY <2>8 DEF FrozenKept, Preserved
<1> QED
  BY <1>1, <1>2 DEF NewRootStep

\* the steps that change nothing of a frozen chunk but the flags and the counter
LEMMA KeptByOthers ==
    ASSUME NEW K, TreeInv(K), NEW t \in Thread,
           \/ InsertStep(t) \/ PlaceStep(t) \/ DeleteStep(t) \/ CompareStep(t) \/ SwapStep(t)
           \/ SettleStep(t) \/ SetRootStep(t)
    PROVE  FrozenKept
<1>1. Shape
  BY DEF TreeInv
<1>2. PICK c : c = IF Now(t).do = "setRoot" THEN Now(t).new ELSE Now(t).c
  OBVIOUS
<1>3. StepOK(K, Now(t)) /\ Now(t).do \in {"insert", "place", "delete", "compare", "swap", "settle", "setRoot"}
  BY AtIs, HeadIs DEF InsertStep, PlaceStep, DeleteStep, CompareStep, SwapStep, SettleStep, SetRootStep
<1>4. c \in Ids /\ c \in DOMAIN chunk /\ chunk[c] \in ChunkRecord
  BY <1>1, <1>2, <1>3, ChunkTyped DEF StepOK, Shape
<1>5. ASSUME NEW y, chunk' = [chunk EXCEPT ![c] = y], ~chunk[c].frozen PROVE FrozenKept
  BY <1>1, <1>4, <1>5, KeptBut DEF Preserved
<1>6. CASE InsertStep(t)
  <2>1. Now(t).do = "insert"
    BY <1>6, AtIs DEF InsertStep
  <2> QED
    BY <1>2, <1>5, <1>6, <2>1, KeptAll DEF InsertStep, Privately, Shared
<1>7. CASE PlaceStep(t)
  <2>1. Now(t).do = "place"
    BY <1>7, AtIs DEF PlaceStep
  <2>2. PICK i : i = Now(t).slot
    OBVIOUS
  <2>3. PICK y : y = [chunk[c] EXCEPT !.e[i].at = "free"]
    OBVIOUS
  <2>4. \/ UNCHANGED chunk
        \/ ~chunk[c].frozen /\ chunk' = [chunk EXCEPT ![c].e[i].at = "free"]
    BY <1>2, <1>7, <2>1, <2>2 DEF PlaceStep, Privately, Shared
  <2> QED
    BY <1>5, <2>3, <2>4, KeptAll
<1>8. CASE DeleteStep(t)
  <2>1. Now(t).do = "delete"
    BY <1>8, AtIs DEF DeleteStep
  <2>2. PICK n : n = chunk[c].cnt - 1
    OBVIOUS
  <2>3. \/ UNCHANGED chunk
        \/ ~chunk[c].frozen /\ chunk' = [chunk EXCEPT ![c] = Remove(chunk[c], Now(t).key)]
        \/ chunk' = [chunk EXCEPT ![c].cnt = @ - 1]
    BY <1>2, <1>8, <2>1 DEF DeleteStep, Privately, Fails, Shared
  <2>4. ASSUME chunk' = [chunk EXCEPT ![c].cnt = @ - 1] PROVE FrozenKept
    <3>1. chunk' = [chunk EXCEPT ![c].cnt = n]
      BY <1>4, <2>2, <2>4
    <3> QED
      BY <1>1, <1>4, <3>1, KeptCounted
  <2> QED
    BY <1>5, <2>3, <2>4, KeptAll
<1>9. CASE CompareStep(t)
  <2>1. Now(t).do = "compare"
    BY <1>9, AtIs DEF CompareStep
  <2>2. PICK n : n = chunk[c].cnt + 1
    OBVIOUS
  <2>3. UNCHANGED chunk \/ chunk' = [chunk EXCEPT ![c].cnt = @ + 1]
    BY <1>2, <1>9, <2>1 DEF CompareStep, Privately, Shared
  <2>4. ASSUME chunk' = [chunk EXCEPT ![c].cnt = @ + 1] PROVE FrozenKept
    <3>1. chunk' = [chunk EXCEPT ![c].cnt = n]
      BY <1>4, <2>2, <2>4
    <3> QED
      BY <1>1, <1>4, <3>1, KeptCounted
  <2> QED
    BY <2>3, <2>4, KeptAll
<1>10. CASE SwapStep(t)
  <2>1. Now(t).do = "swap"
    BY <1>10, AtIs DEF SwapStep
  <2>2. PICK i : i = Now(t).slot
    OBVIOUS
  <2>3. PICK y : y = [chunk[c] EXCEPT !.e[i].data = Now(t).data]
    OBVIOUS
  <2>4. \/ UNCHANGED chunk
        \/ ~chunk[c].frozen /\ chunk' = [chunk EXCEPT ![c].e[i].data = Now(t).data]
    BY <1>2, <1>10, <2>1, <2>2 DEF SwapStep, Privately, Shared
  <2> QED
    BY <1>5, <2>3, <2>4, KeptAll
<1>11. CASE SettleStep(t)
  <2>1. Now(t).do = "settle"
    BY <1>11, AtIs DEF SettleStep
  <2>2. PICK y : y = [chunk[c] EXCEPT !.frozen = TRUE]
    OBVIOUS
  <2>3. chunk' = [chunk EXCEPT ![c].frozen = TRUE]
    BY <1>2, <1>11, <2>1 DEF SettleStep
  <2>4. chunk' = [chunk EXCEPT ![c] = y]
    BY <2>2, <2>3
  <2>5. Preserved(chunk[c], y)
    BY <1>4, <2>2 DEF Preserved, ChunkRecord
  <2> QED
    BY <1>1, <1>4, <2>4, <2>5, KeptBut
<1>12. CASE SetRootStep(t)
  <2>1. Now(t).do = "setRoot"
    BY <1>12, AtIs DEF SetRootStep
  <2>2. PICK y : y = [chunk[c] EXCEPT !.root = TRUE]
    OBVIOUS
  <2>3. chunk' = [chunk EXCEPT ![c].root = TRUE]
    BY <1>2, <1>12, <2>1 DEF SetRootStep
  <2>4. chunk' = [chunk EXCEPT ![c] = y]
    BY <2>2, <2>3
  <2>5. Preserved(chunk[c], y)
    BY <1>4, <2>2 DEF Preserved, ChunkRecord
  <2> QED
    BY <1>1, <1>4, <2>4, <2>5, KeptBut
<1> QED
  BY <1>6, <1>7, <1>8, <1>9, <1>10, <1>11, <1>12

\* what is true in all reachable states: with K, as long as no entry is lost by moving it
Always(K) == TreeInv(K) /\ ChunksListed

LEMMA ListedStays ==
    ASSUME ChunksListed, Shape, Shape', NEW t \in Thread, Step(t) PROVE ChunksListed'
<1>1. IsFunction(chunk')
  BY StaysFunction
<1>2. DOMAIN chunk' = 1 .. top'
  BY DEF Shape, Ids
<1> QED
  BY <1>1, <1>2 DEF IsFunction, ChunksListed

LEMMA NextInv ==
    ASSUME NEW K \in BOOLEAN, Always(K), K => NothingLost, [Next]_vars
    PROVE  Always(K)' /\ FinalsStay
<1>1. TreeInv(K) /\ ChunksListed /\ Shape
  BY DEF Always, TreeInv
<1>2. CASE UNCHANGED vars
  <2>1. UNCHANGED <<Shared, todo, hold, left, call>> /\ UNCHANGED <<chunk, top>>
    BY <1>2 DEF vars, Shared
  <2>2. ChunksListed'
    BY <1>1, <2>1 DEF ChunksListed
  <2> QED
    BY <1>1, <2>1, <2>2, UnchangedKeeps DEF Always
<1>3. CASE \E t \in Thread : Step(t)
  <2>1. PICK t \in Thread : Step(t)
    BY <1>3
  <2>2. TreeInv(K)' /\ FinalsStay
    BY <1>1, <2>1, StepInv
  <2>3. Shape'
    BY <2>2 DEF TreeInv
  <2>4. ChunksListed'
    BY <1>1, <2>1, <2>3, ListedStays
  <2> QED
    BY <2>2, <2>4 DEF Always
<1> QED
  BY <1>2, <1>3 DEF Next, AllDone

(***************************************************************************)
(* What the invariant says.                                                *)
(***************************************************************************)
LEMMA InvTypes ==
    ASSUME Always(FALSE), GateInv PROVE TypeOK
<1>1. Shape /\ Words /\ Stacks(FALSE) /\ Holds /\ ChunksListed
  BY DEF Always, TreeInv
<1>2. root \in 1 .. top /\ top \in ChunkId /\ top \in Nat
  BY <1>1, StartsAssumption DEF Shape, Ids, ChunkId
<1>3. chunk \in Seq(ChunkRecord) /\ Len(chunk) = top
  <2>1. chunk \in [1 .. top -> ChunkRecord]
    BY <1>1, ChunkTyped DEF ChunksListed, Ids
  <2> QED
    BY <1>2, <2>1
<1>4. ASSUME NEW c \in 1 .. top
      PROVE  chunk[c].low <= top /\ chunk[c].next <= top /\ chunk[c].creator <= top
  <2>1. Related(c)
    BY <1>1 DEF Shape, Ids
  <2>2. ASSUME NEW d, d = Null \/ d \in Ids PROVE d <= top
    BY <1>2, <2>2 DEF Ids, Null
  <2> QED
    BY <2>1, <2>2 DEF Related
<1>5. word \in [1 .. top -> [st : Alone, bud : {Null}] \cup [st : Together, bud : 1 .. top]]
  BY <1>1 DEF Words, WordType
<1>6. ASSUME NEW t \in Thread
      PROVE  /\ hold[t].c \in 0 .. top
             /\ hold[t] # NoHold => hold[t].at \in 0 .. Len(chunk[hold[t].c].e)
  <2>1. CASE hold[t] = NoHold
    BY <1>2, <2>1 DEF NoHold, Null
  <2>2. CASE hold[t] # NoHold
    <3>1. HoldOK(t)
      BY <1>1, <2>2 DEF Holds
    <3>2. todo[t] # <<>> /\ Now(t).do \in {"link", "mark"}
      BY <3>1, AtIs DEF HoldOK
    <3>3. StepOK(FALSE, Now(t))
      BY <3>2, HeadIs DEF Always
    <3>4. PICK c : c = Now(t).c
      OBVIOUS
    <3>5. c \in Ids /\ hold[t].c = c
      BY <3>1, <3>2, <3>3, <3>4 DEF HoldOK, StepOK
    <3>6. PICK x : x = chunk[c]
      OBVIOUS
    <3>7. x \in ChunkRecord
      BY <1>1, <3>5, <3>6, ChunkTyped
    <3>8. DOMAIN x.e = 1 .. Len(x.e) /\ Len(x.e) \in Nat
      BY <3>7, EntriesAre
    <3>9. CASE Now(t).do = "link"
      <4>1. At(t, "link")
        BY <3>2, <3>9 DEF At, Now
      <4>2. PICK k : k = x.e[Now(t).slot].key
        OBVIOUS
      <4>3. hold[t].at = PrevOf(x, k)
        BY <3>1, <3>5, <3>6, <4>1, <4>2 DEF HoldOK
      <4>4. Now(t).slot \in DOMAIN x.e
        BY <3>3, <3>4, <3>6, <3>9 DEF StepOK
      <4>5. k \in Nat
        BY <3>7, <4>2, <4>4, EntriesAre
      <4>6. PrevOf(x, k) = Null \/ PrevOf(x, k) \in DOMAIN x.e
        BY <3>7, <4>5, PrevIs
      <4> QED
        BY <1>2, <3>5, <3>6, <3>8, <4>3, <4>6 DEF Ids, Null
    <3>10. CASE Now(t).do = "mark"
      <4>1. At(t, "mark")
        BY <3>2, <3>10 DEF At, Now
      <4>2. hold[t].at \in Linked(x)
        BY <3>1, <3>5, <3>6, <4>1 DEF HoldOK
      <4>3. hold[t].at \in DOMAIN x.e
        BY <3>7, <4>2, LinkedFinite
      <4> QED
        BY <1>2, <3>5, <3>6, <3>8, <4>3 DEF Ids
    <3> QED
      BY <3>2, <3>9, <3>10
  <2> QED
    BY <2>1, <2>2
<1>7. BarrierType
  BY GateTypes
<1> QED
  BY <1>2, <1>3, <1>4, <1>5, <1>6, <1>7 DEF TypeOK

LEMMA InvBalanced ==
    ASSUME NEW K, Always(K) PROVE Balanced
<1>1. Shape
  BY DEF Always, TreeInv
<1> QED
  BY <1>1, SonIs DEF Balanced, H, Ids

LEMMA InvPartners ==
    ASSUME NEW K, Always(K) PROVE PartnersAgree
BY DEF Always, TreeInv, Words, WordOK, PartnersAgree, Ids

LEMMA InTreeUsed ==
    ASSUME Shape PROVE InTree \subseteq Ids
<1>1. root \in Ids
  BY DEF Shape
<1>2. ASSUME NEW c \in Ids PROVE SonsOf(c) \subseteq Ids
  <2>1. CASE Leaf(c)
    BY <2>1 DEF SonsOf
  <2>2. CASE ~Leaf(c)
    <3>1. Linked(chunk[c]) \subseteq DOMAIN chunk[c].e
      BY ChunkTyped, LinkedFinite
    <3> QED
      BY <2>2, <3>1, SonIs DEF SonsOf
  <2> QED
    BY <2>1, <2>2
<1> QED
  BY <1>1, <1>2 DEF InTree

\* a chunk of which no entry can have been lost has enough of them
LEMMA InvEnough ==
    ASSUME NEW K, Always(K), NEW c \in Ids, Kept(K, chunk[c]), ~chunk[c].root
    PROVE  EntrNum(chunk[c]) >= MinEntries
<1>1. Shape /\ Counts(K) /\ Stacks(K)
  BY DEF Always, TreeInv
<1>2. chunk[c].cnt \in Int /\ EntrNum(chunk[c]) \in Nat
  BY <1>1, ChunkTyped
<1>3. chunk[c].cnt >= MinEntries
  BY <1>1 DEF Counts, Enough
<1>4. EntrNum(chunk[c]) >= chunk[c].cnt + Cardinality(Owed(c))
  BY <1>1 DEF Counts, CountsUp
<1>5. Cardinality(Owed(c)) \in Nat
  <2>1. Owed(c) \in SUBSET Thread
    BY DEF Owed
  <2> QED
    BY <2>1, ThreadAssumption, FS_Subset, FS_CardinalityType
<1>6. MinEntries \in Nat
  BY SizeAssumption
<1> QED
  BY <1>2, <1>3, <1>4, <1>5, <1>6

LEMMA InvMinimum ==
    ASSUME Always(TRUE) PROVE MinimumInTree
<1>1. InTree \subseteq Ids
  BY InTreeUsed DEF Always, TreeInv
<1> QED
  BY <1>1, InvEnough DEF MinimumInTree, Kept

LEMMA StepKept ==
    ASSUME Always(FALSE), NEW t \in Thread, Step(t) PROVE FrozenKept
<1>1. TreeInv(FALSE) /\ ChunksListed /\ Shape
  BY DEF Always, TreeInv
<1> QED
  BY <1>1, ChunksAlone, KeptAll, KeptByLink, KeptByMark, KeptByInstall, KeptByNewRoot, KeptByOthers
  DEF Step
-----------------------------------------------------------------------------
(***************************************************************************)
(* Each thread comes to the barrier before any of them goes on.            *)
(***************************************************************************)
THEOREM ThreadsStartTogether == Spec => []StartTogether
<1>1. Spec => []GateInv
  BY GateInvariant
<1>2. GateInv => StartTogether
  BY DEF GateInv, NoneLate, StartTogether
<1> QED
  BY <1>1, <1>2, PTL

LEMMA AlwaysInv == Spec => []Always(FALSE)
<1>1. Init => Always(FALSE)
  BY InitInv DEF Always
<1>2. Always(FALSE) /\ [Next]_vars => Always(FALSE)'
  BY NextInv
<1> QED
  BY <1>1, <1>2, PTL DEF Spec

(***************************************************************************)
(* Words hold chunks that are in use, for any trees, threads and sizes.    *)
(***************************************************************************)
THEOREM TypesKept == Spec => []TypeOK
<1>1. Always(FALSE) /\ GateInv => TypeOK
  BY InvTypes
<1> QED
  BY <1>1, AlwaysInv, GateInvariant, PTL

(***************************************************************************)
(* The tree stays balanced: whatever the threads do, and however far they  *)
(* are behind, an entry leads to a chunk of the next lower level.          *)
(***************************************************************************)
THEOREM TreeStaysBalanced == Spec => []Balanced
<1>1. Always(FALSE) => Balanced
  BY InvBalanced
<1> QED
  BY <1>1, AlwaysInv, PTL

(***************************************************************************)
(* A master in MERGE and its slave point at each other.                    *)
(***************************************************************************)
THEOREM MergesAreMutual == Spec => []PartnersAgree
<1>1. Always(FALSE) => PartnersAgree
  BY InvPartners
<1> QED
  BY <1>1, AlwaysInv, PTL

(***************************************************************************)
(* No step of any thread changes what has been decided for a chunk.        *)
(***************************************************************************)
THEOREM DecisionsAreFinal == Spec => DecisionsStay
<1>1. Always(FALSE) /\ [Next]_vars =>
        [\A c \in 1 .. top :
            St(c) \in {"COPY", "SPLIT", "MERGE", "SLAVE_FREEZE"} => word'[c] = word[c]]_vars
  <2>1. ASSUME Always(FALSE), [Next]_vars
        PROVE  \A c \in 1 .. top :
                  St(c) \in {"COPY", "SPLIT", "MERGE", "SLAVE_FREEZE"} => word'[c] = word[c]
    <3>1. FinalsStay
      BY <2>1, NextInv
    <3> QED
      BY <3>1 DEF FinalsStay, Decided, Ids
  <2> QED
    BY <2>1
<1> QED
  BY <1>1, AlwaysInv, PTL DEF Spec, DecisionsStay

(***************************************************************************)
(* What is in the list of a frozen chunk when the freeze bits are set, or  *)
(* comes into it later, stays in it, and its replacement is final.         *)
(***************************************************************************)
THEOREM FrozenIsKept == Spec => FrozenStays
<1>1. Always(FALSE) /\ [Next]_vars =>
        [\A c \in 1 .. top : LET x == chunk[c] IN x.frozen =>
            /\ chunk'[c].frozen
            /\ \A i \in Linked(x) : chunk'[c].e[i] = x.e[i]
            /\ x.low # Null => chunk'[c].low = x.low]_vars
  <2>1. ASSUME Always(FALSE), [Next]_vars PROVE FrozenKept
    <3>1. CASE UNCHANGED vars
      BY <3>1, KeptAll DEF vars
    <3>2. CASE \E t \in Thread : Step(t)
      BY <2>1, <3>2, StepKept
    <3> QED
      BY <2>1, <3>1, <3>2 DEF Next, AllDone
  <2>2. ASSUME Always(FALSE), [Next]_vars
        PROVE  \A c \in 1 .. top : LET x == chunk[c] IN x.frozen =>
                  /\ chunk'[c].frozen
                  /\ \A i \in Linked(x) : chunk'[c].e[i] = x.e[i]
                  /\ x.low # Null => chunk'[c].low = x.low
    BY <2>1, <2>2 DEF FrozenKept, Preserved, Ids
  <2> QED
    BY <2>2
<1> QED
  BY <1>1, AlwaysInv, PTL DEF Spec, FrozenStays

(***************************************************************************)
(* No leaf has fewer entries than the minimum, unless it has been a root.  *)
(***************************************************************************)
LeavesFull == \A c \in 1 .. top : Leaf(c) /\ ~chunk[c].root => EntrNum(chunk[c]) >= MinEntries

\* however many merges and splits go on around it
THEOREM LeavesStayFull == Spec => []LeavesFull
<1>1. Always(FALSE) => LeavesFull
  BY InvEnough DEF LeavesFull, Leaf, Kept, Ids
<1> QED
  BY <1>1, AlwaysInv, PTL

(***************************************************************************)
(* As long as no replacement moves two entries at once (which setIndex at  *)
(* chunk.c:639 does not survive), no chunk of the tree but the root falls  *)
(* below its minimum.                                                      *)
(***************************************************************************)
THEOREM MinimumIsKept == Spec /\ []NothingLost => []MinimumInTree
<1>1. Init => Always(TRUE)
  BY InitInv DEF Always
<1>2. Always(TRUE) /\ NothingLost /\ [Next]_vars => Always(TRUE)'
  BY NextInv
<1>3. Always(TRUE) => MinimumInTree
  BY InvMinimum
<1> QED
  BY <1>1, <1>2, <1>3, PTL DEF Spec
-----------------------------------------------------------------------------
(***************************************************************************)
(* The words follow the protocol of MergeWords.  Its word and new are      *)
(* functions on all chunks, also those that are not in use.                *)
(***************************************************************************)
AllWords == [c \in ChunkId |-> IF c <= top THEN word[c] ELSE W("UNUSED", Null)]
AllNew   == [c \in ChunkId |-> IF c <= top THEN chunk[c].low ELSE Null]

LEMMA AllAre ==
    ASSUME Shape
    PROVE  /\ Ids \subseteq ChunkId
           /\ \A c \in Ids : c <= top
           /\ \A c \in ChunkId \ Ids : ~(c <= top)
           /\ \A c \in Ids : AllWords[c] = word[c] /\ AllNew[c] = chunk[c].low
           /\ \A c \in ChunkId \ Ids : AllWords[c] = W("UNUSED", Null) /\ AllNew[c] = Null
<1>1. top \in 1 .. MaxChunks /\ MaxChunks \in Nat
  BY StartsAssumption DEF Shape, ChunkId
<1>2. Ids \subseteq ChunkId
  BY <1>1 DEF Ids, ChunkId
<1>3. ASSUME NEW c \in Ids PROVE c <= top
  BY <1>1, <1>3 DEF Ids
<1>4. ASSUME NEW c \in ChunkId \ Ids PROVE ~(c <= top)
  BY <1>1, <1>4 DEF Ids, ChunkId
<1> QED
  BY <1>2, <1>3, <1>4 DEF AllWords, AllNew

\* the changes of one word that the protocol allows
Moved(c, n) ==
    \/ St(c) = "INFANT" /\ n = W("NORMAL", Null)
    \/ St(c) = "NORMAL" /\ n = W("FREEZE", Null)
    \/ St(c) = "NORMAL" /\ \E m \in Ids : n = W("SLAVE_FREEZE", m)
    \/ St(c) = "FREEZE" /\ \E dec \in {"COPY", "SPLIT"} : n = W(dec, Null)
    \/ St(c) \in {"FREEZE", "REQUEST_SLAVE"} /\ \E s \in Ids : n = W("REQUEST_SLAVE", s)
    \/ St(c) = "REQUEST_SLAVE" /\ n = W("SLAVE_FREEZE", Bud(c))
    \/ St(c) = "REQUEST_SLAVE" /\ n = W("MERGE", Bud(c)) /\ word[Bud(c)] = W("SLAVE_FREEZE", c)

LEMMA UsedAre ==
    ASSUME Shape, Words PROVE Protocol!Used = Ids /\ Protocol!Unused = ChunkId \ Ids
<1>1. \A c \in Ids : AllWords[c].st # "UNUSED"
  BY AllAre, WordIs DEF Alone, Together, St
<1>2. \A c \in ChunkId \ Ids : AllWords[c].st = "UNUSED"
  BY AllAre DEF W
<1>3. {c \in ChunkId : AllWords[c].st # "UNUSED"} = Ids
  BY <1>1, <1>2, AllAre
<1> QED
  BY <1>3 DEF Protocol!Used, Protocol!Unused, AllWords

LEMMA MovedFollows ==
    ASSUME Shape, Words, NEW c \in Ids, NEW n, Moved(c, n),
           AllWords' = [AllWords EXCEPT ![c] = n], UNCHANGED AllNew
    PROVE  Protocol!Next
<1>1. c \in ChunkId /\ AllWords[c] = word[c]
  BY AllAre
<1>2. Protocol!Used = Ids
  BY UsedAre
<1>3. /\ Protocol!Set(c, n)
      /\ UNCHANGED [d \in ChunkId |-> IF d <= top THEN chunk[d].low ELSE Null]
  BY DEF Protocol!Set, AllWords, AllNew
<1>4. PICK v : v = AllWords[c]
  OBVIOUS
<1>5. v = word[c] /\ v = [d \in ChunkId |-> IF d <= top THEN word[d] ELSE W("UNUSED", Null)][c]
  BY <1>1, <1>4 DEF AllWords
<1>6. Protocol!NewRoot(c) \/ Protocol!Grow(c) \/ Protocol!FreezeWord(c) \/ Protocol!Decide(c)
      \/ Protocol!Request(c) \/ Protocol!Enslave(c) \/ Protocol!GiveWay(c) \/ Protocol!Take(c)
  <2>1. CASE St(c) = "INFANT" /\ n = W("NORMAL", Null)
    BY <1>3, <1>5, <2>1 DEF Protocol!Grow, Protocol!W, W, St
  <2>2. CASE St(c) = "NORMAL" /\ n = W("FREEZE", Null)
    BY <1>3, <1>5, <2>2 DEF Protocol!FreezeWord, Protocol!W, W, St
  <2>3. CASE St(c) = "NORMAL" /\ \E m \in Ids : n = W("SLAVE_FREEZE", m)
    BY <1>2, <1>3, <1>5, <2>3 DEF Protocol!Enslave, Protocol!W, W, St
  <2>4. CASE St(c) = "FREEZE" /\ \E dec \in {"COPY", "SPLIT"} : n = W(dec, Null)
    <3>1. PICK dec \in {"COPY", "SPLIT"} : n = W(dec, Null)
      BY <2>4
    <3>2. Protocol!Set(c, Protocol!W(dec, Null))
      BY <1>3, <3>1 DEF Protocol!W, W
    <3>3. v.st = "FREEZE"
      BY <1>5, <2>4 DEF St
    <3> QED
      BY <1>3, <1>5, <3>2, <3>3 DEF Protocol!Decide
  <2>5. CASE St(c) \in {"FREEZE", "REQUEST_SLAVE"} /\ \E s \in Ids : n = W("REQUEST_SLAVE", s)
    BY <1>2, <1>3, <1>5, <2>5 DEF Protocol!Request, Protocol!W, W, St
  <2>6. CASE St(c) = "REQUEST_SLAVE" /\ n = W("SLAVE_FREEZE", Bud(c))
    BY <1>1, <1>3, <1>5, <2>6 DEF Protocol!GiveWay, Protocol!Set, Protocol!W, W, St, Bud, AllWords
  <2>7. CASE St(c) = "REQUEST_SLAVE" /\ n = W("MERGE", Bud(c)) /\ word[Bud(c)] = W("SLAVE_FREEZE", c)
    <3>1. Bud(c) \in Ids
      BY <2>7, WordIs DEF Together
    <3>2. PICK b : b = v.bud
      OBVIOUS
    <3>3. b = Bud(c) /\ v.st = "REQUEST_SLAVE"
      BY <1>5, <2>7, <3>2 DEF St, Bud
    <3>4. AllWords[b] = W("SLAVE_FREEZE", c)
      BY <2>7, <3>1, <3>3, AllAre
    <3>5. Protocol!Set(c, Protocol!W("MERGE", b))
      BY <1>3, <2>7, <3>3 DEF Protocol!W, W
    <3>6. [d \in ChunkId |-> IF d <= top THEN word[d] ELSE W("UNUSED", Null)][b] = Protocol!W("SLAVE_FREEZE", c)
      BY <3>4 DEF AllWords, Protocol!W, W
    <3> QED
      BY <1>1, <1>3, <1>5, <3>2, <3>3, <3>5, <3>6 DEF Protocol!Take, Protocol!Set, Protocol!W
  <2> QED
    BY <2>1, <2>2, <2>3, <2>4, <2>5, <2>6, <2>7 DEF Moved
<1> QED
  BY <1>1, <1>6 DEF Protocol!Next

(***************************************************************************)
(* Which words a step changes, and that it leaves low alone.               *)
(***************************************************************************)
OneWord == UNCHANGED word \/ \E c \in Ids : \E n : Moved(c, n) /\ word' = [word EXCEPT ![c] = n]

\* a compare-and-swap of one word, in a step that can also leave the words alone
LEMMA CasMoves ==
    ASSUME NEW c \in Ids, NEW e, NEW n, Cas(c, e, n), word[c] = e => Moved(c, n) PROVE OneWord
BY DEF Cas, OneWord

LEMMA WordsAlone ==
    ASSUME NEW t \in Thread,
           \/ Begin(t) \/ Invoke(t) \/ Return(t)
           \/ DescendStep(t) \/ OntoStep(t) \/ InsertStep(t) \/ PlaceStep(t) \/ LinkStep(t) \/ DeleteStep(t)
           \/ CompareStep(t) \/ MarkStep(t) \/ ReplaceStep(t) \/ SwapStep(t) \/ SettleStep(t) \/ CheckStep(t)
           \/ LookStep(t) \/ BuildStep(t) \/ UpdateStep(t) \/ HelpStep(t) \/ HelpNot(t) \/ ParentStep(t)
           \/ FoundStep(t) \/ OnwardStep(t) \/ UnlinkStep(t) \/ SetRootStep(t) \/ SwapRootStep(t)
    PROVE  UNCHANGED <<top, word>>
<1>1. ASSUME NEW s, Privately(t, s) PROVE UNCHANGED <<top, word>>
  BY <1>1 DEF Privately, Shared
<1>2. ASSUME NEW f, Fails(t, f) PROVE UNCHANGED <<top, word>>
  BY <1>2 DEF Fails, Shared
<1>3. CASE Begin(t) \/ Invoke(t) \/ Return(t)
  BY <1>3 DEF Begin, Invoke, Return, Shared
<1>4. CASE DescendStep(t) \/ OntoStep(t) \/ InsertStep(t) \/ PlaceStep(t) \/ LinkStep(t) \/ DeleteStep(t)
  <2>1. CASE DescendStep(t)
    BY <1>1, <1>2, <2>1 DEF DescendStep
  <2>2. CASE OntoStep(t)
    BY <1>1, <1>2, <2>2 DEF OntoStep
  <2>3. CASE InsertStep(t)
    BY <1>1, <1>2, <2>3 DEF InsertStep
  <2>4. CASE PlaceStep(t)
    BY <1>1, <2>4 DEF PlaceStep, Shared, Privately
  <2>5. CASE LinkStep(t)
    BY <1>1, <1>2, <2>5 DEF LinkStep
  <2>6. CASE DeleteStep(t)
    BY <1>1, <1>2, <2>6 DEF DeleteStep
  <2> QED
    BY <1>4, <2>1, <2>2, <2>3, <2>4, <2>5, <2>6
<1>5. CASE CompareStep(t) \/ MarkStep(t) \/ ReplaceStep(t) \/ SwapStep(t) \/ SettleStep(t) \/ CheckStep(t)
  BY <1>1, <1>2, <1>5 DEF CompareStep, MarkStep, ReplaceStep, SwapStep, SettleStep, CheckStep, Shared
<1>6. CASE LookStep(t) \/ BuildStep(t) \/ UpdateStep(t) \/ HelpStep(t) \/ HelpNot(t)
  BY <1>1, <1>2, <1>6 DEF LookStep, BuildStep, UpdateStep, HelpStep, HelpNot
<1>7. CASE ParentStep(t)
  <2>1. NoParent(t) => UNCHANGED <<top, word>>
    BY <1>1, <1>2 DEF NoParent
  <2>2. PICK p, cur : p = Now(t).at /\ cur = CurOf(chunk[p], Now(t).key)
    OBVIOUS
  <2>3. PICK near : near = IF Now(t).then = "enslave" THEN Neighbour(p, cur) ELSE Null
    OBVIOUS
  <2>4. \/ NoParent(t)
        \/ Privately(t, <<SearchIn(root, Now(t))>>)
        \/ Privately(t, <<Found(p, Now(t), cur, near)>>)
    BY <1>7, <2>2, <2>3 DEF ParentStep
  <2> QED
    BY <1>1, <2>1, <2>4
<1>8. CASE FoundStep(t) \/ OnwardStep(t)
  BY <1>8 DEF FoundStep, OnwardStep, Privately, Fails, Shared
<1>9. CASE UnlinkStep(t)
  <2>1. PICK new : new = LowNew(Now(t).master)
    OBVIOUS
  <2>2. \/ Privately(t, <<DeleteFrom(Now(t).c, Now(t).key, Now(t).low)>>)
        \/ Fails(t, "mergeRoot: two entries")
        \/ Privately(t, <<SetRoot(Now(t).c, new), SwapRoot(Now(t).c, new)>>)
        \/ Privately(t, <<>>)
    BY <1>9, <2>1 DEF UnlinkStep
  <2> QED
    BY <1>1, <1>2, <2>2
<1>10. CASE SetRootStep(t) \/ SwapRootStep(t)
  BY <1>10 DEF SetRootStep, SwapRootStep
<1> QED
  BY <1>3, <1>4, <1>5, <1>6, <1>7, <1>8, <1>9, <1>10

LEMMA WordsMove ==
    ASSUME NEW K \in BOOLEAN, TreeInv(K), NEW t \in Thread,
           \/ FreezeStep(t) \/ DecideStep(t) \/ PairStep(t) \/ RequestStep(t) \/ SetSlaveStep(t)
           \/ YieldStep(t) \/ TakeStep(t) \/ RepointStep(t) \/ NormalStep(t)
    PROVE  UNCHANGED top /\ OneWord
<1>1. Shape /\ Words
  BY DEF TreeInv
<1>2. ASSUME NEW s, Privately(t, s) PROVE OneWord
  BY <1>2 DEF Privately, Shared, OneWord
<1>3. ASSUME NEW f, Fails(t, f) PROVE OneWord
  BY <1>3 DEF Fails, Shared, OneWord
<1>4. UNCHANGED top
  BY DEF FreezeStep, DecideStep, PairStep, RequestStep, SetSlaveStep, YieldStep, TakeStep, RepointStep,
         NormalStep, Privately, Fails, Shared
<1>5. CASE FreezeStep(t)
  <2>1. Now(t).do = "freeze" /\ StepOK(K, Now(t))
    BY <1>5, AtIs, HeadIs DEF FreezeStep
  <2>2. PICK c \in Ids : c = Now(t).c
    BY <2>1 DEF StepOK
  <2>3. \/ \E s : Privately(t, s)
        \/ \E f : Fails(t, f)
        \/ Cas(c, W("NORMAL", Null), W("FREEZE", Null))
    BY <1>5, <2>2 DEF FreezeStep
  <2>4. word[c] = W("NORMAL", Null) => Moved(c, W("FREEZE", Null))
    BY DEF Moved, St, W
  <2> QED
    BY <1>2, <1>3, <1>4, <2>3, <2>4, CasMoves
<1>6. CASE DecideStep(t)
  <2>1. Now(t).do = "decide" /\ StepOK(K, Now(t))
    BY <1>6, AtIs, HeadIs DEF DecideStep
  <2>2. PICK c \in Ids : c = Now(t).c
    BY <2>1 DEF StepOK
  <2>3. PICK dec : dec = Decision(chunk[c])
    OBVIOUS
  <2>4. \/ \E s : Privately(t, s)
        \/ dec # "MERGE" /\ Cas(c, W("FREEZE", Null), W(dec, Null))
    BY <1>6, <2>2, <2>3 DEF DecideStep
  <2>5. dec \in {"COPY", "SPLIT", "MERGE"}
    BY <2>3 DEF Decision
  <2>6. ASSUME dec # "MERGE", word[c] = W("FREEZE", Null) PROVE Moved(c, W(dec, Null))
    BY <2>5, <2>6 DEF Moved, St, W
  <2> QED
    BY <1>2, <1>4, <2>4, <2>6, CasMoves
<1>7. CASE PairStep(t)
  <2>1. Now(t).do = "pair" /\ StepOK(K, Now(t))
    BY <1>7, AtIs, HeadIs DEF PairStep
  <2>2. PICK c \in Ids : c = Now(t).c
    BY <2>1 DEF StepOK
  <2>3. PICK m : m = Bud(c)
    OBVIOUS
  <2>4. \/ \E s : Privately(t, s)
        \/ \E f : Fails(t, f)
        \/ St(c) = "SLAVE_FREEZE" /\ Cas(m, W("REQUEST_SLAVE", c), W("MERGE", c))
    BY <1>7, <2>2, <2>3 DEF PairStep
  <2>5. ASSUME St(c) = "SLAVE_FREEZE"
        PROVE  m \in Ids /\ (word[m] = W("REQUEST_SLAVE", c) => Moved(m, W("MERGE", c)))
    <3>1. m \in Ids /\ word[c] = W("SLAVE_FREEZE", m)
      BY <1>1, <2>3, <2>5, WordIs DEF Together
    <3>2. word[m] = W("REQUEST_SLAVE", c) => St(m) = "REQUEST_SLAVE" /\ Bud(m) = c
      BY DEF St, Bud, W
    <3> QED
      BY <3>1, <3>2 DEF Moved
  <2> QED
    BY <1>2, <1>3, <1>4, <2>4, <2>5, CasMoves
<1>8. CASE RequestStep(t)
  <2>1. Now(t).do = "request" /\ StepOK(K, Now(t))
    BY <1>8, AtIs, HeadIs DEF RequestStep
  <2>2. PICK m \in Ids : m = Now(t).c
    BY <2>1 DEF StepOK
  <2>3. PICK p \in Ids : p = Now(t).parent
    BY <2>1 DEF StepOK
  <2>4. PICK old, slot, s : old = Now(t).old /\ slot = Now(t).slot /\ s = Son(p, slot)
    OBVIOUS
  <2>5. H(p) # 0 /\ slot \in DOMAIN chunk[p].e
    BY <2>1, <2>2, <2>3, <2>4 DEF StepOK
  <2>6. s \in Ids
    BY <1>1, <2>4, <2>5, SonIs DEF Leaf, H
  <2>7. PICK exp : exp = Expected(m, old)
    OBVIOUS
  <2>8. (\E q : Privately(t, q)) \/ (\E f : Fails(t, f)) \/ Cas(m, exp, W("REQUEST_SLAVE", s))
    BY <1>8, <2>2, <2>3, <2>4, <2>7 DEF RequestStep
  <2>9. word[m] = exp => Moved(m, W("REQUEST_SLAVE", s))
    BY <2>6, <2>7 DEF Moved, Expected, St, W
  <2> QED
    BY <1>2, <1>3, <1>4, <2>8, <2>9, CasMoves
<1>9. CASE SetSlaveStep(t) \/ YieldStep(t) \/ TakeStep(t)
  <2>1. Now(t).do \in {"setSlave", "yield", "take"} /\ StepOK(K, Now(t))
    BY <1>9, AtIs, HeadIs DEF SetSlaveStep, YieldStep, TakeStep
  <2>2. PICK m, s : m = Now(t).c /\ s = Now(t).slave
    OBVIOUS
  <2>3. m \in Ids /\ s \in Ids
    BY <2>1, <2>2 DEF StepOK, Masters
  <2>4. CASE SetSlaveStep(t)
    <3>1. Cas(s, W("NORMAL", Null), W("SLAVE_FREEZE", m))
      BY <2>2, <2>4 DEF SetSlaveStep
    <3>2. word[s] = W("NORMAL", Null) => Moved(s, W("SLAVE_FREEZE", m))
      BY <2>3 DEF Moved, St, W
    <3> QED
      BY <1>4, <2>3, <3>1, <3>2, CasMoves
  <2>5. CASE YieldStep(t)
    <3>1. PICK low : low = Yielding(m, s)
      OBVIOUS
    <3>2. PICK high : high = IF low = m THEN s ELSE m
      OBVIOUS
    <3>3. low \in Ids
      BY <2>3, <3>1 DEF Yielding
    <3>4. Cas(low, W("REQUEST_SLAVE", high), W("SLAVE_FREEZE", high))
      BY <2>2, <2>5, <3>1, <3>2 DEF YieldStep
    <3>5. word[low] = W("REQUEST_SLAVE", high) => Moved(low, W("SLAVE_FREEZE", high))
      BY DEF Moved, St, Bud, W
    <3> QED
      BY <1>4, <3>3, <3>4, <3>5, CasMoves
  <2>6. CASE TakeStep(t)
    <3>1. PICK n : n = IF word[m] = W("REQUEST_SLAVE", s) THEN W("MERGE", s) ELSE word[m]
      OBVIOUS
    <3>2. \/ \E f : Fails(t, f)
          \/ /\ n.st = "SLAVE_FREEZE" \/ (n = W("MERGE", s) /\ word[s] = W("SLAVE_FREEZE", m))
             /\ word' = [word EXCEPT ![m] = n]
      BY <2>2, <2>6, <3>1 DEF TakeStep
    <3>3. ASSUME word' = [word EXCEPT ![m] = n], word[m] # W("REQUEST_SLAVE", s) PROVE OneWord
      <4>1. word \in [Ids -> WordSet] /\ n = word[m]
        BY <1>1, <3>1, <3>3 DEF Words, WordType, WordSet, Ids
      <4> QED
        BY <3>3, <4>1 DEF OneWord
    <3>4. ASSUME word' = [word EXCEPT ![m] = n], word[m] = W("REQUEST_SLAVE", s),
                 n.st = "SLAVE_FREEZE" \/ (n = W("MERGE", s) /\ word[s] = W("SLAVE_FREEZE", m))
          PROVE  OneWord
      <4>1. n = W("MERGE", s) /\ word[s] = W("SLAVE_FREEZE", m)
        BY <3>1, <3>4 DEF W
      <4>2. St(m) = "REQUEST_SLAVE" /\ Bud(m) = s
        BY <3>4 DEF St, Bud, W
      <4>3. Moved(m, n)
        BY <4>1, <4>2 DEF Moved
      <4> QED
        BY <2>3, <3>4, <4>3 DEF OneWord
    <3>5. (\E f : Fails(t, f)) => OneWord
      BY <1>3
    <3> QED
      BY <1>4, <3>2, <3>3, <3>4, <3>5
  <2> QED
    BY <1>9, <2>4, <2>5, <2>6
<1>10. CASE RepointStep(t)
  <2>1. Now(t).do = "repoint" /\ StepOK(K, Now(t))
    BY <1>10, AtIs, HeadIs DEF RepointStep
  <2>2. PICK c \in Ids : c = Now(t).c
    BY <2>1 DEF StepOK
  <2>3. PICK n : n = chunk[c].low
    OBVIOUS
  <2>4. n \in Ids
    BY <1>1, <2>1, <2>2, <2>3, ChunkTyped DEF StepOK, Related
  <2>5. PICK m : m = Bud(n)
    OBVIOUS
  <2>6. \/ UNCHANGED word
        \/ St(n) = "SLAVE_FREEZE" /\ Cas(m, W("REQUEST_SLAVE", c), W("REQUEST_SLAVE", n))
    BY <1>10, <2>2, <2>3, <2>5 DEF RepointStep
  <2>7. St(n) = "SLAVE_FREEZE" => m \in Ids
    BY <1>1, <2>4, <2>5, WordIs DEF Together
  <2>8. word[m] = W("REQUEST_SLAVE", c) => Moved(m, W("REQUEST_SLAVE", n))
    BY <2>4 DEF Moved, St, W
  <2>9. UNCHANGED word => OneWord
    BY DEF OneWord
  <2> QED
    BY <1>4, <2>6, <2>7, <2>8, <2>9, CasMoves
<1>11. CASE NormalStep(t)
  <2>1. Now(t).do = "normal" /\ StepOK(K, Now(t))
    BY <1>11, AtIs, HeadIs DEF NormalStep
  <2>2. PICK c \in Ids : c = Now(t).c
    BY <2>1 DEF StepOK
  <2>3. Cas(c, W("INFANT", Null), W("NORMAL", Null))
    BY <1>11, <2>2 DEF NormalStep
  <2>4. word[c] = W("INFANT", Null) => Moved(c, W("NORMAL", Null))
    BY DEF Moved, St, W
  <2> QED
    BY <1>4, <2>3, <2>4, CasMoves
<1> QED
  BY <1>4, <1>5, <1>6, <1>7, <1>8, <1>9, <1>10, <1>11

(***************************************************************************)
(* newChunk of a chunk changes when its replacement is installed, only.    *)
(***************************************************************************)
LowsStay == \A c \in Ids : chunk'[c].low = chunk[c].low

LEMMA LowBut ==
    ASSUME Shape, NEW c \in Ids, NEW y, chunk' = [chunk EXCEPT ![c] = y], y.low = chunk[c].low
    PROVE  LowsStay
<1>1. \A d \in Ids : chunk'[d] = IF d = c THEN y ELSE chunk[d]
  BY DEF Shape
<1> QED
  BY <1>1 DEF LowsStay

LEMMA LowCounted ==
    ASSUME Shape, NEW c \in Ids, NEW n, chunk' = [chunk EXCEPT ![c].cnt = n] PROVE LowsStay
<1>1. PICK y : y = [chunk[c] EXCEPT !.cnt = n]
  OBVIOUS
<1>2. chunk' = [chunk EXCEPT ![c] = y]
  BY <1>1
<1>3. y.low = chunk[c].low
  BY <1>1, ChunkTyped DEF ChunkRecord
<1> QED
  BY <1>2, <1>3, LowBut

LEMMA LowEntry ==
    ASSUME Shape, NEW c \in Ids, NEW e, chunk' = [chunk EXCEPT ![c].e = e] PROVE LowsStay
<1>1. PICK y : y = [chunk[c] EXCEPT !.e = e]
  OBVIOUS
<1>2. chunk' = [chunk EXCEPT ![c] = y]
  BY <1>1
<1>3. y.low = chunk[c].low
  BY <1>1, ChunkTyped DEF ChunkRecord
<1> QED
  BY <1>2, <1>3, LowBut

LEMMA LowByLink ==
    ASSUME NEW K, TreeInv(K), NEW t \in Thread, LinkStep(t) PROVE LowsStay
<1>1. Shape
  BY DEF TreeInv
<1>2. StepOK(K, Now(t)) /\ Now(t).do = "link"
  BY AtIs, HeadIs DEF LinkStep
<1>3. PICK c \in Ids : c = Now(t).c
  BY <1>2 DEF StepOK
<1>4. PICK i : i = Now(t).slot
  OBVIOUS
<1>5. CASE UNCHANGED chunk
  BY <1>5 DEF LowsStay
<1>6. CASE chunk' = [chunk EXCEPT ![c].e[i].at = "linked", ![c].cnt = IF Now(t).own THEN @ + 1 ELSE @]
  <2>1. c \in DOMAIN chunk /\ chunk[c] \in ChunkRecord
    BY <1>1, ChunkTyped DEF Shape
  <2>2. PICK x : x = chunk[c]
    OBVIOUS
  <2>3. PICK f : f = [x.e EXCEPT ![i] = [x.e[i] EXCEPT !.at = "linked"]]
    OBVIOUS
  <2>4. PICK z : z = [x EXCEPT !.e = f]
    OBVIOUS
  <2>5. PICK g : g = [chunk EXCEPT ![c].e[i].at = "linked"]
    OBVIOUS
  <2>6. g = [chunk EXCEPT ![c] = z] /\ g[c] = z
    BY <2>1, <2>2, <2>3, <2>4, <2>5
  <2>7. PICK n : n = IF Now(t).own THEN z.cnt + 1 ELSE z.cnt
    OBVIOUS
  <2>8. PICK y : y = [z EXCEPT !.cnt = n]
    OBVIOUS
  <2>9. chunk' = [g EXCEPT ![c].cnt = IF Now(t).own THEN @ + 1 ELSE @]
    BY <1>6, <2>5
  <2>10. chunk' = [g EXCEPT ![c] = y]
    BY <2>6, <2>7, <2>8, <2>9
  <2>11. chunk' = [chunk EXCEPT ![c] = y]
    BY <2>6, <2>10
  <2>12. y.low = x.low
    BY <2>1, <2>2, <2>4, <2>8 DEF ChunkRecord
  <2> QED
    BY <1>1, <2>2, <2>11, <2>12, LowBut
<1> QED
  BY <1>3, <1>4, <1>5, <1>6 DEF LinkStep, Privately, Shared

LEMMA LowByOthers ==
    ASSUME NEW K, TreeInv(K), NEW t \in Thread,
           \/ InsertStep(t) \/ PlaceStep(t) \/ DeleteStep(t) \/ CompareStep(t) \/ MarkStep(t) \/ SwapStep(t)
           \/ SettleStep(t) \/ SetRootStep(t)
    PROVE  LowsStay
<1>1. Shape
  BY DEF TreeInv
<1>2. PICK c : c = IF Now(t).do = "setRoot" THEN Now(t).new ELSE Now(t).c
  OBVIOUS
<1>3. /\ StepOK(K, Now(t))
      /\ Now(t).do \in {"insert", "place", "delete", "compare", "mark", "swap", "settle", "setRoot"}
  BY AtIs, HeadIs
  DEF InsertStep, PlaceStep, DeleteStep, CompareStep, MarkStep, SwapStep, SettleStep, SetRootStep
<1>4. c \in Ids /\ c \in DOMAIN chunk /\ chunk[c] \in ChunkRecord
  BY <1>1, <1>2, <1>3, ChunkTyped DEF StepOK, Shape
<1>5. UNCHANGED chunk => LowsStay
  BY DEF LowsStay
<1>6. CASE InsertStep(t)
  <2>1. Now(t).do = "insert"
    BY <1>6, AtIs DEF InsertStep
  <2>2. PICK k, d : k = Now(t).key /\ d = Now(t).data
    OBVIOUS
  <2>3. UNCHANGED chunk \/ \E at : chunk' = [chunk EXCEPT ![c] = Put(chunk[c], k, d, at)]
    BY <1>2, <1>6, <2>1, <2>2 DEF InsertStep, Privately, Shared
  <2>4. ASSUME NEW at PROVE Put(chunk[c], k, d, at).low = chunk[c].low
    BY <1>4 DEF Put, ChunkRecord
  <2> QED
    BY <1>1, <1>4, <1>5, <2>3, <2>4, LowBut
<1>7. CASE PlaceStep(t)
  <2>1. Now(t).do = "place"
    BY <1>7, AtIs DEF PlaceStep
  <2>2. PICK i : i = Now(t).slot
    OBVIOUS
  <2>3. PICK e : e = [chunk[c].e EXCEPT ![i].at = "free"]
    OBVIOUS
  <2>4. UNCHANGED chunk \/ chunk' = [chunk EXCEPT ![c].e[i].at = "free"]
    BY <1>2, <1>7, <2>1, <2>2 DEF PlaceStep, Privately, Shared
  <2>5. UNCHANGED chunk \/ chunk' = [chunk EXCEPT ![c].e = e]
    BY <2>3, <2>4
  <2> QED
    BY <1>1, <1>4, <1>5, <2>5, LowEntry
<1>8. CASE DeleteStep(t)
  <2>1. Now(t).do = "delete"
    BY <1>8, AtIs DEF DeleteStep
  <2>2. PICK n : n = chunk[c].cnt - 1
    OBVIOUS
  <2>3. \/ UNCHANGED chunk
        \/ chunk' = [chunk EXCEPT ![c] = Remove(chunk[c], Now(t).key)]
        \/ chunk' = [chunk EXCEPT ![c].cnt = @ - 1]
    BY <1>2, <1>8, <2>1 DEF DeleteStep, Privately, Fails, Shared
  <2>4. chunk' = [chunk EXCEPT ![c].cnt = @ - 1] => chunk' = [chunk EXCEPT ![c].cnt = n]
    BY <1>4, <2>2
  <2>5. Remove(chunk[c], Now(t).key).low = chunk[c].low
    BY <1>4 DEF Remove, ChunkRecord
  <2> QED
    BY <1>1, <1>4, <1>5, <2>3, <2>4, <2>5, LowBut, LowCounted
<1>9. CASE CompareStep(t) \/ MarkStep(t)
  <2>1. Now(t).do \in {"compare", "mark"}
    BY <1>9, AtIs DEF CompareStep, MarkStep
  <2>2. PICK n, i : n = chunk[c].cnt + 1 /\ i = hold[t].at
    OBVIOUS
  <2>3. \/ UNCHANGED chunk
        \/ chunk' = [chunk EXCEPT ![c].cnt = @ + 1]
        \/ chunk' = [chunk EXCEPT ![c].e[i].at = "deleted"]
    BY <1>2, <1>9, <2>1, <2>2 DEF CompareStep, MarkStep, Privately, Shared
  <2>4. chunk' = [chunk EXCEPT ![c].cnt = @ + 1] => chunk' = [chunk EXCEPT ![c].cnt = n]
    BY <1>4, <2>2
  <2>5. PICK e : e = [chunk[c].e EXCEPT ![i].at = "deleted"]
    OBVIOUS
  <2>6. chunk' = [chunk EXCEPT ![c].e[i].at = "deleted"] => chunk' = [chunk EXCEPT ![c].e = e]
    BY <2>5
  <2> QED
    BY <1>1, <1>4, <1>5, <2>3, <2>4, <2>6, LowCounted, LowEntry
<1>10. CASE SwapStep(t)
  <2>1. Now(t).do = "swap"
    BY <1>10, AtIs DEF SwapStep
  <2>2. PICK i : i = Now(t).slot
    OBVIOUS
  <2>3. PICK e : e = [chunk[c].e EXCEPT ![i].data = Now(t).data]
    OBVIOUS
  <2>4. UNCHANGED chunk \/ chunk' = [chunk EXCEPT ![c].e[i].data = Now(t).data]
    BY <1>2, <1>10, <2>1, <2>2 DEF SwapStep, Privately, Shared
  <2>5. UNCHANGED chunk \/ chunk' = [chunk EXCEPT ![c].e = e]
    BY <2>3, <2>4
  <2> QED
    BY <1>1, <1>4, <1>5, <2>5, LowEntry
<1>11. CASE SettleStep(t)
  <2>1. Now(t).do = "settle"
    BY <1>11, AtIs DEF SettleStep
  <2>2. PICK y : y = [chunk[c] EXCEPT !.frozen = TRUE]
    OBVIOUS
  <2>3. chunk' = [chunk EXCEPT ![c].frozen = TRUE]
    BY <1>2, <1>11, <2>1 DEF SettleStep
  <2>4. chunk' = [chunk EXCEPT ![c] = y] /\ y.low = chunk[c].low
    BY <1>4, <2>2, <2>3 DEF ChunkRecord
  <2> QED
    BY <1>1, <1>4, <2>4, LowBut
<1>12. CASE SetRootStep(t)
  <2>1. Now(t).do = "setRoot"
    BY <1>12, AtIs DEF SetRootStep
  <2>2. PICK y : y = [chunk[c] EXCEPT !.root = TRUE]
    OBVIOUS
  <2>3. chunk' = [chunk EXCEPT ![c].root = TRUE]
    BY <1>2, <1>12, <2>1 DEF SetRootStep
  <2>4. chunk' = [chunk EXCEPT ![c] = y] /\ y.low = chunk[c].low
    BY <1>4, <2>2, <2>3 DEF ChunkRecord
  <2> QED
    BY <1>1, <1>4, <2>4, LowBut
<1> QED
  BY <1>6, <1>7, <1>8, <1>9, <1>10, <1>11, <1>12

\* the words of the chunks in use, and their replacements
LEMMA OneFollows ==
    ASSUME Shape, Words, UNCHANGED top, OneWord, LowsStay
    PROVE  UNCHANGED <<AllWords, AllNew>> \/ Protocol!Next
<1>1. \A c \in ChunkId : c <= top => c \in Ids
  BY AllAre
<1>2. AllNew' = AllNew
  <2>1. AllNew' = [c \in ChunkId |-> IF c <= top THEN chunk'[c].low ELSE Null]
    BY DEF AllNew
  <2> QED
    BY <1>1, <2>1 DEF AllNew, LowsStay
<1>3. CASE UNCHANGED word
  <2>1. AllWords' = [c \in ChunkId |-> IF c <= top THEN word'[c] ELSE W("UNUSED", Null)]
    BY DEF AllWords
  <2> QED
    BY <1>2, <1>3, <2>1 DEF AllWords
<1>4. CASE \E c \in Ids : \E n : Moved(c, n) /\ word' = [word EXCEPT ![c] = n]
  <2>1. PICK c \in Ids : \E n : Moved(c, n) /\ word' = [word EXCEPT ![c] = n]
    BY <1>4
  <2>7. PICK n : Moved(c, n) /\ word' = [word EXCEPT ![c] = n]
    BY <2>1
  <2>2. c \in ChunkId /\ c <= top
    BY AllAre
  <2>3. word \in [Ids -> WordSet]
    BY DEF Words, WordType, WordSet, Ids
  <2>4. AllWords' = [d \in ChunkId |-> IF d <= top THEN word'[d] ELSE W("UNUSED", Null)]
    BY DEF AllWords
  <2>5. ASSUME NEW d \in ChunkId PROVE AllWords'[d] = [AllWords EXCEPT ![c] = n][d]
    <3>1. AllWords'[d] = IF d <= top THEN word'[d] ELSE W("UNUSED", Null)
      BY <2>4
    <3>2. AllWords[d] = IF d <= top THEN word[d] ELSE W("UNUSED", Null)
      BY DEF AllWords
    <3>3. [AllWords EXCEPT ![c] = n][d] = IF d = c THEN n ELSE AllWords[d]
      BY DEF AllWords
    <3>4. d <= top => word'[d] = IF d = c THEN n ELSE word[d]
      BY <1>1, <2>7, <2>3
    <3> QED
      BY <2>2, <3>1, <3>2, <3>3, <3>4
  <2>6. AllWords' = [AllWords EXCEPT ![c] = n]
    BY <2>4, <2>5 DEF AllWords
  <2> QED
    BY <1>2, <2>6, <2>7, MovedFollows
<1> QED
  BY <1>3, <1>4 DEF OneWord

(***************************************************************************)
(* New chunks: a root, and the replacements of a chunk.                    *)
(***************************************************************************)
LEMMA RootFollows ==
    ASSUME Shape, Words, NEW a \in ChunkId \ Ids,
           AllWords' = [AllWords EXCEPT ![a] = W("NORMAL", Null)], UNCHANGED AllNew
    PROVE  Protocol!Next
<1>1. AllWords[a] = W("UNUSED", Null)
  BY AllAre
<1>2. [d \in ChunkId |-> IF d <= top THEN word[d] ELSE W("UNUSED", Null)][a] = W("UNUSED", Null)
  BY <1>1 DEF AllWords
<1>3. /\ Protocol!Set(a, W("NORMAL", Null))
      /\ UNCHANGED [d \in ChunkId |-> IF d <= top THEN chunk[d].low ELSE Null]
  BY DEF Protocol!Set, AllWords, AllNew
<1>4. Protocol!NewRoot(a)
  BY <1>2, <1>3 DEF Protocol!NewRoot, Protocol!W, W
<1> QED
  BY <1>4 DEF Protocol!Next

LEMMA ReplaceFollows ==
    ASSUME Shape, Words, NEW c \in Ids, St(c) \in {"COPY", "SPLIT", "MERGE"}, chunk[c].low = Null,
           NEW a \in ChunkId \ Ids, NEW b \in ChunkId \ Ids,
           AllWords' = [AllWords EXCEPT ![a] = W("INFANT", Null), ![b] = W("INFANT", Null)],
           AllNew' = [AllNew EXCEPT ![c] = a]
    PROVE  Protocol!Next
<1>1. c \in ChunkId /\ AllWords[c] = word[c] /\ AllNew[c] = Null
  BY AllAre
<1>2. Protocol!Unused = ChunkId \ Ids
  BY UsedAre
<1>3. [d \in ChunkId |-> IF d <= top THEN word[d] ELSE W("UNUSED", Null)][c] = word[c]
  BY <1>1 DEF AllWords
<1>4. [d \in ChunkId |-> IF d <= top THEN chunk[d].low ELSE Null][c] = Null
  BY <1>1 DEF AllNew
<1>5. /\ [d \in ChunkId |-> IF d <= top THEN word[d] ELSE W("UNUSED", Null)]'
           = [[d \in ChunkId |-> IF d <= top THEN word[d] ELSE W("UNUSED", Null)]
                EXCEPT ![a] = Protocol!W("INFANT", Null), ![b] = Protocol!W("INFANT", Null)]
      /\ [d \in ChunkId |-> IF d <= top THEN chunk[d].low ELSE Null]'
           = [[d \in ChunkId |-> IF d <= top THEN chunk[d].low ELSE Null] EXCEPT ![c] = a]
  BY DEF AllWords, AllNew, Protocol!W, W
<1>6. Protocol!Replace(c)
  BY <1>2, <1>3, <1>4, <1>5 DEF Protocol!Replace, St
<1> QED
  BY <1>1, <1>6 DEF Protocol!Next

LEMMA EnslavedFollows ==
    ASSUME Shape, Words, NEW c \in Ids, St(c) = "COPY", chunk[c].low = Null,
           NEW a \in ChunkId \ Ids, NEW m \in Ids,
           AllWords' = [AllWords EXCEPT ![a] = W("SLAVE_FREEZE", m)],
           AllNew' = [AllNew EXCEPT ![c] = a]
    PROVE  Protocol!Next
<1>1. c \in ChunkId /\ AllWords[c] = word[c] /\ AllNew[c] = Null
  BY AllAre
<1>2. Protocol!Unused = ChunkId \ Ids /\ Protocol!Used = Ids
  BY UsedAre
<1>3. [d \in ChunkId |-> IF d <= top THEN word[d] ELSE W("UNUSED", Null)][c] = word[c]
  BY <1>1 DEF AllWords
<1>4. [d \in ChunkId |-> IF d <= top THEN chunk[d].low ELSE Null][c] = Null
  BY <1>1 DEF AllNew
<1>5. /\ Protocol!Set(a, Protocol!W("SLAVE_FREEZE", m))
      /\ [d \in ChunkId |-> IF d <= top THEN chunk[d].low ELSE Null]'
           = [[d \in ChunkId |-> IF d <= top THEN chunk[d].low ELSE Null] EXCEPT ![c] = a]
  BY DEF AllWords, AllNew, Protocol!Set, Protocol!W, W
<1>6. Protocol!ReplaceEnslaved(c)
  BY <1>2, <1>3, <1>4, <1>5 DEF Protocol!ReplaceEnslaved, St
<1> QED
  BY <1>1, <1>6 DEF Protocol!Next

LEMMA NewRootFollows ==
    ASSUME NEW K \in BOOLEAN, TreeInv(K), ChunksListed, NEW t \in Thread, NewRootStep(t)
    PROVE  UNCHANGED <<AllWords, AllNew>> \/ Protocol!Next
<1>1. Shape /\ Words
  BY DEF TreeInv
<1>2. CASE UNCHANGED <<top, chunk, word>>
  BY <1>2 DEF AllWords, AllNew
<1>3. CASE ~UNCHANGED <<top, chunk, word>>
  <2>1. StepOK(K, Now(t)) /\ Now(t).do = "newRoot"
    BY AtIs, HeadIs DEF NewRootStep
  <2>2. PICK c \in Ids : c = Now(t).c
    BY <2>1 DEF StepOK
  <2>3. PICK sons, h : /\ sons = <<[key |-> Now(t).sep, data |-> LowNew(c), at |-> "linked"],
                                   [key |-> MaxKey, data |-> HighNew(c), at |-> "linked"]>>
                       /\ h = chunk[c].height + 1
    OBVIOUS
  <2>4. PICK x : x = Chunk(sons, h, TRUE, Null, t)
    OBVIOUS
  <2>5. /\ top < MaxChunks /\ top' = top + 1 /\ chunk' = Append(chunk, x)
        /\ word' = Append(word, W("NORMAL", Null))
    BY <1>3, <2>2, <2>3, <2>4 DEF NewRootStep
  <2>6. x.low = Null
    BY <2>4 DEF Chunk
  <2>7. PICK n \in Nat : n = top
    BY <1>1, StartsAssumption DEF Shape, ChunkId
  <2>8. n + 1 \in ChunkId \ Ids /\ MaxChunks \in Nat
    BY <1>1, <2>5, <2>7, StartsAssumption DEF Shape, ChunkId, Ids
  <2>9. (\A d \in Ids : chunk'[d] = chunk[d]) /\ chunk'[n + 1] = x
    <3>1. PICK S : S = ChunkRecord \cup {x}
      OBVIOUS
    <3>2. PICK s : s = chunk
      OBVIOUS
    <3>3. s \in [1 .. n -> S] /\ x \in S
      BY <1>1, <2>7, <3>1, <3>2, ChunkTyped DEF ChunksListed, Ids
    <3>4. PICK z : z = Longer(s, x)
      OBVIOUS
    <3>5. Lengthens(S, n, s, x, z)
      BY <2>7, <3>3, <3>4, Appended
    <3> QED
      BY <2>5, <2>7, <3>2, <3>4, <3>5 DEF Longer, Lengthens, Ids
  <2>10. (\A d \in Ids : word'[d] = word[d]) /\ word'[n + 1] = W("NORMAL", Null)
    <3>1. PICK w : w = W("NORMAL", Null)
      OBVIOUS
    <3>2. PICK S : S = WordSet \cup {w}
      OBVIOUS
    <3>3. PICK s : s = word
      OBVIOUS
    <3>4. s \in [1 .. n -> S] /\ w \in S
      <4>1. word \in [Ids -> WordSet]
        BY <1>1 DEF Words, WordType, WordSet, Ids
      <4> QED
        BY <2>7, <3>2, <3>3, <4>1 DEF Ids
    <3>5. PICK z : z = Longer(s, w)
      OBVIOUS
    <3>6. Lengthens(S, n, s, w, z)
      BY <2>7, <3>4, <3>5, Appended
    <3> QED
      BY <2>5, <2>7, <3>1, <3>3, <3>5, <3>6 DEF Longer, Lengthens, Ids
  <2>11. ASSUME NEW d \in ChunkId PROVE (d <= top' <=> d \in Ids \/ d = n + 1) /\ (d <= top <=> d \in Ids)
    BY <2>5, <2>7, <2>8 DEF ChunkId, Ids
  <2>12. AllWords' = [AllWords EXCEPT ![n + 1] = W("NORMAL", Null)]
    <3>1. AllWords' = [d \in ChunkId |-> IF d <= top' THEN word'[d] ELSE W("UNUSED", Null)]
      BY DEF AllWords
    <3>2. ASSUME NEW d \in ChunkId PROVE AllWords'[d] = IF d = n + 1 THEN W("NORMAL", Null) ELSE AllWords[d]
      <4>1. AllWords'[d] = IF d <= top' THEN word'[d] ELSE W("UNUSED", Null)
        BY <3>1
      <4>2. AllWords[d] = IF d <= top THEN word[d] ELSE W("UNUSED", Null)
        BY DEF AllWords
      <4> QED
        BY <2>8, <2>10, <2>11, <4>1, <4>2
    <3> QED
      BY <3>1, <3>2 DEF AllWords
  <2>13. AllNew' = AllNew
    <3>1. AllNew' = [d \in ChunkId |-> IF d <= top' THEN chunk'[d].low ELSE Null]
      BY DEF AllNew
    <3>2. ASSUME NEW d \in ChunkId PROVE AllNew'[d] = AllNew[d]
      <4>1. AllNew'[d] = IF d <= top' THEN chunk'[d].low ELSE Null
        BY <3>1
      <4>2. AllNew[d] = IF d <= top THEN chunk[d].low ELSE Null
        BY DEF AllNew
      <4> QED
        BY <2>6, <2>8, <2>9, <2>11, <4>1, <4>2
    <3> QED
      BY <3>1, <3>2 DEF AllNew
  <2> QED
    BY <1>1, <2>8, <2>12, <2>13, RootFollows
<1> QED
  BY <1>2, <1>3

LEMMA InstallFollows ==
    ASSUME NEW K \in BOOLEAN, TreeInv(K), NEW t \in Thread, InstallStep(t)
    PROVE  UNCHANGED <<AllWords, AllNew>> \/ Protocol!Next
<1>1. Shape /\ Words
  BY DEF TreeInv
<1>2. StepOK(K, Now(t)) /\ Now(t).do = "install"
  BY AtIs, HeadIs DEF InstallStep
<1>3. PICK c \in Ids : c = Now(t).c
  BY <1>2 DEF StepOK
<1>4. PICK dec \in {"COPY", "SPLIT", "MERGE"} : dec = Now(t).dec
  BY <1>2 DEF StepOK
<1>5. PICK new : new = Now(t).new
  OBVIOUS
<1>6. St(c) = dec /\ ReplacementOK(K, c, dec, new)
  BY <1>2, <1>3, <1>4, <1>5 DEF StepOK
<1>7. PICK two \in BOOLEAN : two = new.two
  BY <1>6 DEF ReplacementOK
<1>8. CASE chunk[c].low # Null
  <2>1. UNCHANGED <<top, chunk, word>>
    BY <1>3, <1>8 DEF InstallStep, Privately, Shared
  <2> QED
    BY <2>1 DEF AllWords, AllNew
<1>9. CASE chunk[c].low = Null
  <2>1. PICK a, b, m : /\ a = top + 1
                       /\ b = IF two THEN top + 2 ELSE top + 1
                       /\ m = IF two THEN top + 2 ELSE top + 1
    OBVIOUS
  <2>2. PICK n : n = IF two THEN top + 2 ELSE Null
    OBVIOUS
  <2>3. PICK y1, x2 : y1 = [new.low EXCEPT !.next = n] /\ x2 = new.high
    OBVIOUS
  <2>4. PICK v : v = IF new.master # Null THEN W("SLAVE_FREEZE", new.master) ELSE W("INFANT", Null)
    OBVIOUS
  <2>5. /\ top + 2 <= MaxChunks /\ top' = m
        /\ chunk' = [d \in 1 .. m |-> IF d = c THEN [chunk[c] EXCEPT !.low = a]
                                      ELSE IF d <= top THEN chunk[d]
                                      ELSE IF d = a THEN y1 ELSE x2]
        /\ word' = [d \in 1 .. m |-> IF d <= top THEN word[d]
                                     ELSE IF d = a /\ new.master # Null THEN W("SLAVE_FREEZE", new.master)
                                     ELSE W("INFANT", Null)]
    BY <1>3, <1>5, <1>7, <1>9, <2>1, <2>2, <2>3 DEF InstallStep
  <2>6. PICK k \in Nat : k = top /\ k + 2 <= MaxChunks /\ MaxChunks \in Nat
    BY <1>1, <2>5, StartsAssumption DEF Shape, ChunkId
  <2>7. a \in ChunkId \ Ids /\ b \in ChunkId \ Ids /\ (two => b # a) /\ (~two => b = a)
    BY <2>1, <2>6 DEF ChunkId, Ids
  <2>8. ASSUME NEW d \in ChunkId
        PROVE  /\ d <= m <=> (d \in Ids \/ d = a \/ d = b)
               /\ d <= m <=> d \in 1 .. m
               /\ d <= top <=> d \in Ids
    BY <2>1, <2>6 DEF ChunkId, Ids
  <2>9. /\ y1.low = Null /\ (two => x2.low = Null)
        /\ new.master # Null => dec = "COPY" /\ new.master \in Ids /\ ~two
    <3>1. new.low \in ChunkRecord /\ new.low.low = Null /\ (two => x2.low = Null)
      BY <1>6, <1>7, <2>3 DEF ReplacementOK, NewOK, Sound
    <3>2. y1.low = Null
      BY <2>3, <3>1 DEF ChunkRecord
    <3>3. new.master # Null => dec = "COPY" /\ new.master \in Ids /\ ~two
      BY <1>6, <1>7 DEF ReplacementOK
    <3> QED
      BY <3>1, <3>2, <3>3
  <2>10. AllNew' = [AllNew EXCEPT ![c] = a]
    <3>1. AllNew' = [d \in ChunkId |-> IF d <= m THEN chunk'[d].low ELSE Null]
      BY <2>5 DEF AllNew
    <3>2. ASSUME NEW d \in ChunkId PROVE AllNew'[d] = IF d = c THEN a ELSE AllNew[d]
      <4>1. AllNew'[d] = IF d <= m THEN chunk'[d].low ELSE Null
        BY <3>1
      <4>2. AllNew[d] = IF d <= top THEN chunk[d].low ELSE Null
        BY DEF AllNew
      <4>3. CASE d = c
        <5>1. d \in 1 .. m /\ d <= m
          BY <2>8, <4>3
        <5>2. chunk'[d] = [chunk[c] EXCEPT !.low = a]
          BY <2>5, <4>3, <5>1
        <5>3. chunk'[d].low = a
          BY <1>1, <5>2, ChunkTyped DEF ChunkRecord
        <5> QED
          BY <4>1, <4>3, <5>1, <5>3
      <4>4. CASE d \in Ids /\ d # c
        <5>1. chunk'[d] = chunk[d]
          BY <2>5, <2>8, <4>4
        <5> QED
          BY <2>8, <4>1, <4>2, <4>4, <5>1
      <4>5. CASE d = a \/ d = b
        <5>1. chunk'[d] = IF d = a THEN y1 ELSE x2
          BY <2>5, <2>7, <2>8, <4>5
        <5>2. chunk'[d].low = Null
          BY <2>7, <2>9, <4>5, <5>1
        <5> QED
          BY <2>7, <2>8, <4>1, <4>2, <4>5, <5>2
      <4>6. CASE d \notin Ids /\ d # a /\ d # b
        BY <2>8, <4>1, <4>2, <4>6
      <4> QED
        BY <4>3, <4>4, <4>5, <4>6
    <3> QED
      BY <3>1, <3>2 DEF AllNew
  <2>11. ASSUME NEW d \in ChunkId
         PROVE  AllWords'[d] = IF d = a THEN v ELSE IF d = b THEN W("INFANT", Null) ELSE AllWords[d]
    <3>1. AllWords' = [e \in ChunkId |-> IF e <= m THEN word'[e] ELSE W("UNUSED", Null)]
      BY <2>5 DEF AllWords
    <3>2. AllWords'[d] = IF d <= m THEN word'[d] ELSE W("UNUSED", Null)
      BY <3>1
    <3>3. AllWords[d] = IF d <= top THEN word[d] ELSE W("UNUSED", Null)
      BY DEF AllWords
    <3>4. CASE d \in Ids
      <4>1. word'[d] = word[d]
        BY <2>5, <2>8, <3>4
      <4> QED
        BY <2>7, <2>8, <3>2, <3>3, <3>4, <4>1
    <3>5. CASE d = a \/ d = b
      <4>1. word'[d] = IF d = a THEN v ELSE W("INFANT", Null)
        BY <2>4, <2>5, <2>7, <2>8, <3>5
      <4> QED
        BY <2>7, <2>8, <3>2, <3>5, <4>1
    <3>6. CASE d \notin Ids /\ d # a /\ d # b
      BY <2>8, <3>2, <3>3, <3>6
    <3> QED
      BY <3>4, <3>5, <3>6
  <2>12. AllWords' = [d \in ChunkId |-> AllWords'[d]]
    BY DEF AllWords
  <2>13. CASE new.master = Null
    <3>1. AllWords' = [AllWords EXCEPT ![a] = W("INFANT", Null), ![b] = W("INFANT", Null)]
      BY <2>4, <2>7, <2>11, <2>12, <2>13 DEF AllWords
    <3> QED
      BY <1>1, <1>6, <1>9, <2>7, <2>10, <3>1, ReplaceFollows
  <2>14. CASE new.master # Null
    <3>1. PICK s \in Ids : s = new.master
      BY <2>9, <2>14
    <3>2. b = a /\ v = W("SLAVE_FREEZE", s) /\ St(c) = "COPY"
      BY <1>6, <2>4, <2>7, <2>9, <2>14, <3>1
    <3>3. AllWords' = [AllWords EXCEPT ![a] = W("SLAVE_FREEZE", s)]
      BY <2>7, <2>11, <2>12, <3>2 DEF AllWords
    <3> QED
      BY <1>1, <1>9, <2>7, <2>10, <3>2, <3>3, EnslavedFollows
  <2> QED
    BY <2>13, <2>14
<1> QED
  BY <1>8, <1>9

LEMMA StepFollows ==
    ASSUME Always(FALSE), NEW t \in Thread, Step(t)
    PROVE  UNCHANGED <<AllWords, AllNew>> \/ Protocol!Next
<1>1. TreeInv(FALSE) /\ ChunksListed /\ Shape /\ Words /\ FALSE \in BOOLEAN
  BY DEF Always, TreeInv
<1>2. CASE InstallStep(t)
  BY <1>1, <1>2, InstallFollows
<1>3. CASE NewRootStep(t)
  BY <1>1, <1>3, NewRootFollows
<1>4. CASE ~InstallStep(t) /\ ~NewRootStep(t)
  <2>1. UNCHANGED chunk => LowsStay
    BY DEF LowsStay
  <2>2. LowsStay
    BY <1>1, <1>4, <2>1, ChunksAlone, LowByLink, LowByOthers DEF Step
  <2>3. UNCHANGED <<top, word>> => UNCHANGED top /\ OneWord
    BY DEF OneWord
  <2>4. UNCHANGED top /\ OneWord
    BY <1>1, <1>4, <2>3, WordsAlone, WordsMove DEF Step
  <2> QED
    BY <1>1, <2>2, <2>4, OneFollows
<1> QED
  BY <1>2, <1>3, <1>4

LEMMA InitFollows ==
    ASSUME Init PROVE Protocol!Init
<1>1. Shape /\ ChunksListed /\ Words /\ \A c \in Ids : chunk[c].low = Null
  <2>1. PICK s \in Starts : chunk = s.chunk
    BY DEF Init
  <2>2. WellFormed(s)
    BY StartsAssumption
  <2>3. Shape /\ ChunksListed /\ DOMAIN chunk = Ids
    BY InitShape DEF Shape
  <2> QED
    BY <2>1, <2>2, <2>3, InitWords DEF WellFormed
<1>2. \A c \in Ids : word[c] = W("NORMAL", Null)
  BY <1>1 DEF Init, Shape
<1>3. \A c \in ChunkId : AllWords[c] \in {W("NORMAL", Null), W("UNUSED", Null)} /\ AllNew[c] = Null
  BY <1>1, <1>2, AllAre
<1>4. /\ AllWords \in [ChunkId -> {W("NORMAL", Null), W("UNUSED", Null)}]
      /\ AllNew = [c \in ChunkId |-> Null]
  BY <1>3 DEF AllWords, AllNew
<1> QED
  BY <1>4 DEF Protocol!Init, Protocol!W, W, AllWords, AllNew

(***************************************************************************)
(* The words follow the protocol of MergeWords, whatever the threads do    *)
(* and whatever trees, sizes and calls there are: a step changes one word  *)
(* as a step of MergeWords does, or brings new chunks into use, or leaves  *)
(* all words and replacements as they are.                                 *)
(***************************************************************************)
THEOREM WordsFollowProtocol == Spec => FollowsProtocol
<1>1. Init => Protocol!Init
  BY InitFollows
<1>2. Always(FALSE) /\ [Next]_vars => [Protocol!Next]_(Protocol!words)
  <2> SUFFICES ASSUME Always(FALSE), [Next]_vars
               PROVE  UNCHANGED <<AllWords, AllNew>> \/ Protocol!Next
    BY DEF Protocol!words, AllWords, AllNew
  <2>1. CASE UNCHANGED vars
    BY <2>1 DEF vars, AllWords, AllNew
  <2>2. CASE \E t \in Thread : Step(t)
    BY <2>2, StepFollows
  <2> QED
    BY <2>1, <2>2 DEF Next, AllDone
<1> QED
  BY <1>1, <1>2, AlwaysInv, PTL DEF Spec, FollowsProtocol, Protocol!Spec
===============================================================================
