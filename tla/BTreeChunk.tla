------------------------------ MODULE BTreeChunk ------------------------------
(***************************************************************************)
(* The chunks the tree is made of, and what is computed from them without  *)
(* regard to other threads: the place of a key in a chunk (find), the      *)
(* replacement of a frozen chunk or of two merge partners                  *)
(* (copyToOneChunk, splitIntoTwoChunks, mergeToOneChunk, mergeToTwoChunks) *)
(* and a call performed in a replacement that nobody else knows yet.       *)
(*                                                                         *)
(* The list of a chunk is abstract here: ChunkList is about how it is kept *)
(* by single words.  A slot of the entries array is free, or holds a key   *)
(* and its data, and is pending (allocated, not in the list), linked or    *)
(* deleted.  Deleted entries are not reused, see handleReclamationBuffer.  *)
(* The data of an inner chunk's entry is the son; that of a leaf's entry   *)
(* tells, for the properties, which thread's insert it stems from.         *)
(***************************************************************************)
EXTENDS Integers, Sequences, FiniteSets

CONSTANTS
    MaxEntries, MinEntries,   \* MAX_ENTRIES and MIN_ENTRIES
    MaxKey                    \* MAX_KEY

\* "algorithm requirement" (assertConfig)
ASSUME SizeAssumption ==
    /\ MaxEntries \in Nat /\ MinEntries \in Nat \ {0}
    /\ MaxEntries >= 2 * MinEntries + 6
    /\ MaxKey \in Nat \ {0}

Key  == 1 .. MaxKey
Null == 0

Chunk(list, height, isRoot, creator, by) ==
    [e       |-> [i \in DOMAIN list |-> [list[i] EXCEPT !.at = "linked"]],
     cnt     |-> Len(list),       \* counter
     height  |-> height,
     root    |-> isRoot,          \* the flag, not btree->root
     frozen  |-> FALSE,           \* markChunkFrozen has been through
     low     |-> Null,            \* newChunk
     next    |-> Null,            \* nextChunk
     creator |-> creator,
     by      |-> by]              \* the thread that built it
-----------------------------------------------------------------------------
Linked(x)  == {i \in DOMAIN x.e : x.e[i].at = "linked"}
Pending(x) == {i \in DOMAIN x.e : x.e[i].at = "pending"}
KeysIn(x)  == {x.e[i].key : i \in Linked(x)}

\* the order of the list
Precedes(x, i, j) == x.e[i].key < x.e[j].key \/ (x.e[i].key = x.e[j].key /\ i < j)

\* find: cur is the first entry whose key is not below k, prev the last below
CurOf(x, k) ==
    LET from == {i \in Linked(x) : x.e[i].key >= k}
    IN  IF from = {} THEN Null ELSE CHOOSE i \in from : \A j \in from \ {i} : Precedes(x, i, j)
PrevOf(x, k) ==
    LET upTo == {i \in Linked(x) : x.e[i].key < k}
    IN  IF upTo = {} THEN Null ELSE CHOOSE i \in upTo : \A j \in upTo \ {i} : Precedes(x, j, i)

Has(x, k) == CurOf(x, k) # Null /\ x.e[CurOf(x, k)].key = k

FirstKey(x) == x.e[CurOf(x, 1)].key
LastKey(x)  == x.e[PrevOf(x, MaxKey + 1)].key       \* findMaxKeyInChunk
EntrNum(x)  == Cardinality(Linked(x))

ListOf(x) ==
    LET Before(i) == Cardinality({j \in Linked(x) : Precedes(x, j, i)})
    IN  [n \in 1 .. EntrNum(x) |-> x.e[CHOOSE i \in Linked(x) : Before(i) = n - 1]]

\* allocateEntry: the first available entry
Room(x) == Len(x.e) < MaxEntries \/ \E i \in DOMAIN x.e : x.e[i].at = "free"
FreeSlot(x) ==
    IF \E i \in DOMAIN x.e : x.e[i].at = "free"
    THEN CHOOSE i \in DOMAIN x.e : x.e[i].at = "free" /\ \A j \in 1 .. i - 1 : x.e[j].at # "free"
    ELSE Len(x.e) + 1

Put(x, k, d, at) ==
    LET ent == [key |-> k, data |-> d, at |-> at]
        i   == FreeSlot(x)
    IN  [x EXCEPT !.e   = IF i > Len(x.e) THEN Append(@, ent) ELSE [@ EXCEPT ![i] = ent],
                  !.cnt = IF at = "linked" THEN @ + 1 ELSE @]

Remove(x, k) == [x EXCEPT !.e[CurOf(x, k)].at = "deleted", !.cnt = @ - 1]

\* decCount
OneTooFew(x)    == x.cnt # MinEntries - 1 \/ x.root       \* a wrong version
MayDecrement(x) == x.cnt # MinEntries \/ x.root

Decision(x) ==
    IF EntrNum(x) = MinEntries /\ ~x.root THEN "MERGE"
    ELSE IF EntrNum(x) = MaxEntries THEN "SPLIT" ELSE "COPY"
-----------------------------------------------------------------------------
(***************************************************************************)
(* A replacement: one chunk or two, the key that separates them, and the   *)
(* master that the first one is born enslaved to.                          *)
(***************************************************************************)
CopyOf(x, c, by) ==
    [low |-> Chunk(ListOf(x), x.height, x.root, c, by),
     two |-> FALSE, sep |-> MaxKey, master |-> Null]

Median(n) == (n - 1) \div 2 + 1

\* splitIntoTwoChunks, mergeToTwoChunks
NextSeparates(list, height, c, by) ==                     \* a wrong version
    LET m == Median(Len(list))
    IN  [low  |-> Chunk(SubSeq(list, 1, m), height, FALSE, c, by),
         high |-> Chunk(SubSeq(list, m + 1, Len(list)), height, FALSE, c, by),
         two  |-> TRUE, sep |-> list[m + 1].key, master |-> Null]
TwoOf(list, height, c, by) ==
    LET m == Median(Len(list))
    IN  [low  |-> Chunk(SubSeq(list, 1, m), height, FALSE, c, by),
         high |-> Chunk(SubSeq(list, m + 1, Len(list)), height, FALSE, c, by),
         two  |-> TRUE, sep |-> list[m].key, master |-> Null]

MergeOf(x, y, c, by) ==
    LET list == ListOf(x) \o ListOf(y)
    IN  IF Len(list) >= MaxEntries THEN TwoOf(list, x.height, c, by)
        ELSE [low |-> Chunk(list, x.height, FALSE, c, by),
              two |-> FALSE, sep |-> MaxKey, master |-> Null]

\* shouldMove: partner[s] is the merge partner of son s
BothPartners(partner, leftleft, left, right) ==           \* a wrong version
    IF partner[left] = right \/ partner[right] = left THEN 2 ELSE 0
ShouldMove(partner, leftleft, left, right) ==
    CASE partner[left] = right                            -> 1
      [] partner[left] = Null /\ partner[right] = left    -> IF partner[leftleft] = left THEN 2 ELSE 1
      [] OTHER                                            -> 0

\* moveEntryFromFirstToSecond; the second entry moved is linked past the first
Move(p, n) ==
    LET last  == Len(p.low.e)
        moved == IF n = 1 THEN <<p.low.e[last]>>
                 ELSE <<[p.low.e[last] EXCEPT !.at = "pending"], p.low.e[last - 1]>>
        low   == [p.low EXCEPT !.e = SubSeq(@, 1, last - n), !.cnt = @ - n]
    IN  IF n = 0 THEN p
        ELSE [p EXCEPT !.low = low, !.sep = LastKey(low),
                       !.high.e = @ \o moved, !.high.cnt = @ + n]

\* two new inner chunks do not separate a master from its slave
ToMove(p, partner) ==
    LET last == Len(p.low.e)
    IN  IF ~p.two \/ p.low.height = 0 THEN 0
        ELSE ShouldMove(partner, p.low.e[last - 1].data, p.low.e[last].data, p.high.e[1].data)

Shifted(p, partner) == Move(p, ToMove(p, partner))
-----------------------------------------------------------------------------
(***************************************************************************)
(* A call in a replacement: trigger, key, expected data and data.  A call  *)
(* that would have to freeze the new chunk fails its assertions ("asserts" *)
(* FALSE).  `fit` tells whether the son to be inserted is not frozen.      *)
(***************************************************************************)
NoCall == [trigger |-> "NONE", key |-> 0, exp |-> 0, data |-> 0]

Outcome(x, result) == [x |-> x, result |-> result, asserts |-> TRUE]
Failure(x)         == [x |-> x, result |-> FALSE, asserts |-> FALSE]

InsertIn(x, w, fit) ==
    IF ~Room(x) THEN Failure(x)
    ELSE IF Has(x, w.key) THEN Outcome(x, FALSE)
    ELSE Outcome(Put(x, w.key, w.data, IF fit THEN "linked" ELSE "pending"), TRUE)

DeleteIn(x, w) ==
    IF ~MayDecrement(x) THEN Failure(x)
    ELSE IF ~Has(x, w.key) THEN Outcome(x, FALSE)
    ELSE IF x.height # 0 /\ x.e[CurOf(x, w.key)].data # w.data
         THEN Outcome([x EXCEPT !.cnt = @ - 1], TRUE)      \* no incCount
    ELSE Outcome(Remove(x, w.key), TRUE)

SwapIn(x, w) ==
    IF Has(x, w.key) /\ x.e[CurOf(x, w.key)].data = w.exp
    THEN Outcome([x EXCEPT !.e[CurOf(x, w.key)].data = w.data], TRUE)
    ELSE Outcome(x, FALSE)

InLow(p, o)  == [new |-> [p EXCEPT !.low = o.x], result |-> o.result, asserts |-> o.asserts]
InHigh(p, o) == [new |-> [p EXCEPT !.high = o.x], result |-> o.result, asserts |-> o.asserts]

Perform(p, w, decision, fit) ==
    CASE w.trigger = "INSERT" ->
            IF p.two /\ w.key > p.sep THEN InHigh(p, InsertIn(p.high, w, fit))
            ELSE InLow(p, InsertIn(p.low, w, fit))
      [] w.trigger = "DELETE" ->
            LET first == DeleteIn(p.low, w)
            IN  IF first.result \/ ~first.asserts \/ ~p.two THEN InLow(p, first)
                ELSE InHigh([p EXCEPT !.low = first.x], DeleteIn(p.high, w))
      [] w.trigger = "SWAP" ->
            IF w.key <= p.sep THEN InLow(p, SwapIn(p.low, w)) ELSE InHigh(p, SwapIn(p.high, w))
      [] w.trigger = "ENSLAVE" /\ decision = "COPY" ->
            [new |-> [p EXCEPT !.master = w.data, !.low.frozen = TRUE], result |-> FALSE,
             asserts |-> TRUE]
      [] OTHER -> [new |-> p, result |-> FALSE, asserts |-> TRUE]
===============================================================================
