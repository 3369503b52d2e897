----------------------------- MODULE ChunkRebuild -----------------------------
(***************************************************************************)
(* freezeRecovery (chunkAlgorithm.c): every thread that comes out of the   *)
(* freeze of a chunk builds a replacement of its own from the settled list *)
(* (copyToOneChunk, splitIntoTwoChunks) or, for a merge, from the lists of *)
(* the two partners (mergeToOneChunk, mergeToTwoChunks), performs its call *)
(* in it and tries to install it.  Those that fail are sent to the         *)
(* replacement that was installed, to repeat their call there.             *)
(*                                                                         *)
(* The old lists do not change any more (SettledListFixed of ChunkList).   *)
(* A replacement is private until it is installed, so building it and      *)
(* performing the call in it are one step each.  What becomes of it in the *)
(* tree, and the inner chunks, are in BTree.                               *)
(***************************************************************************)
EXTENDS Integers, Sequences, FiniteSets

CONSTANTS
    Thread,
    MaxEntries, MinEntries,   \* MAX_ENTRIES and MIN_ENTRIES
    MaxKey,                   \* MAX_KEY
    Lists,                    \* the lists a frozen chunk may hold
    Work(_)                   \* the calls [trigger, key] in a leaf and in an inner chunk

Key   == 1 .. MaxKey
NoKey == MaxKey + 1           \* NOT_DEFINED_KEY
Slot  == 0 .. MaxEntries - 1
End   == MaxEntries           \* END_INDEX
EntryHead == -1
Cell  == Slot \cup {EntryHead}

Trigger == {"INSERT", "DELETE", "SWAP", "ENSLAVE", "NONE"}

Ascending(s) == \A i, j \in 1 .. Len(s) : i < j => s[i] < s[j]

\* "algorithm requirement" (assertConfig)
ASSUME SizeAssumption ==
    /\ MaxEntries \in Nat /\ MinEntries \in Nat \ {0}
    /\ MaxEntries >= 2 * MinEntries + 6
    /\ MaxKey \in Nat \ {0}

ASSUME WorkAssumption ==
    /\ Lists \subseteq {s \in Seq(Key) : Len(s) <= MaxEntries /\ Ascending(s)}
    /\ \A b \in BOOLEAN : Work(b) \subseteq [trigger : Trigger, key : Key]

VARIABLES
    low, high,    \* the list of oldChunk, or of the low and the high partner
    recov,        \* recovType
    root,         \* oldChunk->root
    inner,        \* oldChunk->height != 0
    pc,           \* per thread: the next step
    call,         \* per thread: trigger and key
    mine,         \* per thread: newChunk1, newChunk2 and sepKey
    result,       \* per thread: *result
    newChunk,     \* updateTarget->newChunk and its nextChunk
    winner,       \* the thread that installed it
    sentTo,       \* per thread: retChunk, "none" for NULL
    request       \* per thread that enslaves: the slave its master points to

vars == <<low, high, recov, root, inner, pc, call, mine, result, newChunk, winner, sentTo, request>>
old  == <<low, high, recov, root, inner>>

(***************************************************************************)
(* A chunk under construction: keys and links of its entries, its counter, *)
(* and the freeze state it is born with.  Two of them, and the key that    *)
(* separates them, make a replacement; `two` tells if there is a second.   *)
(***************************************************************************)
State == {"INFANT", "SLAVE_FREEZE"}
Chunk == [key : [Slot -> 1 .. NoKey], next : [Cell -> 0 .. MaxEntries],
          counter : Nat, state : State]
Replacement == [low : Chunk, high : Chunk, two : BOOLEAN, sep : Key]

EmptyChunk == [key |-> [s \in Slot |-> NoKey], next |-> [c \in Cell |-> End],
               counter |-> 0, state |-> "INFANT"]

Nothing == [low |-> EmptyChunk, high |-> EmptyChunk, two |-> FALSE, sep |-> MaxKey]

\* the entries that a walk along the links of c meets
InList(c) ==
    LET R[i \in 0 .. MaxEntries] ==
          IF i = 0 THEN c.next[EntryHead]
          ELSE LET p == R[i - 1] IN IF p = End THEN End ELSE c.next[p]
    IN  {R[i] : i \in 0 .. MaxEntries} \ {End}

KeysIn(c) == {c.key[s] : s \in InList(c)}

\* findMaxKeyInChunk: the key of the last entry
MaxKeyIn(c) == c.key[CHOOSE s \in InList(c) : c.next[s] = End]
-----------------------------------------------------------------------------
(***************************************************************************)
(* copyEntriesArray: the entries oldStart..oldEnd of a list go to the      *)
(* slots from newStart on, linked in order.                                *)
(***************************************************************************)
CopyEntries(list, oldStart, oldEnd, newStart, c) ==
    LET newEnd == newStart + oldEnd - oldStart
        place  == newStart .. newEnd
    IN  [c EXCEPT
          !.key  = [s \in Slot |-> IF s \in place THEN list[oldStart + s - newStart + 1]
                                                  ELSE c.key[s]],
          !.next = [p \in Cell |-> IF p = EntryHead THEN 0
                                   ELSE IF p \notin place THEN c.next[p]
                                   ELSE IF p = newEnd THEN End ELSE p + 1],
          !.counter = @ + oldEnd - oldStart + 1]

\* "connect the edge entries"
Unconnected(c, s) == c                                    \* a wrong version
Connect(c, s) == [c EXCEPT !.next[s] = s + 1]

Whole(list) == CopyEntries(list, 0, Len(list) - 1, 0, EmptyChunk)

CopyToOneChunk(list) ==
    [Nothing EXCEPT !.low = IF list = <<>> THEN EmptyChunk ELSE Whole(list)]

MedianIndex(n) == (n - 1) \div 2 + 1

SplitIntoTwoChunks(list) ==
    LET n == Len(list)
        m == MedianIndex(n)
    IN  [low  |-> CopyEntries(list, 0, m - 1, 0, EmptyChunk),
         high |-> CopyEntries(list, m, n - 1, 0, EmptyChunk),
         two  |-> TRUE, sep |-> list[m]]

MergeToOneChunk(l, h) ==
    [Nothing EXCEPT !.low =
        CopyEntries(h, 0, Len(h) - 1, Len(l), Connect(Whole(l), Len(l) - 1))]

MergeToTwoChunks(l, h) ==
    LET n == Len(l)
        m == MedianIndex(n + Len(h))
    IN  [low  |-> IF n >= m THEN CopyEntries(l, 0, m - 1, 0, EmptyChunk)
                  ELSE CopyEntries(h, 0, m - 1 - n, n, Connect(Whole(l), n - 1)),
         high |-> IF n > m THEN CopyEntries(h, 0, Len(h) - 1, n - m,
                                  Connect(CopyEntries(l, m, n - 1, 0, EmptyChunk), n - m - 1))
                  ELSE CopyEntries(h, m - n, Len(h) - 1, 0, EmptyChunk),
         two  |-> TRUE, sep |-> (l \o h)[m]]

MoreThanFits(n) == n > MaxEntries                         \* a wrong version
TwoNeeded(n)    == n >= MaxEntries

Built ==
    CASE recov = "R_COPY"  -> CopyToOneChunk(low)
      [] recov = "R_SPLIT" -> SplitIntoTwoChunks(low)
      [] recov = "R_MERGE" -> IF TwoNeeded(Len(low) + Len(high))
                              THEN MergeToTwoChunks(low, high) ELSE MergeToOneChunk(low, high)

(***************************************************************************)
(* moveEntryFromFirstToSecond                                              *)
(***************************************************************************)
Move(p) ==
    LET a == p.low.counter - 1
        b == p.high.counter
    IN  [p EXCEPT
          !.high = [@ EXCEPT !.key[b] = p.low.key[a], !.next[b] = 0,
                             !.next[EntryHead] = b, !.counter = b + 1],
          !.low  = [@ EXCEPT !.key[a] = NoKey, !.next[a] = End, !.next[a - 1] = End,
                             !.counter = a]]

(***************************************************************************)
(* The sons at the cut of an inner chunk, leftleft and left below it and   *)
(* right above, are not to be separated from their merge partners.  Their  *)
(* mergeBuddy words are changed by others at any time: each thread sees    *)
(* partners of its own.                                                    *)
(***************************************************************************)
Partner == {"none", "left", "right", "another"}

ShouldMove(leftleft, left, right) ==
    CASE left = "right"                   -> 1
      [] left = "none" /\ right = "left"  -> IF leftleft = "left" THEN 2 ELSE 1
      [] OTHER                            -> 0

Moved(p, n)   == IF n = 0 THEN p ELSE IF n = 1 THEN Move(p) ELSE Move(Move(p))  \* a wrong version
Shifted(p, n) ==
    LET q == IF n = 2 THEN Move(Move(p)) ELSE Move(p)
    IN  IF n = 0 THEN p ELSE [q EXCEPT !.sep = MaxKeyIn(q.low)]

Moves == IF Built.two /\ inner
         THEN {ShouldMove(leftleft, left, right) : leftleft, left, right \in Partner}
         ELSE {0}

Build(t) ==
    /\ pc[t] = "build"
    /\ \E n \in Moves : mine' = [mine EXCEPT ![t] = Shifted(Built, n)]
    /\ pc' = [pc EXCEPT ![t] = "perform"]
    /\ UNCHANGED <<old, call, result, newChunk, winner, sentTo, request>>
-----------------------------------------------------------------------------
(***************************************************************************)
(* The call in the private replacement: insertToChunk, deleteInChunk and   *)
(* replaceInChunk with nobody else there.                                  *)
(***************************************************************************)
\* the cell after which key k belongs
Before(c, k) ==
    CHOOSE p \in InList(c) \cup {EntryHead} :
        /\ p = EntryHead \/ c.key[p] < k
        /\ c.next[p] = End \/ c.key[c.next[p]] >= k

Free(c) == {s \in Slot : c.key[s] = NoKey}
FirstFree(c) == CHOOSE s \in Free(c) : \A r \in Free(c) : s <= r

Allocate(c, k) == [c EXCEPT !.key[FirstFree(c)] = k]
Insert(c, k) ==
    [Allocate(c, k) EXCEPT !.next = [@ EXCEPT ![FirstFree(c)] = c.next[Before(c, k)],
                                              ![Before(c, k)] = FirstFree(c)],
                           !.counter = @ + 1]

CountedTwice(c, k) ==                                     \* a wrong version
    [c EXCEPT !.next[Before(c, k)] = c.next[c.next[Before(c, k)]], !.counter = @ - 2]
Delete(c, k) ==
    [c EXCEPT !.next[Before(c, k)] = c.next[c.next[Before(c, k)]], !.counter = @ - 1]

\* decCount lets a deletion pass; only a copy of the root is a root
MayDelete(c) == c.counter # MinEntries \/ (root /\ recov = "R_COPY")

\* the half of p that key k goes to
UpperHalf(p, k) == p.two /\ k >= p.sep                    \* a wrong version
HighHalf(p, k)  == p.two /\ k > p.sep
Half(p, k)      == IF HighHalf(p, k) THEN "high" ELSE "low"

Ends(t, p, r) ==
    /\ mine' = [mine EXCEPT ![t] = p]
    /\ result' = [result EXCEPT ![t] = r]
    /\ pc' = [pc EXCEPT ![t] = "install"]

\* freeze on an infant chunk: assert(extractFreezeState(...) != INFANT)
Fails(t) == pc' = [pc EXCEPT ![t] = "fault"] /\ UNCHANGED <<mine, result>>

PerformInsert(t) ==
    LET p == mine[t]
        k == call[t].key
        c == p[Half(p, k)]
    IN  /\ call[t].trigger = "INSERT"
        /\ \/ Free(c) = {} /\ Fails(t)
           \/ Free(c) # {} /\ k \in KeysIn(c) /\ Ends(t, p, FALSE)
           \/ Free(c) # {} /\ k \notin KeysIn(c) /\ Ends(t, [p EXCEPT ![Half(p, k)] = Insert(c, k)], TRUE)
           \/ /\ inner /\ Free(c) # {} /\ k \notin KeysIn(c)   \* SUCCESS_DELAYED_INSERT
              /\ Ends(t, [p EXCEPT ![Half(p, k)] = Allocate(c, k)], TRUE)

\* the second chunk is tried when the key is not in the first
PerformDelete(t) ==
    LET p == mine[t]
        k == call[t].key
        tried == {"low"} \cup IF p.two /\ k \notin KeysIn(p.low) THEN {"high"} ELSE {}
        found == {h \in tried : k \in KeysIn(p[h])}
    IN  /\ call[t].trigger = "DELETE"
        /\ \/ (\E h \in tried : ~MayDelete(p[h])) /\ Fails(t)
           \/ (\A h \in tried : MayDelete(p[h])) /\ found = {} /\ Ends(t, p, FALSE)
           \/ /\ \A h \in tried : MayDelete(p[h])
              /\ \E h \in found :
                    \/ Ends(t, [p EXCEPT ![h] = Delete(@, k)], TRUE)
                    \/ /\ inner                                \* the data is not the expected one
                       /\ Ends(t, [p EXCEPT ![h].counter = @ - 1], TRUE)

PerformSwap(t) ==
    LET p == mine[t]
        k == call[t].key
    IN  /\ call[t].trigger = "SWAP"
        /\ \E match \in BOOLEAN : Ends(t, p, match /\ k \in KeysIn(p[Half(p, k)]))

\* a copy made to be enslaved is born so, frozen
PerformEnslave(t) ==
    /\ call[t].trigger \in {"ENSLAVE", "NONE"}
    /\ Ends(t, IF call[t].trigger = "ENSLAVE" /\ recov = "R_COPY"
               THEN [mine[t] EXCEPT !.low.state = "SLAVE_FREEZE"] ELSE mine[t], FALSE)

Perform(t) ==
    /\ pc[t] = "perform"
    /\ PerformInsert(t) \/ PerformDelete(t) \/ PerformSwap(t) \/ PerformEnslave(t)
    /\ UNCHANGED <<old, call, newChunk, winner, sentTo, request>>

(***************************************************************************)
(* The compare-and-swap of newChunk from NULL; a loser determines the half *)
(* to go on in by the separator of its own replacement.                    *)
(***************************************************************************)
Overwritten == TRUE                                       \* a wrong version
NotInstalled == winner = {}

\* retChunk
FirstChunk(t)  == "low"                                   \* a wrong version
Destination(t) == Half(mine[t], call[t].key)

Install(t) ==
    /\ pc[t] = "install"
    /\ \/ /\ NotInstalled
          /\ newChunk' = mine[t]
          /\ winner' = {t}
          /\ UNCHANGED sentTo
       \/ /\ ~NotInstalled
          /\ sentTo' = [sentTo EXCEPT ![t] = Destination(t)]
          /\ UNCHANGED <<newChunk, winner>>
    /\ pc' = [pc EXCEPT ![t] = "repoint"]
    /\ UNCHANGED <<old, call, mine, result, request>>

\* the master of a copy that was born enslaved is pointed to the copy
Repoint(t) ==
    /\ pc[t] = "repoint"
    /\ request' = [u \in Thread |->
                     IF u \in winner /\ newChunk.low.state = "SLAVE_FREEZE" THEN "new" ELSE request[u]]
    /\ pc' = [pc EXCEPT ![t] = "done"]
    /\ UNCHANGED <<old, call, mine, result, newChunk, winner, sentTo>>
-----------------------------------------------------------------------------
(***************************************************************************)
(* What freeze hands over: freezeDecision and the merge protocol.  One of  *)
(* two partners has asked for the merge, at the minimum.                   *)
(***************************************************************************)
Init ==
    /\ root \in BOOLEAN /\ inner \in BOOLEAN
    /\ low \in Lists
    /\ \/ /\ recov = "R_COPY"
          /\ Len(low) # MaxEntries /\ (root \/ Len(low) > MinEntries)
          /\ high = <<>>
       \/ /\ recov = "R_SPLIT"
          /\ Len(low) = MaxEntries
          /\ high = <<>>
       \/ /\ recov = "R_MERGE" /\ ~root
          /\ high \in Lists
          /\ Len(low) >= MinEntries /\ Len(high) >= MinEntries
          /\ MinEntries \in {Len(low), Len(high)}
          /\ Ascending(low \o high)
    /\ pc = [t \in Thread |-> "build"]
    /\ call \in [Thread -> Work(inner)]
    /\ root => \A t \in Thread : call[t].trigger # "ENSLAVE"
    /\ mine = [t \in Thread |-> Nothing]
    /\ result = [t \in Thread |-> FALSE]
    /\ newChunk = Nothing
    /\ winner = {}
    /\ sentTo = [t \in Thread |-> "none"]
    /\ request = [t \in Thread |-> "old"]

Next == \E t \in Thread : Build(t) \/ Perform(t) \/ Install(t) \/ Repoint(t)

Spec == Init /\ [][Next]_vars
-----------------------------------------------------------------------------
TypeOK ==
    /\ {low, high} \subseteq Lists \cup {<<>>}
    /\ recov \in {"R_COPY", "R_SPLIT", "R_MERGE"}
    /\ root \in BOOLEAN /\ inner \in BOOLEAN
    /\ pc \in [Thread -> {"build", "perform", "install", "repoint", "done", "fault"}]
    /\ call \in [Thread -> Work(inner)]
    /\ mine \in [Thread -> Replacement]
    /\ result \in [Thread -> BOOLEAN]
    /\ newChunk \in Replacement
    /\ winner \subseteq Thread
    /\ sentTo \in [Thread -> {"none", "low", "high"}]
    /\ request \in [Thread -> {"old", "new"}]

NewKeys   == KeysIn(newChunk.low) \cup IF newChunk.two THEN KeysIn(newChunk.high) ELSE {}
OldKeys   == {low[i] : i \in 1 .. Len(low)} \cup {high[i] : i \in 1 .. Len(high)}

(***************************************************************************)
(* Nobody has to freeze a chunk that is not yet installed: there is a free *)
(* entry for the insert and a key to spare for the delete (the assertions  *)
(* on INFANT in freeze and deleteInChunk).                                 *)
(***************************************************************************)
RoomForTheCall == \A t \in Thread : pc[t] # "fault"

(***************************************************************************)
(* In a leaf, a thread that is not sent on finds its call, and no other,   *)
(* performed on the old keys in the chunks that are installed.             *)
(***************************************************************************)
Performed(t) ==
    LET k == call[t].key
        g == call[t].trigger
    IN  IF result[t] /\ g = "INSERT" THEN OldKeys \cup {k}
        ELSE IF result[t] /\ g = "DELETE" THEN OldKeys \ {k}
        ELSE OldKeys

OneCallInstalled ==
    \A t \in Thread :
        ~inner /\ pc[t] \in {"repoint", "done"} /\ sentTo[t] = "none" => NewKeys = Performed(t)

(***************************************************************************)
(* In a leaf, the answer of a thread that is not sent on is the one the    *)
(* old keys give: the half it looked in is the one that would hold the key.*)
(***************************************************************************)
AnswerIsRight ==
    \A t \in Thread :
        ~inner /\ pc[t] \in {"repoint", "done"} /\ sentTo[t] = "none" =>
            /\ call[t].trigger = "INSERT" => result[t] = (call[t].key \notin OldKeys)
            /\ call[t].trigger = "DELETE" => result[t] = (call[t].key \in OldKeys)

(***************************************************************************)
(* The counters of the installed leaves, which copies and calls keep up    *)
(* separately from the links, are the numbers of their entries.            *)
(***************************************************************************)
Halves == {newChunk.low} \cup IF newChunk.two THEN {newChunk.high} ELSE {}
CountersRight == ~inner => \A c \in Halves : c.counter = Cardinality(InList(c))

(***************************************************************************)
(* The separator the tree will be given divides the two installed chunks.  *)
(***************************************************************************)
Divided ==
    newChunk.two => /\ \A k \in KeysIn(newChunk.low) : k <= newChunk.sep
                    /\ \A k \in KeysIn(newChunk.high) : k > newChunk.sep

(***************************************************************************)
(* "determine in which of the new chunks the destination key is now        *)
(* located": in a leaf, a loser goes on in the half the key belongs to.    *)
(* (In an inner chunk it may not, see KeysStay in BTree.)                  *)
(***************************************************************************)
SentToItsHalf ==
    \A t \in Thread :
        ~inner /\ sentTo[t] # "none" =>
            (sentTo[t] = "high" <=> newChunk.two /\ call[t].key > newChunk.sep)
===============================================================================
