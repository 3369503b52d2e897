---------------------------------- MODULE BTree ----------------------------------
(***************************************************************************)
(* The tree: searchInTree, insertToTree and deleteFromTree                 *)
(* (lockfreeBtree.c), the freeze of a chunk with the choice of its merge   *)
(* partner, its replacement, and the update of the tree (chunkAlgorithm.c, *)
(* treeAlgorithm.c).                                                       *)
(*                                                                         *)
(* A thread runs one call after the other.  What it still has to do in the *)
(* current one is a sequence of steps, `todo`: the first is done next and  *)
(* is replaced by the steps it calls for, so that the rest of the sequence *)
(* is the thread's stack.  A step reads or changes shared words that other *)
(* threads change, once; lists of chunks are changed atomically (that they *)
(* can be is what ChunkList is about), except that an entry of an inner    *)
(* chunk is allocated, compared with its son, and linked in three steps,   *)
(* deleted in three and swapped in two, since the tree is updated by       *)
(* several threads.                                                        *)
(***************************************************************************)
EXTENDS BTreeChunk, StartBarrier

CONSTANTS
    MaxChunks,      \* MAX_CHUNKS
    Runner,         \* the threads that do not stop for ever, see FairSpec
    Starts          \* the initial trees and the calls the threads will make

ChunkId == 1 .. MaxChunks

\* the call of a thread, and the records of the chunks
CallRecord  == [kind : {"search", "insert", "delete"}, key : Key]
EntryRecord == [key : Key, data : Thread \cup {Null} \cup ChunkId,
                at : {"free", "pending", "linked", "deleted"}]
ChunkRecord ==
    [e : Seq(EntryRecord), cnt : Int, height : Nat, root : BOOLEAN, frozen : BOOLEAN,
     low : ChunkId \cup {Null}, next : ChunkId \cup {Null}, creator : ChunkId \cup {Null},
     by : Thread \cup {Null}]

\* the data of an entry in a chunk of height h: in an inner chunk, a son one level below
FitsIn(ch, h, d) ==
    IF h = 0 THEN d \in Thread \cup {Null} ELSE d \in DOMAIN ch /\ ch[d].height = h - 1

(***************************************************************************)
(* A tree that earlier calls have left behind when all were answered.  An  *)
(* entry of an inner chunk may have stayed unlinked, and the counter may   *)
(* be too low, see DeleteStep.                                             *)
(***************************************************************************)
WellFormed(s) ==
    /\ s.chunk \in Seq(ChunkRecord) /\ Len(s.chunk) \in ChunkId /\ s.root \in DOMAIN s.chunk
    /\ \A c \in DOMAIN s.chunk :
          LET x == s.chunk[c]
          IN  /\ ~x.frozen /\ x.low = Null /\ x.next = Null /\ x.creator = Null
              /\ \A i \in DOMAIN x.e : FitsIn(s.chunk, x.height, x.e[i].data)
              /\ x.height = 0 => Pending(x) = {}
              /\ EntrNum(x) >= x.cnt
              /\ x.root \/ x.cnt >= MinEntries
    /\ s.calls \in [Thread -> Seq(CallRecord)]

ASSUME StartsAssumption == MaxChunks \in Nat /\ \A s \in Starts : WellFormed(s)

VARIABLES
    root,     \* btree->root
    top,      \* the chunks 1 .. top are in use
    chunk,    \* the chunks
    word,     \* their mergeBuddy words: freeze state and partner
    todo,     \* per thread: the steps it has to do
    hold,     \* per thread: the word it read and will compare, if unchanged since
    left,     \* per thread: the calls it has not made yet
    content,  \* history: the keys the tree holds
    call,     \* history: the call in progress of each thread, or its last answer
    misled,   \* history: the keys that findLeaf was led astray for, see LedAstray
    fault     \* an assertion of the code that failed

vars == <<root, top, chunk, word, todo, hold, left, content, call, misled, fault, gate>>

NoBuddy(st, bud) == [st |-> st, bud |-> Null]             \* a wrong version
W(st, bud) == [st |-> st, bud |-> bud]
St(c)      == word[c].st
Bud(c)     == word[c].bud

Leaf(c)   == chunk[c].height = 0
Son(c, i) == chunk[c].e[i].data

NoHold == [c |-> Null, at |-> Null]

\* a merge: one partner is in MERGE, the other in SLAVE_FREEZE, and they point at each other
Paired(m, s) == s # Null /\ word[m] = W("MERGE", s) /\ word[s] = W("SLAVE_FREEZE", m)

(***************************************************************************)
(* The steps.                                                              *)
(***************************************************************************)
Descend(c)             == [do |-> "descend", c |-> c]
Onto(c, i)             == [do |-> "onto", c |-> c, slot |-> i]
Respond(r)             == [do |-> "respond", result |-> r]
InsertTo(c, k, d)      == [do |-> "insert", c |-> c, key |-> k, data |-> d]
Place(c, i, own)       == [do |-> "place", c |-> c, slot |-> i, own |-> own]
Link(c, i, own)        == [do |-> "link", c |-> c, slot |-> i, own |-> own]
DeleteFrom(c, k, d)    == [do |-> "delete", c |-> c, key |-> k, data |-> d]
Compare(c, k, d)       == [do |-> "compare", c |-> c, key |-> k, data |-> d]
Mark(c, k, d)          == [do |-> "mark", c |-> c, key |-> k, data |-> d]
ReplaceIn(c, k, exp, d) == [do |-> "replace", c |-> c, key |-> k, exp |-> exp, data |-> d]
Swap(i, slot)          == [do |-> "swap", c |-> i.c, slot |-> slot, key |-> i.key,
                           exp |-> i.exp, data |-> i.data]
Freeze(c, w)           == [do |-> "freeze", c |-> c, w |-> w]
Settle(c)              == [do |-> "settle", c |-> c]
Decide(c, w)           == [do |-> "decide", c |-> c, w |-> w]
Pair(c, w)             == [do |-> "pair", c |-> c, w |-> w]
Build(c, w, dec)       == [do |-> "build", c |-> c, w |-> w, dec |-> dec]
Parent(k, son, then, new) ==
    [do |-> "parent", key |-> k, son |-> son, then |-> then, new |-> new, at |-> Null]
Request(m, old, p, i)  == [do |-> "request", c |-> m, old |-> old, parent |-> p, slot |-> i]
Check(m, old, p)       == [do |-> "check", c |-> m, old |-> old, parent |-> p]
SetSlave(m, s)         == [do |-> "setSlave", c |-> m, slave |-> s]
Look(m, s)             == [do |-> "look", c |-> m, slave |-> s]
Yield(m, s)            == [do |-> "yield", c |-> m, slave |-> s]
Take(m, s)             == [do |-> "take", c |-> m, slave |-> s]
Unlink(p, k, low, m)   == [do |-> "unlink", c |-> p, key |-> k, low |-> low, master |-> m]
SetRoot(p, new)        == [do |-> "setRoot", c |-> p, new |-> new]
SwapRoot(p, new)       == [do |-> "swapRoot", c |-> p, new |-> new]
NewRoot(c, sep)        == [do |-> "newRoot", c |-> c, sep |-> sep]
Normal(c)              == [do |-> "normal", c |-> c]
Help(c)                == [do |-> "help", c |-> c]

\* findParent goes on in chunk p
SearchIn(p, i) == [Parent(i.key, i.son, i.then, i.new) EXCEPT !.at = p]
\* its entry cur of p, with the neighbour if that is asked for, see ParentStep
Found(p, i, cur, near) ==
    [do |-> "found", key |-> i.key, son |-> i.son, then |-> i.then, new |-> i.new,
     at |-> p, slot |-> cur, near |-> near]

\* findMergeSlave: the neighbour in the parent is looked up first
FindSlave(m, old) == Parent(FirstKey(chunk[m]), m, "enslave", old)

HelpIfInfant(c) == IF St(c) = "INFANT" THEN <<Help(c)>> ELSE <<>>
-----------------------------------------------------------------------------
At(t, step) == todo[t] # <<>> /\ Head(todo[t]).do = step
Now(t)      == Head(todo[t])
Then(t, steps) == todo' = [todo EXCEPT ![t] = steps \o Tail(@)]

Shared == <<root, top, chunk, word>>

\* a step of t that changes nothing others see
Privately(t, steps) == Then(t, steps) /\ UNCHANGED <<Shared, hold, fault>>

\* a compare-and-swap of the mergeBuddy word of c
Blindly(c, expected, new) == word' = [word EXCEPT ![c] = new]   \* a wrong version
Cas(c, expected, new) ==
    word' = IF word[c] = expected THEN [word EXCEPT ![c] = new] ELSE word

Regardless(c, S) == UNCHANGED hold                        \* a wrong version
\* the words of the entries S of chunk c (Null is the head) change
Touch(c, S) ==
    hold' = [u \in Thread |-> IF hold[u].c = c /\ hold[u].at \in S THEN NoHold ELSE hold[u]]

\* assert(FALSE)
Fails(t, what) ==
    /\ fault' = what
    /\ todo' = [todo EXCEPT ![t] = <<>>]
    /\ UNCHANGED <<Shared, hold>>
-----------------------------------------------------------------------------
(***************************************************************************)
(* searchInTree, insertToTree and deleteFromTree: findLeaf, then the call  *)
(* in the leaf.  In an inner chunk the entry is found in one step, and its *)
(* son read in the next.  Only the calls that change the tree help an      *)
(* infant leaf.                                                            *)
(***************************************************************************)
DescendStep(t) ==
    /\ At(t, "descend")
    /\ LET c   == Now(t).c
           k   == call[t].key
           cur == CurOf(chunk[c], k)
       IN  \/ /\ ~Leaf(c) /\ cur = Null
              /\ Fails(t, "findLeaf: no entry for the key")
           \/ /\ ~Leaf(c) /\ cur # Null
              /\ Privately(t, <<Onto(c, cur)>>)
           \/ /\ Leaf(c) /\ call[t].kind = "search"
              /\ Privately(t, <<Respond(Has(chunk[c], k))>>)
           \/ /\ Leaf(c) /\ call[t].kind = "insert"
              /\ Privately(t, HelpIfInfant(c) \o <<InsertTo(c, k, t)>>)
           \/ /\ Leaf(c) /\ call[t].kind = "delete"
              /\ Privately(t, HelpIfInfant(c) \o <<DeleteFrom(c, k, t)>>)

\* getSon
OntoStep(t) ==
    /\ At(t, "onto")
    /\ Privately(t, <<Descend(Son(Now(t).c, Now(t).slot))>>)
-----------------------------------------------------------------------------
(***************************************************************************)
(* insertToChunk.  In a leaf it is one step.                               *)
(***************************************************************************)
CallOf(i, trigger, exp) == [trigger |-> trigger, key |-> i.key, exp |-> exp, data |-> i.data]

InsertStep(t) ==
    /\ At(t, "insert")
    /\ LET i == Now(t)
           x == chunk[i.c]
       IN  \/ /\ x.frozen \/ ~Room(x)
              /\ Privately(t, <<Freeze(i.c, CallOf(i, "INSERT", 0))>>)
           \/ /\ ~x.frozen /\ Room(x) /\ Leaf(i.c) /\ Has(x, i.key)
              /\ Privately(t, <<Respond(FALSE)>>)
           \/ /\ ~x.frozen /\ Room(x) /\ Leaf(i.c) /\ ~Has(x, i.key)
              /\ chunk' = [chunk EXCEPT ![i.c] = Put(x, i.key, i.data, "linked")]
              /\ Then(t, <<Respond(TRUE)>>)
              /\ UNCHANGED <<root, top, word, hold, fault>>
           \/ /\ ~x.frozen /\ Room(x) /\ ~Leaf(i.c)
              /\ chunk' = [chunk EXCEPT ![i.c] = Put(x, i.key, i.data, "pending")]
              /\ Then(t, <<Place(i.c, FreeSlot(x), TRUE)>>)
              /\ UNCHANGED <<root, top, word, hold, fault>>

(***************************************************************************)
(* insertEntry in an inner chunk, for the own entry or, in stabilizeChunk, *)
(* for another's: the place is found and the son's state read, then the    *)
(* word of the entry before is compared and swapped.  The son of an        *)
(* insert that is late is frozen, and the entry stays where it is.         *)
(***************************************************************************)
Allowed == {"INFANT", "NORMAL"}

PlaceStep(t) ==
    /\ At(t, "place")
    /\ LET i   == Now(t)
           x   == chunk[i.c]
           k   == x.e[i.slot].key
           cur == CurOf(x, k)
       IN  \/ /\ ~Has(x, k) /\ St(x.e[i.slot].data) \in Allowed
              /\ hold' = [hold EXCEPT ![t] = [c |-> i.c, at |-> PrevOf(x, k)]]
              /\ Then(t, <<Link(i.c, i.slot, i.own)>>)
              /\ UNCHANGED <<Shared, fault>>
           \/ /\ \/ ~Has(x, k) /\ St(x.e[i.slot].data) \notin Allowed   \* SUCCESS_DELAYED_INSERT
                 \/ Has(x, k) /\ (cur = i.slot \/ ~i.own)               \* SUCCESS_OTHER
              /\ Privately(t, <<>>)
           \/ /\ Has(x, k) /\ cur # i.slot /\ i.own                     \* EXISTED, clearEntry
              /\ IF x.frozen THEN Privately(t, <<Freeze(i.c, NoCall)>>)
                 ELSE /\ chunk' = [chunk EXCEPT ![i.c].e[i.slot].at = "free"]
                      /\ Then(t, <<>>)
                      /\ UNCHANGED <<root, top, word, hold, fault>>

LinkStep(t) ==
    /\ At(t, "link")
    /\ LET i == Now(t)
       IN  \/ /\ hold[t] = NoHold
              /\ Privately(t, <<Place(i.c, i.slot, i.own)>>)
           \/ /\ hold[t] # NoHold
              /\ chunk' = [chunk EXCEPT ![i.c].e[i.slot].at = "linked",
                                        ![i.c].cnt = IF i.own THEN @ + 1 ELSE @]
              /\ Touch(i.c, {hold[t].at, i.slot})
              /\ Then(t, <<>>)
              /\ UNCHANGED <<root, top, word, fault>>
-----------------------------------------------------------------------------
(***************************************************************************)
(* deleteInChunk.  In a leaf it is one step; in an inner chunk decCount,   *)
(* find with the comparison of the data, and the mark are steps of their   *)
(* own.  A delete whose data are not the expected ones does not undo its   *)
(* decCount.                                                               *)
(***************************************************************************)
DeleteStep(t) ==
    /\ At(t, "delete")
    /\ LET i == Now(t)
           x == chunk[i.c]
           w == CallOf(i, "DELETE", 0)
       IN  \/ /\ ~MayDecrement(x) /\ St(i.c) = "INFANT"
              /\ Fails(t, "deleteInChunk: infant chunk")
           \/ /\ \/ ~MayDecrement(x) /\ St(i.c) # "INFANT"
                 \/ Leaf(i.c) /\ x.frozen /\ MayDecrement(x) /\ Has(x, i.key)
              /\ Privately(t, <<Freeze(i.c, w)>>)
           \/ /\ Leaf(i.c) /\ MayDecrement(x) /\ ~Has(x, i.key)
              /\ Privately(t, <<Respond(FALSE)>>)
           \/ /\ Leaf(i.c) /\ MayDecrement(x) /\ ~x.frozen /\ Has(x, i.key)
              /\ chunk' = [chunk EXCEPT ![i.c] = Remove(x, i.key)]
              /\ Then(t, <<Respond(TRUE)>>)
              /\ UNCHANGED <<root, top, word, hold, fault>>
           \/ /\ ~Leaf(i.c) /\ MayDecrement(x)
              /\ chunk' = [chunk EXCEPT ![i.c].cnt = @ - 1]
              /\ Then(t, <<Compare(i.c, i.key, i.data)>>)
              /\ UNCHANGED <<root, top, word, hold, fault>>

CompareStep(t) ==
    /\ At(t, "compare")
    /\ LET i   == Now(t)
           x   == chunk[i.c]
           cur == CurOf(x, i.key)
       IN  \/ /\ ~Has(x, i.key)
              /\ chunk' = [chunk EXCEPT ![i.c].cnt = @ + 1]
              /\ Then(t, <<>>)
              /\ UNCHANGED <<root, top, word, hold, fault>>
           \/ /\ Has(x, i.key) /\ x.e[cur].data # i.data
              /\ Privately(t, <<>>)
           \/ /\ Has(x, i.key) /\ x.e[cur].data = i.data
              /\ hold' = IF x.frozen THEN hold
                         ELSE [hold EXCEPT ![t] = [c |-> i.c, at |-> cur]]
              /\ Then(t, <<Mark(i.c, i.key, i.data)>>)
              /\ UNCHANGED <<Shared, fault>>

MarkStep(t) ==
    /\ At(t, "mark")
    /\ LET i == Now(t)
           x == chunk[i.c]
       IN  \/ /\ hold[t] # NoHold
              /\ chunk' = [chunk EXCEPT ![i.c].e[hold[t].at].at = "deleted"]
              /\ Touch(i.c, {hold[t].at, PrevOf(x, i.key)})
              /\ Then(t, <<>>)
              /\ UNCHANGED <<root, top, word, fault>>
           \/ /\ hold[t] = NoHold /\ ~x.frozen
              /\ Privately(t, <<Compare(i.c, i.key, i.data)>>)
           \/ /\ hold[t] = NoHold /\ x.frozen
              /\ chunk' = [chunk EXCEPT ![i.c].cnt = @ + 1]
              /\ Then(t, <<Freeze(i.c, CallOf(i, "DELETE", 0))>>)
              /\ UNCHANGED <<root, top, word, hold, fault>>

(***************************************************************************)
(* replaceInChunk: find, then the compare-and-swap of the word with the    *)
(* key and the data, which may be frozen.                                  *)
(***************************************************************************)
ReplaceStep(t) ==
    /\ At(t, "replace")
    /\ LET i == Now(t)
           x == chunk[i.c]
       IN  Privately(t, IF Has(x, i.key) THEN <<Swap(i, CurOf(x, i.key))>> ELSE <<>>)

SwapStep(t) ==
    /\ At(t, "swap")
    /\ LET i == Now(t)
           x == chunk[i.c]
       IN  \/ /\ x.frozen
              /\ Privately(t, <<Freeze(i.c, CallOf(i, "SWAP", i.exp))>>)
           \/ /\ ~x.frozen /\ x.e[i.slot].data # i.exp
              /\ Privately(t, <<>>)
           \/ /\ ~x.frozen /\ x.e[i.slot].data = i.exp
              /\ chunk' = [chunk EXCEPT ![i.c].e[i.slot].data = i.data]
              /\ Then(t, <<>>)
              /\ UNCHANGED <<root, top, word, hold, fault>>
-----------------------------------------------------------------------------
(***************************************************************************)
(* freeze.  The compare-and-swap from NORMAL to FREEZE and the switch on   *)
(* the state are one step.                                                 *)
(***************************************************************************)
FreezeStep(t) ==
    /\ At(t, "freeze")
    /\ LET c == Now(t).c
           w == Now(t).w
       IN  \/ /\ St(c) = "INFANT"
              /\ Fails(t, "freeze: infant chunk")
           \/ /\ St(c) \in {"NORMAL", "FREEZE"}
              /\ Cas(c, W("NORMAL", Null), W("FREEZE", Null))
              /\ Then(t, <<Settle(c), Decide(c, w)>>)
              /\ UNCHANGED <<root, top, chunk, hold, fault>>
           \/ /\ St(c) \in {"COPY", "SPLIT"}
              /\ Privately(t, <<Build(c, w, St(c))>>)
           \/ /\ St(c) = "MERGE"
              /\ IF Paired(c, Bud(c)) THEN Privately(t, <<Build(c, w, "MERGE")>>)
                 ELSE Fails(t, "freeze: partners in MERGE")
           \/ /\ St(c) = "REQUEST_SLAVE"
              /\ Privately(t, <<FindSlave(c, Null), Pair(c, w)>>)
           \/ /\ St(c) = "SLAVE_FREEZE"
              /\ Privately(t, <<Settle(c), Pair(c, w)>>)

(***************************************************************************)
(* markChunkFrozen, and what stabilizeChunk has to do afterwards: an entry *)
(* of an inner chunk that is not in the list is inserted if its son is not *)
(* frozen.                                                                 *)
(***************************************************************************)
EntriesToLink(c) ==
    LET n == Cardinality(Pending(chunk[c]))
    IN  [m \in 1 .. n |-> CHOOSE i \in Pending(chunk[c]) :
                              Cardinality({j \in Pending(chunk[c]) : j < i}) = m - 1]

SettleStep(t) ==
    /\ At(t, "settle")
    /\ LET c    == Now(t).c
           late == EntriesToLink(c)
       IN  /\ chunk' = [chunk EXCEPT ![c].frozen = TRUE]
           /\ IF chunk[c].frozen THEN UNCHANGED hold
              ELSE Touch(c, {Null} \cup DOMAIN chunk[c].e)
           /\ Then(t, [m \in DOMAIN late |-> Place(c, late[m], FALSE)])
    /\ UNCHANGED <<root, top, word, fault>>

\* freezeDecision
DecideStep(t) ==
    /\ At(t, "decide")
    /\ LET c   == Now(t).c
           w   == Now(t).w
           dec == Decision(chunk[c])
       IN  IF dec = "MERGE" THEN Privately(t, <<FindSlave(c, Null), Pair(c, w)>>)
           ELSE /\ Cas(c, W("FREEZE", Null), W(dec, Null))
                /\ Then(t, <<Build(c, w, dec)>>)
                /\ UNCHANGED <<root, top, chunk, hold, fault>>

\* the chunk is master, or slave and its master is set to MERGE
PairStep(t) ==
    /\ At(t, "pair")
    /\ LET c == Now(t).c
           m == Bud(c)
       IN  \/ /\ Paired(c, m)
              /\ Privately(t, <<Build(c, Now(t).w, "MERGE")>>)
           \/ /\ St(c) = "SLAVE_FREEZE" /\ word[m] \in {W("REQUEST_SLAVE", c), W("MERGE", c)}
              /\ Cas(m, W("REQUEST_SLAVE", c), W("MERGE", c))
              /\ Then(t, <<Build(c, Now(t).w, "MERGE")>>)
              /\ UNCHANGED <<root, top, chunk, hold, fault>>
           \/ /\ ~Paired(c, m)
              /\ ~(St(c) = "SLAVE_FREEZE" /\ word[m] \in {W("REQUEST_SLAVE", c), W("MERGE", c)})
              /\ Fails(t, "freeze: master expected to be in MERGE")
-----------------------------------------------------------------------------
(***************************************************************************)
(* findMergeSlave.  The master requests the neighbour that it has found in *)
(* its parent, or stays with the one that another thread requested.        *)
(***************************************************************************)
\* what the word of the master is compared with
Unasked(m, old)  == W("FREEZE", Null)                     \* a wrong version
Whatever(m, old) == word[m]                               \* a wrong version
Expected(m, old) == IF old = Null THEN W("FREEZE", Null) ELSE W("REQUEST_SLAVE", old)

RequestStep(t) ==
    /\ At(t, "request")
    /\ LET i   == Now(t)
           s   == Son(i.parent, i.slot)
           exp == Expected(i.c, i.old)
       IN  \/ /\ word[i.c] # exp /\ St(i.c) = "MERGE"
              /\ IF Paired(i.c, Bud(i.c)) THEN Privately(t, <<>>)
                 ELSE Fails(t, "findMergeSlave: slave expected to be in SLAVE_FREEZE")
           \/ /\ word[i.c] = exp \/ St(i.c) # "MERGE"
              /\ Cas(i.c, exp, W("REQUEST_SLAVE", s))
              /\ Then(t, <<Check(i.c, i.old, i.parent)>>)
              /\ UNCHANGED <<root, top, chunk, hold, fault>>

\* a frozen parent is helped, and the slave looked up again, but only the first time
CheckStep(t) ==
    /\ At(t, "check")
    /\ LET i == Now(t)
           s == Bud(i.c)
       IN  \/ /\ s = Null
              /\ Fails(t, "findMergeSlave: no slave")
           \/ /\ s # Null /\ St(i.parent) # "NORMAL" /\ i.old = Null
              /\ Privately(t, <<Freeze(i.parent, NoCall), FindSlave(i.c, s)>>)
           \/ /\ s # Null /\ (St(i.parent) = "NORMAL" \/ i.old # Null)
              /\ Privately(t, <<SetSlave(i.c, s)>>)

(***************************************************************************)
(* setSlave: the slave is frozen for the master, or helped if it is not in *)
(* a state to be enslaved.  Two leftmost chunks that request each other    *)
(* agree that the left one yields.                                         *)
(***************************************************************************)
SetSlaveStep(t) ==
    /\ At(t, "setSlave")
    /\ LET m == Now(t).c
           s == Now(t).slave
       IN  /\ Cas(s, W("NORMAL", Null), W("SLAVE_FREEZE", m))
           /\ Then(t, IF word[s] = W("NORMAL", Null) THEN <<Settle(s), Take(m, s)>>
                      ELSE <<Look(m, s)>>)
    /\ UNCHANGED <<root, top, chunk, hold, fault>>

\* a slave that is being frozen for something else is helped, then the slave looked up again
AskWaiting(m, s) == <<FindSlave(m, s)>>                   \* a wrong version
AskAgain(m, s) ==
    <<Freeze(s, [NoCall EXCEPT !.trigger = "ENSLAVE", !.data = m]), FindSlave(m, s)>>

LookStep(t) ==
    /\ At(t, "look")
    /\ LET m == Now(t).c
           s == Now(t).slave
       IN  \/ /\ St(s) = "INFANT"
              /\ Privately(t, <<Help(s), SetSlave(m, s)>>)
           \/ /\ word[s] = W("SLAVE_FREEZE", m)
              /\ Privately(t, <<Settle(s), Take(m, s)>>)
           \/ /\ word[s] = W("REQUEST_SLAVE", m)
              /\ Privately(t, <<Yield(m, s)>>)
           \/ /\ St(s) # "INFANT"
              /\ word[s] \notin {W("SLAVE_FREEZE", m), W("REQUEST_SLAVE", m)}
              /\ Privately(t, AskAgain(m, s))

\* which of the two yields
Oneself(m, s)  == m                                       \* a wrong version
Yielding(m, s) == IF FirstKey(chunk[m]) < FirstKey(chunk[s]) THEN m ELSE s

YieldStep(t) ==
    /\ At(t, "yield")
    /\ LET m    == Now(t).c
           s    == Now(t).slave
           low  == Yielding(m, s)
           high == IF low = m THEN s ELSE m
       IN  /\ Cas(low, W("REQUEST_SLAVE", high), W("SLAVE_FREEZE", high))
           /\ Then(t, IF word[low] = W("REQUEST_SLAVE", high) THEN <<Take(m, s)>>
                      ELSE <<FindSlave(m, s)>>)
    /\ UNCHANGED <<root, top, chunk, hold, fault>>

TakeStep(t) ==
    /\ At(t, "take")
    /\ LET m   == Now(t).c
           s   == Now(t).slave
           new == IF word[m] = W("REQUEST_SLAVE", s) THEN W("MERGE", s) ELSE word[m]
       IN  IF \/ new.st = "SLAVE_FREEZE"
              \/ new = W("MERGE", s) /\ word[s] = W("SLAVE_FREEZE", m)
           THEN /\ word' = [word EXCEPT ![m] = new]
                /\ Then(t, <<>>)
                /\ UNCHANGED <<root, top, chunk, hold, fault>>
           ELSE Fails(t, "findMergeSlave: master expected to be in MERGE or SLAVE_FREEZE")
-----------------------------------------------------------------------------
(***************************************************************************)
(* freezeRecovery: a replacement is built and the call performed in it;    *)
(* one of the replacements is installed; the master of a copy that is born *)
(* enslaved is pointed to it; then the tree is updated.                    *)
(***************************************************************************)
Partners == [s \in ChunkId |-> IF s <= top THEN Bud(s) ELSE Null]

LowOf(c, d)  == IF FirstKey(chunk[c]) < FirstKey(chunk[d]) THEN c ELSE d
HighOf(c, d) == IF LowOf(c, d) = c THEN d ELSE c
MasterOf(c)  == IF St(c) = "SLAVE_FREEZE" THEN Bud(c) ELSE c

Replacement(t, c, dec) ==
    CASE dec = "COPY"  -> CopyOf(chunk[c], c, t)
      [] dec = "SPLIT" -> TwoOf(ListOf(chunk[c]), chunk[c].height, c, t)
      [] dec = "MERGE" -> MergeOf(chunk[LowOf(c, Bud(c))], chunk[HighOf(c, Bud(c))], MasterOf(c), t)

\* the freeze state of c is the one that is recovered from
MayBuild(c, dec) ==
    St(c) = dec \/ (dec = "MERGE" /\ St(c) = "SLAVE_FREEZE" /\ Paired(Bud(c), c))

BuildStep(t) ==
    /\ At(t, "build")
    /\ LET i   == Now(t)
           fit == chunk[i.c].height = 0 \/ i.w.trigger # "INSERT" \/ St(i.w.data) \in Allowed
           o   == Perform(Shifted(Replacement(t, i.c, i.dec), Partners), i.w, i.dec, fit)
       IN  IF MayBuild(i.c, i.dec) /\ o.asserts
           THEN Privately(t, <<[do |-> "install", c |-> MasterOf(i.c), w |-> i.w, dec |-> i.dec,
                                new |-> o.new, result |-> o.result]>>)
           ELSE Fails(t, "freezeRecovery")

FirstHalf(c, w, sep) == chunk[c].low                      \* a wrong version
Half(c, w, sep) == IF w.key <= sep THEN chunk[c].low ELSE chunk[chunk[c].low].next

\* what is left of the call: an answer, or the call once more in the new chunk, if there is one
Finished(c, w, result) ==
    IF Leaf(c) /\ w.trigger \in {"INSERT", "DELETE"} THEN <<Respond(result)>> ELSE <<>>
Repeated(n, w) ==
    CASE w.trigger = "INSERT" -> <<[do |-> "helpInfant", c |-> n], InsertTo(n, w.key, w.data)>>
      [] w.trigger = "DELETE" -> <<DeleteFrom(n, w.key, w.data)>>
      [] w.trigger = "SWAP"   -> <<ReplaceIn(n, w.key, w.exp, w.data)>>
      [] OTHER                -> <<>>

InstallStep(t) ==
    /\ At(t, "install")
    /\ LET i      == Now(t)
           c      == i.c
           update == <<[do |-> "repoint", c |-> c],
                       [do |-> "update", c |-> c, dec |-> i.dec, sep |-> i.new.sep]>>
           second == IF i.new.two THEN top + 2 ELSE Null
       IN  \/ /\ chunk[c].low = Null /\ top + 2 <= MaxChunks
              /\ top' = IF i.new.two THEN top + 2 ELSE top + 1
              /\ chunk' = [d \in 1 .. top' |->
                             IF d = c THEN [chunk[c] EXCEPT !.low = top + 1]
                             ELSE IF d <= top THEN chunk[d]
                             ELSE IF d = top + 1 THEN [i.new.low EXCEPT !.next = second]
                             ELSE i.new.high]
              /\ word' = [d \in 1 .. top' |->
                             IF d <= top THEN word[d]
                             ELSE IF d = top + 1 /\ i.new.master # Null
                                  THEN W("SLAVE_FREEZE", i.new.master) ELSE W("INFANT", Null)]
              /\ Then(t, update \o Finished(c, i.w, i.result))
              /\ UNCHANGED <<root, hold, fault>>
           \/ /\ chunk[c].low # Null
              /\ LET n == Half(c, i.w, i.new.sep)
                 IN  Privately(t, update \o (IF n = Null THEN Finished(c, i.w, i.result)
                                             ELSE Repeated(n, i.w)))

RepointStep(t) ==
    /\ At(t, "repoint")
    /\ LET c == Now(t).c
           n == chunk[c].low
       IN  IF St(n) = "SLAVE_FREEZE"
           THEN Cas(Bud(n), W("REQUEST_SLAVE", c), W("REQUEST_SLAVE", n))
           ELSE UNCHANGED word
    /\ Then(t, <<>>)
    /\ UNCHANGED <<root, top, chunk, hold, fault>>
-----------------------------------------------------------------------------
(***************************************************************************)
(* callForUpdate: copy, split, merge, borrow and splitRoot.                *)
(***************************************************************************)
LowNew(c)  == chunk[c].low
OwnNext(c) == chunk[c].next                               \* a wrong version
HighNew(c) == chunk[chunk[c].low].next

ReplaceFor(c, new) == Parent(LastKey(chunk[c]), c, "replace", new)

SplitSteps(c, sep) ==
    <<Parent(sep, c, "insert", LowNew(c)), ReplaceFor(c, HighNew(c)),
      Normal(LowNew(c)), Normal(HighNew(c))>>

\* master and slave in the order of their largest keys
LowPart(m)  == IF LastKey(chunk[Bud(m)]) < LastKey(chunk[m]) THEN Bud(m) ELSE m
HighPart(m) == IF LowPart(m) = m THEN Bud(m) ELSE m

UnlinkFirst(m) ==                                         \* a wrong version
    <<Parent(LastKey(chunk[LowPart(m)]), LowPart(m), "unlink", m),
      ReplaceFor(HighPart(m), LowNew(m)),
      Normal(LowNew(m))>>
StaysInfant(m) ==                                         \* a wrong version
    <<ReplaceFor(HighPart(m), LowNew(m)),
      Parent(LastKey(chunk[LowPart(m)]), LowPart(m), "unlink", m)>>
MergeSteps(m) ==
    <<ReplaceFor(HighPart(m), LowNew(m)),
      Parent(LastKey(chunk[LowPart(m)]), LowPart(m), "unlink", m),
      Normal(LowNew(m))>>

HighStaysInfant(m, sep) ==                                \* a wrong version
    LET low == LowPart(m)
    IN  <<Parent(sep, IF LastKey(chunk[low]) < sep THEN HighPart(m) ELSE low, "insert", LowNew(m)),
          ReplaceFor(HighPart(m), HighNew(m)),
          Parent(LastKey(chunk[low]), low, "delete", Null),
          Normal(LowNew(m))>>
BorrowSteps(m, sep) ==
    LET low == LowPart(m)
    IN  <<Parent(sep, IF LastKey(chunk[low]) < sep THEN HighPart(m) ELSE low, "insert", LowNew(m)),
          ReplaceFor(HighPart(m), HighNew(m)),
          Parent(LastKey(chunk[low]), low, "delete", Null),
          Normal(LowNew(m)), Normal(HighNew(m))>>

MergeAsserts(m) ==
    Paired(m, Bud(m)) /\ ~chunk[m].root /\ ~chunk[Bud(m)].root

UpdateStep(t) ==
    /\ At(t, "update")
    /\ LET i == Now(t)
           c == i.c
       IN  \/ /\ i.dec = "COPY" /\ chunk[c].root
              /\ IF chunk[LowNew(c)].root
                 THEN Privately(t, <<SwapRoot(c, LowNew(c)), Normal(LowNew(c))>>)
                 ELSE Fails(t, "callForUpdate: root flag")
           \/ /\ i.dec = "COPY" /\ ~chunk[c].root
              /\ Privately(t, <<ReplaceFor(c, LowNew(c)), Normal(LowNew(c))>>)
           \/ /\ i.dec = "SPLIT" /\ chunk[c].root
              /\ Privately(t, <<NewRoot(c, i.sep), Normal(LowNew(c)), Normal(HighNew(c))>>)
           \/ /\ i.dec = "SPLIT" /\ ~chunk[c].root
              /\ Privately(t, SplitSteps(c, i.sep))
           \/ /\ i.dec = "MERGE" /\ ~MergeAsserts(c)
              /\ Fails(t, "merge: partners")
           \/ /\ i.dec = "MERGE" /\ MergeAsserts(c)
              /\ Privately(t, IF HighNew(c) = Null THEN MergeSteps(c) ELSE BorrowSteps(c, i.sep))

(***************************************************************************)
(* helpInfant, by the state of the chunk's creator.                        *)
(***************************************************************************)
HelpSteps(n) ==
    LET c == chunk[n].creator
    IN  CASE St(c) = "COPY"  -> <<Normal(n)>>
          [] St(c) = "SPLIT" -> Tail(SplitSteps(c, Null))
          [] St(c) = "MERGE" ->
                IF HighNew(c) = Null THEN MergeSteps(c)
                ELSE IF St(LowNew(c)) # "INFANT" THEN <<Normal(HighNew(c))>>
                ELSE BorrowSteps(c, LastKey(chunk[LowNew(c)]))

HelpStep(t) ==
    /\ At(t, "help") \/ (At(t, "helpInfant") /\ St(Now(t).c) = "INFANT")
    /\ LET c == chunk[Now(t).c].creator
       IN  IF /\ c # Null /\ St(c) \in {"COPY", "SPLIT", "MERGE"}
              /\ St(c) = "MERGE" => MergeAsserts(c)
           THEN Privately(t, HelpSteps(Now(t).c))
           ELSE Fails(t, "helpInfant")

HelpNot(t) ==
    /\ At(t, "helpInfant") /\ St(Now(t).c) # "INFANT"
    /\ Privately(t, <<>>)

NormalStep(t) ==
    /\ At(t, "normal")
    /\ Cas(Now(t).c, W("INFANT", Null), W("NORMAL", Null))
    /\ Then(t, <<>>)
    /\ UNCHANGED <<root, top, chunk, hold, fault>>
-----------------------------------------------------------------------------
(***************************************************************************)
(* findParent, and what its callers do with the parent p, in which entry   *)
(* cur points to the son: the root is read, then in each chunk the entry   *)
(* found, its son compared, and the son read again to go on there.         *)
(***************************************************************************)
FirstOther(p, cur) ==                                     \* a wrong version
    LET x == chunk[p]
        k == x.e[cur].key
    IN  IF PrevOf(x, k) # Null THEN CurOf(x, 1) ELSE CurOf(x, k + 1)
Neighbour(p, cur) ==
    LET x == chunk[p]
        k == x.e[cur].key
    IN  IF PrevOf(x, k) # Null THEN PrevOf(x, k) ELSE CurOf(x, k + 1)

Follow(i) ==
    LET p == i.at
        k == chunk[p].e[i.slot].key
    IN  CASE i.then = "insert"  -> <<InsertTo(p, i.key, i.new)>>
          [] i.then = "replace" -> <<ReplaceIn(p, k, i.son, i.new)>>
          [] i.then = "delete"  -> <<DeleteFrom(p, k, i.son)>>
          [] i.then = "unlink"  -> <<Unlink(p, k, i.son, i.new)>>
          [] i.then = "enslave" -> <<Request(i.son, i.new, p, i.near)>>

\* a master that is not in the tree any more has been merged
NoParent(t) ==
    LET i == Now(t)
    IN  IF i.then = "enslave" /\ ~Paired(i.son, Bud(i.son)) /\ ~Paired(Bud(i.son), i.son)
        THEN Fails(t, "findMergeSlave: merge accomplished") ELSE Privately(t, <<>>)

ParentStep(t) ==
    /\ At(t, "parent")
    /\ LET i   == Now(t)
           p   == i.at
           cur == CurOf(chunk[p], i.key)
       IN  \/ /\ p = Null /\ chunk[i.son].root
              /\ NoParent(t)
           \/ /\ p = Null /\ ~chunk[i.son].root
              /\ Privately(t, <<SearchIn(root, i)>>)
           \/ /\ p # Null /\ (Leaf(p) \/ cur = Null)
              /\ NoParent(t)
           \/ /\ p # Null /\ ~Leaf(p) /\ cur # Null
              /\ Privately(t, <<Found(p, i, cur, IF i.then = "enslave" THEN Neighbour(p, cur) ELSE Null)>>)

FoundStep(t) ==
    /\ At(t, "found")
    /\ LET i == Now(t)
       IN  \/ /\ Son(i.at, i.slot) # i.son
              /\ Privately(t, <<[i EXCEPT !.do = "onward"]>>)
           \/ /\ Son(i.at, i.slot) = i.son /\ i.then = "enslave" /\ i.near = Null
              /\ Fails(t, "findParent: neighbour")
           \/ /\ Son(i.at, i.slot) = i.son /\ (i.then = "enslave" => i.near # Null)
              /\ Privately(t, <<[do |-> "helpInfant", c |-> i.at]>> \o Follow(i))

OnwardStep(t) ==
    /\ At(t, "onward")
    /\ LET i == Now(t)
       IN  Privately(t, <<SearchIn(Son(i.at, i.slot), i)>>)

(***************************************************************************)
(* The entry of the low partner goes, with mergeRoot if it is in the root: *)
(* the merged chunk becomes the root when it is the only other son.        *)
(***************************************************************************)
UnlinkStep(t) ==
    /\ At(t, "unlink")
    /\ LET i    == Now(t)
           p    == chunk[i.c]
           new  == LowNew(i.master)
           sons == {p.e[j].data : j \in Linked(p)}
       IN  \/ /\ ~p.root \/ EntrNum(p) > 2
              /\ Privately(t, <<DeleteFrom(i.c, i.key, i.low)>>)
           \/ /\ p.root /\ EntrNum(p) < 2
              /\ Fails(t, "mergeRoot: two entries")
           \/ /\ p.root /\ EntrNum(p) = 2
              /\ Privately(t, IF sons \in {{i.master, new}, {Bud(i.master), new}}
                              THEN <<SetRoot(i.c, new), SwapRoot(i.c, new)>> ELSE <<>>)

SetRootStep(t) ==
    /\ At(t, "setRoot")
    /\ chunk' = [chunk EXCEPT ![Now(t).new].root = TRUE]
    /\ Then(t, <<>>)
    /\ UNCHANGED <<root, top, word, hold, fault>>

SwapRootStep(t) ==
    /\ At(t, "swapRoot")
    /\ root' = IF root = Now(t).c THEN Now(t).new ELSE root
    /\ Then(t, <<>>)
    /\ UNCHANGED <<top, chunk, word, hold, fault>>

\* splitRoot with addRootSons
NewRootStep(t) ==
    /\ At(t, "newRoot")
    /\ LET c    == Now(t).c
           sons == <<[key |-> Now(t).sep, data |-> LowNew(c), at |-> "linked"],
                     [key |-> MaxKey, data |-> HighNew(c), at |-> "linked"]>>
       IN  IF root = c
           THEN /\ top < MaxChunks
                /\ top' = top + 1
                /\ chunk' = Append(chunk, Chunk(sons, chunk[c].height + 1, TRUE, Null, t))
                /\ word' = Append(word, W("NORMAL", Null))
                /\ root' = top + 1
           ELSE UNCHANGED <<root, top, chunk, word>>
    /\ Then(t, <<>>)
    /\ UNCHANGED <<hold, fault>>
-----------------------------------------------------------------------------
(***************************************************************************)
(* History.  The set that the tree is: the keys a search that starts now   *)
(* would find, alone.  Leaf is Null when a chunk on the way has no entry   *)
(* for the key.                                                            *)
(***************************************************************************)
Below(ch, c, k) ==
    IF c = Null \/ ch[c].height = 0 THEN c
    ELSE LET cur == CurOf(ch[c], k) IN IF cur = Null THEN Null ELSE ch[c].e[cur].data

\* for trees of height 3 at most
LeafIn(ch, r, k) == Below(ch, Below(ch, Below(ch, r, k), k), k)

KeysFrom(ch, r) ==
    {k \in Key : LET c == LeafIn(ch, r, k) IN c # Null /\ Has(ch[c], k)}

Promise == INSTANCE ChunkSet

Protocol ==
    INSTANCE MergeWords WITH
        None <- Null,
        word  <- [c \in ChunkId |-> IF c <= top THEN word[c] ELSE W("UNUSED", Null)],
        new   <- [c \in ChunkId |-> IF c <= top THEN chunk[c].low ELSE Null]

(***************************************************************************)
(* A key that comes into the tree is the effect of the insert its entry    *)
(* stems from; one that goes is the effect of the thread that changed the  *)
(* leaf, or of the one that built the leaf that has replaced it.           *)
(***************************************************************************)
Authors(t, ch, r, added, removed) ==
    LET Owner(k) == LET x == ch[LeafIn(ch, r, k)] IN x.e[CurOf(x, k)].data
        Remover(k) == LET c == LeafIn(ch, r, k)
                      IN  IF c = LeafIn(chunk, root, k) \/ c = Null THEN t ELSE ch[c].by
    IN  {Owner(k) : k \in added} \cup {Remover(k) : k \in removed}

(***************************************************************************)
(* The keys of the threads in findLeaf that have found an entry, which now *)
(* gets another son although there is a new entry for the key by now: they *)
(* will read the son of an entry that is not theirs any more.              *)
(***************************************************************************)
LedAstray ==
    {call[u].key : u \in {u \in Thread :
        /\ At(u, "onto")
        /\ LET i == Now(u)
           IN  /\ chunk'[i.c].e[i.slot].data # Son(i.c, i.slot)
               /\ CurOf(chunk'[i.c], call[u].key) # i.slot}}

History(t) ==
    IF chunk' = chunk /\ root' = root THEN UNCHANGED <<content, call, misled>>
    ELSE /\ content' = KeysFrom(chunk', root')
         /\ misled' = misled \cup LedAstray
         /\ call' = LET authors == Authors(t, chunk', root', content' \ content, content \ content')
                        seen    == Promise!Observe(content')
                    IN  [u \in Thread |-> IF u \in authors THEN [seen[u] EXCEPT !.eff = TRUE]
                                          ELSE seen[u]]

Running == fault = "none"

(***************************************************************************)
(* start_routine: the barrier, then the calls one after the other.         *)
(***************************************************************************)
Begin(t) ==
    /\ Running
    /\ Arrive(t) \/ Leave(t)
    /\ UNCHANGED <<Shared, todo, hold, left, content, call, misled, fault>>

Invoke(t) ==
    /\ Running /\ place[t] = "through"
    /\ todo[t] = <<>> /\ left[t] # <<>>
    /\ left' = [left EXCEPT ![t] = Tail(@)]
    /\ todo' = [todo EXCEPT ![t] = <<Descend(root)>>]
    /\ UNCHANGED <<Shared, hold, misled, fault, gate>>
    /\ Promise!Invoke(t, Head(left[t]).kind, Head(left[t]).key)

Return(t) ==
    /\ Running
    /\ At(t, "respond")
    /\ call' = [call EXCEPT ![t] = [kind |-> "idle", key |-> @.key, eff |-> FALSE, seen |-> {},
                                    res |-> IF Now(t).result THEN "TRUE" ELSE "FALSE"]]
    /\ Then(t, <<>>)
    /\ UNCHANGED <<Shared, hold, left, content, misled, fault, gate>>

\* what every step of a call leaves alone, and the history
During(t) == Running /\ UNCHANGED <<left, gate>> /\ History(t)

Step(t) ==
    \/ Begin(t)
    \/ Invoke(t)
    \/ Return(t)
    \/ DescendStep(t) /\ During(t)
    \/ OntoStep(t) /\ During(t)
    \/ InsertStep(t) /\ During(t)
    \/ PlaceStep(t) /\ During(t)
    \/ LinkStep(t) /\ During(t)
    \/ DeleteStep(t) /\ During(t)
    \/ CompareStep(t) /\ During(t)
    \/ MarkStep(t) /\ During(t)
    \/ ReplaceStep(t) /\ During(t)
    \/ SwapStep(t) /\ During(t)
    \/ FreezeStep(t) /\ During(t)
    \/ SettleStep(t) /\ During(t)
    \/ DecideStep(t) /\ During(t)
    \/ PairStep(t) /\ During(t)
    \/ RequestStep(t) /\ During(t)
    \/ CheckStep(t) /\ During(t)
    \/ SetSlaveStep(t) /\ During(t)
    \/ LookStep(t) /\ During(t)
    \/ YieldStep(t) /\ During(t)
    \/ TakeStep(t) /\ During(t)
    \/ BuildStep(t) /\ During(t)
    \/ InstallStep(t) /\ During(t)
    \/ RepointStep(t) /\ During(t)
    \/ UpdateStep(t) /\ During(t)
    \/ HelpStep(t) /\ During(t)
    \/ HelpNot(t) /\ During(t)
    \/ NormalStep(t) /\ During(t)
    \/ ParentStep(t) /\ During(t)
    \/ FoundStep(t) /\ During(t)
    \/ OnwardStep(t) /\ During(t)
    \/ UnlinkStep(t) /\ During(t)
    \/ SetRootStep(t) /\ During(t)
    \/ SwapRootStep(t) /\ During(t)
    \/ NewRootStep(t) /\ During(t)

Init ==
    /\ \E s \in Starts :
          /\ chunk = s.chunk
          /\ word = [c \in DOMAIN s.chunk |-> W("NORMAL", Null)]
          /\ root = s.root
          /\ left = s.calls
    /\ top = Len(chunk)
    /\ content = KeysFrom(chunk, root)
    /\ todo = [t \in Thread |-> <<>>]
    /\ hold = [t \in Thread |-> NoHold]
    /\ call = [t \in Thread |-> [kind |-> "idle", key |-> 1, eff |-> FALSE, seen |-> {},
                                 res |-> "none"]]
    /\ misled = {}
    /\ fault = "none"
    /\ BarrierInit

AllDone ==
    /\ \A t \in Thread : todo[t] = <<>> /\ left[t] = <<>> /\ place[t] = "through"
    /\ UNCHANGED vars

Next == AllDone \/ \E t \in Thread : Step(t)

Spec == Init /\ [][Next]_vars

(***************************************************************************)
(* Fairness: the operating system runs the threads in Runner again and     *)
(* again; the others may stop for ever anywhere behind the barrier.  The   *)
(* first conjunct is the weak fairness of Step(t): Able(t) is what enables *)
(* it, and a thread's own steps are those that change its todo.            *)
(***************************************************************************)
Able(t) == Running /\ place[t] = "through" /\ (todo[t] # <<>> \/ left[t] # <<>>)

FairSpec ==
    /\ Spec
    /\ \A t \in Runner : []<>~Able(t) \/ []<><<todo'[t] # todo[t]>>_vars
    /\ \A t \in Thread : WF_gate(Arrive(t) \/ Leave(t))
-----------------------------------------------------------------------------
(***************************************************************************)
(* Properties.                                                             *)
(***************************************************************************)
SonsOf(c) == IF Leaf(c) THEN {} ELSE {Son(c, i) : i \in Linked(chunk[c])}

\* the chunks of the tree, which has height 2 at most
InTree ==
    LET below == UNION {SonsOf(c) : c \in SonsOf(root)}
    IN  {root} \cup SonsOf(root) \cup below

(***************************************************************************)
(* Words hold chunks that are in use, a freeze state with a partner has    *)
(* one, and no other has, and what a thread has read are slots.            *)
(***************************************************************************)
Alone    == {"INFANT", "NORMAL", "FREEZE", "COPY", "SPLIT"}
Together == {"REQUEST_SLAVE", "MERGE", "SLAVE_FREEZE"}

TypeOK ==
    /\ root \in 1 .. top /\ top \in ChunkId
    /\ chunk \in Seq(ChunkRecord)
    /\ Len(chunk) = top
    /\ \A c \in 1 .. top : chunk[c].low <= top /\ chunk[c].next <= top /\ chunk[c].creator <= top
    /\ word \in [1 .. top -> [st : Alone, bud : {Null}] \cup [st : Together, bud : 1 .. top]]
    /\ \A t \in Thread : hold[t].c \in 0 .. top
                         /\ (hold[t] # NoHold => hold[t].at \in 0 .. Len(chunk[hold[t].c].e))
    /\ BarrierType

(***************************************************************************)
(* The entries of a chunk fit into its array, also when entries are moved  *)
(* from one new chunk to the other, and when the call is performed in it.  *)
(***************************************************************************)
FitsArray == \A c \in 1 .. top : Len(chunk[c].e) <= MaxEntries

(***************************************************************************)
(* shouldMove never answers 2: the second of two entries that are moved to *)
(* the second new chunk would be linked past the first, which is lost.     *)
(***************************************************************************)
NothingLost ==
    \A t \in Thread : At(t, "build") /\ MayBuild(Now(t).c, Now(t).dec) =>
        ToMove(Replacement(t, Now(t).c, Now(t).dec), Partners) # 2

(***************************************************************************)
(* So entries can be moved from one new chunk to the other: each has a     *)
(* slot to go to, and none is linked past another one that is moved.       *)
(***************************************************************************)
MovesSafe == FitsArray /\ NothingLost

(***************************************************************************)
(* The tree stays balanced: each entry of an inner chunk, whether linked   *)
(* yet or not, leads to a chunk of the next lower level, through splits,   *)
(* merges and changes of the root by threads that work from chunks that    *)
(* have been replaced meanwhile.                                           *)
(***************************************************************************)
Balanced ==
    \A p \in 1 .. top : ~Leaf(p) => \A i \in DOMAIN chunk[p].e :
        Son(p, i) \in 1 .. top /\ chunk[Son(p, i)].height = chunk[p].height - 1

(***************************************************************************)
(* A chunk in MERGE has the slave that it points to, in SLAVE_FREEZE and   *)
(* pointing back, for good (the assertions of freeze, findMergeSlave and   *)
(* freezeRecovery on the two words).                                       *)
(***************************************************************************)
PartnersAgree == \A m \in 1 .. top : St(m) = "MERGE" => Paired(m, Bud(m))

(***************************************************************************)
(* A thread may be stopped for long between reading a word and comparing   *)
(* it: still, what has been decided for a chunk is never changed.          *)
(***************************************************************************)
DecisionsStay ==
    [][\A c \in 1 .. top :
          St(c) \in {"COPY", "SPLIT", "MERGE", "SLAVE_FREEZE"} => word'[c] = word[c]]_vars

(***************************************************************************)
(* A frozen chunk stays as it is, whatever was under way when the freeze   *)
(* bits were set: no entry of its list goes or changes (late ones may      *)
(* come), and once it has been replaced it is so for good.  All who help   *)
(* to replace it rely on that.                                             *)
(***************************************************************************)
FrozenStays ==
    [][\A c \in 1 .. top : LET x == chunk[c] IN x.frozen =>
          /\ chunk'[c].frozen
          /\ \A i \in Linked(x) : chunk'[c].e[i] = x.e[i]
          /\ x.low # Null => chunk'[c].low = x.low]_vars

(***************************************************************************)
(* None of the assertions of the code that BTree keeps fails.              *)
(***************************************************************************)
NoFault == fault = "none"

(***************************************************************************)
(* The tree is a set of keys with atomic calls: searchInTree, insertToTree *)
(* and deleteFromTree are linearizable, through the freezes, replacements  *)
(* and updates of the tree by merges, whoever helps.                       *)
(***************************************************************************)
ImplementsSet == Promise!Spec

(***************************************************************************)
(* The same beside splits and redivisions, where findLeaf may read the son *)
(* of an entry too late: only the answer to a call for a key it was led    *)
(* astray for may be wrong.  Whatever the call has done meanwhile, every   *)
(* change of the set is that of one call, and all other answers are right. *)
(***************************************************************************)
SetUnlessMisled ==
    /\ Promise!Init
    /\ [][\/ UNCHANGED <<content, call>>
          \/ Promise!Next
          \/ \E t \in Thread : Return(t) /\ call[t].key \in misled]_vars

(***************************************************************************)
(* An insertToTree that answers TRUE has put its key into the tree ("TRUE  *)
(* - if key was inserted succesfully").                                    *)
(***************************************************************************)
InsertsArrive ==
    \A t \in Thread : At(t, "respond") /\ Now(t).result /\ call[t].kind = "insert" => call[t].eff

(***************************************************************************)
(* A key leaves the tree only by a call of deleteFromTree for it: no       *)
(* update of the tree loses keys ("TRUE - if the key was deleted").        *)
(***************************************************************************)
KeysStay ==
    [][\A k \in content \ content' :
          \E t \in Thread : call[t].kind = "delete" /\ call[t].key = k]_vars

(***************************************************************************)
(* A leaf that can be changed holds only keys that a search is led to it   *)
(* for, unless findLeaf was led astray for the key.  (An infant leaf may   *)
(* hold keys that still lead to the chunks that it replaces; it is helped  *)
(* before it is changed.)                                                  *)
(***************************************************************************)
KeysInPlace ==
    \A c \in InTree : Leaf(c) /\ St(c) = "NORMAL" =>
        \A k \in KeysIn(chunk[c]) \ misled : LeafIn(chunk, root, k) = c

(***************************************************************************)
(* Two leaves that are merged are neighbours: no key of the tree lies      *)
(* between them ("required for merge (need neighbor)", findParent).        *)
(***************************************************************************)
MergesNeighbours ==
    \A m \in 1 .. top : Leaf(m) /\ St(m) = "MERGE" /\ chunk[m].low = Null =>
        LET low  == LowOf(m, Bud(m))
            high == HighOf(m, Bud(m))
        IN  \A k \in content : ~(LastKey(chunk[low]) < k /\ k < FirstKey(chunk[high]))

(***************************************************************************)
(* No chunk of the tree but the root falls below its minimum, although     *)
(* counters lag behind the lists, and a delete in an inner chunk whose     *)
(* data do not match never gives its decrement back.                       *)
(***************************************************************************)
MinimumInTree ==
    \A c \in InTree : ~chunk[c].root => EntrNum(chunk[c]) >= MinEntries

(***************************************************************************)
(* When every call has been answered nothing is left half done: each chunk *)
(* of the tree is NORMAL, the son of one entry, of the right height, only  *)
(* the root has the root flag, and no entry is waiting to be linked.       *)
(***************************************************************************)
RestsClean ==
    (\A t \in Thread : todo[t] = <<>>) =>
        \A c \in InTree :
            /\ word[c] = W("NORMAL", Null) /\ ~chunk[c].frozen
            /\ chunk[c].root <=> c = root
            /\ Pending(chunk[c]) = {}
            /\ \A s \in SonsOf(c) : chunk[s].height = chunk[c].height - 1
            /\ Cardinality({e \in InTree \X (1 .. MaxEntries) :
                                /\ ~Leaf(e[1]) /\ e[2] \in Linked(chunk[e[1]])
                                /\ Son(e[1], e[2]) = c})
                 = IF c = root THEN 0 ELSE 1

(***************************************************************************)
(* The mergeBuddy words follow the protocol of MergeWords.                 *)
(***************************************************************************)
FollowsProtocol == Protocol!Spec

(***************************************************************************)
(* "lock-free btree algorithm": the calls of a thread that runs on are     *)
(* answered, even if the others stop for ever in the middle of theirs.     *)
(***************************************************************************)
CallsAnswered == \A t \in Runner : Promise!Active(t) ~> ~Promise!Active(t)
===============================================================================
