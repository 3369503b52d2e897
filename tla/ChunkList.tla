------------------------------ MODULE ChunkList ------------------------------
(***************************************************************************)
(* The lock-free list inside one leaf chunk (height 0): searchInChunk,     *)
(* insertToChunk, deleteInChunk, insertEntry, find, clearEntry             *)
(* (chunkAlgorithm.c), the freeze of the chunk up to the hand-over to      *)
(* freezeRecovery (freeze, markChunkFrozen, stabilizeChunk,                *)
(* freezeDecision), and the part of setSlave that enslaves the chunk.      *)
(* The chunk is followed from the moment it is NORMAL, built by            *)
(* copyEntriesArray, until every call has been answered or handed over to  *)
(* the replacement chunk (answer "moved").                                 *)
(*                                                                         *)
(* An action holds one access to shared memory that another thread can     *)
(* disturb; the accesses fused into one action are named where it is       *)
(* defined, with the reason no interleaving is lost.  All accesses are     *)
(* compare-and-swaps and aligned word reads on x86, taken as sequentially  *)
(* consistent.                                                             *)
(***************************************************************************)
EXTENDS Integers, Sequences, FiniteSets

CONSTANTS
    Thread,
    MaxEntries, MinEntries,   \* MAX_ENTRIES and MIN_ENTRIES
    MaxKey,                   \* MAX_KEY; the keys are 1..MaxKey
    Root,                     \* the chunk's flag `root`
    InitList,                 \* the keys of the chunk when it becomes NORMAL
    Work,                     \* the calls each thread may make
    MaxCalls,                 \* bound: the number of calls a thread makes
    Runner                    \* the threads that are never stalled for ever

Key   == 1 .. MaxKey
NoKey == MaxKey + 1           \* NOT_DEFINED_KEY
Slot  == 0 .. MaxEntries - 1  \* positions in entriesArray
End   == MaxEntries           \* END_INDEX
EntryHead  == -1                   \* entryHead
Cell  == Slot \cup {EntryHead}

Trigger  == {"INSERT", "DELETE", "ENSLAVE", "NONE"}
Decision == {"R_COPY", "R_SPLIT", "R_MERGE"}
State    == {"NORMAL", "FREEZE", "COPY", "SPLIT", "MERGE", "REQUEST_SLAVE", "SLAVE_FREEZE"}
Kind     == {"search", "insert", "delete", "enslave"}
Answer   == {"none", "TRUE", "FALSE", "moved"}

ASSUME SizeAssumption ==
    /\ MaxEntries \in Nat \ {0}
    /\ MinEntries \in Nat \ {0}
    /\ MaxKey \in Nat \ {0}
    /\ Root \in BOOLEAN

ASSUME InitListAssumption ==
    /\ InitList \in Seq(Key)
    /\ Len(InitList) <= MaxEntries
    /\ \A i, j \in 1 .. Len(InitList) : i < j => InitList[i] < InitList[j]
    /\ ~Root => MinEntries <= Len(InitList)

ASSUME WorkAssumption ==
    /\ IsFiniteSet(Thread)
    /\ Thread # {}
    /\ Work \in [Thread -> SUBSET [kind : Kind, key : Key]]
    /\ MaxCalls \in Nat
    /\ Runner \subseteq Thread

(***************************************************************************)
(* A nextEntry word: the index of the successor, the version, the deleted  *)
(* bit and the frozen bit.  The version has 52 bits in the code and does   *)
(* not come near its limit here.  In a keyData word the data travels with  *)
(* the key in the same compare-and-swap and is left out.                   *)
(***************************************************************************)
Word    == [idx : 0 .. MaxEntries, ver : Nat, del : BOOLEAN, frz : BOOLEAN]
KeyWord == [key : 1 .. NoKey, frz : BOOLEAN]
NoWord  == [idx |-> End, ver |-> 0, del |-> FALSE, frz |-> FALSE]

\* setIndex(incVersion(w), i); the deleted and the frozen bit stay as they are
Bump(w, i) == [w EXCEPT !.idx = i, !.ver = @ + 1]

VARIABLES
    next,       \* the nextEntry word of the head and of every entry
    kd,         \* the keyData word of every entry
    counter,    \* chunk->counter, a uint64_t: -k stands for 2^64 - k
    fstate,     \* the freeze state in chunk->mergeBuddy
    pc,         \* per thread: the next step
    tg,         \* per thread: prev, cur, next of its ThreadGlobals
    my,         \* per thread: the local variables of the calls on its stack
    todo,       \* per thread: the number of calls it may still make
    content,    \* history: the set of keys, changed where calls take effect
    call,       \* history: the call in progress and its answer (see ChunkSet)
    settled     \* history: some stabilizeChunk has finished

vars == <<next, kd, counter, fstate, pc, tg, my, todo, content, call, settled>>

shared  == <<next, kd, counter, fstate>>
history == <<content, call, settled>>

\* the steps, and where find returns to
RestPC    == {"idle", "fault"}
FindPC    == {"fhead", "fnext", "funlink"}
InsertPC  == {"alloc", "ifrom", "ifound", "link", "inc", "cnext", "ckey", "chelp", "cfound"}
DeletePC  == {"dec", "dfound", "dmark", "dundo", "dunlink", "dfix"}
FreezePC  == {"frz", "switch", "slave", "mark", "slot", "slotfound", "decide", "recover"}
Label     == RestPC \cup FindPC \cup InsertPC \cup DeletePC \cup FreezePC \cup {"sfound"}
Return    == {"sfound", "ifound", "cfound", "dfound", "dfix", "slot", "slotfound"}

(***************************************************************************)
(* The local variables.  own is the entry an insert allocated, scan the    *)
(* loop variable of allocateEntry or stabilizeChunk, saved the word to be  *)
(* compared, ret and found the continuation and the result of find, trig   *)
(* the trigger of the freeze the thread is in ("-" outside freeze) and dec *)
(* the recovery decision ("-" while unknown).                              *)
(***************************************************************************)
Local ==
    [own : 0 .. MaxEntries, scan : 0 .. MaxEntries, saved : Word,
     ret : Return \cup {"-"}, found : BOOLEAN,
     trig : Trigger \cup {"-"}, dec : Decision \cup {"-"}]

NoPlace == [prev |-> EntryHead, cur |-> NoWord, next |-> NoWord]

Fresh == [own |-> End, scan |-> 0, saved |-> NoWord, ret |-> "-",
          found |-> FALSE, trig |-> "-", dec |-> "-"]

Active(t) == call[t].kind # "idle"

\* the entry insertEntry is called with: by insertToChunk, or by stabilizeChunk
Ent(t) == IF my[t].trig = "-" THEN my[t].own ELSE my[t].scan

\* the key find is called with
Sought(t) ==
    CASE my[t].ret \in {"ifound", "slotfound"} -> kd[Ent(t)].key
      [] my[t].ret = "cfound"                  -> kd[my[t].own].key
      [] my[t].ret = "slot"                    -> MaxKey
      [] OTHER                                 -> call[t].key

(***************************************************************************)
(* The entries reachable from the head, in order: the index reached after  *)
(* i steps (getEntrNum, noDeletedEntries and the like walk this way).      *)
(***************************************************************************)
Reached ==
    LET R[i \in 0 .. MaxEntries] ==
          IF i = 0 THEN next[EntryHead].idx
          ELSE LET p == R[i - 1] IN IF p = End THEN End ELSE next[p].idx
    IN  R

InList    == {Reached[i] : i \in 0 .. MaxEntries} \ {End}
KeysIn(S) == {kd[s].key : s \in S}
-----------------------------------------------------------------------------
(***************************************************************************)
(* Changes of the thread's own state that several actions share.           *)
(***************************************************************************)
Goto(t, l) == pc' = [pc EXCEPT ![t] = l]

\* the words of tg are not used again: the next find reads new ones
Forget(t) == tg' = [tg EXCEPT ![t] = NoPlace]

\* call find; it returns to step r
CallFind(t, m, r) ==
    /\ Goto(t, "fhead")
    /\ my' = [my EXCEPT ![t] = [m EXCEPT !.ret = r, !.found = FALSE]]
    /\ Forget(t)

\* find returns b
FindReturns(t, b) ==
    /\ Goto(t, my[t].ret)
    /\ my' = [my EXCEPT ![t].found = b]

\* stabilizeChunk goes on with entry i
GoToSlot(t, i) ==
    /\ Goto(t, "slot")
    /\ my' = [my EXCEPT ![t] = [Fresh EXCEPT !.own = my[t].own, !.scan = i,
                                             !.trig = my[t].trig, !.dec = my[t].dec]]
    /\ Forget(t)

SkipSlot(t) == GoToSlot(t, my[t].scan + 2)                \* a wrong version
NextSlot(t) == GoToSlot(t, my[t].scan + 1)

\* call freeze with trigger g
CallFreeze(t, g) ==
    /\ Goto(t, "frz")
    /\ my' = [my EXCEPT ![t] = [Fresh EXCEPT !.own = my[t].own, !.trig = g]]
    /\ Forget(t)

\* the call of t ends with answer r
Answers(t, r) ==
    /\ Goto(t, "idle")
    /\ my' = [my EXCEPT ![t] = Fresh]
    /\ Forget(t)
    /\ call' = [call EXCEPT ![t] = [kind |-> "idle", key |-> call[t].key, eff |-> FALSE,
                                    seen |-> {}, res |-> r]]
    /\ UNCHANGED <<content, settled>>

\* history: the set becomes C, and this is the effect of the calls of E
TakesEffect(E, C) ==
    /\ content' = C
    /\ call' = [u \in Thread |->
                  IF Active(u)
                  THEN [call[u] EXCEPT !.seen = @ \cup {call[u].key \in C},
                                       !.eff  = @ \/ u \in E]
                  ELSE call[u]]
    /\ UNCHANGED settled

\* the inserts that allocated entry e
Owners(e) == {u \in Thread : call[u].kind = "insert" /\ my[u].own = e}
-----------------------------------------------------------------------------
(***************************************************************************)
(* A thread calls one of the operations of the chunk.                      *)
(***************************************************************************)
Start(kind) ==
    CASE kind = "search"  -> "fhead"
      [] kind = "insert"  -> "alloc"
      [] kind = "delete"  -> "dec"
      [] kind = "enslave" -> "slave"

Invoke(t) ==
    /\ pc[t] = "idle" /\ todo[t] > 0
    /\ \E w \in Work[t] :
          /\ call' = [call EXCEPT ![t] =
                        [kind |-> w.kind, key |-> w.key, eff |-> FALSE,
                         seen |-> {w.key \in content}, res |-> "none"]]
          /\ Goto(t, Start(w.kind))
          /\ my' = [my EXCEPT ![t].ret = IF w.kind = "search" THEN "sfound" ELSE "-"]
    /\ todo' = [todo EXCEPT ![t] = @ - 1]
    /\ UNCHANGED <<shared, tg, content, settled>>

(***************************************************************************)
(* find.  `prev` is a cell; the word read from it is kept in cur.  Both    *)
(* reads of the head are one step: unless they agree, find starts again.   *)
(***************************************************************************)
FindHead(t) ==
    /\ pc[t] = "fhead"
    /\ tg' = [tg EXCEPT ![t] = [prev |-> EntryHead, cur |-> next[EntryHead], next |-> NoWord]]
    /\ IF next[EntryHead].idx = End THEN FindReturns(t, FALSE)
                               ELSE Goto(t, "fnext") /\ UNCHANGED my
    /\ UNCHANGED <<shared, todo, history>>

\* the key at which the search for key k ends
StopsAfter(key, k) == key > k                             \* a wrong version
StopsAt(key, k)    == key >= k

(***************************************************************************)
(* Look at the entry cur: its word and key are read between two            *)
(* validations of prev, and unless both succeed find starts again; the     *)
(* whole is one step at the moment the word is read.                       *)
(***************************************************************************)
FindNext(t) ==
    LET c == tg[t].cur.idx
        w == next[c]
    IN  /\ pc[t] = "fnext"
        /\ \/ /\ next[tg[t].prev] # tg[t].cur
              /\ Goto(t, "fhead")
              /\ UNCHANGED <<tg, my>>
           \/ /\ next[tg[t].prev] = tg[t].cur
              /\ w.del
              /\ tg' = [tg EXCEPT ![t].next = w]
              /\ Goto(t, "funlink")
              /\ UNCHANGED my
           \/ /\ next[tg[t].prev] = tg[t].cur
              /\ ~w.del
              /\ StopsAt(kd[c].key, Sought(t))
              /\ tg' = [tg EXCEPT ![t].next = w]
              /\ FindReturns(t, kd[c].key = Sought(t))
           \/ /\ next[tg[t].prev] = tg[t].cur
              /\ ~w.del
              /\ ~StopsAt(kd[c].key, Sought(t))
              /\ tg' = [tg EXCEPT ![t] = [prev |-> c, cur |-> w, next |-> w]]
              /\ IF w.idx = End THEN FindReturns(t, FALSE) ELSE UNCHANGED <<pc, my>>
        /\ UNCHANGED <<shared, todo, history>>

\* disconnect the deleted entry cur; retireEntry changes nothing in the chunk
FindUnlink(t) ==
    /\ pc[t] = "funlink"
    /\ \/ /\ next[tg[t].prev] # tg[t].cur
          /\ Goto(t, "fhead")
          /\ UNCHANGED <<next, tg, my>>
       \/ /\ next[tg[t].prev] = tg[t].cur
          /\ next' = [next EXCEPT ![tg[t].prev] = Bump(tg[t].cur, tg[t].next.idx)]
          /\ tg' = [tg EXCEPT ![t].cur = [tg[t].next EXCEPT !.del = FALSE]]
          /\ IF tg[t].next.idx = End THEN FindReturns(t, FALSE)
                                     ELSE Goto(t, "fnext") /\ UNCHANGED my
    /\ UNCHANGED <<kd, counter, fstate, todo, history>>
-----------------------------------------------------------------------------
\* searchInChunk: find has returned
SearchFound(t) ==
    /\ pc[t] = "sfound"
    /\ Answers(t, IF my[t].found THEN "TRUE" ELSE "FALSE")
    /\ UNCHANGED <<shared, todo>>

(***************************************************************************)
(* insertToChunk.  allocateEntry tries the entries in order, one           *)
(* compare-and-swap each; with none left the chunk is frozen.              *)
(***************************************************************************)
Allocate(t) ==
    /\ pc[t] = "alloc"
    /\ \/ /\ my[t].scan = MaxEntries
          /\ CallFreeze(t, "INSERT")
          /\ UNCHANGED kd
       \/ /\ my[t].scan < MaxEntries
          /\ kd[my[t].scan] = [key |-> NoKey, frz |-> FALSE]
          /\ kd' = [kd EXCEPT ![my[t].scan].key = call[t].key]
          /\ my' = [my EXCEPT ![t].own = my[t].scan]
          /\ Goto(t, "ifrom")
          /\ UNCHANGED tg
       \/ /\ my[t].scan < MaxEntries
          /\ kd[my[t].scan] # [key |-> NoKey, frz |-> FALSE]
          /\ my' = [my EXCEPT ![t].scan = @ + 1]
          /\ UNCHANGED <<pc, kd, tg>>
    /\ UNCHANGED <<next, counter, fstate, todo, history>>

(***************************************************************************)
(* insertEntry, for insertToChunk and for stabilizeChunk: read the word of *)
(* the entry, find its place, point the entry at its successor, then the   *)
(* predecessor at the entry.                                               *)
(***************************************************************************)
InsertFrom(t) ==
    /\ pc[t] = "ifrom"
    /\ CallFind(t, [my[t] EXCEPT !.saved = next[Ent(t)]], "ifound")
    /\ UNCHANGED <<shared, todo, history>>

\* the entry to be pointed at
Behind(t) == tg[t].next.idx                               \* a wrong version
Ahead(t)  == tg[t].cur.idx

InsertFound(t) ==
    LET e == Ent(t) IN
    /\ pc[t] = "ifound"
    /\ \/ /\ my[t].found /\ my[t].trig # "-"        \* linked meanwhile
          /\ NextSlot(t)
          /\ UNCHANGED <<next, history>>
       \/ /\ my[t].found /\ my[t].trig = "-"
          /\ tg[t].cur.idx = e                      \* SUCCESS_OTHER
          /\ Answers(t, "TRUE")
          /\ UNCHANGED next
       \/ /\ my[t].found /\ my[t].trig = "-"
          /\ tg[t].cur.idx # e                      \* EXISTED
          /\ Goto(t, "cnext")
          /\ UNCHANGED <<next, tg, my, history>>
       \/ /\ ~my[t].found
          /\ next[e] = my[t].saved
          /\ next' = [next EXCEPT ![e] = Bump(my[t].saved, Ahead(t))]
          /\ Goto(t, "link")
          /\ UNCHANGED <<tg, my, history>>
       \/ /\ ~my[t].found
          /\ next[e] # my[t].saved
          /\ Goto(t, "ifrom")
          /\ UNCHANGED <<next, tg, my, history>>
    /\ UNCHANGED <<kd, counter, fstate, todo>>

InsertLink(t) ==
    LET e == Ent(t) IN
    /\ pc[t] = "link"
    /\ \/ /\ next[tg[t].prev] # tg[t].cur
          /\ Goto(t, "ifrom")
          /\ UNCHANGED <<next, tg, my, history>>
       \/ /\ next[tg[t].prev] = tg[t].cur
          /\ next' = [next EXCEPT ![tg[t].prev] = Bump(tg[t].cur, e)]
          /\ TakesEffect(Owners(e), content \cup {kd[e].key})
          /\ IF my[t].trig = "-" THEN Goto(t, "inc") /\ UNCHANGED <<tg, my>>
                                 ELSE NextSlot(t)
    /\ UNCHANGED <<kd, counter, fstate, todo>>

\* SUCCESS_THIS: incCount, a compare-and-swap loop, is one step
InsertCount(t) ==
    /\ pc[t] = "inc"
    /\ counter' = counter + 1
    /\ Answers(t, "TRUE")
    /\ UNCHANGED <<next, kd, fstate, todo>>

(***************************************************************************)
(* clearEntry, called by insertToChunk for an entry whose key existed.     *)
(* Each compare-and-swap compares with the word as it was without the      *)
(* frozen bit, and only the frozen bit can have changed.                   *)
(***************************************************************************)
ClearNext(t) ==
    /\ pc[t] = "cnext"
    /\ \/ /\ ~next[my[t].own].frz
          /\ next' = [next EXCEPT ![my[t].own] = NoWord]
          /\ Goto(t, "ckey")
       \/ /\ next[my[t].own].frz
          /\ Goto(t, "chelp")
          /\ UNCHANGED next
    /\ UNCHANGED <<kd, counter, fstate, tg, my, todo, history>>

ClearKey(t) ==
    /\ pc[t] = "ckey"
    /\ \/ /\ ~kd[my[t].own].frz
          /\ kd' = [kd EXCEPT ![my[t].own].key = NoKey]
          /\ Answers(t, "FALSE")
       \/ /\ kd[my[t].own].frz
          /\ Goto(t, "chelp")
          /\ UNCHANGED <<kd, tg, my, history>>
    /\ UNCHANGED <<next, counter, fstate, todo>>

\* the key of the first entry is read for freeze: a list without one is a fault
ClearHelp(t) ==
    /\ pc[t] = "chelp"
    /\ IF next[EntryHead].idx = End THEN Goto(t, "fault") /\ UNCHANGED <<tg, my>>
                               ELSE CallFreeze(t, "NONE")
    /\ UNCHANGED <<shared, todo, history>>

\* after the freeze: was the entry linked by a stabilizeChunk?
KeyIsThere(t)   == my[t].found                            \* a wrong version
EntryIsThere(t) == my[t].found /\ tg[t].cur.idx = my[t].own

ClearFound(t) ==
    /\ pc[t] = "cfound"
    /\ Answers(t, IF EntryIsThere(t) THEN "TRUE" ELSE "FALSE")
    /\ UNCHANGED <<shared, todo>>
-----------------------------------------------------------------------------
(***************************************************************************)
(* deleteInChunk.  decCount claims the deletion unless the chunk is at its *)
(* minimum; its compare-and-swap loop is one step.                         *)
(***************************************************************************)
MayDecrementOnce(c) == ~(c < MinEntries /\ ~Root)         \* a wrong version
MayDecrement(c)     == ~(c = MinEntries /\ ~Root)

\* MAX(0, counter-1) does not clamp an unsigned word
Clamped(c)     == IF c - 1 > 0 THEN c - 1 ELSE 0          \* a wrong version
Decremented(c) == c - 1

DeleteCount(t) ==
    /\ pc[t] = "dec"
    /\ \/ /\ MayDecrement(counter)
          /\ counter' = Decremented(counter)
          /\ CallFind(t, my[t], "dfound")
       \/ /\ ~MayDecrement(counter)
          /\ CallFreeze(t, "DELETE")
          /\ UNCHANGED counter
    /\ UNCHANGED <<next, kd, fstate, todo, history>>

\* clearFrozen(clearDeleted(w))
Unmarked(w)  == [w EXCEPT !.del = FALSE, !.frz = FALSE]

\* the word to be marked is read again here, after find has read it into next
DeleteFound(t) ==
    /\ pc[t] = "dfound"
    /\ \/ /\ ~my[t].found
          /\ counter' = counter + 1
          /\ Answers(t, "FALSE")
       \/ /\ my[t].found
          /\ my' = [my EXCEPT ![t].saved = Unmarked(next[tg[t].cur.idx])]
          /\ Goto(t, "dmark")
          /\ UNCHANGED <<counter, tg, history>>
    /\ UNCHANGED <<next, kd, fstate, todo>>

NeverGivesUp(w) == FALSE                                  \* a wrong version
GivesUp(w)      == w.frz

DeleteMark(t) ==
    LET c == tg[t].cur.idx IN
    /\ pc[t] = "dmark"
    /\ \/ /\ next[c] = my[t].saved
          /\ next' = [next EXCEPT ![c] = [Bump(@, @.idx) EXCEPT !.del = TRUE]]
          /\ TakesEffect({t}, content \ {kd[c].key})
          /\ Goto(t, "dunlink")
          /\ UNCHANGED <<tg, my>>
       \/ /\ next[c] # my[t].saved
          /\ GivesUp(next[c])
          /\ Goto(t, "dundo")
          /\ UNCHANGED <<next, tg, my, history>>
       \/ /\ next[c] # my[t].saved
          /\ ~GivesUp(next[c])
          /\ CallFind(t, my[t], "dfound")
          /\ UNCHANGED <<next, history>>
    /\ UNCHANGED <<kd, counter, fstate, todo>>

\* the deletion is given back: incCount, and the chunk is helped to freeze
DeleteUndo(t) ==
    /\ pc[t] = "dundo"
    /\ counter' = counter + 1
    /\ CallFreeze(t, "DELETE")
    /\ UNCHANGED <<next, kd, fstate, todo, history>>

\* the entry is bypassed to the successor that find read before the mark
DeleteUnlink(t) ==
    /\ pc[t] = "dunlink"
    /\ \/ /\ next[tg[t].prev] = tg[t].cur
          /\ next' = [next EXCEPT ![tg[t].prev] = Bump(tg[t].cur, tg[t].next.idx)]
          /\ Answers(t, "TRUE")
       \/ /\ next[tg[t].prev] # tg[t].cur
          /\ CallFind(t, my[t], "dfix")
          /\ UNCHANGED <<next, history>>
    /\ UNCHANGED <<kd, counter, fstate, todo>>

DeleteFixed(t) ==
    /\ pc[t] = "dfix"
    /\ Answers(t, "TRUE")
    /\ UNCHANGED <<shared, todo>>
-----------------------------------------------------------------------------
(***************************************************************************)
(* freeze.  The thread tries to take the chunk from NORMAL to FREEZE, then *)
(* acts on the state it reads.                                             *)
(***************************************************************************)
FreezeStart(t) ==
    /\ pc[t] = "frz"
    /\ fstate' = IF fstate = "NORMAL" THEN "FREEZE" ELSE fstate
    /\ Goto(t, "switch")
    /\ UNCHANGED <<next, kd, counter, tg, my, todo, history>>

\* the decision that goes with a state, "-" when it has yet to be taken
DecisionOf(s) ==
    CASE s = "COPY"   -> "R_COPY"
      [] s = "SPLIT"  -> "R_SPLIT"
      [] s = "FREEZE" -> "-"
      [] OTHER        -> "R_MERGE"

FreezeSwitch(t) ==
    /\ pc[t] = "switch"
    /\ my' = [my EXCEPT ![t].dec = DecisionOf(fstate)]
    /\ Goto(t, IF fstate \in {"FREEZE", "SLAVE_FREEZE"} THEN "mark" ELSE "recover")
    /\ UNCHANGED <<shared, tg, todo, history>>

\* setSlave, called by the master of a merge: enslave the chunk or help it
Enslave(t) ==
    /\ pc[t] = "slave"
    /\ \/ /\ fstate \in {"NORMAL", "SLAVE_FREEZE"}
          /\ fstate' = "SLAVE_FREEZE"
          /\ my' = [my EXCEPT ![t].trig = "ENSLAVE", ![t].dec = "R_MERGE"]
          /\ Goto(t, "mark")
          /\ UNCHANGED tg
       \/ /\ fstate \notin {"NORMAL", "SLAVE_FREEZE"}
          /\ CallFreeze(t, "ENSLAVE")
          /\ UNCHANGED fstate
    /\ UNCHANGED <<next, kd, counter, todo, history>>

(***************************************************************************)
(* markChunkFrozen: head first, then the entries in order, in each the     *)
(* nextEntry word before the keyData word.  A word that is already frozen  *)
(* is passed without a step, since it stays frozen; the loop that repeats  *)
(* a failed compare-and-swap is one step.  The keyData word of the head is *)
(* not used anywhere.                                                      *)
(***************************************************************************)
KeyFrozen(c) == c = EntryHead \/ kd[c].frz
ButTheLast   == {c \in Cell \ {MaxEntries - 1} : ~next[c].frz \/ ~KeyFrozen(c)}  \* a wrong version
ToBeFrozen   == {c \in Cell : ~next[c].frz \/ ~KeyFrozen(c)}

MarkFrozen(t) ==
    /\ pc[t] = "mark"
    /\ \E c \in ToBeFrozen :
          /\ \A d \in ToBeFrozen : c <= d
          /\ IF ~next[c].frz
             THEN next' = [next EXCEPT ![c].frz = TRUE] /\ UNCHANGED kd
             ELSE kd' = [kd EXCEPT ![c].frz = TRUE] /\ UNCHANGED next
    /\ UNCHANGED <<counter, fstate, pc, tg, my, todo, history>>

\* stabilizeChunk begins: find(maxKey) disconnects the deleted entries
MarkedAll(t) ==
    /\ pc[t] = "mark"
    /\ ToBeFrozen = {}
    /\ CallFind(t, [my[t] EXCEPT !.scan = 0], "slot")
    /\ UNCHANGED <<shared, todo, history>>

(***************************************************************************)
(* The loop of stabilizeChunk: every entry that is allocated and not       *)
(* deleted is looked for, and linked when it is missing.  Both words of an *)
(* entry are frozen, so entries to be passed over can be passed at once.   *)
(***************************************************************************)
Allocated(i) == {s \in Slot : s >= i /\ kd[s].key # NoKey}  \* a wrong version
Pending(i)   == {s \in Slot : s >= i /\ kd[s].key # NoKey /\ ~next[s].del}

StabilizeNext(t) ==
    /\ pc[t] = "slot"
    /\ \E s \in Pending(my[t].scan) :
          /\ \A r \in Pending(my[t].scan) : s <= r
          /\ CallFind(t, [my[t] EXCEPT !.scan = s], "slotfound")
    /\ UNCHANGED <<shared, todo, history>>

StabilizeFound(t) ==
    /\ pc[t] = "slotfound"
    /\ IF my[t].found THEN NextSlot(t) ELSE Goto(t, "ifrom") /\ UNCHANGED <<tg, my>>
    /\ UNCHANGED <<shared, todo, history>>

StabilizeDone(t) ==
    /\ pc[t] = "slot"
    /\ Pending(my[t].scan) = {}
    /\ Goto(t, IF my[t].dec = "-" THEN "decide" ELSE "recover")
    /\ settled' = TRUE
    /\ Forget(t)
    /\ UNCHANGED <<shared, my, todo, content, call>>

(***************************************************************************)
(* freezeDecision counts the entries of the stabilised list, then the      *)
(* state is set; the list does not change any more (SettledListFixed).     *)
(* For R_MERGE findMergeSlave sets it, with the slave it has chosen.       *)
(***************************************************************************)
FreezeDecision(n) ==
    IF n = MinEntries /\ ~Root THEN "R_MERGE"
    ELSE IF n = MaxEntries     THEN "R_SPLIT"
    ELSE "R_COPY"

StateOf(d) ==
    CASE d = "R_COPY"  -> "COPY"
      [] d = "R_SPLIT" -> "SPLIT"
      [] d = "R_MERGE" -> "REQUEST_SLAVE"

Counter   == counter                                      \* a wrong version
EntrNum   == Cardinality(InList)

Decide(t) ==
    LET d == FreezeDecision(EntrNum) IN
    /\ pc[t] = "decide"
    /\ fstate' = IF fstate = "FREEZE" THEN StateOf(d) ELSE fstate
    /\ my' = [my EXCEPT ![t].dec = d]
    /\ Goto(t, "recover")
    /\ UNCHANGED <<next, kd, counter, tg, todo, history>>

(***************************************************************************)
(* freezeRecovery takes over: it performs the call in the replacement      *)
(* chunk.  After a freeze by clearEntry, find looks again in this chunk.   *)
(***************************************************************************)
Recover(t) ==
    /\ pc[t] = "recover"
    /\ \/ /\ my[t].trig # "NONE"
          /\ Answers(t, "moved")
       \/ /\ my[t].trig = "NONE"
          /\ CallFind(t, [my[t] EXCEPT !.trig = "-"], "cfound")
          /\ UNCHANGED history
    /\ UNCHANGED <<shared, todo>>

(***************************************************************************)
(* A thread at work on the partner ends the search for a slave: the chunk  *)
(* becomes the master of the merge or, when two leftmost chunks choose     *)
(* each other, the slave (findMergeSlave, setSlave).                       *)
(***************************************************************************)
PartnerResolves ==
    /\ fstate = "REQUEST_SLAVE"
    /\ fstate' \in {"MERGE", "SLAVE_FREEZE"}
    /\ UNCHANGED <<next, kd, counter, pc, tg, my, todo, history>>
-----------------------------------------------------------------------------
(***************************************************************************)
(* The chunk as copyEntriesArray leaves it: the keys in the first entries, *)
(* in order.                                                               *)
(***************************************************************************)
InitKeys == {InitList[i] : i \in 1 .. Len(InitList)}

Init ==
    /\ next = [c \in Cell |->
                 [idx |-> IF c + 1 < Len(InitList) THEN c + 1 ELSE End,
                  ver |-> IF c = EntryHead THEN 0 ELSE 1, del |-> FALSE, frz |-> FALSE]]
    /\ kd = [s \in Slot |->
               [key |-> IF s < Len(InitList) THEN InitList[s + 1] ELSE NoKey,
                frz |-> FALSE]]
    /\ counter = Len(InitList)
    /\ fstate = "NORMAL"
    /\ pc = [t \in Thread |-> "idle"]
    /\ tg = [t \in Thread |-> NoPlace]
    /\ my = [t \in Thread |-> Fresh]
    /\ todo = [t \in Thread |-> MaxCalls]
    /\ content = InitKeys
    /\ call = [t \in Thread |-> [kind |-> "idle", key |-> 1, eff |-> FALSE,
                                 seen |-> {}, res |-> "none"]]
    /\ settled = FALSE

FindStep(t)      == FindHead(t) \/ FindNext(t) \/ FindUnlink(t)
InsertStep(t)    == Allocate(t) \/ InsertFrom(t) \/ InsertFound(t) \/ InsertLink(t) \/ InsertCount(t)
ClearStep(t)     == ClearNext(t) \/ ClearKey(t) \/ ClearHelp(t) \/ ClearFound(t)
DeleteStep(t)    == DeleteCount(t) \/ DeleteFound(t) \/ DeleteMark(t) \/ DeleteUndo(t)
                       \/ DeleteUnlink(t) \/ DeleteFixed(t)
FreezeStep(t)    == FreezeStart(t) \/ FreezeSwitch(t) \/ Enslave(t) \/ MarkFrozen(t)
                       \/ MarkedAll(t) \/ Decide(t) \/ Recover(t)
StabilizeStep(t) == StabilizeNext(t) \/ StabilizeFound(t) \/ StabilizeDone(t)

\* a step inside a call
Step(t) ==
    \/ FindStep(t)   \/ SearchFound(t) \/ InsertStep(t) \/ ClearStep(t)
    \/ DeleteStep(t) \/ FreezeStep(t)  \/ StabilizeStep(t)

\* every thread has made its calls, or was stopped by a fault
AllDone ==
    /\ \A t \in Thread : pc[t] = "fault" \/ (pc[t] = "idle" /\ (todo[t] = 0 \/ Work[t] = {}))
    /\ UNCHANGED vars

Next ==
    \/ \E t \in Thread : Invoke(t) \/ Step(t)
    \/ PartnerResolves
    \/ AllDone

Spec == Init /\ [][Next]_vars

(***************************************************************************)
(* The operating system runs a thread again and again unless it is one of  *)
(* those that may be stalled for ever, in the middle of a call too.        *)
(***************************************************************************)
FairSpec == Spec /\ \A t \in Runner : WF_vars(Step(t))
-----------------------------------------------------------------------------
(***************************************************************************)
(* Types.  Every index stays within the entries, every thread is at a step *)
(* of the call it makes.                                                   *)
(***************************************************************************)
TypeOK ==
    /\ next \in [Cell -> Word]
    /\ kd \in [Slot -> KeyWord]
    /\ counter \in Int
    /\ fstate \in State
    /\ pc \in [Thread -> Label]
    /\ tg \in [Thread -> [prev : Cell, cur : Word, next : Word]]
    /\ my \in [Thread -> Local]
    /\ todo \in [Thread -> 0 .. MaxCalls]
    /\ content \subseteq Key
    /\ call \in [Thread -> [kind : Kind \cup {"idle"}, key : Key, eff : BOOLEAN,
                            seen : SUBSET BOOLEAN, res : Answer]]
    /\ settled \in BOOLEAN

(***************************************************************************)
(* What validateChunk was written to check (it is switched off), from      *)
(* every entry and not only from the head: the entry a word leads to has   *)
(* the larger key.  Wherever a thread stands, on an entry disconnected     *)
(* long ago too, it walks up, and comes to the end.                        *)
(***************************************************************************)
KeyOf(c) == IF c = EntryHead THEN 0 ELSE kd[c].key

ListSorted == \A c \in Cell : next[c].idx # End => KeyOf(c) < kd[next[c].idx].key

(***************************************************************************)
(* A walk along the list meets exactly the keys that inserts have put into *)
(* the chunk and deletes have not taken out, at every moment.              *)
(***************************************************************************)
LiveInList    == {s \in InList : ~next[s].del}
ListIsContent == content = KeysIn(LiveInList)

(***************************************************************************)
(* "TRUE - if key was inserted succesfully" (insertToTree): when no call   *)
(* is in progress, a walk meets every key an insert has put into the chunk *)
(* and no delete has taken out.                                            *)
(***************************************************************************)
InsertedKeysFound ==
    (\A t \in Thread : ~Active(t)) => content \subseteq KeysIn(LiveInList)

(***************************************************************************)
(* The calls are linearizable: the chunk implements the atomic set.        *)
(***************************************************************************)
Promise == INSTANCE ChunkSet
ImplementsSet == Promise!Spec

(***************************************************************************)
(* The counter: while the chunk is NORMAL it is the number of keys, less   *)
(* the inserts not yet counted and the deletes counted in advance          *)
(* (incCount comes after the link, decCount before the mark).              *)
(***************************************************************************)
Uncounted == {t \in Thread : pc[t] = "inc"}
Claimed   == {t \in Thread : \/ pc[t] \in {"dfound", "dmark", "dundo"}
                             \/ pc[t] \in FindPC /\ my[t].ret = "dfound"}

CounterExact ==
    fstate = "NORMAL" =>
        counter = Cardinality(content) - Cardinality(Uncounted) - Cardinality(Claimed)

(***************************************************************************)
(* A chunk other than the root never holds fewer than MIN_ENTRIES keys, in *)
(* no state at all: freezeDecision tests for equality with MIN_ENTRIES.    *)
(***************************************************************************)
MinimumKept == ~Root => Cardinality(content) >= MinEntries

(***************************************************************************)
(* Once one thread has stabilised the chunk, the list no longer changes,   *)
(* whoever is still on its way through the chunk: freezeRecovery copies it *)
(* without any further protection, several threads at a time.              *)
(***************************************************************************)
SettledListFixed == [][settled => Reached' = Reached]_vars

\* ... and the copy is complete: it holds all the keys, and nothing deleted
SettledComplete ==
    settled => /\ content = KeysIn(InList)
               /\ \A s \in InList : ~next[s].del /\ next[s].frz /\ kd[s].frz

(***************************************************************************)
(* All threads recover the chunk in the same way, the one its freeze state *)
(* tells (the assertions at the head of freezeRecovery's cases).           *)
(***************************************************************************)
DecisionAgreement ==
    \A t \in Thread : pc[t] = "recover" => my[t].dec = DecisionOf(fstate)

(***************************************************************************)
(* "should never insert deleted entry": the assertion in insertEntry, at   *)
(* every point of it.                                                      *)
(***************************************************************************)
NeverInsertDeleted ==
    \A t \in Thread :
        (pc[t] \in {"ifrom", "link"} \/ (pc[t] \in FindPC \cup {"ifound"} /\ my[t].ret = "ifound"))
            => ~next[Ent(t)].del

(***************************************************************************)
(* The chunk is lock-free: as long as it runs, a thread gets an answer to  *)
(* every call, even if other threads stop in the middle of theirs.         *)
(***************************************************************************)
CallsAnswered == \A t \in Runner : Active(t) ~> ~Active(t)
===============================================================================
