------------------------------ MODULE MergeWords ------------------------------
(***************************************************************************)
(* What the mergeBuddy words of the chunks promise each other, whatever    *)
(* threads work on them: the freeze state of a chunk with its merge        *)
(* partner, and newChunk, the first chunk that has replaced it.  BTree     *)
(* implements it; here a step is one successful compare-and-swap of one    *)
(* word, and its guard is what the compare-and-swap compares: a thread may *)
(* come with a partner that it has looked up long before.  Only Take looks *)
(* at a second word, as the code does before or after it.                 *)
(***************************************************************************)
CONSTANTS ChunkId, None

VARIABLES
    word,       \* mergeBuddy: freeze state and partner
    new         \* newChunk

words == <<word, new>>

W(st, bud) == [st |-> st, bud |-> bud]

State == {"UNUSED", "INFANT", "NORMAL", "FREEZE", "COPY", "SPLIT",
          "REQUEST_SLAVE", "MERGE", "SLAVE_FREEZE"}

Used   == {c \in ChunkId : word[c].st # "UNUSED"}
Unused == ChunkId \ Used

TypeOK ==
    /\ word \in [ChunkId -> [st : State, bud : ChunkId \cup {None}]]
    /\ new \in [ChunkId -> ChunkId \cup {None}]

Init ==
    /\ word \in [ChunkId -> {W("NORMAL", None), W("UNUSED", None)}]
    /\ new = [c \in ChunkId |-> None]
-----------------------------------------------------------------------------
Set(c, w) == word' = [word EXCEPT ![c] = w]

(***************************************************************************)
(* Birth: a new root; one or two infants that replace c; a copy of c born  *)
(* enslaved to the master that the thread that built it works for.         *)
(***************************************************************************)
NewRoot(c) ==
    /\ word[c].st = "UNUSED"
    /\ Set(c, W("NORMAL", None))
    /\ UNCHANGED new

Replace(c) ==
    /\ word[c].st \in {"COPY", "SPLIT", "MERGE"} /\ new[c] = None
    /\ \E first, second \in Unused :
          /\ word' = [word EXCEPT ![first] = W("INFANT", None), ![second] = W("INFANT", None)]
          /\ new' = [new EXCEPT ![c] = first]

ReplaceEnslaved(c) ==
    /\ word[c].st = "COPY" /\ new[c] = None
    /\ \E m \in Used, copy \in Unused :
          /\ Set(copy, W("SLAVE_FREEZE", m))
          /\ new' = [new EXCEPT ![c] = copy]

\* only an infant becomes NORMAL
Grow(c) ==
    /\ word[c].st = "INFANT"
    /\ Set(c, W("NORMAL", None))
    /\ UNCHANGED new

FreezeWord(c) ==
    /\ word[c].st = "NORMAL"
    /\ Set(c, W("FREEZE", None))
    /\ UNCHANGED new

Decide(c) ==
    /\ word[c].st = "FREEZE"
    /\ \E dec \in {"COPY", "SPLIT"} : Set(c, W(dec, None))
    /\ UNCHANGED new

\* a master requests a slave, or another one: as the copy of the one it had requested
Request(m) ==
    /\ word[m].st \in {"FREEZE", "REQUEST_SLAVE"}
    /\ \E s \in Used : Set(m, W("REQUEST_SLAVE", s))
    /\ UNCHANGED new

Enslave(s) ==
    /\ word[s].st = "NORMAL"
    /\ \E m \in Used : Set(s, W("SLAVE_FREEZE", m))
    /\ UNCHANGED new

\* one that has requested another gives way to it
GiveWay(c) ==
    /\ word[c].st = "REQUEST_SLAVE"
    /\ Set(c, W("SLAVE_FREEZE", word[c].bud))
    /\ UNCHANGED new

Take(m) ==
    /\ word[m].st = "REQUEST_SLAVE" /\ word[word[m].bud] = W("SLAVE_FREEZE", m)
    /\ Set(m, W("MERGE", word[m].bud))
    /\ UNCHANGED new

Next ==
    \E c \in ChunkId :
        \/ NewRoot(c) \/ Replace(c) \/ ReplaceEnslaved(c) \/ Grow(c)
        \/ FreezeWord(c) \/ Decide(c) \/ Request(c) \/ Enslave(c)
        \/ GiveWay(c) \/ Take(c)

Spec == Init /\ [][Next]_words
-----------------------------------------------------------------------------
(***************************************************************************)
(* The two partners of a merge agree: the slave of a chunk in MERGE is in  *)
(* SLAVE_FREEZE and points back (the assertions of findMergeSlave, freeze, *)
(* merge and borrow).                                                      *)
(***************************************************************************)
PartnersAgree ==
    \A m, s \in ChunkId : word[m] = W("MERGE", s) => word[s] = W("SLAVE_FREEZE", m)
===============================================================================
