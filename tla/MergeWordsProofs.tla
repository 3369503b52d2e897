---------------------------- MODULE MergeWordsProofs ----------------------------
(***************************************************************************)
(* Proofs about the protocol of the mergeBuddy words.                      *)
(***************************************************************************)
EXTENDS MergeWords, TLAPS

(***************************************************************************)
(* What PartnersAgree rests on besides: a request and a slave have a       *)
(* partner.                                                                *)
(***************************************************************************)
HavePartner ==
    \A c \in ChunkId : word[c].st \in {"REQUEST_SLAVE", "SLAVE_FREEZE"} => word[c].bud \in ChunkId

IInv == TypeOK /\ HavePartner /\ PartnersAgree
-----------------------------------------------------------------------------
(***************************************************************************)
(* Every chunk is NORMAL or not in use at first, so that none has one.     *)
(***************************************************************************)
LEMMA InitInvariant ==
    ASSUME Init PROVE IInv
<1>1. /\ word \in [ChunkId -> [st : State, bud : ChunkId \cup {None}]]
      /\ \A c \in ChunkId : word[c].st \in {"NORMAL", "UNUSED"}
  <2>1. \A c \in ChunkId : word[c] \in {W("NORMAL", None), W("UNUSED", None)}
    BY DEF Init
  <2>2. {W("NORMAL", None), W("UNUSED", None)} \subseteq [st : State, bud : ChunkId \cup {None}]
    BY DEF W, State
  <2> QED
    BY <2>1, <2>2 DEF Init, W
<1>2. new = [c \in ChunkId |-> None]
  BY DEF Init
<1> QED
  BY <1>1, <1>2 DEF IInv, TypeOK, HavePartner, PartnersAgree, W
-----------------------------------------------------------------------------
(***************************************************************************)
(* Every action, with what it can disturb.                                 *)
(***************************************************************************)
LEMMA TypePreserved ==
    ASSUME IInv, [Next]_words PROVE TypeOK' /\ HavePartner'
<1> USE DEF TypeOK, HavePartner, W, State, Set, IInv, Used, Unused
<1>1. CASE UNCHANGED words
  BY <1>1 DEF words
<1>2. ASSUME NEW c \in ChunkId, NewRoot(c) \/ Grow(c) \/ FreezeWord(c) \/ Decide(c)
      PROVE  TypeOK' /\ HavePartner'
  BY <1>2 DEF NewRoot, Grow, FreezeWord, Decide
<1>3. ASSUME NEW c \in ChunkId, Request(c) \/ Enslave(c) \/ GiveWay(c) \/ Take(c)
      PROVE  TypeOK' /\ HavePartner'
  BY <1>3 DEF Request, Enslave, GiveWay, Take
<1>4. ASSUME NEW c \in ChunkId, Replace(c) PROVE TypeOK' /\ HavePartner'
  BY <1>4 DEF Replace
<1>5. ASSUME NEW c \in ChunkId, ReplaceEnslaved(c) PROVE TypeOK' /\ HavePartner'
  BY <1>5 DEF ReplaceEnslaved
<1> QED
  BY <1>1, <1>2, <1>3, <1>4, <1>5 DEF Next

Final == {"COPY", "SPLIT", "MERGE", "SLAVE_FREEZE"}

(***************************************************************************)
(* A chunk whose state is final keeps its word.                            *)
(***************************************************************************)
LEMMA FinalStays ==
    ASSUME IInv, [Next]_words, NEW d \in ChunkId, word[d].st \in Final
    PROVE  word'[d] = word[d]
<1> USE DEF TypeOK, W, Set, Final, IInv
<1>1. CASE UNCHANGED words
  BY <1>1 DEF words
<1>2. ASSUME NEW c \in ChunkId,
             NewRoot(c) \/ Grow(c) \/ FreezeWord(c) \/ Decide(c) \/ Request(c)
      PROVE  word'[d] = word[d]
  BY <1>2 DEF NewRoot, Grow, FreezeWord, Decide, Request
<1>3. ASSUME NEW c \in ChunkId, Enslave(c) \/ GiveWay(c) \/ Take(c)
      PROVE  word'[d] = word[d]
  BY <1>3 DEF Enslave, GiveWay, Take
<1>4. ASSUME NEW c \in ChunkId, Replace(c) \/ ReplaceEnslaved(c)
      PROVE  word'[d] = word[d]
  BY <1>4 DEF Replace, ReplaceEnslaved, Unused, Used
<1> QED
  BY <1>1, <1>2, <1>3, <1>4 DEF Next

LEMMA PartnersPreserved ==
    ASSUME IInv, [Next]_words PROVE PartnersAgree'
<1> SUFFICES ASSUME NEW m \in ChunkId, NEW s \in ChunkId, word'[m] = W("MERGE", s)
             PROVE  word'[s] = W("SLAVE_FREEZE", m)
  BY DEF PartnersAgree
\* a slave keeps its word, and only Take makes a master MERGE
<1>1. ASSUME word[s] = W("SLAVE_FREEZE", m) PROVE word'[s] = W("SLAVE_FREEZE", m)
  BY <1>1, FinalStays DEF Final, W
<1>2. CASE word[m] = W("MERGE", s)
  BY <1>1, <1>2 DEF IInv, PartnersAgree
<1>3. CASE word[m] # W("MERGE", s)
  <2> USE DEF IInv, TypeOK, W, Set
  <2>1. ~UNCHANGED words
    BY <1>3 DEF words
  <2>2. PICK c \in ChunkId :
            \/ NewRoot(c) \/ Replace(c) \/ ReplaceEnslaved(c) \/ Grow(c)
            \/ FreezeWord(c) \/ Decide(c) \/ Request(c) \/ Enslave(c)
            \/ GiveWay(c) \/ Take(c)
    BY <2>1 DEF Next
  <2>3. ~(NewRoot(c) \/ Grow(c) \/ FreezeWord(c) \/ Decide(c) \/ Request(c))
    BY <1>3 DEF NewRoot, Grow, FreezeWord, Decide, Request
  <2>4. ~(Enslave(c) \/ GiveWay(c) \/ Replace(c) \/ ReplaceEnslaved(c))
    BY <1>3 DEF Enslave, GiveWay, Replace, ReplaceEnslaved
  <2>5. Take(c) /\ c = m /\ word[m].bud = s
    BY <1>3, <2>2, <2>3, <2>4 DEF Take
  <2> QED
    BY <1>1, <2>5 DEF Take
<1> QED
  BY <1>2, <1>3
-----------------------------------------------------------------------------
LEMMA WordsInvariant == Spec => []IInv
<1>1. Init => IInv
  BY InitInvariant
<1>2. IInv /\ [Next]_words => IInv'
  BY TypePreserved, PartnersPreserved DEF IInv
<1> QED
  BY <1>1, <1>2, PTL DEF Spec

(***************************************************************************)
(* The words are what they are taken for.                                  *)
(***************************************************************************)
THEOREM WordsTypeCorrect == Spec => []TypeOK
<1>1. IInv => TypeOK
  BY DEF IInv
<1> QED
  BY <1>1, WordsInvariant, PTL

(***************************************************************************)
(* Whatever threads do to the words within the protocol, the two partners  *)
(* of a merge point at each other.                                         *)
(***************************************************************************)
THEOREM MergesAgree == Spec => []PartnersAgree
<1>1. IInv => PartnersAgree
  BY DEF IInv
<1> QED
  BY <1>1, WordsInvariant, PTL
===============================================================================
