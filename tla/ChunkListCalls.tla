---------------------------- MODULE ChunkListCalls ----------------------------
(***************************************************************************)
(* The counter of a chunk, the end of its freeze, and the calls on it, for *)
(* any number of threads, any size of the chunk and the workloads of       *)
(* ChunkListContent.                                                       *)
(***************************************************************************)
EXTENDS ChunkListContent


(***************************************************************************)
(* The counter.  t owes a correction: it has linked an entry and not       *)
(* counted it, or counted a delete and not marked the entry.               *)
(***************************************************************************)
Owes(t) == \/ pc[t] \in {"inc", "dfound", "dmark", "dundo"}
           \/ pc[t] \in FindPC /\ my[t].ret = "dfound"
Owing   == {t \in Thread : Owes(t)}
Owed(t) == IF Owes(t) THEN 1 ELSE 0

\* t is at a step after the one that ends the state NORMAL
Freezes(t) == pc[t] \in {"switch", "mark", "decide", "recover"} \/ Stabilizing(t)

(***************************************************************************)
(* After the freeze, stabilizeChunk links entries that nobody counts, so   *)
(* that the counter may be too low, never too high.                        *)
(***************************************************************************)
CountInv ==
    /\ counter + Cardinality(Owing) <= Cardinality(content)
    /\ fstate = "NORMAL" => counter + Cardinality(Owing) = Cardinality(content)
    /\ ~Root => counter >= MinEntries
    /\ \A t \in Thread : Freezes(t) => fstate # "NORMAL"

LEMMA Cardinals ==
    ASSUME TypeInv
    PROVE  /\ IsFiniteSet(Owing) /\ Cardinality(Owing) \in Nat
           /\ IsFiniteSet(content) /\ Cardinality(content) \in Nat /\ counter \in Int
<1>1. Owing \subseteq Thread /\ IsFiniteSet(Thread)
  BY WorkAssumption DEF Owing
<1>2. content \subseteq 1 .. MaxKey /\ IsFiniteSet(1 .. MaxKey) /\ counter \in Int
  BY SizeAssumption, FS_Interval DEF TypeInv, TypeOK, Key
<1> QED
  BY <1>1, <1>2, FS_Subset, FS_CardinalityType

LEMMA OwingCounted ==
    ASSUME TypeInv
    PROVE  Cardinality(Owing) = Cardinality(Uncounted) + Cardinality(Claimed)
<1>1. Owing = Uncounted \cup Claimed /\ Uncounted \cap Claimed = {}
  BY DEF Owing, Owes, Uncounted, Claimed, FindPC
<1>2. IsFiniteSet(Uncounted) /\ IsFiniteSet(Claimed)
  BY <1>1, Cardinals, FS_Subset
<1>3. Cardinality(Uncounted \cap Claimed) = 0
  BY <1>1, FS_EmptySet
<1>4. Cardinality(Uncounted) \in Nat /\ Cardinality(Claimed) \in Nat
  BY <1>2, FS_CardinalityType
<1>5. Cardinality(Uncounted \cup Claimed)
        = Cardinality(Uncounted) + Cardinality(Claimed) - Cardinality(Uncounted \cap Claimed)
  BY <1>2, FS_Union
<1> QED
  BY ONLY <1>1, <1>3, <1>4, <1>5

\* only t's share changes
LEMMA OwingChanges ==
    ASSUME TypeInv, TypeInv', NEW t \in Thread, OthersStill(t)
    PROVE  Cardinality(Owing)' = Cardinality(Owing) + Owed(t)' - Owed(t)
<1>1. \A u \in Thread \ {t} : Owes(u)' <=> Owes(u)
  BY DEF OthersStill, Owes
<1>2. IsFiniteSet(Owing) /\ Cardinality(Owing) \in Nat
  BY Cardinals
<1>3. CASE Owes(t)' <=> Owes(t)
  <2>1. Owing' = Owing
    BY <1>1, <1>3 DEF Owing
  <2>2. Owed(t)' = Owed(t) /\ Owed(t) \in {0, 1}
    BY <1>3 DEF Owed
  <2> QED
    BY <1>2, <2>1, <2>2
<1>4. CASE Owes(t)' /\ ~Owes(t)
  <2>1. Owing' = Owing \cup {t} /\ t \notin Owing
    BY <1>1, <1>4 DEF Owing
  <2>2. Owed(t)' = 1 /\ Owed(t) = 0
    BY <1>4 DEF Owed
  <2>3. Cardinality(Owing \cup {t}) = Cardinality(Owing) + 1
    BY <1>2, <2>1, FS_AddElement
  <2> QED
    BY <1>2, <2>1, <2>2, <2>3
<1>5. CASE ~Owes(t)' /\ Owes(t)
  <2>1. Owing' = Owing \ {t} /\ t \in Owing
    BY <1>1, <1>5 DEF Owing
  <2>2. Owed(t)' = 0 /\ Owed(t) = 1
    BY <1>5 DEF Owed
  <2>3. Cardinality(Owing \ {t}) = Cardinality(Owing) - 1
    BY <1>2, <2>1, FS_RemoveElement
  <2> QED
    BY <1>2, <2>1, <2>2, <2>3
<1> QED
  BY <1>3, <1>4, <1>5

(***************************************************************************)
(* What a step of t has to show.                                           *)
(***************************************************************************)
StillFrozen(t) ==
    /\ fstate' = "NORMAL" => fstate = "NORMAL"
    /\ Freezes(t)' => Freezes(t) \/ fstate' # "NORMAL"

\* the number of keys changes by d
LEMMA CountKeeps ==
    ASSUME TypeInv, TypeInv', CountInv, NEW t \in Thread, OthersStill(t), StillFrozen(t),
           NEW d \in Int, Cardinality(content)' = Cardinality(content) + d,
           counter' + Owed(t)' <= counter + Owed(t) + d,
           fstate' = "NORMAL" => counter' + Owed(t)' = counter + Owed(t) + d,
           ~Root => counter' >= MinEntries
    PROVE  CountInv'
<1>1. Cardinality(Owing)' = Cardinality(Owing) + Owed(t)' - Owed(t)
  BY OwingChanges
<1>2. /\ Owed(t) \in Int /\ Owed(t)' \in Int /\ counter \in Int /\ counter' \in Int
      /\ Cardinality(Owing) \in Int /\ Cardinality(content) \in Int
  <2>1. counter' \in Int
    BY DEF TypeInv, TypeOK
  <2>2. Owed(t) \in Int /\ Owed(t)' \in Int
    BY DEF Owed
  <2> QED
    BY <2>1, <2>2, Cardinals
<1>3. counter' + Cardinality(Owing)' <= Cardinality(content)'
  BY <1>1, <1>2 DEF CountInv
<1>4. fstate' = "NORMAL" => counter' + Cardinality(Owing)' = Cardinality(content)'
  BY <1>1, <1>2 DEF CountInv, StillFrozen
<1>5. ASSUME NEW u \in Thread, Freezes(u)' PROVE fstate' # "NORMAL"
  <2>1. CASE u = t
    BY <1>5, <2>1 DEF StillFrozen, CountInv
  <2>2. CASE u # t
    <3>1. pc'[u] = pc[u] /\ my'[u] = my[u]
      BY <2>2 DEF OthersStill
    <3>2. Freezes(u)
      BY <1>5, <3>1 DEF Freezes, Stabilizing, Choosing, Inserting
    <3> QED
      BY <3>2 DEF StillFrozen, CountInv
  <2> QED
    BY <2>1, <2>2
<1> QED
  BY <1>3, <1>4, <1>5 DEF CountInv

(***************************************************************************)
(* The steps that neither count, nor link, nor mark.                       *)
(***************************************************************************)
Neutral(t) ==
    /\ OthersStill(t) /\ StillFrozen(t)
    /\ counter' = counter /\ content' = content /\ (Owes(t)' <=> Owes(t))

LEMMA NeutralKeeps ==
    ASSUME TypeInv, TypeInv', CountInv, NEW t \in Thread, Neutral(t) PROVE CountInv'
<1>1. Owed(t)' = Owed(t) /\ Owed(t) \in {0, 1}
  BY DEF Neutral, Owed
<1>2. Cardinality(content) \in Int /\ counter \in Int
  BY Cardinals
<1>3. Cardinality(content)' = Cardinality(content) + 0
  BY <1>2 DEF Neutral
<1>4. /\ counter' + Owed(t)' <= counter + Owed(t) + 0
      /\ counter' + Owed(t)' = counter + Owed(t) + 0
      /\ ~Root => counter' >= MinEntries
  BY <1>1, <1>2 DEF Neutral, CountInv
<1> QED
  BY <1>3, <1>4, CountKeeps DEF Neutral

\* where the thread goes, what follows for the two predicates
LEMMA OwesNot ==
    ASSUME TypeInv, NEW t \in Thread,
           pc'[t] \notin FindPC \cup {"inc", "dfound", "dmark", "dundo"}
             \/ (pc'[t] \in FindPC /\ my'[t].ret # "dfound")
    PROVE  ~Owes(t)'
BY DEF Owes, FindPC

LEMMA FreezesNot ==
    ASSUME NEW t \in Thread,
           \/ pc'[t] \in {"idle", "fault", "alloc", "dec", "slave", "frz", "inc", "cnext", "ckey",
                          "chelp", "cfound", "sfound", "dfound", "dmark", "dundo", "dunlink", "dfix"}
           \/ pc'[t] \in FindPC /\ my'[t].ret \in {"sfound", "cfound", "dfound", "dfix"}
           \/ (pc'[t] \in {"ifrom", "ifound", "link"} \/ (pc'[t] \in FindPC /\ my'[t].ret = "ifound"))
                 /\ my'[t].trig = "-"
    PROVE  ~Freezes(t)'
BY DEF Freezes, Stabilizing, Choosing, Inserting, FindPC

LEMMA AnswersNeutral ==
    ASSUME TypeInv, NEW t \in Thread, NEW r, Answers(t, r), ~Owes(t), UNCHANGED <<counter, fstate>>
    PROVE  Neutral(t)
<1>1. pc'[t] = "idle" /\ OthersStill(t) /\ content' = content
  BY DEF Answers, Goto, Forget, OthersStill, TypeInv, TypeOK
<1>2. ~Owes(t)' /\ ~Freezes(t)'
  BY <1>1, OwesNot, FreezesNot DEF FindPC
<1> QED
  BY <1>1, <1>2 DEF Neutral, StillFrozen

LEMMA CallFindNeutral ==
    ASSUME TypeInv, NEW t \in Thread, NEW m \in Local, NEW r \in Return \ {"dfound"}, CallFind(t, m, r),
           ~Owes(t), UNCHANGED <<counter, fstate, content>>,
           \/ r \in {"sfound", "cfound", "dfix"} \/ Freezes(t) \/ (r = "ifound" /\ m.trig = "-")
    PROVE  Neutral(t)
<1>1. pc'[t] = "fhead" /\ my'[t] = [m EXCEPT !.ret = r, !.found = FALSE] /\ OthersStill(t)
  BY DEF CallFind, Goto, Forget, OthersStill, TypeInv, TypeOK
<1>2. my'[t].ret = r /\ my'[t].trig = m.trig
  BY <1>1 DEF Local
<1>3. ~Owes(t)' /\ (Freezes(t) \/ ~Freezes(t)')
  BY <1>1, <1>2, OwesNot, FreezesNot DEF FindPC
<1> QED
  BY <1>1, <1>3 DEF Neutral, StillFrozen

LEMMA CallFreezeNeutral ==
    ASSUME TypeInv, NEW t \in Thread, NEW g, CallFreeze(t, g), ~Owes(t),
           UNCHANGED <<counter, fstate, content>>
    PROVE  Neutral(t)
<1>1. pc'[t] = "frz" /\ OthersStill(t)
  BY DEF CallFreeze, Goto, Forget, OthersStill, TypeInv, TypeOK
<1>2. ~Owes(t)' /\ ~Freezes(t)'
  BY <1>1, OwesNot, FreezesNot DEF FindPC
<1> QED
  BY <1>1, <1>2 DEF Neutral, StillFrozen

LEMMA NextSlotNeutral ==
    ASSUME TypeInv, NEW t \in Thread, NextSlot(t), ~Owes(t), Freezes(t),
           UNCHANGED <<counter, fstate, content>>
    PROVE  Neutral(t)
<1>1. pc'[t] = "slot" /\ OthersStill(t)
  BY DEF NextSlot, GoToSlot, Goto, Forget, OthersStill, TypeInv, TypeOK
<1>2. ~Owes(t)'
  BY <1>1, OwesNot DEF FindPC
<1> QED
  BY <1>1, <1>2 DEF Neutral, StillFrozen

\* to a step l with the local variables as they were
LEMMA GotoNeutral ==
    ASSUME TypeInv, NEW t \in Thread, NEW l \in Label \ FindPC, Goto(t, l), ~Owes(t),
           \A u \in Thread \ {t} : my'[u] = my[u], Forget(t) \/ UNCHANGED tg,
           l \notin {"inc", "dfound", "dmark", "dundo"},
           UNCHANGED <<counter, content>>, fstate' = "NORMAL" => fstate = "NORMAL",
           Freezes(t) \/ fstate' # "NORMAL" \/ l \in {"idle", "fault", "cnext", "ckey", "chelp", "dunlink"}
             \/ (l \in {"ifrom", "ifound", "link"} /\ my'[t].trig = "-")
    PROVE  Neutral(t)
<1>1. pc'[t] = l /\ OthersStill(t)
  BY DEF Goto, Forget, OthersStill, TypeInv, TypeOK
<1>2. ~Owes(t)' /\ (Freezes(t) \/ fstate' # "NORMAL" \/ ~Freezes(t)')
  BY <1>1, OwesNot, FreezesNot
<1> QED
  BY <1>1, <1>2 DEF Neutral, StillFrozen
-----------------------------------------------------------------------------
LEMMA FindStepNeutral ==
    ASSUME TypeInv, NEW t \in Thread, FindStep(t) PROVE Neutral(t)
<1>1. /\ pc[t] \in FindPC /\ UNCHANGED <<counter, fstate, content>>
      /\ \A u \in Thread \ {t} : tg'[u] = tg[u]
      /\ \/ \E b \in BOOLEAN : FindReturns(t, b)
         \/ UNCHANGED my /\ (UNCHANGED pc \/ \E l \in FindPC : Goto(t, l))
  <2>1. CASE FindHead(t)
    BY <2>1 DEF FindHead, FindPC, shared, history, TypeInv, TypeOK
  <2>2. CASE FindNext(t)
    <3>1. \A u \in Thread \ {t} : tg'[u] = tg[u]
      BY <2>2, FindNextMoves
    <3> QED
      BY <2>2, <3>1 DEF FindNext, FindPC, shared, history
  <2>3. CASE FindUnlink(t)
    <3>1. \A u \in Thread \ {t} : tg'[u] = tg[u]
      BY <2>3, FindUnlinkMoves
    <3> QED
      BY <2>3, <3>1 DEF FindUnlink, FindPC, history
  <2> QED
    BY <2>1, <2>2, <2>3 DEF FindStep
<1>2. /\ \A u \in Thread \ {t} : pc'[u] = pc[u] /\ my'[u] = my[u]
      /\ pc'[t] \in FindPC \/ pc'[t] = my[t].ret
      /\ my'[t].ret = my[t].ret /\ my'[t].trig = my[t].trig
  BY <1>1, FindMy
<1>3. my[t].ret \in Return /\ OthersStill(t)
  BY <1>1, <1>2 DEF TypeInv, TypeOK, Local, ThreadInv, FindInv, OthersStill
<1>4. Owes(t)' <=> Owes(t)
  BY <1>1, <1>2, <1>3 DEF Owes, FindPC, Return
<1>5. Freezes(t)' => Freezes(t)
  BY <1>1, <1>2, <1>3 DEF Freezes, Stabilizing, Choosing, Inserting, FindPC, Return
<1> QED
  BY <1>1, <1>3, <1>4, <1>5 DEF Neutral, StillFrozen

LEMMA AnsweringNeutral ==
    ASSUME TypeInv, NEW t \in Thread, SearchFound(t) \/ ClearFound(t) \/ DeleteFixed(t)
    PROVE  Neutral(t)
<1>1. ~Owes(t) /\ UNCHANGED <<counter, fstate>> /\ \E r \in Answer : Answers(t, r)
  BY DEF SearchFound, ClearFound, DeleteFixed, Owes, FindPC, shared, Answer
<1> QED
  BY <1>1, AnswersNeutral

LEMMA AllocateNeutral ==
    ASSUME TypeInv, NEW t \in Thread, Allocate(t) PROVE Neutral(t)
<1>1. /\ pc[t] = "alloc" /\ ~Owes(t) /\ UNCHANGED <<counter, fstate, content>> /\ my[t] \in Local
      /\ my[t].trig = "-"
  BY DEF Allocate, Owes, FindPC, history, TypeInv, TypeOK, ThreadInv, OwnInv
<1>2. CASE CallFreeze(t, "INSERT")
  BY <1>1, <1>2, CallFreezeNeutral
<1>3. CASE Goto(t, "ifrom") /\ my' = [my EXCEPT ![t].own = my[t].scan] /\ UNCHANGED tg
  <2>1. my'[t].trig = "-" /\ \A u \in Thread \ {t} : my'[u] = my[u]
    BY <1>1, <1>3 DEF TypeInv, TypeOK, Local
  <2> QED
    BY <1>1, <1>3, <2>1, GotoNeutral DEF Label, InsertPC, FindPC
<1>4. CASE my' = [my EXCEPT ![t].scan = @ + 1] /\ UNCHANGED <<pc, kd, tg>>
  <2>1. OthersStill(t) /\ pc'[t] = "alloc"
    BY <1>1, <1>4 DEF OthersStill, TypeInv, TypeOK
  <2>2. ~Owes(t)' /\ ~Freezes(t)'
    BY <2>1, OwesNot, FreezesNot DEF FindPC
  <2> QED
    BY <1>1, <2>1, <2>2 DEF Neutral, StillFrozen
<1> QED
  BY <1>2, <1>3, <1>4 DEF Allocate

LEMMA InsertFromNeutral ==
    ASSUME TypeInv, NEW t \in Thread, InsertFrom(t) PROVE Neutral(t)
<1>1. /\ pc[t] = "ifrom" /\ Inserting(t) /\ ~Owes(t) /\ UNCHANGED <<counter, fstate, content>>
  BY DEF InsertFrom, Inserting, Owes, FindPC, shared, history
<1> DEFINE m == [my[t] EXCEPT !.saved = next[Ent(t)]]
<1>2. m \in Local /\ m.trig = my[t].trig
  <2>1. next[Ent(t)] \in Word
    BY <1>1, EntryAtHand, WordTypes
  <2>2. my[t] \in Local
    BY DEF TypeInv, TypeOK
  <2> QED
    BY ONLY <2>1, <2>2 DEF m, Local
<1>3. my[t].trig # "-" => Freezes(t)
  BY <1>1, EntryAtHand DEF Freezes
<1>4. CallFind(t, m, "ifound")
  BY DEF InsertFrom
<1> HIDE DEF m
<1> QED
  BY <1>1, <1>2, <1>3, <1>4, CallFindNeutral DEF Return

LEMMA InsertFoundNeutral ==
    ASSUME TypeInv, NEW t \in Thread, InsertFound(t) PROVE Neutral(t)
<1>1. /\ pc[t] = "ifound" /\ Inserting(t) /\ ~Owes(t) /\ UNCHANGED <<counter, fstate>>
  BY DEF InsertFound, Inserting, Owes, FindPC
<1>2. my[t].trig # "-" => Freezes(t)
  BY <1>1, EntryAtHand DEF Freezes
<1>3. CASE my[t].trig # "-" /\ NextSlot(t) /\ UNCHANGED history
  BY <1>1, <1>2, <1>3, NextSlotNeutral DEF history
<1>4. CASE Answers(t, "TRUE")
  BY <1>1, <1>4, AnswersNeutral
<1>5. CASE UNCHANGED <<tg, my, history>> /\ (Goto(t, "cnext") \/ Goto(t, "link") \/ Goto(t, "ifrom"))
  <2>1. content' = content /\ my' = my /\ tg' = tg
    BY <1>5 DEF history
  <2> QED
    BY <1>1, <1>2, <1>5, <2>1, GotoNeutral DEF Label, InsertPC, FindPC
<1> QED
  BY <1>3, <1>4, <1>5 DEF InsertFound

LEMMA ClearNeutral ==
    ASSUME TypeInv, NEW t \in Thread, ClearNext(t) \/ ClearKey(t) \/ ClearHelp(t)
    PROVE  Neutral(t)
<1>1. pc[t] \in {"cnext", "ckey", "chelp"} /\ ~Owes(t) /\ UNCHANGED <<counter, fstate>>
  BY DEF ClearNext, ClearKey, ClearHelp, Owes, FindPC, shared
<1>2. CASE CallFreeze(t, "NONE") /\ UNCHANGED history
  BY <1>1, <1>2, CallFreezeNeutral DEF history
<1>3. CASE Answers(t, "FALSE")
  BY <1>1, <1>3, AnswersNeutral
<1>4. CASE UNCHANGED <<tg, my, history>> /\ (Goto(t, "ckey") \/ Goto(t, "chelp") \/ Goto(t, "fault"))
  <2>1. content' = content /\ my' = my /\ tg' = tg
    BY <1>4 DEF history
  <2> QED
    BY <1>1, <1>4, <2>1, GotoNeutral DEF Label, InsertPC, RestPC, FindPC
<1> QED
  BY <1>2, <1>3, <1>4 DEF ClearNext, ClearKey, ClearHelp

LEMMA DeleteUnlinkNeutral ==
    ASSUME TypeInv, NEW t \in Thread, DeleteUnlink(t) PROVE Neutral(t)
<1>1. ~Owes(t) /\ UNCHANGED <<counter, fstate>> /\ my[t] \in Local
  BY DEF DeleteUnlink, Owes, FindPC, TypeInv, TypeOK
<1>2. CASE Answers(t, "TRUE")
  BY <1>1, <1>2, AnswersNeutral
<1>3. CASE CallFind(t, my[t], "dfix") /\ UNCHANGED <<next, history>>
  BY <1>1, <1>3, CallFindNeutral DEF history, Return
<1> QED
  BY <1>2, <1>3 DEF DeleteUnlink

LEMMA FreezeNeutral ==
    ASSUME TypeInv, NEW t \in Thread, FreezeStart(t) \/ FreezeSwitch(t) \/ Decide(t)
    PROVE  Neutral(t)
<1>1. ~Owes(t) /\ content' = content /\ counter' = counter /\ tg' = tg
  BY DEF FreezeStart, FreezeSwitch, Decide, Owes, FindPC, shared, history
<1>2. \A u \in Thread \ {t} : my'[u] = my[u]
  BY DEF FreezeStart, FreezeSwitch, Decide, TypeInv, TypeOK
<1>3. CASE FreezeStart(t)
  <2>1. Goto(t, "switch") /\ fstate' # "NORMAL"
    BY <1>3 DEF FreezeStart
  <2> QED
    BY <1>1, <1>2, <2>1, GotoNeutral DEF Label, FreezePC, FindPC
<1>4. CASE FreezeSwitch(t)
  <2>1. Freezes(t) /\ fstate' = fstate /\ (Goto(t, "mark") \/ Goto(t, "recover"))
    BY <1>4 DEF FreezeSwitch, Freezes, shared
  <2> QED
    BY <1>1, <1>2, <2>1, GotoNeutral DEF Label, FreezePC, FindPC
<1>5. CASE Decide(t)
  <2>1. Freezes(t) /\ Goto(t, "recover") /\ (fstate' = "NORMAL" => fstate = "NORMAL")
    <3>1. FreezeDecision(EntrNum) \in {"R_MERGE", "R_SPLIT", "R_COPY"}
      BY DEF FreezeDecision
    <3>2. StateOf(FreezeDecision(EntrNum)) # "NORMAL"
      BY <3>1 DEF StateOf
    <3> QED
      BY <1>5, <3>2 DEF Decide, Freezes
  <2> QED
    BY <1>1, <1>2, <2>1, GotoNeutral DEF Label, FreezePC, FindPC
<1> QED
  BY <1>3, <1>4, <1>5

LEMMA EnslaveNeutral ==
    ASSUME TypeInv, NEW t \in Thread, Enslave(t) PROVE Neutral(t)
<1>1. ~Owes(t) /\ content' = content /\ counter' = counter
  BY DEF Enslave, Owes, FindPC, history
<1>2. CASE CallFreeze(t, "ENSLAVE") /\ UNCHANGED fstate
  BY <1>1, <1>2, CallFreezeNeutral
<1>3. CASE /\ fstate' = "SLAVE_FREEZE" /\ Goto(t, "mark") /\ UNCHANGED tg
           /\ my' = [my EXCEPT ![t].trig = "ENSLAVE", ![t].dec = "R_MERGE"]
  <2>1. \A u \in Thread \ {t} : my'[u] = my[u]
    BY <1>3 DEF TypeInv, TypeOK
  <2>2. fstate' # "NORMAL"
    BY <1>3
  <2> QED
    BY <1>1, <1>3, <2>1, <2>2, GotoNeutral DEF Label, FreezePC, FindPC
<1> QED
  BY <1>2, <1>3 DEF Enslave

LEMMA MarkNeutral ==
    ASSUME TypeInv, NEW t \in Thread, MarkFrozen(t) \/ MarkedAll(t) PROVE Neutral(t)
<1>1. /\ ~Owes(t) /\ Freezes(t) /\ UNCHANGED <<counter, fstate, content>> /\ my[t] \in Local
  BY DEF MarkFrozen, MarkedAll, Owes, Freezes, FindPC, shared, history, TypeInv, TypeOK
<1>2. CASE MarkFrozen(t)
  BY <1>1, <1>2 DEF MarkFrozen, Neutral, StillFrozen, OthersStill, Owes
<1>3. CASE CallFind(t, [my[t] EXCEPT !.scan = 0], "slot")
  <2>1. [my[t] EXCEPT !.scan = 0] \in Local
    BY <1>1, SizeAssumption DEF Local
  <2> QED
    BY <1>1, <1>3, <2>1, CallFindNeutral DEF Return
<1> QED
  BY <1>2, <1>3 DEF MarkedAll

LEMMA StabilizeNeutral ==
    ASSUME TypeInv, NEW t \in Thread, StabilizeStep(t) PROVE Neutral(t)
<1>1. /\ pc[t] \in {"slot", "slotfound"} /\ ~Owes(t) /\ Freezes(t)
      /\ UNCHANGED <<counter, fstate, content>> /\ my[t] \in Local
  BY DEF StabilizeStep, StabilizeNext, StabilizeFound, StabilizeDone, Owes, Freezes, Stabilizing,
         Choosing, FindPC, shared, history, TypeInv, TypeOK
<1>2. CASE StabilizeNext(t)
  <2>1. PICK s \in Slot : CallFind(t, [my[t] EXCEPT !.scan = s], "slotfound")
    BY <1>2 DEF StabilizeNext, Pending
  <2>2. [my[t] EXCEPT !.scan = s] \in Local
    BY <1>1, SizeAssumption DEF Local, Slot
  <2> QED
    BY <1>1, <2>1, <2>2, CallFindNeutral DEF Return
<1>3. CASE StabilizeFound(t)
  <2>1. CASE NextSlot(t)
    BY <1>1, <2>1, NextSlotNeutral
  <2>2. CASE Goto(t, "ifrom") /\ UNCHANGED <<tg, my>>
    BY <1>1, <2>2, GotoNeutral DEF Label, InsertPC, FindPC
  <2> QED
    BY <1>3, <2>1, <2>2 DEF StabilizeFound
<1>4. CASE StabilizeDone(t)
  <2>1. Forget(t) /\ my' = my /\ (Goto(t, "decide") \/ Goto(t, "recover"))
    BY <1>4 DEF StabilizeDone
  <2> QED
    BY <1>1, <2>1, GotoNeutral DEF Label, FreezePC, FindPC
<1> QED
  BY <1>2, <1>3, <1>4 DEF StabilizeStep

LEMMA RecoverNeutral ==
    ASSUME TypeInv, NEW t \in Thread, Recover(t) PROVE Neutral(t)
<1>1. ~Owes(t) /\ UNCHANGED <<counter, fstate>> /\ my[t] \in Local
  BY DEF Recover, Owes, FindPC, shared, TypeInv, TypeOK
<1>2. CASE Answers(t, "moved")
  BY <1>1, <1>2, AnswersNeutral
<1>3. CASE CallFind(t, [my[t] EXCEPT !.trig = "-"], "cfound") /\ UNCHANGED history
  <2>1. [my[t] EXCEPT !.trig = "-"] \in Local
    BY <1>1 DEF Local
  <2> QED
    BY <1>1, <1>3, <2>1, CallFindNeutral DEF Return, history
<1> QED
  BY <1>2, <1>3 DEF Recover

LEMMA InvokeNeutral ==
    ASSUME TypeInv, NEW t \in Thread, Invoke(t) PROVE Neutral(t)
<1>1. PICK w \in Work[t] : /\ Goto(t, Start(w.kind))
                           /\ my' = [my EXCEPT ![t].ret = IF w.kind = "search" THEN "sfound" ELSE "-"]
  BY DEF Invoke
<1>2. w.kind \in Kind /\ my[t] \in Local
  BY WorkAssumption DEF TypeInv, TypeOK
<1>3. /\ pc[t] = "idle" /\ ~Owes(t) /\ UNCHANGED <<counter, fstate, content>> /\ OthersStill(t)
  BY <1>1 DEF Invoke, Goto, Owes, FindPC, shared, OthersStill, TypeInv, TypeOK
<1>4. /\ pc'[t] = Start(w.kind) /\ (w.kind = "search" => my'[t].ret = "sfound")
  BY <1>1, <1>2 DEF Goto, TypeInv, TypeOK, Local
<1>5. pc'[t] \in {"alloc", "dec", "slave"} \/ (pc'[t] = "fhead" /\ my'[t].ret = "sfound")
  BY <1>2, <1>4 DEF Start, Kind
<1>6. ~Owes(t)' /\ ~Freezes(t)'
  BY <1>5, OwesNot, FreezesNot DEF FindPC
<1> QED
  BY <1>3, <1>6 DEF Neutral, StillFrozen
-----------------------------------------------------------------------------
(***************************************************************************)
(* The steps that count.                                                   *)
(***************************************************************************)
LEMMA CountingKeeps ==
    ASSUME TypeInv, TypeInv', CountInv, NEW t \in Thread, OthersStill(t), StillFrozen(t),
           content' = content, counter' + Owed(t)' = counter + Owed(t),
           ~Root => counter' >= MinEntries
    PROVE  CountInv'
<1>1. Cardinality(content) \in Int /\ counter \in Int /\ counter' \in Int
  BY Cardinals DEF TypeInv, TypeOK
<1>2. Owed(t) \in Int /\ Owed(t)' \in Int
  BY DEF Owed
<1>3. Cardinality(content)' = Cardinality(content) + 0
  BY <1>1
<1>4. counter' + Owed(t)' <= counter + Owed(t) + 0 /\ counter' + Owed(t)' = counter + Owed(t) + 0
  BY <1>1, <1>2
<1> QED
  BY <1>3, <1>4, CountKeeps

\* what was owed is counted
LEMMA SettlingKeeps ==
    ASSUME TypeInv, TypeInv', CountInv, NEW t \in Thread, OthersStill(t), StillFrozen(t),
           content' = content, Owes(t), ~Owes(t)', counter' = counter + 1
    PROVE  CountInv'
<1>1. Owed(t) = 1 /\ Owed(t)' = 0 /\ counter \in Int /\ MinEntries \in Int
  BY SizeAssumption DEF Owed, TypeInv, TypeOK
<1>2. counter' + Owed(t)' = counter + Owed(t) /\ (~Root => counter' >= MinEntries)
  BY <1>1 DEF CountInv
<1> QED
  BY <1>2, CountingKeeps

LEMMA InsertCountCounts ==
    ASSUME TypeInv, TypeInv', CountInv, NEW t \in Thread, InsertCount(t) PROVE CountInv'
<1>1. pc[t] = "inc" /\ Answers(t, "TRUE") /\ counter' = counter + 1 /\ fstate' = fstate
  BY DEF InsertCount
<1>2. pc'[t] = "idle" /\ OthersStill(t) /\ content' = content
  BY <1>1 DEF Answers, Goto, Forget, OthersStill, TypeInv, TypeOK
<1>3. Owes(t) /\ ~Owes(t)' /\ ~Freezes(t)'
  BY <1>1, <1>2, OwesNot, FreezesNot DEF Owes, FindPC
<1> QED
  BY <1>1, <1>2, <1>3, SettlingKeeps DEF StillFrozen

LEMMA DeleteUndoCounts ==
    ASSUME TypeInv, TypeInv', CountInv, NEW t \in Thread, DeleteUndo(t) PROVE CountInv'
<1>1. /\ pc[t] = "dundo" /\ CallFreeze(t, "DELETE") /\ counter' = counter + 1 /\ fstate' = fstate
      /\ content' = content
  BY DEF DeleteUndo, history
<1>2. pc'[t] = "frz" /\ OthersStill(t)
  BY <1>1 DEF CallFreeze, Goto, Forget, OthersStill, TypeInv, TypeOK
<1>3. Owes(t) /\ ~Owes(t)' /\ ~Freezes(t)'
  BY <1>1, <1>2, OwesNot, FreezesNot DEF Owes, FindPC
<1> QED
  BY <1>1, <1>2, <1>3, SettlingKeeps DEF StillFrozen

LEMMA DeleteFoundCounts ==
    ASSUME TypeInv, TypeInv', CountInv, NEW t \in Thread, DeleteFound(t) PROVE CountInv'
<1>1. pc[t] = "dfound" /\ fstate' = fstate /\ Owes(t)
  BY DEF DeleteFound, Owes
<1>2. CASE counter' = counter + 1 /\ Answers(t, "FALSE")
  <2>1. pc'[t] = "idle" /\ OthersStill(t) /\ content' = content
    BY <1>2 DEF Answers, Goto, Forget, OthersStill, TypeInv, TypeOK
  <2>2. ~Owes(t)' /\ ~Freezes(t)'
    BY <2>1, OwesNot, FreezesNot DEF FindPC
  <2> QED
    BY <1>1, <1>2, <2>1, <2>2, SettlingKeeps DEF StillFrozen
<1>3. CASE Goto(t, "dmark") /\ UNCHANGED <<counter, tg, history>> /\ \A u \in Thread \ {t} : my'[u] = my[u]
  <2>1. pc'[t] = "dmark" /\ OthersStill(t) /\ content' = content
    BY <1>3 DEF Goto, OthersStill, history, TypeInv, TypeOK
  <2>2. Owes(t)' /\ ~Freezes(t)'
    BY <2>1, FreezesNot DEF Owes
  <2> QED
    BY <1>1, <1>3, <2>1, <2>2, NeutralKeeps DEF Neutral, StillFrozen
<1>4. my' = [my EXCEPT ![t].saved = Unmarked(next[tg[t].cur.idx])] => \A u \in Thread \ {t} : my'[u] = my[u]
  BY DEF TypeInv, TypeOK
<1> QED
  BY <1>2, <1>3, <1>4 DEF DeleteFound

\* decCount does not go below the minimum
LEMMA DeleteCountCounts ==
    ASSUME TypeInv, TypeInv', CountInv, NEW t \in Thread, DeleteCount(t) PROVE CountInv'
<1>1. pc[t] = "dec" /\ fstate' = fstate /\ content' = content /\ ~Owes(t) /\ my[t] \in Local
  BY DEF DeleteCount, Owes, FindPC, history, TypeInv, TypeOK
<1>2. CASE MayDecrement(counter) /\ counter' = Decremented(counter) /\ CallFind(t, my[t], "dfound")
  <2>1. pc'[t] = "fhead" /\ my'[t].ret = "dfound" /\ OthersStill(t)
    BY <1>1, <1>2 DEF CallFind, Goto, Forget, OthersStill, TypeInv, TypeOK, Local
  <2>2. Owes(t)' /\ ~Freezes(t)'
    BY <2>1, FreezesNot DEF Owes, FindPC
  <2>3. Owed(t) = 0 /\ Owed(t)' = 1 /\ counter \in Int /\ MinEntries \in Int
    BY <1>1, <2>2, SizeAssumption DEF Owed, TypeInv, TypeOK
  <2>4. ~Root => counter >= MinEntries /\ counter # MinEntries
    BY <1>2 DEF MayDecrement, CountInv
  <2>5. counter' + Owed(t)' = counter + Owed(t) /\ (~Root => counter' >= MinEntries)
    BY <1>2, <2>3, <2>4 DEF Decremented
  <2> QED
    BY <1>1, <2>1, <2>2, <2>5, CountingKeeps DEF StillFrozen
<1>3. CASE CallFreeze(t, "DELETE") /\ UNCHANGED counter
  BY <1>1, <1>3, CallFreezeNeutral, NeutralKeeps
<1> QED
  BY <1>2, <1>3 DEF DeleteCount

(***************************************************************************)
(* An entry is linked whose key is new.                                    *)
(***************************************************************************)
LEMMA InsertLinkCounts ==
    ASSUME NEW L \in SUBSET Slot, Known(L), TypeInv', CountInv, NEW t \in Thread, InsertLink(t)
    PROVE  CountInv'
<1>1. /\ TypeInv /\ pc[t] = "link" /\ Inserting(t) /\ ~Owes(t) /\ UNCHANGED <<counter, fstate>>
  BY DEF Known, InsertLink, Inserting, Owes, FindPC
<1>2. my[t].trig # "-" => Freezes(t)
  BY <1>1, EntryAtHand DEF Freezes
<1>3. CASE Goto(t, "ifrom") /\ UNCHANGED <<tg, my, history>>
  <2>1. content' = content /\ my' = my /\ tg' = tg
    BY <1>3 DEF history
  <2> QED
    BY <1>1, <1>2, <1>3, <2>1, GotoNeutral, NeutralKeeps DEF Label, InsertPC, FindPC
<1>4. CASE /\ next[tg[t].prev] = tg[t].cur
           /\ content' = content \cup {kd[Ent(t)].key}
           /\ IF my[t].trig = "-" THEN Goto(t, "inc") /\ UNCHANGED <<tg, my>>
                                  ELSE NextSlot(t)
  <2>1. kd[Ent(t)].key \notin content
    <3>1. \A x \in Live(L) : kd[x].key # kd[Ent(t)].key
      BY <1>1, <1>4, PlaceFacts DEF AtPlace
    <3> QED
      BY <3>1 DEF Known, Content, ListInv, Holds, KeysIn
  <2>2. Cardinality(content)' = Cardinality(content) + 1
    BY <1>1, <1>4, <2>1, Cardinals, FS_AddElement
  <2>3. counter \in Int /\ Owed(t) = 0
    BY <1>1 DEF Owed, TypeInv, TypeOK
  <2>4. CASE my[t].trig = "-"
    <3>1. pc'[t] = "inc" /\ OthersStill(t)
      BY <1>1, <1>4, <2>4 DEF Goto, OthersStill, TypeInv, TypeOK
    <3>2. Owed(t)' = 1 /\ ~Freezes(t)'
      BY <3>1, FreezesNot DEF Owed, Owes
    <3>3. counter' + Owed(t)' <= counter + Owed(t) + 1 /\ counter' + Owed(t)' = counter + Owed(t) + 1
      BY <1>1, <2>3, <3>2
    <3> QED
      BY <1>1, <2>2, <3>1, <3>2, <3>3, CountKeeps DEF StillFrozen, CountInv
  <2>5. CASE my[t].trig # "-"
    <3>1. pc'[t] = "slot" /\ OthersStill(t)
      BY <1>1, <1>4, <2>5 DEF NextSlot, GoToSlot, Goto, Forget, OthersStill, TypeInv, TypeOK
    <3>2. Owed(t)' = 0 /\ fstate' # "NORMAL"
      BY <1>1, <1>2, <2>5, <3>1, OwesNot DEF Owed, FindPC, CountInv
    <3>3. counter' + Owed(t)' <= counter + Owed(t) + 1
      BY <1>1, <2>3, <3>2
    <3> QED
      BY <1>1, <2>2, <3>1, <3>2, <3>3, CountKeeps DEF StillFrozen, CountInv
  <2> QED
    BY <2>4, <2>5
<1> QED
  BY <1>3, <1>4 DEF InsertLink, TakesEffect

(***************************************************************************)
(* An entry is marked whose key was there.                                 *)
(***************************************************************************)
LEMMA DeleteMarkCounts ==
    ASSUME NEW L \in SUBSET Slot, Known(L), InsertsBelow, TypeInv', CountInv, NEW t \in Thread,
           DeleteMark(t)
    PROVE  CountInv'
<1>1. /\ TypeInv /\ pc[t] = "dmark" /\ Owes(t) /\ UNCHANGED <<counter, fstate>> /\ my[t] \in Local
  BY DEF Known, DeleteMark, Owes, TypeInv, TypeOK
<1>2. CASE Goto(t, "dundo") /\ UNCHANGED <<next, tg, my, history>>
  <2>1. pc'[t] = "dundo" /\ OthersStill(t) /\ content' = content
    BY <1>1, <1>2 DEF Goto, OthersStill, history, TypeInv, TypeOK
  <2>2. Owes(t)' /\ ~Freezes(t)'
    BY <2>1, FreezesNot DEF Owes
  <2> QED
    BY <1>1, <2>1, <2>2, NeutralKeeps DEF Neutral, StillFrozen
<1>3. CASE CallFind(t, my[t], "dfound") /\ UNCHANGED <<next, history>>
  <2>1. pc'[t] = "fhead" /\ my'[t].ret = "dfound" /\ OthersStill(t) /\ content' = content
    BY <1>1, <1>3 DEF CallFind, Goto, Forget, OthersStill, history, TypeInv, TypeOK, Local
  <2>2. Owes(t)' /\ ~Freezes(t)'
    BY <2>1, FreezesNot DEF Owes, FindPC
  <2> QED
    BY <1>1, <2>1, <2>2, NeutralKeeps DEF Neutral, StillFrozen
<1>4. CASE /\ next[tg[t].cur.idx] = my[t].saved
           /\ content' = content \ {kd[tg[t].cur.idx].key}
           /\ Goto(t, "dunlink") /\ UNCHANGED <<tg, my>>
  <2>1. kd[tg[t].cur.idx].key \in content
    <3>1. PICK c \in Live(L) : c = tg[t].cur.idx
      BY <1>1, <1>4, MarkFacts
    <3> QED
      BY <3>1 DEF Known, Content, ListInv, Holds, KeysIn
  <2>2. Cardinality(content)' = Cardinality(content) + (-1)
    <3>1. Cardinality(content \ {kd[tg[t].cur.idx].key}) = Cardinality(content) - 1
      BY <1>1, <2>1, Cardinals, FS_RemoveElement
    <3> QED
      BY <1>1, <1>4, <3>1, Cardinals
  <2>3. pc'[t] = "dunlink" /\ OthersStill(t)
    BY <1>1, <1>4 DEF Goto, OthersStill, TypeInv, TypeOK
  <2>4. Owed(t) = 1 /\ Owed(t)' = 0 /\ ~Freezes(t)' /\ counter \in Int
    BY <1>1, <2>3, OwesNot, FreezesNot DEF Owed, FindPC, TypeInv, TypeOK
  <2>5. /\ counter' + Owed(t)' <= counter + Owed(t) + (-1)
        /\ counter' + Owed(t)' = counter + Owed(t) + (-1)
    BY <1>1, <2>4
  <2> QED
    BY <1>1, <2>2, <2>3, <2>4, <2>5, CountKeeps DEF StillFrozen, CountInv
<1> QED
  BY <1>2, <1>3, <1>4 DEF DeleteMark, TakesEffect
-----------------------------------------------------------------------------
LEMMA StepCounts ==
    ASSUME NEW L \in SUBSET Slot, Known(L), InsertsBelow, TypeInv', CountInv, NEW t \in Thread,
           Invoke(t) \/ Step(t)
    PROVE  CountInv'
<1>1. TypeInv
  BY DEF Known
<1>2. CASE FindStep(t)
  BY <1>1, <1>2, FindStepNeutral, NeutralKeeps
<1>3. CASE SearchFound(t) \/ ClearStep(t)
  BY <1>1, <1>3, AnsweringNeutral, ClearNeutral, NeutralKeeps DEF ClearStep
<1>4. CASE InsertStep(t)
  BY <1>1, <1>4, AllocateNeutral, InsertFromNeutral, InsertFoundNeutral, NeutralKeeps,
     InsertLinkCounts, InsertCountCounts DEF InsertStep
<1>5. CASE DeleteStep(t)
  BY <1>1, <1>5, AnsweringNeutral, DeleteUnlinkNeutral, NeutralKeeps, DeleteCountCounts,
     DeleteFoundCounts, DeleteMarkCounts, DeleteUndoCounts DEF DeleteStep
<1>6. CASE FreezeStep(t)
  BY <1>1, <1>6, FreezeNeutral, EnslaveNeutral, MarkNeutral, RecoverNeutral, NeutralKeeps
     DEF FreezeStep
<1>7. CASE StabilizeStep(t) \/ Invoke(t)
  BY <1>1, <1>7, StabilizeNeutral, InvokeNeutral, NeutralKeeps
<1> QED
  BY <1>2, <1>3, <1>4, <1>5, <1>6, <1>7 DEF Step

LEMMA NextCounts ==
    ASSUME InsertsBelow, TypeInv, PrivacyInv, OrderInv, HasList, CountInv, TypeInv', [Next]_vars
    PROVE  CountInv'
<1>1. PICK L \in SUBSET Slot : Known(L)
  BY DEF HasList, Known
<1>2. ASSUME NEW t \in Thread, Invoke(t) \/ Step(t) PROVE CountInv'
  BY <1>1, <1>2, StepCounts
<1>3. CASE PartnerResolves \/ AllDone \/ UNCHANGED vars
  <2>1. /\ UNCHANGED <<counter, pc, my, content>>
        /\ fstate' = "NORMAL" => fstate = "NORMAL"
    BY <1>3 DEF PartnerResolves, AllDone, vars, history
  <2>2. Owing' = Owing /\ \A t \in Thread : Freezes(t)' <=> Freezes(t)
    BY <2>1 DEF Owing, Owes, Freezes, Stabilizing, Choosing, Inserting
  <2> QED
    BY <2>1, <2>2 DEF CountInv
<1> QED
  BY <1>2, <1>3 DEF Next

LEMMA InitCounts == Init => CountInv
<1> SUFFICES ASSUME Init PROVE CountInv
  OBVIOUS
<1>1. PICK n \in Nat : n = Len(InitList) /\ (~Root => MinEntries <= n)
  BY InitListAssumption
<1>2. Owing = {} /\ \A t \in Thread : ~Freezes(t)
  BY DEF Init, Owing, Owes, Freezes, Stabilizing, Choosing, Inserting, FindPC
<1>3. Cardinality(Owing) = 0
  BY <1>2, FS_EmptySet
<1>4. Cardinality(content) = n
  <2> DEFINE f == [i \in 1 .. n |-> InitList[i]]
  <2>1. content = {f[i] : i \in 1 .. n}
    BY <1>1 DEF Init, InitKeys
  <2>2. f \in Bijection(1 .. n, content)
    <3>1. \A i, j \in 1 .. n : f[i] = f[j] => i = j
      <4> SUFFICES ASSUME NEW i \in 1 .. n, NEW j \in 1 .. n, f[i] = f[j] PROVE i = j
        OBVIOUS
      <4>1. InitList[i] = InitList[j] /\ InitList[i] \in Key
        BY <1>1, InitListAssumption
      <4>2. InitList[i] \in Int /\ ~(i < j) /\ ~(j < i)
        BY <1>1, <4>1, InitListAssumption DEF Key
      <4> QED
        BY <4>2
    <3> QED
      BY <2>1, <3>1 DEF Bijection, Injection, Surjection, IsInjective
  <2>3. IsFiniteSet(1 .. n) /\ Cardinality(1 .. n) = n
    BY FS_Interval
  <2> QED
    BY <2>2, <2>3, FS_Bijection DEF ExistsBijection
<1> QED
  BY <1>1, <1>2, <1>3, <1>4 DEF Init, CountInv

(***************************************************************************)
(* The counter follows the calls, in every state.                          *)
(***************************************************************************)
THEOREM CounterInvariant ==
    ASSUME InsertsBelow
    PROVE  Spec => [](TypeInv /\ PrivacyInv /\ OrderInv /\ HasList /\ CountInv)
<1>1. HasList /\ CountInv /\ TypeInv /\ PrivacyInv /\ OrderInv /\ TypeInv'
        /\ [Next]_vars => CountInv'
  BY NextCounts
<1> QED
  BY InitCounts, ListInvariant, <1>1, PTL DEF Spec

(***************************************************************************)
(* While the chunk is NORMAL, its counter is the number of keys, less the  *)
(* inserts not yet counted and the deletes counted in advance (incCount,   *)
(* decCount): for every value of the constants with which no key is        *)
(* inserted that is larger than one deleted.                               *)
(***************************************************************************)
THEOREM CounterFollows ==
    ASSUME InsertsBelow PROVE Spec => []CounterExact
<1>1. TypeInv /\ CountInv => CounterExact
  <2> SUFFICES ASSUME TypeInv, CountInv, fstate = "NORMAL"
               PROVE  counter = Cardinality(content) - Cardinality(Uncounted) - Cardinality(Claimed)
    BY DEF CounterExact
  <2>1. IsFiniteSet(Uncounted) /\ IsFiniteSet(Claimed)
    BY WorkAssumption, FS_Subset DEF Uncounted, Claimed
  <2>2. Cardinality(Uncounted) \in Nat /\ Cardinality(Claimed) \in Nat
    BY <2>1, FS_CardinalityType
  <2> QED
    BY <2>2, OwingCounted, Cardinals DEF CountInv
<1> QED
  BY <1>1, CounterInvariant, PTL

(***************************************************************************)
(* A chunk other than the root never holds fewer than MIN_ENTRIES keys, in *)
(* no state at all (decCount refuses at the minimum, freezeDecision asks   *)
(* whether the minimum has been reached).                                  *)
(***************************************************************************)
THEOREM MinimumHolds ==
    ASSUME InsertsBelow PROVE Spec => []MinimumKept
<1>1. TypeInv /\ CountInv => MinimumKept
  BY Cardinals, SizeAssumption DEF CountInv, MinimumKept
<1> QED
  BY <1>1, CounterInvariant, PTL
-----------------------------------------------------------------------------
(***************************************************************************)
(* Stabilisation.  The first find of stabilizeChunk has cleaned the list   *)
(* as far as it has come; from then on the list is clean, and what is      *)
(* below the loop variable is in it; in the end everything is.             *)
(***************************************************************************)
Sweeping(t) == pc[t] \in FindPC /\ my[t].ret = "slot"
Seen(t)     == (pc[t] = "slotfound" \/ (pc[t] = "ifound" /\ my[t].trig # "-")) /\ my[t].found

StableAt(L, t) ==
    /\ Sweeping(t) => /\ tg[t].prev \in Live(L) \cup {EntryHead}
                      /\ CleanTo(L, KeyOf(tg[t].prev)) /\ my[t].scan = 0
    /\ pc[t] = "slot" \/ Choosing(t) => CleanTo(L, NoKey) /\ Complete(my[t].scan)
    /\ Seen(t) => kd[my[t].scan].key \in content

Finished(L) == AllFrozen /\ CleanTo(L, NoKey) /\ Complete(MaxEntries)

Stable(L) ==
    /\ settled => Finished(L)
    /\ \A t \in Thread : StableAt(L, t)

LEMMA NoKeyLast ==
    ASSUME TypeInv, NEW L \in SUBSET Slot, Linked(L)
    PROVE  /\ NoKey \in Int /\ MaxKey \in Int /\ NoKey = MaxKey + 1
           /\ \A x \in L : kd[x].key \in Int /\ kd[x].key <= MaxKey /\ kd[x].key < NoKey
           /\ KeyOf(EntryHead) < NoKey
<1>1. NoKey \in Int /\ MaxKey \in Int /\ NoKey = MaxKey + 1 /\ NoKey > 0
  BY SizeAssumption DEF NoKey
<1>2. ASSUME NEW x \in L PROVE kd[x].key \in Int /\ kd[x].key <= MaxKey
  <2>1. kd[x].key \in 1 .. NoKey /\ kd[x].key # NoKey
    BY DEF TypeInv, TypeOK, KeyWord, Linked
  <2> QED
    BY <1>1, <2>1
<1> QED
  BY <1>1, <1>2 DEF KeyOf

LEMMA LiveKeysBelow ==
    ASSUME TypeInv, NEW L \in SUBSET Slot, Linked(L)
    PROVE  \A c \in Live(L) \cup {EntryHead} : KeyOf(c) < NoKey
<1>1. KeyOf(EntryHead) < NoKey
  BY NoKeyLast
<1>2. ASSUME NEW c \in Live(L) PROVE KeyOf(c) < NoKey
  <2>1. c \in L
    BY DEF Live
  <2>2. KeyOf(c) = kd[c].key
    BY <2>1, Constants DEF KeyOf, Slot, EntryHead
  <2> QED
    BY <2>1, <2>2, NoKeyLast
<1> QED
  BY <1>1, <1>2

\* what is complete stays so
LEMMA CompleteStays ==
    ASSUME NEW L \in SUBSET Slot, NEW M \in SUBSET Slot, NEW t \in Thread, Known(L), Follows(L, M, t),
           AllFrozen
    PROVE  /\ \A i : Complete(i) => Complete(i)'
           /\ \A s \in Slot : kd'[s].key = kd[s].key
           /\ content \subseteq content' /\ AllFrozen'
           /\ \A b \in Int : CleanTo(L, b) => CleanTo(M, b)'
<1>1. Onward(L, M, t) /\ Holds(L) /\ Holds(M)' /\ StaysClean(L, M)
  BY DEF Known, Content, ListInv, Follows
<1>2. /\ \A s \in Slot : kd'[s].key = kd[s].key
      /\ AllFrozen' /\ Live(L) \subseteq Live(M)'
      /\ \A s \in Slot : next[s].del => next'[s].del
  BY <1>1, Constants DEF Onward, KeysStay
<1>3. content \subseteq content'
  <2>1. \A x \in Live(L) : x \in Slot
    BY DEF Live
  <2> QED
    BY <1>1, <1>2, <2>1 DEF Holds, KeysIn
<1> QED
  BY <1>1, <1>2, <1>3 DEF Complete, StaysClean

LEMMA OthersStable ==
    ASSUME NEW L \in SUBSET Slot, NEW M \in SUBSET Slot, NEW t \in Thread, Known(L), Stable(L),
           Follows(L, M, t), NEW u \in Thread \ {t}
    PROVE  StableAt(M, u)'
<1>1. /\ pc'[u] = pc[u] /\ my'[u] = my[u] /\ tg'[u] = tg[u] /\ KeysStay(t)
      /\ TypeInv /\ StableAt(L, u) /\ SeenInv(L, u) /\ Linked(L)
  BY DEF Follows, Onward, OthersStill, Known, Stable, Content, At, ListInv
<1>2. /\ Sweeping(u)' <=> Sweeping(u)
      /\ Choosing(u)' <=> Choosing(u)
      /\ Seen(u)' <=> Seen(u)
  BY <1>1 DEF Sweeping, Choosing, Inserting, Seen
<1>3. Sweeping(u) \/ pc[u] = "slot" \/ Choosing(u) => AllFrozen
  BY <1>1 DEF TypeInv, ThreadInv, StableInv, Stabilizing, Sweeping
<1>4. Seen(u) => Choosing(u) /\ my[u].scan \in Slot
  <2>1. Seen(u) => Choosing(u)
    BY DEF Seen, Choosing, Inserting
  <2>2. Choosing(u) => my[u].scan \in 0 .. MaxEntries /\ my[u].scan # End
    BY <1>1 DEF TypeInv, TypeOK, Local, ThreadInv, StableInv
  <2> QED
    BY <2>1, <2>2, SizeAssumption DEF Slot, End
<1>5. CASE Sweeping(u) \/ pc[u] = "slot" \/ Choosing(u)
  <2>1. /\ \A i : Complete(i) => Complete(i)'
        /\ \A s \in Slot : kd'[s].key = kd[s].key
        /\ content \subseteq content'
        /\ \A b \in Int : CleanTo(L, b) => CleanTo(M, b)'
    BY <1>3, <1>5, CompleteStays
  <2>2. Sweeping(u) => CleanTo(M, KeyOf(tg[u].prev))'
    <3>1. tg[u].prev \in Cells(L)
      BY <1>1 DEF SeenInv
    <3>2. PICK p \in Cells(L) : p = tg[u].prev
      BY <3>1
    <3>3. KeyOf(p) \in Int /\ KeyOf(p)' = KeyOf(p)
      BY <1>1, CellsAre, LinkedKeys
    <3>4. Sweeping(u) => CleanTo(L, KeyOf(p))
      BY <1>1, <3>2 DEF StableAt
    <3>5. \A b : b = KeyOf(p) /\ CleanTo(L, b) => CleanTo(M, b)'
      BY <2>1, <3>3
    <3>6. Sweeping(u) => CleanTo(M, KeyOf(p))'
      BY <3>3, <3>4, <3>5 DEF CleanTo
    <3> QED
      BY <1>1, <3>2, <3>6 DEF CleanTo
  <2>3. pc[u] = "slot" \/ Choosing(u) => CleanTo(M, NoKey)'
    <3>1. pc[u] = "slot" \/ Choosing(u) => CleanTo(L, NoKey)
      BY <1>1 DEF StableAt
    <3> QED
      BY <1>1, <2>1, <3>1, NoKeyLast
  <2>4. pc[u] = "slot" \/ Choosing(u) => Complete(my[u].scan)'
    <3>1. pc[u] = "slot" \/ Choosing(u) => Complete(my[u].scan)
      BY <1>1 DEF StableAt
    <3>2. Complete(my[u].scan) => Complete(my[u].scan)'
      <4>1. PICK i : i = my[u].scan
        OBVIOUS
      <4>2. Complete(i) => Complete(i)'
        BY <2>1
      <4> QED
        BY <1>1, <4>1, <4>2 DEF Complete
    <3> QED
      BY <3>1, <3>2
  <2>5. Seen(u) => kd'[my[u].scan].key \in content'
    BY <1>1, <1>4, <2>1 DEF StableAt
  <2>6. Sweeping(u) => my[u].scan = 0 /\ tg[u].prev \in Live(M)' \cup {EntryHead}
    <3>1. Live(L) \subseteq Live(M)'
      BY <1>3, <1>5 DEF Follows, Onward
    <3> QED
      BY <1>1, <3>1 DEF StableAt
  <2> QED
    BY <1>1, <1>2, <2>2, <2>3, <2>4, <2>5, <2>6 DEF StableAt
<1>6. CASE ~(Sweeping(u) \/ pc[u] = "slot" \/ Choosing(u))
  BY <1>1, <1>2, <1>4, <1>6 DEF StableAt
<1> QED
  BY <1>5, <1>6

LEMMA StableKeeps ==
    ASSUME NEW L \in SUBSET Slot, NEW M \in SUBSET Slot, NEW t \in Thread, Known(L), Stable(L),
           Follows(L, M, t), settled' => settled \/ Finished(M)', StableAt(M, t)'
    PROVE  Stable(M)'
<1>1. ASSUME settled' PROVE Finished(M)'
  <2> SUFFICES ASSUME settled PROVE Finished(M)'
    BY <1>1
  <2>1. AllFrozen /\ CleanTo(L, NoKey) /\ Complete(MaxEntries)
    BY DEF Stable, Finished
  <2>2. /\ AllFrozen' /\ (Complete(MaxEntries) => Complete(MaxEntries)')
        /\ \A b \in Int : CleanTo(L, b) => CleanTo(M, b)'
    BY <2>1, CompleteStays
  <2>3. NoKey \in Int
    BY SizeAssumption DEF NoKey
  <2> QED
    BY <2>1, <2>2, <2>3 DEF Finished
<1>2. ASSUME NEW u \in Thread PROVE StableAt(M, u)'
  BY OthersStable
<1> QED
  BY <1>1, <1>2 DEF Stable

(***************************************************************************)
(* The list that is finished stays as it is.                               *)
(***************************************************************************)
LEMMA FinishedFixed ==
    ASSUME NEW L \in SUBSET Slot, NEW M \in SUBSET Slot, NEW t \in Thread, Known(L),
           Finished(L), Follows(L, M, t)
    PROVE  Reached' = Reached
<1>1. /\ TypeInv /\ Linked(L) /\ StaysClean(L, M) /\ MaxEntries \in Int
  BY SizeAssumption DEF Known, Content, ListInv, Follows
<1>2. \A c \in Live(L) \cup {EntryHead} : next'[c].idx = next[c].idx
  BY <1>1 DEF StaysClean, Finished
<1>3. \A c \in Live(L) \cup {EntryHead} : next[c].idx \in Live(L) \cup {End}
  <2>1. \A c \in Live(L) \cup {EntryHead} : KeyOf(c) < NoKey
    BY <1>1, LiveKeysBelow
  <2> QED
    BY <2>1 DEF Finished, CleanTo
<1>4. Walk(next') = Walk(next)
  BY <1>2, <1>3, WalkSame
<1>5. Reached = Walk(next) /\ Reached' = Walk(next')
  <2>1. Reached' = Walk(next')
    BY DEF Reached, Walk, IsWalk
  <2> QED
    BY <2>1, ReachedWalk
<1> QED
  BY <1>4, <1>5

\* a walk meets all keys, and nothing that is deleted
LEMMA FinishedComplete ==
    ASSUME NEW L \in SUBSET Slot, Known(L), Finished(L)
    PROVE  /\ content = KeysIn(InList)
           /\ \A s \in InList : ~next[s].del /\ next[s].frz /\ kd[s].frz
<1>1. /\ TypeInv /\ ListInv(L) /\ Linked(L) /\ ListSorted
  BY DEF Known, Content, ListInv, OrderInv
<1>2. \A c \in Live(L) \cup {EntryHead} : next[c].idx \in Live(L) \cup {End}
  <2>1. \A c \in Live(L) \cup {EntryHead} : KeyOf(c) < NoKey
    BY <1>1, LiveKeysBelow
  <2> QED
    BY <2>1 DEF Finished, CleanTo
<1>3. InList \subseteq Live(L)
  <2>1. \A i \in 0 .. MaxEntries : Walk(next)[i] \in Live(L) \cup {End}
    BY <1>2, WalkWithin
  <2> QED
    BY <2>1, ReachedWalk DEF InList
<1>4. LiveInList = Live(L) /\ ListIsContent
  BY <1>1, LiveAre
<1>5. InList = LiveInList
  BY <1>3, <1>4 DEF LiveInList
<1>6. \A s \in InList : ~next[s].del /\ s \in Slot
  BY <1>3 DEF Live
<1> QED
  BY <1>4, <1>5, <1>6, Constants DEF ListIsContent, Finished, AllFrozen, KeyFrozen, Slot, EntryHead
-----------------------------------------------------------------------------
(***************************************************************************)
(* The sweep.  From a live entry, or the head, whose way goes on to a live *)
(* one or to the end, what is clean grows to the key of that one, or to    *)
(* the whole list.                                                         *)
(***************************************************************************)
LEMMA SweepMoves ==
    ASSUME NEW M \in SUBSET Slot, TypeInv', ListInv(M)', NEW p \in Live(M)' \cup {EntryHead},
           CleanTo(M, KeyOf(p))', next'[p].idx \in Live(M)' \cup {End},
           NEW b \in Int, next'[p].idx = End \/ b <= kd'[next'[p].idx].key
    PROVE  CleanTo(M, b)'
<1>1. /\ \A c \in Live(M)' : /\ c \in M /\ KeyOf(c)' = kd'[c].key /\ KeyOf(c)' \in Int
                             /\ KeyOf(c)' > 0 /\ c # End /\ c # EntryHead
      /\ KeyOf(EntryHead)' = 0
  <2>1. \A c \in M : /\ kd'[c].key \in 1 .. NoKey /\ c # End /\ c # EntryHead
    BY Constants DEF TypeInv, TypeOK, KeyWord, Slot, End, EntryHead
  <2>2. \A c \in M : kd'[c].key \in Int /\ kd'[c].key > 0
    BY <2>1, SizeAssumption DEF NoKey
  <2> QED
    BY <2>1, <2>2 DEF Live, KeyOf
<1>2. /\ \A c \in M \cup {EntryHead} : \A x \in Live(M)' :
            kd'[x].key > KeyOf(c)' => next'[c].idx = x \/ (next'[c].idx # End /\ kd'[next'[c].idx].key < kd'[x].key)
      /\ \A x, y \in Live(M)' : kd'[x].key = kd'[y].key => x = y
  BY DEF ListInv, NoSkip, LeadsOn, Cells, Apart
<1>3. p \in M \cup {EntryHead} /\ KeyOf(p)' \in Int
  BY <1>1
<1> SUFFICES ASSUME NEW c \in Live(M)' \cup {EntryHead}, KeyOf(c)' < b
             PROVE  next'[c].idx \in Live(M)' \cup {End}
  BY DEF CleanTo
<1>4. CASE KeyOf(c)' < KeyOf(p)'
  BY <1>4 DEF CleanTo
<1>5. CASE KeyOf(c)' = KeyOf(p)'
  <2>1. c = p
    BY <1>1, <1>2, <1>5
  <2> QED
    BY <2>1
<1>6. CASE KeyOf(c)' > KeyOf(p)'
  <2>1. c \in Live(M)' /\ kd'[c].key > KeyOf(p)' /\ kd'[c].key < b /\ kd'[c].key \in Int
    BY <1>1, <1>3, <1>6
  <2>2. next'[p].idx = c \/ (next'[p].idx # End /\ kd'[next'[p].idx].key < kd'[c].key)
    BY <1>2, <1>3, <2>1
  <2>3. c # End
    BY <1>1, <2>1
  <2>4. next'[p].idx \in Live(M)' /\ b <= kd'[next'[p].idx].key /\ kd'[next'[p].idx].key \in Int
    BY <1>1, <2>2, <2>3
  <2> QED
    BY <2>1, <2>2, <2>4
<1> QED
  <2>1. KeyOf(c)' \in Int
    BY <1>1
  <2> QED
    BY <1>3, <1>4, <1>5, <1>6, <2>1

LEMMA LastKey ==
    ASSUME NEW M \in SUBSET Slot, TypeInv', OrderInv', ListInv(M)', NEW c \in M, MaxKey <= kd'[c].key
    PROVE  next'[c].idx = End
<1>1. next'[c].idx \in M \cup {End} /\ ListSorted' /\ Linked(M)' /\ c \in Cell /\ c # EntryHead
  BY Constants DEF ListInv, OrderInv, WordsIn, Ends, Cell, Slot, EntryHead
<1>2. ASSUME NEW x \in M, next'[c].idx = x PROVE FALSE
  <2>1. x # End
    BY SizeAssumption DEF Slot, End
  <2>2. kd'[c].key < kd'[x].key
    BY <1>1, <1>2, <2>1 DEF ListSorted, KeyOf
  <2>3. kd'[x].key \in 1 .. NoKey /\ kd'[x].key # NoKey /\ kd'[c].key \in 1 .. NoKey
    BY <1>1 DEF TypeInv, TypeOK, KeyWord, Linked
  <2> QED
    BY <2>2, <2>3, SizeAssumption DEF NoKey
<1> QED
  BY <1>1, <1>2

\* a step of find leaves most of the thread's own state, and nearly all of the rest
LEMMA FindKeeps ==
    ASSUME TypeInv, NEW t \in Thread, FindStep(t)
    PROVE  /\ pc[t] \in FindPC /\ my[t].ret \in Return
           /\ pc'[t] \in FindPC \/ pc'[t] = my[t].ret
           /\ my'[t].ret = my[t].ret /\ my'[t].trig = my[t].trig
           /\ my'[t].scan = my[t].scan /\ my'[t].dec = my[t].dec
           /\ UNCHANGED <<kd, counter, fstate, content, settled>>
<1>1. /\ pc[t] \in FindPC /\ UNCHANGED <<kd, counter, fstate, content, settled>>
      /\ \/ \E b \in BOOLEAN : FindReturns(t, b)
         \/ UNCHANGED my /\ (UNCHANGED pc \/ \E l \in FindPC : Goto(t, l))
  BY DEF FindStep, FindHead, FindNext, FindUnlink, FindPC, shared, history
<1>2. /\ pc'[t] \in FindPC \/ pc'[t] = my[t].ret
      /\ my'[t].ret = my[t].ret /\ my'[t].trig = my[t].trig /\ my'[t].scan = my[t].scan
  BY <1>1, FindMy
<1>3. my[t].ret \in Return
  BY <1>1 DEF TypeInv, TypeOK, Local, ThreadInv, FindInv
<1>4. my'[t].dec = my[t].dec
  <2>1. my[t] \in Local /\ my \in [Thread -> Local]
    BY DEF TypeInv, TypeOK
  <2>2. \A b : FindReturns(t, b) => my'[t].dec = my[t].dec
    <3> SUFFICES ASSUME NEW b, FindReturns(t, b) PROVE my'[t].dec = my[t].dec
      OBVIOUS
    <3>1. my'[t] = [my[t] EXCEPT !.found = b]
      BY <2>1 DEF FindReturns
    <3> QED
      BY <2>1, <3>1 DEF Local
  <2> QED
    BY <1>1, <2>2
<1> QED
  BY <1>1, <1>2, <1>3, <1>4

(***************************************************************************)
(* A step of the first find of stabilizeChunk: where it stands then is     *)
(* live, the list is clean up to there and, when it returns, everywhere.   *)
(***************************************************************************)
Swept(M, t, p) ==
    /\ p \in Live(M)' \cup {EntryHead} /\ CleanTo(M, KeyOf(p))'
    /\ tg'[t].prev = p /\ (pc'[t] = "slot" => CleanTo(M, NoKey)')

LEMMA HeadClean ==
    ASSUME NEW M \in SUBSET Slot, TypeInv'
    PROVE  CleanTo(M, KeyOf(EntryHead))'
<1>1. \A c \in M : kd'[c].key \in 1 .. NoKey /\ c # EntryHead
  BY Constants DEF TypeInv, TypeOK, KeyWord, Slot, EntryHead
<1>2. \A c \in M : ~(kd'[c].key < 0)
  BY <1>1, SizeAssumption DEF NoKey
<1>3. \A c \in Live(M)' \cup {EntryHead} : ~(KeyOf(c)' < KeyOf(EntryHead)')
  BY <1>1, <1>2 DEF Live, KeyOf
<1> QED
  BY <1>3 DEF CleanTo

LEMMA SweepHead ==
    ASSUME NEW M \in SUBSET Slot, NEW t \in Thread, TypeInv, TypeInv', ListInv(M)', FindHead(t)
    PROVE  Swept(M, t, EntryHead)
<1>1. tg'[t].prev = EntryHead /\ next' = next
  BY DEF FindHead, shared, TypeInv, TypeOK
<1>2. CleanTo(M, KeyOf(EntryHead))'
  BY HeadClean
<1>3. ASSUME pc'[t] = "slot" PROVE CleanTo(M, NoKey)'
  <2>1. next'[EntryHead].idx = End
    BY <1>1, <1>3 DEF FindHead, Goto, TypeInv, TypeOK
  <2>2. NoKey \in Int
    BY SizeAssumption DEF NoKey
  <2> QED
    BY <1>2, <2>1, <2>2, SweepMoves
<1> QED
  BY <1>1, <1>2, <1>3 DEF Swept

LEMMA SweepNext ==
    ASSUME NEW L \in SUBSET Slot, NEW M \in SUBSET Slot, NEW t \in Thread, Known(L), Onward(L, M, t),
           TypeInv', OrderInv', ListInv(M)', AllFrozen, my[t].ret = "slot",
           NEW p \in Live(M)' \cup {EntryHead}, tg[t].prev = p, CleanTo(M, KeyOf(p))', FindNext(t)
    PROVE  \E q : Swept(M, t, q)
<1>0. PICK c : c = tg[t].cur.idx
  OBVIOUS
<1>1. /\ TypeInv /\ next' = next /\ kd' = kd /\ Sought(t) = MaxKey /\ pc[t] = "fnext"
      /\ MaxKey \in Int /\ NoKey \in Int
  BY SizeAssumption DEF Known, FindNext, shared, Sought, NoKey
<1>2. c \in Slot /\ c \in Ends(L) /\ c # End /\ c \in L
  BY <1>0, <1>1, FindNextMoves, SizeAssumption DEF Known, Content, At, SeenInv, Ends, Slot, End
<1>3. CASE tg'[t] = tg[t] /\ pc'[t] # "slot"
  BY <1>3 DEF Swept
<1>4. CASE tg'[t].prev = tg[t].prev /\ pc'[t] # "slot"
  BY <1>4 DEF Swept
<1>5. CASE /\ next[p] = tg[t].cur /\ ~next[c].del
           /\ \/ tg'[t].prev = tg[t].prev /\ StopsAt(kd[c].key, MaxKey)
              \/ tg'[t].prev = c /\ (pc'[t] = "slot" => next[c].idx = End)
  <2>1. c \in Live(M)' /\ kd'[c].key \in Int /\ KeyOf(c)' = kd'[c].key
    <3>1. c \in Live(L) /\ Live(L) \subseteq Live(M)'
      BY <1>2, <1>5 DEF Live, Onward
    <3>2. kd'[c].key \in 1 .. NoKey /\ c # EntryHead
      BY <1>2, Constants DEF TypeInv, TypeOK, KeyWord, Slot, EntryHead
    <3> QED
      BY <3>1, <3>2, SizeAssumption DEF KeyOf, NoKey
  <2>2. next'[p].idx = c
    BY <1>0, <1>1, <1>5
  <2>3. CleanTo(M, KeyOf(c))'
    <3>1. \A b : b = kd'[c].key => CleanTo(M, b)'
      BY <2>1, <2>2, SweepMoves
    <3> QED
      BY <2>1, <3>1 DEF CleanTo
  <2>4. ASSUME next'[c].idx = End PROVE CleanTo(M, NoKey)'
    BY <1>1, <2>1, <2>3, <2>4, SweepMoves
  <2>5. CASE tg'[t].prev = tg[t].prev /\ StopsAt(kd[c].key, MaxKey)
    <3>1. c \in M /\ MaxKey <= kd'[c].key
      BY <1>1, <2>1, <2>5 DEF StopsAt, Live
    <3>2. CleanTo(M, NoKey)'
      BY <2>4, <3>1, LastKey
    <3> QED
      BY <2>5, <3>2 DEF Swept
  <2>6. CASE tg'[t].prev = c /\ (pc'[t] = "slot" => next[c].idx = End)
    BY <1>1, <2>1, <2>3, <2>4, <2>6 DEF Swept
  <2> QED
    BY <1>5, <2>5, <2>6
<1>6. \/ tg'[t] = tg[t] /\ pc'[t] # "slot"
      \/ tg'[t].prev = tg[t].prev /\ pc'[t] # "slot"
      \/ /\ next[p] = tg[t].cur /\ ~next[c].del
         /\ \/ tg'[t].prev = tg[t].prev /\ StopsAt(kd[c].key, MaxKey)
            \/ tg'[t].prev = c /\ (pc'[t] = "slot" => next[c].idx = End)
  <2>1. tg[t] \in Place /\ tg \in [Thread -> Place] /\ pc \in [Thread -> Label]
    BY <1>1 DEF TypeInv, TypeOK, Place
  <2>2. \A w : tg' = [tg EXCEPT ![t].next = w] => tg'[t].prev = tg[t].prev
    BY <2>1 DEF Place
  <2>3. \A l : Goto(t, l) => pc'[t] = l
    BY <2>1 DEF Goto
  <2>4. CASE next[tg[t].prev] # tg[t].cur /\ Goto(t, "fhead") /\ UNCHANGED <<tg, my>>
    BY <2>3, <2>4
  <2>5. CASE Goto(t, "funlink") /\ tg' = [tg EXCEPT ![t].next = next[c]]
    BY <2>2, <2>3, <2>5
  <2>6. CASE /\ next[p] = tg[t].cur /\ ~next[c].del /\ StopsAt(kd[c].key, MaxKey)
             /\ tg' = [tg EXCEPT ![t].next = next[c]]
    BY <2>2, <2>6
  <2>7. CASE /\ next[p] = tg[t].cur /\ ~next[c].del
             /\ tg' = [tg EXCEPT ![t] = [prev |-> c, cur |-> next[c], next |-> next[c]]]
             /\ next[c].idx # End => UNCHANGED <<pc, my>>
    BY <1>1, <2>1, <2>7
  <2> QED
    BY <1>0, <1>1, <2>4, <2>5, <2>6, <2>7 DEF FindNext
<1> QED
  BY <1>3, <1>4, <1>5, <1>6

LEMMA SweepUnlink ==
    ASSUME NEW M \in SUBSET Slot, NEW t \in Thread, TypeInv, TypeInv', ListInv(M)',
           NEW p \in Live(M)' \cup {EntryHead}, tg[t].prev = p, CleanTo(M, KeyOf(p))', FindUnlink(t)
    PROVE  Swept(M, t, p)
<1>1. CASE UNCHANGED <<next, tg>> /\ next[tg[t].prev] # tg[t].cur
  <2>1. pc'[t] = "fhead"
    BY <1>1 DEF FindUnlink, Goto, TypeInv, TypeOK
  <2> QED
    BY <1>1, <2>1 DEF Swept
<1>2. CASE next[tg[t].prev] = tg[t].cur
  <2>1. /\ tg'[t].prev = p
        /\ next' = [next EXCEPT ![p] = Bump(tg[t].cur, tg[t].next.idx)]
        /\ pc'[t] = "slot" => tg[t].next.idx = End
    <3>1. tg[t] \in Place /\ tg \in [Thread -> Place] /\ pc \in [Thread -> Label]
      BY DEF TypeInv, TypeOK, Place
    <3>2. \A w : tg' = [tg EXCEPT ![t].cur = w] => tg'[t].prev = tg[t].prev
      BY <3>1 DEF Place
    <3>3. Goto(t, "fnext") => pc'[t] = "fnext"
      BY <3>1 DEF Goto
    <3> QED
      BY <1>2, <3>2, <3>3 DEF FindUnlink
  <2>2. next'[p].idx = tg[t].next.idx
    <3>1. tg[t].cur \in Word /\ p \in Cell /\ next \in [Cell -> Word]
      BY PlaceTypes DEF TypeInv, TypeOK
    <3>2. Bump(tg[t].cur, tg[t].next.idx).idx = tg[t].next.idx
      BY <3>1 DEF Bump, Word
    <3> QED
      BY <2>1, <3>1, <3>2
  <2>3. NoKey \in Int
    BY SizeAssumption DEF NoKey
  <2>4. pc'[t] = "slot" => CleanTo(M, NoKey)'
    BY <2>1, <2>2, <2>3, SweepMoves
  <2> QED
    BY <2>1, <2>4 DEF Swept
<1> QED
  BY <1>1, <1>2 DEF FindUnlink

LEMMA SweepStable ==
    ASSUME NEW L \in SUBSET Slot, NEW M \in SUBSET Slot, NEW t \in Thread, Known(L), Stable(L),
           Follows(L, M, t), TypeInv', OrderInv', FindStep(t), my[t].ret = "slot"
    PROVE  StableAt(M, t)'
<1>1. /\ TypeInv /\ Linked(L) /\ Onward(L, M, t) /\ KeysStay(t) /\ ListInv(M)' /\ StableAt(L, t)
      /\ SeenInv(L, t)
  BY DEF Known, Content, ListInv, Follows, Onward, Stable, At
<1>2. /\ pc[t] \in FindPC /\ pc'[t] \in FindPC \cup {"slot"}
      /\ my'[t].ret = "slot" /\ my'[t].scan = my[t].scan
  BY <1>1, FindKeeps
<1>3. Sweeping(t) /\ AllFrozen
  BY <1>1, <1>2 DEF Sweeping, Stabilizing, TypeInv, ThreadInv, StableInv
<1>4. PICK p \in Live(M)' \cup {EntryHead} : tg[t].prev = p /\ CleanTo(M, KeyOf(p))'
  <2>1. PICK p \in Live(L) \cup {EntryHead} : tg[t].prev = p /\ CleanTo(L, KeyOf(p))
    BY <1>1, <1>3 DEF StableAt
  <2>2. p \in Cells(L) /\ Live(L) \subseteq Live(M)'
    BY <1>1, <1>3, <2>1 DEF Live, Cells, Onward
  <2>3. KeyOf(p) \in Int /\ KeyOf(p)' = KeyOf(p)
    BY <1>1, <2>2, CellsAre, LinkedKeys
  <2>4. \A b : b = KeyOf(p) => CleanTo(M, b)'
    BY <1>3, <2>1, <2>3, CompleteStays
  <2>5. CleanTo(M, KeyOf(p))'
    BY <2>3, <2>4 DEF CleanTo
  <2> QED
    BY <2>1, <2>2, <2>5
<1>5. PICK q : Swept(M, t, q)
  BY <1>1, <1>3, <1>4, SweepHead, SweepNext, SweepUnlink DEF FindStep
<1>6. Complete(0)'
  BY SizeAssumption DEF Complete, Slot
<1>7. my'[t].scan = 0
  BY <1>1, <1>2, <1>3 DEF StableAt
<1>8. Sweeping(t)' => /\ tg'[t].prev \in Live(M)' \cup {EntryHead}
                      /\ CleanTo(M, KeyOf(tg[t].prev))' /\ my'[t].scan = 0
  BY <1>5, <1>7 DEF Swept, CleanTo
<1>9. pc'[t] = "slot" => CleanTo(M, NoKey)' /\ Complete(my[t].scan)'
  <2>1. Complete(my[t].scan)'
    BY <1>6, <1>7 DEF Complete
  <2> QED
    BY <1>5, <2>1 DEF Swept
<1>10. ~Choosing(t)' /\ ~Seen(t)'
  BY <1>2 DEF Choosing, Inserting, Seen, FindPC
<1> QED
  BY <1>8, <1>9, <1>10 DEF StableAt
-----------------------------------------------------------------------------
(***************************************************************************)
(* The loop of stabilizeChunk: t stays with its entry, or goes on to the   *)
(* next one when the key of this one is in the list.                       *)
(***************************************************************************)
LEMMA ChoosingFacts ==
    ASSUME NEW L \in SUBSET Slot, NEW M \in SUBSET Slot, NEW t \in Thread, Known(L), Stable(L),
           Follows(L, M, t), Choosing(t) \/ pc[t] = "slot"
    PROVE  /\ TypeInv /\ AllFrozen /\ CleanTo(M, NoKey)' /\ Complete(my[t].scan)
           /\ (\A i : Complete(i) => Complete(i)') /\ \A s \in Slot : kd'[s].key = kd[s].key
           /\ content \subseteq content' /\ (Choosing(t) => my[t].scan \in Slot)
<1>1. TypeInv /\ StableAt(L, t) /\ StableInv(t)
  BY DEF Known, Stable, TypeInv, ThreadInv
<1>2. AllFrozen /\ CleanTo(L, NoKey) /\ Complete(my[t].scan)
  BY <1>1 DEF StableInv, Stabilizing, StableAt
<1>3. /\ (\A i : Complete(i) => Complete(i)') /\ \A s \in Slot : kd'[s].key = kd[s].key
      /\ content \subseteq content' /\ \A b \in Int : CleanTo(L, b) => CleanTo(M, b)'
  BY <1>2, CompleteStays
<1>4. NoKey \in Int
  BY SizeAssumption DEF NoKey
<1>5. Choosing(t) => my[t].scan \in Slot
  <2>1. Choosing(t) => my[t].scan \in 0 .. MaxEntries /\ my[t].scan # End
    BY <1>1 DEF TypeInv, TypeOK, Local, StableInv
  <2> QED
    BY <2>1, SizeAssumption DEF Slot, End
<1> QED
  BY <1>1, <1>2, <1>3, <1>4, <1>5

LEMMA ChoosingStable ==
    ASSUME NEW L \in SUBSET Slot, NEW M \in SUBSET Slot, NEW t \in Thread, Known(L), Stable(L),
           Follows(L, M, t), Choosing(t), Choosing(t)', my'[t].scan = my[t].scan,
           Seen(t)' => kd[my[t].scan].key \in content'
    PROVE  StableAt(M, t)'
<1>1. /\ TypeInv /\ CleanTo(M, NoKey)' /\ Complete(my[t].scan)
      /\ (\A i : Complete(i) => Complete(i)') /\ \A s \in Slot : kd'[s].key = kd[s].key
      /\ my[t].scan \in Slot
  BY ChoosingFacts
<1>2. PICK i \in Slot : i = my[t].scan
  BY <1>1
<1>3. Complete(i)' /\ kd'[i].key = kd[i].key
  BY <1>1, <1>2
<1>4. Complete(my[t].scan)'
  BY <1>2, <1>3 DEF Complete
<1>5. Seen(t)' => kd'[my'[t].scan].key \in content'
  BY <1>2, <1>3
<1>6. ~Sweeping(t)'
  BY DEF Choosing, Inserting, Sweeping, FindPC
<1> QED
  BY <1>1, <1>4, <1>5, <1>6 DEF StableAt

LEMMA NextSlotStable ==
    ASSUME NEW L \in SUBSET Slot, NEW M \in SUBSET Slot, NEW t \in Thread, Known(L), Stable(L),
           Follows(L, M, t), Choosing(t), NextSlot(t), kd[my[t].scan].key \in content'
    PROVE  StableAt(M, t)' /\ pc'[t] = "slot" /\ my'[t].dec = my[t].dec
<1>1. /\ TypeInv /\ CleanTo(M, NoKey)' /\ Complete(my[t].scan)
      /\ (\A i : Complete(i) => Complete(i)') /\ \A s \in Slot : kd'[s].key = kd[s].key
      /\ my[t].scan \in Slot
  BY ChoosingFacts
<1>2. PICK i \in Slot : i = my[t].scan
  BY <1>1
<1>3. pc'[t] = "slot" /\ my'[t].scan = i + 1 /\ my'[t].dec = my[t].dec
  BY <1>1, <1>2 DEF NextSlot, GoToSlot, Goto, Fresh, TypeInv, TypeOK
<1>4. Complete(i + 1)'
  <2>1. Complete(i)' /\ kd'[i].key \in content'
    BY <1>1, <1>2
  <2>2. \A s \in Slot : s < i + 1 => s < i \/ s = i
    BY DEF Slot
  <2> QED
    BY <2>1, <2>2 DEF Complete
<1>5. Complete(my[t].scan)'
  BY <1>3, <1>4 DEF Complete
<1>6. ~Sweeping(t)' /\ ~Seen(t)'
  BY <1>3 DEF Sweeping, Seen, FindPC
<1> QED
  BY <1>1, <1>3, <1>5, <1>6 DEF StableAt

\* what find has found for t is in the list
LEMMA FoundIsThere ==
    ASSUME NEW L \in SUBSET Slot, NEW t \in Thread, Known(L), FindStep(t), Choosing(t), Seen(t)'
    PROVE  kd[my[t].scan].key \in content
<1>1. /\ TypeInv /\ pc[t] \in FindPC /\ my[t].ret \in {"ifound", "slotfound"} /\ my[t].trig # "-"
      /\ pc'[t] \notin FindPC /\ my'[t].found
  <2>1. TypeInv /\ StableInv(t)
    BY DEF Known, TypeInv, ThreadInv
  <2>2. pc[t] \in FindPC
    BY <2>1, FindKeeps
  <2> QED
    BY <2>1, <2>2 DEF Choosing, Inserting, Stabilizing, StableInv, Seen, FindPC
<1>2. Sought(t) = kd[my[t].scan].key
  BY <1>1 DEF Sought, Ent
<1>3. \A b : FindReturns(t, b) => (my'[t].found <=> b = TRUE)
  <2> SUFFICES ASSUME NEW b, FindReturns(t, b) PROVE my'[t].found <=> b = TRUE
    OBVIOUS
  <2>1. my[t] \in Local /\ my'[t] = [my[t] EXCEPT !.found = b]
    BY <1>1 DEF FindReturns, TypeInv, TypeOK
  <2>2. my'[t].found = b
    BY <2>1 DEF Local
  <2> QED
    BY <1>1, <2>2
<1>4. ASSUME NEW l \in FindPC, Goto(t, l) PROVE FALSE
  BY <1>1, <1>4 DEF Goto, TypeInv, TypeOK
<1>5. pc' # pc
  BY <1>1
<1>6. /\ FindNext(t) /\ ~next[tg[t].cur.idx].del
      /\ kd[tg[t].cur.idx].key = Sought(t)
  <2>1. ~FindReturns(t, FALSE)
    BY <1>1, <1>3
  <2>2. \A l \in {"fhead", "fnext", "funlink"} : ~Goto(t, l)
    BY <1>4 DEF FindPC
  <2>3. ~FindHead(t) /\ ~FindUnlink(t)
    BY <2>1, <2>2 DEF FindHead, FindUnlink
  <2>4. FindNext(t)
    BY <2>3 DEF FindStep
  <2> QED
    BY <1>1, <1>3, <1>5, <2>1, <2>2, <2>4 DEF FindNext
<1>7. PICK c : c = tg[t].cur.idx
  OBVIOUS
<1>8. c \in Live(L)
  BY <1>1, <1>6, <1>7, FindNextMoves, Constants DEF Known, Content, At, SeenInv, Ends, Live, Slot, End
<1>9. kd[c].key \in KeysIn(Live(L))
  BY <1>8 DEF KeysIn
<1> QED
  BY <1>2, <1>6, <1>7, <1>9 DEF Known, Content, ListInv, Holds
-----------------------------------------------------------------------------
(***************************************************************************)
(* The decision.  It depends on the number of entries of the finished      *)
(* list; the freeze state records it, unless the chunk was enslaved, when  *)
(* all those who freeze it know.                                           *)
(***************************************************************************)
Agreed      == settled /\ DecisionOf(fstate) = FreezeDecision(EntrNum)
InFreeze(t) == pc[t] \in {"mark", "decide"} \/ Stabilizing(t)

DecideAt(t) ==
    /\ pc[t] \in {"decide", "recover"} => settled
    /\ pc[t] = "decide" => my[t].dec = "-"
    /\ InFreeze(t) /\ my[t].dec = "-" => fstate = "FREEZE" \/ Agreed
    /\ InFreeze(t) /\ my[t].dec # "-" => my[t].dec = "R_MERGE" /\ fstate = "SLAVE_FREEZE"
    /\ pc[t] = "recover" => my[t].dec = DecisionOf(fstate) /\ my[t].dec # "-"

DecideInv ==
    /\ fstate \in {"COPY", "SPLIT", "REQUEST_SLAVE", "MERGE"} => Agreed
    /\ \A t \in Thread : DecideAt(t)

\* the freeze state: it stays, the freeze begins, or the decision is recorded
StateMoves ==
    \/ fstate' = fstate
    \/ fstate = "NORMAL" /\ fstate' \in {"FREEZE", "SLAVE_FREEZE"}
    \/ fstate = "FREEZE" /\ Agreed'

\* what a step of t has to show
Steady(M, t) ==
    /\ StateMoves
    /\ settled => settled'
    /\ settled' => settled \/ Finished(M)'
    /\ StableAt(M, t)' /\ DecideAt(t)'

LEMMA AgreedStays ==
    ASSUME NEW L \in SUBSET Slot, NEW M \in SUBSET Slot, NEW t \in Thread, Known(L), Stable(L),
           Follows(L, M, t), settled => settled', fstate' = fstate
    PROVE  Agreed => Agreed'
<1> SUFFICES ASSUME Agreed PROVE Agreed'
  OBVIOUS
<1>1. Finished(L)
  BY DEF Agreed, Stable
<1>2. Reached' = Reached
  BY <1>1, FinishedFixed
<1>3. EntrNum' = EntrNum
  BY <1>2 DEF EntrNum, InList
<1> QED
  BY <1>3 DEF Agreed

LEMMA SteadyKeeps ==
    ASSUME NEW L \in SUBSET Slot, NEW M \in SUBSET Slot, NEW t \in Thread, Known(L), Stable(L),
           Follows(L, M, t), CountInv, DecideInv, Steady(M, t)
    PROVE  Stable(M)' /\ DecideInv'
<1>1. Stable(M)'
  BY StableKeeps DEF Steady
<1>2. /\ StateMoves /\ (settled => settled') /\ DecideAt(t)'
      /\ \A u \in Thread \ {t} : pc'[u] = pc[u] /\ my'[u] = my[u]
  BY DEF Steady, Follows, Onward, OthersStill
<1>3. fstate' = fstate => (Agreed => Agreed')
  BY <1>2, AgreedStays
<1>4. fstate' \in {"COPY", "SPLIT", "REQUEST_SLAVE", "MERGE"} => Agreed'
  BY <1>2, <1>3 DEF StateMoves, DecideInv
<1>5. ASSUME NEW u \in Thread, u # t PROVE DecideAt(u)'
  <2>1. /\ pc'[u] = pc[u] /\ my'[u] = my[u] /\ DecideAt(u)
        /\ (InFreeze(u)' <=> InFreeze(u)) /\ (InFreeze(u) \/ pc[u] = "recover" => fstate # "NORMAL")
    BY <1>2, <1>5 DEF InFreeze, Stabilizing, Choosing, Inserting, DecideInv, CountInv, Freezes
  <2>2. CASE fstate' = fstate
    BY <1>2, <1>3, <2>1, <2>2 DEF DecideAt
  <2>3. CASE fstate = "NORMAL"
    BY <2>1, <2>3 DEF DecideAt, InFreeze
  <2>4. CASE fstate = "FREEZE" /\ Agreed'
    <3>1. DecisionOf(fstate) = "-"
      BY <2>4 DEF DecisionOf
    <3> QED
      BY <1>2, <2>1, <2>4, <3>1 DEF DecideAt
  <2> QED
    BY <1>2, <2>2, <2>3, <2>4 DEF StateMoves
<1> QED
  BY <1>1, <1>2, <1>4, <1>5 DEF DecideInv

(***************************************************************************)
(* Steps to a place outside stabilizeChunk and what comes after it, and    *)
(* steps inside.                                                           *)
(***************************************************************************)
Outside(t) == pc[t] \notin {"mark", "decide", "recover"} /\ ~Stabilizing(t)

LEMMA OutsideSteady ==
    ASSUME NEW M, NEW t \in Thread, Outside(t)', settled' = settled, StateMoves
    PROVE  Steady(M, t)
<1>1. StableAt(M, t)'
  BY DEF Outside, StableAt, Stabilizing, Sweeping, Seen, Choosing, Inserting, FindPC
<1>2. DecideAt(t)'
  BY DEF Outside, DecideAt, InFreeze
<1> QED
  BY <1>1, <1>2 DEF Steady

LEMMA InsideSteady ==
    ASSUME NEW L \in SUBSET Slot, NEW M \in SUBSET Slot, NEW t \in Thread, Known(L), Stable(L),
           Follows(L, M, t), DecideInv, InFreeze(t), pc'[t] \notin {"decide", "recover"},
           my'[t].dec = my[t].dec, UNCHANGED <<fstate, settled>>, StableAt(M, t)'
    PROVE  Steady(M, t)
<1>1. Agreed => Agreed'
  BY AgreedStays
<1>2. DecideAt(t)'
  BY <1>1 DEF DecideInv, DecideAt
<1> QED
  BY <1>2 DEF Steady, StateMoves

LEMMA FromNot ==
    ASSUME NEW t \in Thread,
           \/ pc'[t] \in {"idle", "fault", "alloc", "dec", "slave", "frz", "switch", "inc", "cnext", "ckey",
                          "chelp", "cfound", "sfound", "dfound", "dmark", "dundo", "dunlink", "dfix"}
           \/ pc'[t] \in FindPC /\ my'[t].ret \in {"sfound", "cfound", "dfound", "dfix"}
           \/ (pc'[t] \in {"ifrom", "ifound", "link"} \/ (pc'[t] \in FindPC /\ my'[t].ret = "ifound"))
                 /\ my'[t].trig = "-"
    PROVE  Outside(t)'
BY DEF Outside, Stabilizing, Choosing, Inserting, FindPC

LEMMA CallsOutside ==
    ASSUME TypeInv, NEW t \in Thread,
           \/ \E r : Answers(t, r)
           \/ \E g : CallFreeze(t, g)
           \/ \E m \in Local : \E r \in {"cfound", "dfound", "dfix"} : CallFind(t, m, r)
           \/ \E l \in {"fault", "switch", "cnext", "ckey", "chelp", "dmark", "dundo", "dunlink"} : Goto(t, l)
    PROVE  Outside(t)'
<1>1. CASE \E r : Answers(t, r)
  <2>1. pc'[t] = "idle"
    BY <1>1 DEF Answers, Goto, TypeInv, TypeOK
  <2> QED
    BY <2>1, FromNot
<1>2. CASE \E g : CallFreeze(t, g)
  <2>1. pc'[t] = "frz"
    BY <1>2 DEF CallFreeze, Goto, TypeInv, TypeOK
  <2> QED
    BY <2>1, FromNot
<1>3. CASE \E m \in Local : \E r \in {"cfound", "dfound", "dfix"} : CallFind(t, m, r)
  <2>1. PICK m \in Local, r \in {"cfound", "dfound", "dfix"} : CallFind(t, m, r)
    BY <1>3
  <2>2. pc'[t] = "fhead" /\ my'[t] = [m EXCEPT !.ret = r, !.found = FALSE]
    BY <2>1 DEF CallFind, Goto, TypeInv, TypeOK
  <2>3. my'[t].ret = r
    BY <2>2 DEF Local
  <2> QED
    BY <2>2, <2>3, FromNot DEF FindPC
<1>4. CASE \E l \in {"fault", "switch", "cnext", "ckey", "chelp", "dmark", "dundo", "dunlink"} : Goto(t, l)
  <2>1. pc'[t] \in {"fault", "switch", "cnext", "ckey", "chelp", "dmark", "dundo", "dunlink"}
    BY <1>4 DEF Goto, TypeInv, TypeOK
  <2> QED
    BY <2>1, FromNot
<1> QED
  BY <1>1, <1>2, <1>3, <1>4
-----------------------------------------------------------------------------
(***************************************************************************)
(* The steps that lead outside.                                            *)
(***************************************************************************)
LEMMA AnsweringSteady ==
    ASSUME NEW M, TypeInv, NEW t \in Thread, SearchFound(t) \/ InsertCount(t) \/ ClearStep(t) \/ Recover(t)
    PROVE  Steady(M, t)
<1>1. fstate' = fstate /\ settled' = settled
  BY DEF SearchFound, InsertCount, ClearStep, ClearNext, ClearKey, ClearHelp, ClearFound, Recover,
         Answers, shared, history
<1>2. [my[t] EXCEPT !.trig = "-"] \in Local
  <2>1. my[t] \in Local
    BY DEF TypeInv, TypeOK
  <2> QED
    BY <2>1 DEF Local
<1>3. Outside(t)'
  <2>1. CASE SearchFound(t) \/ InsertCount(t)
    BY <2>1, CallsOutside DEF SearchFound, InsertCount
  <2>2. CASE ClearNext(t) \/ ClearKey(t) \/ ClearHelp(t) \/ ClearFound(t)
    BY <2>2, CallsOutside DEF ClearNext, ClearKey, ClearHelp, ClearFound
  <2>3. CASE Recover(t)
    BY <1>2, <2>3, CallsOutside DEF Recover
  <2> QED
    BY <2>1, <2>2, <2>3 DEF ClearStep
<1> QED
  BY <1>1, <1>3, OutsideSteady DEF StateMoves

LEMMA DeleteSteady ==
    ASSUME NEW M, TypeInv, NEW t \in Thread, DeleteStep(t)
    PROVE  Steady(M, t)
<1>1. fstate' = fstate /\ settled' = settled /\ my[t] \in Local
  BY DEF DeleteStep, DeleteCount, DeleteFound, DeleteMark, DeleteUndo, DeleteUnlink, DeleteFixed,
         Answers, TakesEffect, shared, history, TypeInv, TypeOK
<1>2. Outside(t)'
  <2>1. CASE DeleteCount(t) \/ DeleteFound(t) \/ DeleteUndo(t)
    BY <1>1, <2>1, CallsOutside DEF DeleteCount, DeleteFound, DeleteUndo
  <2>2. CASE DeleteMark(t)
    BY <1>1, <2>2, CallsOutside DEF DeleteMark
  <2>3. CASE DeleteUnlink(t) \/ DeleteFixed(t)
    BY <1>1, <2>3, CallsOutside DEF DeleteUnlink, DeleteFixed
  <2> QED
    BY <2>1, <2>2, <2>3 DEF DeleteStep
<1> QED
  BY <1>1, <1>2, OutsideSteady DEF StateMoves

LEMMA AllocateSteady ==
    ASSUME NEW M, TypeInv, NEW t \in Thread, Allocate(t)
    PROVE  Steady(M, t)
<1>1. /\ pc[t] = "alloc" /\ fstate' = fstate /\ settled' = settled /\ my[t] \in Local
      /\ my[t].trig = "-"
  BY DEF Allocate, history, TypeInv, TypeOK, ThreadInv, OwnInv
<1>2. CASE CallFreeze(t, "INSERT")
  BY <1>1, <1>2, CallsOutside, OutsideSteady DEF StateMoves
<1>3. CASE Goto(t, "ifrom") /\ my' = [my EXCEPT ![t].own = my[t].scan]
  <2>1. pc'[t] = "ifrom" /\ my'[t].trig = "-"
    BY <1>1, <1>3 DEF Goto, TypeInv, TypeOK, Local
  <2> QED
    BY <1>1, <2>1, FromNot, OutsideSteady DEF StateMoves
<1>4. CASE UNCHANGED <<pc, kd, tg>>
  <2>1. pc'[t] = "alloc"
    BY <1>1, <1>4
  <2> QED
    BY <1>1, <2>1, FromNot, OutsideSteady DEF StateMoves
<1> QED
  BY <1>2, <1>3, <1>4 DEF Allocate

LEMMA InvokeSteady ==
    ASSUME NEW M, TypeInv, NEW t \in Thread, Invoke(t)
    PROVE  Steady(M, t)
<1>1. PICK w \in Work[t] : /\ Goto(t, Start(w.kind))
                           /\ my' = [my EXCEPT ![t].ret = IF w.kind = "search" THEN "sfound" ELSE "-"]
  BY DEF Invoke
<1>2. w.kind \in Kind /\ my[t] \in Local /\ fstate' = fstate /\ settled' = settled
  <2>1. w.kind \in Kind /\ my[t] \in Local
    BY WorkAssumption DEF TypeInv, TypeOK
  <2> QED
    BY <2>1 DEF Invoke, shared
<1>3. pc'[t] = Start(w.kind) /\ (w.kind = "search" => my'[t].ret = "sfound")
  BY <1>1, <1>2 DEF Goto, TypeInv, TypeOK, Local
<1>4. pc'[t] \in {"alloc", "dec", "slave"} \/ (pc'[t] = "fhead" /\ my'[t].ret = "sfound")
  BY <1>2, <1>3 DEF Start, Kind
<1>5. Outside(t)'
  BY <1>4, FromNot DEF FindPC
<1> QED
  BY <1>2, <1>5, OutsideSteady DEF StateMoves

LEMMA FreezeStartSteady ==
    ASSUME NEW M, TypeInv, NEW t \in Thread, FreezeStart(t)
    PROVE  Steady(M, t)
<1>1. settled' = settled /\ StateMoves /\ Goto(t, "switch")
  BY DEF FreezeStart, history, StateMoves
<1> QED
  BY <1>1, CallsOutside, OutsideSteady

(***************************************************************************)
(* find, and insertEntry, in stabilizeChunk and elsewhere.                 *)
(***************************************************************************)
LEMMA FindSteady ==
    ASSUME NEW L \in SUBSET Slot, NEW M \in SUBSET Slot, NEW t \in Thread, Known(L), Stable(L),
           Follows(L, M, t), DecideInv, TypeInv', OrderInv', FindStep(t)
    PROVE  Steady(M, t)
<1>1. TypeInv /\ my[t].trig \in Trigger \cup {"-"}
  BY DEF Known, TypeInv, TypeOK, Local
<1>2. /\ pc[t] \in FindPC /\ my[t].ret \in Return
      /\ pc'[t] \in FindPC \/ pc'[t] = my[t].ret
      /\ my'[t].ret = my[t].ret /\ my'[t].trig = my[t].trig
      /\ my'[t].scan = my[t].scan /\ my'[t].dec = my[t].dec
      /\ UNCHANGED <<kd, counter, fstate, content, settled>>
  BY <1>1, FindKeeps
<1>3. pc'[t] \notin {"decide", "recover"}
  BY <1>2 DEF FindPC, Return
<1>4. CASE my[t].ret = "slot"
  <2>1. StableAt(M, t)' /\ InFreeze(t)
    BY <1>2, <1>4, SweepStable DEF InFreeze, Stabilizing
  <2> QED
    BY <1>2, <1>3, <2>1, InsideSteady
<1>5. CASE my[t].ret = "slotfound" \/ (my[t].ret = "ifound" /\ my[t].trig # "-")
  <2>1. Choosing(t) /\ Choosing(t)' /\ InFreeze(t)
    BY <1>2, <1>5 DEF Choosing, Inserting, InFreeze, Stabilizing
  <2>2. Seen(t)' => kd[my[t].scan].key \in content'
    BY <1>2, <2>1, FoundIsThere
  <2>3. StableAt(M, t)'
    BY <1>2, <2>1, <2>2, ChoosingStable
  <2> QED
    BY <1>2, <1>3, <2>1, <2>3, InsideSteady
<1>6. CASE my[t].ret \in {"sfound", "cfound", "dfound", "dfix"} \/ (my[t].ret = "ifound" /\ my[t].trig = "-")
  <2>1. Outside(t)'
    BY <1>2, <1>6, FromNot
  <2> QED
    BY <1>2, <2>1, OutsideSteady DEF StateMoves
<1> QED
  BY <1>2, <1>4, <1>5, <1>6 DEF Return

LEMMA InsertFromSteady ==
    ASSUME NEW L \in SUBSET Slot, NEW M \in SUBSET Slot, NEW t \in Thread, Known(L), Stable(L),
           Follows(L, M, t), DecideInv, InsertFrom(t)
    PROVE  Steady(M, t)
<1>1. /\ TypeInv /\ pc[t] = "ifrom" /\ UNCHANGED <<fstate, settled>> /\ Inserting(t)
      /\ my[t] \in Local
  BY DEF Known, InsertFrom, Inserting, shared, history, TypeInv, TypeOK
<1>2. /\ pc'[t] = "fhead" /\ my'[t].ret = "ifound" /\ my'[t].trig = my[t].trig
      /\ my'[t].scan = my[t].scan /\ my'[t].dec = my[t].dec
  <2> DEFINE m == [my[t] EXCEPT !.saved = next[Ent(t)]]
  <2>1. m \in Local /\ m.trig = my[t].trig /\ m.scan = my[t].scan /\ m.dec = my[t].dec
    <3>1. next[Ent(t)] \in Word
      BY <1>1, EntryAtHand, WordTypes
    <3> QED
      BY ONLY <1>1, <3>1 DEF m, Local
  <2>2. CallFind(t, m, "ifound")
    BY DEF InsertFrom
  <2> HIDE DEF m
  <2>3. pc'[t] = "fhead" /\ my'[t] = [m EXCEPT !.ret = "ifound", !.found = FALSE]
    BY <1>1, <2>2 DEF CallFind, Goto, TypeInv, TypeOK
  <2> QED
    BY <2>1, <2>3 DEF Local
<1>3. CASE my[t].trig = "-"
  <2>1. Outside(t)'
    BY <1>2, <1>3, FromNot DEF FindPC
  <2> QED
    BY <1>1, <2>1, OutsideSteady DEF StateMoves
<1>4. CASE my[t].trig # "-"
  <2>1. Choosing(t) /\ Choosing(t)' /\ InFreeze(t) /\ ~Seen(t)'
    BY <1>1, <1>2, <1>4 DEF Choosing, Inserting, InFreeze, Stabilizing, Seen, FindPC
  <2>2. StableAt(M, t)'
    BY <1>2, <2>1, ChoosingStable
  <2> QED
    BY <1>1, <1>2, <2>1, <2>2, InsideSteady
<1> QED
  BY <1>3, <1>4

LEMMA InsertFoundSteady ==
    ASSUME NEW L \in SUBSET Slot, NEW M \in SUBSET Slot, NEW t \in Thread, Known(L), Stable(L),
           Follows(L, M, t), DecideInv, InsertFound(t)
    PROVE  Steady(M, t)
<1>1. /\ TypeInv /\ pc[t] = "ifound" /\ UNCHANGED <<fstate, settled>> /\ Inserting(t)
  BY DEF Known, InsertFound, Inserting, Answers, history
<1>2. my[t].trig # "-" => Choosing(t) /\ InFreeze(t)
  BY <1>1 DEF Choosing, InFreeze, Stabilizing
<1>3. CASE my[t].found /\ my[t].trig # "-" /\ NextSlot(t)
  <2>1. kd[my[t].scan].key \in content'
    BY <1>1, <1>2, <1>3, ChoosingFacts DEF Seen, Stable, StableAt
  <2>2. StableAt(M, t)' /\ pc'[t] = "slot" /\ my'[t].dec = my[t].dec
    BY <1>2, <1>3, <2>1, NextSlotStable
  <2> QED
    BY <1>1, <1>2, <1>3, <2>2, InsideSteady
<1>4. CASE Answers(t, "TRUE") \/ Goto(t, "cnext")
  BY <1>1, <1>4, CallsOutside, OutsideSteady DEF StateMoves
<1>5. CASE my' = my /\ (Goto(t, "link") \/ Goto(t, "ifrom"))
  <2>1. pc'[t] \in {"link", "ifrom"} /\ my'[t] = my[t]
    BY <1>1, <1>5 DEF Goto, TypeInv, TypeOK
  <2>2. CASE my[t].trig = "-"
    <3>1. Outside(t)'
      BY <2>1, <2>2, FromNot
    <3> QED
      BY <1>1, <3>1, OutsideSteady DEF StateMoves
  <2>3. CASE my[t].trig # "-"
    <3>1. Choosing(t)' /\ ~Seen(t)'
      BY <2>1, <2>3 DEF Choosing, Inserting, Seen
    <3>2. StableAt(M, t)'
      BY <1>2, <2>1, <2>3, <3>1, ChoosingStable
    <3> QED
      BY <1>1, <1>2, <2>1, <2>3, <3>2, InsideSteady
  <2> QED
    BY <2>2, <2>3
<1> QED
  BY <1>3, <1>4, <1>5 DEF InsertFound

LEMMA InsertLinkSteady ==
    ASSUME NEW L \in SUBSET Slot, NEW M \in SUBSET Slot, NEW t \in Thread, Known(L), Stable(L),
           Follows(L, M, t), DecideInv, InsertLink(t)
    PROVE  Steady(M, t)
<1>1. /\ TypeInv /\ pc[t] = "link" /\ UNCHANGED <<fstate, settled>> /\ Inserting(t)
  BY DEF Known, InsertLink, Inserting, TakesEffect, history
<1>2. my[t].trig # "-" => Choosing(t) /\ InFreeze(t)
  BY <1>1 DEF Choosing, InFreeze, Stabilizing
<1>3. CASE my' = my /\ Goto(t, "ifrom")
  <2>1. pc'[t] = "ifrom" /\ my'[t] = my[t]
    BY <1>1, <1>3 DEF Goto, TypeInv, TypeOK
  <2>2. CASE my[t].trig = "-"
    <3>1. Outside(t)'
      BY <2>1, <2>2, FromNot
    <3> QED
      BY <1>1, <3>1, OutsideSteady DEF StateMoves
  <2>3. CASE my[t].trig # "-"
    <3>1. Choosing(t)' /\ ~Seen(t)'
      BY <2>1, <2>3 DEF Choosing, Inserting, Seen
    <3>2. StableAt(M, t)'
      BY <1>2, <2>1, <2>3, <3>1, ChoosingStable
    <3> QED
      BY <1>1, <1>2, <2>1, <2>3, <3>2, InsideSteady
  <2> QED
    BY <2>2, <2>3
<1>4. CASE my[t].trig = "-" /\ Goto(t, "inc")
  <2>1. pc'[t] = "inc"
    BY <1>1, <1>4 DEF Goto, TypeInv, TypeOK
  <2> QED
    BY <1>1, <2>1, FromNot, OutsideSteady DEF StateMoves
<1>5. CASE my[t].trig # "-" /\ NextSlot(t) /\ content' = content \cup {kd[Ent(t)].key}
  <2>1. kd[my[t].scan].key \in content'
    BY <1>5 DEF Ent
  <2>2. StableAt(M, t)' /\ pc'[t] = "slot" /\ my'[t].dec = my[t].dec
    BY <1>2, <1>5, <2>1, NextSlotStable
  <2> QED
    BY <1>1, <1>2, <1>5, <2>2, InsideSteady
<1> QED
  BY <1>3, <1>4, <1>5 DEF InsertLink, TakesEffect

(***************************************************************************)
(* stabilizeChunk, and what comes before.                                  *)
(***************************************************************************)
LEMMA StabilizeNextSteady ==
    ASSUME NEW L \in SUBSET Slot, NEW M \in SUBSET Slot, NEW t \in Thread, Known(L), Stable(L),
           Follows(L, M, t), DecideInv, StabilizeNext(t)
    PROVE  Steady(M, t)
<1>1. /\ TypeInv /\ pc[t] = "slot" /\ UNCHANGED <<fstate, settled>> /\ my[t] \in Local
      /\ InFreeze(t)
  BY DEF Known, StabilizeNext, shared, history, TypeInv, TypeOK, InFreeze, Stabilizing
<1>2. PICK s \in Pending(my[t].scan) :
          /\ \A r \in Pending(my[t].scan) : s <= r
          /\ CallFind(t, [my[t] EXCEPT !.scan = s], "slotfound")
  BY DEF StabilizeNext
<1>3. s \in Slot /\ s \in Int
  BY <1>2, SizeAssumption DEF Pending, Slot
<1>4. /\ pc'[t] = "fhead" /\ my'[t].ret = "slotfound" /\ my'[t].scan = s /\ my'[t].dec = my[t].dec
  <2>1. pc'[t] = "fhead" /\ my'[t] = [[my[t] EXCEPT !.scan = s] EXCEPT !.ret = "slotfound", !.found = FALSE]
    BY <1>1, <1>2 DEF CallFind, Goto, TypeInv, TypeOK
  <2> QED
    BY <1>1, <2>1 DEF Local
<1>5. /\ CleanTo(M, NoKey)' /\ Complete(my[t].scan) /\ \A i : Complete(i) => Complete(i)'
  BY <1>1, ChoosingFacts
<1>6. Complete(s)
  <2>1. ASSUME NEW r \in Slot, r < s, kd[r].key # NoKey, ~next[r].del PROVE kd[r].key \in content
    <3>1. r \notin Pending(my[t].scan)
      BY <1>2, <1>3, <2>1 DEF Slot
    <3>2. r \in Int /\ my[t].scan \in Int
      BY <1>1, SizeAssumption DEF Slot, Local
    <3>3. r < my[t].scan
      BY <2>1, <3>1, <3>2 DEF Pending
    <3> QED
      BY <1>5, <2>1, <3>3 DEF Complete
  <2> QED
    BY <2>1 DEF Complete
<1>7. Complete(my[t].scan)'
  <2>1. Complete(s)'
    BY <1>5, <1>6
  <2> QED
    BY <1>4, <2>1 DEF Complete
<1>8. ~Sweeping(t)' /\ ~Seen(t)'
  BY <1>4 DEF Sweeping, Seen, FindPC
<1>9. StableAt(M, t)'
  BY <1>5, <1>7, <1>8 DEF StableAt
<1> QED
  BY <1>1, <1>4, <1>9, InsideSteady

LEMMA StabilizeFoundSteady ==
    ASSUME NEW L \in SUBSET Slot, NEW M \in SUBSET Slot, NEW t \in Thread, Known(L), Stable(L),
           Follows(L, M, t), DecideInv, StabilizeFound(t)
    PROVE  Steady(M, t)
<1>1. /\ TypeInv /\ pc[t] = "slotfound" /\ UNCHANGED <<fstate, settled>>
      /\ Choosing(t) /\ InFreeze(t) /\ my[t].trig # "-"
  BY DEF Known, StabilizeFound, shared, history, InFreeze, Stabilizing, Choosing, TypeInv, ThreadInv,
         StableInv
<1>2. CASE my[t].found /\ NextSlot(t)
  <2>1. kd[my[t].scan].key \in content'
    BY <1>1, <1>2, ChoosingFacts DEF Seen, Stable, StableAt
  <2>2. StableAt(M, t)' /\ pc'[t] = "slot" /\ my'[t].dec = my[t].dec
    BY <1>1, <1>2, <2>1, NextSlotStable
  <2> QED
    BY <1>1, <2>2, InsideSteady
<1>3. CASE Goto(t, "ifrom") /\ UNCHANGED <<tg, my>>
  <2>1. pc'[t] = "ifrom" /\ my'[t] = my[t]
    BY <1>1, <1>3 DEF Goto, TypeInv, TypeOK
  <2>2. Choosing(t)' /\ ~Seen(t)'
    BY <1>1, <2>1 DEF Choosing, Inserting, Seen
  <2>3. StableAt(M, t)'
    BY <1>1, <2>1, <2>2, ChoosingStable
  <2> QED
    BY <1>1, <2>1, <2>3, InsideSteady
<1> QED
  BY <1>2, <1>3 DEF StabilizeFound

LEMMA StabilizeDoneSteady ==
    ASSUME NEW L \in SUBSET Slot, NEW M \in SUBSET Slot, NEW t \in Thread, Known(L), Stable(L),
           Follows(L, M, t), DecideInv, StabilizeDone(t)
    PROVE  Steady(M, t)
<1>1. /\ TypeInv /\ pc[t] = "slot" /\ fstate' = fstate /\ settled' /\ my' = my
      /\ InFreeze(t) /\ Pending(my[t].scan) = {} /\ my[t] \in Local /\ next' = next /\ kd' = kd
      /\ pc'[t] = IF my[t].dec = "-" THEN "decide" ELSE "recover"
  BY DEF Known, StabilizeDone, Goto, shared, InFreeze, Stabilizing, TypeInv, TypeOK
<1>2. /\ CleanTo(M, NoKey)' /\ Complete(my[t].scan) /\ AllFrozen
      /\ \A i : Complete(i) => Complete(i)'
  BY <1>1, ChoosingFacts
<1>3. Finished(M)'
  <2>1. Complete(MaxEntries)
    <3>1. ASSUME NEW r \in Slot, kd[r].key # NoKey, ~next[r].del PROVE kd[r].key \in content
      <4>1. r \in Int /\ my[t].scan \in Int
        BY <1>1, SizeAssumption DEF Slot, Local
      <4>2. r < my[t].scan
        BY <1>1, <3>1, <4>1 DEF Pending
      <4> QED
        BY <1>2, <3>1, <4>2 DEF Complete
    <3> QED
      BY <3>1 DEF Complete
  <2>2. AllFrozen'
    BY <1>1, <1>2, NothingFrozen
  <2>3. Complete(MaxEntries)'
    BY <1>2, <2>1
  <2> QED
    BY <1>2, <2>2, <2>3 DEF Finished
<1>4. StableAt(M, t)'
  BY <1>1 DEF StableAt, Sweeping, Seen, Choosing, Inserting, FindPC
<1>5. DecideAt(t)'
  <2>1. DecideAt(t) /\ (Agreed => Agreed')
    BY <1>1, AgreedStays DEF DecideInv
  <2>2. ~Stabilizing(t)'
    BY <1>1 DEF Stabilizing, Choosing, Inserting, FindPC
  <2>3. CASE my[t].dec = "-"
    BY <1>1, <2>1, <2>2, <2>3 DEF DecideAt, InFreeze
  <2>4. CASE my[t].dec # "-"
    <3>1. my[t].dec = "R_MERGE" /\ fstate = "SLAVE_FREEZE"
      BY <1>1, <2>1, <2>4 DEF DecideAt
    <3>2. DecisionOf(fstate') = "R_MERGE"
      BY <1>1, <3>1 DEF DecisionOf
    <3> QED
      BY <1>1, <2>2, <2>4, <3>1, <3>2 DEF DecideAt, InFreeze
  <2> QED
    BY <2>3, <2>4
<1> QED
  BY <1>1, <1>3, <1>4, <1>5 DEF Steady, StateMoves
-----------------------------------------------------------------------------
(***************************************************************************)
(* freeze: marking, the switch on the state, the decision.                 *)
(***************************************************************************)
LEMMA MarkFrozenSteady ==
    ASSUME NEW L \in SUBSET Slot, NEW M \in SUBSET Slot, NEW t \in Thread, Known(L), Stable(L),
           Follows(L, M, t), DecideInv, MarkFrozen(t)
    PROVE  Steady(M, t)
<1>1. pc[t] = "mark" /\ UNCHANGED <<fstate, settled, pc, my>> /\ InFreeze(t)
  BY DEF MarkFrozen, history, InFreeze
<1>2. StableAt(M, t)'
  BY <1>1 DEF StableAt, Sweeping, Seen, Choosing, Inserting, FindPC
<1> QED
  BY <1>1, <1>2, InsideSteady

LEMMA MarkedAllSteady ==
    ASSUME NEW L \in SUBSET Slot, NEW M \in SUBSET Slot, NEW t \in Thread, Known(L), Stable(L),
           Follows(L, M, t), TypeInv', DecideInv, MarkedAll(t)
    PROVE  Steady(M, t)
<1>1. /\ TypeInv /\ pc[t] = "mark" /\ UNCHANGED <<fstate, settled>> /\ InFreeze(t) /\ my[t] \in Local
      /\ CallFind(t, [my[t] EXCEPT !.scan = 0], "slot")
  BY DEF Known, MarkedAll, shared, history, InFreeze, TypeInv, TypeOK
<1>2. /\ pc'[t] = "fhead" /\ my'[t].ret = "slot" /\ my'[t].scan = 0 /\ my'[t].dec = my[t].dec
      /\ tg'[t].prev = EntryHead
  <2>1. /\ pc'[t] = "fhead" /\ tg'[t] = NoPlace
        /\ my'[t] = [[my[t] EXCEPT !.scan = 0] EXCEPT !.ret = "slot", !.found = FALSE]
    BY <1>1 DEF CallFind, Goto, Forget, TypeInv, TypeOK
  <2> QED
    BY <1>1, <2>1 DEF Local, NoPlace
<1>3. CleanTo(M, KeyOf(EntryHead))'
  BY HeadClean
<1>4. CleanTo(M, KeyOf(tg[t].prev))'
  BY <1>2, <1>3 DEF CleanTo
<1>5. ~Seen(t)' /\ ~Choosing(t)' /\ pc'[t] # "slot"
  BY <1>2 DEF Seen, Choosing, Inserting, FindPC
<1>6. StableAt(M, t)'
  BY <1>2, <1>4, <1>5 DEF StableAt
<1> QED
  BY <1>1, <1>2, <1>6, InsideSteady

LEMMA FreezeSwitchSteady ==
    ASSUME NEW L \in SUBSET Slot, NEW M \in SUBSET Slot, NEW t \in Thread, Known(L), Stable(L),
           Follows(L, M, t), CountInv, DecideInv, FreezeSwitch(t)
    PROVE  Steady(M, t)
<1>1. /\ TypeInv /\ pc[t] = "switch" /\ UNCHANGED <<fstate, settled>> /\ my[t] \in Local
      /\ fstate \in State /\ fstate # "NORMAL"
  BY DEF Known, FreezeSwitch, shared, history, TypeInv, TypeOK, CountInv, Freezes
<1>2. /\ my'[t].dec = DecisionOf(fstate)
      /\ pc'[t] = IF fstate \in {"FREEZE", "SLAVE_FREEZE"} THEN "mark" ELSE "recover"
  BY <1>1 DEF FreezeSwitch, Goto, TypeInv, TypeOK, Local
<1>3. StableAt(M, t)' /\ ~Stabilizing(t)'
  BY <1>2 DEF StableAt, Sweeping, Seen, Stabilizing, Choosing, Inserting, FindPC
<1>4. DecideAt(t)'
  <2>1. CASE fstate = "FREEZE"
    <3>1. DecisionOf(fstate) = "-" /\ pc'[t] = "mark"
      BY <1>2, <2>1 DEF DecisionOf
    <3> QED
      BY <1>1, <1>2, <2>1, <3>1 DEF DecideAt
  <2>2. CASE fstate = "SLAVE_FREEZE"
    <3>1. DecisionOf(fstate) = "R_MERGE" /\ pc'[t] = "mark"
      BY <1>2, <2>2 DEF DecisionOf
    <3> QED
      BY <1>1, <1>2, <2>2, <3>1 DEF DecideAt
  <2>3. CASE fstate \in {"COPY", "SPLIT", "REQUEST_SLAVE", "MERGE"}
    <3>1. DecisionOf(fstate) # "-" /\ pc'[t] = "recover" /\ settled
      BY <1>2, <2>3 DEF DecisionOf, DecideInv, Agreed
    <3> QED
      BY <1>1, <1>2, <1>3, <3>1 DEF DecideAt, InFreeze
  <2> QED
    BY <1>1, <2>1, <2>2, <2>3 DEF State
<1> QED
  BY <1>1, <1>3, <1>4 DEF Steady, StateMoves

LEMMA EnslaveSteady ==
    ASSUME NEW M, TypeInv, NEW t \in Thread, Enslave(t)
    PROVE  Steady(M, t)
<1>1. settled' = settled /\ my[t] \in Local
  BY DEF Enslave, history, TypeInv, TypeOK
<1>2. CASE CallFreeze(t, "ENSLAVE") /\ UNCHANGED fstate
  BY <1>1, <1>2, CallsOutside, OutsideSteady DEF StateMoves
<1>3. CASE /\ fstate \in {"NORMAL", "SLAVE_FREEZE"} /\ fstate' = "SLAVE_FREEZE" /\ Goto(t, "mark")
           /\ my' = [my EXCEPT ![t].trig = "ENSLAVE", ![t].dec = "R_MERGE"]
  <2>1. pc'[t] = "mark" /\ my'[t].dec = "R_MERGE"
    BY <1>1, <1>3 DEF Goto, TypeInv, TypeOK, Local
  <2>2. StableAt(M, t)'
    BY <2>1 DEF StableAt, Sweeping, Seen, Choosing, Inserting, FindPC
  <2>3. DecideAt(t)'
    BY <1>3, <2>1 DEF DecideAt
  <2>4. StateMoves
    BY <1>3 DEF StateMoves
  <2> QED
    BY <1>1, <2>2, <2>3, <2>4 DEF Steady
<1> QED
  BY <1>2, <1>3 DEF Enslave

LEMMA DecideSteady ==
    ASSUME NEW L \in SUBSET Slot, NEW M \in SUBSET Slot, NEW t \in Thread, Known(L), Stable(L),
           Follows(L, M, t), DecideInv, Decide(t)
    PROVE  Steady(M, t)
<1> DEFINE d == FreezeDecision(EntrNum)
<1>1. /\ TypeInv /\ pc[t] = "decide" /\ settled /\ settled' = settled /\ next' = next /\ my[t].dec = "-"
      /\ my[t] \in Local /\ (fstate = "FREEZE" \/ Agreed)
  <2>1. TypeInv /\ pc[t] = "decide" /\ settled' = settled /\ next' = next /\ my[t] \in Local /\ DecideAt(t)
    BY DEF Known, Decide, history, TypeInv, TypeOK, DecideInv
  <2> QED
    BY <2>1 DEF DecideAt, InFreeze
<1>2. EntrNum' = EntrNum
  BY <1>1 DEF EntrNum, InList, Reached
<1>3. d \in {"R_MERGE", "R_SPLIT", "R_COPY"} /\ DecisionOf(StateOf(d)) = d /\ d # "-"
  <2>1. d \in {"R_MERGE", "R_SPLIT", "R_COPY"}
    BY DEF FreezeDecision
  <2> HIDE DEF d
  <2>2. DecisionOf(StateOf(d)) = d /\ d # "-"
    BY <2>1 DEF DecisionOf, StateOf
  <2> QED
    BY <2>1, <2>2
<1>4. /\ fstate' = (IF fstate = "FREEZE" THEN StateOf(d) ELSE fstate)
      /\ pc'[t] = "recover" /\ my'[t].dec = d
  <2>1. /\ fstate' = (IF fstate = "FREEZE" THEN StateOf(d) ELSE fstate)
        /\ Goto(t, "recover") /\ my' = [my EXCEPT ![t].dec = d]
    BY DEF Decide
  <2> HIDE DEF d
  <2> QED
    BY <1>1, <2>1 DEF Goto, TypeInv, TypeOK, Local
<1>5. DecisionOf(fstate') = d
  <2>1. Agreed => DecisionOf(fstate) = d
    BY DEF Agreed
  <2> HIDE DEF d
  <2> QED
    BY <1>1, <1>3, <1>4, <2>1
<1>6. Agreed'
  <2>1. FreezeDecision(EntrNum)' = d
    BY <1>2 DEF FreezeDecision
  <2> HIDE DEF d
  <2> QED
    BY <1>1, <1>5, <2>1 DEF Agreed, DecisionOf
<1>7. StateMoves
  BY <1>4, <1>6 DEF StateMoves
<1>8. StableAt(M, t)' /\ ~Stabilizing(t)'
  BY <1>4 DEF StableAt, Sweeping, Seen, Stabilizing, Choosing, Inserting, FindPC
<1>9. DecideAt(t)'
  BY <1>1, <1>3, <1>4, <1>5, <1>8 DEF DecideAt, InFreeze, DecisionOf
<1> QED
  BY <1>1, <1>7, <1>8, <1>9 DEF Steady
-----------------------------------------------------------------------------
LEMMA StepSteady ==
    ASSUME NEW L \in SUBSET Slot, NEW M \in SUBSET Slot, NEW t \in Thread, Known(L), Stable(L),
           Follows(L, M, t), TypeInv', OrderInv', CountInv, DecideInv, Invoke(t) \/ Step(t)
    PROVE  Steady(M, t)
<1>1. TypeInv
  BY DEF Known
<1>2. CASE FindStep(t)
  BY <1>2, FindSteady
<1>3. CASE SearchFound(t) \/ InsertCount(t) \/ ClearStep(t) \/ Recover(t)
  BY <1>1, <1>3, AnsweringSteady
<1>4. CASE DeleteStep(t)
  BY <1>1, <1>4, DeleteSteady
<1>5. CASE Allocate(t) \/ InsertFrom(t) \/ InsertFound(t) \/ InsertLink(t)
  BY <1>1, <1>5, AllocateSteady, InsertFromSteady, InsertFoundSteady, InsertLinkSteady
<1>6. CASE FreezeStart(t) \/ FreezeSwitch(t) \/ Enslave(t) \/ Decide(t)
  BY <1>1, <1>6, FreezeStartSteady, FreezeSwitchSteady, EnslaveSteady, DecideSteady
<1>7. CASE MarkFrozen(t) \/ MarkedAll(t)
  BY <1>7, MarkFrozenSteady, MarkedAllSteady
<1>8. CASE StabilizeStep(t)
  BY <1>8, StabilizeNextSteady, StabilizeFoundSteady, StabilizeDoneSteady DEF StabilizeStep
<1>9. CASE Invoke(t)
  BY <1>1, <1>9, InvokeSteady
<1> QED
  BY <1>2, <1>3, <1>4, <1>5, <1>6, <1>7, <1>8, <1>9 DEF Step, InsertStep, FreezeStep

Settling == \E L \in SUBSET Slot : Content(L) /\ Stable(L)

\* no thread takes a step: a partner decides who is the master, or nothing happens
LEMMA StillSettling ==
    ASSUME NEW L \in SUBSET Slot, Content(L), Stable(L), DecideInv,
           PartnerResolves \/ AllDone \/ UNCHANGED vars
    PROVE  Content(L)' /\ Stable(L)' /\ DecideInv' /\ Reached' = Reached
<1>1. /\ UNCHANGED <<next, kd, pc, tg, my, content, call, settled>>
      /\ fstate' = fstate \/ (fstate = "REQUEST_SLAVE" /\ fstate' \in {"MERGE", "SLAVE_FREEZE"})
  BY DEF PartnerResolves, AllDone, vars, history
<1>2. /\ Content(L)' /\ Reached' = Reached /\ EntrNum' = EntrNum /\ Live(L)' = Live(L)
      /\ \A c : KeyOf(c)' = KeyOf(c)
  BY <1>1, StillContent DEF Reached, EntrNum, InList, Live, KeyOf
<1>3. /\ \A b : CleanTo(L, b)' <=> CleanTo(L, b)
      /\ \A i : Complete(i)' <=> Complete(i)
      /\ AllFrozen' <=> AllFrozen
  BY <1>1, <1>2 DEF CleanTo, Complete, AllFrozen, KeyFrozen
<1>4. Stable(L)'
  <2>1. Finished(L)' <=> Finished(L)
    <3>1. CleanTo(L, NoKey)' <=> CleanTo(L, NoKey)
      BY <1>3
    <3>2. Complete(MaxEntries)' <=> Complete(MaxEntries)
      BY <1>3
    <3> QED
      BY <1>3, <3>1, <3>2 DEF Finished
  <2>2. ASSUME NEW t \in Thread PROVE StableAt(L, t)'
    <3>1. StableAt(L, t)
      BY DEF Stable
    <3>2. /\ Sweeping(t)' <=> Sweeping(t)
          /\ Choosing(t)' <=> Choosing(t)
          /\ Seen(t)' <=> Seen(t)
      BY <1>1 DEF Sweeping, Choosing, Inserting, Seen
    <3>3. CleanTo(L, KeyOf(tg[t].prev)) => CleanTo(L, KeyOf(tg[t].prev))'
      <4>1. PICK p : p = tg[t].prev
        OBVIOUS
      <4>2. CleanTo(L, KeyOf(p)) => CleanTo(L, KeyOf(p))'
        BY <1>1, <1>2 DEF CleanTo
      <4> QED
        BY <1>1, <4>1, <4>2 DEF CleanTo
    <3>4. Complete(my[t].scan) => Complete(my[t].scan)'
      BY <1>1 DEF Complete
    <3>5. CleanTo(L, NoKey) => CleanTo(L, NoKey)'
      BY <1>3
    <3> QED
      BY <1>1, <1>2, <3>1, <3>2, <3>3, <3>4, <3>5 DEF StableAt
  <2> QED
    BY <1>1, <2>1, <2>2 DEF Stable
<1>5. DecideInv'
  <2>1. Agreed => Agreed'
    <3>1. DecisionOf(fstate') = DecisionOf(fstate)
      BY <1>1 DEF DecisionOf
    <3>2. FreezeDecision(EntrNum)' = FreezeDecision(EntrNum)
      BY <1>2 DEF FreezeDecision
    <3> QED
      BY <1>1, <3>1, <3>2 DEF Agreed
  <2>2. fstate = "REQUEST_SLAVE" => Agreed
    BY DEF DecideInv
  <2>3. ASSUME NEW t \in Thread PROVE DecideAt(t)'
    <3>1. DecideAt(t) /\ (InFreeze(t)' <=> InFreeze(t))
      BY <1>1 DEF DecideInv, InFreeze, Stabilizing, Choosing, Inserting
    <3>2. DecisionOf(fstate') = DecisionOf(fstate)
      BY <1>1 DEF DecisionOf
    <3> QED
      BY <1>1, <2>1, <2>2, <3>1, <3>2 DEF DecideAt
  <2> QED
    BY <1>1, <2>1, <2>2, <2>3 DEF DecideInv
<1> QED
  BY <1>2, <1>4, <1>5

LEMMA NextSettles ==
    ASSUME InsertsBelow, TypeInv, PrivacyInv, OrderInv, CountInv, Settling, DecideInv,
           TypeInv', PrivacyInv', OrderInv', [Next]_vars
    PROVE  Settling' /\ DecideInv' /\ (settled => Reached' = Reached)
<1>1. PICK L \in SUBSET Slot : Content(L) /\ Stable(L) /\ Known(L)
  BY DEF Settling, Known
<1>2. ASSUME NEW t \in Thread, Invoke(t) \/ Step(t)
      PROVE  Settling' /\ DecideInv' /\ (settled => Reached' = Reached)
  <2>1. PICK M \in SUBSET Slot : Follows(L, M, t)
    BY <1>1, <1>2, StepFollows
  <2>2. Steady(M, t)
    BY <1>1, <1>2, <2>1, StepSteady
  <2>3. Stable(M)' /\ DecideInv'
    BY <1>1, <2>1, <2>2, SteadyKeeps
  <2>4. settled => Reached' = Reached
    BY <1>1, <2>1, FinishedFixed DEF Stable
  <2>5. Content(M)'
    BY <2>1 DEF Follows
  <2> QED
    BY <2>3, <2>4, <2>5 DEF Settling
<1>3. CASE PartnerResolves \/ AllDone \/ UNCHANGED vars
  <2>1. Content(L)' /\ Stable(L)' /\ DecideInv' /\ Reached' = Reached
    BY <1>1, <1>3, StillSettling
  <2> QED
    BY <2>1 DEF Settling
<1> QED
  BY <1>2, <1>3 DEF Next

LEMMA InitSettles == Init => Settling /\ DecideInv
<1> SUFFICES ASSUME Init PROVE Settling /\ DecideInv
  OBVIOUS
<1>1. PICK L \in SUBSET Slot : Content(L)
  BY InitContent DEF HasList
<1>2. fstate = "NORMAL" /\ ~settled /\ \A t \in Thread : pc[t] = "idle"
  BY DEF Init
<1>3. \A t \in Thread : ~Sweeping(t) /\ ~Choosing(t) /\ ~Seen(t) /\ ~Stabilizing(t)
  BY <1>2 DEF Sweeping, Seen, Stabilizing, Choosing, Inserting, FindPC
<1>4. Stable(L)
  BY <1>2, <1>3 DEF Stable, StableAt
<1>5. DecideInv
  BY <1>2, <1>3 DEF DecideInv, DecideAt, InFreeze
<1> QED
  BY <1>1, <1>4, <1>5 DEF Settling

(***************************************************************************)
(* The freeze, in every state: what stabilizeChunk has reached is kept,    *)
(* what it leaves is finished, and the state tells the decision.           *)
(***************************************************************************)
THEOREM FreezeInvariant ==
    ASSUME InsertsBelow
    PROVE  Spec => [](TypeInv /\ PrivacyInv /\ OrderInv /\ CountInv /\ Settling /\ DecideInv)
<1>1. Settling /\ DecideInv /\ CountInv /\ TypeInv /\ PrivacyInv /\ OrderInv
        /\ TypeInv' /\ PrivacyInv' /\ OrderInv' /\ [Next]_vars => Settling' /\ DecideInv'
  BY NextSettles
<1> QED
  BY InitSettles, CounterInvariant, <1>1, PTL DEF Spec

(***************************************************************************)
(* When one thread has stabilised the chunk, a walk meets all the keys,    *)
(* each in an entry that is frozen and not deleted: copyEntriesArray and   *)
(* its kin copy everything the calls have left.  For every value of the    *)
(* constants with which no key is inserted that is larger than one         *)
(* deleted, as the two theorems after it.                                  *)
(***************************************************************************)
THEOREM CopyComplete ==
    ASSUME InsertsBelow PROVE Spec => []SettledComplete
<1>1. TypeInv /\ PrivacyInv /\ OrderInv /\ Settling => SettledComplete
  BY FinishedComplete DEF Settling, Stable, Known, SettledComplete
<1> QED
  BY <1>1, FreezeInvariant, PTL

(***************************************************************************)
(* From then on the list does not change, whatever step is taken by the    *)
(* threads that are still on their way through the chunk.                  *)
(***************************************************************************)
THEOREM ListStaysFixed ==
    ASSUME InsertsBelow PROVE Spec => SettledListFixed
<1>1. (/\ TypeInv /\ PrivacyInv /\ OrderInv /\ CountInv /\ Settling /\ DecideInv
       /\ TypeInv' /\ PrivacyInv' /\ OrderInv' /\ [Next]_vars)
      => [settled => Reached' = Reached]_vars
  BY NextSettles
<1> QED
  BY <1>1, FreezeInvariant, PTL DEF Spec, SettledListFixed

(***************************************************************************)
(* All threads that recover the chunk have the same decision, the one the  *)
(* freeze state tells (freezeDecision, findMergeSlave, setSlave).          *)
(***************************************************************************)
THEOREM DecisionsAgree ==
    ASSUME InsertsBelow PROVE Spec => []DecisionAgreement
<1>1. DecideInv => DecisionAgreement
  BY DEF DecideInv, DecideAt, DecisionAgreement
<1> QED
  BY <1>1, FreezeInvariant, PTL
-----------------------------------------------------------------------------
(***************************************************************************)
(* The calls on a chunk are linearizable: ChunkList implements ChunkSet,   *)
(* step by step.                                                           *)
(*                                                                         *)
(* An insert takes effect when its entry is linked, by its own thread or   *)
(* by one that stabilises the chunk; a delete when it marks its entry.     *)
(* What has to be shown is that nobody answers otherwise than the history  *)
(* says: that the key was there, or was not, at some moment of the call,   *)
(* and that an insert that did not link its entry itself learns whether    *)
(* somebody else has.                                                      *)
(***************************************************************************)
\* t is in find to learn whether the key of its call is there
Asking(t)    == /\ pc[t] \in FindPC
                /\ \/ my[t].ret \in {"sfound", "dfound", "cfound"}
                   \/ my[t].ret = "ifound" /\ my[t].trig = "-"
\* ... and has learnt it
Told(t)      == pc[t] \in {"sfound", "dfound"} \/ (pc[t] = "ifound" /\ my[t].trig = "-")

Searching(t) == pc[t] = "sfound" \/ (pc[t] \in FindPC /\ my[t].ret = "sfound")
Removed(t)   == pc[t] \in {"dunlink", "dfix"} \/ (pc[t] \in FindPC /\ my[t].ret = "dfix")
Removing(t)  == Deleting(t) \/ Removed(t) \/ pc[t] = "dundo"
Checking(t)  == pc[t] = "cfound" \/ (pc[t] \in FindPC /\ my[t].ret = "cfound")

\* the key of t's insert existed; t clears its entry, or cannot as it is frozen
Existed(t)   == /\ my[t].own # End /\ pc[t] # "inc"
                /\ ~(Inserting(t) /\ my[t].trig = "-")
Stuck(t)     == Existed(t) /\ pc[t] \notin {"cnext", "ckey"}

(***************************************************************************)
(* The call that a thread is at.                                           *)
(***************************************************************************)
KindInv(t) ==
    /\ call[t].kind = "idle" <=> pc[t] = "idle"
    /\ Searching(t) => call[t].kind = "search"
    /\ Removing(t) \/ my[t].trig = "DELETE" => call[t].kind = "delete"
    /\ pc[t] = "slave" \/ my[t].trig = "ENSLAVE" => call[t].kind = "enslave"
    /\ my[t].trig = "INSERT" => call[t].kind = "insert" /\ my[t].own = End
    /\ pc[t] \in {"inc", "chelp"} \/ Checking(t) \/ my[t].trig = "NONE" => my[t].own # End
    /\ pc[t] \in {"decide", "recover"} => my[t].trig # "-"

(***************************************************************************)
(* Whether the call has taken effect: where its thread is tells it, or,    *)
(* for an insert, the list.                                                *)
(***************************************************************************)
EffectInv(L, t) ==
    /\ call[t].kind = "delete" => (call[t].eff <=> Removed(t))
    /\ call[t].kind = "insert" => (call[t].eff <=> (pc[t] = "inc" \/ my[t].own \in Live(L)))
    /\ pc[t] = "inc" => my[t].own \in L

(***************************************************************************)
(* What find has told the thread was so at some moment of the call.        *)
(***************************************************************************)
HistoryInv(t) ==
    /\ pc[t] # "idle" => (call[t].key \in content) \in call[t].seen
    /\ Told(t) => my[t].found \in call[t].seen
    /\ Existed(t) => TRUE \in call[t].seen

(***************************************************************************)
(* The thread has not yet gone past the key it asks for; after the freeze  *)
(* it looks for its own entry in a list that does not change any more.     *)
(***************************************************************************)
WayInv(L, t) ==
    /\ Asking(t) /\ pc[t] # "fhead" => KeyOf(tg[t].prev) < call[t].key
    /\ Stuck(t) => next[my[t].own].frz
    /\ Checking(t) => settled
    /\ pc[t] = "cfound" => (EntryIsThere(t) <=> my[t].own \in Live(L))

CallAt(L, t) == KindInv(t) /\ EffectInv(L, t) /\ HistoryInv(t) /\ WayInv(L, t)

\* until the chunk is stabilised, an entry not linked belongs to an insert at work
Owned(L) == ~settled => \A s \in Slot \ L : kd[s].key # NoKey => \E u \in Thread : my[u].own = s

\* markChunkFrozen freezes the nextEntry word of an entry first
FreezeOrder == \A s \in Slot : kd[s].frz => next[s].frz

CallsInv(L) == FreezeOrder /\ Owned(L) /\ \A t \in Thread : CallAt(L, t)

-----------------------------------------------------------------------------
(***************************************************************************)
(* A frozen word stays frozen, and the order in which the two words of an  *)
(* entry are frozen.                                                       *)
(***************************************************************************)
FrozenStay == \A c \in Cell : next[c].frz => next'[c].frz

LEMMA OrderStays ==
    ASSUME FreezeOrder, FrozenStay, \A s \in Slot : kd'[s].frz => kd[s].frz \/ next[s].frz
    PROVE  FreezeOrder'
BY Constants DEF FreezeOrder, FrozenStay

\* one word is written, and its frozen bit is kept or was not set
LEMMA WriteFrozen ==
    ASSUME TypeInv, FreezeOrder, NEW c \in Cell, NEW w, next' = [next EXCEPT ![c] = w],
           next[c].frz => w.frz, \A s \in Slot : kd'[s].frz => kd[s].frz
    PROVE  FrozenStay /\ FreezeOrder'
<1>1. FrozenStay
  BY DEF FrozenStay, TypeInv, TypeOK
<1> QED
  BY <1>1, OrderStays

LEMMA KeysFrozen ==
    ASSUME FreezeOrder, next' = next, \A s \in Slot : kd'[s].frz => kd[s].frz
    PROVE  FrozenStay /\ FreezeOrder'
<1>1. FrozenStay
  BY DEF FrozenStay
<1> QED
  BY <1>1, OrderStays

LEMMA MarkStays ==
    ASSUME TypeInv, FreezeOrder, NEW t \in Thread, MarkFrozen(t)
    PROVE  FrozenStay /\ FreezeOrder'
<1>1. PICK c \in Cell :
         \/ next' = [next EXCEPT ![c].frz = TRUE] /\ kd' = kd
         \/ next[c].frz /\ kd' = [kd EXCEPT ![c].frz = TRUE] /\ next' = next
  BY DEF MarkFrozen, ToBeFrozen
<1>2. CASE next' = [next EXCEPT ![c].frz = TRUE] /\ kd' = kd
  <2>1. FrozenStay
    BY <1>2 DEF FrozenStay, TypeInv, TypeOK, Word
  <2> QED
    BY <1>2, <2>1, OrderStays
<1>3. CASE next[c].frz /\ kd' = [kd EXCEPT ![c].frz = TRUE] /\ next' = next
  <2>1. FrozenStay
    BY <1>3 DEF FrozenStay
  <2>2. \A s \in Slot : kd'[s].frz => kd[s].frz \/ next[s].frz
    BY <1>3 DEF TypeInv, TypeOK, KeyWord
  <2> QED
    BY <2>1, <2>2, OrderStays
<1> QED
  BY <1>1, <1>2, <1>3

LEMMA InsertStays ==
    ASSUME TypeInv, FreezeOrder, NEW t \in Thread, InsertStep(t)
    PROVE  FrozenStay /\ FreezeOrder'
<1>1. CASE Allocate(t)
  <2>1. next' = next /\ \A s \in Slot : kd'[s].frz => kd[s].frz
    BY <1>1 DEF Allocate, TypeInv, TypeOK, KeyWord
  <2> QED
    BY <2>1, KeysFrozen
<1>2. CASE InsertFrom(t) \/ InsertCount(t)
  BY <1>2, KeysFrozen DEF InsertFrom, InsertCount, shared
<1>3. CASE InsertFound(t)
  <2>2. CASE next' = next
    BY <1>3, <2>2, KeysFrozen DEF InsertFound
  <2>3. CASE next' # next
    <3>1. /\ Ent(t) \in Cell /\ my[t].saved = next[Ent(t)]
          /\ next' = [next EXCEPT ![Ent(t)] = Bump(my[t].saved, Ahead(t))]
      BY <1>3, <2>3, EntryAtHand DEF InsertFound, Inserting, history
    <3>2. next[Ent(t)].frz => Bump(my[t].saved, Ahead(t)).frz
      BY <3>1 DEF Bump, TypeInv, TypeOK, Word
    <3> QED
      BY <1>3, <3>1, <3>2, WriteFrozen DEF InsertFound
  <2> QED
    BY <2>2, <2>3
<1>4. CASE InsertLink(t)
  <2>1. CASE next' = next
    BY <1>4, <2>1, KeysFrozen DEF InsertLink
  <2>2. CASE next' # next
    <3>1. /\ tg[t].prev \in Cell /\ next[tg[t].prev] = tg[t].cur
          /\ next' = [next EXCEPT ![tg[t].prev] = Bump(tg[t].cur, Ent(t))]
      BY <1>4, <2>2, PlaceTypes DEF InsertLink
    <3>2. next[tg[t].prev].frz => Bump(tg[t].cur, Ent(t)).frz
      BY <3>1 DEF Bump, TypeInv, TypeOK, Word
    <3> QED
      BY <1>4, <3>1, <3>2, WriteFrozen DEF InsertLink
  <2> QED
    BY <2>1, <2>2
<1> QED
  BY <1>1, <1>2, <1>3, <1>4 DEF InsertStep

LEMMA DeleteStays ==
    ASSUME TypeInv, FreezeOrder, NEW t \in Thread, DeleteStep(t)
    PROVE  FrozenStay /\ FreezeOrder'
<1>1. kd' = kd
  BY DEF DeleteStep, DeleteCount, DeleteFound, DeleteMark, DeleteUndo, DeleteUnlink, DeleteFixed, shared
<1>2. CASE next' = next
  BY <1>1, <1>2, KeysFrozen
<1>3. CASE next' # next /\ DeleteMark(t)
  <2>1. /\ tg[t].cur.idx \in Cell
        /\ next' = [next EXCEPT ![tg[t].cur.idx] = [Bump(@, @.idx) EXCEPT !.del = TRUE]]
    <3>1. tg[t].cur.idx # End /\ tg[t].cur \in Word
      BY <1>3, PlaceTypes DEF DeleteMark, TypeInv, ThreadInv, FindInv
    <3> QED
      BY <1>3, <3>1, Indices, Constants DEF DeleteMark
  <2> DEFINE c == tg[t].cur.idx
             w == [Bump(next[c], next[c].idx) EXCEPT !.del = TRUE]
  <2>2. next' = [next EXCEPT ![c] = w]
    BY <2>1
  <2>3. next[c].frz => w.frz
    BY <2>1 DEF Bump, TypeInv, TypeOK, Word
  <2> QED
    BY <1>1, <2>1, <2>2, <2>3, WriteFrozen
<1>4. CASE next' # next /\ DeleteUnlink(t)
  <2>1. /\ tg[t].prev \in Cell /\ next[tg[t].prev] = tg[t].cur
        /\ next' = [next EXCEPT ![tg[t].prev] = Bump(tg[t].cur, tg[t].next.idx)]
    BY <1>4, PlaceTypes DEF DeleteUnlink
  <2>2. next[tg[t].prev].frz => Bump(tg[t].cur, tg[t].next.idx).frz
    BY <2>1 DEF Bump, TypeInv, TypeOK, Word
  <2> QED
    BY <1>1, <2>1, <2>2, WriteFrozen
<1> QED
  BY <1>2, <1>3, <1>4
  DEF DeleteStep, DeleteCount, DeleteFound, DeleteUndo, DeleteFixed, shared

LEMMA ClearStays ==
    ASSUME TypeInv, FreezeOrder, NEW t \in Thread, ClearStep(t)
    PROVE  FrozenStay /\ FreezeOrder'
<1>1. CASE next' = next
  <2>1. kd' = kd \/ kd' = [kd EXCEPT ![my[t].own].key = NoKey]
    BY DEF ClearStep, ClearNext, ClearKey, ClearHelp, ClearFound, shared
  <2>2. \A s \in Slot : kd'[s].frz => kd[s].frz
    BY <2>1 DEF TypeInv, TypeOK, KeyWord
  <2> QED
    BY <1>1, <2>2, KeysFrozen
<1>2. CASE next' # next
  <2>1. /\ ClearNext(t) /\ ~next[my[t].own].frz /\ kd' = kd
        /\ next' = [next EXCEPT ![my[t].own] = NoWord]
    BY <1>2 DEF ClearStep, ClearNext, ClearKey, ClearHelp, ClearFound, shared
  <2>2. my[t].own \in Cell
    <3>1. my[t].own # End /\ my[t].own \in 0 .. MaxEntries
      BY <2>1, PlaceTypes DEF ClearNext, TypeInv, ThreadInv, OwnInv
    <3> QED
      BY <3>1, SizeAssumption DEF End, Cell, Slot
  <2> QED
    BY <2>1, <2>2, WriteFrozen
<1> QED
  BY <1>1, <1>2

LEMMA FindStays ==
    ASSUME TypeInv, FreezeOrder, NEW t \in Thread, FindStep(t)
    PROVE  FrozenStay /\ FreezeOrder'
<1>1. CASE next' = next
  BY <1>1, KeysFrozen DEF FindStep, FindHead, FindNext, FindUnlink, shared
<1>2. CASE next' # next
  <2>1. /\ FindUnlink(t) /\ tg[t].prev \in Cell
        /\ next' = [next EXCEPT ![tg[t].prev] = Bump(next[tg[t].prev], tg[t].next.idx)]
    BY <1>2, FindUnlinkMoves DEF FindStep, FindHead, FindNext, shared
  <2>2. next[tg[t].prev].frz => Bump(next[tg[t].prev], tg[t].next.idx).frz
    BY <2>1 DEF Bump, TypeInv, TypeOK, Word
  <2> QED
    BY <2>1, <2>2, WriteFrozen DEF FindUnlink
<1> QED
  BY <1>1, <1>2

\* what every step of a thread does to the frozen bits
LEMMA StepStays ==
    ASSUME TypeInv, FreezeOrder, NEW t \in Thread, Invoke(t) \/ Step(t)
    PROVE  FrozenStay /\ FreezeOrder'
<1>1. CASE Invoke(t) \/ SearchFound(t) \/ StabilizeStep(t) \/ (FreezeStep(t) /\ ~MarkFrozen(t))
  <2>1. UNCHANGED <<next, kd>>
    BY <1>1 DEF Invoke, SearchFound, StabilizeStep, StabilizeNext, StabilizeFound, StabilizeDone,
                FreezeStep, FreezeStart, FreezeSwitch, Enslave, MarkedAll, Decide, Recover, shared
  <2> QED
    BY <2>1, KeysFrozen
<1> QED
  BY <1>1, MarkStays, InsertStays, DeleteStays, ClearStays, FindStays DEF Step, FreezeStep

(***************************************************************************)
(* A step that leaves the set alone leaves alone the entries it is made of.*)
(***************************************************************************)
LEMMA QuietLive ==
    ASSUME NEW L \in SUBSET Slot, NEW t \in Thread, Known(L), Follows(L, L, t), content' = content
    PROVE  Live(L)' = Live(L)
<1>1. /\ KeysStay(t) /\ Holds(L)' /\ Holds(L) /\ Apart(L)
      /\ \A c \in Cell : next[c].del => next'[c].del
  BY DEF Follows, Onward, Content, ListInv, Known
<1>2. \A s \in L : kd'[s].key = kd[s].key
  BY <1>1, LinkedKeys
<1>3. ASSUME NEW x \in Live(L)' PROVE x \in Live(L)
  BY <1>1, <1>3, Constants DEF Live
<1>4. ASSUME NEW y \in Live(L) PROVE y \in Live(L)'
  <2>1. kd[y].key \in content'
    BY <1>1 DEF Holds, KeysIn
  <2>2. PICK x \in Live(L)' : kd'[x].key = kd[y].key
    BY <1>1, <2>1 DEF Holds, KeysIn
  <2>3. x \in Live(L) /\ x \in L
    BY <1>3 DEF Live
  <2>4. kd[x].key = kd[y].key
    BY <1>2, <2>2, <2>3
  <2>5. x = y
    BY <1>1, <2>3, <2>4 DEF Apart
  <2> QED
    BY <2>5
<1> QED
  BY <1>3, <1>4

-----------------------------------------------------------------------------
(***************************************************************************)
(* What the step of one thread does to the calls of the others.            *)
(***************************************************************************)
Kept(u) ==
    /\ call'[u].kind = call[u].kind /\ call'[u].key = call[u].key
    /\ call[u].seen \subseteq call'[u].seen
    /\ pc[u] # "idle" => (call[u].key \in content') \in call'[u].seen

\* the effect of the calls whose entries have become part of the list
EffectFor(L, M, u) ==
    /\ call[u].kind = "delete" => (call'[u].eff <=> call[u].eff)
    /\ call[u].kind = "insert" =>
          (call'[u].eff <=> (call[u].eff \/ my[u].own \in Live(M)' \ Live(L)))
    /\ pc[u] # "inc" /\ my[u].own \in Live(L) => my[u].own \in Live(M)'
    /\ settled => (my[u].own \in Live(M)' => my[u].own \in Live(L))

LEMMA OtherFacts ==
    ASSUME NEW L \in SUBSET Slot, NEW M \in SUBSET Slot, NEW t \in Thread, Known(L),
           Follows(L, M, t), NEW u \in Thread \ {t}
    PROVE  /\ pc'[u] = pc[u] /\ my'[u] = my[u] /\ tg'[u] = tg[u] /\ L \subseteq M
           /\ tg[u].prev \in Cell /\ KeyOf(tg[u].prev)' = KeyOf(tg[u].prev)
           /\ my[u].own # End /\ next[my[u].own].frz => next'[my[u].own].frz
<1>1. /\ pc'[u] = pc[u] /\ my'[u] = my[u] /\ tg'[u] = tg[u] /\ L \subseteq M /\ KeysStay(t)
      /\ \A c \in Cell : Advances(c) \/ Spare(L, t, c)
  BY DEF Follows, Onward, OthersStill
<1>2. tg[u].prev \in Cells(L) /\ tg[u].prev \in Cell /\ my[u].own \in 0 .. MaxEntries
  BY PlaceTypes DEF Known, Content, At, SeenInv
<1>3. KeyOf(tg[u].prev)' = KeyOf(tg[u].prev)
  <2>1. \A c \in Cells(L) : KeyOf(c)' = KeyOf(c)
    BY <1>1, LinkedKeys
  <2> QED
    BY <1>1, <1>2, <2>1 DEF KeyOf
<1>4. ASSUME my[u].own # End, next[my[u].own].frz PROVE next'[my[u].own].frz
  <2>1. my[u].own \in Cell
    BY <1>2, <1>4, SizeAssumption DEF End, Cell, Slot
  <2>2. Advances(my[u].own)
    BY <1>1, <2>1 DEF Spare
  <2> QED
    BY <1>4, <2>2 DEF Advances
<1> QED
  BY <1>1, <1>2, <1>3, <1>4

LEMMA OthersCall ==
    ASSUME NEW L \in SUBSET Slot, NEW M \in SUBSET Slot, NEW t \in Thread, Known(L),
           Follows(L, M, t), NEW u \in Thread \ {t}, CallAt(L, u),
           Kept(u), EffectFor(L, M, u), settled => settled'
    PROVE  CallAt(M, u)'
<1>1. /\ pc'[u] = pc[u] /\ my'[u] = my[u] /\ tg'[u] = tg[u] /\ L \subseteq M
      /\ KeyOf(tg[u].prev)' = KeyOf(tg[u].prev)
      /\ my[u].own # End /\ next[my[u].own].frz => next'[my[u].own].frz
  BY OtherFacts
<1>2. call'[u].kind = call[u].kind /\ call'[u].key = call[u].key
  BY DEF Kept
<1>3. KindInv(u)'
  BY <1>1, <1>2 DEF CallAt, KindInv, Searching, Removing, Removed, Deleting, Checking
<1>4. EffectInv(M, u)'
  <2>1. EffectInv(L, u) /\ (Removed(u)' <=> Removed(u))
    BY <1>1 DEF CallAt, Removed
  <2> QED
    BY <1>1, <1>2, <2>1 DEF EffectInv, EffectFor
<1>5. HistoryInv(u)'
  <2>1. HistoryInv(u) /\ (Told(u)' <=> Told(u)) /\ (Existed(u)' <=> Existed(u))
    BY <1>1 DEF CallAt, Told, Existed, Inserting
  <2> QED
    BY <1>1, <1>2, <2>1 DEF HistoryInv, Kept
<1>6. WayInv(M, u)'
  <2>1. /\ WayInv(L, u) /\ (Asking(u)' <=> Asking(u)) /\ (Stuck(u)' <=> Stuck(u))
        /\ (Checking(u)' <=> Checking(u)) /\ (EntryIsThere(u)' <=> EntryIsThere(u))
        /\ (pc[u] = "cfound" => Checking(u))
    BY <1>1 DEF CallAt, Asking, Stuck, Existed, Inserting, Checking, EntryIsThere
  <2>2. Stuck(u) => my[u].own # End
    BY DEF Stuck, Existed
  <2>3. Asking(u)' /\ pc'[u] # "fhead" => KeyOf(tg[u].prev)' < call'[u].key
    BY <1>1, <1>2, <2>1 DEF WayInv
  <2>4. pc'[u] = "cfound" => (EntryIsThere(u)' <=> my'[u].own \in Live(M)')
    BY <1>1, <2>1 DEF WayInv, EffectFor
  <2> QED
    BY <1>1, <2>1, <2>2, <2>3, <2>4 DEF WayInv
<1> QED
  BY <1>3, <1>4, <1>5, <1>6 DEF CallAt

(***************************************************************************)
(* The entries not linked, and the inserts they belong to.                 *)
(***************************************************************************)
KeepsOwn(L, t) ==
    \/ settled
    \/ my'[t].own = my[t].own
    \/ my[t].own \notin Slot \ L
    \/ kd'[my[t].own].key = NoKey

LEMMA OwnedKeeps ==
    ASSUME NEW L \in SUBSET Slot, NEW M \in SUBSET Slot, NEW t \in Thread, Owned(L),
           Follows(L, M, t), settled => settled', KeepsOwn(L, t),
           \A s \in Slot : kd'[s].key # NoKey => kd[s].key # NoKey \/ my'[t].own = s
    PROVE  Owned(M)'
<1> SUFFICES ASSUME ~settled', NEW s \in Slot, s \notin M, kd'[s].key # NoKey
             PROVE  \E u \in Thread : my'[u].own = s
  BY DEF Owned
<1>1. ~settled /\ s \notin L /\ OthersStill(t)
  BY DEF Follows, Onward
<1>2. CASE my'[t].own = s
  BY <1>2
<1>3. CASE kd[s].key # NoKey
  <2>1. PICK u \in Thread : my[u].own = s
    BY <1>1, <1>3 DEF Owned
  <2>2. CASE u # t
    BY <1>1, <2>1, <2>2 DEF OthersStill
  <2>3. CASE u = t
    BY <1>1, <2>1, <2>3 DEF KeepsOwn
  <2> QED
    BY <2>2, <2>3
<1> QED
  BY <1>2, <1>3

(***************************************************************************)
(* Steps that change no call, and steps that answer one.                   *)
(***************************************************************************)
Promised == [Promise!Next]_<<content, call>>

LEMMA CallTypes ==
    ASSUME TypeInv, NEW u \in Thread
    PROVE  call[u].seen \in SUBSET BOOLEAN /\ call[u].eff \in BOOLEAN /\ call[u].key \in Key
BY DEF TypeInv, TypeOK

LEMMA StaysKept ==
    ASSUME NEW L \in SUBSET Slot, NEW t \in Thread, Known(L), Follows(L, L, t), content' = content,
           NEW u \in Thread, CallAt(L, u), call'[u] = call[u]
    PROVE  Kept(u) /\ EffectFor(L, L, u)
<1>1. Live(L)' = Live(L)
  BY QuietLive
<1> QED
  BY <1>1 DEF Kept, EffectFor, CallAt, HistoryInv

LEMMA QuietCalls ==
    ASSUME NEW L \in SUBSET Slot, NEW t \in Thread, Known(L), CallsInv(L), Follows(L, L, t),
           UNCHANGED <<content, call>>, FreezeOrder', CallAt(L, t)', settled => settled',
           KeepsOwn(L, t), \A s \in Slot : kd'[s].key # NoKey => kd[s].key # NoKey \/ my'[t].own = s
    PROVE  CallsInv(L)' /\ Promised
<1>1. Owned(L)'
  BY OwnedKeeps DEF CallsInv
<1>2. ASSUME NEW u \in Thread \ {t} PROVE CallAt(L, u)'
  BY StaysKept, OthersCall DEF CallsInv
<1> QED
  BY <1>1, <1>2 DEF CallsInv, Promised

LEMMA AnsweredCall ==
    ASSUME NEW L, TypeInv, NEW t \in Thread, NEW r, Answers(t, r)
    PROVE  CallAt(L, t)'
<1>1. pc'[t] = "idle" /\ my'[t] = Fresh /\ call'[t].kind = "idle"
  BY DEF Answers, Goto, TypeInv, TypeOK
<1>2. Fresh.own = End /\ Fresh.trig = "-"
  BY DEF Fresh
<1>3. KindInv(t)'
  BY <1>1, <1>2 DEF KindInv, Searching, Removing, Removed, Deleting, Checking, FindPC
<1>4. EffectInv(L, t)' /\ HistoryInv(t)'
  BY <1>1, <1>2 DEF EffectInv, HistoryInv, Told, Existed
<1>5. WayInv(L, t)'
  BY <1>1, <1>2 DEF WayInv, Asking, Stuck, Existed, Checking, FindPC
<1> QED
  BY <1>3, <1>4, <1>5 DEF CallAt

LEMMA AnswerCalls ==
    ASSUME NEW L \in SUBSET Slot, NEW t \in Thread, Known(L), CallsInv(L), Follows(L, L, t),
           FreezeOrder', NEW r, Answers(t, r), r \in Promise!Legal(call[t]), pc[t] # "idle",
           KeepsOwn(L, t), \A s \in Slot : kd'[s].key # NoKey => kd[s].key # NoKey
    PROVE  CallsInv(L)' /\ Promised
<1>1. /\ content' = content /\ settled' = settled /\ \A u \in Thread \ {t} : call'[u] = call[u]
  BY DEF Answers, Known, TypeInv, TypeOK
<1>2. Owned(L)'
  BY <1>1, OwnedKeeps DEF CallsInv
<1>3. ASSUME NEW u \in Thread \ {t} PROVE CallAt(L, u)'
  <2>1. CallAt(L, u)
    BY DEF CallsInv
  <2> QED
    BY <1>1, <2>1, StaysKept, OthersCall
<1>4. CallAt(L, t)'
  BY AnsweredCall DEF Known
<1>5. Active(t)
  BY DEF CallsInv, CallAt, KindInv, Active
<1>6. Promise!Respond(t)
  BY <1>5 DEF Answers, Promise!Respond, Promise!Active, Active
<1> QED
  BY <1>2, <1>3, <1>4, <1>6 DEF CallsInv, Promised, Promise!Next

-----------------------------------------------------------------------------
(***************************************************************************)
(* Steps within a call, seen from the thread that makes them.              *)
(***************************************************************************)
LEMMA MovesCall ==
    ASSUME NEW L \in SUBSET Slot, NEW t \in Thread, CallAt(L, t), Live(L)' = Live(L),
           UNCHANGED <<content, call>>, pc[t] \notin {"idle", "inc"}, pc'[t] \notin {"idle", "inc"},
           my'[t].own = my[t].own, KindInv(t)', Removed(t)' <=> Removed(t),
           Told(t)' => my'[t].found \in call[t].seen, Existed(t)' => TRUE \in call[t].seen,
           WayInv(L, t)'
    PROVE  CallAt(L, t)'
<1>1. EffectInv(L, t)'
  BY DEF CallAt, EffectInv
<1>2. HistoryInv(t)'
  BY DEF CallAt, HistoryInv
<1> QED
  BY <1>1, <1>2 DEF CallAt

LEMMA OwnFrozen ==
    ASSUME TypeInv, FrozenStay, NEW t \in Thread, my[t].own # End, next[my[t].own].frz
    PROVE  next'[my[t].own].frz
<1>1. my[t].own \in Cell
  BY PlaceTypes, SizeAssumption DEF End, Cell, Slot
<1> QED
  BY <1>1 DEF FrozenStay

\* the thread is in freeze, up to freezeRecovery
Inner(t) ==
    /\ my[t].trig # "-"
    /\ \/ pc[t] \in {"frz", "switch", "mark", "slot", "slotfound", "decide", "recover",
                     "ifrom", "ifound", "link"}
       \/ pc[t] \in FindPC /\ my[t].ret \in {"slot", "slotfound", "ifound"}

LEMMA InnerCall ==
    ASSUME NEW L \in SUBSET Slot, NEW M, NEW t \in Thread, TypeInv, CallAt(L, t), Inner(t), Inner(t)',
           my'[t].trig = my[t].trig, my'[t].own = my[t].own, call'[t].kind = call[t].kind, FrozenStay
    PROVE  /\ KindInv(t)' /\ WayInv(M, t)' /\ (Existed(t)' => Existed(t)) /\ ~Told(t)'
           /\ ~Removed(t) /\ ~Removed(t)'
           /\ pc[t] \notin {"idle", "inc"} /\ pc'[t] \notin {"idle", "inc"}
<1>1. /\ ~Searching(t)' /\ ~Removing(t)' /\ ~Checking(t)' /\ ~Told(t)' /\ ~Asking(t)'
      /\ ~Removed(t) /\ ~Removed(t)'
      /\ pc[t] \notin {"idle", "inc", "cnext", "ckey"}
      /\ pc'[t] \notin {"idle", "inc", "chelp", "slave", "cfound"}
  BY DEF Inner, Searching, Removing, Deleting, Removed, Checking, Told, Asking, FindPC
<1>2. KindInv(t)'
  BY <1>1 DEF CallAt, KindInv, Inner
<1>3. (Existed(t)' => Existed(t)) /\ (Stuck(t)' => Stuck(t))
  BY <1>1 DEF Existed, Stuck, Inner
<1>4. Stuck(t)' => next'[my'[t].own].frz
  BY <1>3, OwnFrozen DEF CallAt, WayInv, Stuck, Existed
<1>5. WayInv(M, t)'
  BY <1>1, <1>4 DEF WayInv
<1> QED
  BY <1>1, <1>2, <1>3, <1>5

LEMMA InnerMoves ==
    ASSUME NEW L \in SUBSET Slot, NEW t \in Thread, TypeInv, CallAt(L, t), Inner(t), Inner(t)',
           my'[t].trig = my[t].trig, my'[t].own = my[t].own, UNCHANGED <<content, call>>,
           Live(L)' = Live(L), FrozenStay
    PROVE  CallAt(L, t)'
<1>1. call'[t].kind = call[t].kind
  OBVIOUS
<1>2. /\ KindInv(t)' /\ WayInv(L, t)' /\ (Existed(t)' => Existed(t)) /\ ~Told(t)'
      /\ ~Removed(t) /\ ~Removed(t)'
      /\ pc[t] \notin {"idle", "inc"} /\ pc'[t] \notin {"idle", "inc"}
  BY <1>1, InnerCall
<1>3. Existed(t)' => TRUE \in call[t].seen
  BY <1>2 DEF CallAt, HistoryInv
<1> QED
  BY <1>2, <1>3, MovesCall

\* the thread inserts the entry of its own call
Outer(t) == Inserting(t) /\ my[t].trig = "-"

LEMMA OuterMoves ==
    ASSUME NEW L \in SUBSET Slot, NEW t \in Thread, TypeInv, CallAt(L, t), Outer(t), Outer(t)',
           my'[t].own = my[t].own, UNCHANGED <<content, call>>, Live(L)' = Live(L),
           pc'[t] = "ifound" => my'[t].found \in call[t].seen,
           pc'[t] \in {"fnext", "funlink"} => KeyOf(tg[t].prev)' < call[t].key
    PROVE  CallAt(L, t)'
<1>1. /\ ~Searching(t)' /\ ~Removing(t)' /\ ~Checking(t)' /\ ~Removed(t) /\ ~Removed(t)'
      /\ pc[t] \notin {"idle", "inc"} /\ my[t].trig = "-" /\ my'[t].trig = "-"
      /\ pc'[t] \notin {"idle", "inc", "chelp", "slave", "cfound", "decide", "recover"}
      /\ pc'[t] \notin {"sfound", "dfound"}
  BY DEF Outer, Inserting, Searching, Removing, Deleting, Removed, Checking, FindPC
<1>2. KindInv(t)'
  BY <1>1 DEF CallAt, KindInv
<1>3. ~Existed(t)' /\ ~Stuck(t)' /\ (Told(t)' => pc'[t] = "ifound")
  BY <1>1 DEF Existed, Stuck, Outer, Told
<1>4. Asking(t)' /\ pc'[t] # "fhead" => KeyOf(tg[t].prev)' < call'[t].key
  BY <1>1 DEF Asking, FindPC
<1>5. WayInv(L, t)'
  BY <1>1, <1>3, <1>4 DEF WayInv
<1> QED
  BY <1>1, <1>2, <1>3, <1>5, MovesCall

\* freeze is called: nothing has been done, or there is a frozen entry to look for
LEMMA FreezeCalled ==
    ASSUME NEW L \in SUBSET Slot, NEW t \in Thread, TypeInv, CallAt(L, t), NEW g \in Trigger,
           CallFreeze(t, g), UNCHANGED <<content, call>>, Live(L)' = Live(L), FrozenStay,
           pc[t] \notin {"idle", "inc"}, ~Removed(t), my[t].own # End => Stuck(t),
           g = "DELETE" => call[t].kind = "delete", g = "ENSLAVE" => call[t].kind = "enslave",
           g = "INSERT" => call[t].kind = "insert" /\ my[t].own = End,
           g = "NONE" => my[t].own # End
    PROVE  CallAt(L, t)'
<1>1. pc'[t] = "frz" /\ my'[t].own = my[t].own /\ my'[t].trig = g /\ g # "-"
  BY DEF CallFreeze, Goto, TypeInv, TypeOK, Fresh, Trigger
<1>2. /\ ~Searching(t)' /\ ~Removing(t)' /\ ~Checking(t)' /\ ~Removed(t)' /\ ~Told(t)' /\ ~Asking(t)'
  BY <1>1 DEF Searching, Removing, Deleting, Removed, Checking, Told, Asking, FindPC
<1>3. KindInv(t)'
  BY <1>1, <1>2 DEF CallAt, KindInv
<1>4. (Existed(t)' => TRUE \in call[t].seen) /\ (Stuck(t)' => Stuck(t))
  BY <1>1 DEF Existed, Stuck, CallAt, HistoryInv
<1>5. Stuck(t)' => next'[my'[t].own].frz
  BY <1>1, <1>4, OwnFrozen DEF CallAt, WayInv, Stuck, Existed
<1>6. WayInv(L, t)'
  BY <1>1, <1>2, <1>5 DEF WayInv
<1> QED
  BY <1>1, <1>2, <1>3, <1>4, <1>6, MovesCall

-----------------------------------------------------------------------------
(***************************************************************************)
(* The freeze, up to freezeRecovery.                                       *)
(***************************************************************************)
LEMMA InnerStep ==
    ASSUME NEW L \in SUBSET Slot, NEW t \in Thread, Known(L), CallsInv(L), Follows(L, L, t),
           FrozenStay, FreezeOrder', Inner(t), Inner(t)', my'[t].trig = my[t].trig,
           my'[t].own = my[t].own, UNCHANGED <<content, call>>, settled => settled',
           \A s \in Slot : kd'[s].key = kd[s].key
    PROVE  CallsInv(L)' /\ Promised
<1>1. Live(L)' = Live(L) /\ TypeInv /\ CallAt(L, t)
  BY QuietLive DEF Known, CallsInv
<1>2. CallAt(L, t)'
  BY <1>1, InnerMoves
<1>3. KeepsOwn(L, t)
  BY DEF KeepsOwn
<1> QED
  BY <1>2, <1>3, QuietCalls

LEMMA NextSlotStays ==
    ASSUME TypeInv, NEW t \in Thread, NextSlot(t)
    PROVE  pc'[t] = "slot" /\ my'[t].trig = my[t].trig /\ my'[t].own = my[t].own
<1>1. pc'[t] = "slot"
  BY DEF NextSlot, GoToSlot, Goto, TypeInv, TypeOK
<1>2. my'[t] = [Fresh EXCEPT !.own = my[t].own, !.scan = my[t].scan + 1,
                             !.trig = my[t].trig, !.dec = my[t].dec]
  BY DEF NextSlot, GoToSlot, TypeInv, TypeOK
<1> QED
  BY <1>1, <1>2 DEF Fresh

FreezeInside(t) ==
    FreezeStart(t) \/ FreezeSwitch(t) \/ MarkFrozen(t) \/ MarkedAll(t) \/ StabilizeStep(t) \/ Decide(t)

LEMMA FreezeInner ==
    ASSUME TypeInv, NEW t \in Thread, KindInv(t), FreezeInside(t)
    PROVE  /\ Inner(t) /\ Inner(t)' /\ my'[t].trig = my[t].trig /\ my'[t].own = my[t].own
           /\ UNCHANGED <<content, call>> /\ (settled => settled')
           /\ \A s \in Slot : kd'[s].key = kd[s].key
<1>1. /\ my[t] \in Local
      /\ pc[t] \in {"frz", "switch", "mark"} \/ Stabilizing(t) => my[t].trig # "-"
      /\ pc[t] = "decide" => my[t].trig # "-"
  BY DEF TypeInv, TypeOK, ThreadInv, StableInv, KindInv
<1>2. CASE FreezeStart(t)
  BY <1>1, <1>2 DEF FreezeStart, Goto, Inner, history, TypeInv, TypeOK
<1>3. CASE FreezeSwitch(t)
  <2>1. pc[t] = "switch" /\ pc'[t] \in {"mark", "recover"} /\ UNCHANGED <<shared, history>>
    BY <1>3 DEF FreezeSwitch, Goto, TypeInv, TypeOK
  <2>2. my'[t] = [my[t] EXCEPT !.dec = DecisionOf(fstate)]
    BY <1>3 DEF FreezeSwitch, TypeInv, TypeOK
  <2>3. my'[t].trig = my[t].trig /\ my'[t].own = my[t].own
    BY <1>1, <2>2 DEF Local
  <2> QED
    BY <1>1, <2>1, <2>3 DEF Inner, history, shared
<1>4. CASE MarkFrozen(t)
  <2>1. \A s \in Slot : kd'[s].key = kd[s].key
    BY <1>4 DEF MarkFrozen, TypeInv, TypeOK, KeyWord
  <2> QED
    BY <1>1, <1>4, <2>1 DEF MarkFrozen, Inner, history
<1>5. CASE MarkedAll(t)
  <2>1. pc[t] = "mark" /\ pc'[t] = "fhead" /\ UNCHANGED <<shared, history>>
    BY <1>5 DEF MarkedAll, CallFind, Goto, TypeInv, TypeOK
  <2>2. my'[t] = [[my[t] EXCEPT !.scan = 0] EXCEPT !.ret = "slot", !.found = FALSE]
    BY <1>5 DEF MarkedAll, CallFind, TypeInv, TypeOK
  <2>3. my'[t].trig = my[t].trig /\ my'[t].own = my[t].own /\ my'[t].ret = "slot"
    BY <1>1, <2>2 DEF Local
  <2> QED
    BY <1>1, <2>1, <2>3 DEF Inner, history, shared, FindPC
<1>6. CASE StabilizeNext(t)
  <2>1. PICK s : CallFind(t, [my[t] EXCEPT !.scan = s], "slotfound")
    BY <1>6 DEF StabilizeNext
  <2>2. pc[t] = "slot" /\ pc'[t] = "fhead" /\ UNCHANGED <<shared, history>>
    BY <1>6, <2>1 DEF StabilizeNext, CallFind, Goto, TypeInv, TypeOK
  <2>3. my'[t] = [[my[t] EXCEPT !.scan = s] EXCEPT !.ret = "slotfound", !.found = FALSE]
    BY <2>1 DEF CallFind, TypeInv, TypeOK
  <2>4. my'[t].trig = my[t].trig /\ my'[t].own = my[t].own /\ my'[t].ret = "slotfound"
    BY <1>1, <2>3 DEF Local
  <2> QED
    BY <1>1, <2>2, <2>4 DEF Inner, history, shared, FindPC, Stabilizing
<1>7. CASE StabilizeFound(t)
  <2>1. pc[t] = "slotfound" /\ UNCHANGED <<shared, history>>
    BY <1>7 DEF StabilizeFound
  <2>2. pc'[t] \in {"slot", "ifrom"} /\ my'[t].trig = my[t].trig /\ my'[t].own = my[t].own
    <3>1. CASE NextSlot(t)
      BY <3>1, NextSlotStays
    <3>2. CASE Goto(t, "ifrom") /\ my' = my
      BY <3>2 DEF Goto, TypeInv, TypeOK
    <3> QED
      BY <1>7, <3>1, <3>2 DEF StabilizeFound
  <2> QED
    BY <1>1, <2>1, <2>2 DEF Inner, history, shared, Stabilizing, Choosing
<1>8. CASE StabilizeDone(t)
  BY <1>1, <1>8 DEF StabilizeDone, Goto, Inner, shared, Stabilizing, TypeInv, TypeOK
<1>9. CASE Decide(t)
  <2>1. pc[t] = "decide" /\ pc'[t] = "recover" /\ UNCHANGED <<kd, history>>
    BY <1>9 DEF Decide, Goto, TypeInv, TypeOK
  <2>2. my'[t] = [my[t] EXCEPT !.dec = FreezeDecision(EntrNum)]
    BY <1>9 DEF Decide, TypeInv, TypeOK
  <2>3. my'[t].trig = my[t].trig /\ my'[t].own = my[t].own
    BY <1>1, <2>2 DEF Local
  <2> QED
    BY <1>1, <2>1, <2>3 DEF Inner, history
<1> QED
  BY <1>2, <1>3, <1>4, <1>5, <1>6, <1>7, <1>8, <1>9 DEF FreezeInside, StabilizeStep

\* what a step of t leads to
Linearized(L, t) ==
    \E M \in SUBSET Slot : Follows(L, M, t) /\ CallsInv(M)' /\ Promised

LEMMA FreezeCalls ==
    ASSUME NEW L \in SUBSET Slot, NEW t \in Thread, Known(L), CallsInv(L), TypeInv', InsertsBelow,
           FrozenStay, FreezeOrder', FreezeInside(t)
    PROVE  Linearized(L, t)
<1>1. Follows(L, L, t)
  BY AsideFollows, MarkFrozenFollows, StabilizeNextFollows, StabilizeFoundFollows
  DEF FreezeInside, StabilizeStep, AsideStep
<1>2. TypeInv /\ KindInv(t)
  BY DEF Known, CallsInv, CallAt
<1> QED
  BY <1>1, <1>2, FreezeInner, InnerStep DEF Linearized

-----------------------------------------------------------------------------
(***************************************************************************)
(* insertToChunk and insertEntry.                                          *)
(***************************************************************************)
LEMMA OuterStep ==
    ASSUME NEW L \in SUBSET Slot, NEW t \in Thread, Known(L), CallsInv(L), Follows(L, L, t),
           FreezeOrder', Outer(t), Outer(t)', my'[t].own = my[t].own, kd' = kd,
           UNCHANGED <<content, call, settled>>,
           pc'[t] \notin {"ifound", "fnext", "funlink"}
    PROVE  CallsInv(L)' /\ Promised
<1>1. Live(L)' = Live(L) /\ TypeInv /\ CallAt(L, t)
  BY QuietLive DEF Known, CallsInv
<1>2. CallAt(L, t)'
  BY <1>1, OuterMoves
<1>3. KeepsOwn(L, t)
  BY DEF KeepsOwn
<1> QED
  BY <1>2, <1>3, QuietCalls

\* an insert goes on, for its own entry or for one that stabilizeChunk links
LEMMA InsertingStep ==
    ASSUME NEW L \in SUBSET Slot, NEW t \in Thread, Known(L), CallsInv(L), Follows(L, L, t),
           FrozenStay, FreezeOrder', Inserting(t), Inserting(t)', my'[t].own = my[t].own,
           my'[t].trig = my[t].trig, kd' = kd, UNCHANGED <<content, call, settled>>,
           pc'[t] \notin {"ifound", "fnext", "funlink"}
    PROVE  CallsInv(L)' /\ Promised
<1>1. CASE my[t].trig = "-"
  <2>1. Outer(t) /\ Outer(t)'
    BY <1>1 DEF Outer
  <2> QED
    BY <2>1, OuterStep
<1>2. CASE my[t].trig # "-"
  <2>1. Inner(t) /\ Inner(t)'
    BY <1>2 DEF Inner, Inserting
  <2> QED
    BY <2>1, InnerStep
<1> QED
  BY <1>1, <1>2

LEMMA AllocatedCall ==
    ASSUME NEW L \in SUBSET Slot, NEW t \in Thread, TypeInv, Linked(L), CallAt(L, t),
           pc[t] = "alloc", Live(L)' = Live(L), UNCHANGED <<content, call>>,
           NEW s \in Slot, kd[s].key = NoKey,
           my' = [my EXCEPT ![t].own = s], Goto(t, "ifrom")
    PROVE  CallAt(L, t)'
<1>1. my[t] \in Local /\ my[t].own = End /\ my[t].trig = "-" /\ call[t].kind = "insert"
  BY DEF TypeInv, TypeOK, ThreadInv, OwnInv
<1>2. my'[t] = [my[t] EXCEPT !.own = s] /\ pc'[t] = "ifrom"
  BY DEF Goto, TypeInv, TypeOK
<1>3. my'[t].own = s /\ my'[t].trig = "-"
  BY <1>1, <1>2 DEF Local
<1>4. /\ ~Searching(t)' /\ ~Removing(t)' /\ ~Checking(t)' /\ ~Removed(t)' /\ ~Told(t)' /\ ~Asking(t)'
      /\ Inserting(t)'
  BY <1>2, <1>3 DEF Searching, Removing, Deleting, Removed, Checking, Told, Asking, FindPC, Inserting
<1>5. KindInv(t)'
  BY <1>1, <1>2, <1>3, <1>4 DEF KindInv
<1>6. EffectInv(L, t)'
  <2>1. my[t].own \notin Live(L) /\ s \notin Live(L)
    BY <1>1, CellsAre DEF Live, Linked
  <2> QED
    BY <1>1, <1>2, <1>3, <2>1 DEF CallAt, EffectInv
<1>7. ~Existed(t)' /\ ~Stuck(t)'
  BY <1>3, <1>4 DEF Existed, Stuck
<1>8. HistoryInv(t)' /\ WayInv(L, t)'
  BY <1>2, <1>4, <1>7 DEF CallAt, HistoryInv, WayInv
<1> QED
  BY <1>5, <1>6, <1>8 DEF CallAt

LEMMA AllocateCalls ==
    ASSUME NEW L \in SUBSET Slot, NEW t \in Thread, Known(L), CallsInv(L), TypeInv', InsertsBelow,
           FrozenStay, FreezeOrder', Allocate(t)
    PROVE  Linearized(L, t)
<1>1. Follows(L, L, t)
  BY AllocateFollows
<1>2. /\ pc[t] = "alloc" /\ UNCHANGED <<content, call, settled>>
      /\ TypeInv /\ CallAt(L, t) /\ Linked(L)
  BY DEF Allocate, history, Known, CallsInv, Content, ListInv
<1>3. Live(L)' = Live(L)
  BY <1>1, <1>2, QuietLive
<1>4. /\ my[t] \in Local /\ my[t].own = End /\ my[t].trig = "-" /\ call[t].kind = "insert"
      /\ my[t].scan \in 0 .. MaxEntries /\ End \notin Slot \ L
  BY <1>2, SizeAssumption DEF TypeInv, TypeOK, ThreadInv, OwnInv, Local, End, Slot
<1>5. CASE CallFreeze(t, "INSERT") /\ kd' = kd
  <2>1. CallAt(L, t)'
    BY <1>2, <1>3, <1>4, <1>5, FreezeCalled DEF Trigger, Removed, FindPC
  <2> QED
    BY <1>1, <1>2, <1>4, <1>5, <2>1, QuietCalls DEF Linearized, KeepsOwn
<1>6. CASE /\ my[t].scan < MaxEntries
           /\ kd[my[t].scan] = [key |-> NoKey, frz |-> FALSE]
           /\ kd' = [kd EXCEPT ![my[t].scan].key = call[t].key]
           /\ my' = [my EXCEPT ![t].own = my[t].scan]
           /\ Goto(t, "ifrom")
  <2>1. my[t].scan \in Slot /\ kd[my[t].scan].key = NoKey
    BY <1>4, <1>6, SizeAssumption DEF Slot
  <2>2. CallAt(L, t)'
    BY <1>2, <1>3, <1>6, <2>1, AllocatedCall
  <2>3. my'[t].own = my[t].scan
    BY <1>2, <1>4, <1>6 DEF TypeInv, TypeOK, Local
  <2>4. \A s \in Slot : kd'[s].key # NoKey => kd[s].key # NoKey \/ my'[t].own = s
    BY <1>2, <1>6, <2>3 DEF TypeInv, TypeOK
  <2> QED
    BY <1>1, <1>2, <1>4, <2>2, <2>4, QuietCalls DEF Linearized, KeepsOwn
<1>7. CASE /\ my' = [my EXCEPT ![t].scan = @ + 1]
           /\ UNCHANGED <<pc, kd, tg>>
  <2>1. my'[t] = [my[t] EXCEPT !.scan = my[t].scan + 1]
    BY <1>2, <1>7 DEF TypeInv, TypeOK
  <2>2. my'[t].own = my[t].own /\ my'[t].trig = my[t].trig
    BY <1>4, <2>1 DEF Local
  <2>3. /\ ~Searching(t)' /\ ~Removing(t)' /\ ~Checking(t)' /\ ~Removed(t)' /\ ~Removed(t)
        /\ ~Told(t)' /\ ~Asking(t)'
    BY <1>2, <1>7 DEF Searching, Removing, Deleting, Removed, Checking, Told, Asking, FindPC
  <2>4. KindInv(t)'
    BY <1>2, <1>4, <1>7, <2>2, <2>3 DEF CallAt, KindInv
  <2>5. ~Existed(t)' /\ ~Stuck(t)' /\ pc'[t] = "alloc"
    BY <1>2, <1>4, <1>7, <2>2 DEF Existed, Stuck
  <2>6. WayInv(L, t)'
    BY <2>3, <2>5 DEF WayInv
  <2>7. CallAt(L, t)'
    BY <1>2, <1>3, <2>2, <2>3, <2>4, <2>5, <2>6, MovesCall
  <2> QED
    BY <1>1, <1>2, <1>7, <2>2, <2>7, QuietCalls DEF Linearized, KeepsOwn
<1> QED
  BY <1>5, <1>6, <1>7 DEF Allocate

LEMMA InsertFromCalls ==
    ASSUME NEW L \in SUBSET Slot, NEW t \in Thread, Known(L), CallsInv(L), TypeInv', InsertsBelow,
           FrozenStay, FreezeOrder', InsertFrom(t)
    PROVE  Linearized(L, t)
<1>1. Follows(L, L, t)
  BY InsertFromFollows
<1>2. my[t] \in Local /\ pc[t] = "ifrom" /\ pc'[t] = "fhead" /\ kd' = kd
      /\ UNCHANGED <<content, call, settled>>
  BY DEF InsertFrom, CallFind, Goto, shared, history, Known, TypeInv, TypeOK
<1>3. my'[t] = [[my[t] EXCEPT !.saved = next[Ent(t)]] EXCEPT !.ret = "ifound", !.found = FALSE]
  BY DEF InsertFrom, CallFind, Known, TypeInv, TypeOK
<1>4. my'[t].own = my[t].own /\ my'[t].trig = my[t].trig /\ my'[t].ret = "ifound"
  BY <1>2, <1>3 DEF Local
<1>5. Inserting(t) /\ Inserting(t)'
  BY <1>2, <1>4 DEF Inserting, FindPC
<1> QED
  BY <1>1, <1>2, <1>4, <1>5, InsertingStep DEF Linearized

\* an entry that is being inserted, or cleared, is not deleted
LEMMA OwnLive ==
    ASSUME NEW L \in SUBSET Slot, Known(L), NEW t \in Thread, Unlinked(t), my[t].own # End
    PROVE  /\ my[t].own \in Slot /\ ~next[my[t].own].del
           /\ my[t].own \in L => my[t].own \in Live(L) /\ AllFrozen
<1>1. my[t].own \in Slot
  BY PlaceTypes, SizeAssumption DEF Known, End, Slot
<1>2. Private(my[t].own)
  BY DEF Private
<1>3. ~next[my[t].own].del
  BY <1>1, <1>2 DEF Known, PrivacyInv, UnmarkedInv
<1> QED
  BY <1>1, <1>2, <1>3 DEF Known, Content, ListInv, Linked, Live

\* another thread has linked the entry (SUCCESS_OTHER)
LEMMA LinkedByOther ==
    ASSUME NEW L \in SUBSET Slot, NEW t \in Thread, Known(L), CallsInv(L),
           pc[t] = "ifound", my[t].trig = "-", tg[t].cur.idx = Ent(t)
    PROVE  "TRUE" \in Promise!Legal(call[t]) /\ my[t].own \in L
<1>1. Ent(t) = my[t].own /\ Inserting(t) /\ Unlinked(t)
  BY DEF Ent, Inserting, Unlinked
<1>2. my[t].own # End /\ call[t].kind = "insert"
  BY <1>1 DEF Known, TypeInv, ThreadInv, OwnInv
<1>3. my[t].own \in L
  BY <1>1, <1>2 DEF Known, Content, At, SeenInv, Ends
<1>4. my[t].own \in Live(L)
  BY <1>1, <1>2, <1>3, OwnLive
<1>5. call[t].eff
  BY <1>2, <1>4 DEF CallsInv, CallAt, EffectInv
<1> QED
  BY <1>2, <1>3, <1>5 DEF Promise!Legal

\* the key was there already (EXISTED)
LEMMA ExistedCall ==
    ASSUME NEW L \in SUBSET Slot, NEW t \in Thread, TypeInv, CallAt(L, t), pc[t] = "ifound",
           my[t].trig = "-", my[t].found, Goto(t, "cnext"), my' = my,
           Live(L)' = Live(L), UNCHANGED <<content, call>>
    PROVE  CallAt(L, t)'
<1>1. pc'[t] = "cnext"
  BY DEF Goto, TypeInv, TypeOK
<1>2. /\ ~Searching(t)' /\ ~Removing(t)' /\ ~Checking(t)' /\ ~Removed(t)' /\ ~Removed(t)
      /\ ~Told(t)' /\ ~Asking(t)' /\ ~Stuck(t)' /\ Told(t)
  BY <1>1 DEF Searching, Removing, Deleting, Removed, Checking, Told, Asking, Stuck, FindPC
<1>3. KindInv(t)' /\ WayInv(L, t)'
  BY <1>1, <1>2 DEF CallAt, KindInv, WayInv
<1>4. my[t].found \in BOOLEAN
  BY DEF TypeInv, TypeOK, Local
<1>5. TRUE \in call[t].seen
  BY <1>2, <1>4 DEF CallAt, HistoryInv
<1> QED
  BY <1>1, <1>2, <1>3, <1>5, MovesCall

LEMMA InsertFoundCalls ==
    ASSUME NEW L \in SUBSET Slot, NEW t \in Thread, Known(L), CallsInv(L), TypeInv', InsertsBelow,
           FrozenStay, FreezeOrder', InsertFound(t)
    PROVE  Linearized(L, t)
<1>1. Follows(L, L, t)
  BY InsertFoundFollows
<1>2. /\ pc[t] = "ifound" /\ Inserting(t) /\ kd' = kd /\ TypeInv /\ CallAt(L, t)
  BY DEF InsertFound, Inserting, Known, CallsInv
<1>3. CASE my[t].trig # "-" /\ NextSlot(t) /\ UNCHANGED <<content, call, settled>>
  <2>1. pc'[t] = "slot" /\ my'[t].trig = my[t].trig /\ my'[t].own = my[t].own
    BY <1>2, <1>3, NextSlotStays
  <2>2. Inner(t) /\ Inner(t)'
    BY <1>2, <1>3, <2>1 DEF Inner
  <2> QED
    BY <1>1, <1>2, <1>3, <2>1, <2>2, InnerStep DEF Linearized
<1>4. CASE my[t].trig = "-" /\ tg[t].cur.idx = Ent(t) /\ Answers(t, "TRUE")
  <2>1. "TRUE" \in Promise!Legal(call[t]) /\ KeepsOwn(L, t)
    BY <1>2, <1>4, LinkedByOther DEF KeepsOwn
  <2> QED
    BY <1>1, <1>2, <1>4, <2>1, AnswerCalls DEF Linearized
<1>5. CASE my[t].trig = "-" /\ my[t].found /\ Goto(t, "cnext") /\ my' = my
           /\ UNCHANGED <<content, call, settled>>
  <2>1. CallAt(L, t)'
    BY <1>1, <1>2, <1>5, QuietLive, ExistedCall
  <2> QED
    BY <1>1, <1>2, <1>5, <2>1, QuietCalls DEF Linearized, KeepsOwn
<1>6. CASE (Goto(t, "link") \/ Goto(t, "ifrom")) /\ my' = my /\ UNCHANGED <<content, call, settled>>
  <2>1. pc'[t] \in {"link", "ifrom"}
    BY <1>2, <1>6 DEF Goto, TypeInv, TypeOK
  <2>2. Inserting(t)'
    BY <2>1 DEF Inserting
  <2> QED
    BY <1>1, <1>2, <1>6, <2>1, <2>2, InsertingStep DEF Linearized
<1> QED
  BY <1>3, <1>4, <1>5, <1>6 DEF InsertFound, history

-----------------------------------------------------------------------------
(***************************************************************************)
(* An entry is linked: this is the effect of the insert that owns it.      *)
(***************************************************************************)
LEMMA EffectFacts ==
    ASSUME TypeInv, NEW E, NEW C, TakesEffect(E, C), NEW u \in Thread
    PROVE  /\ ~Active(u) => call'[u] = call[u]
           /\ Active(u) => call'[u] = [call[u] EXCEPT !.seen = call[u].seen \cup {call[u].key \in C},
                                                      !.eff  = call[u].eff \/ u \in E]
BY Zenon DEF TakesEffect

LEMMA EffectFields ==
    ASSUME TypeInv, NEW E \in SUBSET Thread, NEW C \in SUBSET Key, TakesEffect(E, C), NEW u \in Thread
    PROVE  /\ call'[u].kind = call[u].kind /\ call'[u].key = call[u].key
           /\ call[u].seen \subseteq call'[u].seen
           /\ Active(u) => /\ (call[u].key \in C) \in call'[u].seen
                           /\ call'[u].eff <=> (call[u].eff \/ u \in E)
<1>1. call[u] \in CallType
  BY DEF TypeInv, TypeOK, CallType
<1>2. CASE ~Active(u)
  BY <1>2, EffectFacts
<1>3. CASE Active(u)
  <2> DEFINE s == call[u].seen \cup {call[u].key \in C}
             f == call[u].eff \/ u \in E
  <2>1. call'[u] = [call[u] EXCEPT !.seen = s, !.eff = f]
    <3>1. call'[u] = [call[u] EXCEPT !.seen = call[u].seen \cup {call[u].key \in C},
                                     !.eff  = call[u].eff \/ u \in E]
      BY <1>3, Zenon DEF TakesEffect
    <3> QED
      BY <3>1
  <2> HIDE DEF s, f
  <2>2. /\ call'[u].kind = call[u].kind /\ call'[u].key = call[u].key
        /\ call'[u].seen = s /\ call'[u].eff = f
    BY <1>1, <2>1 DEF CallType
  <2> QED
    BY <2>2 DEF s, f
<1> QED
  BY <1>2, <1>3

LEMMA OneEffect ==
    ASSUME TypeInv, NEW o \in Thread, NEW C, Active(o), TakesEffect({o}, C)
    PROVE  call' = [Promise!Observe(C) EXCEPT ![o].eff = TRUE]
<1> DEFINE obs == Promise!Observe(C)
           new == [obs EXCEPT ![o].eff = TRUE]
<1>1. obs = [u \in Thread |-> IF Active(u) THEN [call[u] EXCEPT !.seen = @ \cup {call[u].key \in C}]
                              ELSE call[u]]
  BY Zenon DEF Promise!Observe, Promise!Active, Active
<1>2. call' = [u \in Thread |-> call'[u]]
  BY Zenon DEF TakesEffect
<1> HIDE DEF obs
<1>3. new = [u \in Thread |-> new[u]]
  BY <1>1
<1>4. ASSUME NEW u \in Thread PROVE call'[u] = new[u]
  <2>1. call[u] \in CallType
    BY DEF TypeInv, TypeOK, CallType
  <2>2. CASE ~Active(u)
    <3>1. new[u] = obs[u] /\ obs[u] = call[u]
      BY <1>1, <2>2
    <3> QED
      BY <2>2, <3>1, EffectFacts
  <2>3. CASE Active(u)
    <3> DEFINE s == call[u].seen \cup {call[u].key \in C}
               f == call[u].eff \/ u \in {o}
    <3>1. call'[u] = [call[u] EXCEPT !.seen = s, !.eff = f]
      <4>1. call'[u] = [call[u] EXCEPT !.seen = call[u].seen \cup {call[u].key \in C},
                                       !.eff  = call[u].eff \/ u \in {o}]
        BY <2>3, Zenon DEF TakesEffect
      <4> QED
        BY <4>1
    <3>2. obs[u] = [call[u] EXCEPT !.seen = s]
      BY <1>1, <2>3
    <3>3. f \in BOOLEAN /\ call[u].eff \in BOOLEAN /\ (u = o => f) /\ (u # o => f = call[u].eff)
      BY <2>1 DEF CallType
    <3> HIDE DEF s, f
    <3>4. CASE u = o
      <4>1. new[u] = [[call[u] EXCEPT !.seen = s] EXCEPT !.eff = TRUE]
        BY <1>1, <3>2, <3>4
      <4>2. f = TRUE
        BY <3>3, <3>4
      <4> QED
        BY <2>1, <3>1, <4>1, <4>2 DEF CallType
    <3>5. CASE u # o
      <4>1. new[u] = [call[u] EXCEPT !.seen = s]
        BY <1>1, <3>2, <3>5
      <4>2. f = call[u].eff
        BY <3>3, <3>5
      <4> QED
        BY <2>1, <3>1, <4>1, <4>2 DEF CallType
    <3> QED
      BY <3>4, <3>5
  <2> QED
    BY <2>2, <2>3
<1> HIDE DEF new
<1>5. call' = new
  BY <1>2, <1>3, <1>4
<1> QED
  BY <1>5 DEF new, obs

LEMMA NotYetSettled ==
    ASSUME NEW L \in SUBSET Slot, Known(L), Stable(L), NEW e \in Slot, kd[e].key # NoKey, ~next[e].del,
           \A x \in Live(L) : kd[x].key # kd[e].key
    PROVE  ~settled
<1> SUFFICES ASSUME settled PROVE FALSE
  OBVIOUS
<1>1. Complete(MaxEntries) /\ Holds(L)
  BY DEF Stable, Finished, Known, Content, ListInv
<1>2. e < MaxEntries
  BY SizeAssumption DEF Slot
<1>3. kd[e].key \in content
  BY <1>1, <1>2 DEF Complete
<1> QED
  BY <1>1, <1>3 DEF Holds, KeysIn

\* the insert whose entry is linked
LEMMA LinkOwner ==
    ASSUME NEW L \in SUBSET Slot, NEW t \in Thread, Known(L), CallsInv(L), ~settled,
           NEW e \in Slot \ L, kd[e].key # NoKey, \A x \in Live(L) : kd[x].key # kd[e].key
    PROVE  \E o \in Thread : /\ \A u \in Thread : my[u].own = e <=> u = o
                             /\ Owners(e) = {o} /\ call[o].kind = "insert" /\ ~call[o].eff
                             /\ call[o].key = kd[e].key /\ kd[e].key \notin content
<1>1. PICK o \in Thread : my[o].own = e
  BY DEF CallsInv, Owned
<1>2. e # End
  BY SizeAssumption DEF Slot, End
<1>3. \A u \in Thread : my[u].own = e <=> u = o
  BY <1>1, <1>2 DEF Known, TypeInv, OwnDistinct
<1>4. call[o].kind = "insert" /\ kd[e].key = call[o].key
  BY <1>1, <1>2 DEF Known, TypeInv, ThreadInv, OwnInv
<1>5. Owners(e) = {o}
  BY <1>3, <1>4 DEF Owners
<1>6. ~call[o].eff
  BY <1>1, <1>4 DEF CallsInv, CallAt, EffectInv, Live
<1>7. kd[e].key \notin content
  BY DEF Known, Content, ListInv, Holds, KeysIn
<1> QED
  BY <1>3, <1>4, <1>5, <1>6, <1>7

\* the thread that links it: for its own call, or for that of another thread
LEMMA LinkingCall ==
    ASSUME NEW L \in SUBSET Slot, NEW M \in SUBSET Slot, NEW t \in Thread, TypeInv, CallAt(L, t),
           Inserting(t), Kept(t), EffectFor(L, M, t), FrozenStay, L \subseteq M,
           \/ my[t].trig = "-" /\ Goto(t, "inc") /\ my' = my /\ call'[t].eff /\ my[t].own \in M
           \/ my[t].trig # "-" /\ NextSlot(t)
    PROVE  CallAt(M, t)'
<1>1. CASE my[t].trig = "-" /\ Goto(t, "inc") /\ my' = my /\ call'[t].eff /\ my[t].own \in M
  <2>1. pc'[t] = "inc" /\ my[t].own # End /\ call[t].kind = "insert" /\ pc[t] # "idle"
    BY <1>1 DEF Goto, TypeInv, TypeOK, ThreadInv, OwnInv, Inserting, FindPC
  <2>2. call'[t].kind = "insert"
    BY <2>1 DEF Kept
  <2>3. /\ ~Searching(t)' /\ ~Removing(t)' /\ ~Checking(t)' /\ ~Removed(t)' /\ ~Told(t)' /\ ~Asking(t)'
        /\ ~Existed(t)' /\ ~Stuck(t)'
    BY <2>1 DEF Searching, Removing, Deleting, Removed, Checking, Told, Asking, FindPC, Existed, Stuck
  <2>4. KindInv(t)'
    BY <1>1, <2>1, <2>2, <2>3 DEF KindInv
  <2>5. EffectInv(M, t)'
    BY <1>1, <2>1, <2>2 DEF EffectInv
  <2>6. HistoryInv(t)' /\ WayInv(M, t)'
    BY <2>1, <2>3 DEF HistoryInv, WayInv, Kept
  <2> QED
    BY <2>4, <2>5, <2>6 DEF CallAt
<1>2. CASE my[t].trig # "-" /\ NextSlot(t)
  <2>1. pc'[t] = "slot" /\ my'[t].trig = my[t].trig /\ my'[t].own = my[t].own
    BY <1>2, NextSlotStays
  <2>2. Inner(t) /\ Inner(t)' /\ call'[t].kind = call[t].kind
    BY <1>2, <2>1 DEF Inner, Inserting, Kept
  <2>3. /\ KindInv(t)' /\ WayInv(M, t)' /\ (Existed(t)' => Existed(t)) /\ ~Told(t)'
        /\ ~Removed(t) /\ ~Removed(t)'
        /\ pc[t] \notin {"idle", "inc"} /\ pc'[t] \notin {"idle", "inc"}
    BY <2>1, <2>2, InnerCall
  <2>4. EffectInv(M, t)'
    BY <2>1, <2>2, <2>3 DEF CallAt, EffectInv, EffectFor
  <2>5. HistoryInv(t)'
    BY <2>1, <2>3 DEF CallAt, HistoryInv, Kept
  <2> QED
    BY <2>3, <2>4, <2>5 DEF CallAt
<1> QED
  BY <1>1, <1>2

LEMMA LinkCalls ==
    ASSUME NEW L \in SUBSET Slot, NEW t \in Thread, Known(L), Stable(L), CallsInv(L),
           TypeInv', PrivacyInv', InsertsBelow, FrozenStay, FreezeOrder', Links(t)
    PROVE  Linearized(L, t)
<1>1. PICK e \in Slot \ L :
         /\ e = Ent(t) /\ ~next[e].del /\ kd[e].key # NoKey
         /\ \A x \in Live(L) : kd[x].key # kd[e].key
         /\ Follows(L, L \cup {e}, t) /\ Live(L \cup {e})' = Live(L) \cup {e}
  BY LinkedFollows
<1>2. ~settled
  BY <1>1, NotYetSettled
<1>3. PICK o \in Thread : /\ \A u \in Thread : my[u].own = e <=> u = o
                          /\ Owners(e) = {o} /\ call[o].kind = "insert" /\ ~call[o].eff
                          /\ call[o].key = kd[e].key /\ kd[e].key \notin content
  BY <1>1, <1>2, LinkOwner
<1>4. TakesEffect({o}, content \cup {kd[e].key}) /\ kd' = kd
  BY <1>1, <1>3 DEF Links
<1>5. TypeInv /\ Inserting(t) /\ e \notin L /\ pc[t] = "link"
  BY <1>1 DEF Known, Links, AtPlace, Inserting
<1>6. /\ content' = content \cup {kd[e].key} /\ settled' = settled
      /\ {o} \in SUBSET Thread /\ content \cup {kd[e].key} \in SUBSET Key
  <2>1. content' = content \cup {kd[e].key} /\ settled' = settled
    BY <1>4, EffectOn
  <2> QED
    BY <2>1 DEF TypeInv, TypeOK
<1> DEFINE M == L \cup {e}
<1>7. M \in SUBSET Slot /\ L \subseteq M /\ e \in M
  OBVIOUS
<1>8. \A u \in Thread : my[u].own \in Live(M)' \ Live(L) <=> u = o
  <2>1. e \notin Live(L)
    BY <1>5 DEF Live
  <2> QED
    BY <1>1, <1>3, <2>1
<1>9. Live(L) \subseteq Live(M)'
  BY <1>1
<1>10. Follows(L, M, t)
  BY <1>1
<1> HIDE DEF M
<1>11. ASSUME NEW u \in Thread
       PROVE  Kept(u) /\ EffectFor(L, M, u)
  <2>1. /\ call'[u].kind = call[u].kind /\ call'[u].key = call[u].key
        /\ call[u].seen \subseteq call'[u].seen
        /\ Active(u) => /\ (call[u].key \in content') \in call'[u].seen
                        /\ call'[u].eff <=> (call[u].eff \/ u \in {o})
    BY <1>4, <1>5, <1>6, EffectFields
  <2>2. pc[u] # "idle" => Active(u)
    BY DEF CallsInv, CallAt, KindInv, Active
  <2>3. Kept(u)
    BY <2>1, <2>2 DEF Kept
  <2>4. call[u].kind = "delete" => Active(u) /\ u # o
    BY <1>3 DEF Active
  <2>5. call[u].kind = "insert" => Active(u)
    BY DEF Active
  <2>6. EffectFor(L, M, u)
    BY <1>2, <1>8, <1>9, <2>1, <2>4, <2>5 DEF EffectFor
  <2> QED
    BY <2>1, <2>3, <2>6
<1>12. ASSUME NEW u \in Thread \ {t} PROVE CallAt(M, u)'
  BY <1>6, <1>7, <1>10, <1>11, OthersCall DEF CallsInv
<1>13. CallAt(M, t)'
  <2>1. CASE my[t].trig = "-" /\ Goto(t, "inc") /\ my' = my
    <3>1. t = o /\ my[t].own = e
      BY <1>1, <1>3, <2>1 DEF Ent
    <3>2. Active(t)
      BY <1>3, <3>1 DEF Active
    <3>3. call'[t].eff
      BY <1>4, <1>5, <1>6, <3>1, <3>2, EffectFields
    <3> QED
      BY <1>5, <1>7, <1>11, <2>1, <3>1, <3>3, LinkingCall DEF CallsInv
  <2>2. CASE my[t].trig # "-" /\ NextSlot(t)
    BY <1>5, <1>7, <1>11, <2>2, LinkingCall DEF CallsInv
  <2> QED
    BY <2>1, <2>2 DEF Links
<1>14. Owned(M)'
  <2>1. my'[t].own = my[t].own
    BY <1>5, NextSlotStays DEF Links
  <2> QED
    BY <1>4, <1>6, <1>7, <1>10, <2>1, OwnedKeeps DEF CallsInv, KeepsOwn
<1>15. Promise!InsertEffect(o)
  <2>1. Active(o)
    BY <1>3 DEF Active
  <2>2. call' = [Promise!Observe(content') EXCEPT ![o].eff = TRUE]
    BY <1>4, <1>5, <1>6, <2>1, OneEffect
  <2> QED
    BY <1>3, <1>6, <2>2 DEF Promise!InsertEffect
<1>16. CallsInv(M)' /\ Promised
  BY <1>12, <1>13, <1>14, <1>15 DEF CallsInv, Promised, Promise!Next
<1> QED
  BY <1>7, <1>10, <1>16 DEF Linearized

LEMMA InsertLinkCalls ==
    ASSUME NEW L \in SUBSET Slot, NEW t \in Thread, Known(L), Stable(L), CallsInv(L),
           TypeInv', PrivacyInv', InsertsBelow, FrozenStay, FreezeOrder', InsertLink(t)
    PROVE  Linearized(L, t)
<1>1. CASE Follows(L, L, t) /\ Goto(t, "ifrom") /\ UNCHANGED <<next, tg, my, history>>
  <2>1. pc[t] = "link" /\ pc'[t] = "ifrom" /\ kd' = kd /\ UNCHANGED <<content, call, settled>>
    BY <1>1 DEF InsertLink, Goto, history, Known, TypeInv, TypeOK
  <2>2. Inserting(t) /\ Inserting(t)'
    BY <2>1 DEF Inserting
  <2> QED
    BY <1>1, <2>1, <2>2, InsertingStep DEF Linearized
<1>2. CASE Links(t)
  BY <1>2, LinkCalls
<1> QED
  BY <1>1, <1>2, InsertLinkFollows

LEMMA InsertCountCalls ==
    ASSUME NEW L \in SUBSET Slot, NEW t \in Thread, Known(L), CallsInv(L), TypeInv', InsertsBelow,
           FreezeOrder', InsertCount(t)
    PROVE  Linearized(L, t)
<1>1. Follows(L, L, t)
  BY AsideFollows DEF AsideStep
<1>2. pc[t] = "inc" /\ Answers(t, "TRUE") /\ kd' = kd
  BY DEF InsertCount
<1>3. my[t].own # End /\ my[t].own \in L
  BY <1>2 DEF CallsInv, CallAt, KindInv, EffectInv
<1>4. call[t].kind = "insert" /\ call[t].eff
  BY <1>2, <1>3 DEF CallsInv, CallAt, EffectInv, Known, TypeInv, ThreadInv, OwnInv
<1>5. "TRUE" \in Promise!Legal(call[t])
  BY <1>4 DEF Promise!Legal
<1>6. KeepsOwn(L, t)
  BY <1>3 DEF KeepsOwn
<1> QED
  BY <1>1, <1>2, <1>5, <1>6, AnswerCalls DEF Linearized

-----------------------------------------------------------------------------
(***************************************************************************)
(* clearEntry, and the way back from the freeze it helps.                  *)
(***************************************************************************)
LEMMA Clearing ==
    ASSUME TypeInv, PrivacyInv, NEW t \in Thread, pc[t] \in {"cnext", "ckey"}
    PROVE  /\ Unlinked(t) /\ Existed(t) /\ my[t].trig = "-"
           /\ my[t].own # End /\ my[t].own \in Slot /\ call[t].kind = "insert"
<1>1. my[t].own # End /\ call[t].kind = "insert" /\ my[t].trig = "-"
  BY DEF TypeInv, ThreadInv, OwnInv, PrivacyInv, Own, ClearInv
<1>2. my[t].own \in Slot
  BY <1>1, PlaceTypes, SizeAssumption DEF End, Slot
<1> QED
  BY <1>1, <1>2 DEF Existed, Unlinked, Inserting, FindPC

\* on to the next compare-and-swap, or to the freeze if the entry is frozen
LEMMA ClearMoves ==
    ASSUME NEW L \in SUBSET Slot, NEW t \in Thread, Known(L), CallsInv(L), Follows(L, L, t),
           pc[t] \in {"cnext", "ckey"}, FreezeOrder', kd' = kd, my' = my,
           UNCHANGED <<content, call, settled>>,
           Goto(t, "ckey") \/ (Goto(t, "chelp") /\ next'[my[t].own].frz)
    PROVE  CallsInv(L)' /\ Promised
<1>1. TypeInv /\ CallAt(L, t) /\ Existed(t) /\ my[t].own # End /\ my[t].trig = "-"
  BY Clearing DEF Known, CallsInv
<1>2. pc'[t] = "ckey" \/ (pc'[t] = "chelp" /\ next'[my[t].own].frz)
  BY <1>1 DEF Goto, TypeInv, TypeOK
<1>3. /\ ~Searching(t)' /\ ~Removing(t)' /\ ~Checking(t)' /\ ~Removed(t)' /\ ~Removed(t)
      /\ ~Told(t)' /\ ~Asking(t)'
  BY <1>2 DEF Searching, Removing, Deleting, Removed, Checking, Told, Asking, FindPC
<1>4. KindInv(t)'
  BY <1>1, <1>2, <1>3 DEF CallAt, KindInv
<1>5. WayInv(L, t)'
  BY <1>2, <1>3 DEF WayInv, Stuck
<1>6. TRUE \in call[t].seen
  BY <1>1 DEF CallAt, HistoryInv
<1>7. CallAt(L, t)'
  BY <1>1, <1>2, <1>3, <1>4, <1>5, <1>6, QuietLive, MovesCall
<1> QED
  BY <1>7, QuietCalls DEF KeepsOwn

LEMMA ClearNextCalls ==
    ASSUME NEW L \in SUBSET Slot, NEW t \in Thread, Known(L), CallsInv(L), TypeInv', InsertsBelow,
           FreezeOrder', ClearNext(t)
    PROVE  Linearized(L, t)
<1>1. Follows(L, L, t)
  BY ClearNextFollows
<1> QED
  BY <1>1, ClearMoves DEF ClearNext, history, Linearized

LEMMA ClearKeyCalls ==
    ASSUME NEW L \in SUBSET Slot, NEW t \in Thread, Known(L), CallsInv(L), TypeInv', InsertsBelow,
           FreezeOrder', ClearKey(t)
    PROVE  Linearized(L, t)
<1>1. Follows(L, L, t)
  BY ClearKeyFollows
<1>2. /\ pc[t] = "ckey" /\ TypeInv /\ PrivacyInv /\ CallAt(L, t)
      /\ Unlinked(t) /\ Existed(t) /\ my[t].own # End /\ my[t].own \in Slot /\ call[t].kind = "insert"
  BY Clearing DEF ClearKey, Known, CallsInv
<1>3. CASE /\ ~kd[my[t].own].frz
           /\ kd' = [kd EXCEPT ![my[t].own].key = NoKey]
           /\ Answers(t, "FALSE")
  <2>1. ~AllFrozen
    BY <1>2, <1>3, Constants DEF AllFrozen, KeyFrozen, Slot, EntryHead
  <2>2. my[t].own \notin Live(L)
    BY <1>2, <2>1, OwnLive DEF Live
  <2>3. ~call[t].eff /\ TRUE \in call[t].seen
    BY <1>2, <2>2 DEF CallAt, EffectInv, HistoryInv
  <2>4. "FALSE" \in Promise!Legal(call[t])
    BY <1>2, <2>3 DEF Promise!Legal
  <2>5. kd'[my[t].own].key = NoKey /\ \A s \in Slot : kd'[s].key # NoKey => kd[s].key # NoKey
    BY <1>2, <1>3 DEF TypeInv, TypeOK, KeyWord
  <2> QED
    BY <1>1, <1>2, <1>3, <2>4, <2>5, AnswerCalls DEF Linearized, KeepsOwn
<1>4. CASE kd[my[t].own].frz /\ Goto(t, "chelp") /\ UNCHANGED <<kd, tg, my, history>> /\ next' = next
  <2>1. next'[my[t].own].frz
    BY <1>2, <1>4 DEF CallsInv, FreezeOrder
  <2> QED
    BY <1>1, <1>2, <1>4, <2>1, ClearMoves DEF history, Linearized
<1> QED
  BY <1>3, <1>4 DEF ClearKey

LEMMA ClearHelpCalls ==
    ASSUME NEW L \in SUBSET Slot, NEW t \in Thread, Known(L), CallsInv(L), TypeInv', InsertsBelow,
           FrozenStay, FreezeOrder', ClearHelp(t)
    PROVE  Linearized(L, t)
<1>1. Follows(L, L, t)
  BY AsideFollows DEF AsideStep
<1>2. /\ TypeInv /\ CallAt(L, t) /\ pc[t] = "chelp" /\ my[t] \in Local
      /\ UNCHANGED <<next, kd, content, call, settled>>
  BY DEF ClearHelp, shared, history, Known, CallsInv, TypeInv, TypeOK
<1>3. Live(L)' = Live(L)
  BY <1>1, <1>2, QuietLive
<1>4. my[t].own # End /\ Stuck(t) /\ ~Removed(t)
  BY <1>2 DEF CallAt, KindInv, Stuck, Existed, Inserting, Removed, FindPC
<1>5. CASE Goto(t, "fault") /\ my' = my
  <2>1. pc'[t] = "fault"
    BY <1>2, <1>5 DEF Goto, TypeInv, TypeOK
  <2>2. /\ ~Searching(t)' /\ ~Removing(t)' /\ ~Checking(t)' /\ ~Removed(t)' /\ ~Told(t)' /\ ~Asking(t)'
    BY <2>1 DEF Searching, Removing, Deleting, Removed, Checking, Told, Asking, FindPC
  <2>3. KindInv(t)' /\ WayInv(L, t)'
    BY <1>2, <1>4, <1>5, <2>1, <2>2 DEF CallAt, KindInv, WayInv
  <2>4. TRUE \in call[t].seen
    BY <1>2, <1>4 DEF CallAt, HistoryInv, Stuck
  <2>5. CallAt(L, t)'
    BY <1>2, <1>3, <1>4, <1>5, <2>1, <2>2, <2>3, <2>4, MovesCall
  <2> QED
    BY <1>1, <1>2, <1>5, <2>5, QuietCalls DEF Linearized, KeepsOwn
<1>6. CASE CallFreeze(t, "NONE")
  <2>1. CallAt(L, t)'
    BY <1>2, <1>3, <1>4, <1>6, FreezeCalled DEF Trigger
  <2>2. my'[t].own = my[t].own
    BY <1>2, <1>6 DEF CallFreeze, Fresh, TypeInv, TypeOK
  <2> QED
    BY <1>1, <1>2, <2>1, <2>2, QuietCalls DEF Linearized, KeepsOwn
<1> QED
  BY <1>5, <1>6 DEF ClearHelp

LEMMA ClearFoundCalls ==
    ASSUME NEW L \in SUBSET Slot, NEW t \in Thread, Known(L), CallsInv(L), TypeInv', InsertsBelow,
           FreezeOrder', ClearFound(t)
    PROVE  Linearized(L, t)
<1>1. Follows(L, L, t)
  BY AsideFollows DEF AsideStep
<1>2. /\ TypeInv /\ CallAt(L, t) /\ pc[t] = "cfound" /\ Checking(t)
      /\ UNCHANGED <<next, kd>>
  BY DEF ClearFound, Checking, shared, Known, CallsInv
<1>3. /\ settled /\ my[t].own # End /\ call[t].kind = "insert" /\ Existed(t)
      /\ EntryIsThere(t) <=> my[t].own \in Live(L)
  BY <1>2 DEF CallAt, KindInv, WayInv, TypeInv, ThreadInv, OwnInv, Existed, Inserting, FindPC
<1>4. (call[t].eff <=> EntryIsThere(t)) /\ TRUE \in call[t].seen
  BY <1>2, <1>3 DEF CallAt, EffectInv, HistoryInv
<1>5. (IF EntryIsThere(t) THEN "TRUE" ELSE "FALSE") \in Promise!Legal(call[t])
  BY <1>3, <1>4 DEF Promise!Legal
<1> QED
  BY <1>1, <1>2, <1>3, <1>5, AnswerCalls DEF ClearFound, Linearized, KeepsOwn

\* freezeRecovery takes the call over, or clearEntry looks for the entry again
LEMMA RecoverCalls ==
    ASSUME NEW L \in SUBSET Slot, NEW t \in Thread, Known(L), CallsInv(L), DecideInv,
           TypeInv', InsertsBelow, FrozenStay, FreezeOrder', Recover(t)
    PROVE  Linearized(L, t)
<1>1. Follows(L, L, t)
  BY AsideFollows DEF AsideStep
<1>2. /\ TypeInv /\ CallAt(L, t) /\ pc[t] = "recover" /\ my[t] \in Local /\ settled
      /\ UNCHANGED <<next, kd>> /\ my[t].trig \in Trigger
  BY DEF Recover, shared, Known, CallsInv, TypeInv, TypeOK, DecideInv, DecideAt, CallAt, KindInv, Local
<1>3. CASE my[t].trig # "NONE" /\ Answers(t, "moved")
  <2>1. ~Removed(t) /\ my[t].trig \in {"INSERT", "DELETE", "ENSLAVE"}
    BY <1>2, <1>3 DEF Removed, FindPC, Trigger
  <2>2. End \notin Live(L)
    BY <1>2, CellsAre DEF Live
  <2>3. "moved" \in Promise!Legal(call[t])
    BY <1>2, <2>1, <2>2 DEF CallAt, KindInv, EffectInv, Promise!Legal
  <2> QED
    BY <1>1, <1>2, <1>3, <2>3, AnswerCalls DEF Linearized, KeepsOwn
<1>4. CASE /\ my[t].trig = "NONE" /\ CallFind(t, [my[t] EXCEPT !.trig = "-"], "cfound")
           /\ UNCHANGED <<content, call, settled>>
  <2>1. pc'[t] = "fhead"
    BY <1>2, <1>4 DEF CallFind, Goto, TypeInv, TypeOK
  <2>2. my'[t] = [[my[t] EXCEPT !.trig = "-"] EXCEPT !.ret = "cfound", !.found = FALSE]
    BY <1>2, <1>4 DEF CallFind, TypeInv, TypeOK
  <2>3. my'[t].own = my[t].own /\ my'[t].trig = "-" /\ my'[t].ret = "cfound"
    BY <1>2, <2>2 DEF Local
  <2>4. my[t].own # End /\ Existed(t) /\ Stuck(t)
    BY <1>2, <1>4 DEF CallAt, KindInv, Existed, Stuck, Inserting, FindPC
  <2>5. /\ ~Searching(t)' /\ ~Removing(t)' /\ ~Removed(t)' /\ ~Removed(t) /\ ~Told(t)'
    BY <1>2, <2>1, <2>3 DEF Searching, Removing, Deleting, Removed, Told, FindPC
  <2>6. KindInv(t)'
    BY <1>2, <1>4, <2>1, <2>3, <2>4, <2>5 DEF CallAt, KindInv
  <2>7. next'[my'[t].own].frz
    BY <1>2, <2>3, <2>4 DEF CallAt, WayInv
  <2>8. WayInv(L, t)'
    BY <1>2, <1>4, <2>1, <2>7 DEF WayInv
  <2>9. TRUE \in call[t].seen
    BY <1>2, <2>4 DEF CallAt, HistoryInv
  <2>10. CallAt(L, t)'
    BY <1>1, <1>2, <1>4, <2>1, <2>3, <2>5, <2>6, <2>8, <2>9, QuietLive, MovesCall
  <2> QED
    BY <1>1, <1>2, <1>4, <2>3, <2>10, QuietCalls DEF Linearized, KeepsOwn
<1> QED
  BY <1>3, <1>4 DEF Recover, history

-----------------------------------------------------------------------------
(***************************************************************************)
(* deleteInChunk, up to the mark.                                          *)
(***************************************************************************)
LEMMA FindAgain ==
    ASSUME TypeInv, NEW t \in Thread, NEW r \in Return, CallFind(t, my[t], r)
    PROVE  /\ pc'[t] = "fhead" /\ my'[t].ret = r
           /\ my'[t].own = my[t].own /\ my'[t].trig = my[t].trig
<1>1. my[t] \in Local /\ pc'[t] = "fhead" /\ my'[t] = [my[t] EXCEPT !.ret = r, !.found = FALSE]
  BY DEF CallFind, Goto, TypeInv, TypeOK
<1> QED
  BY <1>1 DEF Local

\* a delete has allocated nothing
LEMMA DeleteOwns ==
    ASSUME TypeInv, NEW t \in Thread, call[t].kind = "delete"
    PROVE  my[t].own = End
BY DEF TypeInv, ThreadInv, OwnInv

LEMMA DeletingMoves ==
    ASSUME NEW L \in SUBSET Slot, NEW t \in Thread, TypeInv, CallAt(L, t), Live(L)' = Live(L),
           UNCHANGED <<content, call>>, call[t].kind = "delete",
           my'[t].own = my[t].own, my'[t].trig = my[t].trig, Removed(t)' <=> Removed(t),
           pc'[t] \in {"dmark", "dundo"} \/ (pc'[t] = "fhead" /\ my'[t].ret \in {"dfound", "dfix"})
    PROVE  CallAt(L, t)'
<1>1. my[t].own = End /\ pc[t] \notin {"idle", "inc"}
  BY DeleteOwns DEF CallAt, KindInv
<1>2. /\ ~Searching(t)' /\ ~Checking(t)' /\ ~Told(t)' /\ ~Existed(t)' /\ ~Stuck(t)'
      /\ pc'[t] \notin {"idle", "inc", "chelp", "slave", "cfound", "decide", "recover", "fnext", "funlink"}
  BY <1>1 DEF Searching, Checking, Told, Existed, Stuck, FindPC
<1>3. KindInv(t)'
  BY <1>1, <1>2 DEF CallAt, KindInv
<1>4. Asking(t)' => pc'[t] = "fhead"
  BY <1>2 DEF Asking, FindPC
<1>5. WayInv(L, t)'
  BY <1>2, <1>4 DEF WayInv
<1> QED
  BY <1>1, <1>2, <1>3, <1>5, MovesCall

LEMMA DeletingStep ==
    ASSUME NEW L \in SUBSET Slot, NEW t \in Thread, Known(L), CallsInv(L), Follows(L, L, t),
           FreezeOrder', kd' = kd, UNCHANGED <<content, call, settled>>, call[t].kind = "delete",
           my'[t].own = my[t].own, my'[t].trig = my[t].trig, Removed(t)' <=> Removed(t),
           pc'[t] \in {"dmark", "dundo"} \/ (pc'[t] = "fhead" /\ my'[t].ret \in {"dfound", "dfix"})
    PROVE  CallsInv(L)' /\ Promised
<1>1. Live(L)' = Live(L) /\ TypeInv /\ CallAt(L, t)
  BY QuietLive DEF Known, CallsInv
<1>2. CallAt(L, t)'
  BY <1>1, DeletingMoves
<1>3. KeepsOwn(L, t)
  BY DEF KeepsOwn
<1> QED
  BY <1>2, <1>3, QuietCalls

\* the delete is given up for the freeze
LEMMA DeletingFreezes ==
    ASSUME NEW L \in SUBSET Slot, NEW t \in Thread, Known(L), CallsInv(L), Follows(L, L, t),
           FrozenStay, FreezeOrder', kd' = kd, UNCHANGED <<content, call, settled>>,
           call[t].kind = "delete", ~Removed(t), CallFreeze(t, "DELETE")
    PROVE  CallsInv(L)' /\ Promised
<1>1. Live(L)' = Live(L) /\ TypeInv /\ CallAt(L, t) /\ my[t].own = End
  BY QuietLive, DeleteOwns DEF Known, CallsInv
<1>2. pc[t] \notin {"idle", "inc"}
  BY <1>1 DEF CallAt, KindInv
<1>3. CallAt(L, t)'
  BY <1>1, <1>2, FreezeCalled DEF Trigger
<1>4. my'[t].own = my[t].own
  BY <1>1 DEF CallFreeze, Fresh, TypeInv, TypeOK
<1> QED
  BY <1>3, <1>4, QuietCalls DEF KeepsOwn

LEMMA DeleteCountCalls ==
    ASSUME NEW L \in SUBSET Slot, NEW t \in Thread, Known(L), CallsInv(L), TypeInv', InsertsBelow,
           FrozenStay, FreezeOrder', DeleteCount(t)
    PROVE  Linearized(L, t)
<1>1. Follows(L, L, t)
  BY AsideFollows DEF AsideStep
<1>2. /\ TypeInv /\ pc[t] = "dec" /\ kd' = kd /\ UNCHANGED <<content, call, settled>> /\ KindInv(t)
  BY DEF DeleteCount, history, Known, CallsInv, CallAt
<1>3. ~Removed(t) /\ call[t].kind = "delete"
  BY <1>2 DEF Removed, KindInv, Removing, Deleting, FindPC
<1>4. CASE CallFind(t, my[t], "dfound")
  <2>1. pc'[t] = "fhead" /\ my'[t].ret = "dfound" /\ my'[t].own = my[t].own /\ my'[t].trig = my[t].trig
    BY <1>2, <1>4, FindAgain DEF Return
  <2>2. ~Removed(t)'
    BY <2>1 DEF Removed
  <2> QED
    BY <1>1, <1>2, <1>3, <2>1, <2>2, DeletingStep DEF Linearized
<1>5. CASE CallFreeze(t, "DELETE")
  BY <1>1, <1>2, <1>3, <1>5, DeletingFreezes DEF Linearized
<1> QED
  BY <1>4, <1>5 DEF DeleteCount

LEMMA DeleteUndoCalls ==
    ASSUME NEW L \in SUBSET Slot, NEW t \in Thread, Known(L), CallsInv(L), TypeInv', InsertsBelow,
           FrozenStay, FreezeOrder', DeleteUndo(t)
    PROVE  Linearized(L, t)
<1>1. Follows(L, L, t)
  BY AsideFollows DEF AsideStep
<1>2. /\ pc[t] = "dundo" /\ kd' = kd /\ UNCHANGED <<content, call, settled>> /\ KindInv(t)
      /\ CallFreeze(t, "DELETE")
  BY DEF DeleteUndo, history, CallsInv, CallAt
<1>3. ~Removed(t) /\ call[t].kind = "delete"
  BY <1>2 DEF Removed, KindInv, Removing, FindPC
<1> QED
  BY <1>1, <1>2, <1>3, DeletingFreezes DEF Linearized

LEMMA DeleteFoundCalls ==
    ASSUME NEW L \in SUBSET Slot, NEW t \in Thread, Known(L), CallsInv(L), TypeInv', InsertsBelow,
           FreezeOrder', DeleteFound(t)
    PROVE  Linearized(L, t)
<1>1. Follows(L, L, t)
  BY DeleteFoundFollows
<1>2. /\ TypeInv /\ pc[t] = "dfound" /\ kd' = kd /\ CallAt(L, t) /\ my[t] \in Local
  BY DEF DeleteFound, Known, CallsInv, TypeInv, TypeOK
<1>3. ~Removed(t) /\ call[t].kind = "delete" /\ my[t].own = End
  BY <1>2, DeleteOwns DEF Removed, CallAt, KindInv, Removing, Deleting, FindPC
<1>4. CASE ~my[t].found /\ Answers(t, "FALSE")
  <2>1. ~call[t].eff
    BY <1>2, <1>3 DEF CallAt, EffectInv
  <2>2. my[t].found = FALSE
    BY <1>2, <1>4 DEF Local
  <2>3. FALSE \in call[t].seen
    BY <1>2, <2>2 DEF CallAt, HistoryInv, Told
  <2>4. "FALSE" \in Promise!Legal(call[t])
    BY <1>3, <2>1, <2>3 DEF Promise!Legal
  <2>5. KeepsOwn(L, t)
    BY <1>3, SizeAssumption DEF KeepsOwn, End, Slot
  <2> QED
    BY <1>1, <1>2, <1>4, <2>4, <2>5, AnswerCalls DEF Linearized
<1>5. CASE /\ my' = [my EXCEPT ![t].saved = Unmarked(next[tg[t].cur.idx])]
           /\ Goto(t, "dmark") /\ UNCHANGED history
  <2>1. pc'[t] = "dmark" /\ my'[t] = [my[t] EXCEPT !.saved = Unmarked(next[tg[t].cur.idx])]
    BY <1>2, <1>5 DEF Goto, TypeInv, TypeOK
  <2>2. my'[t].own = my[t].own /\ my'[t].trig = my[t].trig
    BY <1>2, <2>1 DEF Local
  <2>3. ~Removed(t)'
    BY <2>1 DEF Removed, FindPC
  <2> QED
    BY <1>1, <1>2, <1>3, <1>5, <2>1, <2>2, <2>3, DeletingStep DEF Linearized, history
<1> QED
  BY <1>4, <1>5 DEF DeleteFound

LEMMA DeleteUnlinkCalls ==
    ASSUME NEW L \in SUBSET Slot, NEW t \in Thread, Known(L), CallsInv(L), TypeInv', InsertsBelow,
           FreezeOrder', DeleteUnlink(t)
    PROVE  Linearized(L, t)
<1>1. Follows(L, L, t)
  BY DeleteUnlinkFollows
<1>2. /\ TypeInv /\ pc[t] = "dunlink" /\ kd' = kd /\ CallAt(L, t) /\ Removed(t)
  BY DEF DeleteUnlink, Known, CallsInv, Removed
<1>3. call[t].kind = "delete" /\ my[t].own = End /\ call[t].eff
  BY <1>2, DeleteOwns DEF CallAt, KindInv, Removing, EffectInv
<1>4. CASE Answers(t, "TRUE")
  <2>1. "TRUE" \in Promise!Legal(call[t])
    BY <1>3 DEF Promise!Legal
  <2>2. KeepsOwn(L, t)
    BY <1>3, SizeAssumption DEF KeepsOwn, End, Slot
  <2> QED
    BY <1>1, <1>2, <1>4, <2>1, <2>2, AnswerCalls DEF Linearized
<1>5. CASE CallFind(t, my[t], "dfix") /\ UNCHANGED history
  <2>1. pc'[t] = "fhead" /\ my'[t].ret = "dfix" /\ my'[t].own = my[t].own /\ my'[t].trig = my[t].trig
    BY <1>2, <1>5, FindAgain DEF Return
  <2>2. Removed(t)'
    BY <2>1 DEF Removed, FindPC
  <2> QED
    BY <1>1, <1>2, <1>3, <1>5, <2>1, <2>2, DeletingStep DEF Linearized, history
<1> QED
  BY <1>4, <1>5 DEF DeleteUnlink

LEMMA DeleteFixedCalls ==
    ASSUME NEW L \in SUBSET Slot, NEW t \in Thread, Known(L), CallsInv(L), TypeInv', InsertsBelow,
           FreezeOrder', DeleteFixed(t)
    PROVE  Linearized(L, t)
<1>1. Follows(L, L, t)
  BY AsideFollows DEF AsideStep
<1>2. /\ TypeInv /\ pc[t] = "dfix" /\ kd' = kd /\ CallAt(L, t) /\ Removed(t) /\ Answers(t, "TRUE")
  BY DEF DeleteFixed, shared, Known, CallsInv, Removed
<1>3. call[t].kind = "delete" /\ my[t].own = End /\ call[t].eff
  BY <1>2, DeleteOwns DEF CallAt, KindInv, Removing, EffectInv
<1>4. "TRUE" \in Promise!Legal(call[t]) /\ KeepsOwn(L, t)
  BY <1>3, SizeAssumption DEF Promise!Legal, KeepsOwn, End, Slot
<1> QED
  BY <1>1, <1>2, <1>4, AnswerCalls DEF Linearized

-----------------------------------------------------------------------------
(***************************************************************************)
(* An entry is marked: this is the effect of the delete.  No insert that   *)
(* may still answer has this entry in hand.                                *)
(***************************************************************************)
Marks(t) ==
    /\ next[tg[t].cur.idx] = my[t].saved
    /\ next' = [next EXCEPT ![tg[t].cur.idx] = [Bump(@, @.idx) EXCEPT !.del = TRUE]]
    /\ TakesEffect({t}, content \ {kd[tg[t].cur.idx].key})
    /\ Goto(t, "dunlink") /\ UNCHANGED <<tg, my, kd>>

LEMMA NotInHand ==
    ASSUME NEW L \in SUBSET Slot, Known(L), NEW u \in Thread, CallAt(L, u), pc[u] # "inc",
           NEW c \in L, ~next[c].frz, ~AllFrozen
    PROVE  my[u].own # c
<1> SUFFICES ASSUME my[u].own = c PROVE FALSE
  OBVIOUS
<1>1. my[u].own # End
  BY SizeAssumption DEF Slot, End
<1>2. CASE Unlinked(u)
  BY <1>1, <1>2, OwnLive
<1>3. CASE ~Unlinked(u)
  <2>1. Stuck(u)
    <3>1. pc[u] \notin {"cnext", "ckey"}
      BY <1>3, Clearing DEF Known
    <3> QED
      BY <1>1, <1>3, <3>1 DEF Stuck, Existed, Unlinked
  <2> QED
    BY <2>1 DEF CallAt, WayInv
<1> QED
  BY <1>2, <1>3

LEMMA MarkingCall ==
    ASSUME NEW L, NEW t \in Thread, TypeInv, CallAt(L, t), pc[t] = "dmark",
           Goto(t, "dunlink"), my' = my, Kept(t), call'[t].eff
    PROVE  CallAt(L, t)'
<1>1. pc'[t] = "dunlink" /\ call[t].kind = "delete" /\ call'[t].kind = "delete"
  BY DEF Goto, TypeInv, TypeOK, CallAt, KindInv, Removing, Deleting, Kept
<1>2. my[t].own = End
  BY <1>1, DeleteOwns
<1>3. /\ ~Searching(t)' /\ ~Checking(t)' /\ ~Told(t)' /\ ~Asking(t)' /\ ~Existed(t)' /\ ~Stuck(t)'
      /\ Removed(t)'
  BY <1>1, <1>2 DEF Searching, Checking, Told, Asking, Existed, Stuck, Removed, FindPC
<1>4. KindInv(t)'
  BY <1>1, <1>2, <1>3 DEF CallAt, KindInv
<1>5. EffectInv(L, t)'
  BY <1>1, <1>3 DEF EffectInv
<1>6. HistoryInv(t)' /\ WayInv(L, t)'
  BY <1>1, <1>3 DEF HistoryInv, WayInv, Kept
<1> QED
  BY <1>4, <1>5, <1>6 DEF CallAt

LEMMA MarkCalls ==
    ASSUME NEW L \in SUBSET Slot, NEW t \in Thread, Known(L), Stable(L), CallsInv(L),
           InsertsBelow, Follows(L, L, t), FreezeOrder', pc[t] = "dmark", Marks(t)
    PROVE  CallsInv(L)' /\ Promised
<1>1. PICK c \in Live(L) : /\ c = tg[t].cur.idx /\ c \in Cell /\ c \in Slot
                           /\ ~next[c].del /\ ~next[c].frz /\ ~AllFrozen
  BY MarkFacts DEF Marks
<1>2. TypeInv /\ CallAt(L, t) /\ MarkInv(L, t) /\ Holding(t) /\ Holds(L) /\ c \in L
  BY DEF Known, Content, At, ListInv, CallsInv, Holding, Live
<1>3. kd[c].key = call[t].key /\ call[t].key \in content
  BY <1>1, <1>2 DEF MarkInv, Holds, KeysIn
<1>4. call[t].kind = "delete" /\ ~call[t].eff
  BY <1>2 DEF CallAt, KindInv, Removing, Deleting, EffectInv, Removed, FindPC
<1>5. ~settled
  BY <1>1 DEF Stable, Finished
<1>6. TakesEffect({t}, content \ {call[t].key})
  BY <1>1, <1>3 DEF Marks
<1>7. /\ content' = content \ {call[t].key} /\ settled' = settled
      /\ {t} \in SUBSET Thread /\ content \ {call[t].key} \in SUBSET Key
  <2>1. content' = content \ {call[t].key} /\ settled' = settled
    BY <1>6, EffectOn
  <2>2. content \in SUBSET Key
    BY <1>2 DEF TypeInv, TypeOK
  <2> QED
    BY <2>1, <2>2
<1>8. Live(L)' = Live(L) \ {c}
  <2>1. next' = [next EXCEPT ![c] = [Bump(@, @.idx) EXCEPT !.del = TRUE]]
    BY <1>1 DEF Marks
  <2>2. next'[c].del /\ \A d \in Cell : d # c => next'[d] = next[d]
    BY <1>1, <1>2, <2>1, MarkedWords
  <2>3. \A d \in L : d \in Cell
    BY DEF Cell
  <2> QED
    BY <1>2, <2>2, <2>3 DEF Live
<1>9. Active(t)
  BY <1>4 DEF Active
<1>10. ASSUME NEW u \in Thread
       PROVE  /\ Kept(u)
              /\ Active(u) => (call'[u].eff <=> (call[u].eff \/ u \in {t}))
  <2>1. /\ call'[u].kind = call[u].kind /\ call'[u].key = call[u].key
        /\ call[u].seen \subseteq call'[u].seen
        /\ Active(u) => /\ (call[u].key \in content') \in call'[u].seen
                        /\ call'[u].eff <=> (call[u].eff \/ u \in {t})
    BY <1>2, <1>6, <1>7, EffectFields
  <2>2. pc[u] # "idle" => Active(u)
    BY DEF CallsInv, CallAt, KindInv, Active
  <2> QED
    BY <2>1, <2>2 DEF Kept
<1>11. ASSUME NEW u \in Thread \ {t} PROVE CallAt(L, u)'
  <2>1. CallAt(L, u)
    BY DEF CallsInv
  <2>2. pc[u] # "inc" => my[u].own # c
    BY <1>1, <1>2, <2>1, NotInHand
  <2>3. call[u].kind \in {"insert", "delete"} => (call'[u].eff <=> call[u].eff)
    BY <1>10 DEF Active
  <2>4. EffectFor(L, L, u)
    BY <1>5, <1>8, <2>2, <2>3 DEF EffectFor
  <2> QED
    BY <1>7, <1>10, <2>1, <2>4, OthersCall
<1>12. CallAt(L, t)'
  BY <1>2, <1>9, <1>10, MarkingCall DEF Marks
<1>13. Owned(L)'
  BY <1>7, OwnedKeeps DEF CallsInv, KeepsOwn, Marks
<1>14. Promise!DeleteEffect(t)
  <2>1. call' = [Promise!Observe(content') EXCEPT ![t].eff = TRUE]
    BY <1>2, <1>6, <1>7, <1>9, OneEffect
  <2> QED
    BY <1>3, <1>4, <1>7, <2>1 DEF Promise!DeleteEffect
<1> QED
  BY <1>11, <1>12, <1>13, <1>14 DEF CallsInv, Promised, Promise!Next

LEMMA DeleteMarkCalls ==
    ASSUME NEW L \in SUBSET Slot, NEW t \in Thread, Known(L), Stable(L), CallsInv(L),
           TypeInv', InsertsBelow, FreezeOrder', DeleteMark(t)
    PROVE  Linearized(L, t)
<1>1. Follows(L, L, t)
  BY DeleteMarkFollows
<1>2. /\ TypeInv /\ pc[t] = "dmark" /\ kd' = kd /\ KindInv(t)
  BY DEF DeleteMark, Known, CallsInv, CallAt
<1>3. ~Removed(t) /\ call[t].kind = "delete"
  BY <1>2 DEF Removed, KindInv, Removing, Deleting, FindPC
<1>4. CASE Marks(t)
  BY <1>1, <1>2, <1>4, MarkCalls DEF Linearized
<1>5. CASE Goto(t, "dundo") /\ my' = my /\ UNCHANGED history
  <2>1. pc'[t] = "dundo"
    BY <1>2, <1>5 DEF Goto, TypeInv, TypeOK
  <2>2. ~Removed(t)'
    BY <2>1 DEF Removed, FindPC
  <2> QED
    BY <1>1, <1>2, <1>3, <1>5, <2>1, <2>2, DeletingStep DEF Linearized, history
<1>6. CASE CallFind(t, my[t], "dfound") /\ UNCHANGED history
  <2>1. pc'[t] = "fhead" /\ my'[t].ret = "dfound" /\ my'[t].own = my[t].own /\ my'[t].trig = my[t].trig
    BY <1>2, <1>6, FindAgain DEF Return
  <2>2. ~Removed(t)'
    BY <2>1 DEF Removed
  <2> QED
    BY <1>1, <1>2, <1>3, <1>6, <2>1, <2>2, DeletingStep DEF Linearized, history
<1> QED
  BY <1>4, <1>5, <1>6 DEF DeleteMark, Marks

-----------------------------------------------------------------------------
(***************************************************************************)
(* searchInChunk, setSlave, and the beginning of a call.                   *)
(***************************************************************************)
LEMMA SearchFoundCalls ==
    ASSUME NEW L \in SUBSET Slot, NEW t \in Thread, Known(L), CallsInv(L), TypeInv', InsertsBelow,
           FreezeOrder', SearchFound(t)
    PROVE  Linearized(L, t)
<1>1. Follows(L, L, t)
  BY AsideFollows DEF AsideStep
<1>2. /\ TypeInv /\ pc[t] = "sfound" /\ kd' = kd /\ CallAt(L, t) /\ my[t] \in Local
      /\ Answers(t, IF my[t].found THEN "TRUE" ELSE "FALSE")
  BY DEF SearchFound, shared, Known, CallsInv, TypeInv, TypeOK
<1>3. call[t].kind = "search" /\ my[t].found \in call[t].seen
  BY <1>2 DEF CallAt, KindInv, Searching, HistoryInv, Told
<1>4. (IF my[t].found THEN "TRUE" ELSE "FALSE") \in Promise!Legal(call[t])
  BY <1>3 DEF Promise!Legal
<1>5. my[t].own = End /\ KeepsOwn(L, t)
  BY <1>2, <1>3, SizeAssumption DEF TypeInv, ThreadInv, OwnInv, KeepsOwn, End, Slot
<1> QED
  BY <1>1, <1>2, <1>4, <1>5, AnswerCalls DEF Linearized

LEMMA EnslaveCalls ==
    ASSUME NEW L \in SUBSET Slot, NEW t \in Thread, Known(L), CallsInv(L), TypeInv', InsertsBelow,
           FrozenStay, FreezeOrder', Enslave(t)
    PROVE  Linearized(L, t)
<1>1. Follows(L, L, t)
  BY AsideFollows DEF AsideStep
<1>2. /\ TypeInv /\ pc[t] = "slave" /\ kd' = kd /\ CallAt(L, t) /\ my[t] \in Local
      /\ UNCHANGED <<content, call, settled>>
  BY DEF Enslave, history, Known, CallsInv, TypeInv, TypeOK
<1>3. call[t].kind = "enslave" /\ my[t].own = End /\ Live(L)' = Live(L) /\ ~Removed(t)
  BY <1>1, <1>2, QuietLive DEF CallAt, KindInv, TypeInv, ThreadInv, OwnInv, Removed, FindPC
<1>4. CASE /\ my' = [my EXCEPT ![t].trig = "ENSLAVE", ![t].dec = "R_MERGE"]
           /\ Goto(t, "mark")
  <2>1. pc'[t] = "mark" /\ my'[t] = [[my[t] EXCEPT !.trig = "ENSLAVE"] EXCEPT !.dec = "R_MERGE"]
    BY <1>2, <1>4 DEF Goto, TypeInv, TypeOK
  <2>2. my'[t].own = my[t].own /\ my'[t].trig = "ENSLAVE"
    BY <1>2, <2>1 DEF Local
  <2>3. /\ ~Searching(t)' /\ ~Removing(t)' /\ ~Checking(t)' /\ ~Removed(t)' /\ ~Told(t)' /\ ~Asking(t)'
        /\ ~Existed(t)' /\ ~Stuck(t)'
    BY <1>3, <2>1, <2>2
    DEF Searching, Removing, Deleting, Removed, Checking, Told, Asking, Existed, Stuck, FindPC
  <2>4. KindInv(t)' /\ WayInv(L, t)'
    BY <1>2, <1>3, <2>1, <2>2, <2>3 DEF KindInv, WayInv
  <2>5. CallAt(L, t)'
    BY <1>2, <1>3, <2>1, <2>2, <2>3, <2>4, MovesCall
  <2> QED
    BY <1>1, <1>2, <2>2, <2>5, QuietCalls DEF Linearized, KeepsOwn
<1>5. CASE CallFreeze(t, "ENSLAVE")
  <2>1. CallAt(L, t)'
    BY <1>2, <1>3, <1>5, FreezeCalled DEF Trigger
  <2>2. my'[t].own = my[t].own
    BY <1>2, <1>5 DEF CallFreeze, Fresh, TypeInv, TypeOK
  <2> QED
    BY <1>1, <1>2, <2>1, <2>2, QuietCalls DEF Linearized, KeepsOwn
<1> QED
  BY <1>4, <1>5 DEF Enslave

LEMMA InvokedCall ==
    ASSUME NEW L \in SUBSET Slot, NEW t \in Thread, TypeInv, pc[t] = "idle", NEW w \in Work[t],
           call' = [call EXCEPT ![t] = [kind |-> w.kind, key |-> w.key, eff |-> FALSE,
                                        seen |-> {w.key \in content}, res |-> "none"]],
           Goto(t, Start(w.kind)), content' = content,
           my' = [my EXCEPT ![t].ret = IF w.kind = "search" THEN "sfound" ELSE "-"]
    PROVE  CallAt(L, t)' /\ my'[t].own = my[t].own
<1>1. w.kind \in Kind /\ w.key \in Key
  BY WorkAssumption
<1>2. /\ call'[t].kind = w.kind /\ call'[t].key = w.key /\ call'[t].eff = FALSE
      /\ call'[t].seen = {w.key \in content}
  BY DEF TypeInv, TypeOK
<1>3. pc'[t] = Start(w.kind) /\ my[t] = Fresh
  BY DEF Goto, TypeInv, TypeOK, ThreadInv, IdleInv
<1>4. my'[t] = [Fresh EXCEPT !.ret = IF w.kind = "search" THEN "sfound" ELSE "-"]
  BY <1>3 DEF TypeInv, TypeOK
<1>5. /\ my'[t].own = End /\ my'[t].trig = "-" /\ my[t].own = End
      /\ my'[t].ret = IF w.kind = "search" THEN "sfound" ELSE "-"
  BY <1>3, <1>4 DEF Fresh
<1>6. \/ w.kind = "search" /\ pc'[t] = "fhead"
      \/ w.kind = "insert" /\ pc'[t] = "alloc"
      \/ w.kind = "delete" /\ pc'[t] = "dec"
      \/ w.kind = "enslave" /\ pc'[t] = "slave"
  BY <1>1, <1>3 DEF Start, Kind
<1>7. /\ ~Removed(t)' /\ ~Checking(t)' /\ ~Told(t)' /\ ~Existed(t)' /\ ~Stuck(t)'
      /\ (Asking(t)' => pc'[t] = "fhead")
      /\ (Searching(t)' => w.kind = "search") /\ (Removing(t)' => w.kind = "delete")
  BY <1>5, <1>6
  DEF Removed, Checking, Told, Existed, Stuck, Asking, Searching, Removing, Deleting, FindPC
<1>8. KindInv(t)'
  BY <1>2, <1>5, <1>6, <1>7 DEF KindInv
<1>9. EffectInv(L, t)'
  <2>1. my'[t].own \notin L
    BY <1>5, SizeAssumption DEF End, Slot
  <2> QED
    BY <1>2, <1>6, <1>7, <2>1 DEF EffectInv, Live
<1>10. HistoryInv(t)' /\ WayInv(L, t)'
  BY <1>2, <1>6, <1>7 DEF HistoryInv, WayInv
<1> QED
  BY <1>5, <1>8, <1>9, <1>10 DEF CallAt

LEMMA InvokeCalls ==
    ASSUME NEW L \in SUBSET Slot, NEW t \in Thread, Known(L), CallsInv(L), TypeInv', InsertsBelow,
           FreezeOrder', Invoke(t)
    PROVE  Linearized(L, t)
<1>1. Follows(L, L, t)
  BY AsideFollows DEF AsideStep
<1>2. TypeInv /\ pc[t] = "idle" /\ UNCHANGED <<kd, content, settled>> /\ KindInv(t)
  BY DEF Invoke, shared, Known, CallsInv, CallAt
<1>3. PICK w \in Work[t] :
         /\ call' = [call EXCEPT ![t] = [kind |-> w.kind, key |-> w.key, eff |-> FALSE,
                                         seen |-> {w.key \in content}, res |-> "none"]]
         /\ Goto(t, Start(w.kind))
         /\ my' = [my EXCEPT ![t].ret = IF w.kind = "search" THEN "sfound" ELSE "-"]
  BY DEF Invoke
<1>4. CallAt(L, t)' /\ my'[t].own = my[t].own
  BY <1>2, <1>3, InvokedCall
<1>5. Owned(L)'
  BY <1>1, <1>2, <1>4, OwnedKeeps DEF CallsInv, KeepsOwn
<1>6. ASSUME NEW u \in Thread \ {t} PROVE CallAt(L, u)'
  <2>1. CallAt(L, u) /\ call'[u] = call[u]
    BY <1>2, <1>3 DEF CallsInv, TypeInv, TypeOK
  <2> QED
    BY <1>1, <1>2, <2>1, StaysKept, OthersCall
<1>7. Promise!Invoke(t, w.kind, w.key)
  <2>1. call[t].kind = "idle" /\ content' = content
    BY <1>2 DEF KindInv
  <2> QED
    BY <1>3, <2>1 DEF Promise!Invoke, Promise!Active
<1>8. w.kind \in Promise!Kind /\ w.key \in Key
  BY WorkAssumption DEF Kind, Promise!Kind
<1> QED
  BY <1>1, <1>4, <1>5, <1>6, <1>7, <1>8 DEF Linearized, CallsInv, Promised, Promise!Next

-----------------------------------------------------------------------------
(***************************************************************************)
(* find, called to learn whether the key of the call is there.             *)
(***************************************************************************)
Learns(L, t) ==
    \/ pc'[t] = "fhead"
    \/ /\ pc'[t] \in {"fnext", "funlink"}
       /\ \E p \in Cells(L) : p = tg'[t].prev /\ KeyOf(p) < call[t].key
    \/ /\ pc'[t] = my[t].ret /\ my'[t].found = FALSE
       /\ \E p \in Cells(L) : /\ KeyOf(p) < call[t].key
                              /\ next'[p].idx # End => call[t].key < kd[next'[p].idx].key
    \/ /\ pc'[t] = my[t].ret /\ my'[t].found = TRUE
       /\ \E c \in Live(L) : c = tg'[t].cur.idx /\ kd[c].key = call[t].key

LEMMA AskedKey ==
    ASSUME NEW L, NEW t \in Thread, TypeInv, CallAt(L, t), Asking(t)
    PROVE  Sought(t) = call[t].key /\ call[t].key \in Int /\ call[t].key > 0 /\ my[t].ret \in Return
<1>1. call[t].key \in Int /\ call[t].key > 0
  BY SizeAssumption DEF TypeInv, TypeOK, Key
<1>2. CASE my[t].ret \in {"sfound", "dfound"}
  BY <1>1, <1>2 DEF Sought, Return
<1>3. CASE my[t].ret = "cfound"
  BY <1>1, <1>3 DEF Sought, Return, Asking, CallAt, KindInv, Checking, TypeInv, ThreadInv, OwnInv
<1>4. CASE my[t].ret = "ifound" /\ my[t].trig = "-"
  <2>1. Inserting(t) /\ Ent(t) = my[t].own
    BY <1>4 DEF Asking, Inserting, Ent
  <2> QED
    BY <1>1, <1>4, <2>1 DEF Sought, Return, TypeInv, ThreadInv, OwnInv
<1> QED
  BY <1>2, <1>3, <1>4 DEF Asking

LEMMA FindHeadLearns ==
    ASSUME NEW L \in SUBSET Slot, NEW t \in Thread, Known(L), CallAt(L, t), Asking(t), FindHead(t)
    PROVE  Learns(L, t)
<1>1. /\ TypeInv /\ pc[t] \in FindPC /\ next' = next /\ tg'[t].prev = EntryHead
      /\ 0 < call[t].key
  BY AskedKey DEF Known, FindHead, FindPC, shared, TypeInv, TypeOK
<1>2. EntryHead \in Cells(L) /\ KeyOf(EntryHead) < call[t].key
  BY <1>1 DEF Cells, KeyOf
<1>3. CASE next[EntryHead].idx = End /\ FindReturns(t, FALSE)
  BY <1>1, <1>2, <1>3, ReturnsTo DEF Learns
<1>4. CASE Goto(t, "fnext")
  BY <1>1, <1>2, <1>4 DEF Learns, Goto, TypeInv, TypeOK
<1> QED
  BY <1>3, <1>4 DEF FindHead

LEMMA FindNextLearns ==
    ASSUME NEW L \in SUBSET Slot, NEW t \in Thread, Known(L), CallAt(L, t), Asking(t), FindNext(t)
    PROVE  Learns(L, t)
<1> DEFINE c == tg[t].cur.idx
           w == next[c]
           k == kd[c].key = Sought(t)
<1>1. /\ TypeInv /\ pc[t] = "fnext" /\ pc[t] \in FindPC /\ next' = next /\ SeenInv(L, t)
      /\ Sought(t) = call[t].key /\ call[t].key \in Int
  BY AskedKey DEF Known, Content, At, FindNext, FindPC, shared
<1>2. c \in Slot /\ c \in L /\ c \in Cells(L) /\ kd[c].key \in Int /\ KeyOf(c) = kd[c].key
      /\ c # End /\ tg[t] \in Place
  <2>1. c \in Slot /\ tg[t] \in Place
    BY <1>1, FindNextMoves DEF TypeInv, TypeOK, Place
  <2>2. c # End
    BY <2>1, SizeAssumption DEF Slot, End
  <2> QED
    BY <1>1, <2>1, <2>2, Numbers DEF SeenInv, Ends, Cells
<1>3. tg[t].prev \in Cells(L) /\ KeyOf(tg[t].prev) < call[t].key
  BY <1>1 DEF SeenInv, CallAt, WayInv
<1>4. CASE Goto(t, "fhead")
  BY <1>1, <1>4 DEF Learns, Goto, TypeInv, TypeOK
<1>5. CASE tg' = [tg EXCEPT ![t].next = w] /\ Goto(t, "funlink")
  <2>1. tg'[t].prev = tg[t].prev
    BY <1>2, <1>5 DEF TypeInv, TypeOK, Place
  <2>2. pc'[t] = "funlink"
    BY <1>1, <1>5 DEF Goto, TypeInv, TypeOK
  <2> QED
    BY <1>3, <2>1, <2>2 DEF Learns
<1>6. CASE /\ next[tg[t].prev] = tg[t].cur /\ ~w.del /\ StopsAt(kd[c].key, Sought(t))
           /\ tg' = [tg EXCEPT ![t].next = w] /\ FindReturns(t, k)
  <2>1. tg'[t].cur = tg[t].cur
    BY <1>2, <1>6 DEF TypeInv, TypeOK, Place
  <2>2. pc'[t] = my[t].ret /\ my'[t].found = k
    BY <1>1, <1>6, ReturnsTo
  <2>3. CASE k
    <3>1. c \in Live(L) /\ kd[c].key = call[t].key
      BY <1>1, <1>2, <1>6, <2>3 DEF Live
    <3> QED
      BY <2>1, <2>2, <2>3, <3>1 DEF Learns
  <2>4. CASE ~k
    <3>1. call[t].key < kd[c].key
      BY <1>1, <1>2, <1>6, <2>4 DEF StopsAt
    <3>2. next'[tg[t].prev].idx = c
      BY <1>1, <1>6
    <3> QED
      BY <1>3, <2>2, <2>4, <3>1, <3>2 DEF Learns
  <2> QED
    BY <2>3, <2>4
<1>7. CASE /\ ~StopsAt(kd[c].key, Sought(t))
           /\ tg' = [tg EXCEPT ![t] = [prev |-> c, cur |-> w, next |-> w]]
           /\ IF w.idx = End THEN FindReturns(t, FALSE) ELSE UNCHANGED <<pc, my>>
  <2>1. tg'[t].prev = c /\ KeyOf(c) < call[t].key
    BY <1>1, <1>2, <1>7 DEF StopsAt, TypeInv, TypeOK
  <2>2. CASE w.idx = End
    <3>1. pc'[t] = my[t].ret /\ my'[t].found = FALSE
      BY <1>1, <1>7, <2>2, ReturnsTo
    <3> QED
      BY <1>1, <1>2, <2>1, <2>2, <3>1 DEF Learns
  <2>3. CASE w.idx # End
    BY <1>1, <1>2, <1>7, <2>1, <2>3 DEF Learns
  <2> QED
    BY <2>2, <2>3
<1> QED
  BY <1>4, <1>5, <1>6, <1>7 DEF FindNext

LEMMA FindUnlinkLearns ==
    ASSUME NEW L \in SUBSET Slot, NEW t \in Thread, Known(L), CallAt(L, t), Asking(t), FindUnlink(t)
    PROVE  Learns(L, t)
<1>1. TypeInv /\ pc[t] = "funlink" /\ pc[t] \in FindPC /\ SeenInv(L, t)
  BY DEF Known, Content, At, FindUnlink, FindPC
<1>2. tg[t].prev \in Cells(L) /\ KeyOf(tg[t].prev) < call[t].key
  BY <1>1 DEF SeenInv, CallAt, WayInv
<1>3. CASE Goto(t, "fhead")
  BY <1>1, <1>3 DEF Learns, Goto, TypeInv, TypeOK
<1>4. CASE /\ next' = [next EXCEPT ![tg[t].prev] = Bump(tg[t].cur, tg[t].next.idx)]
           /\ tg' = [tg EXCEPT ![t].cur = [tg[t].next EXCEPT !.del = FALSE]]
           /\ IF tg[t].next.idx = End THEN FindReturns(t, FALSE)
                                      ELSE Goto(t, "fnext") /\ UNCHANGED my
  <2>1. tg'[t].prev = tg[t].prev
    <3>1. tg[t] \in Place /\ tg'[t] = [tg[t] EXCEPT !.cur = [tg[t].next EXCEPT !.del = FALSE]]
      BY <1>4 DEF TypeInv, TypeOK, Place, Known
    <3> QED
      BY <3>1 DEF Place
  <2>2. next'[tg[t].prev].idx = tg[t].next.idx
    <3>1. tg[t].prev \in Cell /\ tg[t].cur \in Word /\ tg[t].next \in Word
      BY <1>1, PlaceTypes
    <3>2. Bump(tg[t].cur, tg[t].next.idx).idx = tg[t].next.idx
      BY <3>1 DEF Bump, Word
    <3> QED
      BY <1>1, <1>4, <3>1, <3>2 DEF TypeInv, TypeOK
  <2>3. CASE tg[t].next.idx = End
    <3>1. pc'[t] = my[t].ret /\ my'[t].found = FALSE
      BY <1>1, <1>4, <2>3, ReturnsTo
    <3> QED
      BY <1>2, <2>2, <2>3, <3>1 DEF Learns
  <2>4. CASE tg[t].next.idx # End
    <3>1. pc'[t] = "fnext"
      BY <1>1, <1>4, <2>4 DEF Goto, TypeInv, TypeOK
    <3> QED
      BY <1>2, <2>1, <3>1 DEF Learns
  <2> QED
    BY <2>3, <2>4
<1> QED
  BY <1>3, <1>4 DEF FindUnlink

\* what find says was so at the moment it said it
LEMMA FindTells ==
    ASSUME NEW L \in SUBSET Slot, NEW t \in Thread, Known(L), TypeInv', CallAt(L, t), Asking(t),
           Follows(L, L, t), FindStep(t), Learns(L, t), pc'[t] \notin FindPC
    PROVE  /\ my'[t].found <=> call[t].key \in content
           /\ pc'[t] = "cfound" => (EntryIsThere(t)' <=> my[t].own \in Live(L))
<1>1. /\ TypeInv /\ ListInv(L)' /\ UNCHANGED <<kd, content>> /\ my'[t].own = my[t].own
      /\ call[t].key \in Int /\ pc'[t] = my[t].ret
  <2>1. my'[t].own = my[t].own
    BY FindMy DEF FindStep, FindHead, FindNext, FindUnlink, FindPC, Known
  <2> QED
    BY <2>1, FindKeeps, AskedKey DEF Follows, Content, Known
<1>2. Live(L)' = Live(L) /\ content = KeysIn(Live(L)) /\ Apart(L)
  BY <1>1, QuietLive DEF Known, Content, ListInv, Holds
<1>3. pc'[t] = "cfound" => my[t].own # End /\ kd[my[t].own].key = call[t].key
  BY <1>1 DEF CallAt, KindInv, Checking, Asking, TypeInv, ThreadInv, OwnInv
<1>4. CASE my'[t].found = FALSE
  <2>1. PICK p \in Cells(L) : /\ KeyOf(p) < call[t].key
                              /\ next'[p].idx # End => call[t].key < kd[next'[p].idx].key
    BY <1>1, <1>4 DEF Learns, FindPC
  <2>2. ASSUME NEW x \in Live(L), kd[x].key = call[t].key PROVE FALSE
    <3>1. KeyOf(p)' = KeyOf(p)
      BY <1>1 DEF KeyOf
    <3> QED
      BY <1>1, <1>2, <2>1, <2>2, <3>1, NotThere
  <2> QED
    BY <1>2, <1>3, <1>4, <2>2 DEF KeysIn, EntryIsThere
<1>5. CASE my'[t].found = TRUE
  <2>1. PICK c \in Live(L) : c = tg'[t].cur.idx /\ kd[c].key = call[t].key
    BY <1>1, <1>5 DEF Learns, FindPC
  <2>2. call[t].key \in content
    BY <1>2, <2>1 DEF KeysIn
  <2>3. EntryIsThere(t)' <=> c = my[t].own
    BY <1>1, <1>5, <2>1 DEF EntryIsThere
  <2>4. my[t].own \in Live(L) /\ kd[my[t].own].key = call[t].key => c = my[t].own
    BY <1>2, <2>1 DEF Apart
  <2> QED
    BY <1>3, <1>5, <2>1, <2>2, <2>3, <2>4
<1> QED
  BY <1>1, <1>4, <1>5 DEF Learns, FindPC

LEMMA FindLearns ==
    ASSUME NEW L \in SUBSET Slot, NEW t \in Thread, Known(L), CallAt(L, t), Asking(t), FindStep(t)
    PROVE  Learns(L, t)
BY FindHeadLearns, FindNextLearns, FindUnlinkLearns DEF FindStep

LEMMA FindCalls ==
    ASSUME NEW L \in SUBSET Slot, NEW t \in Thread, Known(L), CallsInv(L), TypeInv', OrderInv',
           InsertsBelow, FrozenStay, FreezeOrder', FindStep(t)
    PROVE  Linearized(L, t)
<1>1. Follows(L, L, t)
  BY FindHeadFollows, FindNextFollows, FindUnlinkFollows DEF FindStep
<1>2. /\ TypeInv /\ CallAt(L, t) /\ pc[t] \in FindPC /\ my[t].ret \in Return
      /\ pc'[t] \in FindPC \/ pc'[t] = my[t].ret
      /\ my'[t].ret = my[t].ret /\ my'[t].trig = my[t].trig /\ my'[t].own = my[t].own
      /\ UNCHANGED <<kd, content, call, settled>>
  <2>1. my'[t].own = my[t].own /\ call' = call
    BY FindMy DEF FindStep, FindHead, FindNext, FindUnlink, FindPC, Known, history
  <2> QED
    BY <2>1, FindKeeps DEF Known, CallsInv
<1>3. Live(L)' = Live(L) /\ my'[t].found \in BOOLEAN
  BY <1>1, <1>2, QuietLive DEF TypeInv, TypeOK, Local
<1>4. pc[t] \notin {"idle", "inc", "cnext", "ckey"}
      /\ pc'[t] \notin {"idle", "inc", "chelp", "slave", "decide", "recover", "cnext", "ckey", "dunlink"}
  BY <1>2 DEF FindPC, Return
<1>5. /\ Searching(t)' <=> Searching(t)
      /\ Removing(t)' => Removing(t)
      /\ Removed(t)' <=> Removed(t)
      /\ Checking(t)' <=> Checking(t)
      /\ Inserting(t)' <=> Inserting(t)
  BY <1>2 DEF Searching, Removing, Deleting, Removed, Checking, Inserting, FindPC, Return
<1>6. KindInv(t)'
  BY <1>2, <1>4, <1>5 DEF CallAt, KindInv
<1>7. /\ Existed(t)' => Existed(t)
      /\ Stuck(t)' => Stuck(t)
      /\ Asking(t)' => Asking(t)
      /\ Told(t)' => Asking(t) /\ pc'[t] \notin FindPC
  BY <1>2, <1>4, <1>5 DEF Existed, Stuck, Asking, Told, FindPC, Return
<1>8. Told(t)' => my'[t].found \in call[t].seen
  <2>1. (call[t].key \in content) \in call[t].seen
    BY <1>2, <1>4 DEF CallAt, HistoryInv
  <2>2. Told(t)' => (my'[t].found <=> call[t].key \in content)
    BY <1>1, <1>2, <1>7, FindLearns, FindTells
  <2> QED
    BY <1>3, <2>1, <2>2
<1>9. WayInv(L, t)'
  <2>1. ASSUME Asking(t)', pc'[t] # "fhead" PROVE KeyOf(tg[t].prev)' < call'[t].key
    <3>1. Asking(t) /\ Learns(L, t) /\ pc'[t] \in {"fnext", "funlink"}
      BY <1>2, <1>7, <2>1, FindLearns DEF Asking, FindPC
    <3>2. PICK p \in Cells(L) : p = tg'[t].prev /\ KeyOf(p) < call[t].key
      BY <1>2, <3>1 DEF Learns, Return
    <3>3. KeyOf(tg[t].prev)' = KeyOf(p)
      BY <1>2, <3>2 DEF KeyOf
    <3> QED
      BY <1>2, <3>2, <3>3
  <2>2. Stuck(t)' => next'[my'[t].own].frz
    BY <1>2, <1>7, OwnFrozen DEF CallAt, WayInv, Stuck, Existed
  <2>3. Checking(t)' => settled'
    BY <1>2, <1>5 DEF CallAt, WayInv
  <2>4. pc'[t] = "cfound" => (EntryIsThere(t)' <=> my[t].own \in Live(L))
    <3>1. pc'[t] = "cfound" => Asking(t) /\ pc'[t] \notin FindPC
      BY <1>2 DEF Asking, FindPC
    <3> QED
      BY <1>1, <1>2, <3>1, FindLearns, FindTells
  <2> QED
    BY <1>2, <1>3, <2>1, <2>2, <2>3, <2>4 DEF WayInv
<1>10. CallAt(L, t)'
  <2>1. Existed(t)' => TRUE \in call[t].seen
    BY <1>2, <1>7 DEF CallAt, HistoryInv
  <2> QED
    BY <1>2, <1>3, <1>4, <1>5, <1>6, <1>8, <1>9, <2>1, MovesCall
<1> QED
  BY <1>1, <1>2, <1>10, QuietCalls DEF Linearized, KeepsOwn


(***************************************************************************)
(* Every step, together with the list and the freeze.                      *)
(***************************************************************************)
LEMMA StepCalls ==
    ASSUME NEW L \in SUBSET Slot, NEW t \in Thread, Known(L), Stable(L), CallsInv(L), DecideInv,
           TypeInv', PrivacyInv', OrderInv', InsertsBelow, Invoke(t) \/ Step(t)
    PROVE  Linearized(L, t)
<1>1. TypeInv /\ FreezeOrder
  BY DEF Known, CallsInv
<1>2. FrozenStay /\ FreezeOrder'
  BY <1>1, StepStays
<1>3. CASE FindStep(t)
  BY <1>2, <1>3, FindCalls
<1>4. CASE SearchFound(t)
  BY <1>2, <1>4, SearchFoundCalls
<1>5. CASE InsertStep(t)
  BY <1>2, <1>5, AllocateCalls, InsertFromCalls, InsertFoundCalls, InsertLinkCalls,
     InsertCountCalls DEF InsertStep
<1>6. CASE ClearStep(t)
  BY <1>2, <1>6, ClearNextCalls, ClearKeyCalls, ClearHelpCalls, ClearFoundCalls DEF ClearStep
<1>7. CASE DeleteStep(t)
  BY <1>2, <1>7, DeleteCountCalls, DeleteFoundCalls, DeleteMarkCalls, DeleteUndoCalls,
     DeleteUnlinkCalls, DeleteFixedCalls DEF DeleteStep
<1>8. CASE FreezeStep(t) \/ StabilizeStep(t)
  <2>1. FreezeInside(t) \/ Enslave(t) \/ Recover(t)
    BY <1>8 DEF FreezeStep, FreezeInside
  <2> QED
    BY <1>2, <2>1, FreezeCalls, EnslaveCalls, RecoverCalls
<1>9. CASE Invoke(t)
  BY <1>2, <1>9, InvokeCalls
<1> QED
  BY <1>3, <1>4, <1>5, <1>6, <1>7, <1>8, <1>9 DEF Step

Linearizing == \E L \in SUBSET Slot : Content(L) /\ Stable(L) /\ CallsInv(L)

\* no thread takes a step, and no call changes
LEMMA StillCalls ==
    ASSUME NEW L \in SUBSET Slot, CallsInv(L), PartnerResolves \/ AllDone \/ UNCHANGED vars
    PROVE  CallsInv(L)' /\ Promised
<1>1. UNCHANGED <<next, kd, pc, tg, my, content, call, settled>>
  BY DEF PartnerResolves, AllDone, vars, history
<1>2. FreezeOrder' /\ Owned(L)'
  BY <1>1 DEF CallsInv, FreezeOrder, Owned
<1>3. ASSUME NEW t \in Thread PROVE CallAt(L, t)'
  <2>1. CallAt(L, t) /\ Live(L)' = Live(L) /\ \A c : KeyOf(c)' = KeyOf(c)
    BY <1>1 DEF CallsInv, Live, KeyOf
  <2>2. /\ Asking(t)' <=> Asking(t)
        /\ Told(t)' <=> Told(t)
        /\ Searching(t)' <=> Searching(t)
        /\ Removed(t)' <=> Removed(t)
        /\ Removing(t)' <=> Removing(t)
        /\ Checking(t)' <=> Checking(t)
        /\ Existed(t)' <=> Existed(t)
        /\ Stuck(t)' <=> Stuck(t)
        /\ pc[t] = "cfound" => (EntryIsThere(t)' <=> EntryIsThere(t))
    BY <1>1 DEF Asking, Told, Searching, Removed, Removing, Deleting, Checking, Existed, Stuck,
       Inserting, EntryIsThere
  <2>3. KindInv(t)' /\ EffectInv(L, t)' /\ HistoryInv(t)'
    BY <1>1, <2>1, <2>2 DEF CallAt, KindInv, EffectInv, HistoryInv
  <2>4. WayInv(L, t)'
    <3>1. KeyOf(tg[t].prev)' = KeyOf(tg[t].prev)
      BY <1>1 DEF KeyOf
    <3> QED
      BY <1>1, <2>1, <2>2, <3>1 DEF CallAt, WayInv
  <2> QED
    BY <2>3, <2>4 DEF CallAt
<1> QED
  BY <1>1, <1>2, <1>3 DEF CallsInv, Promised

LEMMA NextCalls ==
    ASSUME InsertsBelow, TypeInv, PrivacyInv, OrderInv, CountInv, Linearizing, DecideInv,
           TypeInv', PrivacyInv', OrderInv', [Next]_vars
    PROVE  Linearizing' /\ DecideInv' /\ Promised
<1>1. PICK L \in SUBSET Slot : Content(L) /\ Stable(L) /\ CallsInv(L) /\ Known(L)
  BY DEF Linearizing, Known
<1>2. ASSUME NEW t \in Thread, Invoke(t) \/ Step(t)
      PROVE  Linearizing' /\ DecideInv' /\ Promised
  <2>1. Linearized(L, t)
    BY <1>1, <1>2, StepCalls
  <2>2. PICK M \in SUBSET Slot : Follows(L, M, t) /\ CallsInv(M)' /\ Promised
    BY <2>1 DEF Linearized
  <2>3. Steady(M, t)
    BY <1>1, <1>2, <2>2, StepSteady
  <2>4. Stable(M)' /\ DecideInv'
    BY <1>1, <2>2, <2>3, SteadyKeeps
  <2>5. Content(M)'
    BY <2>2 DEF Follows
  <2> QED
    BY <2>2, <2>4, <2>5 DEF Linearizing
<1>3. CASE PartnerResolves \/ AllDone \/ UNCHANGED vars
  <2>1. Content(L)' /\ Stable(L)' /\ DecideInv'
    BY <1>1, <1>3, StillSettling
  <2>2. CallsInv(L)' /\ Promised
    BY <1>1, <1>3, StillCalls
  <2> QED
    BY <2>1, <2>2 DEF Linearizing
<1> QED
  BY <1>2, <1>3 DEF Next

LEMMA InitCalls == Init => Linearizing /\ DecideInv /\ Promise!Init
<1> SUFFICES ASSUME Init PROVE Linearizing /\ DecideInv /\ Promise!Init
  OBVIOUS
<1>1. PICK L \in SUBSET Slot : Content(L) /\ Stable(L)
  BY InitSettles DEF Settling
<1>2. Owned(L)
  <2>1. PICK n \in 0 .. MaxEntries :
              /\ \A s \in Slot : s < n => /\ kd[s].key \in Key /\ kd[s].key # NoKey
                                          /\ s + 1 \in 1 .. n /\ kd[s].key = InitList[s + 1]
              /\ \A s \in Slot : ~(s < n) => kd[s].key = NoKey
              /\ \A r, s \in Slot : r < s /\ s < n => kd[r].key < kd[s].key
              /\ content = {InitList[i] : i \in 1 .. n}
    BY InitWords
  <2> SUFFICES ASSUME NEW s \in Slot, kd[s].key # NoKey PROVE s \in L
    BY DEF Owned
  <2>2. s < n /\ kd[s].key \in content
    BY <2>1
  <2>3. PICK r \in L : kd[r].key = kd[s].key
    BY <1>1, <2>2 DEF Content, ListInv, Holds, KeysIn, Live
  <2>4. r \in Slot /\ r \in Int /\ s \in Int /\ r < n /\ kd[r].key \in Int
    BY <2>1, <2>2, <2>3, SizeAssumption DEF Slot, Key
  <2>5. ~(r < s) /\ ~(s < r)
    BY <2>1, <2>2, <2>3, <2>4
  <2> QED
    BY <2>3, <2>4, <2>5
<1>3. FreezeOrder
  BY DEF Init, FreezeOrder
<1>4. ASSUME NEW t \in Thread PROVE CallAt(L, t)
  <2>1. pc[t] = "idle" /\ call[t].kind = "idle" /\ my[t] = Fresh
    BY DEF Init
  <2>2. my[t].own = End /\ my[t].trig = "-"
    BY <2>1 DEF Fresh
  <2> QED
    BY <2>1, <2>2 DEF CallAt, KindInv, EffectInv, HistoryInv, WayInv, Asking, Told, Searching,
       Removed, Removing, Deleting, Checking, Existed, Stuck, Inserting, FindPC
<1>5. Promise!Init
  <2>1. content \in SUBSET Key
    <3>1. \A i \in 1 .. Len(InitList) : InitList[i] \in Key
      BY InitListAssumption
    <3> QED
      BY <3>1 DEF Init, InitKeys
  <2>2. 1 \in Key
    BY SizeAssumption DEF Key
  <2> QED
    BY <2>1, <2>2 DEF Init, Promise!Init
<1> QED
  BY <1>1, <1>2, <1>3, <1>4, <1>5, InitSettles DEF Linearizing, CallsInv

(***************************************************************************)
(* The calls, in every state: each has taken effect as far as its thread   *)
(* and the list tell, and knows only what was so while it was running.     *)
(***************************************************************************)
THEOREM CallsInvariant ==
    ASSUME InsertsBelow
    PROVE  Spec => [](TypeInv /\ PrivacyInv /\ OrderInv /\ CountInv /\ Linearizing /\ DecideInv)
<1>1. Linearizing /\ DecideInv /\ CountInv /\ TypeInv /\ PrivacyInv /\ OrderInv
        /\ TypeInv' /\ PrivacyInv' /\ OrderInv' /\ [Next]_vars => Linearizing' /\ DecideInv'
  BY NextCalls
<1> QED
  BY InitCalls, CounterInvariant, <1>1, PTL DEF Spec

(***************************************************************************)
(* searchInChunk, insertToChunk, deleteInChunk and enslave are             *)
(* linearizable: the chunk implements the set of ChunkSet.  Every insert   *)
(* and delete that answers TRUE has changed the set in one step of its     *)
(* own or of a helper, once; every other answer was right at some moment   *)
(* of its call; and a call that a freeze sends away has changed nothing.   *)
(* For every value of the constants with which no key is inserted that is  *)
(* larger than one deleted.                                                *)
(***************************************************************************)
THEOREM CallsLinearizable ==
    ASSUME InsertsBelow PROVE Spec => ImplementsSet
<1>1. Init => Promise!Init
  BY InitCalls
<1>2. (/\ TypeInv /\ PrivacyInv /\ OrderInv /\ CountInv /\ Linearizing /\ DecideInv
       /\ TypeInv' /\ PrivacyInv' /\ OrderInv' /\ [Next]_vars)
      => [Promise!Next]_<<content, call>>
  BY NextCalls DEF Promised
<1> QED
  BY <1>1, <1>2, CallsInvariant, PTL DEF Spec, ImplementsSet, Promise!Spec
====
