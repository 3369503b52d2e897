--------------------------- MODULE ChunkListProofs ---------------------------
(***************************************************************************)
(* Theorems about ChunkList, for any number of threads, any size of the    *)
(* chunk and any calls: its types, the privacy of entries that are not     *)
(* linked, and the order of the list.                                      *)
(***************************************************************************)
EXTENDS ChunkList, TLAPS

(***************************************************************************)
(* Where a thread is: in insertEntry, in stabilizeChunk, and there at an   *)
(* entry it has chosen.                                                    *)
(***************************************************************************)
Inserting(t) ==
    \/ pc[t] \in {"ifrom", "ifound", "link"}
    \/ pc[t] \in FindPC /\ my[t].ret = "ifound"

Choosing(t) ==
    \/ pc[t] = "slotfound"
    \/ pc[t] \in FindPC /\ my[t].ret = "slotfound"
    \/ Inserting(t) /\ my[t].trig # "-"

Stabilizing(t) ==
    \/ pc[t] = "slot"
    \/ pc[t] \in FindPC /\ my[t].ret = "slot"
    \/ Choosing(t)

AllFrozen == \A c \in Cell : next[c].frz /\ KeyFrozen(c)

(***************************************************************************)
(* What each thread may rely on.  It holds an entry only during an insert, *)
(* and the entry has the key of the call; in stabilizeChunk every word is  *)
(* frozen and the entry at hand is allocated; where an entry found by find *)
(* is used, there is one.                                                  *)
(***************************************************************************)
IdleInv(t)  == pc[t] = "idle" => my[t] = Fresh
FindInv(t)  == /\ pc[t] \in FindPC => my[t].ret # "-"
               /\ pc[t] \in {"fnext", "funlink", "dmark"} => tg[t].cur.idx # End
               /\ pc[t] = "dfound" /\ my[t].found => tg[t].cur.idx # End
OwnInv(t)   == /\ my[t].own # End => call[t].kind = "insert" /\ kd[my[t].own].key = call[t].key
               /\ pc[t] = "alloc" => /\ my[t].own = End /\ my[t].trig = "-"
                                     /\ call[t].kind = "insert"
               /\ Inserting(t) /\ my[t].trig = "-" => my[t].own # End
               /\ pc[t] \in {"cnext", "ckey"} => my[t].own # End
StableInv(t) == /\ pc[t] \in {"frz", "switch", "mark"} \/ Stabilizing(t) => my[t].trig # "-"
                /\ Stabilizing(t) => AllFrozen
                /\ Choosing(t) => my[t].scan # End /\ kd[my[t].scan].key # NoKey

ThreadInv(t) == IdleInv(t) /\ FindInv(t) /\ OwnInv(t) /\ StableInv(t)

\* no entry is allocated to two inserts
OwnDistinct == \A t, u \in Thread : t # u /\ my[t].own = my[u].own => my[t].own = End

TypeInv == TypeOK /\ (\A t \in Thread : ThreadInv(t)) /\ OwnDistinct
-----------------------------------------------------------------------------
(***************************************************************************)
(* A step of one thread leaves another thread what it relies on, as long   *)
(* as the entries that thread uses keep their keys and words that are      *)
(* frozen stay frozen.                                                     *)
(***************************************************************************)
LEMMA OtherThread ==
    ASSUME NEW u \in Thread, TypeOK, ThreadInv(u),
           pc'[u] = pc[u], my'[u] = my[u], tg'[u] = tg[u],
           call'[u].kind = call[u].kind, call'[u].key = call[u].key,
           my[u].own # End => kd'[my[u].own].key = kd[my[u].own].key,
           AllFrozen => AllFrozen',
           AllFrozen /\ my[u].scan # End => kd'[my[u].scan].key = kd[my[u].scan].key
    PROVE  ThreadInv(u)'
<1>1. Inserting(u)' = Inserting(u) /\ Choosing(u)' = Choosing(u) /\ Stabilizing(u)' = Stabilizing(u)
  BY Zenon DEF Inserting, Choosing, Stabilizing
<1>2. IdleInv(u)' /\ FindInv(u)'
  BY DEF ThreadInv, IdleInv, FindInv
<1>3. OwnInv(u)'
  BY <1>1 DEF ThreadInv, OwnInv
<1>4. StableInv(u)'
  BY <1>1 DEF ThreadInv, StableInv, Choosing, Stabilizing
<1> QED BY <1>2, <1>3, <1>4 DEF ThreadInv
-----------------------------------------------------------------------------
LEMMA InitTypeInv == Init => TypeInv
<1> SUFFICES ASSUME Init PROVE TypeInv
  OBVIOUS
<1> USE SizeAssumption, InitListAssumption, WorkAssumption
<1>1. TypeOK
  <2>1. next \in [Cell -> Word]
    BY DEF Init, Cell, Word, Slot, EntryHead, End
  <2>2a. kd \in [Slot -> KeyWord]
    <3>1. ASSUME NEW s \in Slot, s < Len(InitList) PROVE InitList[s + 1] \in 1 .. NoKey
      <4>1. s + 1 \in 1 .. Len(InitList)
        BY <3>1 DEF Slot
      <4>2. InitList[s + 1] \in Key
        BY <4>1
      <4> QED BY <4>2 DEF Key, NoKey
    <3>2. NoKey \in 1 .. NoKey
      BY DEF NoKey
    <3> QED BY <3>1, <3>2 DEF Init, KeyWord
  <2>2. counter \in Int /\ fstate \in State /\ settled \in BOOLEAN
    <3>1. Len(InitList) \in Int
      BY Z3
    <3> QED BY <3>1 DEF Init, State
  <2>2b. content \subseteq Key
    BY DEF Init, InitKeys
  <2>3. pc \in [Thread -> Label] /\ todo \in [Thread -> 0 .. MaxCalls]
    BY DEF Init, Label, RestPC
  <2>4. NoWord \in Word /\ NoPlace \in [prev : Cell, cur : Word, next : Word] /\ Fresh \in Local
    BY DEF NoWord, Word, NoPlace, Fresh, Local, End, Cell, EntryHead
  <2>5. tg \in [Thread -> [prev : Cell, cur : Word, next : Word]] /\ my \in [Thread -> Local]
    BY <2>4 DEF Init
  <2>6. call \in [Thread -> [kind : Kind \cup {"idle"}, key : Key, eff : BOOLEAN,
                              seen : SUBSET BOOLEAN, res : Answer]]
    BY DEF Init, Key, Answer
  <2> QED BY <2>1, <2>2a, <2>2, <2>2b, <2>3, <2>5, <2>6 DEF TypeOK
<1>2. ASSUME NEW t \in Thread PROVE ThreadInv(t)
  BY DEF Init, ThreadInv, IdleInv, FindInv, OwnInv, StableInv, Inserting, Choosing,
         Stabilizing, FindPC, Fresh
<1>3. OwnDistinct
  BY DEF Init, OwnDistinct, Fresh
<1> QED BY <1>1, <1>2, <1>3 DEF TypeInv
-----------------------------------------------------------------------------
(***************************************************************************)
(* The invariant after a step of t that leaves all keys as they are: what  *)
(* remains to be shown is the types and what t itself relies on.           *)
(***************************************************************************)
OthersSame(t) ==
    \A u \in Thread \ {t} :
        /\ pc'[u] = pc[u] /\ my'[u] = my[u] /\ tg'[u] = tg[u]
        /\ call'[u].kind = call[u].kind /\ call'[u].key = call[u].key

KeysSame == \A s \in Slot : kd'[s].key = kd[s].key

LEMMA StepKeeps ==
    ASSUME NEW t \in Thread, TypeInv, TypeOK', ThreadInv(t)', OthersSame(t), KeysSame,
           AllFrozen => AllFrozen',
           my'[t].own = my[t].own \/ my'[t].own = End
    PROVE  TypeInv'
<1>1. ASSUME NEW u \in Thread, u # t PROVE ThreadInv(u)'
  <2>1. /\ my[u].own # End => my[u].own \in Slot
        /\ my[u].scan # End => my[u].scan \in Slot
    BY <1>1, SizeAssumption DEF TypeInv, TypeOK, Local, Slot, End
  <2> QED BY <1>1, <2>1, OtherThread DEF TypeInv, OthersSame, KeysSame
<1>2. OwnDistinct'
  BY DEF TypeInv, OwnDistinct, OthersSame
<1> QED BY <1>1, <1>2 DEF TypeInv

\* a word redirected keeps its frozen bit
LEMMA FrozenKept ==
    ASSUME TypeOK, NEW c \in Cell, NEW w \in Word, w.frz = next[c].frz,
           next' = [next EXCEPT ![c] = w], kd' = kd
    PROVE  AllFrozen => AllFrozen'
BY DEF TypeOK, AllFrozen, KeyFrozen

LEMMA NothingFrozen ==
    ASSUME next' = next, kd' = kd
    PROVE  (AllFrozen => AllFrozen') /\ KeysSame
BY DEF AllFrozen, KeyFrozen, KeysSame

LEMMA BumpType ==
    ASSUME NEW w \in Word, NEW i \in 0 .. MaxEntries
    PROVE  Bump(w, i) \in Word /\ Bump(w, i).frz = w.frz /\ Bump(w, i).idx = i
<1>1. w.ver + 1 \in Nat
  BY DEF Word
<1> QED BY <1>1 DEF Bump, Word

\* what find leaves in the local variables
LEMMA FindReturnsEffect ==
    ASSUME TypeOK, NEW t \in Thread, NEW b \in BOOLEAN, FindReturns(t, b)
    PROVE  /\ pc' = [pc EXCEPT ![t] = my[t].ret]
           /\ my' \in [Thread -> Local]
           /\ \A u \in Thread \ {t} : my'[u] = my[u]
           /\ my'[t].ret = my[t].ret /\ my'[t].own = my[t].own /\ my'[t].scan = my[t].scan
           /\ my'[t].trig = my[t].trig /\ my'[t].found = b
<1>1. my[t] \in Local
  BY DEF TypeOK
<1>2. [my[t] EXCEPT !.found = b] \in Local
  BY <1>1 DEF Local
<1>3. my' = [my EXCEPT ![t] = [my[t] EXCEPT !.found = b]]
  BY DEF FindReturns
<1> QED BY <1>1, <1>2, <1>3 DEF FindReturns, Goto, TypeOK, Local

LEMMA Constants ==
    /\ NoWord \in Word /\ EntryHead \in Cell /\ Slot \subseteq Cell
    /\ NoPlace \in [prev : Cell, cur : Word, next : Word] /\ Fresh \in Local
BY SizeAssumption DEF NoWord, Word, End, Cell, NoPlace, Fresh, Local

(***************************************************************************)
(* find moves on, or returns to the step it was called from.               *)
(***************************************************************************)
LEMMA FindMoves ==
    ASSUME NEW t \in Thread, TypeOK, ThreadInv(t), pc[t] \in FindPC,
           pc'[t] \in FindPC \/ pc'[t] = my[t].ret,
           my'[t].ret = my[t].ret, my'[t].own = my[t].own,
           my'[t].trig = my[t].trig, my'[t].scan = my[t].scan,
           call' = call, kd' = kd, AllFrozen => AllFrozen',
           pc'[t] \in {"fnext", "funlink"} => tg'[t].cur.idx # End,
           pc'[t] = "dfound" /\ my'[t].found => tg'[t].cur.idx # End
    PROVE  ThreadInv(t)'
<1>1. my[t].ret \in Return
  BY DEF TypeOK, Local, ThreadInv, FindInv
<1>2. pc'[t] \notin {"idle", "dmark", "alloc", "cnext", "ckey", "ifrom", "link", "frz", "switch", "mark"}
  BY <1>1 DEF Return, FindPC
<1>3. /\ Inserting(t)' = Inserting(t)
      /\ Choosing(t)' = Choosing(t)
      /\ Stabilizing(t)' = Stabilizing(t)
  BY <1>1, <1>2 DEF Inserting, Choosing, Stabilizing, FindPC, Return
<1>4. IdleInv(t)' /\ FindInv(t)'
  BY <1>1, <1>2 DEF IdleInv, FindInv, Return
<1>5. OwnInv(t)'
  BY <1>2, <1>3 DEF ThreadInv, OwnInv
<1>6. StableInv(t)'
  BY <1>2, <1>3 DEF ThreadInv, StableInv
<1> QED BY <1>4, <1>5, <1>6 DEF ThreadInv

Place == [prev : Cell, cur : Word, next : Word]

Rest == <<kd, counter, fstate, todo, content, call, settled>>

\* find takes another step
LEMMA FindGoesOn ==
    ASSUME TypeInv, NEW t \in Thread, pc[t] \in FindPC,
           NEW l \in FindPC, NEW p \in Place, l # "fhead" => p.cur.idx # End,
           pc' = [pc EXCEPT ![t] = l], tg' = [tg EXCEPT ![t] = p], my' = my,
           next' \in [Cell -> Word], AllFrozen => AllFrozen', UNCHANGED Rest
    PROVE  TypeInv'
<1> USE DEF TypeInv, Rest
<1>1. TypeOK'
  BY DEF TypeOK, Place, Label
<1>2. pc'[t] = l /\ tg'[t] = p /\ my'[t] = my[t] /\ kd' = kd /\ call' = call /\ KeysSame
  BY DEF TypeOK, KeysSame
<1>3. OthersSame(t)
  BY <1>2 DEF TypeOK, OthersSame
<1>4. ThreadInv(t)'
  <2>1. l # "dfound" /\ (l \in {"fnext", "funlink"} => p.cur.idx # End)
    BY DEF FindPC
  <2> QED BY <1>2, <2>1, FindMoves
<1> QED BY <1>1, <1>2, <1>3, <1>4, StepKeeps

\* find returns
LEMMA FindComesBack ==
    ASSUME TypeInv, NEW t \in Thread, pc[t] \in FindPC,
           NEW b \in BOOLEAN, FindReturns(t, b), NEW p \in Place, b => p.cur.idx # End,
           tg' = [tg EXCEPT ![t] = p],
           next' \in [Cell -> Word], AllFrozen => AllFrozen', UNCHANGED Rest
    PROVE  TypeInv'
<1> USE DEF TypeInv, Rest
<1>0. my[t].ret \in Label \ FindPC
  BY DEF TypeOK, ThreadInv, FindInv, FindPC, Local, Return, Label, InsertPC, DeletePC, FreezePC
<1>1. /\ pc' = [pc EXCEPT ![t] = my[t].ret]
      /\ my' \in [Thread -> Local]
      /\ \A u \in Thread \ {t} : my'[u] = my[u]
      /\ my'[t].ret = my[t].ret /\ my'[t].own = my[t].own /\ my'[t].scan = my[t].scan
      /\ my'[t].trig = my[t].trig /\ my'[t].found = b
  BY FindReturnsEffect
<1>2. TypeOK'
  BY <1>0, <1>1 DEF TypeOK, Place
<1>3. pc'[t] = my[t].ret /\ tg'[t] = p /\ kd' = kd /\ call' = call /\ KeysSame
  BY <1>1 DEF TypeOK, KeysSame
<1>4. OthersSame(t)
  BY <1>1, <1>3 DEF TypeOK, OthersSame
<1>5. ThreadInv(t)'
  <2>1. pc'[t] \notin {"fnext", "funlink"}
    BY <1>0, <1>3 DEF FindPC
  <2> QED BY <1>1, <1>3, <2>1, FindMoves
<1> QED BY <1>1, <1>2, <1>3, <1>4, <1>5, StepKeeps

LEMMA FindHeadKeeps ==
    ASSUME TypeInv, NEW t \in Thread, FindHead(t) PROVE TypeInv'
<1> DEFINE p == [prev |-> EntryHead, cur |-> next[EntryHead], next |-> NoWord]
<1>1. /\ p \in Place /\ pc[t] \in FindPC /\ tg' = [tg EXCEPT ![t] = p]
      /\ next' \in [Cell -> Word] /\ (AllFrozen => AllFrozen') /\ UNCHANGED Rest
  BY Constants, NothingFrozen DEF TypeInv, TypeOK, FindHead, shared, history, Rest, FindPC, Place
<1>2. CASE next[EntryHead].idx = End
  BY <1>1, <1>2, FindComesBack DEF FindHead
<1>3. CASE next[EntryHead].idx # End
  <2>1. "fnext" \in FindPC /\ p.cur.idx # End /\ my' = my /\ pc' = [pc EXCEPT ![t] = "fnext"]
    BY <1>3 DEF FindHead, Goto, FindPC
  <2> QED BY <1>1, <2>1, FindGoesOn
<1> QED BY <1>2, <1>3

LEMMA FindNextKeeps ==
    ASSUME TypeInv, NEW t \in Thread, FindNext(t) PROVE TypeInv'
<1> DEFINE c == tg[t].cur.idx
           w == next[c]
<1>1. /\ pc[t] = "fnext" /\ pc[t] \in FindPC /\ next' \in [Cell -> Word]
      /\ (AllFrozen => AllFrozen') /\ UNCHANGED Rest
  BY NothingFrozen DEF TypeInv, TypeOK, FindNext, shared, history, Rest, FindPC
<1>2. tg[t] \in Place /\ c # End /\ c \in Cell /\ w \in Word
  BY <1>1, SizeAssumption DEF TypeInv, TypeOK, ThreadInv, FindInv, Word, Slot, Cell, End, Place
<1> DEFINE p == [tg[t] EXCEPT !.next = w]
           q == [prev |-> c, cur |-> w, next |-> w]
<1>3. p \in Place /\ q \in Place /\ p.cur.idx # End /\ q.cur = w
  BY <1>2 DEF Place
<1>4. ASSUME pc' = [pc EXCEPT ![t] = "fhead"], my' = my, tg' = tg PROVE TypeInv'
  <2>1. tg' = [tg EXCEPT ![t] = tg[t]] /\ "fhead" \in FindPC
    BY <1>4 DEF TypeInv, TypeOK, FindPC
  <2> QED BY <1>1, <1>2, <1>4, <2>1, FindGoesOn
<1>5. ASSUME pc' = [pc EXCEPT ![t] = "funlink"], my' = my, tg' = [tg EXCEPT ![t].next = w]
      PROVE  TypeInv'
  <2>1. tg' = [tg EXCEPT ![t] = p] /\ "funlink" \in FindPC
    BY <1>5 DEF FindPC
  <2> QED BY <1>1, <1>3, <1>5, <2>1, FindGoesOn
<1>6. ASSUME NEW b \in BOOLEAN, FindReturns(t, b), tg' = [tg EXCEPT ![t].next = w]
      PROVE  TypeInv'
  <2>1. tg' = [tg EXCEPT ![t] = p]
    BY <1>6
  <2> QED BY <1>1, <1>3, <1>6, <2>1, FindComesBack
<1>7. ASSUME FindReturns(t, FALSE), tg' = [tg EXCEPT ![t] = q] PROVE TypeInv'
  BY <1>1, <1>3, <1>7, FindComesBack
<1>8. ASSUME w.idx # End, pc' = pc, my' = my, tg' = [tg EXCEPT ![t] = q] PROVE TypeInv'
  <2>1. pc' = [pc EXCEPT ![t] = "fnext"] /\ "fnext" \in FindPC
    BY <1>1, <1>8 DEF TypeInv, TypeOK, FindPC
  <2> QED BY <1>1, <1>3, <1>8, <2>1, FindGoesOn
<1>9. (kd[c].key = Sought(t)) \in BOOLEAN
  OBVIOUS
<1> QED BY <1>4, <1>5, <1>6, <1>7, <1>8, <1>9 DEF FindNext, Goto

LEMMA FindUnlinkKeeps ==
    ASSUME TypeInv, NEW t \in Thread, FindUnlink(t) PROVE TypeInv'
<1>1. pc[t] = "funlink" /\ pc[t] \in FindPC /\ UNCHANGED Rest
  BY DEF FindUnlink, history, Rest, FindPC
<1>2. tg[t] \in Place /\ tg[t].cur.idx # End
  BY <1>1 DEF TypeInv, TypeOK, ThreadInv, FindInv, Place
<1>3. CASE next[tg[t].prev] # tg[t].cur
  <2>1. tg' = [tg EXCEPT ![t] = tg[t]] /\ "fhead" \in FindPC /\ my' = my
        /\ pc' = [pc EXCEPT ![t] = "fhead"]
    BY <1>3 DEF TypeInv, TypeOK, FindPC, FindUnlink, Goto
  <2>2. next' \in [Cell -> Word] /\ (AllFrozen => AllFrozen')
    BY <1>1, <1>3, NothingFrozen DEF FindUnlink, TypeInv, TypeOK, Rest
  <2> QED BY <1>1, <1>2, <2>1, <2>2, FindGoesOn
<1>4. CASE next[tg[t].prev] = tg[t].cur
  <2> DEFINE v == Bump(tg[t].cur, tg[t].next.idx)
             x == [tg[t].next EXCEPT !.del = FALSE]
             p == [tg[t] EXCEPT !.cur = x]
  <2>1. v \in Word /\ v.frz = next[tg[t].prev].frz
    BY <1>2, <1>4, BumpType DEF Place, Word
  <2>2. x \in Word /\ x.idx = tg[t].next.idx /\ p \in Place /\ p.cur = x
    BY <1>2 DEF Word, Place
  <2>3. next' = [next EXCEPT ![tg[t].prev] = v] /\ tg' = [tg EXCEPT ![t] = p]
    BY <1>4 DEF FindUnlink
  <2>4. next' \in [Cell -> Word] /\ (AllFrozen => AllFrozen')
    BY <1>1, <1>2, <2>1, <2>3, FrozenKept DEF TypeInv, TypeOK, Rest, Place
  <2>5. CASE tg[t].next.idx = End
    BY <1>1, <1>4, <2>2, <2>3, <2>4, <2>5, FindComesBack DEF FindUnlink
  <2>6. CASE tg[t].next.idx # End
    <3>1. pc' = [pc EXCEPT ![t] = "fnext"] /\ "fnext" \in FindPC /\ my' = my
      BY <1>4, <2>6 DEF FindUnlink, Goto, FindPC
    <3> QED BY <1>1, <2>2, <2>3, <2>4, <2>6, <3>1, FindGoesOn
  <2> QED BY <2>5, <2>6
<1> QED BY <1>3, <1>4
-----------------------------------------------------------------------------
(***************************************************************************)
(* The moves from one step of a call to another.  SharedFine says that the *)
(* step leaves what threads share as the invariant needs it.               *)
(***************************************************************************)
SharedFine ==
    /\ next' \in [Cell -> Word] /\ counter' \in Int /\ fstate' \in State
    /\ kd' = kd /\ (AllFrozen => AllFrozen')

LEMMA SharedSame == ASSUME TypeInv, UNCHANGED shared PROVE SharedFine
BY NothingFrozen DEF shared, SharedFine, TypeInv, TypeOK

LEMMA AnswersKeeps ==
    ASSUME TypeInv, NEW t \in Thread, NEW r \in Answer, Answers(t, r), SharedFine, todo' = todo
    PROVE  TypeInv'
<1> USE DEF TypeInv, Answers, SharedFine, Forget
<1>1. /\ pc' = [pc EXCEPT ![t] = "idle"] /\ my' = [my EXCEPT ![t] = Fresh]
      /\ tg' = [tg EXCEPT ![t] = NoPlace]
  BY DEF Goto
<1>2. TypeOK'
  BY <1>1, Constants DEF TypeOK, Label, RestPC
<1>3. /\ pc'[t] = "idle" /\ my'[t] = Fresh
      /\ \A u \in Thread \ {t} : pc'[u] = pc[u] /\ my'[u] = my[u] /\ tg'[u] = tg[u] /\ call'[u] = call[u]
  BY <1>1 DEF TypeOK
<1>4. ThreadInv(t)'
  BY <1>3 DEF ThreadInv, IdleInv, FindInv, OwnInv, StableInv, Fresh, Inserting, Choosing,
              Stabilizing, FindPC
<1> QED BY <1>2, <1>3, <1>4, StepKeeps DEF OthersSame, KeysSame, Fresh

LEMMA CallFindKeeps ==
    ASSUME TypeInv, NEW t \in Thread, NEW m \in Local, NEW r \in Return, CallFind(t, m, r),
           SharedFine, UNCHANGED <<todo, history>>, m.own = my[t].own,
           r = "ifound" /\ m.trig = "-" => m.own # End,
           r \in {"slot", "slotfound"} => m.trig # "-",
           r \in {"slot", "slotfound"} \/ (r = "ifound" /\ m.trig # "-") => AllFrozen,
           r = "slotfound" \/ (r = "ifound" /\ m.trig # "-")
               => m.scan # End /\ kd[m.scan].key # NoKey
    PROVE  TypeInv'
<1> USE DEF TypeInv, CallFind, SharedFine, Forget, history
<1> DEFINE n == [m EXCEPT !.ret = r, !.found = FALSE]
<1>1. /\ pc' = [pc EXCEPT ![t] = "fhead"] /\ my' = [my EXCEPT ![t] = n]
      /\ tg' = [tg EXCEPT ![t] = NoPlace]
  BY DEF Goto
<1>2. n \in Local /\ n.own = m.own /\ n.trig = m.trig /\ n.scan = m.scan /\ n.ret = r
  BY DEF Local
<1>3. TypeOK'
  BY <1>1, <1>2, Constants DEF TypeOK, Label, FindPC
<1>4. /\ pc'[t] = "fhead" /\ call' = call
      /\ my'[t].own = my[t].own /\ my'[t].trig = m.trig /\ my'[t].scan = m.scan /\ my'[t].ret = r
      /\ \A u \in Thread \ {t} : pc'[u] = pc[u] /\ my'[u] = my[u] /\ tg'[u] = tg[u]
  BY <1>1, <1>2 DEF TypeOK
<1>5. ThreadInv(t)'
  <2>0. r # "-"
    BY DEF Return
  <2>1. IdleInv(t)' /\ FindInv(t)'
    BY <1>2, <1>4, <2>0 DEF IdleInv, FindInv
  <2>2. OwnInv(t)'
    BY <1>2, <1>4 DEF ThreadInv, OwnInv, Inserting, FindPC
  <2>3. StableInv(t)'
    BY <1>2, <1>4 DEF StableInv, Stabilizing, Choosing, Inserting, FindPC
  <2> QED BY <2>1, <2>2, <2>3 DEF ThreadInv
<1> QED BY <1>2, <1>3, <1>4, <1>5, StepKeeps DEF OthersSame, KeysSame

LEMMA CallFreezeKeeps ==
    ASSUME TypeInv, NEW t \in Thread, NEW g \in Trigger, CallFreeze(t, g),
           SharedFine, UNCHANGED <<todo, history>>
    PROVE  TypeInv'
<1> USE DEF TypeInv, CallFreeze, SharedFine, Forget, history
<1> DEFINE n == [Fresh EXCEPT !.own = my[t].own, !.trig = g]
<1>1. /\ pc' = [pc EXCEPT ![t] = "frz"] /\ my' = [my EXCEPT ![t] = n]
      /\ tg' = [tg EXCEPT ![t] = NoPlace]
  BY DEF Goto
<1>2. n \in Local /\ n.own = my[t].own /\ n.trig # "-"
  BY Constants DEF Local, Fresh, Trigger, TypeOK
<1>3. TypeOK'
  BY <1>1, <1>2, Constants DEF TypeOK, Label, FreezePC
<1>4. /\ pc'[t] = "frz" /\ call' = call
      /\ my'[t].own = my[t].own /\ my'[t].trig # "-"
      /\ \A u \in Thread \ {t} : pc'[u] = pc[u] /\ my'[u] = my[u] /\ tg'[u] = tg[u]
  BY <1>1, <1>2 DEF TypeOK
<1>5. ThreadInv(t)'
  <2>1. ~Inserting(t)' /\ ~Choosing(t)' /\ ~Stabilizing(t)'
    BY <1>4 DEF Stabilizing, Choosing, Inserting, FindPC
  <2>2. IdleInv(t)' /\ FindInv(t)'
    BY <1>4 DEF IdleInv, FindInv, FindPC
  <2>3. OwnInv(t)' /\ StableInv(t)'
    BY <1>2, <1>4, <2>1 DEF ThreadInv, OwnInv, StableInv
  <2> QED BY <2>2, <2>3 DEF ThreadInv
<1> QED BY <1>2, <1>3, <1>4, <1>5, StepKeeps DEF OthersSame, KeysSame

CallType == [kind : Kind \cup {"idle"}, key : Key, eff : BOOLEAN,
             seen : SUBSET BOOLEAN, res : Answer]

CallsFine ==
    /\ content' \subseteq Key /\ settled' \in BOOLEAN /\ call' \in [Thread -> CallType]
    /\ \A u \in Thread : call'[u].kind = call[u].kind /\ call'[u].key = call[u].key

LEMMA CallsSame == ASSUME TypeInv, UNCHANGED history PROVE CallsFine
BY DEF history, CallsFine, TypeInv, TypeOK, CallType

LEMMA TakesEffectFine ==
    ASSUME TypeInv, NEW E, NEW C \in SUBSET Key, TakesEffect(E, C) PROVE CallsFine
<1>1. ASSUME NEW u \in Thread
      PROVE  /\ call'[u].kind = call[u].kind /\ call'[u].key = call[u].key
             /\ call'[u] \in CallType
  <2> DEFINE r == [call[u] EXCEPT !.seen = @ \cup {call[u].key \in C}, !.eff = @ \/ u \in E]
  <2>1. call[u] \in CallType
    BY DEF TypeInv, TypeOK, CallType
  <2>2. (call[u].eff \/ u \in E) \in BOOLEAN /\ (call[u].key \in C) \in BOOLEAN
    OBVIOUS
  <2>3. call[u].seen \cup {call[u].key \in C} \in SUBSET BOOLEAN
    BY <2>1, <2>2 DEF CallType
  <2>4. r \in CallType /\ r.kind = call[u].kind /\ r.key = call[u].key
    BY <2>1, <2>2, <2>3 DEF CallType
  <2>5. call'[u] = IF Active(u) THEN r ELSE call[u]
    BY DEF TakesEffect
  <2> QED BY <2>1, <2>4, <2>5
<1>2. call' \in [Thread -> CallType]
  BY <1>1 DEF TakesEffect
<1> QED BY <1>1, <1>2 DEF CallsFine, TakesEffect, TypeInv, TypeOK

(***************************************************************************)
(* A step to l that is neither the end of the call nor a call of find:     *)
(* what ThreadInv asks at l, of the local variables n and the place p.     *)
(***************************************************************************)
ReadyAt(l, n, p) ==
    /\ l = "dmark" => p.cur.idx # End
    /\ l \in {"ifrom", "ifound", "link"} /\ n.trig = "-" => n.own # End
    /\ l \in {"cnext", "ckey"} => n.own # End
    /\ l \in {"frz", "switch", "mark", "slot", "slotfound"} => n.trig # "-"
    /\ l \in {"slot", "slotfound"} \/ (l \in {"ifrom", "ifound", "link"} /\ n.trig # "-")
          => AllFrozen
    /\ l = "slotfound" \/ (l \in {"ifrom", "ifound", "link"} /\ n.trig # "-")
          => n.scan # End /\ kd[n.scan].key # NoKey

LEMMA GotoKeeps ==
    ASSUME TypeInv, NEW t \in Thread, SharedFine, CallsFine, todo' = todo,
           NEW l \in Label \ (FindPC \cup {"idle", "alloc", "dfound"}),
           NEW n \in Local, n.own = my[t].own, NEW p \in Place,
           pc' = [pc EXCEPT ![t] = l], my' = [my EXCEPT ![t] = n], tg' = [tg EXCEPT ![t] = p],
           ReadyAt(l, n, p)
    PROVE  TypeInv'
<1> USE DEF TypeInv, SharedFine, CallsFine
<1>1. TypeOK'
  BY DEF TypeOK, Place, CallType
<1>2. /\ pc'[t] = l /\ my'[t] = n /\ tg'[t] = p /\ KeysSame
      /\ \A u \in Thread \ {t} : pc'[u] = pc[u] /\ my'[u] = my[u] /\ tg'[u] = tg[u]
  BY DEF TypeOK, KeysSame
<1>3. ThreadInv(t)'
  <2>0. l \notin FindPC /\ l # "fnext" /\ l # "funlink"
    BY DEF FindPC
  <2>1. IdleInv(t)' /\ FindInv(t)'
    BY <1>2, <2>0 DEF ReadyAt, IdleInv, FindInv
  <2>2. Inserting(t)' <=> l \in {"ifrom", "ifound", "link"}
    BY <1>2, <2>0 DEF Inserting
  <2>3. Choosing(t)' <=> l = "slotfound" \/ (l \in {"ifrom", "ifound", "link"} /\ n.trig # "-")
    BY <1>2, <2>0, <2>2 DEF Choosing
  <2>4. Stabilizing(t)' <=>
          l \in {"slot", "slotfound"} \/ (l \in {"ifrom", "ifound", "link"} /\ n.trig # "-")
    BY <1>2, <2>0, <2>3 DEF Stabilizing
  <2>5. OwnInv(t)'
    BY <1>2, <2>2 DEF ReadyAt, ThreadInv, OwnInv
  <2>6. StableInv(t)'
    BY <1>2, <2>3, <2>4 DEF ReadyAt, StableInv
  <2> QED BY <2>1, <2>5, <2>6 DEF ThreadInv
<1> QED BY <1>1, <1>2, <1>3, StepKeeps DEF OthersSame

LEMMA GoToSlotKeeps ==
    ASSUME TypeInv, NEW t \in Thread, NEW i \in 0 .. MaxEntries, GoToSlot(t, i),
           Stabilizing(t), SharedFine, CallsFine, todo' = todo
    PROVE  TypeInv'
<1> DEFINE n == [Fresh EXCEPT !.own = my[t].own, !.scan = i, !.trig = my[t].trig, !.dec = my[t].dec]
<1>1. n \in Local /\ n.own = my[t].own /\ n.trig = my[t].trig
  BY Constants DEF Local, Fresh, TypeInv, TypeOK
<1>2. pc' = [pc EXCEPT ![t] = "slot"] /\ my' = [my EXCEPT ![t] = n] /\ tg' = [tg EXCEPT ![t] = NoPlace]
  BY DEF GoToSlot, Goto, Forget
<1>3. my[t].trig # "-" /\ AllFrozen
  BY DEF TypeInv, ThreadInv, StableInv
<1>4. "slot" \in Label \ (FindPC \cup {"idle", "alloc", "dfound"}) /\ NoPlace \in Place
  BY Constants DEF Label, FindPC, FreezePC, Place
<1>5. ReadyAt("slot", n, NoPlace)
  BY <1>1, <1>3 DEF ReadyAt
<1> QED BY <1>1, <1>2, <1>4, <1>5, GotoKeeps

\* the same without a change of the local variables
LEMMA JumpKeeps ==
    ASSUME TypeInv, NEW t \in Thread, SharedFine, CallsFine, UNCHANGED <<todo, my, tg>>,
           NEW l \in Label \ (FindPC \cup {"idle", "alloc", "dfound"}), Goto(t, l),
           ReadyAt(l, my[t], tg[t])
    PROVE  TypeInv'
<1>1. my[t] \in Local /\ tg[t] \in Place
  BY DEF TypeInv, TypeOK, Place
<1>2. /\ pc' = [pc EXCEPT ![t] = l] /\ my' = [my EXCEPT ![t] = my[t]]
      /\ tg' = [tg EXCEPT ![t] = tg[t]] /\ todo' = todo
  BY DEF TypeInv, TypeOK, Goto
<1> QED BY <1>1, <1>2, GotoKeeps

\* an insertEntry has an entry to insert
LEMMA EntryAtHand ==
    ASSUME TypeInv, NEW t \in Thread, Inserting(t)
    PROVE  /\ Ent(t) \in Slot /\ Ent(t) \in Cell
           /\ kd[Ent(t)].key \in Key
           /\ my[t].trig = "-" => my[t].own # End
           /\ my[t].trig # "-" => Choosing(t) /\ Stabilizing(t) /\ AllFrozen
                                  /\ my[t].scan # End /\ kd[my[t].scan].key # NoKey
<1>1. my[t].trig # "-" => Choosing(t) /\ Stabilizing(t) /\ AllFrozen
                          /\ my[t].scan # End /\ kd[my[t].scan].key # NoKey
  BY DEF TypeInv, ThreadInv, StableInv, Choosing, Stabilizing
<1>2. my[t].trig = "-" => my[t].own # End /\ kd[my[t].own].key = call[t].key
  BY DEF TypeInv, ThreadInv, OwnInv
<1>3. Ent(t) \in Slot
  BY <1>1, <1>2, SizeAssumption DEF Ent, Slot, End, TypeInv, TypeOK, Local
<1>4. kd[Ent(t)].key \in 1 .. NoKey /\ call[t].key \in Key
  BY <1>3 DEF TypeInv, TypeOK, KeyWord
<1>5. kd[Ent(t)].key \in Key
  BY <1>1, <1>2, <1>4, SizeAssumption DEF Ent, Key, NoKey
<1> QED BY <1>1, <1>2, <1>3, <1>5, Constants

\* the next entry of the loop of stabilizeChunk
LEMMA NextSlotKeeps ==
    ASSUME TypeInv, NEW t \in Thread, NextSlot(t), Choosing(t), SharedFine, CallsFine, todo' = todo
    PROVE  TypeInv'
<1>0. my[t].scan \in 0 .. MaxEntries /\ my[t].scan # End
  BY DEF TypeInv, TypeOK, Local, ThreadInv, StableInv
<1>1. my[t].scan + 1 \in 0 .. MaxEntries
  BY <1>0, SizeAssumption DEF End
<1>2. Stabilizing(t)
  BY DEF Stabilizing
<1> QED BY <1>1, <1>2, GoToSlotKeeps DEF NextSlot

\* a nextEntry word redirected by a successful compare-and-swap
LEMMA RedirectFine ==
    ASSUME TypeInv, NEW c \in Cell, NEW w \in Word, w.frz = next[c].frz,
           next' = [next EXCEPT ![c] = w], UNCHANGED <<kd, counter, fstate>>
    PROVE  SharedFine
<1>1. AllFrozen => AllFrozen'
  BY FrozenKept DEF TypeInv
<1> QED BY <1>1 DEF SharedFine, TypeInv, TypeOK
-----------------------------------------------------------------------------
(***************************************************************************)
(* One lemma for each action.                                              *)
(***************************************************************************)
LEMMA SearchFoundKeeps ==
    ASSUME TypeInv, NEW t \in Thread, SearchFound(t) PROVE TypeInv'
<1>1. SharedFine /\ todo' = todo
  BY SharedSame DEF SearchFound
<1>2. (IF my[t].found THEN "TRUE" ELSE "FALSE") \in Answer
  BY DEF Answer
<1> QED BY <1>1, <1>2, AnswersKeeps DEF SearchFound

LEMMA AllocateKeeps ==
    ASSUME TypeInv, NEW t \in Thread, Allocate(t) PROVE TypeInv'
<1>0. /\ pc[t] = "alloc" /\ my[t].own = End /\ my[t].trig = "-" /\ call[t].kind = "insert"
      /\ my[t].scan \in 0 .. MaxEntries /\ my[t] \in Local /\ call[t].key \in Key
      /\ UNCHANGED <<next, counter, fstate, todo, history>>
  BY DEF Allocate, TypeInv, TypeOK, ThreadInv, OwnInv, Local
<1>1. CASE CallFreeze(t, "INSERT") /\ UNCHANGED kd
  <2>1. "INSERT" \in Trigger
    BY DEF Trigger
  <2> QED BY <1>0, <1>1, <2>1, SharedSame, CallFreezeKeeps DEF shared
<1> DEFINE s == my[t].scan
<1>2. CASE /\ s < MaxEntries /\ kd[s] = [key |-> NoKey, frz |-> FALSE]
           /\ kd' = [kd EXCEPT ![s].key = call[t].key]
           /\ my' = [my EXCEPT ![t].own = s] /\ Goto(t, "ifrom") /\ UNCHANGED tg
  <2>1. s \in Slot /\ s # End
    BY <1>0, <1>2, SizeAssumption DEF Slot, End
  <2>2. ~AllFrozen
    BY <1>2, <2>1, Constants, SizeAssumption DEF AllFrozen, KeyFrozen, EntryHead, Slot
  <2>3. kd' \in [Slot -> KeyWord] /\ kd'[s].key = call[t].key
        /\ \A r \in Slot : r # s => kd'[r] = kd[r]
    <3>1. [kd[s] EXCEPT !.key = call[t].key] \in KeyWord
      BY <1>0, <2>1, SizeAssumption DEF TypeInv, TypeOK, KeyWord, Key, NoKey
    <3> QED BY <1>2, <2>1, <3>1 DEF TypeInv, TypeOK, KeyWord
  <2> DEFINE n == [my[t] EXCEPT !.own = s]
  <2>4. n \in Local /\ n.own = s /\ n.trig = "-" /\ n.ret = my[t].ret
    BY <1>0 DEF Local
  <2>5. my' = [my EXCEPT ![t] = n] /\ pc' = [pc EXCEPT ![t] = "ifrom"] /\ tg' = tg
    BY <1>2 DEF Goto
  <2>6. my' \in [Thread -> Local] /\ pc' \in [Thread -> Label]
    BY <2>4, <2>5 DEF TypeInv, TypeOK, Label, InsertPC
  <2>7. TypeOK'
    BY <1>0, <2>3, <2>5, <2>6 DEF TypeInv, TypeOK, history
  <2>8. ASSUME NEW u \in Thread, u # t
        PROVE  /\ pc'[u] = pc[u] /\ my'[u] = my[u] /\ tg'[u] = tg[u] /\ call'[u] = call[u]
               /\ my[u].own # s
               /\ my[u].own # End => my[u].own \in Slot
    <3>1. my[u].own # End => my[u].own \in Slot
      BY SizeAssumption DEF TypeInv, TypeOK, Local, Slot, End
    <3>2. my[u].own # End => kd[my[u].own].key = call[u].key
      BY DEF TypeInv, ThreadInv, OwnInv
    <3>3. call[u].key # NoKey
      BY SizeAssumption DEF TypeInv, TypeOK, Key, NoKey
    <3>4. my[u].own # s
      BY <1>2, <2>1, <3>2, <3>3
    <3> QED BY <1>0, <2>5, <2>8, <3>1, <3>4 DEF TypeInv, TypeOK, history
  <2>9. ASSUME NEW u \in Thread, u # t PROVE ThreadInv(u)'
    BY <2>2, <2>3, <2>8, <2>9, OtherThread DEF TypeInv
  <2>10. ThreadInv(t)'
    <3>1. pc'[t] = "ifrom" /\ my'[t] = n /\ call'[t] = call[t]
      BY <1>0, <2>5 DEF TypeInv, TypeOK, history
    <3>2. ~Stabilizing(t)' /\ ~Choosing(t)'
      BY <2>4, <3>1 DEF Stabilizing, Choosing, Inserting, FindPC
    <3>3. IdleInv(t)' /\ FindInv(t)' /\ StableInv(t)'
      BY <3>1, <3>2 DEF IdleInv, FindInv, StableInv, FindPC
    <3>4. OwnInv(t)'
      BY <1>0, <2>1, <2>3, <2>4, <3>1 DEF OwnInv, Inserting
    <3> QED BY <3>3, <3>4 DEF ThreadInv
  <2>11. OwnDistinct'
    <3>1. my'[t].own = s
      BY <2>4, <2>5 DEF TypeInv, TypeOK
    <3>2. ASSUME NEW u \in Thread, u # t PROVE my'[u].own = my[u].own /\ my[u].own # s
      BY <2>8, <3>2
    <3> QED BY <3>1, <3>2 DEF TypeInv, OwnDistinct
  <2> QED BY <2>7, <2>9, <2>10, <2>11 DEF TypeInv
<1>3. CASE /\ s < MaxEntries /\ my' = [my EXCEPT ![t].scan = @ + 1] /\ UNCHANGED <<pc, kd, tg>>
  <2> DEFINE n == [my[t] EXCEPT !.scan = s + 1]
  <2>1. n \in Local /\ n.own = End /\ n.trig = "-"
    BY <1>0, <1>3, SizeAssumption DEF Local
  <2>2. my' = [my EXCEPT ![t] = n]
    BY <1>3
  <2>3. TypeOK'
    BY <1>0, <1>3, <2>1, <2>2 DEF TypeInv, TypeOK, history
  <2>4. /\ my'[t] = n /\ pc'[t] = "alloc" /\ call' = call /\ OthersSame(t)
        /\ KeysSame /\ (AllFrozen => AllFrozen')
    BY <1>0, <1>3, <2>2, NothingFrozen DEF TypeInv, TypeOK, history, OthersSame
  <2>5. ~Stabilizing(t)' /\ ~Choosing(t)' /\ ~Inserting(t)'
    BY <2>4 DEF Stabilizing, Choosing, Inserting, FindPC
  <2>6. ThreadInv(t)'
    BY <1>0, <2>1, <2>4, <2>5 DEF ThreadInv, IdleInv, FindInv, OwnInv, StableInv, FindPC
  <2> QED BY <1>0, <2>1, <2>3, <2>4, <2>6, StepKeeps
<1> QED BY <1>1, <1>2, <1>3 DEF Allocate

LEMMA InsertFromKeeps ==
    ASSUME TypeInv, NEW t \in Thread, InsertFrom(t) PROVE TypeInv'
<1> DEFINE m == [my[t] EXCEPT !.saved = next[Ent(t)]]
<1>1. Inserting(t) /\ CallFind(t, m, "ifound") /\ UNCHANGED <<todo, history>>
  BY DEF InsertFrom, Inserting
<1>2. SharedFine
  BY SharedSame DEF InsertFrom
<1>3. /\ Ent(t) \in Cell /\ (my[t].trig = "-" => my[t].own # End)
      /\ my[t].trig # "-" => AllFrozen /\ my[t].scan # End /\ kd[my[t].scan].key # NoKey
  BY <1>1, EntryAtHand
<1>4. next[Ent(t)] \in Word /\ my[t] \in Local
  BY <1>3 DEF TypeInv, TypeOK
<1>5. /\ m \in Local /\ m.own = my[t].own /\ m.trig = my[t].trig /\ m.scan = my[t].scan
  BY <1>4 DEF Local
<1>6. "ifound" \in Return
  BY DEF Return
<1> QED BY <1>1, <1>2, <1>3, <1>5, <1>6, CallFindKeeps

LEMMA InsertFoundKeeps ==
    ASSUME TypeInv, NEW t \in Thread, InsertFound(t) PROVE TypeInv'
<1> DEFINE e == Ent(t)
<1>1. Inserting(t) /\ UNCHANGED <<kd, counter, fstate, todo>>
  BY DEF InsertFound, Inserting
<1>2. /\ e \in Cell /\ (my[t].trig = "-" => my[t].own # End)
      /\ my[t].trig # "-" => /\ Choosing(t) /\ AllFrozen
                             /\ my[t].scan # End /\ kd[my[t].scan].key # NoKey
  BY <1>1, EntryAtHand
<1>3. UNCHANGED next => SharedFine
  BY <1>1, SharedSame DEF shared
<1>4. UNCHANGED history => CallsFine
  BY CallsSame
<1>5. CASE my[t].trig # "-" /\ NextSlot(t) /\ UNCHANGED <<next, history>>
  BY <1>1, <1>2, <1>3, <1>4, <1>5, NextSlotKeeps
<1>6. CASE Answers(t, "TRUE") /\ UNCHANGED next
  <2>1. "TRUE" \in Answer
    BY DEF Answer
  <2> QED BY <1>1, <1>3, <1>6, <2>1, AnswersKeeps
<1>7. CASE my[t].trig = "-" /\ Goto(t, "cnext") /\ UNCHANGED <<next, tg, my, history>>
  <2>1. ReadyAt("cnext", my[t], tg[t])
    BY <1>2, <1>7 DEF ReadyAt
  <2>2. "cnext" \in Label \ (FindPC \cup {"idle", "alloc", "dfound"})
    BY DEF Label, InsertPC, FindPC
  <2> QED BY <1>1, <1>3, <1>4, <1>7, <2>1, <2>2, JumpKeeps
<1>8. CASE /\ next[e] = my[t].saved /\ next' = [next EXCEPT ![e] = Bump(my[t].saved, Ahead(t))]
           /\ Goto(t, "link") /\ UNCHANGED <<tg, my, history>>
  <2>1. Ahead(t) \in 0 .. MaxEntries /\ my[t].saved \in Word
    BY DEF Ahead, TypeInv, TypeOK, Local, Word
  <2>2. Bump(my[t].saved, Ahead(t)) \in Word /\ Bump(my[t].saved, Ahead(t)).frz = next[e].frz
    BY <1>8, <2>1, BumpType
  <2>3. SharedFine
    BY <1>1, <1>2, <1>8, <2>2, RedirectFine
  <2>4. ReadyAt("link", my[t], tg[t])
    BY <1>2, <1>8 DEF ReadyAt
  <2>5. "link" \in Label \ (FindPC \cup {"idle", "alloc", "dfound"})
    BY DEF Label, InsertPC, FindPC
  <2> QED BY <1>1, <1>4, <1>8, <2>3, <2>4, <2>5, JumpKeeps
<1>9. CASE Goto(t, "ifrom") /\ UNCHANGED <<next, tg, my, history>>
  <2>1. ReadyAt("ifrom", my[t], tg[t])
    BY <1>2 DEF ReadyAt
  <2>2. "ifrom" \in Label \ (FindPC \cup {"idle", "alloc", "dfound"})
    BY DEF Label, InsertPC, FindPC
  <2> QED BY <1>1, <1>3, <1>4, <1>9, <2>1, <2>2, JumpKeeps
<1> QED BY <1>5, <1>6, <1>7, <1>8, <1>9 DEF InsertFound

LEMMA InsertLinkKeeps ==
    ASSUME TypeInv, NEW t \in Thread, InsertLink(t) PROVE TypeInv'
<1> DEFINE e == Ent(t)
<1>1. Inserting(t) /\ UNCHANGED <<kd, counter, fstate, todo>>
  BY DEF InsertLink, Inserting
<1>2. /\ e \in Slot /\ kd[e].key \in Key /\ (my[t].trig = "-" => my[t].own # End)
      /\ my[t].trig # "-" => /\ Choosing(t) /\ AllFrozen
                             /\ my[t].scan # End /\ kd[my[t].scan].key # NoKey
  BY <1>1, EntryAtHand
<1>3. CASE Goto(t, "ifrom") /\ UNCHANGED <<next, tg, my, history>>
  <2>1. ReadyAt("ifrom", my[t], tg[t])
    BY <1>2 DEF ReadyAt
  <2>2. "ifrom" \in Label \ (FindPC \cup {"idle", "alloc", "dfound"})
    BY DEF Label, InsertPC, FindPC
  <2>3. SharedFine /\ CallsFine
    BY <1>1, <1>3, SharedSame, CallsSame DEF shared
  <2> QED BY <1>1, <1>3, <2>1, <2>2, <2>3, JumpKeeps
<1>4. CASE /\ next[tg[t].prev] = tg[t].cur
           /\ next' = [next EXCEPT ![tg[t].prev] = Bump(tg[t].cur, e)]
           /\ TakesEffect(Owners(e), content \cup {kd[e].key})
           /\ IF my[t].trig = "-" THEN Goto(t, "inc") /\ UNCHANGED <<tg, my>>
                                  ELSE NextSlot(t)
  <2>1. e \in 0 .. MaxEntries /\ tg[t].cur \in Word /\ tg[t].prev \in Cell
    BY <1>2, SizeAssumption DEF Slot, TypeInv, TypeOK
  <2>2. Bump(tg[t].cur, e) \in Word /\ Bump(tg[t].cur, e).frz = next[tg[t].prev].frz
    BY <1>4, <2>1, BumpType
  <2>3. SharedFine
    BY <1>1, <1>4, <2>1, <2>2, RedirectFine
  <2>4. content \cup {kd[e].key} \in SUBSET Key
    BY <1>2 DEF TypeInv, TypeOK
  <2>5. CallsFine
    BY <1>4, <2>4, TakesEffectFine
  <2>6. CASE my[t].trig = "-"
    <3>1. "inc" \in Label \ (FindPC \cup {"idle", "alloc", "dfound"})
      BY DEF Label, InsertPC, FindPC
    <3>2. ReadyAt("inc", my[t], tg[t])
      BY DEF ReadyAt
    <3> QED BY <1>1, <1>4, <2>3, <2>5, <2>6, <3>1, <3>2, JumpKeeps
  <2>7. CASE my[t].trig # "-"
    BY <1>1, <1>2, <1>4, <2>3, <2>5, <2>7, NextSlotKeeps
  <2> QED BY <2>6, <2>7
<1> QED BY <1>3, <1>4 DEF InsertLink

LEMMA CounterFine ==
    ASSUME TypeInv, counter' \in Int, UNCHANGED <<next, kd, fstate>> PROVE SharedFine
BY NothingFrozen DEF SharedFine, TypeInv, TypeOK

LEMMA InsertCountKeeps ==
    ASSUME TypeInv, NEW t \in Thread, InsertCount(t) PROVE TypeInv'
<1>1. counter' \in Int /\ UNCHANGED <<next, kd, fstate>> /\ todo' = todo
  BY DEF InsertCount, TypeInv, TypeOK
<1>2. "TRUE" \in Answer
  BY DEF Answer
<1> QED BY <1>1, <1>2, CounterFine, AnswersKeeps DEF InsertCount

LEMMA ClearNextKeeps ==
    ASSUME TypeInv, NEW t \in Thread, ClearNext(t) PROVE TypeInv'
<1>1. /\ UNCHANGED <<kd, counter, fstate, todo, my, tg>> /\ CallsFine /\ pc[t] = "cnext"
  BY CallsSame DEF ClearNext
<1>2. my[t].own \in Cell /\ my[t].own # End
  BY <1>1, SizeAssumption DEF TypeInv, TypeOK, ThreadInv, OwnInv, Local, Cell, Slot, End
<1>3. CASE ~next[my[t].own].frz /\ next' = [next EXCEPT ![my[t].own] = NoWord] /\ Goto(t, "ckey")
  <2>1. NoWord \in Word /\ NoWord.frz = next[my[t].own].frz
    BY <1>2, <1>3, Constants DEF NoWord, TypeInv, TypeOK, Word
  <2>2. SharedFine
    BY <1>1, <1>2, <1>3, <2>1, RedirectFine
  <2>3. "ckey" \in Label \ (FindPC \cup {"idle", "alloc", "dfound"})
    BY DEF Label, InsertPC, FindPC
  <2>4. ReadyAt("ckey", my[t], tg[t])
    BY <1>2 DEF ReadyAt
  <2> QED BY <1>1, <1>3, <2>2, <2>3, <2>4, JumpKeeps
<1>4. CASE Goto(t, "chelp") /\ UNCHANGED next
  <2>1. "chelp" \in Label \ (FindPC \cup {"idle", "alloc", "dfound"})
    BY DEF Label, InsertPC, FindPC
  <2>2. ReadyAt("chelp", my[t], tg[t]) /\ SharedFine
    BY <1>1, <1>4, SharedSame DEF ReadyAt, shared
  <2> QED BY <1>1, <1>4, <2>1, <2>2, JumpKeeps
<1> QED BY <1>3, <1>4 DEF ClearNext

LEMMA ClearKeyKeeps ==
    ASSUME TypeInv, NEW t \in Thread, ClearKey(t) PROVE TypeInv'
<1>1. /\ UNCHANGED <<next, counter, fstate, todo>> /\ pc[t] = "ckey"
  BY DEF ClearKey
<1> DEFINE s == my[t].own
<1>2. s \in Slot /\ s # End /\ s \in Cell /\ s # EntryHead
  BY <1>1, SizeAssumption DEF TypeInv, TypeOK, ThreadInv, OwnInv, Local, Cell, Slot, End, EntryHead
<1>3. CASE Goto(t, "chelp") /\ UNCHANGED <<kd, tg, my, history>>
  <2>1. "chelp" \in Label \ (FindPC \cup {"idle", "alloc", "dfound"})
    BY DEF Label, InsertPC, FindPC
  <2>2. ReadyAt("chelp", my[t], tg[t]) /\ SharedFine /\ CallsFine
    BY <1>1, <1>3, SharedSame, CallsSame DEF ReadyAt, shared
  <2> QED BY <1>1, <1>3, <2>1, <2>2, JumpKeeps
<1>4. CASE ~kd[s].frz /\ kd' = [kd EXCEPT ![s].key = NoKey] /\ Answers(t, "FALSE")
  <2>1. ~AllFrozen
    BY <1>2, <1>4 DEF AllFrozen, KeyFrozen
  <2>2. kd' \in [Slot -> KeyWord] /\ \A r \in Slot : r # s => kd'[r] = kd[r]
    <3>1. [kd[s] EXCEPT !.key = NoKey] \in KeyWord
      BY <1>2, SizeAssumption DEF TypeInv, TypeOK, KeyWord, NoKey
    <3> QED BY <1>2, <1>4, <3>1 DEF TypeInv, TypeOK
  <2>3. /\ pc' = [pc EXCEPT ![t] = "idle"] /\ my' = [my EXCEPT ![t] = Fresh]
        /\ tg' = [tg EXCEPT ![t] = NoPlace] /\ content' = content /\ settled' = settled
    BY <1>4 DEF Answers, Goto, Forget
  <2>4. call' \in [Thread -> CallType] /\ \A u \in Thread \ {t} : call'[u] = call[u]
    BY <1>4 DEF Answers, TypeInv, TypeOK, CallType, Answer
  <2>5. TypeOK'
    BY <1>1, <2>2, <2>3, <2>4, Constants DEF TypeInv, TypeOK, CallType, Label, RestPC
  <2>6. ASSUME NEW u \in Thread, u # t PROVE ThreadInv(u)'
    <3>1. /\ pc'[u] = pc[u] /\ my'[u] = my[u] /\ tg'[u] = tg[u] /\ call'[u] = call[u]
      BY <2>3, <2>4, <2>6 DEF TypeInv, TypeOK
    <3>2. my[u].own # End => my[u].own # s /\ my[u].own \in Slot
      BY <1>2, <2>6, SizeAssumption DEF TypeInv, TypeOK, Local, Slot, End, OwnDistinct
    <3> QED BY <2>1, <2>2, <3>1, <3>2, OtherThread DEF TypeInv
  <2>7. pc'[t] = "idle" /\ my'[t] = Fresh
    BY <2>3 DEF TypeInv, TypeOK
  <2>8. ThreadInv(t)'
    BY <2>7 DEF ThreadInv, IdleInv, FindInv, OwnInv, StableInv, Fresh, Inserting, Choosing,
                Stabilizing, FindPC
  <2>9. OwnDistinct'
    <3>1. my'[t].own = End /\ \A u \in Thread \ {t} : my'[u].own = my[u].own
      BY <2>3 DEF TypeInv, TypeOK, Fresh
    <3> QED BY <3>1 DEF TypeInv, OwnDistinct
  <2> QED BY <2>5, <2>6, <2>8, <2>9 DEF TypeInv
<1> QED BY <1>3, <1>4 DEF ClearKey

LEMMA ClearHelpKeeps ==
    ASSUME TypeInv, NEW t \in Thread, ClearHelp(t) PROVE TypeInv'
<1>1. SharedFine /\ CallsFine /\ UNCHANGED <<todo, history>>
  BY SharedSame, CallsSame DEF ClearHelp
<1>2. CASE Goto(t, "fault") /\ UNCHANGED <<tg, my>>
  <2>1. "fault" \in Label \ (FindPC \cup {"idle", "alloc", "dfound"})
    BY DEF Label, RestPC, FindPC
  <2>2. ReadyAt("fault", my[t], tg[t])
    BY DEF ReadyAt
  <2> QED BY <1>1, <1>2, <2>1, <2>2, JumpKeeps
<1>3. CASE CallFreeze(t, "NONE")
  <2>1. "NONE" \in Trigger
    BY DEF Trigger
  <2> QED BY <1>1, <1>3, <2>1, CallFreezeKeeps
<1> QED BY <1>2, <1>3 DEF ClearHelp

LEMMA ClearFoundKeeps ==
    ASSUME TypeInv, NEW t \in Thread, ClearFound(t) PROVE TypeInv'
<1>1. SharedFine /\ todo' = todo
  BY SharedSame DEF ClearFound
<1>2. (IF EntryIsThere(t) THEN "TRUE" ELSE "FALSE") \in Answer
  BY DEF Answer
<1> QED BY <1>1, <1>2, AnswersKeeps DEF ClearFound

LEMMA DeleteCountKeeps ==
    ASSUME TypeInv, NEW t \in Thread, DeleteCount(t) PROVE TypeInv'
<1>1. UNCHANGED <<next, kd, fstate>> /\ UNCHANGED <<todo, history>>
  BY DEF DeleteCount
<1>2. CASE counter' = Decremented(counter) /\ CallFind(t, my[t], "dfound")
  <2>1. SharedFine
    BY <1>1, <1>2, CounterFine DEF Decremented, TypeInv, TypeOK
  <2>2. "dfound" \in Return /\ my[t] \in Local
    BY DEF Return, TypeInv, TypeOK
  <2> QED BY <1>1, <1>2, <2>1, <2>2, CallFindKeeps
<1>3. CASE CallFreeze(t, "DELETE") /\ UNCHANGED counter
  <2>1. SharedFine
    BY <1>1, <1>3, SharedSame DEF shared
  <2>2. "DELETE" \in Trigger
    BY DEF Trigger
  <2> QED BY <1>1, <1>3, <2>1, <2>2, CallFreezeKeeps
<1> QED BY <1>2, <1>3 DEF DeleteCount

LEMMA DeleteFoundKeeps ==
    ASSUME TypeInv, NEW t \in Thread, DeleteFound(t) PROVE TypeInv'
<1>1. UNCHANGED <<next, kd, fstate>> /\ todo' = todo /\ pc[t] = "dfound"
  BY DEF DeleteFound
<1>2. CASE counter' = counter + 1 /\ Answers(t, "FALSE")
  <2>1. SharedFine
    BY <1>1, <1>2, CounterFine DEF TypeInv, TypeOK
  <2>2. "FALSE" \in Answer
    BY DEF Answer
  <2> QED BY <1>1, <1>2, <2>1, <2>2, AnswersKeeps
<1>3. CASE /\ my[t].found /\ my' = [my EXCEPT ![t].saved = Unmarked(next[tg[t].cur.idx])]
           /\ Goto(t, "dmark") /\ UNCHANGED <<counter, tg, history>>
  <2>1. SharedFine /\ CallsFine
    BY <1>1, <1>3, SharedSame, CallsSame DEF shared
  <2>2. tg[t] \in Place /\ tg[t].cur.idx # End /\ tg[t].cur.idx \in Cell
    BY <1>1, <1>3, SizeAssumption
       DEF TypeInv, TypeOK, ThreadInv, FindInv, Place, Word, Cell, Slot, End
  <2> DEFINE w == Unmarked(next[tg[t].cur.idx])
             n == [my[t] EXCEPT !.saved = w]
  <2>3. w \in Word
    <3>1. next[tg[t].cur.idx] \in Word
      BY <2>2 DEF TypeInv, TypeOK
    <3> QED BY <3>1 DEF Word, Unmarked
  <2>4. n \in Local /\ n.own = my[t].own
    <3>1. my[t] \in Local
      BY DEF TypeInv, TypeOK
    <3>2. \A m \in Local, v \in Word :
             [m EXCEPT !.saved = v] \in Local /\ [m EXCEPT !.saved = v].own = m.own
      BY DEF Local
    <3> HIDE DEF w
    <3> QED BY <2>3, <3>1, <3>2
  <2>5. /\ pc' = [pc EXCEPT ![t] = "dmark"] /\ my' = [my EXCEPT ![t] = n]
        /\ tg' = [tg EXCEPT ![t] = tg[t]]
    BY <1>3 DEF Goto, TypeInv, TypeOK
  <2>6. "dmark" \in Label \ (FindPC \cup {"idle", "alloc", "dfound"})
    BY DEF Label, DeletePC, FindPC
  <2>7. ReadyAt("dmark", n, tg[t])
    BY <2>2 DEF ReadyAt
  <2> QED BY <1>1, <2>1, <2>2, <2>4, <2>5, <2>6, <2>7, GotoKeeps
<1> QED BY <1>2, <1>3 DEF DeleteFound

LEMMA DeleteMarkKeeps ==
    ASSUME TypeInv, NEW t \in Thread, DeleteMark(t) PROVE TypeInv'
<1> DEFINE c == tg[t].cur.idx
<1>1. UNCHANGED <<kd, counter, fstate, todo>> /\ pc[t] = "dmark"
  BY DEF DeleteMark
<1>2. c \in Cell /\ c # End
  BY <1>1, SizeAssumption DEF TypeInv, TypeOK, ThreadInv, FindInv, Word, Cell, Slot, End
<1>3. CASE /\ next' = [next EXCEPT ![c] = [Bump(@, @.idx) EXCEPT !.del = TRUE]]
           /\ TakesEffect({t}, content \ {kd[c].key})
           /\ Goto(t, "dunlink") /\ UNCHANGED <<tg, my>>
  <2> DEFINE b == Bump(next[c], next[c].idx)
             w == [b EXCEPT !.del = TRUE]
  <2>1. next[c] \in Word /\ next[c].idx \in 0 .. MaxEntries
    BY <1>2 DEF TypeInv, TypeOK, Word
  <2>2. b \in Word /\ b.frz = next[c].frz
    BY <2>1, BumpType
  <2>3. w \in Word /\ w.frz = next[c].frz /\ next' = [next EXCEPT ![c] = w]
    BY <1>3, <2>2 DEF Word
  <2>4. SharedFine
    BY <1>1, <1>2, <2>3, RedirectFine
  <2>5. content \ {kd[c].key} \in SUBSET Key
    BY DEF TypeInv, TypeOK
  <2>6. CallsFine
    BY <1>3, <2>5, TakesEffectFine
  <2>7. "dunlink" \in Label \ (FindPC \cup {"idle", "alloc", "dfound"})
    BY DEF Label, DeletePC, FindPC
  <2>8. ReadyAt("dunlink", my[t], tg[t])
    BY DEF ReadyAt
  <2> QED BY <1>1, <1>3, <2>4, <2>6, <2>7, <2>8, JumpKeeps
<1>4. CASE Goto(t, "dundo") /\ UNCHANGED <<next, tg, my, history>>
  <2>1. SharedFine /\ CallsFine
    BY <1>1, <1>4, SharedSame, CallsSame DEF shared
  <2>2. "dundo" \in Label \ (FindPC \cup {"idle", "alloc", "dfound"})
    BY DEF Label, DeletePC, FindPC
  <2>3. ReadyAt("dundo", my[t], tg[t])
    BY DEF ReadyAt
  <2> QED BY <1>1, <1>4, <2>1, <2>2, <2>3, JumpKeeps
<1>5. CASE CallFind(t, my[t], "dfound") /\ UNCHANGED <<next, history>>
  <2>1. SharedFine
    BY <1>1, <1>5, SharedSame DEF shared
  <2>2. "dfound" \in Return /\ my[t] \in Local
    BY DEF Return, TypeInv, TypeOK
  <2> QED BY <1>1, <1>5, <2>1, <2>2, CallFindKeeps
<1> QED BY <1>3, <1>4, <1>5 DEF DeleteMark

LEMMA DeleteUndoKeeps ==
    ASSUME TypeInv, NEW t \in Thread, DeleteUndo(t) PROVE TypeInv'
<1>1. SharedFine
  BY CounterFine DEF DeleteUndo, TypeInv, TypeOK
<1>2. "DELETE" \in Trigger
  BY DEF Trigger
<1> QED BY <1>1, <1>2, CallFreezeKeeps DEF DeleteUndo

LEMMA DeleteUnlinkKeeps ==
    ASSUME TypeInv, NEW t \in Thread, DeleteUnlink(t) PROVE TypeInv'
<1>1. UNCHANGED <<kd, counter, fstate, todo>>
  BY DEF DeleteUnlink
<1>2. CASE /\ next[tg[t].prev] = tg[t].cur
           /\ next' = [next EXCEPT ![tg[t].prev] = Bump(tg[t].cur, tg[t].next.idx)]
           /\ Answers(t, "TRUE")
  <2>1. tg[t].cur \in Word /\ tg[t].prev \in Cell /\ tg[t].next.idx \in 0 .. MaxEntries
    BY DEF TypeInv, TypeOK, Word
  <2> DEFINE w == Bump(tg[t].cur, tg[t].next.idx)
  <2>2. w \in Word /\ w.frz = next[tg[t].prev].frz
    BY <1>2, <2>1, BumpType
  <2>3. SharedFine
    BY <1>1, <1>2, <2>1, <2>2, RedirectFine
  <2>4. "TRUE" \in Answer
    BY DEF Answer
  <2> QED BY <1>1, <1>2, <2>3, <2>4, AnswersKeeps
<1>3. CASE CallFind(t, my[t], "dfix") /\ UNCHANGED <<next, history>>
  <2>1. SharedFine
    BY <1>1, <1>3, SharedSame DEF shared
  <2>2. "dfix" \in Return /\ my[t] \in Local
    BY DEF Return, TypeInv, TypeOK
  <2> QED BY <1>1, <1>3, <2>1, <2>2, CallFindKeeps
<1> QED BY <1>2, <1>3 DEF DeleteUnlink

LEMMA DeleteFixedKeeps ==
    ASSUME TypeInv, NEW t \in Thread, DeleteFixed(t) PROVE TypeInv'
<1>1. SharedFine /\ todo' = todo
  BY SharedSame DEF DeleteFixed
<1>2. "TRUE" \in Answer
  BY DEF Answer
<1> QED BY <1>1, <1>2, AnswersKeeps DEF DeleteFixed

LEMMA StateFine ==
    ASSUME TypeInv, fstate' \in State, UNCHANGED <<next, kd, counter>> PROVE SharedFine
BY NothingFrozen DEF SharedFine, TypeInv, TypeOK

LEMMA FreezeStartKeeps ==
    ASSUME TypeInv, NEW t \in Thread, FreezeStart(t) PROVE TypeInv'
<1>1. fstate' \in State
  BY DEF FreezeStart, State, TypeInv, TypeOK
<1>2. SharedFine /\ CallsFine
  BY <1>1, StateFine, CallsSame DEF FreezeStart
<1>3. "switch" \in Label \ (FindPC \cup {"idle", "alloc", "dfound"})
  BY DEF Label, FreezePC, FindPC
<1>4. ReadyAt("switch", my[t], tg[t])
  BY DEF ReadyAt, FreezeStart, TypeInv, ThreadInv, StableInv
<1> QED BY <1>2, <1>3, <1>4, JumpKeeps DEF FreezeStart

LEMMA FreezeSwitchKeeps ==
    ASSUME TypeInv, NEW t \in Thread, FreezeSwitch(t) PROVE TypeInv'
<1>1. SharedFine /\ CallsFine /\ todo' = todo /\ pc[t] = "switch"
  BY SharedSame, CallsSame DEF FreezeSwitch
<1> DEFINE n == [my[t] EXCEPT !.dec = DecisionOf(fstate)]
           l == IF fstate \in {"FREEZE", "SLAVE_FREEZE"} THEN "mark" ELSE "recover"
<1>2. DecisionOf(fstate) \in Decision \cup {"-"}
  BY DEF DecisionOf, Decision, TypeInv, TypeOK, State
<1>3. n \in Local /\ n.own = my[t].own /\ n.trig = my[t].trig
  <2>1. my[t] \in Local
    BY DEF TypeInv, TypeOK
  <2> QED BY <1>2, <2>1 DEF Local
<1>4. /\ pc' = [pc EXCEPT ![t] = l] /\ my' = [my EXCEPT ![t] = n]
      /\ tg' = [tg EXCEPT ![t] = tg[t]] /\ tg[t] \in Place
  BY DEF FreezeSwitch, Goto, TypeInv, TypeOK, Place
<1>5. l \in Label \ (FindPC \cup {"idle", "alloc", "dfound"}) /\ l \in {"mark", "recover"}
  BY DEF Label, FreezePC, FindPC
<1>6. ReadyAt(l, n, tg[t])
  <2>1. n.trig # "-"
    BY <1>1, <1>3 DEF TypeInv, ThreadInv, StableInv
  <2> HIDE DEF n, l
  <2> QED BY <1>5, <2>1 DEF ReadyAt
<1> HIDE DEF n, l
<1> QED BY <1>1, <1>3, <1>4, <1>5, <1>6, GotoKeeps

LEMMA EnslaveKeeps ==
    ASSUME TypeInv, NEW t \in Thread, Enslave(t) PROVE TypeInv'
<1>1. CallsFine /\ UNCHANGED <<next, kd, counter>> /\ UNCHANGED <<todo, history>>
  BY CallsSame DEF Enslave
<1>2. CASE /\ fstate' = "SLAVE_FREEZE" /\ Goto(t, "mark") /\ UNCHANGED tg
           /\ my' = [my EXCEPT ![t].trig = "ENSLAVE", ![t].dec = "R_MERGE"]
  <2> DEFINE n == [my[t] EXCEPT !.trig = "ENSLAVE", !.dec = "R_MERGE"]
  <2>0. my[t] \in Local
    BY DEF TypeInv, TypeOK
  <2>1. n \in Local /\ n.own = my[t].own /\ n.trig = "ENSLAVE"
    BY <2>0 DEF Local, Trigger, Decision
  <2>2. /\ pc' = [pc EXCEPT ![t] = "mark"] /\ my' = [my EXCEPT ![t] = n]
        /\ tg' = [tg EXCEPT ![t] = tg[t]] /\ tg[t] \in Place
    BY <1>2 DEF Goto, TypeInv, TypeOK, Place
  <2>3. SharedFine
    BY <1>1, <1>2, StateFine DEF State
  <2>4. "mark" \in Label \ (FindPC \cup {"idle", "alloc", "dfound"})
    BY DEF Label, FreezePC, FindPC
  <2>5. ReadyAt("mark", n, tg[t])
    BY <2>1 DEF ReadyAt
  <2> QED BY <1>1, <2>1, <2>2, <2>3, <2>4, <2>5, GotoKeeps
<1>3. CASE CallFreeze(t, "ENSLAVE") /\ UNCHANGED fstate
  <2>1. SharedFine /\ "ENSLAVE" \in Trigger
    BY <1>1, <1>3, SharedSame DEF shared, Trigger
  <2> QED BY <1>1, <1>3, <2>1, CallFreezeKeeps
<1> QED BY <1>2, <1>3 DEF Enslave

LEMMA MarkFrozenKeeps ==
    ASSUME TypeInv, NEW t \in Thread, MarkFrozen(t) PROVE TypeInv'
<1>1. PICK c \in ToBeFrozen :
        IF ~next[c].frz THEN next' = [next EXCEPT ![c].frz = TRUE] /\ UNCHANGED kd
                        ELSE kd' = [kd EXCEPT ![c].frz = TRUE] /\ UNCHANGED next
  BY DEF MarkFrozen
<1>2. UNCHANGED <<counter, fstate, pc, tg, my, todo, content, call, settled>>
  BY DEF MarkFrozen, history
<1>3. c \in Cell /\ (next[c].frz => c \in Slot) /\ ~AllFrozen
  BY <1>1 DEF ToBeFrozen, KeyFrozen, AllFrozen, Cell
<1>4. next' \in [Cell -> Word]
  <2>1. next[c] \in Word
    BY <1>3 DEF TypeInv, TypeOK
  <2>2. [next[c] EXCEPT !.frz = TRUE] \in Word
    BY <2>1 DEF Word
  <2> QED BY <1>1, <1>3, <2>2 DEF TypeInv, TypeOK
<1>5. kd' \in [Slot -> KeyWord] /\ KeysSame
  <2>0. c \in Slot => kd[c] \in KeyWord
    BY DEF TypeInv, TypeOK
  <2>1. c \in Slot => /\ [kd[c] EXCEPT !.frz = TRUE] \in KeyWord
                      /\ [kd[c] EXCEPT !.frz = TRUE].key = kd[c].key
    BY <2>0 DEF KeyWord
  <2>2. CASE UNCHANGED kd
    BY <2>2 DEF TypeInv, TypeOK, KeysSame
  <2>3. CASE next[c].frz /\ kd' = [kd EXCEPT ![c].frz = TRUE]
    BY <1>3, <2>1, <2>3 DEF TypeInv, TypeOK, KeysSame
  <2> QED BY <1>1, <2>2, <2>3
<1>6. TypeOK'
  BY <1>2, <1>4, <1>5 DEF TypeInv, TypeOK
<1>7. ThreadInv(t)'
  <2>1. /\ my[t].own # End => my[t].own \in Slot
        /\ my[t].scan # End => my[t].scan \in Slot
    BY SizeAssumption DEF TypeInv, TypeOK, Local, Slot, End
  <2> QED BY <1>2, <1>3, <1>5, <2>1, OtherThread DEF TypeInv, KeysSame
<1> QED BY <1>2, <1>3, <1>5, <1>6, <1>7, StepKeeps DEF OthersSame

LEMMA MarkedAllKeeps ==
    ASSUME TypeInv, NEW t \in Thread, MarkedAll(t) PROVE TypeInv'
<1> DEFINE m == [my[t] EXCEPT !.scan = 0]
<1>1. SharedFine /\ UNCHANGED <<todo, history>> /\ CallFind(t, m, "slot") /\ pc[t] = "mark"
  BY SharedSame DEF MarkedAll
<1>2. AllFrozen
  BY DEF MarkedAll, ToBeFrozen, AllFrozen
<1>3. m \in Local /\ m.own = my[t].own /\ m.trig = my[t].trig
  <2>1. my[t] \in Local /\ 0 \in 0 .. MaxEntries
    BY SizeAssumption DEF TypeInv, TypeOK
  <2> QED BY <2>1 DEF Local
<1>4. my[t].trig # "-" /\ "slot" \in Return
  BY <1>1 DEF TypeInv, ThreadInv, StableInv, Return
<1> QED BY <1>1, <1>2, <1>3, <1>4, CallFindKeeps

LEMMA StabilizeNextKeeps ==
    ASSUME TypeInv, NEW t \in Thread, StabilizeNext(t) PROVE TypeInv'
<1>1. PICK s \in Pending(my[t].scan) : CallFind(t, [my[t] EXCEPT !.scan = s], "slotfound")
  BY DEF StabilizeNext
<1> DEFINE m == [my[t] EXCEPT !.scan = s]
<1>2. SharedFine /\ UNCHANGED <<todo, history>> /\ Stabilizing(t)
  BY SharedSame DEF StabilizeNext, Stabilizing
<1>3. s \in Slot /\ kd[s].key # NoKey /\ s # End /\ s \in 0 .. MaxEntries
  BY SizeAssumption DEF Pending, Slot, End
<1>4. m \in Local /\ m.own = my[t].own /\ m.trig = my[t].trig /\ m.scan = s
  BY <1>3 DEF TypeInv, TypeOK, Local
<1>5. my[t].trig # "-" /\ AllFrozen /\ "slotfound" \in Return
  BY <1>2 DEF TypeInv, ThreadInv, StableInv, Return
<1> QED BY <1>1, <1>2, <1>3, <1>4, <1>5, CallFindKeeps

LEMMA StabilizeFoundKeeps ==
    ASSUME TypeInv, NEW t \in Thread, StabilizeFound(t) PROVE TypeInv'
<1>1. SharedFine /\ CallsFine /\ todo' = todo /\ pc[t] = "slotfound" /\ Choosing(t) /\ Stabilizing(t)
  BY SharedSame, CallsSame DEF StabilizeFound, Choosing, Stabilizing
<1>2. CASE NextSlot(t)
  BY <1>1, <1>2, NextSlotKeeps
<1>3. CASE Goto(t, "ifrom") /\ UNCHANGED <<tg, my>>
  <2>1. ReadyAt("ifrom", my[t], tg[t])
    BY <1>1 DEF ReadyAt, TypeInv, ThreadInv, StableInv
  <2>2. "ifrom" \in Label \ (FindPC \cup {"idle", "alloc", "dfound"})
    BY DEF Label, InsertPC, FindPC
  <2> QED BY <1>1, <1>3, <2>1, <2>2, JumpKeeps
<1> QED BY <1>2, <1>3 DEF StabilizeFound

LEMMA StabilizeDoneKeeps ==
    ASSUME TypeInv, NEW t \in Thread, StabilizeDone(t) PROVE TypeInv'
<1>1. SharedFine /\ CallsFine /\ todo' = todo
  BY SharedSame DEF StabilizeDone, CallsFine, TypeInv, TypeOK, CallType
<1> DEFINE l == IF my[t].dec = "-" THEN "decide" ELSE "recover"
<1>2. /\ pc' = [pc EXCEPT ![t] = l] /\ my' = [my EXCEPT ![t] = my[t]]
      /\ tg' = [tg EXCEPT ![t] = NoPlace] /\ NoPlace \in Place /\ my[t] \in Local
  BY Constants DEF StabilizeDone, Goto, Forget, Place, TypeInv, TypeOK
<1>3. l \in Label \ (FindPC \cup {"idle", "alloc", "dfound"}) /\ l \in {"decide", "recover"}
  BY DEF Label, FreezePC, FindPC
<1>4. ReadyAt(l, my[t], NoPlace)
  BY <1>3 DEF ReadyAt
<1> HIDE DEF l
<1> QED BY <1>1, <1>2, <1>3, <1>4, GotoKeeps

LEMMA DecideKeeps ==
    ASSUME TypeInv, NEW t \in Thread, Decide(t) PROVE TypeInv'
<1> DEFINE d == FreezeDecision(EntrNum)
           n == [my[t] EXCEPT !.dec = d]
<1>1. d \in Decision /\ StateOf(d) \in State
  BY DEF FreezeDecision, Decision, StateOf, State
<1>2. CallsFine /\ todo' = todo /\ UNCHANGED <<next, kd, counter>>
  BY CallsSame DEF Decide
<1>3. fstate' \in State
  BY <1>1 DEF Decide, TypeInv, TypeOK
<1>4. SharedFine
  BY <1>2, <1>3, StateFine
<1>5. n \in Local /\ n.own = my[t].own
  <2>1. my[t] \in Local
    BY DEF TypeInv, TypeOK
  <2> HIDE DEF d
  <2> QED BY <1>1, <2>1 DEF Local
<1>6. /\ pc' = [pc EXCEPT ![t] = "recover"] /\ my' = [my EXCEPT ![t] = n]
      /\ tg' = [tg EXCEPT ![t] = tg[t]] /\ tg[t] \in Place
  BY DEF Decide, Goto, TypeInv, TypeOK, Place
<1>7. "recover" \in Label \ (FindPC \cup {"idle", "alloc", "dfound"})
  BY DEF Label, FreezePC, FindPC
<1>8. ReadyAt("recover", n, tg[t])
  BY DEF ReadyAt
<1> HIDE DEF n
<1> QED BY <1>2, <1>4, <1>5, <1>6, <1>7, <1>8, GotoKeeps

LEMMA RecoverKeeps ==
    ASSUME TypeInv, NEW t \in Thread, Recover(t) PROVE TypeInv'
<1> DEFINE m == [my[t] EXCEPT !.trig = "-"]
<1>1. SharedFine /\ todo' = todo
  BY SharedSame DEF Recover
<1>2. CASE Answers(t, "moved")
  <2>1. "moved" \in Answer
    BY DEF Answer
  <2> QED BY <1>1, <1>2, <2>1, AnswersKeeps
<1>3. CASE CallFind(t, m, "cfound") /\ UNCHANGED history
  <2>0. my[t] \in Local /\ "cfound" \in Return
    BY DEF TypeInv, TypeOK, Return
  <2>1. m \in Local /\ m.own = my[t].own
    BY <2>0 DEF Local
  <2> QED BY <1>1, <1>3, <2>0, <2>1, CallFindKeeps
<1> QED BY <1>2, <1>3 DEF Recover

LEMMA InvokeKeeps ==
    ASSUME TypeInv, NEW t \in Thread, Invoke(t) PROVE TypeInv'
<1>1. PICK w \in Work[t] :
        /\ call' = [call EXCEPT ![t] =
                       [kind |-> w.kind, key |-> w.key, eff |-> FALSE,
                        seen |-> {w.key \in content}, res |-> "none"]]
        /\ Goto(t, Start(w.kind))
        /\ my' = [my EXCEPT ![t].ret = IF w.kind = "search" THEN "sfound" ELSE "-"]
  BY DEF Invoke
<1>2. /\ todo' = [todo EXCEPT ![t] = @ - 1] /\ todo[t] > 0
      /\ UNCHANGED <<next, kd, counter, fstate, tg, content, settled>>
  BY DEF Invoke, shared
<1>3. w.kind \in Kind /\ w.key \in Key
  <2>1. w \in [kind : Kind, key : Key]
    BY WorkAssumption
  <2> QED BY <2>1
<1>4. my[t] = Fresh
  BY DEF Invoke, TypeInv, ThreadInv, IdleInv
<1> DEFINE r == IF w.kind = "search" THEN "sfound" ELSE "-"
           n == [Fresh EXCEPT !.ret = r]
           c == [kind |-> w.kind, key |-> w.key, eff |-> FALSE,
                 seen |-> {w.key \in content}, res |-> "none"]
<1>5. n \in Local /\ n.own = End /\ n.trig = "-" /\ n.ret = r
  BY Constants DEF Local, Fresh, Return
<1>6. c \in CallType /\ c.kind = w.kind /\ c.key = w.key
  <2>1. (w.key \in content) \in BOOLEAN
    OBVIOUS
  <2> QED BY <1>3, <2>1 DEF CallType, Answer
<1>7. /\ Start(w.kind) \in {"fhead", "alloc", "dec", "slave"}
      /\ Start(w.kind) = "fhead" => r # "-"
      /\ Start(w.kind) = "alloc" => w.kind = "insert"
  BY <1>3 DEF Start, Kind
<1>8. /\ pc' = [pc EXCEPT ![t] = Start(w.kind)] /\ my' = [my EXCEPT ![t] = n]
      /\ call' = [call EXCEPT ![t] = c]
  BY <1>1, <1>4 DEF Goto
<1> HIDE DEF n, c, r
<1>9. TypeOK'
  <2>1. todo' \in [Thread -> 0 .. MaxCalls]
    BY <1>2, WorkAssumption DEF TypeInv, TypeOK
  <2>2. pc' \in [Thread -> Label]
    BY <1>7, <1>8 DEF TypeInv, TypeOK, Label, FindPC, InsertPC, DeletePC, FreezePC
  <2>3. my' \in [Thread -> Local] /\ call' \in [Thread -> CallType]
    BY <1>5, <1>6, <1>8 DEF TypeInv, TypeOK, CallType
  <2> QED BY <1>2, <2>1, <2>2, <2>3 DEF TypeInv, TypeOK, CallType
<1>10. /\ pc'[t] = Start(w.kind) /\ my'[t] = n /\ call'[t] = c
       /\ \A u \in Thread \ {t} : pc'[u] = pc[u] /\ my'[u] = my[u] /\ tg'[u] = tg[u] /\ call'[u] = call[u]
  BY <1>2, <1>8 DEF TypeInv, TypeOK
<1>11. ThreadInv(t)'
  <2>1. IdleInv(t)' /\ FindInv(t)'
    BY <1>5, <1>7, <1>10 DEF IdleInv, FindInv, FindPC
  <2>2. r \in {"sfound", "-"}
    BY DEF r
  <2>3. ~Inserting(t)' /\ ~Choosing(t)' /\ ~Stabilizing(t)'
    BY <1>5, <1>7, <1>10, <2>2 DEF Stabilizing, Choosing, Inserting
  <2>4. OwnInv(t)'
    BY <1>5, <1>6, <1>7, <1>10, <2>3 DEF OwnInv
  <2>5. StableInv(t)'
    BY <1>7, <1>10, <2>3 DEF StableInv
  <2> QED BY <2>1, <2>4, <2>5 DEF ThreadInv
<1>12. /\ OthersSame(t) /\ KeysSame /\ (AllFrozen => AllFrozen')
       /\ my'[t].own = End
  BY <1>2, <1>5, <1>10, NothingFrozen DEF OthersSame
<1> QED BY <1>9, <1>11, <1>12, StepKeeps

LEMMA PartnerResolvesKeeps ==
    ASSUME TypeInv, PartnerResolves PROVE TypeInv'
<1>1. /\ fstate' \in State
      /\ UNCHANGED <<next, kd, counter, pc, tg, my, todo, content, call, settled>>
  BY DEF PartnerResolves, State, history
<1>2. TypeOK'
  BY <1>1 DEF TypeInv, TypeOK
<1>3. ASSUME NEW u \in Thread PROVE ThreadInv(u)'
  BY <1>1, NothingFrozen, OtherThread DEF TypeInv
<1>4. OwnDistinct'
  BY <1>1 DEF TypeInv, OwnDistinct
<1> QED BY <1>2, <1>3, <1>4 DEF TypeInv

LEMMA StutterKeeps ==
    ASSUME TypeInv, UNCHANGED vars PROVE TypeInv'
<1> USE DEF vars
<1>1. TypeOK'
  BY DEF TypeInv, TypeOK
<1>2. ASSUME NEW u \in Thread PROVE ThreadInv(u)'
  BY NothingFrozen, OtherThread DEF TypeInv
<1>3. OwnDistinct'
  BY DEF TypeInv, OwnDistinct
<1> QED BY <1>1, <1>2, <1>3 DEF TypeInv

LEMMA StepOfThreadKeeps ==
    ASSUME TypeInv, NEW t \in Thread, Step(t) PROVE TypeInv'
<1>1. CASE FindStep(t)
  BY <1>1, FindHeadKeeps, FindNextKeeps, FindUnlinkKeeps DEF FindStep
<1>2. CASE SearchFound(t)
  BY <1>2, SearchFoundKeeps
<1>3. CASE InsertStep(t)
  BY <1>3, AllocateKeeps, InsertFromKeeps, InsertFoundKeeps, InsertLinkKeeps, InsertCountKeeps
     DEF InsertStep
<1>4. CASE ClearStep(t)
  BY <1>4, ClearNextKeeps, ClearKeyKeeps, ClearHelpKeeps, ClearFoundKeeps DEF ClearStep
<1>5. CASE DeleteStep(t)
  BY <1>5, DeleteCountKeeps, DeleteFoundKeeps, DeleteMarkKeeps, DeleteUndoKeeps,
     DeleteUnlinkKeeps, DeleteFixedKeeps DEF DeleteStep
<1>6. CASE FreezeStep(t)
  BY <1>6, FreezeStartKeeps, FreezeSwitchKeeps, EnslaveKeeps, MarkFrozenKeeps, MarkedAllKeeps,
     DecideKeeps, RecoverKeeps DEF FreezeStep
<1>7. CASE StabilizeStep(t)
  BY <1>7, StabilizeNextKeeps, StabilizeFoundKeeps, StabilizeDoneKeeps DEF StabilizeStep
<1> QED BY <1>1, <1>2, <1>3, <1>4, <1>5, <1>6, <1>7 DEF Step

LEMMA NextKeeps == TypeInv /\ [Next]_vars => TypeInv'
<1> SUFFICES ASSUME TypeInv, [Next]_vars PROVE TypeInv'
  OBVIOUS
<1>1. ASSUME NEW t \in Thread, Invoke(t) PROVE TypeInv'
  BY <1>1, InvokeKeeps
<1>2. ASSUME NEW t \in Thread, Step(t) PROVE TypeInv'
  BY <1>2, StepOfThreadKeeps
<1>3. CASE PartnerResolves
  BY <1>3, PartnerResolvesKeeps
<1>4. CASE UNCHANGED vars
  BY <1>4, StutterKeeps
<1>5. CASE AllDone
  BY <1>4, <1>5 DEF AllDone
<1> QED BY <1>1, <1>2, <1>3, <1>4, <1>5 DEF Next

(***************************************************************************)
(* The invariant holds for every number of threads and every size: every   *)
(* index that insertEntry, clearEntry, find and deleteInChunk dereference  *)
(* is that of an entry, entries allocated to two inserts are different,    *)
(* and in stabilizeChunk every word of the chunk is frozen.                *)
(***************************************************************************)
THEOREM TypeInvariant == Spec => []TypeInv
BY InitTypeInv, NextKeeps, PTL DEF Spec

(***************************************************************************)
(* The types of the model, for every value of the constants.               *)
(***************************************************************************)
THEOREM TypeCorrect == Spec => []TypeOK
<1>1. TypeInv => TypeOK
  BY DEF TypeInv
<1> QED BY <1>1, TypeInvariant, PTL
-----------------------------------------------------------------------------
(***************************************************************************)
(* Privacy and order, proved for any number of threads, any size of the    *)
(* chunk and any calls: insertEntry is never called on an entry that is    *)
(* deleted, and the list is sorted at every moment.                        *)
(*                                                                         *)
(* PRIVACY.  Until every word of the chunk is frozen, an entry that is     *)
(* free, or that an insert holds and has not linked, is known to nobody    *)
(* else: no word of the chunk and no word a thread has read leads to it,   *)
(* so that no delete can mark it.  From then on stabilizeChunk may link    *)
(* it, and deletes may find it, but a frozen word cannot be marked any     *)
(* more.                                                                   *)
(*                                                                         *)
(* ORDER.  The words a thread compares with are old, and so is the         *)
(* successor it redirects prev to; what does not grow old is the order of  *)
(* their keys, since the key of an entry that somebody may know never      *)
(* changes (HiddenInv).  So it is enough that each thread keeps its place  *)
(* between smaller and larger keys.                                        *)
(***************************************************************************)

\* t holds an entry of its own that it has not linked
Unlinked(t) ==
    /\ my[t].trig = "-"
    /\ Inserting(t) \/ pc[t] \in {"cnext", "ckey"}

Private(e) ==
    \/ kd[e].key = NoKey
    \/ \E t \in Thread : Unlinked(t) /\ my[t].own = e

\* some word in the chunk leads to e, or a place that a thread has reached
Leads(p, e) == p.prev = e \/ p.cur.idx = e \/ p.next.idx = e

Referenced(e) ==
    \/ \E c \in Cell : next[c].idx = e
    \/ \E t \in Thread : Leads(tg[t], e)

ClearInv(t)  == pc[t] \in {"cnext", "ckey"} => my[t].trig = "-"
SavedInv(t)  == pc[t] = "dmark" => ~my[t].saved.frz
ChosenInv(t) == Choosing(t) => ~next[my[t].scan].del
HiddenInv    == \A e \in Slot : Private(e) /\ Referenced(e) => AllFrozen
UnmarkedInv  == \A e \in Slot : Private(e) => ~next[e].del

Own(t) == ClearInv(t) /\ SavedInv(t) /\ ChosenInv(t)

PrivacyInv == HiddenInv /\ UnmarkedInv /\ \A t \in Thread : Own(t)
-----------------------------------------------------------------------------
(***************************************************************************)
(* A step of one thread keeps the invariant if it takes entries that are   *)
(* free, frees only its own, marks only words that are not frozen and      *)
(* makes references only to what is not private.                           *)
(***************************************************************************)
OthersStill(t) ==
    \A u \in Thread \ {t} : pc'[u] = pc[u] /\ my'[u] = my[u] /\ tg'[u] = tg[u]

FreesOwn(t) ==
    \A e \in Slot : kd'[e].key = NoKey => kd[e].key = NoKey \/ (Unlinked(t) /\ my[t].own = e)

TakesFree(t) ==
    Unlinked(t)' => \/ Unlinked(t) /\ my'[t].own = my[t].own
                    \/ kd[my'[t].own].key = NoKey

MarksUnfrozen(t) ==
    \A c \in Cell : next'[c].del => next[c].del \/ (Referenced(c) /\ ~next[c].frz)

RefersToPublic ==
    ~AllFrozen' => \A e \in Slot : Referenced(e)' => Referenced(e) \/ ~Private(e)'

LEMMA EffectKeeps ==
    ASSUME NEW t \in Thread, TypeInv, PrivacyInv, AllFrozen => AllFrozen',
           OthersStill(t), FreesOwn(t), TakesFree(t), MarksUnfrozen(t), RefersToPublic, Own(t)'
    PROVE  PrivacyInv'
<1>1. ASSUME NEW u \in Thread, u # t
      PROVE  /\ Unlinked(u)' <=> Unlinked(u)
             /\ Choosing(u)' <=> Choosing(u)
  BY <1>1 DEF OthersStill, Unlinked, Inserting, Choosing
<1>2. ASSUME NEW e \in Slot, Private(e)' PROVE Private(e)
  <2>1. CASE kd'[e].key = NoKey
    BY <2>1 DEF FreesOwn, Private
  <2>2. ASSUME NEW u \in Thread, Unlinked(u)', my'[u].own = e PROVE Private(e)
    <3>1. CASE u = t
      BY <2>2, <3>1 DEF TakesFree, Private
    <3>2. CASE u # t
      BY <1>1, <2>2, <3>2 DEF OthersStill, Private
    <3> QED BY <3>1, <3>2
  <2> QED BY <1>2, <2>1, <2>2 DEF Private
<1>3. HiddenInv'
  <2> SUFFICES ASSUME NEW e \in Slot, Private(e)', Referenced(e)', ~AllFrozen' PROVE FALSE
    BY DEF HiddenInv
  <2> QED BY <1>2 DEF RefersToPublic, PrivacyInv, HiddenInv
<1>4. UnmarkedInv'
  <2> SUFFICES ASSUME NEW e \in Slot, Private(e)', next'[e].del PROVE FALSE
    BY DEF UnmarkedInv
  <2>1. Private(e) /\ e \in Cell
    BY <1>2, Constants
  <2>2. Referenced(e) /\ ~next[e].frz
    BY <2>1 DEF MarksUnfrozen, PrivacyInv, UnmarkedInv
  <2>3. AllFrozen
    BY <2>1, <2>2 DEF PrivacyInv, HiddenInv
  <2> QED BY <2>1, <2>2, <2>3 DEF AllFrozen
<1>5. ASSUME NEW u \in Thread, u # t PROVE Own(u)'
  <2>1. ClearInv(u)' /\ SavedInv(u)'
    BY <1>5 DEF OthersStill, PrivacyInv, Own, ClearInv, SavedInv
  <2>2. ASSUME Choosing(u) PROVE ~next'[my[u].scan].del
    <3>1. AllFrozen /\ my[u].scan \in Cell
      BY <2>2, SizeAssumption
         DEF TypeInv, TypeOK, Local, ThreadInv, StableInv, Stabilizing, Cell, Slot, End
    <3> QED BY <2>2, <3>1 DEF AllFrozen, MarksUnfrozen, PrivacyInv, Own, ChosenInv
  <2>3. ChosenInv(u)'
    BY <1>1, <1>5, <2>2 DEF OthersStill, ChosenInv
  <2> QED BY <2>1, <2>3 DEF Own
<1> QED BY <1>3, <1>4, <1>5 DEF PrivacyInv
-----------------------------------------------------------------------------
(***************************************************************************)
(* Steps that leave the words and keys of the chunk alone.  Away from      *)
(* insertEntry, clearEntry and the mark of a delete, a thread relies on    *)
(* nothing.                                                                *)
(***************************************************************************)
Away(t) ==
    /\ pc[t] \notin {"ifrom", "ifound", "link", "cnext", "ckey", "dmark", "slotfound"}
    /\ pc[t] \in FindPC => my[t].ret \notin {"ifound", "slotfound"}

\* what t has read is known, or t forgets it
Remembers(t) ==
    \A e \in Slot : Leads(tg'[t], e) => Referenced(e)

\* a step to where t relies on nothing, that changes no word and no key
StandsAside(t) ==
    /\ UNCHANGED <<next, kd>> /\ OthersStill(t) /\ Away(t)'
    /\ tg'[t] = NoPlace \/ tg'[t] = tg[t]

LEMMA NoPlaceRemembers ==
    ASSUME NEW t \in Thread, tg'[t] = NoPlace \/ tg'[t] = tg[t] PROVE Remembers(t)
<1>1. CASE tg'[t] = NoPlace
  BY <1>1, SizeAssumption DEF NoPlace, NoWord, End, Slot, EntryHead, Leads, Remembers
<1>2. CASE tg'[t] = tg[t]
  BY <1>2 DEF Remembers, Referenced, Leads
<1> QED BY <1>1, <1>2

LEMMA QuietKeeps ==
    ASSUME NEW t \in Thread, TypeInv, PrivacyInv, UNCHANGED <<next, kd>>,
           OthersStill(t), TakesFree(t), Own(t)', Remembers(t)
    PROVE  PrivacyInv'
<1>1. (AllFrozen => AllFrozen') /\ FreesOwn(t) /\ MarksUnfrozen(t)
  BY NothingFrozen DEF FreesOwn, MarksUnfrozen
<1>2. RefersToPublic
  BY DEF RefersToPublic, Referenced, OthersStill, Remembers
<1> QED BY <1>1, <1>2, EffectKeeps

LEMMA AwayKeeps ==
    ASSUME NEW t \in Thread, TypeInv, PrivacyInv, StandsAside(t) PROVE PrivacyInv'
<1>1. Own(t)' /\ ~Unlinked(t)'
  BY DEF StandsAside, Away, Own, ClearInv, SavedInv, ChosenInv, Unlinked, Inserting, Choosing
<1> QED BY <1>1, NoPlaceRemembers, QuietKeeps DEF StandsAside, TakesFree

LEMMA AnswersAway ==
    ASSUME TypeInv, NEW t \in Thread, NEW r, Answers(t, r)
    PROVE  OthersStill(t) /\ Away(t)' /\ (tg'[t] = NoPlace \/ tg'[t] = tg[t])
<1>1. OthersStill(t) /\ pc'[t] = "idle" /\ tg'[t] = NoPlace
  BY DEF TypeInv, TypeOK, Answers, Goto, Forget, OthersStill
<1> QED BY <1>1 DEF Away, FindPC

LEMMA CallFindAway ==
    ASSUME TypeInv, NEW t \in Thread, NEW m \in Local, NEW r \in Return \ {"ifound", "slotfound"},
           CallFind(t, m, r)
    PROVE  OthersStill(t) /\ Away(t)' /\ (tg'[t] = NoPlace \/ tg'[t] = tg[t])
<1>1. /\ OthersStill(t) /\ pc'[t] = "fhead" /\ tg'[t] = NoPlace
      /\ my'[t] = [m EXCEPT !.ret = r, !.found = FALSE]
  BY DEF TypeInv, TypeOK, CallFind, Goto, Forget, OthersStill
<1>2. my'[t].ret = r
  BY <1>1 DEF Local
<1> QED BY <1>1, <1>2 DEF Away, FindPC

LEMMA CallFreezeAway ==
    ASSUME TypeInv, NEW t \in Thread, NEW g, CallFreeze(t, g)
    PROVE  OthersStill(t) /\ Away(t)' /\ (tg'[t] = NoPlace \/ tg'[t] = tg[t])
<1>1. OthersStill(t) /\ pc'[t] = "frz" /\ tg'[t] = NoPlace
  BY DEF TypeInv, TypeOK, CallFreeze, Goto, Forget, OthersStill
<1> QED BY <1>1 DEF Away, FindPC

LEMMA NextSlotAway ==
    ASSUME TypeInv, NEW t \in Thread, NextSlot(t)
    PROVE  OthersStill(t) /\ Away(t)' /\ (tg'[t] = NoPlace \/ tg'[t] = tg[t])
<1>1. OthersStill(t) /\ pc'[t] = "slot" /\ tg'[t] = NoPlace
  BY DEF TypeInv, TypeOK, NextSlot, GoToSlot, Goto, Forget, OthersStill
<1> QED BY <1>1 DEF Away, FindPC

\* a step to a place where the thread relies on nothing
LEMMA GotoAway ==
    ASSUME TypeInv, NEW t \in Thread,
           NEW l \in Label \ (FindPC \cup {"ifrom", "ifound", "link", "cnext", "ckey", "dmark", "slotfound"}),
           Goto(t, l), \A u \in Thread \ {t} : my'[u] = my[u],
           Forget(t) \/ UNCHANGED tg
    PROVE  OthersStill(t) /\ Away(t)' /\ (tg'[t] = NoPlace \/ tg'[t] = tg[t])
<1>1. OthersStill(t) /\ pc'[t] = l /\ (tg'[t] = NoPlace \/ tg'[t] = tg[t])
  BY DEF TypeInv, TypeOK, Goto, Forget, OthersStill
<1> QED BY <1>1 DEF Away
-----------------------------------------------------------------------------
(***************************************************************************)
(* The actions that leave the words and keys alone.                        *)
(***************************************************************************)
LEMMA AnsweringAside ==
    ASSUME TypeInv, NEW t \in Thread,
           SearchFound(t) \/ InsertCount(t) \/ ClearFound(t) \/ DeleteFixed(t)
    PROVE  StandsAside(t)
<1>1. UNCHANGED <<next, kd>> /\ \E r \in Answer : Answers(t, r)
  BY DEF SearchFound, InsertCount, ClearFound, DeleteFixed, shared, Answer
<1> QED BY <1>1, AnswersAway DEF StandsAside

LEMMA FreezingAside ==
    ASSUME TypeInv, NEW t \in Thread,
           FreezeStart(t) \/ FreezeSwitch(t) \/ StabilizeDone(t) \/ Decide(t)
    PROVE  StandsAside(t)
<1>1. UNCHANGED <<next, kd>> /\ \A u \in Thread \ {t} : my'[u] = my[u]
  BY DEF FreezeStart, FreezeSwitch, StabilizeDone, Decide, shared, TypeInv, TypeOK
<1>2. PICK l \in {"switch", "mark", "recover", "decide"} : Goto(t, l)
  BY DEF FreezeStart, FreezeSwitch, StabilizeDone, Decide
<1>3. Forget(t) \/ UNCHANGED tg
  BY DEF FreezeStart, FreezeSwitch, StabilizeDone, Decide
<1>4. l \in Label \ (FindPC \cup {"ifrom", "ifound", "link", "cnext", "ckey", "dmark", "slotfound"})
  BY DEF Label, FreezePC, FindPC
<1> QED BY <1>1, <1>2, <1>3, <1>4, GotoAway DEF StandsAside

LEMMA ClearHelpAside ==
    ASSUME TypeInv, NEW t \in Thread, ClearHelp(t) PROVE StandsAside(t)
<1>1. UNCHANGED <<next, kd>>
  BY DEF ClearHelp, shared
<1>2. CASE Goto(t, "fault") /\ UNCHANGED <<tg, my>>
  <2>1. "fault" \in Label \ (FindPC \cup {"ifrom", "ifound", "link", "cnext", "ckey", "dmark", "slotfound"})
    BY DEF Label, RestPC, FindPC
  <2> QED BY <1>1, <1>2, <2>1, GotoAway DEF StandsAside
<1>3. CASE CallFreeze(t, "NONE")
  BY <1>1, <1>3, CallFreezeAway DEF StandsAside
<1> QED BY <1>2, <1>3 DEF ClearHelp

LEMMA DeleteCountAside ==
    ASSUME TypeInv, NEW t \in Thread, DeleteCount(t) \/ DeleteUndo(t)
    PROVE  StandsAside(t)
<1>1. UNCHANGED <<next, kd>> /\ my[t] \in Local /\ "dfound" \in Return \ {"ifound", "slotfound"}
  BY DEF DeleteCount, DeleteUndo, Return, TypeInv, TypeOK
<1>2. CallFind(t, my[t], "dfound") \/ CallFreeze(t, "DELETE")
  BY DEF DeleteCount, DeleteUndo
<1> QED BY <1>1, <1>2, CallFindAway, CallFreezeAway DEF StandsAside

LEMMA EnslaveAside ==
    ASSUME TypeInv, NEW t \in Thread, Enslave(t) PROVE StandsAside(t)
<1>1. UNCHANGED <<next, kd>>
  BY DEF Enslave
<1>2. CASE Goto(t, "mark") /\ UNCHANGED tg
           /\ my' = [my EXCEPT ![t].trig = "ENSLAVE", ![t].dec = "R_MERGE"]
  <2>1. "mark" \in Label \ (FindPC \cup {"ifrom", "ifound", "link", "cnext", "ckey", "dmark", "slotfound"})
    BY DEF Label, FreezePC, FindPC
  <2>2. \A u \in Thread \ {t} : my'[u] = my[u]
    BY <1>2 DEF TypeInv, TypeOK
  <2> QED BY <1>1, <1>2, <2>1, <2>2, GotoAway DEF StandsAside
<1>3. CASE CallFreeze(t, "ENSLAVE")
  BY <1>1, <1>3, CallFreezeAway DEF StandsAside
<1> QED BY <1>2, <1>3 DEF Enslave

LEMMA MarkedAllAside ==
    ASSUME TypeInv, NEW t \in Thread, MarkedAll(t) PROVE StandsAside(t)
<1>1. UNCHANGED <<next, kd>> /\ CallFind(t, [my[t] EXCEPT !.scan = 0], "slot")
  BY DEF MarkedAll, shared
<1>2. [my[t] EXCEPT !.scan = 0] \in Local /\ "slot" \in Return \ {"ifound", "slotfound"}
  <2>1. my[t] \in Local /\ 0 \in 0 .. MaxEntries
    BY SizeAssumption DEF TypeInv, TypeOK
  <2>2. [my[t] EXCEPT !.scan = 0] \in Local
    BY <2>1 DEF Local
  <2> QED BY <2>2 DEF Return
<1> QED BY <1>1, <1>2, CallFindAway DEF StandsAside

LEMMA RecoverAside ==
    ASSUME TypeInv, NEW t \in Thread, Recover(t) PROVE StandsAside(t)
<1>1. UNCHANGED <<next, kd>>
  BY DEF Recover, shared
<1>2. [my[t] EXCEPT !.trig = "-"] \in Local /\ "cfound" \in Return \ {"ifound", "slotfound"}
  <2>1. my[t] \in Local
    BY DEF TypeInv, TypeOK
  <2>2. [my[t] EXCEPT !.trig = "-"] \in Local
    BY <2>1 DEF Local
  <2> QED BY <2>2 DEF Return
<1>3. Answers(t, "moved") \/ CallFind(t, [my[t] EXCEPT !.trig = "-"], "cfound")
  BY DEF Recover
<1> QED BY <1>1, <1>2, <1>3, AnswersAway, CallFindAway DEF StandsAside

LEMMA InvokeAside ==
    ASSUME TypeInv, NEW t \in Thread, Invoke(t) PROVE StandsAside(t)
<1>1. UNCHANGED <<next, kd, tg>>
  BY DEF Invoke, shared
<1>2. PICK w \in Work[t] : /\ Goto(t, Start(w.kind))
                           /\ my' = [my EXCEPT ![t].ret = IF w.kind = "search" THEN "sfound" ELSE "-"]
  BY DEF Invoke
<1>3. w.kind \in Kind
  BY WorkAssumption
<1>4. OthersStill(t) /\ pc'[t] \in {"fhead", "alloc", "dec", "slave"} /\ my'[t].ret \in {"sfound", "-"}
  <2>1. Start(w.kind) \in {"fhead", "alloc", "dec", "slave"}
    BY <1>3 DEF Start, Kind
  <2>2. my[t] \in Local
    BY DEF TypeInv, TypeOK
  <2> QED BY <1>1, <1>2, <2>1, <2>2 DEF OthersStill, Goto, TypeInv, TypeOK, Local
<1>5. Away(t)' /\ tg'[t] = tg[t]
  BY <1>1, <1>4 DEF Away
<1> QED BY <1>1, <1>4, <1>5 DEF StandsAside

AsideStep(t) ==
    \/ SearchFound(t) \/ InsertCount(t)  \/ ClearFound(t)    \/ DeleteFixed(t)
    \/ FreezeStart(t) \/ FreezeSwitch(t) \/ StabilizeDone(t) \/ Decide(t)
    \/ ClearHelp(t)   \/ DeleteCount(t)  \/ DeleteUndo(t)    \/ Enslave(t)
    \/ MarkedAll(t)   \/ Recover(t)      \/ Invoke(t)

LEMMA AsideSteps ==
    ASSUME TypeInv, NEW t \in Thread, AsideStep(t) PROVE StandsAside(t)
BY AnsweringAside, FreezingAside, ClearHelpAside, DeleteCountAside, EnslaveAside,
   MarkedAllAside, RecoverAside, InvokeAside DEF AsideStep
-----------------------------------------------------------------------------
(***************************************************************************)
(* find: it reads words of the chunk, and disconnects entries.             *)
(***************************************************************************)
NothingMarked == \A c \in Cell : next'[c].del => next[c].del

LEMMA FindOwn ==
    ASSUME TypeInv, PrivacyInv, NEW t \in Thread, pc[t] \in FindPC, NothingMarked,
           pc'[t] \in FindPC \/ pc'[t] = my[t].ret,
           my'[t].ret = my[t].ret, my'[t].own = my[t].own,
           my'[t].trig = my[t].trig, my'[t].scan = my[t].scan
    PROVE  Own(t)' /\ TakesFree(t)
<1>1. my[t].ret \in Return
  BY DEF TypeInv, TypeOK, Local, ThreadInv, FindInv
<1>2. pc'[t] \notin {"dmark", "cnext", "ckey", "ifrom", "link"}
  BY <1>1 DEF Return, FindPC
<1>3. (Inserting(t)' <=> Inserting(t)) /\ (Choosing(t)' <=> Choosing(t))
  BY <1>1, <1>2 DEF Inserting, Choosing, FindPC, Return
<1>4. my[t].scan \in Cell \/ ~Choosing(t)
  BY SizeAssumption DEF TypeInv, TypeOK, Local, ThreadInv, StableInv, Cell, Slot, End
<1>5. ClearInv(t)' /\ SavedInv(t)'
  BY <1>2 DEF ClearInv, SavedInv
<1>6. ChosenInv(t)'
  BY <1>3, <1>4 DEF PrivacyInv, Own, ChosenInv, NothingMarked
<1>7. TakesFree(t)
  <2>1. pc[t] \notin {"cnext", "ckey"}
    BY DEF FindPC
  <2> QED BY <1>2, <1>3, <2>1 DEF TakesFree, Unlinked
<1> QED BY <1>5, <1>6, <1>7 DEF Own

\* find moves or returns: what happens to the local variables
LEMMA FindMy ==
    ASSUME TypeInv, NEW t \in Thread, pc[t] \in FindPC,
           \/ \E b \in BOOLEAN : FindReturns(t, b)
           \/ UNCHANGED my /\ (UNCHANGED pc \/ \E l \in FindPC : Goto(t, l))
    PROVE  /\ \A u \in Thread \ {t} : pc'[u] = pc[u] /\ my'[u] = my[u]
           /\ pc'[t] \in FindPC \/ pc'[t] = my[t].ret
           /\ my'[t].ret = my[t].ret /\ my'[t].own = my[t].own
           /\ my'[t].trig = my[t].trig /\ my'[t].scan = my[t].scan
<1>1. CASE \E b \in BOOLEAN : FindReturns(t, b)
  BY <1>1, FindReturnsEffect DEF TypeInv, TypeOK
<1>2. CASE UNCHANGED my /\ (UNCHANGED pc \/ \E l \in FindPC : Goto(t, l))
  BY <1>2 DEF TypeInv, TypeOK, Goto
<1> QED BY <1>1, <1>2

LEMMA FindReadPrivate ==
    ASSUME TypeInv, PrivacyInv, NEW t \in Thread, pc[t] \in FindPC, UNCHANGED <<next, kd>>,
           \/ \E b \in BOOLEAN : FindReturns(t, b)
           \/ UNCHANGED my /\ (UNCHANGED pc \/ \E l \in FindPC : Goto(t, l)),
           \A u \in Thread \ {t} : tg'[u] = tg[u],
           Remembers(t)
    PROVE  PrivacyInv'
<1>1. NothingMarked
  BY DEF NothingMarked
<1>2. Own(t)' /\ TakesFree(t) /\ OthersStill(t)
  BY <1>1, FindMy, FindOwn DEF OthersStill
<1> QED BY <1>2, QuietKeeps

LEMMA FindHeadPrivate ==
    ASSUME TypeInv, PrivacyInv, NEW t \in Thread, FindHead(t) PROVE PrivacyInv'
<1>1. /\ pc[t] \in FindPC /\ UNCHANGED <<next, kd>> /\ "fnext" \in FindPC
      /\ tg' = [tg EXCEPT ![t] = [prev |-> EntryHead, cur |-> next[EntryHead], next |-> NoWord]]
  BY DEF FindHead, FindPC, shared
<1>2. \/ \E b \in BOOLEAN : FindReturns(t, b)
      \/ UNCHANGED my /\ (UNCHANGED pc \/ \E l \in FindPC : Goto(t, l))
  BY <1>1 DEF FindHead
<1>3. /\ tg'[t].prev = EntryHead /\ tg'[t].cur = next[EntryHead] /\ tg'[t].next = NoWord
      /\ \A u \in Thread \ {t} : tg'[u] = tg[u]
  BY <1>1 DEF TypeInv, TypeOK
<1>4. Remembers(t)
  BY <1>3, Constants, SizeAssumption DEF Remembers, Referenced, Leads, NoWord, End, Slot, EntryHead
<1> QED BY <1>1, <1>2, <1>3, <1>4, FindReadPrivate

\* find stays, looks at the entry cur, or goes on to it
LEMMA FindNextMoves ==
    ASSUME TypeInv, NEW t \in Thread, FindNext(t)
    PROVE  /\ tg[t].cur.idx \in Slot /\ tg[t].cur.idx \in Cell
           /\ \A u \in Thread \ {t} : tg'[u] = tg[u]
           /\ \/ tg'[t] = tg[t]
              \/ /\ tg'[t].prev = tg[t].prev /\ tg'[t].cur = tg[t].cur
                 /\ tg'[t].next = next[tg[t].cur.idx]
              \/ /\ tg'[t].prev = tg[t].cur.idx /\ tg'[t].cur = next[tg[t].cur.idx]
                 /\ tg'[t].next = next[tg[t].cur.idx]
                 /\ ~StopsAt(kd[tg[t].cur.idx].key, Sought(t))
<1> DEFINE c == tg[t].cur.idx
           w == next[c]
<1>1. c \in Slot /\ c \in Cell
  BY SizeAssumption DEF FindNext, TypeInv, TypeOK, ThreadInv, FindInv, Word, Slot, Cell, End
<1>2. tg[t] \in Place /\ tg \in [Thread -> Place]
  BY DEF TypeInv, TypeOK, Place
<1>3. ASSUME NEW p, tg' = [tg EXCEPT ![t] = p]
      PROVE  tg'[t] = p /\ \A u \in Thread \ {t} : tg'[u] = tg[u]
  BY <1>2, <1>3
<1>4. CASE tg' = tg
  BY <1>1, <1>4
<1>5. CASE tg' = [tg EXCEPT ![t] = [tg[t] EXCEPT !.next = w]]
  <2>1. /\ [tg[t] EXCEPT !.next = w].prev = tg[t].prev
        /\ [tg[t] EXCEPT !.next = w].cur = tg[t].cur
        /\ [tg[t] EXCEPT !.next = w].next = w
    BY <1>2 DEF Place
  <2> QED BY <1>1, <1>3, <1>5, <2>1
<1>6. CASE /\ tg' = [tg EXCEPT ![t] = [prev |-> c, cur |-> w, next |-> w]]
           /\ ~StopsAt(kd[c].key, Sought(t))
  <2>1. tg'[t] = [prev |-> c, cur |-> w, next |-> w]
    BY <1>3, <1>6
  <2> QED BY <1>1, <1>3, <1>6, <2>1
<1>7. \/ tg' = tg
      \/ tg' = [tg EXCEPT ![t] = [tg[t] EXCEPT !.next = w]]
      \/ /\ tg' = [tg EXCEPT ![t] = [prev |-> c, cur |-> w, next |-> w]]
         /\ ~StopsAt(kd[c].key, Sought(t))
  BY DEF FindNext
<1> QED BY <1>4, <1>5, <1>6, <1>7

LEMMA FindNextPrivate ==
    ASSUME TypeInv, PrivacyInv, NEW t \in Thread, FindNext(t) PROVE PrivacyInv'
<1>1. pc[t] \in FindPC /\ UNCHANGED <<next, kd>> /\ {"fhead", "funlink"} \subseteq FindPC
  BY DEF FindNext, FindPC, shared
<1>2. \/ \E b \in BOOLEAN : FindReturns(t, b)
      \/ UNCHANGED my /\ (UNCHANGED pc \/ \E l \in FindPC : Goto(t, l))
  BY <1>1 DEF FindNext
<1>3. Remembers(t)
  BY FindNextMoves DEF Remembers, Referenced, Leads
<1> QED BY <1>1, <1>2, <1>3, FindNextMoves, FindReadPrivate

(***************************************************************************)
(* A word redirected to i, which is referenced already or not private.     *)
(***************************************************************************)
LEMMA RedirectFacts ==
    ASSUME TypeInv, NEW c \in Cell, NEW i \in 0 .. MaxEntries,
           next' = [next EXCEPT ![c] = Bump(next[c], i)], kd' = kd
    PROVE  /\ AllFrozen => AllFrozen'
           /\ NothingMarked
           /\ \A d \in Cell : next'[d].idx = next[d].idx \/ next'[d].idx = i
<1>1. next[c] \in Word
  BY DEF TypeInv, TypeOK
<1>2. Bump(next[c], i) \in Word /\ Bump(next[c], i).frz = next[c].frz /\ Bump(next[c], i).idx = i
  BY <1>1, BumpType
<1>3. Bump(next[c], i).del = next[c].del
  BY <1>1 DEF Bump, Word
<1>4. AllFrozen => AllFrozen'
  BY <1>2, FrozenKept DEF TypeInv
<1>5. \A d \in Cell : next'[d] = IF d = c THEN Bump(next[c], i) ELSE next[d]
  BY DEF TypeInv, TypeOK
<1> QED BY <1>2, <1>3, <1>4, <1>5 DEF NothingMarked

LEMMA RedirectPrivate ==
    ASSUME TypeInv, PrivacyInv, NEW t \in Thread, NEW c \in Cell, NEW i \in 0 .. MaxEntries,
           next' = [next EXCEPT ![c] = Bump(next[c], i)], kd' = kd,
           OthersStill(t), TakesFree(t), Own(t)', Remembers(t),
           i \in Slot => AllFrozen \/ Referenced(i) \/ ~Private(i)'
    PROVE  PrivacyInv'
<1>1. /\ AllFrozen => AllFrozen'
      /\ NothingMarked
      /\ \A d \in Cell : next'[d].idx = next[d].idx \/ next'[d].idx = i
  BY RedirectFacts
<1>2. FreesOwn(t) /\ MarksUnfrozen(t)
  BY <1>1 DEF FreesOwn, MarksUnfrozen, NothingMarked
<1>3. RefersToPublic
  <2> SUFFICES ASSUME ~AllFrozen', NEW e \in Slot, Referenced(e)', ~Referenced(e) PROVE ~Private(e)'
    BY DEF RefersToPublic
  <2>1. ~\E u \in Thread : Leads(tg'[u], e)
    <3> SUFFICES ASSUME NEW u \in Thread, Leads(tg'[u], e) PROVE FALSE
      OBVIOUS
    <3> QED BY DEF Remembers, OthersStill, Referenced
  <2>2. PICK d \in Cell : next'[d].idx = e
    BY <2>1 DEF Referenced, Leads
  <2>3. e = i
    BY <1>1, <2>2 DEF Referenced, Leads
  <2> QED BY <1>1, <2>3
<1> QED BY <1>1, <1>2, <1>3, EffectKeeps

\* find stays, or makes the word of prev and cur those of the successor
LEMMA FindUnlinkMoves ==
    ASSUME TypeInv, NEW t \in Thread, FindUnlink(t)
    PROVE  /\ \A u \in Thread \ {t} : tg'[u] = tg[u]
           /\ \/ UNCHANGED <<next, tg>>
              \/ /\ tg[t].prev \in Cell /\ tg[t].next.idx \in 0 .. MaxEntries
                 /\ next' = [next EXCEPT ![tg[t].prev] = Bump(next[tg[t].prev], tg[t].next.idx)]
                 /\ tg'[t].prev = tg[t].prev /\ tg'[t].next = tg[t].next
                 /\ tg'[t].cur.idx = tg[t].next.idx
<1>1. tg[t] \in Place /\ tg \in [Thread -> Place]
  BY DEF TypeInv, TypeOK, Place
<1>2. CASE next[tg[t].prev] # tg[t].cur
  BY <1>2 DEF FindUnlink
<1>3. CASE next[tg[t].prev] = tg[t].cur
  <2> DEFINE i == tg[t].next.idx
             x == [tg[t].next EXCEPT !.del = FALSE]
  <2>1. tg[t].prev \in Cell /\ i \in 0 .. MaxEntries /\ x.idx = i
    BY <1>1 DEF Place, Word
  <2>2. /\ next' = [next EXCEPT ![tg[t].prev] = Bump(next[tg[t].prev], i)]
        /\ tg' = [tg EXCEPT ![t] = [tg[t] EXCEPT !.cur = x]]
    BY <1>3 DEF FindUnlink
  <2>3. /\ [tg[t] EXCEPT !.cur = x].prev = tg[t].prev
        /\ [tg[t] EXCEPT !.cur = x].cur = x
        /\ [tg[t] EXCEPT !.cur = x].next = tg[t].next
    BY <1>1 DEF Place
  <2> QED BY <1>1, <2>1, <2>2, <2>3
<1> QED BY <1>2, <1>3

LEMMA FindUnlinkPrivate ==
    ASSUME TypeInv, PrivacyInv, NEW t \in Thread, FindUnlink(t) PROVE PrivacyInv'
<1>1. pc[t] \in FindPC /\ kd' = kd /\ {"fhead", "fnext"} \subseteq FindPC
  BY DEF FindUnlink, FindPC
<1>2. \/ \E b \in BOOLEAN : FindReturns(t, b)
      \/ UNCHANGED my /\ (UNCHANGED pc \/ \E l \in FindPC : Goto(t, l))
  BY <1>1 DEF FindUnlink
<1>3. CASE UNCHANGED <<next, tg>>
  BY <1>1, <1>2, <1>3, NoPlaceRemembers, FindReadPrivate
<1>4. CASE ~UNCHANGED <<next, tg>>
  <2> DEFINE c == tg[t].prev
             i == tg[t].next.idx
  <2>1. c \in Cell /\ i \in 0 .. MaxEntries /\ next' = [next EXCEPT ![c] = Bump(next[c], i)]
    BY <1>4, FindUnlinkMoves
  <2>2. Remembers(t) /\ Referenced(i)
    BY <1>4, FindUnlinkMoves DEF Remembers, Referenced, Leads
  <2>3. NothingMarked
    BY <1>1, <2>1, RedirectFacts
  <2>4. Own(t)' /\ TakesFree(t) /\ OthersStill(t)
    BY <1>1, <1>2, <2>3, FindUnlinkMoves, FindMy, FindOwn DEF OthersStill
  <2> QED BY <1>1, <2>1, <2>2, <2>4, RedirectPrivate
<1> QED BY <1>3, <1>4
-----------------------------------------------------------------------------
(***************************************************************************)
(* insertToChunk and insertEntry.                                          *)
(***************************************************************************)
\* t goes on inserting, or begins to
LEMMA AllocatePrivate ==
    ASSUME TypeInv, PrivacyInv, NEW t \in Thread, Allocate(t) PROVE PrivacyInv'
<1>1. UNCHANGED next /\ my[t].own = End /\ my[t].trig = "-" /\ pc[t] = "alloc" /\ my[t] \in Local
  BY DEF Allocate, TypeInv, TypeOK, ThreadInv, OwnInv
<1>2. CASE CallFreeze(t, "INSERT") /\ UNCHANGED kd
  BY <1>1, <1>2, CallFreezeAway, AwayKeeps DEF StandsAside
<1> DEFINE s == my[t].scan
<1>3. CASE /\ s < MaxEntries /\ kd[s] = [key |-> NoKey, frz |-> FALSE]
           /\ kd' = [kd EXCEPT ![s].key = call[t].key]
           /\ my' = [my EXCEPT ![t].own = s] /\ Goto(t, "ifrom") /\ UNCHANGED tg
  <2>1. s \in Slot
    BY <1>1, <1>3, SizeAssumption DEF Local, Slot
  <2>2. my'[t] = [my[t] EXCEPT !.own = s] /\ pc'[t] = "ifrom" /\ OthersStill(t) /\ tg' = tg
    BY <1>3 DEF Goto, OthersStill, TypeInv, TypeOK
  <2>3. my'[t].own = s /\ my'[t].trig = "-"
    BY <1>1, <2>2 DEF Local
  <2>4. TakesFree(t)
    BY <1>3, <2>3 DEF TakesFree
  <2>5. FreesOwn(t)
    <3>1. call[t].key # NoKey
      BY SizeAssumption DEF TypeInv, TypeOK, Key, NoKey
    <3>2. \A e \in Slot : e # s => kd'[e] = kd[e]
      BY <1>3, <2>1 DEF TypeInv, TypeOK
    <3> QED BY <1>3, <3>2 DEF FreesOwn
  <2>6. MarksUnfrozen(t) /\ RefersToPublic
    BY <1>1, <2>2 DEF MarksUnfrozen, RefersToPublic, Referenced
  <2>7. ~AllFrozen
    BY <1>3, <2>1, Constants, SizeAssumption DEF AllFrozen, KeyFrozen, EntryHead, Slot
  <2>8. Own(t)'
    BY <2>2, <2>3 DEF Own, ClearInv, SavedInv, ChosenInv, Choosing, Inserting, FindPC
  <2> QED BY <2>2, <2>4, <2>5, <2>6, <2>7, <2>8, EffectKeeps
<1>4. CASE UNCHANGED <<pc, kd, tg>> /\ my' = [my EXCEPT ![t].scan = @ + 1]
  <2>1. OthersStill(t) /\ pc'[t] = "alloc" /\ tg'[t] = tg[t]
    BY <1>1, <1>4 DEF OthersStill, TypeInv, TypeOK
  <2>2. Away(t)'
    BY <2>1 DEF Away, FindPC
  <2> QED BY <1>1, <1>4, <2>1, <2>2, NoPlaceRemembers, AwayKeeps DEF StandsAside
<1> QED BY <1>2, <1>3, <1>4 DEF Allocate

\* insertEntry goes on with the same entry, and marks nothing
LEMMA InsertingOwn ==
    ASSUME TypeInv, PrivacyInv, NEW t \in Thread, Inserting(t), NothingMarked, Inserting(t)',
           pc'[t] \notin {"cnext", "ckey", "dmark", "slotfound"},
           pc'[t] \in FindPC => my'[t].ret = "ifound",
           my'[t].own = my[t].own, my'[t].trig = my[t].trig, my'[t].scan = my[t].scan
    PROVE  Own(t)' /\ TakesFree(t)
<1>1. Choosing(t)' <=> my[t].trig # "-"
  BY DEF Choosing
<1>2. my[t].trig # "-" => ~next[my[t].scan].del /\ my[t].scan \in Cell
  <2> SUFFICES ASSUME my[t].trig # "-" PROVE ~next[my[t].scan].del /\ my[t].scan \in Cell
    OBVIOUS
  <2>1. Choosing(t)
    BY DEF Choosing
  <2>2. my[t].scan \in Cell
    BY <2>1, SizeAssumption DEF TypeInv, TypeOK, Local, ThreadInv, StableInv, Cell, Slot, End
  <2> QED BY <2>1, <2>2 DEF PrivacyInv, Own, ChosenInv
<1>3. ChosenInv(t)'
  BY <1>1, <1>2 DEF ChosenInv, NothingMarked
<1>4. ClearInv(t)' /\ SavedInv(t)' /\ TakesFree(t)
  BY DEF ClearInv, SavedInv, TakesFree, Unlinked
<1> QED BY <1>3, <1>4 DEF Own

LEMMA InsertFromPrivate ==
    ASSUME TypeInv, PrivacyInv, NEW t \in Thread, InsertFrom(t) PROVE PrivacyInv'
<1>1. Inserting(t) /\ UNCHANGED <<next, kd>> /\ my[t] \in Local
  BY DEF InsertFrom, Inserting, shared, TypeInv, TypeOK
<1>2. Ent(t) \in Cell
  BY <1>1, EntryAtHand
<1>3. next[Ent(t)] \in Word
  BY <1>2 DEF TypeInv, TypeOK
<1> DEFINE m == [my[t] EXCEPT !.saved = next[Ent(t)]]
           n == [m EXCEPT !.ret = "ifound", !.found = FALSE]
<1>4. m \in Local /\ m.own = my[t].own /\ m.trig = my[t].trig /\ m.scan = my[t].scan
  BY <1>1, <1>3 DEF Local
<1>5. n.ret = "ifound" /\ n.own = my[t].own /\ n.trig = my[t].trig /\ n.scan = my[t].scan
  BY <1>4 DEF Local
<1>6. my' = [my EXCEPT ![t] = n] /\ pc' = [pc EXCEPT ![t] = "fhead"] /\ tg' = [tg EXCEPT ![t] = NoPlace]
  BY DEF InsertFrom, CallFind, Goto, Forget
<1>7. my'[t] = n /\ pc'[t] = "fhead" /\ tg'[t] = NoPlace /\ OthersStill(t)
  BY <1>6 DEF OthersStill, TypeInv, TypeOK
<1>8. NothingMarked /\ Inserting(t)'
  BY <1>1, <1>5, <1>7 DEF NothingMarked, Inserting, FindPC
<1>9. Own(t)' /\ TakesFree(t)
  BY <1>1, <1>5, <1>7, <1>8, InsertingOwn
<1> QED BY <1>1, <1>7, <1>9, NoPlaceRemembers, QuietKeeps

LEMMA InsertFoundPrivate ==
    ASSUME TypeInv, PrivacyInv, NEW t \in Thread, InsertFound(t) PROVE PrivacyInv'
<1> DEFINE e == Ent(t)
<1>1. Inserting(t) /\ pc[t] = "ifound" /\ kd' = kd
  BY DEF InsertFound, Inserting
<1>2. e \in Cell
  BY <1>1, EntryAtHand
<1>3. CASE NextSlot(t) /\ UNCHANGED <<next, history>>
  BY <1>1, <1>3, NextSlotAway, AwayKeeps DEF StandsAside
<1>4. CASE Answers(t, "TRUE") /\ UNCHANGED next
  BY <1>1, <1>4, AnswersAway, AwayKeeps DEF StandsAside
<1>5. CASE my[t].trig = "-" /\ Goto(t, "cnext") /\ UNCHANGED <<next, tg, my, history>>
  <2>1. OthersStill(t) /\ pc'[t] = "cnext" /\ my' = my /\ tg'[t] = tg[t]
    BY <1>5 DEF OthersStill, Goto, TypeInv, TypeOK
  <2>2. Own(t)'
    BY <1>5, <2>1 DEF Own, ClearInv, SavedInv, ChosenInv, Choosing, Inserting, FindPC
  <2>3. TakesFree(t)
    BY <1>1, <1>5, <2>1 DEF TakesFree, Unlinked
  <2> QED BY <1>1, <1>5, <2>1, <2>2, <2>3, NoPlaceRemembers, QuietKeeps
<1>6. CASE /\ next[e] = my[t].saved /\ next' = [next EXCEPT ![e] = Bump(my[t].saved, Ahead(t))]
           /\ Goto(t, "link") /\ UNCHANGED <<tg, my, history>>
  <2> DEFINE i == tg[t].cur.idx
  <2>1. /\ i \in 0 .. MaxEntries /\ next' = [next EXCEPT ![e] = Bump(next[e], i)]
    BY <1>6 DEF Ahead, TypeInv, TypeOK, Word
  <2>2. OthersStill(t) /\ pc'[t] = "link" /\ my' = my /\ tg'[t] = tg[t]
    BY <1>6 DEF OthersStill, Goto, TypeInv, TypeOK
  <2>3. NothingMarked
    BY <1>1, <1>2, <2>1, RedirectFacts
  <2>4. Inserting(t)'
    BY <2>2 DEF Inserting
  <2>5. Own(t)' /\ TakesFree(t)
    BY <1>1, <2>2, <2>3, <2>4, InsertingOwn DEF FindPC
  <2>6. Referenced(i)
    BY DEF Referenced, Leads
  <2> QED BY <1>1, <1>2, <2>1, <2>2, <2>5, <2>6, NoPlaceRemembers, RedirectPrivate
<1>7. CASE Goto(t, "ifrom") /\ UNCHANGED <<next, tg, my, history>>
  <2>1. OthersStill(t) /\ pc'[t] = "ifrom" /\ my' = my /\ tg'[t] = tg[t]
    BY <1>7 DEF OthersStill, Goto, TypeInv, TypeOK
  <2>2. NothingMarked /\ Inserting(t)'
    BY <1>7, <2>1 DEF NothingMarked, Inserting
  <2>3. Own(t)' /\ TakesFree(t)
    BY <1>1, <2>1, <2>2, InsertingOwn DEF FindPC
  <2> QED BY <1>1, <1>7, <2>1, <2>3, NoPlaceRemembers, QuietKeeps
<1> QED BY <1>3, <1>4, <1>5, <1>6, <1>7 DEF InsertFound

LEMMA InsertLinkPrivate ==
    ASSUME TypeInv, PrivacyInv, NEW t \in Thread, InsertLink(t) PROVE PrivacyInv'
<1> DEFINE c == tg[t].prev
<1>1. Inserting(t) /\ pc[t] = "link" /\ kd' = kd
  BY DEF InsertLink, Inserting
<1>2. /\ Ent(t) \in Slot /\ kd[Ent(t)].key \in Key /\ (my[t].trig = "-" => my[t].own # End)
      /\ my[t].trig # "-" => AllFrozen
  BY <1>1, EntryAtHand
<1>0. PICK e \in Slot : e = Ent(t)
  BY <1>2
<1>3. CASE Goto(t, "ifrom") /\ UNCHANGED <<next, tg, my, history>>
  <2>1. OthersStill(t) /\ pc'[t] = "ifrom" /\ my' = my /\ tg'[t] = tg[t]
    BY <1>3 DEF OthersStill, Goto, TypeInv, TypeOK
  <2>2. NothingMarked /\ Inserting(t)'
    BY <1>3, <2>1 DEF NothingMarked, Inserting
  <2>3. Own(t)' /\ TakesFree(t)
    BY <1>1, <2>1, <2>2, InsertingOwn DEF FindPC
  <2> QED BY <1>1, <1>3, <2>1, <2>3, NoPlaceRemembers, QuietKeeps
<1>4. CASE /\ next[c] = tg[t].cur
           /\ next' = [next EXCEPT ![c] = Bump(tg[t].cur, e)]
           /\ IF my[t].trig = "-" THEN Goto(t, "inc") /\ UNCHANGED <<tg, my>>
                                  ELSE NextSlot(t)
  <2>1. c \in Cell /\ e \in 0 .. MaxEntries /\ next' = [next EXCEPT ![c] = Bump(next[c], e)]
    BY <1>2, <1>4, SizeAssumption DEF TypeInv, TypeOK, Slot
  <2>2. CASE my[t].trig = "-"
    <3>1. "inc" \in Label \ (FindPC \cup {"ifrom", "ifound", "link", "cnext", "ckey", "dmark", "slotfound"})
      BY DEF Label, InsertPC, FindPC
    <3>2. \A u \in Thread \ {t} : my'[u] = my[u]
      BY <1>4, <2>2
    <3>3. OthersStill(t) /\ Away(t)' /\ Remembers(t)
      BY <1>4, <2>2, <3>1, <3>2, GotoAway, NoPlaceRemembers
    <3>4. Own(t)' /\ ~Unlinked(t)'
      BY <3>3 DEF Away, Own, ClearInv, SavedInv, ChosenInv, Unlinked, Inserting, Choosing
    <3>5. ~Private(e)'
      <4>1. kd'[e].key # NoKey
        BY <1>1, <1>2, <1>0, SizeAssumption DEF Key, NoKey
      <4>2. ASSUME NEW u \in Thread, u # t PROVE my'[u].own # e
        BY <1>2, <1>0, <2>2, <3>3, <4>2 DEF Ent, TypeInv, OwnDistinct, OthersStill
      <4> QED BY <3>4, <4>1, <4>2 DEF Private
    <3> QED BY <1>1, <2>1, <3>3, <3>4, <3>5, RedirectPrivate DEF TakesFree
  <2>3. CASE my[t].trig # "-"
    <3>1. OthersStill(t) /\ Away(t)' /\ Remembers(t)
      BY <1>4, <2>3, NextSlotAway, NoPlaceRemembers
    <3>2. Own(t)' /\ ~Unlinked(t)'
      BY <3>1 DEF Away, Own, ClearInv, SavedInv, ChosenInv, Unlinked, Inserting, Choosing
    <3> QED BY <1>1, <1>2, <2>1, <2>3, <3>1, <3>2, RedirectPrivate DEF TakesFree
  <2> QED BY <2>2, <2>3
<1> QED BY <1>0, <1>3, <1>4 DEF InsertLink
-----------------------------------------------------------------------------
(***************************************************************************)
(* clearEntry: until it meets the freeze, the entry stays private.         *)
(***************************************************************************)
LEMMA ClearNextPrivate ==
    ASSUME TypeInv, PrivacyInv, NEW t \in Thread, ClearNext(t) PROVE PrivacyInv'
<1>1. pc[t] = "cnext" /\ my[t].trig = "-" /\ UNCHANGED <<kd, my, tg>>
  BY DEF ClearNext, PrivacyInv, Own, ClearInv
<1>2. my[t].own \in Cell
  BY <1>1, SizeAssumption DEF TypeInv, TypeOK, ThreadInv, OwnInv, Local, Cell, Slot, End
<1>3. CASE ~next[my[t].own].frz /\ next' = [next EXCEPT ![my[t].own] = NoWord] /\ Goto(t, "ckey")
  <2>1. OthersStill(t) /\ pc'[t] = "ckey"
    BY <1>1, <1>3 DEF OthersStill, Goto, TypeInv, TypeOK
  <2>2. \A c \in Cell : next'[c] = next[c] \/ next'[c] = NoWord
    BY <1>3 DEF TypeInv, TypeOK
  <2>3. ~AllFrozen
    BY <1>2, <1>3 DEF AllFrozen
  <2>4. MarksUnfrozen(t) /\ FreesOwn(t) /\ TakesFree(t)
    BY <1>1, <2>1, <2>2 DEF MarksUnfrozen, FreesOwn, TakesFree, Unlinked, NoWord
  <2>5. RefersToPublic
    <3>1. \A e \in Slot : NoWord.idx # e
      BY SizeAssumption DEF NoWord, End, Slot
    <3> QED BY <1>1, <2>2, <3>1 DEF RefersToPublic, Referenced
  <2>6. Own(t)'
    BY <1>1, <2>1 DEF Own, ClearInv, SavedInv, ChosenInv, Choosing, Inserting, FindPC
  <2> QED BY <2>1, <2>3, <2>4, <2>5, <2>6, EffectKeeps
<1>4. CASE Goto(t, "chelp") /\ UNCHANGED next
  <2>1. "chelp" \in Label \ (FindPC \cup {"ifrom", "ifound", "link", "cnext", "ckey", "dmark", "slotfound"})
    BY DEF Label, InsertPC, FindPC
  <2> QED BY <1>1, <1>4, <2>1, GotoAway, AwayKeeps DEF StandsAside
<1> QED BY <1>3, <1>4 DEF ClearNext

LEMMA ClearKeyPrivate ==
    ASSUME TypeInv, PrivacyInv, NEW t \in Thread, ClearKey(t) PROVE PrivacyInv'
<1> DEFINE s == my[t].own
<1>1. pc[t] = "ckey" /\ my[t].trig = "-" /\ UNCHANGED next
  BY DEF ClearKey, PrivacyInv, Own, ClearInv
<1>2. s \in Slot /\ s \in Cell /\ s # EntryHead
  BY <1>1, SizeAssumption DEF TypeInv, TypeOK, ThreadInv, OwnInv, Local, Cell, Slot, End, EntryHead
<1>3. CASE Goto(t, "chelp") /\ UNCHANGED <<kd, tg, my, history>>
  <2>1. "chelp" \in Label \ (FindPC \cup {"ifrom", "ifound", "link", "cnext", "ckey", "dmark", "slotfound"})
    BY DEF Label, InsertPC, FindPC
  <2> QED BY <1>1, <1>3, <2>1, GotoAway, AwayKeeps DEF StandsAside
<1>4. CASE ~kd[s].frz /\ kd' = [kd EXCEPT ![s].key = NoKey] /\ Answers(t, "FALSE")
  <2>1. OthersStill(t) /\ Away(t)' /\ Remembers(t)
    BY <1>4, AnswersAway, NoPlaceRemembers
  <2>2. Own(t)' /\ ~Unlinked(t)'
    BY <2>1 DEF Away, Own, ClearInv, SavedInv, ChosenInv, Unlinked, Inserting, Choosing
  <2>3. ~AllFrozen
    BY <1>2, <1>4 DEF AllFrozen, KeyFrozen
  <2>4. \A e \in Slot : e # s => kd'[e] = kd[e]
    BY <1>4 DEF TypeInv, TypeOK
  <2>5. FreesOwn(t) /\ MarksUnfrozen(t)
    BY <1>1, <2>4 DEF FreesOwn, Unlinked, MarksUnfrozen
  <2>6. RefersToPublic
    BY <1>1, <2>1 DEF RefersToPublic, Referenced, OthersStill, Remembers
  <2> QED BY <2>1, <2>2, <2>3, <2>5, <2>6, EffectKeeps DEF TakesFree
<1> QED BY <1>3, <1>4 DEF ClearKey
-----------------------------------------------------------------------------
(***************************************************************************)
(* deleteInChunk: what it marks is referenced and not frozen.              *)
(***************************************************************************)
LEMMA DeleteFoundPrivate ==
    ASSUME TypeInv, PrivacyInv, NEW t \in Thread, DeleteFound(t) PROVE PrivacyInv'
<1>1. UNCHANGED <<next, kd>> /\ pc[t] = "dfound" /\ my[t] \in Local
  BY DEF DeleteFound, TypeInv, TypeOK
<1>2. CASE Answers(t, "FALSE")
  BY <1>1, <1>2, AnswersAway, AwayKeeps DEF StandsAside
<1>3. CASE my[t].found /\ my' = [my EXCEPT ![t].saved = Unmarked(next[tg[t].cur.idx])]
           /\ Goto(t, "dmark") /\ UNCHANGED tg
  <2>1. tg[t].cur.idx \in Cell
    BY <1>1, <1>3, SizeAssumption DEF TypeInv, TypeOK, ThreadInv, FindInv, Word, Cell, Slot, End
  <2>2. next[tg[t].cur.idx] \in Word
    BY <2>1 DEF TypeInv, TypeOK
  <2>3. ~Unmarked(next[tg[t].cur.idx]).frz
    BY <2>2 DEF Unmarked, Word
  <2> DEFINE w == Unmarked(next[tg[t].cur.idx])
  <2>4. my'[t] = [my[t] EXCEPT !.saved = w] /\ pc'[t] = "dmark" /\ OthersStill(t) /\ tg' = tg
    BY <1>3 DEF OthersStill, Goto, TypeInv, TypeOK
  <2>5. my'[t].saved = w
    <3> HIDE DEF w
    <3> QED BY <1>1, <2>4 DEF Local
  <2>6. Own(t)' /\ TakesFree(t)
    BY <2>3, <2>4, <2>5
       DEF Own, ClearInv, SavedInv, ChosenInv, Choosing, Inserting, FindPC, TakesFree, Unlinked
  <2> QED BY <1>1, <2>4, <2>6, NoPlaceRemembers, QuietKeeps
<1> QED BY <1>2, <1>3 DEF DeleteFound

LEMMA DeleteMarkPrivate ==
    ASSUME TypeInv, PrivacyInv, NEW t \in Thread, DeleteMark(t) PROVE PrivacyInv'
<1> DEFINE c == tg[t].cur.idx
<1>1. pc[t] = "dmark" /\ kd' = kd /\ my[t] \in Local /\ ~my[t].saved.frz
  BY DEF DeleteMark, PrivacyInv, Own, SavedInv, TypeInv, TypeOK
<1>2. c \in Cell
  BY <1>1, SizeAssumption DEF TypeInv, TypeOK, ThreadInv, FindInv, Word, Cell, Slot, End
<1>3. CASE /\ next[c] = my[t].saved
           /\ next' = [next EXCEPT ![c] = [Bump(@, @.idx) EXCEPT !.del = TRUE]]
           /\ Goto(t, "dunlink") /\ UNCHANGED <<tg, my>>
  <2> DEFINE w == [Bump(next[c], next[c].idx) EXCEPT !.del = TRUE]
  <2>1. next[c] \in Word
    BY <1>2 DEF TypeInv, TypeOK
  <2>2. w.idx = next[c].idx
    BY <2>1 DEF Bump, Word
  <2>3. \A d \in Cell : next'[d] = IF d = c THEN w ELSE next[d]
    BY <1>2, <1>3 DEF TypeInv, TypeOK
  <2>4. Referenced(c) /\ ~next[c].frz
    BY <1>1, <1>3 DEF Referenced, Leads
  <2>5. MarksUnfrozen(t) /\ FreesOwn(t)
    BY <1>1, <2>3, <2>4 DEF MarksUnfrozen, FreesOwn
  <2>6. RefersToPublic
    <3>1. \A d \in Cell : next'[d].idx = next[d].idx
      BY <2>2, <2>3
    <3> QED BY <1>3, <3>1 DEF RefersToPublic, Referenced
  <2>7. ~AllFrozen
    BY <1>2, <2>4 DEF AllFrozen
  <2>8. "dunlink" \in Label \ (FindPC \cup {"ifrom", "ifound", "link", "cnext", "ckey", "dmark", "slotfound"})
    BY DEF Label, DeletePC, FindPC
  <2>9. OthersStill(t) /\ Away(t)'
    BY <1>3, <2>8, GotoAway, NoPlaceRemembers
  <2>10. Own(t)' /\ TakesFree(t)
    BY <2>9 DEF Away, Own, ClearInv, SavedInv, ChosenInv, Unlinked, Inserting, Choosing, TakesFree
  <2> QED BY <2>5, <2>6, <2>7, <2>9, <2>10, EffectKeeps
<1>4. CASE Goto(t, "dundo") /\ UNCHANGED <<next, tg, my>>
  <2>1. "dundo" \in Label \ (FindPC \cup {"ifrom", "ifound", "link", "cnext", "ckey", "dmark", "slotfound"})
    BY DEF Label, DeletePC, FindPC
  <2> QED BY <1>1, <1>4, <2>1, GotoAway, AwayKeeps DEF StandsAside
<1>5. CASE CallFind(t, my[t], "dfound") /\ UNCHANGED next
  <2>1. "dfound" \in Return \ {"ifound", "slotfound"}
    BY DEF Return
  <2> QED BY <1>1, <1>5, <2>1, CallFindAway, AwayKeeps DEF StandsAside
<1> QED BY <1>3, <1>4, <1>5 DEF DeleteMark

LEMMA DeleteUnlinkPrivate ==
    ASSUME TypeInv, PrivacyInv, NEW t \in Thread, DeleteUnlink(t) PROVE PrivacyInv'
<1>1. kd' = kd /\ my[t] \in Local
  BY DEF DeleteUnlink, TypeInv, TypeOK
<1> DEFINE c == tg[t].prev
           i == tg[t].next.idx
<1>2. CASE /\ next[c] = tg[t].cur /\ next' = [next EXCEPT ![c] = Bump(tg[t].cur, i)]
           /\ Answers(t, "TRUE")
  <2>1. c \in Cell /\ i \in 0 .. MaxEntries /\ next' = [next EXCEPT ![c] = Bump(next[c], i)]
    BY <1>2 DEF TypeInv, TypeOK, Word
  <2>2. OthersStill(t) /\ Away(t)' /\ Remembers(t)
    BY <1>2, AnswersAway, NoPlaceRemembers
  <2>3. Own(t)' /\ TakesFree(t)
    BY <2>2 DEF Away, Own, ClearInv, SavedInv, ChosenInv, Unlinked, Inserting, Choosing, TakesFree
  <2>4. Referenced(i)
    BY DEF Referenced, Leads
  <2> QED BY <1>1, <2>1, <2>2, <2>3, <2>4, RedirectPrivate
<1>3. CASE CallFind(t, my[t], "dfix") /\ UNCHANGED next
  <2>1. "dfix" \in Return \ {"ifound", "slotfound"}
    BY DEF Return
  <2> QED BY <1>1, <1>3, <2>1, CallFindAway, AwayKeeps DEF StandsAside
<1> QED BY <1>2, <1>3 DEF DeleteUnlink
-----------------------------------------------------------------------------
(***************************************************************************)
(* The freeze: stabilizeChunk chooses entries that are not deleted.        *)
(***************************************************************************)
LEMMA MarkFrozenPrivate ==
    ASSUME TypeInv, PrivacyInv, NEW t \in Thread, MarkFrozen(t) PROVE PrivacyInv'
<1>1. PICK c \in ToBeFrozen :
        IF ~next[c].frz THEN next' = [next EXCEPT ![c].frz = TRUE] /\ UNCHANGED kd
                        ELSE kd' = [kd EXCEPT ![c].frz = TRUE] /\ UNCHANGED next
  BY DEF MarkFrozen
<1>2. UNCHANGED <<pc, tg, my>> /\ pc[t] = "mark"
  BY DEF MarkFrozen
<1>3. c \in Cell /\ (next[c].frz => c \in Slot) /\ ~AllFrozen
  BY <1>1 DEF ToBeFrozen, KeyFrozen, AllFrozen, Cell
<1>4. \A d \in Cell : next'[d].idx = next[d].idx /\ next'[d].del = next[d].del
  <2>1. \A d \in Cell : next[d] \in Word
    BY DEF TypeInv, TypeOK
  <2>2. \A d \in Cell : next'[d] = next[d] \/ next'[d] = [next[d] EXCEPT !.frz = TRUE]
    BY <1>1, <1>3 DEF TypeInv, TypeOK
  <2> QED BY <2>1, <2>2 DEF Word
<1>5. \A s \in Slot : kd'[s].key = kd[s].key
  <2>1. \A s \in Slot : kd[s] \in KeyWord
    BY DEF TypeInv, TypeOK
  <2>2. \A s \in Slot : kd'[s] = kd[s] \/ kd'[s] = [kd[s] EXCEPT !.frz = TRUE]
    BY <1>1, <1>3 DEF TypeInv, TypeOK
  <2> QED BY <2>1, <2>2 DEF KeyWord
<1>6. OthersStill(t) /\ FreesOwn(t) /\ MarksUnfrozen(t) /\ RefersToPublic
  BY <1>2, <1>4, <1>5 DEF OthersStill, FreesOwn, MarksUnfrozen, RefersToPublic, Referenced
<1>7. Own(t)' /\ TakesFree(t)
  BY <1>2 DEF Own, ClearInv, SavedInv, ChosenInv, Unlinked, Inserting, Choosing, TakesFree, FindPC
<1> QED BY <1>3, <1>6, <1>7, EffectKeeps

LEMMA StabilizeNextPrivate ==
    ASSUME TypeInv, PrivacyInv, NEW t \in Thread, StabilizeNext(t) PROVE PrivacyInv'
<1>1. UNCHANGED <<next, kd>> /\ my[t] \in Local /\ pc[t] = "slot"
  BY DEF StabilizeNext, shared, TypeInv, TypeOK
<1>2. PICK s \in Pending(my[t].scan) : CallFind(t, [my[t] EXCEPT !.scan = s], "slotfound")
  BY DEF StabilizeNext
<1>3. s \in Slot /\ s \in 0 .. MaxEntries /\ ~next[s].del
  BY <1>2, SizeAssumption DEF Pending, Slot
<1> DEFINE m == [my[t] EXCEPT !.scan = s]
           n == [m EXCEPT !.ret = "slotfound", !.found = FALSE]
<1>4. m \in Local /\ m.scan = s
  BY <1>1, <1>3 DEF Local
<1>5. n.ret = "slotfound" /\ n.scan = s
  BY <1>4 DEF Local
<1>6. my'[t] = n /\ pc'[t] = "fhead" /\ tg'[t] = NoPlace /\ OthersStill(t)
  BY <1>2 DEF CallFind, Goto, Forget, OthersStill, TypeInv, TypeOK
<1>7. Own(t)' /\ TakesFree(t)
  BY <1>1, <1>3, <1>5, <1>6
     DEF Own, ClearInv, SavedInv, ChosenInv, TakesFree, Unlinked, Inserting
<1> QED BY <1>1, <1>6, <1>7, NoPlaceRemembers, QuietKeeps

LEMMA StabilizeFoundPrivate ==
    ASSUME TypeInv, PrivacyInv, NEW t \in Thread, StabilizeFound(t) PROVE PrivacyInv'
<1>1. UNCHANGED <<next, kd>> /\ pc[t] = "slotfound"
  BY DEF StabilizeFound, shared
<1>2. CASE NextSlot(t)
  BY <1>1, <1>2, NextSlotAway, AwayKeeps DEF StandsAside
<1>3. CASE Goto(t, "ifrom") /\ UNCHANGED <<tg, my>>
  <2>1. OthersStill(t) /\ pc'[t] = "ifrom" /\ my' = my /\ tg'[t] = tg[t]
    BY <1>3 DEF OthersStill, Goto, TypeInv, TypeOK
  <2>2. Choosing(t) /\ my[t].trig # "-"
    BY <1>1 DEF Choosing, TypeInv, ThreadInv, StableInv, Stabilizing
  <2>3. Own(t)' /\ TakesFree(t)
    BY <1>1, <2>1, <2>2
       DEF PrivacyInv, Own, ClearInv, SavedInv, ChosenInv, TakesFree, Unlinked
  <2> QED BY <1>1, <2>1, <2>3, NoPlaceRemembers, QuietKeeps
<1> QED BY <1>2, <1>3 DEF StabilizeFound
-----------------------------------------------------------------------------
LEMMA StillPrivate ==
    ASSUME TypeInv, PrivacyInv, UNCHANGED <<next, kd, pc, my, tg>> PROVE PrivacyInv'
<1>1. PICK t \in Thread : TRUE
  BY WorkAssumption
<1>2. OthersStill(t) /\ Own(t)' /\ TakesFree(t)
  BY DEF OthersStill, PrivacyInv, Own, ClearInv, SavedInv, ChosenInv, TakesFree, Unlinked,
         Inserting, Choosing
<1> QED BY <1>1, <1>2, NoPlaceRemembers, QuietKeeps

LEMMA InitPrivacy == Init => PrivacyInv
<1> SUFFICES ASSUME Init PROVE PrivacyInv
  OBVIOUS
<1>1. ASSUME NEW e \in Slot, Private(e)
      PROVE  ~next[e].del /\ ~Referenced(e)
  <2>1. kd[e].key = NoKey
    BY <1>1 DEF Private, Init, Unlinked, Inserting, FindPC
  <2>2. ~(e < Len(InitList))
    <3> SUFFICES ASSUME e < Len(InitList) PROVE FALSE
      OBVIOUS
    <3>1. e + 1 \in 1 .. Len(InitList)
      BY InitListAssumption DEF Slot
    <3>2. InitList[e + 1] \in Key
      BY <3>1, InitListAssumption
    <3> QED BY <2>1, <3>2, SizeAssumption DEF Init, Key, NoKey
  <2>3. Len(InitList) \in Int
    BY InitListAssumption, Z3
  <2>4. \A c \in Cell : next[c].idx # e
    BY <2>2, <2>3, SizeAssumption DEF Init, End, Cell, Slot, EntryHead
  <2>5. \A t \in Thread : tg[t] = NoPlace
    BY DEF Init
  <2>6. ~Leads(NoPlace, e)
    BY SizeAssumption DEF Leads, NoPlace, NoWord, End, EntryHead, Slot
  <2>7. ~Referenced(e)
    BY <2>4, <2>5, <2>6 DEF Referenced
  <2> QED BY <2>7, Constants DEF Init
<1>2. ASSUME NEW t \in Thread PROVE Own(t)
  BY DEF Init, Own, ClearInv, SavedInv, ChosenInv, Choosing, Inserting, FindPC
<1> QED BY <1>1, <1>2 DEF PrivacyInv, HiddenInv, UnmarkedInv

LEMMA StepOfThreadPrivate ==
    ASSUME TypeInv, PrivacyInv, NEW t \in Thread, Step(t) PROVE PrivacyInv'
<1>1. AsideStep(t) => PrivacyInv'
  BY AsideSteps, AwayKeeps
<1>2. CASE FindStep(t)
  BY <1>2, FindHeadPrivate, FindNextPrivate, FindUnlinkPrivate DEF FindStep
<1>3. CASE InsertStep(t)
  BY <1>1, <1>3, AllocatePrivate, InsertFromPrivate, InsertFoundPrivate, InsertLinkPrivate
     DEF InsertStep, AsideStep
<1>4. CASE ClearStep(t)
  BY <1>1, <1>4, ClearNextPrivate, ClearKeyPrivate DEF ClearStep, AsideStep
<1>5. CASE DeleteStep(t)
  BY <1>1, <1>5, DeleteFoundPrivate, DeleteMarkPrivate, DeleteUnlinkPrivate
     DEF DeleteStep, AsideStep
<1>6. CASE FreezeStep(t)
  BY <1>1, <1>6, MarkFrozenPrivate DEF FreezeStep, AsideStep
<1>7. CASE StabilizeStep(t)
  BY <1>1, <1>7, StabilizeNextPrivate, StabilizeFoundPrivate DEF StabilizeStep, AsideStep
<1> QED BY <1>1, <1>2, <1>3, <1>4, <1>5, <1>6, <1>7 DEF Step, AsideStep

LEMMA NextPrivate == TypeInv /\ PrivacyInv /\ [Next]_vars => PrivacyInv'
<1> SUFFICES ASSUME TypeInv, PrivacyInv, [Next]_vars PROVE PrivacyInv'
  OBVIOUS
<1>1. ASSUME NEW t \in Thread, Invoke(t) PROVE PrivacyInv'
  BY <1>1, AsideSteps, AwayKeeps DEF AsideStep
<1>2. ASSUME NEW t \in Thread, Step(t) PROVE PrivacyInv'
  BY <1>2, StepOfThreadPrivate
<1>3. CASE PartnerResolves
  BY <1>3, StillPrivate DEF PartnerResolves
<1>4. CASE UNCHANGED vars
  BY <1>4, StillPrivate DEF vars
<1> QED BY <1>1, <1>2, <1>3, <1>4 DEF Next, AllDone

(***************************************************************************)
(* Entries not linked yet are private to their inserts until the whole     *)
(* chunk is frozen, and no entry that insertEntry works on is marked.      *)
(***************************************************************************)
THEOREM PrivacyInvariant == Spec => [](TypeInv /\ PrivacyInv)
BY InitTypeInv, InitPrivacy, NextKeeps, NextPrivate, PTL DEF Spec

(***************************************************************************)
(* "should never insert deleted entry" (insertEntry) holds for every value *)
(* of the constants, whoever inserts the entry.                            *)
(***************************************************************************)
THEOREM DeletedNeverInserted == Spec => []NeverInsertDeleted
<1>1. TypeInv /\ PrivacyInv => NeverInsertDeleted
  <2> SUFFICES ASSUME TypeInv, PrivacyInv, NEW t \in Thread, Inserting(t) PROVE ~next[Ent(t)].del
    BY DEF NeverInsertDeleted, Inserting, FindPC
  <2>1. Ent(t) \in Slot
    BY EntryAtHand
  <2>2. CASE my[t].trig = "-"
    BY <2>1, <2>2 DEF Ent, PrivacyInv, UnmarkedInv, Private, Unlinked
  <2>3. CASE my[t].trig # "-"
    BY <2>3 DEF Ent, Choosing, PrivacyInv, Own, ChosenInv
  <2> QED BY <2>2, <2>3
<1> QED BY <1>1, PrivacyInvariant, PTL
-----------------------------------------------------------------------------
(***************************************************************************)
(* Order.                                                                  *)
(***************************************************************************)

\* t looks for the place of the entry at hand, or has found it
Placing(t) ==
    \/ pc[t] \in FindPC /\ my[t].ret = "ifound"
    \/ pc[t] \in {"ifound", "link"}

\* i, if there is an entry i, has a larger key than the cell c
Below(c, i) == i # End => KeyOf(c) < kd[i].key

\* the keys of the place a thread has reached ascend
Between(t) == Below(tg[t].prev, tg[t].cur.idx) /\ Below(tg[t].prev, tg[t].next.idx)

\* ... and the key of the entry to be inserted is between them
Placed(t) ==
    /\ Placing(t) => KeyOf(tg[t].prev) < kd[Ent(t)].key
    /\ pc[t] = "ifound" /\ ~my[t].found => Below(Ent(t), tg[t].cur.idx)

\* an entry that is being freed leads nowhere
Cleared(t) == pc[t] = "ckey" /\ ~AllFrozen => next[my[t].own].idx = End

Ordered(t) == Between(t) /\ Placed(t) /\ Cleared(t)
FreeEnds   == \A e \in Slot : kd[e].key = NoKey => next[e].idx = End
RefsTaken  == \A e \in Slot : Referenced(e) => kd[e].key # NoKey

OrderInv == ListSorted /\ FreeEnds /\ RefsTaken /\ \A t \in Thread : Ordered(t)
-----------------------------------------------------------------------------
(***************************************************************************)
(* A step of t changes the key of an entry only when nobody else knows the *)
(* entry.                                                                  *)
(***************************************************************************)
KeysStay(t) ==
    \A s \in Slot : \/ kd'[s].key = kd[s].key
                    \/ /\ ~AllFrozen /\ Private(s)
                       /\ \A u \in Thread \ {t} : my[u].own # s

LEMMA KnownKeys ==
    ASSUME TypeInv, PrivacyInv, NEW t \in Thread, KeysStay(t)
    PROVE  /\ \A e \in Slot : Referenced(e) => kd'[e].key = kd[e].key
           /\ \A c \in Cell : c = EntryHead \/ Referenced(c) => KeyOf(c)' = KeyOf(c)
<1>1. ASSUME NEW e \in Slot, Referenced(e) PROVE kd'[e].key = kd[e].key
  BY <1>1 DEF KeysStay, PrivacyInv, HiddenInv
<1> QED BY <1>1 DEF KeyOf, Cell

LEMMA Indices ==
    ASSUME TypeInv, NEW w \in Word, w.idx # End PROVE w.idx \in Slot
BY SizeAssumption DEF Word, Slot, End

LEMMA KnownBelow ==
    ASSUME TypeInv, PrivacyInv, NEW t \in Thread, KeysStay(t),
           NEW u \in Thread, tg'[u] = tg[u], Between(u)
    PROVE  Between(u)' /\ KeyOf(tg[u].prev)' = KeyOf(tg[u].prev)
<1>1. tg[u] \in Place
  BY DEF TypeInv, TypeOK, Place
<1>2. tg[u].prev \in Cell /\ tg[u].cur \in Word /\ tg[u].next \in Word
  BY <1>1 DEF Place
<1>3. \A e \in Slot : Leads(tg[u], e) => kd'[e].key = kd[e].key
  BY KnownKeys DEF Referenced
<1>4. KeyOf(tg[u].prev)' = KeyOf(tg[u].prev)
  <2>1. CASE tg[u].prev = EntryHead
    BY <2>1 DEF KeyOf
  <2>2. CASE tg[u].prev \in Slot
    BY <1>3, <2>2 DEF KeyOf, Leads
  <2> QED BY <1>2, <2>1, <2>2 DEF Cell
<1>5. ASSUME NEW w \in Word, w = tg[u].cur \/ w = tg[u].next, Below(tg[u].prev, w.idx)
      PROVE  w.idx # End => KeyOf(tg[u].prev)' < kd'[w.idx].key
  <2> SUFFICES ASSUME w.idx # End PROVE KeyOf(tg[u].prev)' < kd'[w.idx].key
    OBVIOUS
  <2>1. w.idx \in Slot
    BY Indices
  <2> QED BY <1>3, <1>4, <1>5, <2>1 DEF Below, Leads
<1>6. Between(u)'
  BY <1>2, <1>4, <1>5 DEF Between, Below, KeyOf
<1> QED BY <1>4, <1>6

LEMMA OthersOrdered ==
    ASSUME TypeInv, PrivacyInv, NEW t \in Thread, KeysStay(t), OthersStill(t),
           NEW u \in Thread, u # t, Between(u), Placed(u)
    PROVE  Between(u)' /\ Placed(u)'
<1>1. pc'[u] = pc[u] /\ my'[u] = my[u] /\ tg'[u] = tg[u]
  BY DEF OthersStill
<1>2. Between(u)' /\ KeyOf(tg[u].prev)' = KeyOf(tg[u].prev)
  BY <1>1, KnownBelow
<1>3. ASSUME Placing(u) PROVE Ent(u) \in Slot /\ kd'[Ent(u)].key = kd[Ent(u)].key
  <2>1. Inserting(u)
    BY <1>3 DEF Placing, Inserting
  <2>2. Ent(u) \in Slot
    BY <2>1, EntryAtHand
  <2>3. CASE my[u].trig = "-"
    BY <2>2, <2>3 DEF KeysStay, Ent
  <2>4. CASE my[u].trig # "-"
    BY <2>1, <2>2, <2>4, EntryAtHand DEF KeysStay
  <2> QED BY <2>2, <2>3, <2>4
<1>4. Placing(u) => Ent(u) # EntryHead
  BY <1>3 DEF Slot, EntryHead
<1>5. Placing(u)' <=> Placing(u)
  BY <1>1 DEF Placing
<1>6. Ent(u)' = Ent(u)
  BY <1>1 DEF Ent
<1>7. (Placing(u) => KeyOf(tg[u].prev) < kd[Ent(u)].key)'
  BY <1>1, <1>2, <1>3, <1>5, <1>6 DEF Placed
<1>8. (pc[u] = "ifound" /\ ~my[u].found => Below(Ent(u), tg[u].cur.idx))'
  <2> SUFFICES ASSUME pc[u] = "ifound", ~my[u].found, tg[u].cur.idx # End
               PROVE  kd'[Ent(u)].key < kd'[tg[u].cur.idx].key
    BY <1>1, <1>5, <1>6, <1>4 DEF Placing, Below, KeyOf
  <2>1. tg[u].cur.idx \in Slot
    BY Indices DEF TypeInv, TypeOK
  <2>2. kd'[tg[u].cur.idx].key = kd[tg[u].cur.idx].key
    BY <2>1, KnownKeys DEF Referenced, Leads
  <2>3. kd'[Ent(u)].key = kd[Ent(u)].key /\ Ent(u) # EntryHead
    BY <1>3, <1>4 DEF Placing
  <2> QED BY <2>2, <2>3 DEF Placed, Below, KeyOf
<1>9. Placed(u)'
  BY <1>7, <1>8 DEF Placed
<1> QED BY <1>2, <1>9
-----------------------------------------------------------------------------
(***************************************************************************)
(* The invariant after a step of t: what is left to show is the order at   *)
(* the words it writes, and t's own place.                                 *)
(***************************************************************************)
WritesOrdered ==
    \A c \in Cell : \/ next'[c].idx = next[c].idx /\ (next[c].idx = End \/ KeyOf(c)' = KeyOf(c))
                    \/ next'[c].idx # End => KeyOf(c)' < kd'[next'[c].idx].key

RefersToTaken ==
    \A e \in Slot : Referenced(e)' => Referenced(e) \/ kd'[e].key # NoKey

LEMMA OrderKeeps ==
    ASSUME TypeInv, PrivacyInv, OrderInv, NEW t \in Thread, OthersStill(t), KeysStay(t),
           WritesOrdered, RefersToTaken, FreeEnds', Ordered(t)',
           \A u \in Thread \ {t} : Cleared(u)'
    PROVE  OrderInv'
<1>1. ListSorted'
  <2> SUFFICES ASSUME NEW c \in Cell, next'[c].idx # End PROVE KeyOf(c)' < kd'[next'[c].idx].key
    BY DEF ListSorted, KeyOf
  <2>1. CASE next'[c].idx = next[c].idx /\ KeyOf(c)' = KeyOf(c)
    <3>1. next[c].idx \in Slot
      BY <2>1, Indices DEF TypeInv, TypeOK
    <3>2. kd'[next[c].idx].key = kd[next[c].idx].key
      BY <3>1, KnownKeys DEF Referenced
    <3> QED BY <2>1, <3>2 DEF OrderInv, ListSorted
  <2> QED BY <2>1 DEF WritesOrdered
<1>2. RefsTaken'
  <2> SUFFICES ASSUME NEW e \in Slot, Referenced(e)' PROVE kd'[e].key # NoKey
    BY DEF RefsTaken
  <2>1. Referenced(e) => kd'[e].key = kd[e].key
    BY KnownKeys
  <2> QED BY <2>1 DEF RefersToTaken, OrderInv, RefsTaken
<1>3. ASSUME NEW u \in Thread, u # t PROVE Ordered(u)'
  <2>1. Between(u)' /\ Placed(u)'
    BY <1>3, OthersOrdered DEF OrderInv, Ordered
  <2> QED BY <1>3, <2>1 DEF Ordered
<1> QED BY <1>1, <1>2, <1>3 DEF OrderInv

(***************************************************************************)
(* Steps that change no key and no index.                                  *)
(***************************************************************************)
SameOrder ==
    /\ \A c \in Cell : next'[c].idx = next[c].idx
    /\ \A s \in Slot : kd'[s].key = kd[s].key
    /\ AllFrozen => AllFrozen'

LEMMA SameOrderKeeps ==
    ASSUME TypeInv, PrivacyInv, OrderInv, NEW t \in Thread, OthersStill(t), SameOrder,
           Remembers(t), Ordered(t)'
    PROVE  OrderInv'
<1>1. KeysStay(t) /\ WritesOrdered
  BY DEF SameOrder, KeysStay, WritesOrdered, KeyOf, Cell
<1>2. RefersToTaken
  <2> SUFFICES ASSUME NEW e \in Slot, Referenced(e)', ~Referenced(e) PROVE FALSE
    BY DEF RefersToTaken
  <2> QED BY DEF Referenced, Remembers, OthersStill, SameOrder
<1>3. FreeEnds'
  BY Constants DEF SameOrder, FreeEnds, OrderInv
<1>4. ASSUME NEW u \in Thread, u # t PROVE Cleared(u)'
  <2> SUFFICES ASSUME pc[u] = "ckey", ~AllFrozen PROVE next'[my[u].own].idx = End
    BY <1>4 DEF Cleared, OthersStill, SameOrder
  <2>1. my[u].own \in Cell
    BY SizeAssumption DEF TypeInv, TypeOK, Local, ThreadInv, OwnInv, Cell, Slot, End
  <2> QED BY <2>1 DEF SameOrder, OrderInv, Ordered, Cleared
<1> QED BY <1>1, <1>2, <1>3, <1>4, OrderKeeps

\* where t has no entry to place or to free
LEMMA RestOrdered ==
    ASSUME NEW t \in Thread, ~Placing(t)', pc'[t] # "ckey", tg'[t] = NoPlace \/ Between(t)'
    PROVE  Ordered(t)'
<1>1. Placed(t)' /\ Cleared(t)'
  BY DEF Placed, Placing, Cleared
<1>2. ASSUME tg'[t] = NoPlace PROVE Between(t)'
  BY <1>2 DEF Between, Below, NoPlace, NoWord
<1> QED BY <1>1, <1>2 DEF Ordered

LEMMA RestKeepsOrder ==
    ASSUME TypeInv, PrivacyInv, OrderInv, NEW t \in Thread, OthersStill(t), SameOrder,
           tg'[t] = NoPlace \/ tg'[t] = tg[t], ~Placing(t)', pc'[t] # "ckey"
    PROVE  OrderInv'
<1>1. KeysStay(t)
  BY DEF SameOrder, KeysStay
<1>2. tg'[t] = tg[t] => Between(t)'
  BY <1>1, KnownBelow DEF OrderInv, Ordered
<1> QED BY <1>2, RestOrdered, NoPlaceRemembers, SameOrderKeeps

LEMMA AsideKeepsOrder ==
    ASSUME TypeInv, PrivacyInv, OrderInv, NEW t \in Thread, StandsAside(t) PROVE OrderInv'
<1>1. SameOrder
  BY NothingFrozen DEF StandsAside, SameOrder
<1>2. ~Placing(t)' /\ pc'[t] # "ckey"
  BY DEF StandsAside, Away, Placing
<1> QED BY <1>1, <1>2, RestKeepsOrder DEF StandsAside
-----------------------------------------------------------------------------
(***************************************************************************)
(* Steps that redirect the word of a cell c that nobody is about to free.  *)
(***************************************************************************)
Spared(t, c) ==
    /\ c \in Slot => kd[c].key # NoKey
    /\ AllFrozen \/ \A u \in Thread \ {t} : pc[u] = "ckey" => my[u].own # c

LEMMA KnownSpared ==
    ASSUME TypeInv, PrivacyInv, OrderInv, NEW t \in Thread, NEW c \in Cell,
           c = EntryHead \/ Referenced(c)
    PROVE  Spared(t, c)
<1>1. c \in Slot => Referenced(c)
  BY DEF Slot, EntryHead
<1>2. c \in Slot => kd[c].key # NoKey
  BY <1>1 DEF OrderInv, RefsTaken
<1>3. ASSUME NEW u \in Thread, pc[u] = "ckey", my[u].own = c, ~AllFrozen PROVE FALSE
  <2>1. c \in Slot
    BY <1>3, SizeAssumption DEF TypeInv, TypeOK, Local, ThreadInv, OwnInv, Slot, End
  <2>2. Private(c)
    BY <1>3 DEF Private, Unlinked, PrivacyInv, Own, ClearInv
  <2> QED BY <1>1, <1>3, <2>1, <2>2 DEF PrivacyInv, HiddenInv
<1> QED BY <1>2, <1>3 DEF Spared

LEMMA RedirectKeepsOrder ==
    ASSUME TypeInv, PrivacyInv, OrderInv, NEW t \in Thread, NEW c \in Cell,
           NEW i \in 0 .. MaxEntries,
           next' = [next EXCEPT ![c] = Bump(next[c], i)], kd' = kd, OthersStill(t),
           Spared(t, c), Below(c, i), i \in Slot => kd[i].key # NoKey,
           Remembers(t), Ordered(t)'
    PROVE  OrderInv'
<1>1. AllFrozen => AllFrozen'
  BY RedirectFacts
<1>2. /\ next'[c].idx = i
      /\ \A d \in Cell : d # c => next'[d] = next[d]
  BY BumpType DEF TypeInv, TypeOK
<1>3. KeysStay(t)
  BY DEF KeysStay
<1>4. WritesOrdered
  BY <1>2 DEF WritesOrdered, Below, KeyOf
<1>5. RefersToTaken
  <2> SUFFICES ASSUME NEW e \in Slot, Referenced(e)', ~Referenced(e) PROVE kd'[e].key # NoKey
    BY DEF RefersToTaken
  <2>1. e = i
    BY <1>2 DEF Referenced, Remembers, OthersStill
  <2> QED BY <2>1
<1>6. FreeEnds'
  BY <1>2, Constants DEF FreeEnds, OrderInv, Spared
<1>7. ASSUME NEW u \in Thread, u # t PROVE Cleared(u)'
  <2> SUFFICES ASSUME pc[u] = "ckey", ~AllFrozen PROVE next'[my[u].own].idx = End
    BY <1>1, <1>7 DEF Cleared, OthersStill
  <2>1. my[u].own \in Cell /\ my[u].own # c
    BY <1>7, SizeAssumption DEF Spared, TypeInv, TypeOK, Local, ThreadInv, OwnInv, Cell, Slot, End
  <2> QED BY <1>2, <2>1 DEF OrderInv, Ordered, Cleared
<1> QED BY <1>3, <1>4, <1>5, <1>6, <1>7, OrderKeeps
-----------------------------------------------------------------------------
(***************************************************************************)
(* find: it goes from an entry to its successor as long as the key is      *)
(* smaller than the one it looks for.                                      *)
(***************************************************************************)
\* what find finds, when it looks for the place of an entry
LEMMA PlacedAfterFind ==
    ASSUME TypeInv, NEW t \in Thread, pc[t] \in FindPC,
           pc'[t] \in FindPC \/ pc'[t] = my[t].ret,
           my'[t].ret = my[t].ret, my'[t].own = my[t].own,
           my'[t].trig = my[t].trig, my'[t].scan = my[t].scan, kd' = kd,
           Placing(t) => KeyOf(tg'[t].prev) < kd[Ent(t)].key,
           Placing(t) /\ pc'[t] = "ifound" /\ ~my'[t].found => Below(Ent(t), tg'[t].cur.idx)
    PROVE  Placed(t)' /\ Cleared(t)'
<1>1. my[t].ret \in Return
  BY DEF TypeInv, TypeOK, Local, ThreadInv, FindInv
<1>2. pc'[t] \notin {"ckey", "link"} /\ (Placing(t)' => Placing(t)) /\ Ent(t)' = Ent(t)
  BY <1>1 DEF Return, FindPC, Placing, Ent
<1>3. (Placing(t) => KeyOf(tg[t].prev) < kd[Ent(t)].key)'
  BY <1>2 DEF KeyOf
<1>4. (pc[t] = "ifound" /\ ~my[t].found => Below(Ent(t), tg[t].cur.idx))'
  BY <1>2 DEF Below, KeyOf, Placing
<1> QED BY <1>2, <1>3, <1>4 DEF Placed, Cleared

LEMMA HeadFirst ==
    ASSUME TypeInv, NEW t \in Thread, Inserting(t) PROVE 0 < kd[Ent(t)].key
BY EntryAtHand DEF Key

LEMMA FindHeadOrder ==
    ASSUME TypeInv, PrivacyInv, OrderInv, NEW t \in Thread, FindHead(t) PROVE OrderInv'
<1>1. /\ pc[t] \in FindPC /\ UNCHANGED <<next, kd>> /\ "fnext" \in FindPC
      /\ tg' = [tg EXCEPT ![t] = [prev |-> EntryHead, cur |-> next[EntryHead], next |-> NoWord]]
  BY DEF FindHead, FindPC, shared
<1>2. \/ next[EntryHead].idx = End /\ FindReturns(t, FALSE)
      \/ UNCHANGED my /\ Goto(t, "fnext")
  BY DEF FindHead
<1>3. /\ tg'[t].prev = EntryHead /\ tg'[t].cur = next[EntryHead] /\ tg'[t].next = NoWord
      /\ \A u \in Thread \ {t} : tg'[u] = tg[u]
  BY <1>1 DEF TypeInv, TypeOK
<1>4. /\ OthersStill(t)
      /\ pc'[t] \in FindPC \/ pc'[t] = my[t].ret
      /\ my'[t].ret = my[t].ret /\ my'[t].own = my[t].own
      /\ my'[t].trig = my[t].trig /\ my'[t].scan = my[t].scan
  BY <1>1, <1>2, <1>3, FindMy DEF OthersStill
<1>5. Remembers(t) /\ SameOrder
  BY <1>1, <1>3, Constants, NothingFrozen, SizeAssumption
     DEF Remembers, Referenced, Leads, NoWord, End, Slot, EntryHead, SameOrder
<1>6. Between(t)'
  BY <1>1, <1>3, Constants DEF Between, Below, KeyOf, OrderInv, ListSorted, NoWord
<1>7. pc'[t] = "ifound" => tg'[t].cur.idx = End
  BY <1>2, <1>3 DEF Goto, TypeInv, TypeOK
<1>8. KeyOf(tg'[t].prev) = 0
  BY <1>3 DEF KeyOf
<1>9. Placed(t)' /\ Cleared(t)'
  BY <1>1, <1>4, <1>7, <1>8, HeadFirst, PlacedAfterFind DEF Below, Placing, Inserting
<1> QED BY <1>4, <1>5, <1>6, <1>9, SameOrderKeeps DEF Ordered

\* why find stops at an entry without having found the key
LEMMA FindNextStops ==
    ASSUME TypeInv, NEW t \in Thread, FindNext(t), pc'[t] = "ifound", ~my'[t].found
    PROVE  \/ tg'[t].cur.idx = End
           \/ /\ tg'[t].cur = tg[t].cur
              /\ StopsAt(kd[tg[t].cur.idx].key, Sought(t)) /\ kd[tg[t].cur.idx].key # Sought(t)
<1> DEFINE c == tg[t].cur.idx
           w == next[c]
<1>1. tg \in [Thread -> Place] /\ pc \in [Thread -> Label] /\ my \in [Thread -> Local]
  BY DEF TypeInv, TypeOK, Place
<1>2. ASSUME NEW l \in FindPC, Goto(t, l) PROVE FALSE
  BY <1>1, <1>2 DEF Goto, FindPC
<1>3. CASE /\ StopsAt(kd[c].key, Sought(t)) /\ tg' = [tg EXCEPT ![t].next = w]
           /\ FindReturns(t, kd[c].key = Sought(t))
  <2>1. tg'[t].cur = tg[t].cur
    BY <1>1, <1>3 DEF Place
  <2>2. my'[t].found = (kd[c].key = Sought(t))
    BY <1>1, <1>3 DEF FindReturns, Local
  <2> QED BY <1>3, <2>1, <2>2
<1>4. CASE /\ tg' = [tg EXCEPT ![t] = [prev |-> c, cur |-> w, next |-> w]]
           /\ IF w.idx = End THEN FindReturns(t, FALSE) ELSE UNCHANGED <<pc, my>>
  <2>1. tg'[t] = [prev |-> c, cur |-> w, next |-> w]
    BY <1>1, <1>4
  <2>2. tg'[t].cur = w
    BY <2>1
  <2>3. pc'[t] # pc[t]
    BY DEF FindNext
  <2>4. w.idx = End
    BY <1>4, <2>3
  <2> QED BY <2>2, <2>4
<1>5. \/ Goto(t, "fhead") \/ Goto(t, "funlink")
      \/ /\ StopsAt(kd[c].key, Sought(t)) /\ tg' = [tg EXCEPT ![t].next = w]
         /\ FindReturns(t, kd[c].key = Sought(t))
      \/ /\ tg' = [tg EXCEPT ![t] = [prev |-> c, cur |-> w, next |-> w]]
         /\ IF w.idx = End THEN FindReturns(t, FALSE) ELSE UNCHANGED <<pc, my>>
  BY DEF FindNext
<1>6. "fhead" \in FindPC /\ "funlink" \in FindPC
  BY DEF FindPC
<1> QED BY <1>2, <1>3, <1>4, <1>5, <1>6

LEMMA FindNextOrder ==
    ASSUME TypeInv, PrivacyInv, OrderInv, NEW t \in Thread, FindNext(t) PROVE OrderInv'
<1> DEFINE c == tg[t].cur.idx
           w == next[c]
<1>1. pc[t] \in FindPC /\ UNCHANGED <<next, kd>> /\ {"fhead", "funlink"} \subseteq FindPC
  BY DEF FindNext, FindPC, shared
<1>2. \/ \E b \in BOOLEAN : FindReturns(t, b)
      \/ UNCHANGED my /\ (UNCHANGED pc \/ \E l \in FindPC : Goto(t, l))
  BY <1>1 DEF FindNext
<1>3. /\ OthersStill(t)
      /\ pc'[t] \in FindPC \/ pc'[t] = my[t].ret
      /\ my'[t].ret = my[t].ret /\ my'[t].own = my[t].own
      /\ my'[t].trig = my[t].trig /\ my'[t].scan = my[t].scan
  BY <1>1, <1>2, FindNextMoves, FindMy DEF OthersStill
<1>4. Remembers(t) /\ SameOrder
  BY <1>1, FindNextMoves, NothingFrozen DEF Remembers, Referenced, Leads, SameOrder
<1>5. c \in Slot /\ c \in Cell /\ c # End /\ c # EntryHead /\ KeyOf(c) = kd[c].key
  BY FindNextMoves, SizeAssumption DEF Slot, End, EntryHead, KeyOf
<1>6. Below(tg[t].prev, c) /\ Below(c, w.idx) /\ Below(tg[t].prev, tg[t].next.idx)
  BY <1>5 DEF OrderInv, ListSorted, Ordered, Between, Below
<1>7. tg[t].prev \in Cell /\ w \in Word /\ kd \in [Slot -> KeyWord]
  BY <1>5 DEF TypeInv, TypeOK
<1>8. Below(tg[t].prev, w.idx)
  <2> SUFFICES ASSUME w.idx # End PROVE KeyOf(tg[t].prev) < kd[w.idx].key
    BY DEF Below
  <2>1. w.idx \in Slot
    BY <1>7, Indices
  <2>2. kd[w.idx].key \in Int /\ kd[c].key \in Int /\ KeyOf(tg[t].prev) \in Int
    BY <1>5, <1>7, <2>1 DEF KeyWord, KeyOf, Cell
  <2> QED BY <1>5, <1>6, <2>2 DEF Below
<1>9. Below(tg'[t].prev, tg'[t].cur.idx) /\ Below(tg'[t].prev, tg'[t].next.idx)
  BY <1>6, <1>8, FindNextMoves
<1>10. Between(t)'
  BY <1>1, <1>9 DEF Between, Below, KeyOf
<1>11. Placing(t) => Sought(t) = kd[Ent(t)].key /\ Ent(t) \in Slot
  BY <1>1, EntryAtHand DEF Placing, Inserting, Sought, FindPC
<1>12. Placing(t) => KeyOf(tg'[t].prev) < kd[Ent(t)].key
  <2> SUFFICES ASSUME Placing(t) PROVE KeyOf(tg'[t].prev) < kd[Ent(t)].key
    OBVIOUS
  <2>1. kd[c].key \in Int /\ kd[Ent(t)].key \in Int
    BY <1>5, <1>7, <1>11 DEF KeyWord
  <2>2. ~StopsAt(kd[c].key, Sought(t)) => KeyOf(c) < kd[Ent(t)].key
    BY <1>5, <1>11, <2>1 DEF StopsAt
  <2>3. KeyOf(tg[t].prev) < kd[Ent(t)].key
    BY DEF OrderInv, Ordered, Placed
  <2> QED BY <2>2, <2>3, FindNextMoves
<1>13. ASSUME Placing(t), pc'[t] = "ifound", ~my'[t].found PROVE Below(Ent(t), tg'[t].cur.idx)
  <2>1. CASE tg'[t].cur.idx = End
    BY <2>1 DEF Below
  <2>2. CASE tg'[t].cur = tg[t].cur /\ StopsAt(kd[c].key, Sought(t)) /\ kd[c].key # Sought(t)
    <3>1. kd[c].key \in Int /\ kd[Ent(t)].key \in Int /\ Ent(t) # EntryHead
      BY <1>5, <1>7, <1>11, <1>13 DEF KeyWord, Slot, EntryHead
    <3> QED BY <1>11, <1>13, <2>2, <3>1 DEF StopsAt, Below, KeyOf
  <2> QED BY <1>13, <2>1, <2>2, FindNextStops
<1>14. Placed(t)' /\ Cleared(t)'
  BY <1>1, <1>3, <1>12, <1>13, PlacedAfterFind
<1> QED BY <1>3, <1>4, <1>10, <1>14, SameOrderKeeps DEF Ordered

LEMMA FindUnlinkOrder ==
    ASSUME TypeInv, PrivacyInv, OrderInv, NEW t \in Thread, FindUnlink(t) PROVE OrderInv'
<1> DEFINE c == tg[t].prev
           i == tg[t].next.idx
<1>1. pc[t] \in FindPC /\ kd' = kd /\ {"fhead", "fnext"} \subseteq FindPC
  BY DEF FindUnlink, FindPC
<1>2. \/ \E b \in BOOLEAN : FindReturns(t, b)
      \/ UNCHANGED my /\ (UNCHANGED pc \/ \E l \in FindPC : Goto(t, l))
  BY <1>1 DEF FindUnlink
<1>3. /\ OthersStill(t)
      /\ pc'[t] \in FindPC \/ pc'[t] = my[t].ret
      /\ my'[t].ret = my[t].ret /\ my'[t].own = my[t].own
      /\ my'[t].trig = my[t].trig /\ my'[t].scan = my[t].scan
  BY <1>1, <1>2, FindUnlinkMoves, FindMy DEF OthersStill
<1>4. Below(c, i) /\ Below(c, tg[t].cur.idx) /\ tg'[t].prev = c
  BY FindUnlinkMoves DEF OrderInv, Ordered, Between
<1>5. Below(tg'[t].prev, tg'[t].cur.idx) /\ Below(tg'[t].prev, tg'[t].next.idx)
  BY <1>4, FindUnlinkMoves
<1>6. Between(t)'
  BY <1>1, <1>5 DEF Between, Below, KeyOf
<1>7. Placing(t) => KeyOf(tg'[t].prev) < kd[Ent(t)].key
  BY <1>4 DEF OrderInv, Ordered, Placed
<1>8. pc'[t] = "ifound" => tg'[t].cur.idx = End
  <2> SUFFICES ASSUME pc'[t] = "ifound" PROVE tg'[t].cur.idx = End
    OBVIOUS
  <2>1. ~\E l \in FindPC : Goto(t, l)
    BY DEF Goto, FindPC, TypeInv, TypeOK
  <2>2. next[c] = tg[t].cur /\ i = End
    BY <1>1, <2>1 DEF FindUnlink
  <2>3. tg'[t].cur = [tg[t].next EXCEPT !.del = FALSE]
    <3>1. tg \in [Thread -> Place]
      BY DEF TypeInv, TypeOK, Place
    <3>2. tg' = [tg EXCEPT ![t].cur = [tg[t].next EXCEPT !.del = FALSE]]
      BY <2>2 DEF FindUnlink
    <3> QED BY <3>1, <3>2 DEF Place
  <2> QED BY <2>2, <2>3 DEF TypeInv, TypeOK, Word
<1>9. Ordered(t)'
  BY <1>1, <1>3, <1>6, <1>7, <1>8, PlacedAfterFind DEF Below, Ordered
<1>10. CASE UNCHANGED <<next, tg>>
  <2>1. SameOrder /\ Remembers(t)
    BY <1>1, <1>10, NothingFrozen, NoPlaceRemembers DEF SameOrder
  <2> QED BY <1>3, <1>9, <2>1, SameOrderKeeps
<1>11. CASE ~UNCHANGED <<next, tg>>
  <2>1. c \in Cell /\ i \in 0 .. MaxEntries /\ next' = [next EXCEPT ![c] = Bump(next[c], i)]
    BY <1>11, FindUnlinkMoves
  <2>2. Remembers(t) /\ Referenced(c) /\ Referenced(i)
    BY <1>11, FindUnlinkMoves DEF Remembers, Referenced, Leads
  <2>3. i \in Slot => kd[i].key # NoKey
    BY <2>2 DEF OrderInv, RefsTaken
  <2> QED BY <1>1, <1>3, <1>4, <1>9, <2>1, <2>2, <2>3, KnownSpared, RedirectKeepsOrder
<1> QED BY <1>10, <1>11
-----------------------------------------------------------------------------
(***************************************************************************)
(* insertToChunk and insertEntry.                                          *)
(***************************************************************************)
\* the key of a private entry changes; the entry leads nowhere
LEMMA RekeyKeepsOrder ==
    ASSUME TypeInv, PrivacyInv, OrderInv, NEW t \in Thread, next' = next, OthersStill(t),
           KeysStay(t), ~AllFrozen, \A e \in Slot : kd'[e].key # kd[e].key => next[e].idx = End,
           Remembers(t), Ordered(t)'
    PROVE  OrderInv'
<1>1. WritesOrdered
  BY DEF WritesOrdered, KeyOf, Cell
<1>2. RefersToTaken
  BY DEF RefersToTaken, Referenced, Remembers, OthersStill
<1>3. FreeEnds'
  BY DEF FreeEnds, OrderInv
<1>4. ASSUME NEW u \in Thread, u # t PROVE Cleared(u)'
  BY <1>4 DEF Cleared, OthersStill, OrderInv, Ordered
<1> QED BY <1>1, <1>2, <1>3, <1>4, OrderKeeps

LEMMA AllocateOrder ==
    ASSUME TypeInv, PrivacyInv, OrderInv, NEW t \in Thread, Allocate(t) PROVE OrderInv'
<1> DEFINE s == my[t].scan
<1>1. UNCHANGED next /\ pc[t] = "alloc" /\ my[t] \in Local
  BY DEF Allocate, TypeInv, TypeOK
<1>2. CASE CallFreeze(t, "INSERT") /\ UNCHANGED kd
  BY <1>1, <1>2, CallFreezeAway, AsideKeepsOrder DEF StandsAside
<1>3. CASE /\ s < MaxEntries /\ kd[s] = [key |-> NoKey, frz |-> FALSE]
           /\ kd' = [kd EXCEPT ![s].key = call[t].key]
           /\ my' = [my EXCEPT ![t].own = s] /\ Goto(t, "ifrom") /\ UNCHANGED tg
  <2>1. s \in Slot /\ s \in Cell /\ s # EntryHead
    BY <1>1, <1>3, Constants, SizeAssumption DEF Local, Slot, EntryHead
  <2>2. OthersStill(t) /\ pc'[t] = "ifrom" /\ tg'[t] = tg[t]
    BY <1>3 DEF Goto, OthersStill, TypeInv, TypeOK
  <2>3. ~AllFrozen /\ Private(s)
    BY <1>3, <2>1 DEF AllFrozen, KeyFrozen, Private
  <2>4. ASSUME NEW u \in Thread \ {t}, my[u].own = s PROVE FALSE
    <3>1. kd[s].key = call[u].key
      BY <2>1, <2>4, SizeAssumption DEF TypeInv, ThreadInv, OwnInv, Slot, End
    <3>2. call[u].key \in Key
      BY DEF TypeInv, TypeOK
    <3> QED BY <1>3, <3>1, <3>2, SizeAssumption DEF Key, NoKey
  <2>5. \A e \in Slot : e # s => kd'[e] = kd[e]
    BY <1>3 DEF TypeInv, TypeOK
  <2>6. KeysStay(t)
    BY <2>3, <2>4, <2>5 DEF KeysStay
  <2>7. next[s].idx = End
    BY <1>3, <2>1 DEF OrderInv, FreeEnds
  <2>8. Ordered(t)'
    BY <2>2, <2>6, KnownBelow, RestOrdered DEF Placing, FindPC, OrderInv, Ordered
  <2> QED BY <1>1, <2>2, <2>3, <2>5, <2>6, <2>7, <2>8, NoPlaceRemembers, RekeyKeepsOrder
<1>4. CASE UNCHANGED <<pc, kd, tg>> /\ my' = [my EXCEPT ![t].scan = @ + 1]
  <2>1. OthersStill(t) /\ pc'[t] = "alloc" /\ tg'[t] = tg[t]
    BY <1>1, <1>4 DEF OthersStill, TypeInv, TypeOK
  <2>2. StandsAside(t)
    BY <1>1, <1>4, <2>1 DEF StandsAside, Away, FindPC
  <2> QED BY <2>2, AsideKeepsOrder
<1> QED BY <1>2, <1>3, <1>4 DEF Allocate

LEMMA InsertFromOrder ==
    ASSUME TypeInv, PrivacyInv, OrderInv, NEW t \in Thread, InsertFrom(t) PROVE OrderInv'
<1>1. Inserting(t) /\ UNCHANGED <<next, kd>> /\ my[t] \in Local
  BY DEF InsertFrom, Inserting, shared, TypeInv, TypeOK
<1> DEFINE m == [[my[t] EXCEPT !.saved = next[Ent(t)]] EXCEPT !.ret = "ifound", !.found = FALSE]
<1>2. m.own = my[t].own /\ m.trig = my[t].trig /\ m.scan = my[t].scan
  BY <1>1 DEF Local
<1>3. my' = [my EXCEPT ![t] = m] /\ pc' = [pc EXCEPT ![t] = "fhead"] /\ tg' = [tg EXCEPT ![t] = NoPlace]
  BY DEF InsertFrom, CallFind, Goto, Forget
<1>4. my'[t] = m /\ pc'[t] = "fhead" /\ tg'[t] = NoPlace /\ OthersStill(t)
  BY <1>3 DEF OthersStill, TypeInv, TypeOK
<1>5. Ent(t)' = Ent(t)
  BY <1>2, <1>4 DEF Ent
<1>6. KeyOf(tg'[t].prev) = 0
  BY <1>4 DEF NoPlace, KeyOf
<1>7. Placed(t)' /\ Cleared(t)'
  BY <1>1, <1>4, <1>5, <1>6, HeadFirst DEF Placed, Cleared, KeyOf
<1>8. Between(t)'
  BY <1>4 DEF Between, Below, NoPlace, NoWord
<1>9. SameOrder
  BY <1>1, NothingFrozen DEF SameOrder
<1> QED BY <1>4, <1>7, <1>8, <1>9, NoPlaceRemembers, SameOrderKeeps DEF Ordered

LEMMA InsertFoundOrder ==
    ASSUME TypeInv, PrivacyInv, OrderInv, NEW t \in Thread, InsertFound(t) PROVE OrderInv'
<1> DEFINE e == Ent(t)
           i == tg[t].cur.idx
<1>1. Inserting(t) /\ pc[t] = "ifound" /\ kd' = kd
  BY DEF InsertFound, Inserting
<1>2. e \in Slot /\ e \in Cell /\ kd[e].key \in Key
  BY <1>1, EntryAtHand
<1>3. CASE NextSlot(t) /\ UNCHANGED <<next, history>>
  BY <1>1, <1>3, NextSlotAway, AsideKeepsOrder DEF StandsAside
<1>4. CASE Answers(t, "TRUE") /\ UNCHANGED next
  BY <1>1, <1>4, AnswersAway, AsideKeepsOrder DEF StandsAside
<1>5. CASE (Goto(t, "cnext") \/ Goto(t, "ifrom")) /\ UNCHANGED <<next, tg, my, history>>
  <2>1. OthersStill(t) /\ pc'[t] \in {"cnext", "ifrom"} /\ tg'[t] = tg[t]
    BY <1>5 DEF OthersStill, Goto, TypeInv, TypeOK
  <2>2. SameOrder /\ ~Placing(t)' /\ pc'[t] # "ckey"
    BY <1>1, <1>5, <2>1, NothingFrozen DEF SameOrder, Placing, FindPC
  <2> QED BY <2>1, <2>2, RestKeepsOrder
<1>6. CASE /\ ~my[t].found /\ next[e] = my[t].saved
           /\ next' = [next EXCEPT ![e] = Bump(my[t].saved, Ahead(t))]
           /\ Goto(t, "link") /\ UNCHANGED <<tg, my, history>>
  <2>1. i \in 0 .. MaxEntries /\ next' = [next EXCEPT ![e] = Bump(next[e], i)]
    BY <1>6 DEF Ahead, TypeInv, TypeOK, Word
  <2>2. OthersStill(t) /\ pc'[t] = "link" /\ my' = my /\ tg' = tg
    BY <1>6 DEF OthersStill, Goto, TypeInv, TypeOK
  <2>3. Below(e, i)
    BY <1>1, <1>6 DEF OrderInv, Ordered, Placed
  <2>4. Spared(t, e)
    <3>1. ASSUME NEW u \in Thread \ {t}, pc[u] = "ckey", my[u].own = e, ~AllFrozen PROVE FALSE
      <4>1. my[t].trig = "-" /\ my[t].own = e /\ my[t].own # End
        BY <1>1, <3>1, EntryAtHand DEF Ent
      <4> QED BY <3>1, <4>1 DEF TypeInv, OwnDistinct
    <3> QED BY <1>2, <3>1, SizeAssumption DEF Spared, Key, NoKey
  <2>5. Referenced(i)
    BY DEF Referenced, Leads
  <2>6. i \in Slot => kd[i].key # NoKey
    BY <2>5 DEF OrderInv, RefsTaken
  <2>7. Ordered(t)'
    <3>1. Between(t)'
      BY <1>1, <2>2 DEF OrderInv, Ordered, Between, Below, KeyOf
    <3>2. Placed(t)' /\ Cleared(t)'
      BY <1>1, <2>2 DEF OrderInv, Ordered, Placed, Placing, Cleared, KeyOf, Ent
    <3> QED BY <3>1, <3>2 DEF Ordered
  <2> QED BY <1>1, <1>2, <2>1, <2>2, <2>3, <2>4, <2>6, <2>7, NoPlaceRemembers, RedirectKeepsOrder
<1> QED BY <1>3, <1>4, <1>5, <1>6 DEF InsertFound

LEMMA InsertLinkOrder ==
    ASSUME TypeInv, PrivacyInv, OrderInv, NEW t \in Thread, InsertLink(t) PROVE OrderInv'
<1> DEFINE c == tg[t].prev
           e == Ent(t)
<1>1. Inserting(t) /\ pc[t] = "link" /\ kd' = kd
  BY DEF InsertLink, Inserting
<1>2. e \in Slot /\ kd[e].key # NoKey /\ e \in 0 .. MaxEntries
  BY <1>1, EntryAtHand, SizeAssumption DEF Key, NoKey, Slot
<1>3. CASE Goto(t, "ifrom") /\ UNCHANGED <<next, tg, my, history>>
  <2>1. OthersStill(t) /\ pc'[t] = "ifrom" /\ tg'[t] = tg[t]
    BY <1>3 DEF OthersStill, Goto, TypeInv, TypeOK
  <2>2. SameOrder /\ ~Placing(t)'
    BY <1>1, <1>3, <2>1, NothingFrozen DEF SameOrder, Placing, FindPC
  <2> QED BY <2>1, <2>2, RestKeepsOrder
<1>4. CASE /\ next[c] = tg[t].cur /\ next' = [next EXCEPT ![c] = Bump(tg[t].cur, e)]
           /\ IF my[t].trig = "-" THEN Goto(t, "inc") /\ UNCHANGED <<tg, my>> ELSE NextSlot(t)
  <2>1. c \in Cell /\ next' = [next EXCEPT ![c] = Bump(next[c], e)]
    BY <1>4 DEF TypeInv, TypeOK
  <2>2. Below(c, e)
    BY <1>1 DEF OrderInv, Ordered, Placed, Placing, Below
  <2>3. c = EntryHead \/ Referenced(c)
    BY DEF Referenced, Leads
  <2>4. OthersStill(t) /\ pc'[t] \in {"inc", "slot"} /\ (tg'[t] = NoPlace \/ tg'[t] = tg[t])
    <3>1. CASE my[t].trig = "-"
      BY <1>4, <3>1 DEF OthersStill, Goto, TypeInv, TypeOK
    <3>2. CASE my[t].trig # "-"
      BY <1>4, <3>2, NextSlotAway DEF NextSlot, GoToSlot, Goto, TypeInv, TypeOK
    <3> QED BY <3>1, <3>2
  <2>5. ~Placing(t)' /\ pc'[t] # "ckey"
    BY <2>4 DEF Placing, FindPC
  <2>6. tg'[t] = tg[t] => Between(t)'
    BY <1>1 DEF OrderInv, Ordered, Between, Below, KeyOf
  <2>7. Ordered(t)'
    BY <2>4, <2>5, <2>6, RestOrdered
  <2> QED BY <1>1, <1>2, <2>1, <2>2, <2>3, <2>4, <2>7, NoPlaceRemembers, KnownSpared, RedirectKeepsOrder
<1> QED BY <1>3, <1>4 DEF InsertLink
-----------------------------------------------------------------------------
(***************************************************************************)
(* clearEntry: the entry leads nowhere before its key is given up.         *)
(***************************************************************************)
LEMMA ClearNextOrder ==
    ASSUME TypeInv, PrivacyInv, OrderInv, NEW t \in Thread, ClearNext(t) PROVE OrderInv'
<1> DEFINE s == my[t].own
<1>1. pc[t] = "cnext" /\ kd' = kd /\ tg' = tg /\ my' = my
  BY DEF ClearNext
<1>2. s \in Slot /\ s \in Cell
  BY <1>1, Constants, SizeAssumption DEF TypeInv, TypeOK, ThreadInv, OwnInv, Local, Slot, End
<1>3. CASE ~next[s].frz /\ next' = [next EXCEPT ![s] = NoWord] /\ Goto(t, "ckey")
  <2>1. OthersStill(t) /\ pc'[t] = "ckey"
    BY <1>1, <1>3 DEF OthersStill, Goto, TypeInv, TypeOK
  <2>2. \A c \in Cell : next'[c] = IF c = s THEN NoWord ELSE next[c]
    BY <1>2, <1>3 DEF TypeInv, TypeOK
  <2>3. ~AllFrozen /\ KeysStay(t) /\ NoWord.idx = End /\ \A e \in Slot : e # End
    BY <1>1, <1>2, <1>3, SizeAssumption DEF AllFrozen, KeysStay, NoWord, Slot, End
  <2>4. WritesOrdered /\ RefersToTaken
    BY <1>1, <2>2, <2>3 DEF WritesOrdered, RefersToTaken, Referenced, KeyOf
  <2>5. FreeEnds'
    BY <1>1, <2>2, <2>3, Constants DEF FreeEnds, OrderInv
  <2>6. ASSUME NEW u \in Thread, u # t PROVE Cleared(u)'
    <3> SUFFICES ASSUME pc[u] = "ckey" PROVE next'[my[u].own].idx = End
      BY <2>1, <2>6 DEF Cleared, OthersStill
    <3>1. my[u].own \in Cell
      BY SizeAssumption DEF TypeInv, TypeOK, Local, ThreadInv, OwnInv, Cell, Slot, End
    <3> QED BY <2>2, <2>3, <3>1 DEF OrderInv, Ordered, Cleared
  <2>7. Between(t)'
    BY <1>1 DEF OrderInv, Ordered, Between, Below, KeyOf
  <2>8. Placed(t)' /\ Cleared(t)'
    BY <1>1, <1>2, <2>1, <2>2, <2>3 DEF Placed, Placing, FindPC, Cleared
  <2> QED BY <2>1, <2>3, <2>4, <2>5, <2>6, <2>7, <2>8, OrderKeeps DEF Ordered
<1>4. CASE Goto(t, "chelp") /\ UNCHANGED next
  <2>1. OthersStill(t) /\ pc'[t] = "chelp"
    BY <1>1, <1>4 DEF OthersStill, Goto, TypeInv, TypeOK
  <2>2. StandsAside(t)
    BY <1>1, <1>4, <2>1 DEF StandsAside, Away, FindPC
  <2> QED BY <2>2, AsideKeepsOrder
<1> QED BY <1>3, <1>4 DEF ClearNext

LEMMA ClearKeyOrder ==
    ASSUME TypeInv, PrivacyInv, OrderInv, NEW t \in Thread, ClearKey(t) PROVE OrderInv'
<1> DEFINE s == my[t].own
<1>1. pc[t] = "ckey" /\ my[t].trig = "-" /\ next' = next
  BY DEF ClearKey, PrivacyInv, Own, ClearInv
<1>2. s \in Slot /\ s \in Cell /\ s # End /\ s # EntryHead
  BY <1>1, Constants, SizeAssumption DEF TypeInv, TypeOK, ThreadInv, OwnInv, Local, Slot, End, EntryHead
<1>3. CASE Goto(t, "chelp") /\ UNCHANGED <<kd, tg, my, history>>
  <2>1. OthersStill(t) /\ pc'[t] = "chelp" /\ tg'[t] = tg[t]
    BY <1>1, <1>3 DEF OthersStill, Goto, TypeInv, TypeOK
  <2>2. StandsAside(t)
    BY <1>1, <1>3, <2>1 DEF StandsAside, Away, FindPC
  <2> QED BY <2>2, AsideKeepsOrder
<1>4. CASE ~kd[s].frz /\ kd' = [kd EXCEPT ![s].key = NoKey] /\ Answers(t, "FALSE")
  <2>1. OthersStill(t) /\ Away(t)' /\ tg'[t] = NoPlace
    BY <1>4, AnswersAway DEF Answers, Forget, TypeInv, TypeOK
  <2>2. ~AllFrozen /\ Private(s)
    BY <1>1, <1>2, <1>4 DEF AllFrozen, KeyFrozen, Private, Unlinked
  <2>3. \A e \in Slot : e # s => kd'[e] = kd[e]
    BY <1>4 DEF TypeInv, TypeOK
  <2>4. KeysStay(t)
    BY <1>2, <2>2, <2>3 DEF KeysStay, TypeInv, OwnDistinct
  <2>5. next[s].idx = End
    BY <1>1, <2>2 DEF OrderInv, Ordered, Cleared
  <2>6. Ordered(t)'
    BY <2>1, RestOrdered DEF Away, Placing
  <2> QED BY <1>1, <2>1, <2>2, <2>3, <2>4, <2>5, <2>6, NoPlaceRemembers, RekeyKeepsOrder
<1> QED BY <1>3, <1>4 DEF ClearKey
-----------------------------------------------------------------------------
(***************************************************************************)
(* deleteInChunk.                                                          *)
(***************************************************************************)
LEMMA DeleteFoundOrder ==
    ASSUME TypeInv, PrivacyInv, OrderInv, NEW t \in Thread, DeleteFound(t) PROVE OrderInv'
<1>1. UNCHANGED <<next, kd>>
  BY DEF DeleteFound
<1>2. CASE Answers(t, "FALSE")
  BY <1>1, <1>2, AnswersAway, AsideKeepsOrder DEF StandsAside
<1>3. CASE my' = [my EXCEPT ![t].saved = Unmarked(next[tg[t].cur.idx])]
           /\ Goto(t, "dmark") /\ UNCHANGED tg
  <2>1. OthersStill(t) /\ pc'[t] = "dmark" /\ tg'[t] = tg[t]
    BY <1>3 DEF OthersStill, Goto, TypeInv, TypeOK
  <2>2. SameOrder /\ ~Placing(t)'
    BY <1>1, <2>1, NothingFrozen DEF SameOrder, Placing, FindPC
  <2> QED BY <2>1, <2>2, RestKeepsOrder
<1> QED BY <1>2, <1>3 DEF DeleteFound

\* the mark leaves the entry where it is in the list
LEMMA DeleteMarkOrder ==
    ASSUME TypeInv, PrivacyInv, OrderInv, NEW t \in Thread, DeleteMark(t) PROVE OrderInv'
<1> DEFINE c == tg[t].cur.idx
<1>1. pc[t] = "dmark" /\ kd' = kd /\ my[t] \in Local /\ ~my[t].saved.frz
  BY DEF DeleteMark, PrivacyInv, Own, SavedInv, TypeInv, TypeOK
<1>2. c \in Cell
  BY <1>1, SizeAssumption DEF TypeInv, TypeOK, ThreadInv, FindInv, Word, Cell, Slot, End
<1>3. CASE /\ next[c] = my[t].saved
           /\ next' = [next EXCEPT ![c] = [Bump(@, @.idx) EXCEPT !.del = TRUE]]
           /\ Goto(t, "dunlink") /\ UNCHANGED <<tg, my>>
  <2> DEFINE w == [Bump(next[c], next[c].idx) EXCEPT !.del = TRUE]
  <2>1. next[c] \in Word
    BY <1>2 DEF TypeInv, TypeOK
  <2>2. w.idx = next[c].idx
    BY <2>1 DEF Bump, Word
  <2>3. \A d \in Cell : next'[d] = IF d = c THEN w ELSE next[d]
    BY <1>2, <1>3 DEF TypeInv, TypeOK
  <2>4. ~AllFrozen
    BY <1>1, <1>2, <1>3 DEF AllFrozen
  <2>5. SameOrder
    BY <1>1, <2>2, <2>3, <2>4 DEF SameOrder
  <2>6. OthersStill(t) /\ pc'[t] = "dunlink" /\ tg'[t] = tg[t]
    BY <1>3 DEF OthersStill, Goto, TypeInv, TypeOK
  <2>7. ~Placing(t)'
    BY <2>6 DEF Placing, FindPC
  <2> QED BY <2>5, <2>6, <2>7, RestKeepsOrder
<1>4. CASE Goto(t, "dundo") /\ UNCHANGED <<next, tg, my>>
  <2>1. "dundo" \in Label \ (FindPC \cup {"ifrom", "ifound", "link", "cnext", "ckey", "dmark", "slotfound"})
    BY DEF Label, DeletePC, FindPC
  <2> QED BY <1>1, <1>4, <2>1, GotoAway, AsideKeepsOrder DEF StandsAside
<1>5. CASE CallFind(t, my[t], "dfound") /\ UNCHANGED next
  <2>1. "dfound" \in Return \ {"ifound", "slotfound"}
    BY DEF Return
  <2> QED BY <1>1, <1>5, <2>1, CallFindAway, AsideKeepsOrder DEF StandsAside
<1> QED BY <1>3, <1>4, <1>5 DEF DeleteMark

\* the successor may be an old one: its key is larger all the same
LEMMA DeleteUnlinkOrder ==
    ASSUME TypeInv, PrivacyInv, OrderInv, NEW t \in Thread, DeleteUnlink(t) PROVE OrderInv'
<1>1. kd' = kd /\ my[t] \in Local
  BY DEF DeleteUnlink, TypeInv, TypeOK
<1> DEFINE c == tg[t].prev
           i == tg[t].next.idx
<1>2. CASE /\ next[c] = tg[t].cur /\ next' = [next EXCEPT ![c] = Bump(tg[t].cur, i)]
           /\ Answers(t, "TRUE")
  <2>1. c \in Cell /\ i \in 0 .. MaxEntries /\ next' = [next EXCEPT ![c] = Bump(next[c], i)]
    BY <1>2 DEF TypeInv, TypeOK, Word
  <2>2. OthersStill(t) /\ Away(t)' /\ Remembers(t) /\ tg'[t] = NoPlace
    BY <1>2, AnswersAway, NoPlaceRemembers DEF Answers, Forget, TypeInv, TypeOK
  <2>3. Ordered(t)'
    BY <2>2, RestOrdered DEF Away, Placing
  <2>4. Below(c, i)
    BY DEF OrderInv, Ordered, Between
  <2>5. Referenced(c) /\ Referenced(i)
    BY DEF Referenced, Leads
  <2>6. i \in Slot => kd[i].key # NoKey
    BY <2>5 DEF OrderInv, RefsTaken
  <2> QED BY <1>1, <2>1, <2>2, <2>3, <2>4, <2>5, <2>6, KnownSpared, RedirectKeepsOrder
<1>3. CASE CallFind(t, my[t], "dfix") /\ UNCHANGED next
  <2>1. "dfix" \in Return \ {"ifound", "slotfound"}
    BY DEF Return
  <2> QED BY <1>1, <1>3, <2>1, CallFindAway, AsideKeepsOrder DEF StandsAside
<1> QED BY <1>2, <1>3 DEF DeleteUnlink
-----------------------------------------------------------------------------
(***************************************************************************)
(* The freeze: markChunkFrozen leaves index and key alone.                 *)
(***************************************************************************)
LEMMA MarkFrozenOrder ==
    ASSUME TypeInv, PrivacyInv, OrderInv, NEW t \in Thread, MarkFrozen(t) PROVE OrderInv'
<1>1. PICK c \in ToBeFrozen :
        IF ~next[c].frz THEN next' = [next EXCEPT ![c].frz = TRUE] /\ UNCHANGED kd
                        ELSE kd' = [kd EXCEPT ![c].frz = TRUE] /\ UNCHANGED next
  BY DEF MarkFrozen
<1>2. UNCHANGED <<pc, tg, my>> /\ pc[t] = "mark"
  BY DEF MarkFrozen
<1>3. c \in Cell /\ (next[c].frz => c \in Slot) /\ ~AllFrozen
  BY <1>1 DEF ToBeFrozen, KeyFrozen, AllFrozen, Cell
<1>4. \A d \in Cell : next'[d].idx = next[d].idx
  <2>1. \A d \in Cell : next[d] \in Word
    BY DEF TypeInv, TypeOK
  <2>2. \A d \in Cell : next'[d] = next[d] \/ next'[d] = [next[d] EXCEPT !.frz = TRUE]
    BY <1>1, <1>3 DEF TypeInv, TypeOK
  <2> QED BY <2>1, <2>2 DEF Word
<1>5. \A s \in Slot : kd'[s].key = kd[s].key
  <2>1. \A s \in Slot : kd[s] \in KeyWord
    BY DEF TypeInv, TypeOK
  <2>2. \A s \in Slot : kd'[s] = kd[s] \/ kd'[s] = [kd[s] EXCEPT !.frz = TRUE]
    BY <1>1, <1>3 DEF TypeInv, TypeOK
  <2> QED BY <2>1, <2>2 DEF KeyWord
<1>6. OthersStill(t) /\ SameOrder /\ ~Placing(t)' /\ tg'[t] = tg[t] /\ pc'[t] # "ckey"
  BY <1>2, <1>3, <1>4, <1>5 DEF OthersStill, SameOrder, Placing, FindPC
<1> QED BY <1>6, RestKeepsOrder

LEMMA StabilizeNextOrder ==
    ASSUME TypeInv, PrivacyInv, OrderInv, NEW t \in Thread, StabilizeNext(t) PROVE OrderInv'
<1>1. UNCHANGED <<next, kd>> /\ my[t] \in Local
  BY DEF StabilizeNext, shared, TypeInv, TypeOK
<1>2. PICK s \in Pending(my[t].scan) : CallFind(t, [my[t] EXCEPT !.scan = s], "slotfound")
  BY DEF StabilizeNext
<1> DEFINE m == [my[t] EXCEPT !.scan = s]
<1>3. m \in Local
  BY <1>1, <1>2, SizeAssumption DEF Local, Pending, Slot
<1>4. /\ OthersStill(t) /\ pc'[t] = "fhead" /\ tg'[t] = NoPlace
      /\ my'[t] = [m EXCEPT !.ret = "slotfound", !.found = FALSE]
  BY <1>2 DEF CallFind, Goto, Forget, OthersStill, TypeInv, TypeOK
<1>5. my'[t].ret = "slotfound"
  BY <1>3, <1>4 DEF Local
<1>6. SameOrder /\ ~Placing(t)'
  BY <1>1, <1>4, <1>5, NothingFrozen DEF SameOrder, Placing
<1> QED BY <1>4, <1>6, RestKeepsOrder

LEMMA StabilizeFoundOrder ==
    ASSUME TypeInv, PrivacyInv, OrderInv, NEW t \in Thread, StabilizeFound(t) PROVE OrderInv'
<1>1. UNCHANGED <<next, kd>>
  BY DEF StabilizeFound, shared
<1>2. CASE NextSlot(t)
  BY <1>1, <1>2, NextSlotAway, AsideKeepsOrder DEF StandsAside
<1>3. CASE Goto(t, "ifrom") /\ UNCHANGED <<tg, my>>
  <2>1. OthersStill(t) /\ pc'[t] = "ifrom" /\ tg'[t] = tg[t]
    BY <1>3 DEF OthersStill, Goto, TypeInv, TypeOK
  <2>2. SameOrder /\ ~Placing(t)'
    BY <1>1, <2>1, NothingFrozen DEF SameOrder, Placing, FindPC
  <2> QED BY <2>1, <2>2, RestKeepsOrder
<1> QED BY <1>2, <1>3 DEF StabilizeFound
-----------------------------------------------------------------------------
LEMMA StillOrdered ==
    ASSUME TypeInv, PrivacyInv, OrderInv, UNCHANGED <<next, kd, pc, my, tg>> PROVE OrderInv'
<1>1. PICK t \in Thread : TRUE
  BY WorkAssumption
<1>2. OthersStill(t) /\ SameOrder /\ tg'[t] = tg[t]
  BY NothingFrozen DEF OthersStill, SameOrder
<1>3. Between(t)' /\ Placed(t)'
  BY DEF OrderInv, Ordered, Between, Placed, Placing, Below, KeyOf, Ent
<1>4. Cleared(t)'
  BY <1>2, NothingFrozen DEF OrderInv, Ordered, Cleared, AllFrozen, KeyFrozen
<1> QED BY <1>2, <1>3, <1>4, NoPlaceRemembers, SameOrderKeeps DEF Ordered

LEMMA InitOrder == Init => OrderInv
<1> SUFFICES ASSUME Init PROVE OrderInv
  OBVIOUS
<1>1. Len(InitList) \in Nat /\ \A i \in 1 .. Len(InitList) : InitList[i] \in Key
  BY InitListAssumption
<1>2. /\ \A c \in Cell : next[c].idx = IF c + 1 < Len(InitList) THEN c + 1 ELSE End
      /\ \A s \in Slot : kd[s].key = IF s < Len(InitList) THEN InitList[s + 1] ELSE NoKey
  BY DEF Init
<1>3. ASSUME NEW s \in Slot, s < Len(InitList)
      PROVE  s + 1 \in 1 .. Len(InitList) /\ kd[s].key = InitList[s + 1] /\ kd[s].key \in Key
  BY <1>1, <1>2, <1>3 DEF Slot
<1>4. ASSUME NEW s \in Slot, ~(s < Len(InitList)) PROVE kd[s].key = NoKey /\ next[s].idx = End
  BY <1>1, <1>2, <1>4 DEF Slot, Cell
<1>5. ListSorted
  <2> SUFFICES ASSUME NEW c \in Cell, next[c].idx # End PROVE KeyOf(c) < kd[next[c].idx].key
    BY DEF ListSorted
  <2> DEFINE s == c + 1
  <2>1. next[c].idx = s /\ s < Len(InitList)
    BY <1>2
  <2>2. s \in Slot
    BY <1>1, <2>1, InitListAssumption, SizeAssumption DEF Cell, Slot, EntryHead
  <2>3. s + 1 \in 1 .. Len(InitList) /\ kd[s].key = InitList[s + 1] /\ kd[s].key \in Key
    BY <1>3, <2>1, <2>2
  <2>4. CASE c = EntryHead
    BY <2>1, <2>3, <2>4 DEF KeyOf, Key
  <2>5. CASE c \in Slot
    <3>1. c < Len(InitList) /\ c # EntryHead
      BY <1>1, <2>1, <2>5 DEF Slot, EntryHead
    <3>2. c + 1 \in 1 .. Len(InitList) /\ kd[c].key = InitList[c + 1]
      BY <1>3, <2>5, <3>1
    <3>3. InitList[c + 1] < InitList[s + 1]
      BY <2>3, <2>5, <3>2, InitListAssumption DEF Slot
    <3> QED BY <2>1, <2>3, <3>1, <3>2, <3>3 DEF KeyOf
  <2> QED BY <2>4, <2>5 DEF Cell
<1>6. FreeEnds
  <2> SUFFICES ASSUME NEW e \in Slot, kd[e].key = NoKey PROVE next[e].idx = End
    BY DEF FreeEnds
  <2>1. ~(e < Len(InitList))
    BY <1>3, SizeAssumption DEF Key, NoKey
  <2> QED BY <1>4, <2>1
<1>7. RefsTaken
  <2> SUFFICES ASSUME NEW e \in Slot, Referenced(e) PROVE kd[e].key # NoKey
    BY DEF RefsTaken
  <2>1. ~Leads(NoPlace, e)
    BY SizeAssumption DEF Leads, NoPlace, NoWord, End, EntryHead, Slot
  <2>2. PICK c \in Cell : next[c].idx = e
    BY <2>1 DEF Referenced, Init
  <2>3. e < Len(InitList)
    BY <1>2, <2>2, SizeAssumption DEF Slot, End
  <2> QED BY <1>3, <2>3, SizeAssumption DEF Key, NoKey
<1>8. ASSUME NEW t \in Thread PROVE Ordered(t)
  BY DEF Init, Ordered, Between, Below, NoPlace, NoWord, Placed, Placing, FindPC, Cleared
<1> QED BY <1>5, <1>6, <1>7, <1>8 DEF OrderInv

LEMMA StepOfThreadOrder ==
    ASSUME TypeInv, PrivacyInv, OrderInv, NEW t \in Thread, Step(t) PROVE OrderInv'
<1>1. AsideStep(t) => OrderInv'
  BY AsideSteps, AsideKeepsOrder
<1>2. CASE FindStep(t)
  BY <1>2, FindHeadOrder, FindNextOrder, FindUnlinkOrder DEF FindStep
<1>3. CASE InsertStep(t)
  BY <1>1, <1>3, AllocateOrder, InsertFromOrder, InsertFoundOrder, InsertLinkOrder
     DEF InsertStep, AsideStep
<1>4. CASE ClearStep(t)
  BY <1>1, <1>4, ClearNextOrder, ClearKeyOrder DEF ClearStep, AsideStep
<1>5. CASE DeleteStep(t)
  BY <1>1, <1>5, DeleteFoundOrder, DeleteMarkOrder, DeleteUnlinkOrder
     DEF DeleteStep, AsideStep
<1>6. CASE FreezeStep(t)
  BY <1>1, <1>6, MarkFrozenOrder DEF FreezeStep, AsideStep
<1>7. CASE StabilizeStep(t)
  BY <1>1, <1>7, StabilizeNextOrder, StabilizeFoundOrder DEF StabilizeStep, AsideStep
<1> QED BY <1>1, <1>2, <1>3, <1>4, <1>5, <1>6, <1>7 DEF Step, AsideStep

LEMMA NextOrder == TypeInv /\ PrivacyInv /\ OrderInv /\ [Next]_vars => OrderInv'
<1> SUFFICES ASSUME TypeInv, PrivacyInv, OrderInv, [Next]_vars PROVE OrderInv'
  OBVIOUS
<1>1. ASSUME NEW t \in Thread, Invoke(t) PROVE OrderInv'
  BY <1>1, AsideSteps, AsideKeepsOrder DEF AsideStep
<1>2. ASSUME NEW t \in Thread, Step(t) PROVE OrderInv'
  BY <1>2, StepOfThreadOrder
<1>3. CASE PartnerResolves
  BY <1>3, StillOrdered DEF PartnerResolves
<1>4. CASE UNCHANGED vars
  BY <1>4, StillOrdered DEF vars
<1> QED BY <1>1, <1>2, <1>3, <1>4 DEF Next, AllDone

(***************************************************************************)
(* Every thread keeps its place between smaller and larger keys, and no    *)
(* word leads to an entry without a key.                                   *)
(***************************************************************************)
THEOREM OrderInvariant == Spec => [](TypeInv /\ PrivacyInv /\ OrderInv)
BY InitTypeInv, InitPrivacy, InitOrder, NextKeeps, NextPrivate, NextOrder, PTL DEF Spec

(***************************************************************************)
(* What validateChunk was written to check holds for every value of the    *)
(* constants, from every entry: keys ascend along the list.                *)
(***************************************************************************)
THEOREM AlwaysSorted == Spec => []ListSorted
<1>1. OrderInv => ListSorted
  BY DEF OrderInv
<1> QED BY <1>1, OrderInvariant, PTL
===============================================================================
