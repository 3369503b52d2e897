----------------------------- MODULE BTreeInvariant -----------------------------
(***************************************************************************)
(* The inductive invariant of the tree, for any initial tree, any number   *)
(* of threads, chunks and keys and any sizes of the chunks that the code   *)
(* allows; lemmas about the lists of the chunks, the replacements and the  *)
(* stacks; and the steps that change no chunk.  BTreeProofs goes on with   *)
(* the other steps, and has the theorems.                                  *)
(***************************************************************************)
EXTENDS BTree, FiniteSetTheorems, SequenceTheorems, TLAPS

(***************************************************************************)
(* The inductive invariant, part by part.  First the chunks.               *)
(***************************************************************************)
Ids        == 1 .. top
H(c)       == chunk[c].height
Fits(h, d) == FitsIn(chunk, h, d)

Sound(x) ==
    /\ x \in ChunkRecord
    /\ \A i \in DOMAIN x.e : Fits(x.height, x.e[i].data)
    /\ x.height = 0 => Pending(x) = {}

\* by how many chunks c is replaced
ReplacedByOne(c) == chunk[c].low # Null /\ chunk[chunk[c].low].next = Null
ReplacedByTwo(c) == chunk[c].low # Null /\ chunk[chunk[c].low].next # Null

\* where the words of a chunk lead
Related(c) ==
    /\ chunk[c].low # Null => chunk[c].low \in Ids /\ H(chunk[c].low) = H(c)
    /\ chunk[c].next # Null => chunk[c].next \in Ids /\ H(chunk[c].next) = H(c)
    /\ chunk[c].creator # Null =>
          /\ chunk[c].creator \in Ids /\ H(chunk[c].creator) = H(c)
          /\ chunk[chunk[c].creator].low # Null
    /\ chunk[c].root => chunk[c].next = Null

Shape ==
    /\ top \in ChunkId /\ root \in Ids
    /\ DOMAIN chunk = Ids
    /\ \A c \in Ids : Sound(chunk[c])
    /\ \A c \in Ids : Related(c)

(***************************************************************************)
(* A chunk stays above its minimum because its counter never falls below   *)
(* it, and the list has at least as many entries as the counter says and   *)
(* those that threads have counted off but not deleted yet (Owed).  This   *)
(* is so for every chunk if no entry is lost by moving it (K), and anyhow  *)
(* for leaves and for the first of two new chunks.                         *)
(***************************************************************************)
Kept(K, x)   == K \/ x.height = 0 \/ x.next # Null
Enough(K, x) == Kept(K, x) => x.root \/ x.cnt >= MinEntries

\* the threads that have counted off an entry of c and not deleted it yet
Owed(c) == {t \in Thread : (At(t, "compare") \/ At(t, "mark")) /\ Now(t).c = c}

CountsUp(K, c) == Kept(K, chunk[c]) => EntrNum(chunk[c]) >= chunk[c].cnt + Cardinality(Owed(c))

Counts(K) == \A c \in Ids : Enough(K, chunk[c]) /\ CountsUp(K, c)

(***************************************************************************)
(* The mergeBuddy words.                                                   *)
(***************************************************************************)
Decided == {"COPY", "SPLIT", "MERGE", "SLAVE_FREEZE"}

\* a chunk that may be a master: it has enough entries for both
MinFrozen(c) == chunk[c].frozen /\ EntrNum(chunk[c]) >= MinEntries

WordOK(c) ==
    /\ Bud(c) # Null => H(Bud(c)) = H(c)
    /\ St(c) = "MERGE" => Paired(c, Bud(c))
    /\ St(c) \in {"REQUEST_SLAVE", "MERGE"} => MinFrozen(c)
    /\ St(c) = "SPLIT" => chunk[c].frozen /\ EntrNum(chunk[c]) >= MaxEntries
    /\ chunk[c].low # Null => St(c) \in {"COPY", "SPLIT", "MERGE"}
    /\ St(c) = "SPLIT" /\ chunk[c].low # Null => ReplacedByTwo(c)

WordType ==
    word \in [1 .. top -> [st : Alone, bud : {Null}] \cup [st : Together, bud : 1 .. top]]

Words == WordType /\ \A c \in Ids : WordOK(c)

(***************************************************************************)
(* What is true of every step a thread has still to do, as long as it has  *)
(* it: nothing that another thread does makes it false.                    *)
(***************************************************************************)
CallOK(h, w) ==
    /\ w.trigger \in {"NONE", "INSERT", "DELETE", "SWAP", "ENSLAVE"}
    /\ w.trigger \in {"INSERT", "DELETE", "SWAP"} => w.key \in Key
    /\ w.trigger \in {"INSERT", "SWAP"} => Fits(h, w.data)
    /\ w.trigger = "SWAP" => h # 0
    /\ w.trigger = "ENSLAVE" => w.data \in Ids /\ H(w.data) = h

\* a chunk that replaces c, before it is installed; `kept` if no entry of it can have been lost
NewOK(kept, c, x) ==
    /\ Sound(x)
    /\ x.height = H(c) /\ x.creator = c
    /\ x.low = Null /\ x.next = Null
    /\ kept => EntrNum(x) >= x.cnt /\ (x.root \/ x.cnt >= MinEntries)

ReplacementOK(K, c, dec, new) ==
    /\ new.two \in BOOLEAN
    /\ NewOK(K \/ H(c) = 0 \/ new.two, c, new.low)
    /\ new.two => NewOK(K \/ H(c) = 0, c, new.high) /\ ~new.low.root /\ ~new.high.root
    /\ dec = "SPLIT" => new.two
    /\ dec = "COPY" => ~new.two
    /\ new.sep \in Key
    /\ new.master # Null => dec = "COPY" /\ new.master \in Ids /\ H(new.master) = H(c)

Masters(m, s) == m \in Ids /\ s \in Ids /\ H(m) = H(s) /\ MinFrozen(m)

Steps == {"descend", "onto", "respond", "insert", "place", "link", "delete", "compare", "mark",
          "replace", "swap", "freeze", "settle", "decide", "pair", "build", "install",
          "repoint", "update", "parent", "found", "onward", "request", "check", "setSlave",
          "look", "yield", "take", "unlink", "setRoot", "swapRoot", "newRoot", "normal", "help",
          "helpInfant"}

\* what findParent looks for
SoughtOK(x) ==
    /\ x.then \in {"insert", "replace", "delete", "unlink", "enslave"}
    /\ x.son \in Ids
    /\ x.then \in {"insert", "replace"} => x.new \in Ids /\ H(x.new) = H(x.son)
    /\ x.then = "insert" => x.key \in Key
    /\ x.then = "unlink" => x.new \in Ids /\ ReplacedByOne(x.new)
    /\ x.then = "enslave" => MinFrozen(x.son)

\* the entry it has found
FoundOK(x) ==
    /\ x.at \in Ids /\ H(x.at) # 0
    /\ x.slot \in DOMAIN chunk[x.at].e
    /\ x.then = "enslave" /\ x.near # Null => x.near \in DOMAIN chunk[x.at].e

StepOK(K, x) ==
    /\ x.do \in Steps
    /\ x.do = "onto" => x.c \in Ids /\ H(x.c) # 0 /\ x.slot \in DOMAIN chunk[x.c].e
    /\ x.do \in {"descend", "delete", "settle", "normal", "help", "helpInfant"} => x.c \in Ids
    /\ x.do = "insert" => x.c \in Ids /\ x.key \in Key /\ Fits(H(x.c), x.data)
    /\ x.do \in {"place", "link"} =>
          /\ x.c \in Ids /\ H(x.c) # 0
          /\ x.slot \in DOMAIN chunk[x.c].e
          /\ x.own \in BOOLEAN
          /\ x.own \/ chunk[x.c].frozen
    /\ x.do \in {"delete", "compare", "mark", "unlink"} => x.key \in Key
    /\ x.do \in {"compare", "mark"} => x.c \in Ids /\ H(x.c) # 0
    /\ x.do \in {"replace", "swap"} =>
          x.c \in Ids /\ H(x.c) # 0 /\ x.key \in Key /\ Fits(H(x.c), x.data)
    /\ x.do = "swap" => x.slot \in DOMAIN chunk[x.c].e
    /\ x.do \in {"freeze", "decide", "pair", "build", "install"} => x.c \in Ids /\ CallOK(H(x.c), x.w)
    /\ x.do \in {"build", "install", "update"} => x.dec \in {"COPY", "SPLIT", "MERGE"}
    /\ x.do = "install" => St(x.c) = x.dec /\ ReplacementOK(K, x.c, x.dec, x.new)
    /\ x.do \in {"repoint", "update"} => x.c \in Ids /\ chunk[x.c].low # Null
    /\ x.do = "update" => St(x.c) = x.dec /\ x.sep \in Key
    /\ x.do \in {"parent", "found", "onward"} => SoughtOK(x)
    /\ x.do = "parent" => x.at \in Ids \cup {Null}
    /\ x.do \in {"found", "onward"} => FoundOK(x)
    /\ x.do \in {"request", "check"} => x.c \in Ids /\ MinFrozen(x.c) /\ x.parent \in Ids
    /\ x.do = "request" =>
          /\ H(x.parent) # 0 /\ H(x.parent) - 1 = H(x.c)
          /\ x.slot \in DOMAIN chunk[x.parent].e
    /\ x.do \in {"setSlave", "look", "yield", "take"} => Masters(x.c, x.slave)
    /\ x.do = "unlink" => x.c \in Ids /\ x.master \in Ids /\ ReplacedByOne(x.master)
    /\ x.do = "setRoot" => x.new \in Ids /\ chunk[x.new].next = Null
    /\ x.do = "swapRoot" => x.new \in Ids
    /\ x.do = "newRoot" => x.c \in Ids /\ ReplacedByTwo(x.c) /\ x.sep \in Key

(***************************************************************************)
(* The stack of a thread.  An own entry that is placed, and a delete that  *)
(* has been counted, are finished before anything else is done; a decision *)
(* is taken right after the chunk has been settled.                        *)
(***************************************************************************)
Plain(x) ==
    /\ x.do \notin {"link", "compare", "mark"}
    /\ x.do = "place" => ~x.own

IsSeq(s) == s \in Seq({s[i] : i \in DOMAIN s})

SettledBefore(s, i) ==
    chunk[s[i].c].frozen \/ (i > 1 /\ s[i - 1].do = "settle" /\ s[i - 1].c = s[i].c)

Stack(K, s) ==
    /\ IsSeq(s)
    /\ \A i \in 1 .. Len(s) : StepOK(K, s[i])
    /\ \A i \in 2 .. Len(s) : Plain(s[i])
    /\ \A i \in 1 .. Len(s) : s[i].do = "decide" => SettledBefore(s, i)

Stacks(K) == DOMAIN todo = Thread /\ \A t \in Thread : Stack(K, todo[t])

(***************************************************************************)
(* What the threads do to the entries of inner chunks right now.           *)
(***************************************************************************)
\* t has allocated an entry of c that is not linked yet, and c is not frozen
Placing(t) == At(t, "place") \/ At(t, "link")
OwnsSlot(t) == Placing(t) /\ Now(t).own /\ ~chunk[Now(t).c].frozen

Owning ==
    /\ \A t \in Thread : OwnsSlot(t) => chunk[Now(t).c].e[Now(t).slot].at = "pending"
    /\ \A t, u \in Thread :
          OwnsSlot(t) /\ OwnsSlot(u) /\ t # u =>
             Now(t).c # Now(u).c \/ Now(t).slot # Now(u).slot

\* t will change the word it holds only if nobody else does before
HoldOK(t) ==
    /\ At(t, "link") \/ At(t, "mark")
    /\ hold[t].c = Now(t).c
    /\ At(t, "link") =>
          LET x == chunk[hold[t].c]
              k == x.e[Now(t).slot].key
          IN  ~Has(x, k) /\ hold[t].at = PrevOf(x, k)
    /\ At(t, "mark") =>
          ~chunk[hold[t].c].frozen /\ hold[t].at \in Linked(chunk[hold[t].c])

Holds ==
    /\ DOMAIN hold = Thread
    /\ \A t \in Thread : hold[t] # NoHold => HoldOK(t)

(***************************************************************************)
(* The calls.                                                              *)
(***************************************************************************)
CallState ==
    [kind : {"idle", "search", "insert", "delete"}, key : Key, eff : BOOLEAN,
     seen : SUBSET BOOLEAN, res : {"none", "TRUE", "FALSE"}]

Calls ==
    /\ call \in [Thread -> CallState]
    /\ left \in [Thread -> Seq(CallRecord)]

TreeInv(K) == Shape /\ Words /\ Stacks(K) /\ Owning /\ Holds /\ Counts(K) /\ Calls
-----------------------------------------------------------------------------
(***************************************************************************)
(* Ranks: in a finite set that is ordered by R there is an element with    *)
(* n - 1 others before it, for each n; so there are a first and a last.    *)
(***************************************************************************)
Ordered(S, R) ==
    /\ \A i \in S : <<i, i>> \notin R
    /\ \A i, j \in S : i # j => <<i, j>> \in R \/ <<j, i>> \in R
    /\ \A i, j, k \in S : (<<i, j>> \in R /\ <<j, k>> \in R) => <<i, k>> \in R

Ahead(S, R, i) == {j \in S : <<j, i>> \in R}

LEMMA AheadFinite ==
    ASSUME NEW S, IsFiniteSet(S), NEW R, NEW i \in S
    PROVE  IsFiniteSet(Ahead(S, R, i)) /\ Cardinality(Ahead(S, R, i)) \in Nat
<1>1. Ahead(S, R, i) \in SUBSET S
  BY DEF Ahead
<1> QED
  BY <1>1, FS_Subset, FS_CardinalityType

LEMMA RankGrows ==
    ASSUME NEW S, IsFiniteSet(S), NEW R, Ordered(S, R), NEW i \in S, NEW j \in S, <<i, j>> \in R
    PROVE  Cardinality(Ahead(S, R, i)) < Cardinality(Ahead(S, R, j))
<1>1. Ahead(S, R, i) \in SUBSET Ahead(S, R, j)
  BY DEF Ahead, Ordered
<1>2. i \in Ahead(S, R, j) /\ i \notin Ahead(S, R, i)
  BY DEF Ahead, Ordered
<1>3. Ahead(S, R, j) # Ahead(S, R, i)
  BY <1>2
<1>4. Cardinality(Ahead(S, R, i)) <= Cardinality(Ahead(S, R, j))
  BY <1>1, AheadFinite, FS_Subset
<1>5. Cardinality(Ahead(S, R, i)) # Cardinality(Ahead(S, R, j))
  BY <1>1, <1>3, AheadFinite, FS_Subset
<1> QED
  BY <1>4, <1>5, AheadFinite

LEMMA RankExists ==
    ASSUME NEW S, IsFiniteSet(S), NEW R, Ordered(S, R), NEW n \in 1 .. Cardinality(S)
    PROVE  \E i \in S : Cardinality(Ahead(S, R, i)) = n - 1
<1> DEFINE N == Cardinality(S)
           f == [i \in S |-> Cardinality(Ahead(S, R, i))]
<1>1. N \in Nat
  BY FS_CardinalityType
<1>2. ASSUME NEW i \in S PROVE f[i] \in 0 .. N - 1
  <2>1. Ahead(S, R, i) \in SUBSET S /\ Ahead(S, R, i) # S
    BY DEF Ahead, Ordered
  <2>2. Cardinality(Ahead(S, R, i)) <= N /\ Cardinality(Ahead(S, R, i)) # N
    BY <2>1, FS_Subset
  <2> QED
    BY <1>1, <2>2, AheadFinite
<1>3. f \in [S -> 0 .. N - 1]
  BY <1>2
<1>4. \A i, j \in S : f[i] = f[j] => i = j
  <2> SUFFICES ASSUME NEW i \in S, NEW j \in S, i # j PROVE f[i] # f[j]
    OBVIOUS
  <2>1. f[i] < f[j] \/ f[j] < f[i]
    BY RankGrows DEF Ordered
  <2> QED
    BY <2>1, <1>2
<1>5. f \in Injection(S, 0 .. N - 1)
  BY <1>3, <1>4 DEF Injection, IsInjective
<1>6. IsFiniteSet(0 .. N - 1) /\ Cardinality(0 .. N - 1) = N
  <2>2. CASE N = 0
    BY <2>2, FS_EmptySet
  <2>3. CASE N # 0
    <3>1. 0 \in Int /\ N - 1 \in Int /\ ~(0 > N - 1) /\ (N - 1) - 0 + 1 = N
      BY <1>1, <2>3
    <3> QED
      BY <3>1, FS_Interval
  <2> QED
    BY <2>2, <2>3
<1>7. f \in Surjection(S, 0 .. N - 1)
  BY <1>5, <1>6, FS_Injection
<1>8. n - 1 \in 0 .. N - 1
  BY <1>1
<1>9. PICK i \in S : f[i] = n - 1
  BY <1>7, <1>8 DEF Surjection
<1> QED
  BY <1>9

LEMMA FirstExists ==
    ASSUME NEW S, IsFiniteSet(S), NEW R, Ordered(S, R), S # {}
    PROVE  \E i \in S : \A j \in S \ {i} : <<i, j>> \in R
<1>1. Cardinality(S) \in Nat /\ Cardinality(S) # 0
  BY FS_CardinalityType, FS_EmptySet
<1>2. PICK i \in S : Cardinality(Ahead(S, R, i)) = 1 - 1
  BY <1>1, RankExists
<1>3. Ahead(S, R, i) = {}
  BY <1>2, AheadFinite, FS_EmptySet
<1> QED
  BY <1>3 DEF Ahead, Ordered

LEMMA LastExists ==
    ASSUME NEW S, IsFiniteSet(S), NEW R, Ordered(S, R), S # {}
    PROVE  \E i \in S : \A j \in S \ {i} : <<j, i>> \in R
<1> DEFINE Q == {<<j, i>> : i \in S, j \in {k \in S : FALSE}} \cup {p \in S \X S : <<p[2], p[1]>> \in R}
<1>1. \A i, j \in S : <<i, j>> \in Q <=> <<j, i>> \in R
  OBVIOUS
<1> HIDE DEF Q
<1>2. Ordered(S, Q)
  BY <1>1 DEF Ordered
<1>3. PICK i \in S : \A j \in S \ {i} : <<i, j>> \in Q
  BY <1>2, FirstExists
<1> QED
  BY <1>1, <1>3
-----------------------------------------------------------------------------
(***************************************************************************)
(* The list of a chunk.                                                    *)
(***************************************************************************)
LEMMA EntriesAre ==
    ASSUME NEW x, x \in ChunkRecord
    PROVE  /\ x.e \in Seq(EntryRecord) /\ DOMAIN x.e = 1 .. Len(x.e) /\ Len(x.e) \in Nat
           /\ \A i \in DOMAIN x.e :
                 /\ x.e[i] \in EntryRecord
                 /\ x.e[i].key \in Key /\ x.e[i].key \in Nat
                 /\ i \in Nat /\ i # Null
           /\ x.cnt \in Int /\ x.height \in Nat /\ x.root \in BOOLEAN /\ x.frozen \in BOOLEAN
<1>1. x.e \in Seq(EntryRecord)
  BY DEF ChunkRecord
<1>2. DOMAIN x.e = 1 .. Len(x.e) /\ Len(x.e) \in Nat /\ \A i \in DOMAIN x.e : x.e[i] \in EntryRecord
  BY <1>1
<1>3. \A i \in DOMAIN x.e : x.e[i].key \in Key
  BY <1>2 DEF EntryRecord
<1>4. \A i \in DOMAIN x.e : x.e[i].key \in Nat /\ i \in Nat /\ i # Null
  BY <1>2, <1>3, SizeAssumption DEF Key, Null
<1>5. x.cnt \in Int /\ x.height \in Nat /\ x.root \in BOOLEAN /\ x.frozen \in BOOLEAN
  BY DEF ChunkRecord
<1> QED
  BY <1>1, <1>2, <1>3, <1>4, <1>5

LEMMA SlotsFinite ==
    ASSUME NEW x, x \in ChunkRecord, NEW S \in SUBSET (DOMAIN x.e)
    PROVE  IsFiniteSet(S) /\ Cardinality(S) \in Nat /\ Cardinality(S) <= Len(x.e)
<1>1. IsFiniteSet(1 .. Len(x.e)) /\ Cardinality(1 .. Len(x.e)) = Len(x.e)
  BY EntriesAre, FS_Interval
<1> QED
  BY <1>1, EntriesAre, FS_Subset, FS_CardinalityType

LEMMA LinkedFinite ==
    ASSUME NEW x, x \in ChunkRecord
    PROVE  /\ Linked(x) \in SUBSET (DOMAIN x.e) /\ IsFiniteSet(Linked(x))
           /\ EntrNum(x) \in Nat /\ EntrNum(x) <= Len(x.e)
           /\ EntrNum(x) # 0 <=> Linked(x) # {}
<1>1. Linked(x) \in SUBSET (DOMAIN x.e)
  BY DEF Linked
<1> QED
  BY <1>1, SlotsFinite, FS_EmptySet DEF EntrNum

InOrder(x, S) == {p \in S \X S : Precedes(x, p[1], p[2])}

LEMMA SlotsOrdered ==
    ASSUME NEW x, x \in ChunkRecord, NEW S \in SUBSET (DOMAIN x.e)
    PROVE  /\ Ordered(S, InOrder(x, S))
           /\ \A i, j \in S : <<i, j>> \in InOrder(x, S) <=> Precedes(x, i, j)
<1>1. \A i, j \in S : <<i, j>> \in InOrder(x, S) <=> Precedes(x, i, j)
  BY DEF InOrder
<1>2. \A i \in S : x.e[i].key \in Nat /\ i \in Nat
  BY EntriesAre
<1>3. \A i \in S : ~Precedes(x, i, i)
  BY <1>2 DEF Precedes
<1>4. \A i, j \in S : i # j => Precedes(x, i, j) \/ Precedes(x, j, i)
  BY <1>2 DEF Precedes
<1>5. \A i, j, k \in S : (Precedes(x, i, j) /\ Precedes(x, j, k)) => Precedes(x, i, k)
  BY <1>2 DEF Precedes
<1> QED
  BY <1>1, <1>3, <1>4, <1>5 DEF Ordered

LEMMA PrecedesStrict ==
    ASSUME NEW x, x \in ChunkRecord, NEW i \in DOMAIN x.e, NEW j \in DOMAIN x.e
    PROVE  /\ ~Precedes(x, i, i)
           /\ ~(Precedes(x, i, j) /\ Precedes(x, j, i))
           /\ i # j => Precedes(x, i, j) \/ Precedes(x, j, i)
           /\ Precedes(x, i, j) => x.e[i].key <= x.e[j].key
<1>1. x.e[i].key \in Nat /\ i \in Nat /\ x.e[j].key \in Nat /\ j \in Nat
  BY EntriesAre
<1> QED
  BY <1>1 DEF Precedes

LEMMA FirstSlot ==
    ASSUME NEW x, x \in ChunkRecord, NEW S \in SUBSET (DOMAIN x.e), S # {}
    PROVE  \E i \in S : \A j \in S \ {i} : Precedes(x, i, j)
<1>1. IsFiniteSet(S) /\ Ordered(S, InOrder(x, S))
  BY SlotsFinite, SlotsOrdered
<1>2. \E i \in S : \A j \in S \ {i} : <<i, j>> \in InOrder(x, S)
  BY <1>1, FirstExists
<1> QED
  BY <1>2, SlotsOrdered

LEMMA LastSlot ==
    ASSUME NEW x, x \in ChunkRecord, NEW S \in SUBSET (DOMAIN x.e), S # {}
    PROVE  \E i \in S : \A j \in S \ {i} : Precedes(x, j, i)
<1>1. IsFiniteSet(S) /\ Ordered(S, InOrder(x, S))
  BY SlotsFinite, SlotsOrdered
<1>2. \E i \in S : \A j \in S \ {i} : <<j, i>> \in InOrder(x, S)
  BY <1>1, LastExists
<1> QED
  BY <1>2, SlotsOrdered

(***************************************************************************)
(* find: cur and prev are what they are said to be.                        *)
(***************************************************************************)
LEMMA CurIs ==
    ASSUME NEW x, x \in ChunkRecord, NEW k \in Nat
    PROVE  LET cur == CurOf(x, k)
           IN  /\ cur = Null => \A i \in Linked(x) : ~(x.e[i].key >= k)
               /\ cur # Null =>
                     /\ cur \in Linked(x) /\ cur \in DOMAIN x.e /\ x.e[cur].key >= k
                     /\ \A j \in Linked(x) \ {cur} : x.e[j].key >= k => Precedes(x, cur, j)
<1> DEFINE S == {i \in Linked(x) : x.e[i].key >= k}
<1>1. S \in SUBSET (DOMAIN x.e) /\ S \subseteq Linked(x)
  BY LinkedFinite
<1>2. CASE S = {}
  BY <1>2 DEF CurOf
<1>3. CASE S # {}
  <2>1. \E i \in S : \A j \in S \ {i} : Precedes(x, i, j)
    BY <1>1, <1>3, FirstSlot
  <2>2. CurOf(x, k) = CHOOSE i \in S : \A j \in S \ {i} : Precedes(x, i, j)
    BY <1>3 DEF CurOf
  <2>3. CurOf(x, k) \in S /\ \A j \in S \ {CurOf(x, k)} : Precedes(x, CurOf(x, k), j)
    BY <2>1, <2>2
  <2>4. CurOf(x, k) \in DOMAIN x.e /\ CurOf(x, k) # Null
    BY <1>1, <2>3, EntriesAre
  <2> QED
    BY <2>3, <2>4
<1> QED
  BY <1>2, <1>3

LEMMA PrevIs ==
    ASSUME NEW x, x \in ChunkRecord, NEW k \in Nat
    PROVE  LET prev == PrevOf(x, k)
           IN  /\ prev = Null => \A i \in Linked(x) : ~(x.e[i].key < k)
               /\ prev # Null =>
                     /\ prev \in Linked(x) /\ prev \in DOMAIN x.e /\ x.e[prev].key < k
                     /\ \A j \in Linked(x) \ {prev} : x.e[j].key < k => Precedes(x, j, prev)
<1> DEFINE S == {i \in Linked(x) : x.e[i].key < k}
<1>1. S \in SUBSET (DOMAIN x.e) /\ S \subseteq Linked(x)
  BY LinkedFinite
<1>2. CASE S = {}
  BY <1>2 DEF PrevOf
<1>3. CASE S # {}
  <2>1. \E i \in S : \A j \in S \ {i} : Precedes(x, j, i)
    BY <1>1, <1>3, LastSlot
  <2>2. PrevOf(x, k) = CHOOSE i \in S : \A j \in S \ {i} : Precedes(x, j, i)
    BY <1>3 DEF PrevOf
  <2>3. PrevOf(x, k) \in S /\ \A j \in S \ {PrevOf(x, k)} : Precedes(x, j, PrevOf(x, k))
    BY <2>1, <2>2
  <2>4. PrevOf(x, k) \in DOMAIN x.e /\ PrevOf(x, k) # Null
    BY <1>1, <2>3, EntriesAre
  <2> QED
    BY <2>3, <2>4
<1> QED
  BY <1>2, <1>3

LEMMA CurIn ==
    ASSUME NEW x, x \in ChunkRecord, NEW k, CurOf(x, k) # Null
    PROVE  CurOf(x, k) \in Linked(x) /\ CurOf(x, k) \in DOMAIN x.e
<1> DEFINE S == {i \in Linked(x) : x.e[i].key >= k}
<1>1. S \in SUBSET (DOMAIN x.e) /\ S \subseteq Linked(x)
  BY LinkedFinite
<1>2. S # {}
  BY DEF CurOf
<1>3. \E i \in S : \A j \in S \ {i} : Precedes(x, i, j)
  BY <1>1, <1>2, FirstSlot
<1>4. CurOf(x, k) = CHOOSE i \in S : \A j \in S \ {i} : Precedes(x, i, j)
  BY <1>2 DEF CurOf
<1> QED
  BY <1>1, <1>3, <1>4

\* nothing else is the last entry below k
LEMMA PrevUnique ==
    ASSUME NEW x, x \in ChunkRecord, NEW k \in Nat, NEW p \in Linked(x), x.e[p].key < k,
           \A j \in Linked(x) \ {p} : x.e[j].key < k => Precedes(x, j, p)
    PROVE  PrevOf(x, k) = p
<1>1. PrevOf(x, k) # Null
  BY PrevIs
<1>2. p \in DOMAIN x.e
  BY LinkedFinite
<1>3. SUFFICES ASSUME PrevOf(x, k) # p PROVE FALSE
  OBVIOUS
<1>4. Precedes(x, PrevOf(x, k), p) /\ Precedes(x, p, PrevOf(x, k)) /\ PrevOf(x, k) \in DOMAIN x.e
  BY <1>1, <1>3, PrevIs
<1> QED
  BY <1>2, <1>4, PrecedesStrict

LEMMA KeysAre ==
    Key \subseteq Nat /\ MaxKey \in Key /\ MaxKey + 1 \in Nat /\ \A k \in Key : k < MaxKey + 1 /\ k + 1 \in Nat
BY SizeAssumption DEF Key

LEMMA HasIs ==
    ASSUME NEW x, x \in ChunkRecord, NEW k \in Key
    PROVE  Has(x, k) <=> \E i \in Linked(x) : x.e[i].key = k
<1>0. k \in Nat
  BY KeysAre
<1>1. ASSUME NEW i \in Linked(x), x.e[i].key = k PROVE Has(x, k)
  <2>1. i \in DOMAIN x.e /\ k \in Nat /\ x.e[i].key >= k
    BY <1>1, LinkedFinite, EntriesAre
  <2>2. CurOf(x, k) # Null
    BY <1>0, <2>1, CurIs
  <2>3. CurOf(x, k) \in DOMAIN x.e /\ x.e[CurOf(x, k)].key >= k
    BY <1>0, <2>2, CurIs
  <2>4. x.e[CurOf(x, k)].key <= k
    BY <1>0, <1>1, <2>1, <2>2, <2>3, CurIs, PrecedesStrict
  <2>5. x.e[CurOf(x, k)].key \in Nat
    BY <2>3, EntriesAre
  <2> QED
    BY <2>1, <2>2, <2>3, <2>4, <2>5 DEF Has
<1>2. ASSUME Has(x, k) PROVE \E i \in Linked(x) : x.e[i].key = k
  BY <1>0, <1>2, CurIs DEF Has
<1> QED
  BY <1>1, <1>2

LEMMA LastKeyIs ==
    ASSUME NEW x, x \in ChunkRecord, EntrNum(x) # 0
    PROVE  LastKey(x) \in Key
<1>1. PICK i \in Linked(x) : TRUE
  BY LinkedFinite
<1>2. i \in DOMAIN x.e /\ x.e[i].key \in Key
  BY <1>1, LinkedFinite, EntriesAre
<1>3. x.e[i].key < MaxKey + 1
  BY <1>2, SizeAssumption DEF Key
<1>4. PrevOf(x, MaxKey + 1) # Null
  BY <1>3, KeysAre, PrevIs
<1>5. PrevOf(x, MaxKey + 1) \in DOMAIN x.e
  BY <1>4, KeysAre, PrevIs
<1> QED
  BY <1>5, EntriesAre DEF LastKey

(***************************************************************************)
(* ListOf: the linked entries, in order.                                   *)
(***************************************************************************)
LEMMA ListIs ==
    ASSUME NEW x, x \in ChunkRecord
    PROVE  /\ ListOf(x) \in Seq(EntryRecord)
           /\ Len(ListOf(x)) = EntrNum(x)
           /\ \A n \in 1 .. EntrNum(x) : \E i \in Linked(x) : ListOf(x)[n] = x.e[i]
<1> DEFINE S == Linked(x)
           Before(i) == Cardinality({j \in Linked(x) : Precedes(x, j, i)})
           At1(n) == CHOOSE i \in Linked(x) : Before(i) = n - 1
<1>1. S \in SUBSET (DOMAIN x.e) /\ IsFiniteSet(S) /\ EntrNum(x) \in Nat
  BY LinkedFinite
<1>2. ASSUME NEW n \in 1 .. EntrNum(x) PROVE At1(n) \in S
  <2>1. Ordered(S, InOrder(x, S)) /\ \A i, j \in S : <<i, j>> \in InOrder(x, S) <=> Precedes(x, i, j)
    BY <1>1, SlotsOrdered
  <2>2. n \in 1 .. Cardinality(S)
    BY DEF EntrNum
  <2>3. PICK i \in S : Cardinality(Ahead(S, InOrder(x, S), i)) = n - 1
    BY <1>1, <2>1, <2>2, RankExists
  <2>4. Ahead(S, InOrder(x, S), i) = {j \in Linked(x) : Precedes(x, j, i)}
    BY <2>1, <2>3 DEF Ahead
  <2>5. Before(i) = n - 1
    BY <2>3, <2>4
  <2> QED
    BY <2>5
<1>3. ListOf(x) = [n \in 1 .. EntrNum(x) |-> x.e[At1(n)]]
  BY DEF ListOf
<1> HIDE DEF At1
<1>4. \A n \in 1 .. EntrNum(x) : x.e[At1(n)] \in EntryRecord
  BY <1>1, <1>2, EntriesAre
<1>5. ListOf(x) \in Seq(EntryRecord) /\ Len(ListOf(x)) = EntrNum(x)
  BY <1>1, <1>3, <1>4
<1> QED
  BY <1>2, <1>3, <1>5
-----------------------------------------------------------------------------
(***************************************************************************)
(* What the operations do to a chunk.                                      *)
(***************************************************************************)
States == {"free", "pending", "linked", "deleted"}

\* y is x but for the list, the counter
Frame(x, y) ==
    /\ y.height = x.height /\ y.root = x.root /\ y.frozen = x.frozen
    /\ y.low = x.low /\ y.next = x.next /\ y.creator = x.creator /\ y.by = x.by

\* the state of entry i is now a
Reset(x, y, i, a) ==
    /\ y \in ChunkRecord /\ Frame(x, y)
    /\ DOMAIN y.e = DOMAIN x.e
    /\ \A j \in DOMAIN x.e :
          /\ y.e[j].key = x.e[j].key /\ y.e[j].data = x.e[j].data
          /\ y.e[j].at = IF j = i THEN a ELSE x.e[j].at

LEMMA ChunkWith ==
    ASSUME NEW x, x \in ChunkRecord, NEW e \in Seq(EntryRecord), NEW n \in Int
    PROVE  LET y == [x EXCEPT !.e = e, !.cnt = n]
           IN  y \in ChunkRecord /\ y.e = e /\ y.cnt = n /\ Frame(x, y)
BY DEF ChunkRecord, Frame

\* only the counter is another
Counted(x, y, n) == y \in ChunkRecord /\ y.e = x.e /\ y.cnt = n /\ Frame(x, y)

LEMMA CountIs ==
    ASSUME NEW x, x \in ChunkRecord, NEW n \in Int
    PROVE  Counted(x, [x EXCEPT !.cnt = n], n)
BY DEF ChunkRecord, Frame, Counted

LEMMA EntryWith ==
    ASSUME NEW e \in Seq(EntryRecord), NEW i \in DOMAIN e, NEW ent \in EntryRecord
    PROVE  LET f == [e EXCEPT ![i] = ent]
           IN  /\ f \in Seq(EntryRecord) /\ Len(f) = Len(e) /\ DOMAIN f = DOMAIN e
               /\ \A j \in DOMAIN e : f[j] = IF j = i THEN ent ELSE e[j]
OBVIOUS

LEMMA EntryAt ==
    ASSUME NEW ent \in EntryRecord, NEW a \in States
    PROVE  LET new == [ent EXCEPT !.at = a]
           IN  new \in EntryRecord /\ new.key = ent.key /\ new.data = ent.data /\ new.at = a
BY DEF EntryRecord, States

SetAt(x, i, a, n) == [x EXCEPT !.e = [x.e EXCEPT ![i] = [x.e[i] EXCEPT !.at = a]], !.cnt = n]

LEMMA ResetIs ==
    ASSUME NEW x, x \in ChunkRecord, NEW i \in DOMAIN x.e, NEW a \in States, NEW n \in Int
    PROVE  Reset(x, SetAt(x, i, a, n), i, a) /\ SetAt(x, i, a, n).cnt = n
<1> DEFINE ent == [x.e[i] EXCEPT !.at = a]
           f   == [x.e EXCEPT ![i] = ent]
           y   == [x EXCEPT !.e = f, !.cnt = n]
<1>1. x.e \in Seq(EntryRecord) /\ x.e[i] \in EntryRecord
  BY EntriesAre
<1>2. ent \in EntryRecord /\ ent.key = x.e[i].key /\ ent.data = x.e[i].data /\ ent.at = a
  BY <1>1, EntryAt
<1> HIDE DEF ent
<1>3. /\ f \in Seq(EntryRecord) /\ DOMAIN f = DOMAIN x.e
      /\ \A j \in DOMAIN x.e : f[j] = IF j = i THEN ent ELSE x.e[j]
  BY <1>1, <1>2, EntryWith
<1> HIDE DEF f
<1>4. y \in ChunkRecord /\ y.e = f /\ y.cnt = n /\ Frame(x, y)
  BY <1>3, ChunkWith
<1> HIDE DEF y
<1>5. Reset(x, y, i, a)
  BY <1>2, <1>3, <1>4 DEF Reset
<1> QED
  BY <1>4, <1>5 DEF SetAt, y, f, ent

LEMMA OneMore ==
    ASSUME NEW x, x \in ChunkRecord, NEW y, NEW i, i \notin Linked(x),
           Linked(y) = Linked(x) \cup {i}
    PROVE  EntrNum(y) = EntrNum(x) + 1
BY LinkedFinite, FS_AddElement DEF EntrNum

LEMMA OneLess ==
    ASSUME NEW x, x \in ChunkRecord, NEW y, NEW i \in Linked(x), Linked(y) = Linked(x) \ {i}
    PROVE  EntrNum(y) = EntrNum(x) - 1
BY LinkedFinite, FS_RemoveElement DEF EntrNum

LEMMA ResetLinks ==
    ASSUME NEW x, x \in ChunkRecord, NEW y, NEW i \in DOMAIN x.e, NEW a \in States, Reset(x, y, i, a)
    PROVE  /\ a = "linked" => Linked(y) = Linked(x) \cup {i}
           /\ a = "linked" /\ i \notin Linked(x) => EntrNum(y) = EntrNum(x) + 1
           /\ a # "linked" => Linked(y) = Linked(x) \ {i}
           /\ a # "linked" /\ i \in Linked(x) => EntrNum(y) = EntrNum(x) - 1
           /\ a # "linked" /\ i \notin Linked(x) => Linked(y) = Linked(x) /\ EntrNum(y) = EntrNum(x)
<1>1. a = "linked" => Linked(y) = Linked(x) \cup {i}
  BY DEF Reset, Linked
<1>2. a # "linked" => Linked(y) = Linked(x) \ {i}
  BY DEF Reset, Linked
<1>3. a # "linked" /\ i \notin Linked(x) => Linked(y) = Linked(x) /\ EntrNum(y) = EntrNum(x)
  BY <1>2 DEF EntrNum
<1> QED
  BY <1>1, <1>2, <1>3, OneMore, OneLess

(***************************************************************************)
(* Put: the entry comes into a slot that held none.                        *)
(***************************************************************************)
LEMMA FreeSlotIs ==
    ASSUME NEW x, x \in ChunkRecord
    PROVE  /\ FreeSlot(x) \in 1 .. Len(x.e) + 1
           /\ FreeSlot(x) \in DOMAIN x.e => x.e[FreeSlot(x)].at = "free"
<1>1. DOMAIN x.e = 1 .. Len(x.e) /\ Len(x.e) \in Nat
  BY EntriesAre
<1>2. CASE ~\E i \in DOMAIN x.e : x.e[i].at = "free"
  BY <1>1, <1>2 DEF FreeSlot
<1>3. CASE \E i \in DOMAIN x.e : x.e[i].at = "free"
  <2> DEFINE S == {i \in DOMAIN x.e : x.e[i].at = "free"}
             R == {p \in S \X S : p[1] < p[2]}
  <2>1. S \in SUBSET (DOMAIN x.e) /\ S # {} /\ \A i \in S : i \in Nat
    BY <1>1, <1>3
  <2>2. IsFiniteSet(S)
    BY <2>1, SlotsFinite
  <2>3. \A i, j \in S : <<i, j>> \in R <=> i < j
    OBVIOUS
  <2>4. Ordered(S, R)
    <3> HIDE DEF S, R
    <3> QED
      BY <2>1, <2>3 DEF Ordered
  <2>5. \E i \in S : \A j \in S \ {i} : <<i, j>> \in R
    <3> HIDE DEF S, R
    <3> QED
      BY <2>1, <2>2, <2>4, FirstExists
  <2>6. PICK i \in S : \A j \in S \ {i} : i < j
    BY <2>3, <2>5
  <2>7. \A j \in 1 .. i - 1 : x.e[j].at # "free"
    BY <1>1, <2>1, <2>6
  <2>8. FreeSlot(x) = CHOOSE k \in DOMAIN x.e : x.e[k].at = "free" /\ \A j \in 1 .. k - 1 : x.e[j].at # "free"
    BY <1>3 DEF FreeSlot
  <2>9. FreeSlot(x) \in DOMAIN x.e /\ x.e[FreeSlot(x)].at = "free"
    BY <2>6, <2>7, <2>8
  <2> QED
    BY <1>1, <2>9
<1> QED
  BY <1>2, <1>3

\* y is x with a new entry in slot i
Added(x, y, i, k, d, at) ==
    /\ y \in ChunkRecord /\ Frame(x, y)
    /\ i \in Nat \ {0} /\ i \notin Linked(x) /\ (i \in DOMAIN x.e => x.e[i].at = "free")
    /\ DOMAIN y.e = DOMAIN x.e \cup {i}
    /\ \A j \in DOMAIN x.e \ {i} : y.e[j] = x.e[j]
    /\ y.e[i] = [key |-> k, data |-> d, at |-> at]
    /\ y.cnt = IF at = "linked" THEN x.cnt + 1 ELSE x.cnt

LEMMA PutIs ==
    ASSUME NEW x, x \in ChunkRecord, NEW k \in Key, NEW d \in Thread \cup {Null} \cup ChunkId,
           NEW at \in {"linked", "pending"}
    PROVE  Added(x, Put(x, k, d, at), FreeSlot(x), k, d, at)
<1> DEFINE ent == [key |-> k, data |-> d, at |-> at]
           i == FreeSlot(x)
           f == IF i > Len(x.e) THEN Append(x.e, ent) ELSE [x.e EXCEPT ![i] = ent]
           n == IF at = "linked" THEN x.cnt + 1 ELSE x.cnt
<1>1. x.e \in Seq(EntryRecord) /\ DOMAIN x.e = 1 .. Len(x.e) /\ Len(x.e) \in Nat /\ x.cnt \in Int
  BY EntriesAre
<1>2. i \in 1 .. Len(x.e) + 1 /\ (i \in DOMAIN x.e => x.e[i].at = "free")
  BY FreeSlotIs
<1>3. ent \in EntryRecord
  BY DEF EntryRecord
<1>4. n \in Int
  BY <1>1
<1>5. Put(x, k, d, at) = [x EXCEPT !.e = f, !.cnt = n]
  BY DEF Put
<1> HIDE DEF i, n
<1>6. /\ f \in Seq(EntryRecord) /\ DOMAIN f = DOMAIN x.e \cup {i}
      /\ \A j \in DOMAIN x.e \ {i} : f[j] = x.e[j]
      /\ f[i] = ent
  <2> HIDE DEF ent
  <2>1. CASE i > Len(x.e)
    <3>1. i = Len(x.e) + 1 /\ f = Append(x.e, ent)
      BY <1>1, <1>2, <2>1
    <3>2. f \in Seq(EntryRecord) /\ Len(f) = Len(x.e) + 1 /\ f[i] = ent /\ \A j \in 1 .. Len(x.e) : f[j] = x.e[j]
      BY <1>1, <1>3, <3>1
    <3>3. DOMAIN f = 1 .. Len(x.e) + 1
      BY <3>2
    <3> QED
      BY <1>1, <3>1, <3>2, <3>3
  <2>2. CASE ~(i > Len(x.e))
    <3>1. i \in DOMAIN x.e /\ f = [x.e EXCEPT ![i] = ent]
      BY <1>1, <1>2, <2>2
    <3> QED
      BY <1>1, <1>3, <3>1, EntryWith
  <2> QED
    BY <2>1, <2>2
<1> HIDE DEF f
<1>7. LET y == [x EXCEPT !.e = f, !.cnt = n]
      IN  y \in ChunkRecord /\ y.e = f /\ y.cnt = n /\ Frame(x, y)
  BY <1>4, <1>6, ChunkWith
<1>8. i \in Nat \ {0} /\ i \notin Linked(x)
  BY <1>1, <1>2 DEF Linked
<1>9. Added(x, Put(x, k, d, at), i, k, d, at)
  BY <1>2, <1>5, <1>6, <1>7, <1>8 DEF Added, n
<1> QED
  BY <1>9 DEF i

LEMMA AddedLinks ==
    ASSUME NEW x, x \in ChunkRecord, NEW y, NEW i, NEW k, NEW d, NEW at,
           Added(x, y, i, k, d, at)
    PROVE  /\ at = "linked" => Linked(y) = Linked(x) \cup {i} /\ EntrNum(y) = EntrNum(x) + 1
           /\ at # "linked" => Linked(y) = Linked(x) /\ EntrNum(y) = EntrNum(x)
           /\ at = "linked" => Pending(y) \subseteq Pending(x)
<1>1. at = "linked" => Linked(y) = Linked(x) \cup {i}
  BY DEF Added, Linked
<1>2. at # "linked" => Linked(y) = Linked(x)
  BY DEF Added, Linked
<1>3. at = "linked" => Pending(y) \subseteq Pending(x)
  BY DEF Added, Pending
<1>4. i \notin Linked(x)
  BY DEF Added
<1>5. at = "linked" => EntrNum(y) = EntrNum(x) + 1
  BY <1>1, <1>4, OneMore
<1>6. at # "linked" => EntrNum(y) = EntrNum(x)
  BY <1>2 DEF EntrNum
<1> QED
  BY <1>1, <1>2, <1>3, <1>5, <1>6

LEMMA RemoveIs ==
    ASSUME NEW x, x \in ChunkRecord, NEW k \in Nat, Has(x, k)
    PROVE  /\ Reset(x, Remove(x, k), CurOf(x, k), "deleted")
           /\ CurOf(x, k) \in Linked(x) /\ CurOf(x, k) \in DOMAIN x.e
           /\ Remove(x, k).cnt = x.cnt - 1
           /\ EntrNum(Remove(x, k)) = EntrNum(x) - 1
<1> DEFINE i == CurOf(x, k)
<1>1. i \in Linked(x) /\ i \in DOMAIN x.e
  BY CurIs DEF Has
<1>2. x.cnt - 1 \in Int /\ "deleted" \in States
  BY EntriesAre DEF States
<1>3. Remove(x, k) = SetAt(x, i, "deleted", x.cnt - 1)
  BY DEF Remove, SetAt
<1>4. Reset(x, Remove(x, k), i, "deleted") /\ Remove(x, k).cnt = x.cnt - 1
  <2> HIDE DEF i
  <2> QED
    BY <1>1, <1>2, <1>3, ResetIs
<1>5. EntrNum(Remove(x, k)) = EntrNum(x) - 1
  <2> HIDE DEF i
  <2>1. PICK a \in States : a = "deleted"
    BY <1>2
  <2>2. Reset(x, Remove(x, k), i, a) /\ a # "linked"
    BY <1>4, <2>1
  <2> QED
    BY <1>1, <2>2, ResetLinks
<1> QED
  BY <1>1, <1>4, <1>5

(***************************************************************************)
(* What find answers depends on the keys of the linked entries only.       *)
(***************************************************************************)
LEMMA SameList ==
    ASSUME NEW x, x \in ChunkRecord, NEW y, y \in ChunkRecord, Linked(y) = Linked(x),
           \A i \in Linked(x) : y.e[i].key = x.e[i].key, NEW k \in Key
    PROVE  (Has(y, k) <=> Has(x, k)) /\ PrevOf(y, k) = PrevOf(x, k)
<1>0. k \in Nat
  BY KeysAre
<1>1. Has(y, k) <=> Has(x, k)
  BY HasIs
<1>2. \A i, j \in Linked(x) : Precedes(y, i, j) <=> Precedes(x, i, j)
  BY DEF Precedes
<1>3. CASE PrevOf(x, k) = Null
  <2>1. \A i \in Linked(y) : ~(y.e[i].key < k)
    BY <1>0, <1>3, PrevIs
  <2> QED
    <3> SUFFICES ASSUME PrevOf(y, k) # Null PROVE FALSE
      BY <1>1, <1>3
    <3>1. PrevOf(y, k) \in Linked(y) /\ y.e[PrevOf(y, k)].key < k
      BY <1>0, PrevIs
    <3> QED
      BY <2>1, <3>1
<1>4. CASE PrevOf(x, k) # Null
  <2>1. /\ PrevOf(x, k) \in Linked(x) /\ x.e[PrevOf(x, k)].key < k
        /\ \A j \in Linked(x) \ {PrevOf(x, k)} : x.e[j].key < k => Precedes(x, j, PrevOf(x, k))
    BY <1>0, <1>4, PrevIs
  <2>2. PICK p \in Linked(y) : p = PrevOf(x, k)
    BY <2>1
  <2>3. y.e[p].key < k /\ \A j \in Linked(y) \ {p} : y.e[j].key < k => Precedes(y, j, p)
    BY <1>2, <2>1, <2>2
  <2>4. PrevOf(y, k) = p
    BY <1>0, <2>3, PrevUnique
  <2> QED
    BY <1>1, <2>2, <2>4
<1> QED
  BY <1>1, <1>3, <1>4
(***************************************************************************)
(* The entries fit, whatever the operation.                                *)
(***************************************************************************)
DataType == Thread \cup {Null} \cup ChunkId

LEMMA FitsType ==
    ASSUME Shape, NEW h, NEW d, Fits(h, d) PROVE d \in DataType
BY StartsAssumption DEF Shape, Fits, FitsIn, DataType, ChunkId, Ids

\* the data of entry i are now d
Redirected(x, y, i, d) ==
    /\ y \in ChunkRecord /\ Frame(x, y) /\ y.cnt = x.cnt
    /\ DOMAIN y.e = DOMAIN x.e
    /\ \A j \in DOMAIN x.e :
          /\ y.e[j].key = x.e[j].key /\ y.e[j].at = x.e[j].at
          /\ y.e[j].data = IF j = i THEN d ELSE x.e[j].data

LEMMA RedirectIs ==
    ASSUME NEW x, x \in ChunkRecord, NEW i \in DOMAIN x.e, NEW d \in DataType
    PROVE  Redirected(x, [x EXCEPT !.e[i].data = d], i, d)
<1> DEFINE ent == [x.e[i] EXCEPT !.data = d]
           f   == [x.e EXCEPT ![i] = ent]
           y   == [x EXCEPT !.e = f, !.cnt = x.cnt]
<1>1. x.e \in Seq(EntryRecord) /\ x.e[i] \in EntryRecord /\ x.cnt \in Int
  BY EntriesAre
<1>2. ent \in EntryRecord /\ ent.key = x.e[i].key /\ ent.data = d /\ ent.at = x.e[i].at
  BY <1>1 DEF EntryRecord, DataType
<1>3. [x EXCEPT !.e[i].data = d] = [x EXCEPT !.e = f]
  OBVIOUS
<1> HIDE DEF ent
<1>4. /\ f \in Seq(EntryRecord) /\ DOMAIN f = DOMAIN x.e
      /\ \A j \in DOMAIN x.e : f[j] = IF j = i THEN ent ELSE x.e[j]
  BY <1>1, <1>2, EntryWith
<1> HIDE DEF f
<1>5. y \in ChunkRecord /\ y.e = f /\ y.cnt = x.cnt /\ Frame(x, y)
  BY <1>1, <1>4, ChunkWith
<1>6. [x EXCEPT !.e = f] = y
  BY DEF ChunkRecord
<1> HIDE DEF y
<1> QED
  BY <1>2, <1>3, <1>4, <1>5, <1>6 DEF Redirected

LEMMA RedirectLinks ==
    ASSUME NEW x, NEW y, NEW i, NEW d, Redirected(x, y, i, d)
    PROVE  Linked(y) = Linked(x) /\ EntrNum(y) = EntrNum(x) /\ Pending(y) = Pending(x)
<1>1. Linked(y) = Linked(x) /\ Pending(y) = Pending(x)
  BY DEF Redirected, Linked, Pending
<1> QED
  BY <1>1 DEF EntrNum

LEMMA SoundAdded ==
    ASSUME NEW x, Sound(x), NEW y, NEW i, NEW k, NEW d, NEW at, Added(x, y, i, k, d, at),
           Fits(x.height, d), x.height = 0 => at = "linked"
    PROVE  Sound(y)
<1>1. y \in ChunkRecord /\ y.height = x.height
  BY DEF Added, Frame
<1>2. ASSUME NEW j \in DOMAIN y.e PROVE Fits(y.height, y.e[j].data)
  BY <1>1 DEF Added, Sound
<1>3. ASSUME y.height = 0 PROVE Pending(y) = {}
  <2>1. Pending(y) \subseteq Pending(x)
    BY <1>1, <1>3 DEF Added, Pending
  <2> QED
    BY <1>1, <1>3, <2>1 DEF Sound
<1> QED
  BY <1>1, <1>2, <1>3 DEF Sound

LEMMA SoundReset ==
    ASSUME NEW x, Sound(x), NEW y, NEW i, NEW a, Reset(x, y, i, a), a # "pending"
    PROVE  Sound(y)
<1>1. y \in ChunkRecord /\ y.height = x.height
  BY DEF Reset, Frame
<1>2. ASSUME NEW j \in DOMAIN y.e PROVE Fits(y.height, y.e[j].data)
  BY <1>1 DEF Reset, Sound
<1>3. ASSUME y.height = 0 PROVE Pending(y) = {}
  <2>1. Pending(y) \subseteq Pending(x)
    BY DEF Reset, Pending
  <2> QED
    BY <1>1, <1>3, <2>1 DEF Sound
<1> QED
  BY <1>1, <1>2, <1>3 DEF Sound

LEMMA SoundRedirected ==
    ASSUME NEW x, Sound(x), NEW y, NEW i, NEW d, Redirected(x, y, i, d), Fits(x.height, d)
    PROVE  Sound(y)
<1>1. y \in ChunkRecord /\ y.height = x.height
  BY DEF Redirected, Frame
<1>2. ASSUME NEW j \in DOMAIN y.e PROVE Fits(y.height, y.e[j].data)
  BY <1>1 DEF Redirected, Sound
<1>3. ASSUME y.height = 0 PROVE Pending(y) = {}
  BY <1>1, <1>3, RedirectLinks DEF Sound
<1> QED
  BY <1>1, <1>2, <1>3 DEF Sound
-----------------------------------------------------------------------------
(***************************************************************************)
(* Replacements: chunks with linked entries only.                          *)
(***************************************************************************)
\* a list of entries for a chunk of height h
ListFor(h, list) == list \in Seq(EntryRecord) /\ \A i \in DOMAIN list : Fits(h, list[i].data)

\* a chunk that has just been built to replace c
Built(c, x) ==
    /\ x \in ChunkRecord /\ ListFor(x.height, x.e)
    /\ \A i \in DOMAIN x.e : x.e[i].at = "linked"
    /\ x.cnt = Len(x.e)
    /\ x.height = H(c) /\ x.creator = c /\ x.low = Null /\ x.next = Null /\ ~x.frozen

LEMMA ListOfIs ==
    ASSUME NEW x, Sound(x) PROVE ListFor(x.height, ListOf(x)) /\ Len(ListOf(x)) = EntrNum(x)
<1>1. /\ ListOf(x) \in Seq(EntryRecord) /\ Len(ListOf(x)) = EntrNum(x)
      /\ \A n \in 1 .. EntrNum(x) : \E i \in Linked(x) : ListOf(x)[n] = x.e[i]
  BY ListIs DEF Sound
<1>2. ASSUME NEW n \in DOMAIN ListOf(x) PROVE Fits(x.height, ListOf(x)[n].data)
  <2>1. n \in 1 .. EntrNum(x)
    BY <1>1
  <2>2. PICK i \in Linked(x) : ListOf(x)[n] = x.e[i]
    BY <1>1, <2>1
  <2>3. i \in DOMAIN x.e
    BY LinkedFinite DEF Sound
  <2> QED
    BY <2>2, <2>3 DEF Sound
<1> QED
  BY <1>1, <1>2 DEF ListFor

LEMMA ListsFor ==
    ASSUME NEW h, NEW a, ListFor(h, a), NEW b, ListFor(h, b)
    PROVE  ListFor(h, a \o b) /\ Len(a \o b) = Len(a) + Len(b)
<1>1. a \in Seq(EntryRecord) /\ b \in Seq(EntryRecord)
  BY DEF ListFor
<1>2. a \o b \in Seq(EntryRecord) /\ Len(a \o b) = Len(a) + Len(b) /\ Len(a) \in Nat /\ Len(b) \in Nat
  BY <1>1
<1>3. ASSUME NEW n \in DOMAIN (a \o b) PROVE Fits(h, (a \o b)[n].data)
  <2>1. n \in 1 .. Len(a) + Len(b)
    BY <1>2
  <2>2. CASE n <= Len(a)
    BY <1>1, <1>2, <2>1, <2>2 DEF ListFor
  <2>3. CASE ~(n <= Len(a))
    <3>1. (a \o b)[n] = b[n - Len(a)] /\ n - Len(a) \in 1 .. Len(b)
      BY <1>1, <1>2, <2>1, <2>3
    <3>2. n - Len(a) \in DOMAIN b
      BY <1>1, <3>1
    <3> QED
      BY <3>1, <3>2 DEF ListFor
  <2> QED
    BY <2>2, <2>3
<1> QED
  BY <1>2, <1>3 DEF ListFor

LEMMA PartFor ==
    ASSUME NEW h, NEW a, ListFor(h, a), NEW m \in Nat, NEW n \in Nat, 1 <= m, n <= Len(a)
    PROVE  ListFor(h, SubSeq(a, m, n)) /\ (m <= n + 1 => Len(SubSeq(a, m, n)) = n - m + 1)
<1>1. a \in Seq(EntryRecord) /\ Len(a) \in Nat /\ DOMAIN a = 1 .. Len(a)
  BY DEF ListFor
<1>2. SubSeq(a, m, n) = [i \in 1 .. (n - m + 1) |-> a[i + m - 1]]
  BY <1>1
<1>3. ASSUME NEW i \in 1 .. (n - m + 1)
      PROVE  a[i + m - 1] \in EntryRecord /\ Fits(h, a[i + m - 1].data)
  <2>1. i + m - 1 \in DOMAIN a
    BY <1>1
  <2> QED
    BY <1>1, <2>1 DEF ListFor
<1>4. SubSeq(a, m, n) \in Seq(EntryRecord) /\ (m <= n + 1 => Len(SubSeq(a, m, n)) = n - m + 1)
  BY <1>1
<1>5. DOMAIN SubSeq(a, m, n) = 1 .. (n - m + 1)
  BY <1>2
<1> QED
  BY <1>2, <1>3, <1>4, <1>5 DEF ListFor

LEMMA ChunkIs ==
    ASSUME Shape, NEW c \in Ids, NEW list, ListFor(H(c), list), NEW r \in BOOLEAN, NEW by \in Thread
    PROVE  LET x == Chunk(list, H(c), r, c, by)
           IN  Built(c, x) /\ Len(x.e) = Len(list) /\ x.root = r
<1> DEFINE e == [i \in DOMAIN list |-> [list[i] EXCEPT !.at = "linked"]]
<1>1. list \in Seq(EntryRecord) /\ DOMAIN list = 1 .. Len(list) /\ Len(list) \in Nat
  BY DEF ListFor
<1>2. ASSUME NEW i \in DOMAIN list
      PROVE  e[i] \in EntryRecord /\ e[i].data = list[i].data /\ e[i].at = "linked"
  <2>1. list[i] \in EntryRecord /\ "linked" \in States
    BY <1>1 DEF States
  <2> QED
    BY <2>1, EntryAt
<1>3. DOMAIN e = 1 .. Len(list)
  BY <1>1
<1> DEFINE x == Chunk(list, H(c), r, c, by)
<1>4. x = [e |-> e, cnt |-> Len(list), height |-> H(c), root |-> r, frozen |-> FALSE,
           low |-> Null, next |-> Null, creator |-> c, by |-> by]
  BY DEF Chunk
<1> HIDE DEF e, x
<1>5. e \in Seq(EntryRecord) /\ Len(e) = Len(list)
  <2>1. e = [i \in 1 .. Len(list) |-> e[i]]
    BY <1>1 DEF e
  <2> QED
    BY <1>1, <1>2, <1>3, <2>1
<1>6. H(c) \in Nat /\ c \in ChunkId
  BY StartsAssumption DEF Shape, Sound, H, Ids, ChunkRecord, ChunkId
<1>7. x \in ChunkRecord
  BY <1>1, <1>4, <1>5, <1>6 DEF ChunkRecord
<1>8. ListFor(H(c), e)
  BY <1>2, <1>3, <1>1, <1>5 DEF ListFor
<1>9. \A i \in DOMAIN e : e[i].at = "linked"
  BY <1>1, <1>2, <1>3
<1>10. Built(c, x) /\ Len(x.e) = Len(list) /\ x.root = r
  BY <1>4, <1>5, <1>7, <1>8, <1>9 DEF Built
<1> QED
  BY <1>10 DEF x

LEMMA BuiltIs ==
    ASSUME NEW c, NEW x, Built(c, x)
    PROVE  /\ Sound(x) /\ EntrNum(x) = Len(x.e) /\ Len(x.e) \in Nat /\ DOMAIN x.e = 1 .. Len(x.e)
           /\ x.root \/ Len(x.e) >= MinEntries => NewOK(TRUE, c, x)
<1>1. x \in ChunkRecord
  BY DEF Built
<1>2. Linked(x) = DOMAIN x.e /\ Pending(x) = {} /\ DOMAIN x.e = 1 .. Len(x.e) /\ Len(x.e) \in Nat
  BY <1>1, EntriesAre DEF Built, Linked, Pending
<1>3. EntrNum(x) = Len(x.e)
  BY <1>2, FS_Interval DEF EntrNum
<1>4. Sound(x)
  BY <1>1, <1>2 DEF Built, Sound, ListFor
<1> QED
  BY <1>2, <1>3, <1>4 DEF Built, NewOK

LEMMA HalfIs ==
    ASSUME NEW n \in Nat, n >= MaxEntries
    PROVE  /\ Median(n) \in Nat /\ Median(n) >= MinEntries + 3 /\ n - Median(n) >= MinEntries + 3
           /\ Median(n) < n
BY SizeAssumption DEF Median

\* two new chunks with the second halves the list; sep is the last key of the first
Halves(c, p) ==
    /\ p.two = TRUE /\ p.master = Null
    /\ p = [low |-> p.low, high |-> p.high, two |-> TRUE, sep |-> p.sep, master |-> Null]
    /\ Built(c, p.low) /\ ~p.low.root /\ Len(p.low.e) >= MinEntries + 3
    /\ Built(c, p.high) /\ ~p.high.root /\ Len(p.high.e) >= MinEntries + 3
    /\ p.sep \in Key

LEMMA TwoOfIs ==
    ASSUME Shape, NEW c \in Ids, NEW list, ListFor(H(c), list), Len(list) >= MaxEntries,
           NEW by \in Thread
    PROVE  Halves(c, TwoOf(list, H(c), c, by))
<1> DEFINE n == Len(list)
           m == Median(n)
           a == SubSeq(list, 1, m)
           b == SubSeq(list, m + 1, n)
<1>1. list \in Seq(EntryRecord) /\ DOMAIN list = 1 .. n /\ n \in Nat
  BY DEF ListFor
<1>2. m \in Nat /\ m >= MinEntries + 3 /\ n - m >= MinEntries + 3 /\ m < n
  BY <1>1, HalfIs
<1>3. m \in DOMAIN list
  BY <1>1, <1>2, SizeAssumption
<1> HIDE DEF m, n
<1>4. list[m].key \in Key
  <2>1. list[m] \in EntryRecord
    BY <1>1, <1>3
  <2> QED
    BY <2>1 DEF EntryRecord
<1>5. ListFor(H(c), a) /\ Len(a) = m
  BY <1>1, <1>2, PartFor, SizeAssumption DEF n
<1>6. ListFor(H(c), b) /\ Len(b) = n - m
  <2>1. m + 1 \in Nat /\ 1 <= m + 1 /\ m + 1 <= n + 1 /\ n <= Len(list)
    BY <1>1, <1>2 DEF n
  <2>2. n - (m + 1) + 1 = n - m
    BY <1>1, <1>2
  <2> QED
    BY <1>1, <2>1, <2>2, PartFor
<1> DEFINE lo == Chunk(a, H(c), FALSE, c, by)
           hi == Chunk(b, H(c), FALSE, c, by)
           p  == TwoOf(list, H(c), c, by)
<1> HIDE DEF a, b
<1>7. Built(c, lo) /\ Len(lo.e) = m /\ ~lo.root
  BY <1>5, ChunkIs
<1>8. Built(c, hi) /\ Len(hi.e) = n - m /\ ~hi.root
  BY <1>6, ChunkIs
<1>9. p = [low |-> lo, high |-> hi, two |-> TRUE, sep |-> list[m].key, master |-> Null]
  BY DEF TwoOf, a, b, m, n
<1> HIDE DEF lo, hi, p
<1>10. Halves(c, p)
  BY <1>2, <1>4, <1>7, <1>8, <1>9 DEF Halves
<1> QED
  BY <1>10 DEF p
-----------------------------------------------------------------------------
(***************************************************************************)
(* moveEntryFromFirstToSecond.  The second of two entries is lost, so that *)
(* the second chunk then has one less than its counter says.               *)
(***************************************************************************)
\* the two chunks of a replacement of c, after the move of n entries
PairOK(n, c, new) ==
    /\ new.two = TRUE /\ new.master = Null /\ new.sep \in Key
    /\ new = [low |-> new.low, high |-> new.high, two |-> TRUE, sep |-> new.sep, master |-> Null]
    /\ NewOK(TRUE, c, new.low) /\ ~new.low.root
    /\ NewOK(n # 2, c, new.high) /\ ~new.high.root

LEMMA MoveIs ==
    ASSUME Shape, NEW c \in Ids, NEW p, Halves(c, p), NEW n \in {0, 1, 2}, n # 0 => H(c) # 0
    PROVE  PairOK(n, c, Move(p, n))
<1> DEFINE last  == Len(p.low.e)
           one   == p.low.e[last]
           two   == p.low.e[last - 1]
           gone  == [one EXCEPT !.at = "pending"]
           moved == IF n = 1 THEN <<one>> ELSE <<gone, two>>
           rest  == SubSeq(p.low.e, 1, last - n)
           low   == [p.low EXCEPT !.e = rest, !.cnt = p.low.cnt - n]
           both  == p.high.e \o moved
           high  == [p.high EXCEPT !.e = both, !.cnt = p.high.cnt + n]
<1>1. /\ Built(c, p.low) /\ p.low.e \in Seq(EntryRecord) /\ last \in Nat /\ last >= MinEntries + 3
      /\ DOMAIN p.low.e = 1 .. last
  BY BuiltIs DEF Halves, Built, ListFor
<1>2. /\ Built(c, p.high) /\ p.high.e \in Seq(EntryRecord) /\ Len(p.high.e) \in Nat
      /\ Len(p.high.e) >= MinEntries + 3 /\ DOMAIN p.high.e = 1 .. Len(p.high.e)
  BY BuiltIs DEF Halves, Built, ListFor
<1>3. CASE n = 0
  <2>1. Move(p, n) = p
    BY <1>3 DEF Move
  <2>2. NewOK(TRUE, c, p.low) /\ NewOK(TRUE, c, p.high)
    <3>1. MinEntries + 3 \in Nat /\ MinEntries + 3 >= MinEntries
      BY SizeAssumption
    <3>2. Len(p.low.e) >= MinEntries /\ Len(p.high.e) >= MinEntries
      BY <1>1, <1>2, <3>1, SizeAssumption
    <3> QED
      BY <1>1, <1>2, <3>2, BuiltIs
  <2>3. NewOK(n # 2, c, p.high)
    BY <2>2 DEF NewOK
  <2> QED
    BY <2>1, <2>2, <2>3 DEF Halves, PairOK
<1>4. CASE n # 0
  <2>1. n \in 1 .. 2 /\ last - n \in Nat /\ last - n >= MinEntries + 1 /\ last - n < last
    <3>1. n \in 1 .. 2
      BY <1>4
    <3> HIDE DEF last
    <3> QED
      BY <1>1, <3>1, SizeAssumption
  <2>2. last \in DOMAIN p.low.e /\ last - 1 \in DOMAIN p.low.e
    <3> HIDE DEF last
    <3> QED
      BY <1>1, SizeAssumption
  <2>3. /\ one \in EntryRecord /\ two \in EntryRecord /\ one.at = "linked" /\ two.at = "linked"
        /\ Fits(H(c), one.data) /\ Fits(H(c), two.data)
    <3> HIDE DEF last
    <3> QED
      BY <1>1, <2>2 DEF Built, ListFor
  <2>4. gone \in EntryRecord /\ gone.data = one.data /\ gone.at = "pending"
    <3> HIDE DEF one
    <3>1. "pending" \in States
      BY DEF States
    <3> QED
      BY <2>3, <3>1, EntryAt
  <2> HIDE DEF last, one, two, gone
  <2>5. /\ moved \in Seq(EntryRecord) /\ Len(moved) = n /\ DOMAIN moved = 1 .. n
        /\ \A i \in DOMAIN moved : Fits(H(c), moved[i].data)
        /\ n = 1 => moved[1].at = "linked"
        /\ n = 2 => moved[1].at = "pending" /\ moved[2].at = "linked"
    <3>1. CASE n = 1
      BY <2>3, <3>1
    <3>2. CASE n # 1
      BY <2>1, <2>3, <2>4, <3>2
    <3> QED
      BY <3>1, <3>2
  <2> HIDE DEF moved
  <2>6. ListFor(H(c), rest) /\ Len(rest) = last - n /\ rest = [i \in 1 .. last - n |-> p.low.e[i]]
    <3>1. ListFor(H(c), p.low.e)
      BY <1>1 DEF Built
    <3>2. rest = [i \in 1 .. last - n |-> p.low.e[i]]
      BY <1>1, <2>1 DEF last
    <3>3. ListFor(H(c), rest) /\ Len(rest) = (last - n) - 1 + 1
      BY <1>1, <2>1, <3>1, PartFor DEF last
    <3> QED
      BY <1>1, <2>1, <3>2, <3>3
  <2> HIDE DEF rest
  <2>7. /\ low \in ChunkRecord /\ low.e = rest /\ low.cnt = p.low.cnt - n /\ Frame(p.low, low)
    <3>1. p.low \in ChunkRecord /\ rest \in Seq(EntryRecord) /\ p.low.cnt - n \in Int
      BY <1>1, <2>1, <2>6, EntriesAre DEF Built, ListFor
    <3> QED
      BY <3>1, ChunkWith
  <2> HIDE DEF low
  <2>8. Built(c, low) /\ ~low.root
    <3>1. ~p.low.root
      BY DEF Halves
    <3>2. \A i \in DOMAIN rest : rest[i].at = "linked"
      BY <1>1, <2>1, <2>6 DEF Built
    <3>3. low.cnt = Len(rest)
      BY <1>1, <2>6, <2>7 DEF Built, last
    <3> QED
      BY <1>1, <2>6, <2>7, <3>1, <3>2, <3>3 DEF Built, Frame
  <2>9. NewOK(TRUE, c, low) /\ EntrNum(low) # 0
    <3>1. Len(low.e) >= MinEntries + 1 /\ Len(low.e) \in Nat
      BY <2>1, <2>6, <2>7
    <3> QED
      <4>1. Len(low.e) >= MinEntries /\ Len(low.e) # 0
        BY <3>1, SizeAssumption
      <4> QED
        BY <2>8, <4>1, BuiltIs
  <2>10. LastKey(low) \in Key
    BY <2>7, <2>9, LastKeyIs
  <2>11. /\ ListFor(H(c), both) /\ Len(both) = Len(p.high.e) + n
         /\ \A i \in 1 .. Len(p.high.e) : both[i] = p.high.e[i]
         /\ \A i \in 1 .. n : both[Len(p.high.e) + i] = moved[i]
    <3>1. ListFor(H(c), p.high.e) /\ ListFor(H(c), moved)
      BY <1>2, <2>5 DEF Built, ListFor
    <3>2. ListFor(H(c), both) /\ Len(both) = Len(p.high.e) + n
      BY <2>5, <3>1, ListsFor
    <3> QED
      BY <1>2, <2>1, <2>5, <3>2
  <2> HIDE DEF both
  <2>12. /\ high \in ChunkRecord /\ high.e = both /\ high.cnt = p.high.cnt + n /\ Frame(p.high, high)
    <3>1. p.high \in ChunkRecord /\ both \in Seq(EntryRecord) /\ p.high.cnt + n \in Int
      BY <1>2, <2>1, <2>11, EntriesAre DEF Built, ListFor
    <3> QED
      BY <3>1, ChunkWith
  <2> HIDE DEF high
  <2>13. both \in Seq(EntryRecord) /\ DOMAIN both = 1 .. Len(p.high.e) + n
    BY <1>2, <2>1, <2>11 DEF ListFor
  <2>14. Sound(high)
    <3>1. high.height = H(c)
      BY <1>2, <2>12 DEF Built, Frame
    <3> QED
      BY <1>4, <2>11, <2>12, <3>1 DEF Sound, ListFor
  <2>15. n # 2 => EntrNum(high) = high.cnt /\ high.cnt >= MinEntries
    <3> SUFFICES ASSUME n # 2 PROVE EntrNum(high) = high.cnt /\ high.cnt >= MinEntries
      OBVIOUS
    <3>1. n = 1
      BY <2>1
    <3>2. \A i \in DOMAIN both : both[i].at = "linked"
      <4> SUFFICES ASSUME NEW i \in DOMAIN both PROVE both[i].at = "linked"
        OBVIOUS
      <4>1. CASE i \in 1 .. Len(p.high.e)
        BY <1>2, <2>11, <4>1 DEF Built
      <4>2. CASE i \notin 1 .. Len(p.high.e)
        <5>1. i = Len(p.high.e) + 1
          BY <1>2, <2>13, <3>1, <4>2
        <5> QED
          BY <2>5, <2>11, <3>1, <5>1
      <4> QED
        BY <4>1, <4>2
    <3>3. Linked(high) = 1 .. Len(p.high.e) + 1
      BY <2>12, <2>13, <3>1, <3>2 DEF Linked
    <3>4. EntrNum(high) = Len(p.high.e) + 1
      BY <1>2, <3>3, FS_Interval DEF EntrNum
    <3>5. p.high.cnt = Len(p.high.e)
      BY <1>2 DEF Built
    <3> QED
      BY <1>2, <2>12, <3>1, <3>4, <3>5, SizeAssumption
  <2>16. NewOK(n # 2, c, high) /\ ~high.root
    <3>1. ~p.high.root
      BY DEF Halves
    <3>2. n # 2 => EntrNum(high) >= high.cnt /\ high.cnt >= MinEntries
      <4>1. high.cnt \in Int
        BY <2>12, EntriesAre
      <4> QED
        BY <2>15, <4>1
    <3> QED
      BY <1>2, <2>12, <2>14, <3>1, <3>2 DEF Built, Frame, NewOK
  <2>17. Move(p, n) = [p EXCEPT !.low = low, !.sep = LastKey(low),
                               !.high.e = p.high.e \o moved, !.high.cnt = p.high.cnt + n]
    BY <1>4 DEF Move, low, rest, moved, gone, one, two, last
  <2>18. Move(p, n) = [low |-> low, high |-> high, two |-> TRUE, sep |-> LastKey(low), master |-> Null]
    BY <2>17 DEF Halves, high, both
  <2>19. PICK q : q = Move(p, n)
    OBVIOUS
  <2>20. /\ q.low = low /\ q.high = high /\ q.two = TRUE /\ q.sep \in Key /\ q.master = Null
         /\ q = [low |-> q.low, high |-> q.high, two |-> TRUE, sep |-> q.sep, master |-> Null]
    BY <2>10, <2>18, <2>19
  <2>21. PairOK(n, c, q)
    BY <2>8, <2>9, <2>16, <2>20 DEF PairOK
  <2> QED
    BY <2>19, <2>21
<1> QED
  BY <1>3, <1>4

(***************************************************************************)
(* What is built for a chunk c that is frozen, before the call is          *)
(* performed: one chunk, or two after the move.                            *)
(***************************************************************************)
OneOK(c, new) ==
    /\ new = [low |-> new.low, two |-> FALSE, sep |-> new.sep, master |-> Null]
    /\ new.two = FALSE /\ new.master = Null /\ new.sep = MaxKey
    /\ Built(c, new.low)

LEMMA ToMoveIs ==
    ASSUME NEW p, NEW partner
    PROVE  ToMove(p, partner) \in {0, 1, 2} /\ (ToMove(p, partner) # 0 => p.two /\ p.low.height # 0)
BY DEF ToMove, ShouldMove

LEMMA ShiftedOne ==
    ASSUME NEW c, NEW p, OneOK(c, p), NEW partner PROVE Shifted(p, partner) = p
BY DEF OneOK, Shifted, ToMove, Move

LEMMA ShiftedTwo ==
    ASSUME Shape, NEW c \in Ids, NEW p, Halves(c, p), NEW partner
    PROVE  PairOK(ToMove(p, partner), c, Shifted(p, partner))
<1>1. p.low.height = H(c)
  BY DEF Halves, Built
<1>2. PICK n \in {0, 1, 2} : n = ToMove(p, partner)
  BY ToMoveIs
<1>3. n # 0 => H(c) # 0
  BY <1>1, <1>2, ToMoveIs
<1> QED
  BY <1>2, <1>3, MoveIs DEF Shifted
-----------------------------------------------------------------------------
(***************************************************************************)
(* The call performed in a new chunk x that replaces c.                    *)
(***************************************************************************)
LEMMA NewOKIs ==
    ASSUME NEW kept, NEW c, NEW x, NewOK(kept, c, x)
    PROVE  x \in ChunkRecord /\ EntrNum(x) \in Nat /\ x.cnt \in Int /\ Sound(x) /\ x.height = H(c)
BY EntriesAre, LinkedFinite DEF NewOK, Sound

LEMMA InsertInIs ==
    ASSUME Shape, NEW c \in Ids, NEW kept \in BOOLEAN, NEW x, NewOK(kept, c, x),
           NEW w, w.key \in Key, Fits(H(c), w.data), NEW fit \in BOOLEAN, H(c) = 0 => fit
    PROVE  LET o == InsertIn(x, w, fit)
           IN  NewOK(kept, c, o.x) /\ o.x.root = x.root
<1> DEFINE at == IF fit THEN "linked" ELSE "pending"
           y  == Put(x, w.key, w.data, at)
           i  == FreeSlot(x)
<1>1. x \in ChunkRecord /\ EntrNum(x) \in Nat /\ x.cnt \in Int /\ Sound(x) /\ x.height = H(c)
  BY NewOKIs
<1>2. CASE ~Room(x) \/ Has(x, w.key)
  BY <1>2 DEF InsertIn, Failure, Outcome
<1>3. CASE Room(x) /\ ~Has(x, w.key)
  <2>1. InsertIn(x, w, fit) = Outcome(y, TRUE)
    BY <1>3 DEF InsertIn
  <2>2. InsertIn(x, w, fit).x = y
    BY <2>1 DEF Outcome
  <2>3. at \in {"linked", "pending"} /\ (H(c) = 0 => at = "linked")
    OBVIOUS
  <2> HIDE DEF at
  <2>4. w.data \in DataType
    BY FitsType
  <2>5. Added(x, y, i, w.key, w.data, at)
    BY <1>1, <2>3, <2>4, PutIs DEF DataType
  <2> HIDE DEF y, i
  <2>6. Sound(y)
    BY <1>1, <2>3, <2>5, SoundAdded
  <2>7. /\ at = "linked" => EntrNum(y) = EntrNum(x) + 1
        /\ at # "linked" => EntrNum(y) = EntrNum(x)
    BY <1>1, <2>5, AddedLinks
  <2>8. /\ at = "linked" => y.cnt = x.cnt + 1
        /\ at # "linked" => y.cnt = x.cnt
        /\ Frame(x, y)
    BY <2>5 DEF Added
  <2>9. kept => EntrNum(y) >= y.cnt /\ (y.root \/ y.cnt >= MinEntries)
    BY <1>1, <2>7, <2>8, SizeAssumption DEF NewOK, Frame
  <2> QED
    BY <2>2, <2>6, <2>8, <2>9 DEF NewOK, Frame
<1> QED
  BY <1>2, <1>3

LEMMA DeleteInIs ==
    ASSUME Shape, NEW c \in Ids, NEW kept \in BOOLEAN, NEW x, NewOK(kept, c, x), NEW w, w.key \in Key
    PROVE  LET o == DeleteIn(x, w)
           IN  NewOK(kept, c, o.x) /\ o.x.root = x.root
<1> DEFINE y == Remove(x, w.key)
           z == [x EXCEPT !.cnt = x.cnt - 1]
<1>1. x \in ChunkRecord /\ EntrNum(x) \in Nat /\ x.cnt \in Int /\ Sound(x) /\ x.height = H(c)
  BY NewOKIs
<1>2. CASE ~MayDecrement(x) \/ ~Has(x, w.key)
  BY <1>2 DEF DeleteIn, Failure, Outcome
<1>3. CASE MayDecrement(x) /\ Has(x, w.key)
  <2>1. kept => EntrNum(x) >= x.cnt /\ (x.root \/ x.cnt - 1 >= MinEntries)
    BY <1>1, <1>3, SizeAssumption DEF NewOK, MayDecrement
  <2>2. CASE x.height # 0 /\ x.e[CurOf(x, w.key)].data # w.data
    <3>1. DeleteIn(x, w) = Outcome(z, TRUE)
      BY <1>3, <2>2 DEF DeleteIn
    <3>2. DeleteIn(x, w).x = z
      BY <3>1 DEF Outcome
    <3>3. x.cnt - 1 \in Int
      BY <1>1
    <3>4. z \in ChunkRecord /\ z.e = x.e /\ z.cnt = x.cnt - 1 /\ Frame(x, z)
      BY <1>1, <3>3, CountIs DEF Counted
    <3> HIDE DEF z
    <3>5. EntrNum(z) = EntrNum(x) /\ Pending(z) = Pending(x)
      BY <3>4 DEF EntrNum, Linked, Pending
    <3>6. Sound(z)
      BY <1>1, <3>4, <3>5 DEF Sound, Frame
    <3>7. kept => EntrNum(z) >= z.cnt /\ (z.root \/ z.cnt >= MinEntries)
      BY <1>1, <2>1, <3>4, <3>5 DEF Frame
    <3> QED
      BY <3>2, <3>4, <3>6, <3>7 DEF NewOK, Frame
  <2>3. CASE ~(x.height # 0 /\ x.e[CurOf(x, w.key)].data # w.data)
    <3>1. DeleteIn(x, w) = Outcome(y, TRUE)
      BY <1>3, <2>3 DEF DeleteIn
    <3>2. DeleteIn(x, w).x = y
      BY <3>1 DEF Outcome
    <3>3. Reset(x, y, CurOf(x, w.key), "deleted") /\ y.cnt = x.cnt - 1 /\ EntrNum(y) = EntrNum(x) - 1
      BY <1>1, <1>3, RemoveIs, KeysAre
    <3> HIDE DEF y
    <3>4. Sound(y)
      BY <1>1, <3>3, SoundReset
    <3>5. kept => EntrNum(y) >= y.cnt /\ (y.root \/ y.cnt >= MinEntries)
      BY <1>1, <2>1, <3>3 DEF Reset, Frame
    <3> QED
      BY <3>2, <3>3, <3>4, <3>5 DEF NewOK, Reset, Frame
  <2> QED
    BY <2>2, <2>3
<1> QED
  BY <1>2, <1>3

LEMMA SwapInIs ==
    ASSUME Shape, NEW c \in Ids, NEW kept \in BOOLEAN, NEW x, NewOK(kept, c, x),
           NEW w, w.key \in Key, Fits(H(c), w.data)
    PROVE  LET o == SwapIn(x, w)
           IN  NewOK(kept, c, o.x) /\ o.x.root = x.root
<1> DEFINE i == CurOf(x, w.key)
           y == [x EXCEPT !.e[i].data = w.data]
<1>1. x \in ChunkRecord /\ EntrNum(x) \in Nat /\ x.cnt \in Int /\ Sound(x) /\ x.height = H(c)
  BY NewOKIs
<1>2. CASE ~(Has(x, w.key) /\ x.e[i].data = w.exp)
  BY <1>2 DEF SwapIn, Outcome
<1>3. CASE Has(x, w.key) /\ x.e[i].data = w.exp
  <2>1. SwapIn(x, w) = Outcome(y, TRUE)
    BY <1>3 DEF SwapIn
  <2>2. SwapIn(x, w).x = y
    BY <2>1 DEF Outcome
  <2>3. i \in DOMAIN x.e
    BY <1>1, <1>3, CurIs, KeysAre DEF Has
  <2> HIDE DEF i
  <2>4. w.data \in DataType
    BY FitsType
  <2>5. Redirected(x, y, i, w.data)
    BY <1>1, <2>3, <2>4, RedirectIs
  <2> HIDE DEF y
  <2>6. Sound(y)
    BY <1>1, <2>5, SoundRedirected
  <2>7. EntrNum(y) = EntrNum(x)
    BY <2>5, RedirectLinks
  <2>8. y.cnt = x.cnt /\ Frame(x, y)
    BY <2>5 DEF Redirected
  <2> QED
    BY <2>2, <2>6, <2>7, <2>8 DEF NewOK, Frame
<1> QED
  BY <1>2, <1>3

(***************************************************************************)
(* A replacement in which one of the chunks has changed.                   *)
(***************************************************************************)
FormOK(p) ==
    \/ p.two = FALSE /\ p = [low |-> p.low, two |-> p.two, sep |-> p.sep, master |-> p.master]
    \/ p = [low |-> p.low, high |-> p.high, two |-> p.two, sep |-> p.sep, master |-> p.master]

LEMMA OtherLow ==
    ASSUME NEW K \in BOOLEAN, NEW c, NEW dec, NEW p, FormOK(p), ReplacementOK(K, c, dec, p),
           NEW y, NewOK(K \/ H(c) = 0 \/ p.two, c, y), y.root = p.low.root
    PROVE  LET q == [p EXCEPT !.low = y]
           IN  /\ FormOK(q) /\ ReplacementOK(K, c, dec, q)
               /\ q.low = y /\ q.two = p.two /\ q.sep = p.sep /\ (p.two => q.high = p.high)
<1> DEFINE q == [p EXCEPT !.low = y]
<1>1. /\ FormOK(q) /\ q.low = y /\ q.two = p.two /\ q.sep = p.sep /\ q.master = p.master
      /\ p.two => q.high = p.high
  BY DEF FormOK, ReplacementOK
<1> HIDE DEF q
<1>2. ReplacementOK(K, c, dec, q)
  BY <1>1 DEF ReplacementOK
<1> QED
  BY <1>1, <1>2 DEF q

LEMMA OtherHigh ==
    ASSUME NEW K \in BOOLEAN, NEW c, NEW dec, NEW p, FormOK(p), ReplacementOK(K, c, dec, p), p.two,
           NEW y, NewOK(K \/ H(c) = 0, c, y), y.root = p.high.root
    PROVE  ReplacementOK(K, c, dec, [p EXCEPT !.high = y])
<1> DEFINE q == [p EXCEPT !.high = y]
<1>1. q.high = y /\ q.low = p.low /\ q.two = p.two /\ q.sep = p.sep /\ q.master = p.master
  BY DEF FormOK
<1> HIDE DEF q
<1>2. ReplacementOK(K, c, dec, q)
  BY <1>1 DEF ReplacementOK
<1> QED
  BY <1>2 DEF q

LEMMA PerformIs ==
    ASSUME Shape, NEW K \in BOOLEAN, NEW c \in Ids, NEW dec, NEW p, FormOK(p),
           ReplacementOK(K, c, dec, p), NEW w, CallOK(H(c), w), NEW fit \in BOOLEAN,
           w.trigger = "INSERT" /\ H(c) = 0 => fit, ~p.two => p.sep = MaxKey
    PROVE  ReplacementOK(K, c, dec, Perform(p, w, dec, fit).new)
<1> DEFINE keptLow  == K \/ H(c) = 0 \/ p.two
           keptHigh == K \/ H(c) = 0
<1>1. /\ p.two \in BOOLEAN /\ NewOK(keptLow, c, p.low) /\ keptLow \in BOOLEAN
      /\ p.two => NewOK(keptHigh, c, p.high) /\ keptHigh \in BOOLEAN
      /\ p.sep \in Key
  BY DEF ReplacementOK
<1> HIDE DEF keptLow, keptHigh
<1>2. ASSUME NEW o, NewOK(keptLow, c, o.x), o.x.root = p.low.root
      PROVE  ReplacementOK(K, c, dec, InLow(p, o).new)
  BY <1>2, OtherLow DEF InLow, keptLow
<1>3. ASSUME NEW o, p.two, NewOK(keptHigh, c, o.x), o.x.root = p.high.root
      PROVE  ReplacementOK(K, c, dec, InHigh(p, o).new)
  BY <1>3, OtherHigh DEF InHigh, keptHigh
<1>4. CASE w.trigger = "INSERT"
  <2>1. w.key \in Key /\ Fits(H(c), w.data) /\ (H(c) = 0 => fit)
    BY <1>4 DEF CallOK
  <2>2. CASE p.two /\ w.key > p.sep
    <3>1. LET o == InsertIn(p.high, w, fit) IN NewOK(keptHigh, c, o.x) /\ o.x.root = p.high.root
      BY <1>1, <2>1, <2>2, InsertInIs
    <3>2. Perform(p, w, dec, fit) = InHigh(p, InsertIn(p.high, w, fit))
      BY <1>4, <2>2 DEF Perform
    <3> QED
      BY <1>3, <2>2, <3>1, <3>2
  <2>3. CASE ~(p.two /\ w.key > p.sep)
    <3>1. LET o == InsertIn(p.low, w, fit) IN NewOK(keptLow, c, o.x) /\ o.x.root = p.low.root
      BY <1>1, <2>1, InsertInIs
    <3>2. Perform(p, w, dec, fit) = InLow(p, InsertIn(p.low, w, fit))
      BY <1>4, <2>3 DEF Perform
    <3> QED
      BY <1>2, <3>1, <3>2
  <2> QED
    BY <2>2, <2>3
<1>5. CASE w.trigger = "DELETE"
  <2> DEFINE first == DeleteIn(p.low, w)
             q     == [p EXCEPT !.low = first.x]
  <2>0. w.key \in Key
    BY <1>5 DEF CallOK
  <2>1. NewOK(keptLow, c, first.x) /\ first.x.root = p.low.root
    BY <1>1, <2>0, DeleteInIs
  <2>2. CASE first.result \/ ~first.asserts \/ ~p.two
    <3>1. Perform(p, w, dec, fit) = InLow(p, first)
      BY <1>5, <2>2 DEF Perform
    <3> QED
      BY <1>2, <2>1, <3>1
  <2>3. CASE ~(first.result \/ ~first.asserts \/ ~p.two)
    <3>1. Perform(p, w, dec, fit) = InHigh(q, DeleteIn(p.high, w))
      BY <1>5, <2>3 DEF Perform
    <3>2. LET o == DeleteIn(p.high, w) IN NewOK(keptHigh, c, o.x) /\ o.x.root = p.high.root
      BY <1>1, <2>0, <2>3, DeleteInIs
    <3> HIDE DEF first
    <3>3. FormOK(q) /\ ReplacementOK(K, c, dec, q) /\ q.two /\ q.high = p.high
      BY <2>1, <2>3, OtherLow DEF keptLow
    <3> HIDE DEF q
    <3>4. PICK o : o = DeleteIn(p.high, w)
      OBVIOUS
    <3>5. ReplacementOK(K, c, dec, [q EXCEPT !.high = o.x])
      BY <3>2, <3>3, <3>4, OtherHigh DEF keptHigh
    <3>6. InHigh(q, o).new = [q EXCEPT !.high = o.x]
      BY DEF InHigh
    <3> QED
      BY <3>1, <3>4, <3>5, <3>6
  <2> QED
    BY <2>2, <2>3
<1>6. CASE w.trigger = "SWAP"
  <2>1. w.key \in Key /\ Fits(H(c), w.data) /\ w.key \in Nat /\ p.sep \in Nat
    BY <1>1, <1>6, KeysAre DEF CallOK
  <2>2. CASE w.key <= p.sep
    <3>1. LET o == SwapIn(p.low, w) IN NewOK(keptLow, c, o.x) /\ o.x.root = p.low.root
      BY <1>1, <2>1, SwapInIs
    <3>2. Perform(p, w, dec, fit) = InLow(p, SwapIn(p.low, w))
      BY <1>6, <2>2 DEF Perform
    <3> QED
      BY <1>2, <3>1, <3>2
  <2>3. CASE ~(w.key <= p.sep) /\ p.two
    <3>1. LET o == SwapIn(p.high, w) IN NewOK(keptHigh, c, o.x) /\ o.x.root = p.high.root
      BY <1>1, <2>1, <2>3, SwapInIs
    <3>2. Perform(p, w, dec, fit) = InHigh(p, SwapIn(p.high, w))
      BY <1>6, <2>3 DEF Perform
    <3> QED
      BY <1>3, <2>3, <3>1, <3>2
  <2>4. CASE ~(w.key <= p.sep) /\ ~p.two
    BY <2>1, <2>4, SizeAssumption DEF Key
  <2> QED
    BY <2>2, <2>3, <2>4
<1>7. CASE w.trigger = "ENSLAVE"
  <2>1. CASE dec = "COPY"
    <3> DEFINE y == [p.low EXCEPT !.frozen = TRUE]
               q == [p EXCEPT !.low = y]
               r == [p EXCEPT !.master = w.data, !.low.frozen = TRUE]
    <3>1. Perform(p, w, dec, fit).new = r
      BY <1>7, <2>1 DEF Perform
    <3>2. p.low \in ChunkRecord /\ Sound(p.low)
      BY <1>1, NewOKIs
    <3>3. /\ y \in ChunkRecord /\ y.e = p.low.e /\ y.cnt = p.low.cnt /\ y.height = p.low.height
          /\ y.root = p.low.root /\ y.low = p.low.low /\ y.next = p.low.next /\ y.creator = p.low.creator
      BY <3>2 DEF ChunkRecord
    <3>4. w.data \in Ids /\ H(w.data) = H(c)
      BY <1>7 DEF CallOK
    <3>5. /\ r.low = y /\ r.two = p.two /\ r.sep = p.sep /\ r.master = w.data
          /\ p.two => r.high = p.high
      BY DEF FormOK
    <3> HIDE DEF y, r
    <3>6. Sound(y) /\ EntrNum(y) = EntrNum(p.low)
      BY <3>2, <3>3 DEF Sound, EntrNum, Linked, Pending
    <3>7. NewOK(keptLow, c, y)
      BY <1>1, <3>3, <3>6 DEF NewOK
    <3>8. ReplacementOK(K, c, dec, r)
      BY <1>1, <2>1, <3>3, <3>4, <3>5, <3>7 DEF ReplacementOK, keptLow
    <3> QED
      BY <3>1, <3>8
  <2>2. CASE dec # "COPY"
    BY <1>7, <2>2 DEF Perform
  <2> QED
    BY <2>1, <2>2
<1>8. CASE w.trigger = "NONE"
  BY <1>8 DEF Perform
<1> QED
  BY <1>4, <1>5, <1>6, <1>7, <1>8 DEF CallOK
-----------------------------------------------------------------------------
(***************************************************************************)
(* Nothing that a thread relies on is taken back by another thread.        *)
(***************************************************************************)
Grows ==
    /\ Ids \subseteq Ids' /\ DOMAIN chunk' = Ids'
    /\ \A c \in Ids :
          /\ H(c)' = H(c)
          /\ DOMAIN chunk[c].e \subseteq DOMAIN chunk'[c].e
          /\ chunk[c].frozen => chunk'[c].frozen
          /\ MinFrozen(c) => MinFrozen(c)'
          /\ chunk[c].low # Null => chunk'[c].low = chunk[c].low
          /\ chunk'[c].next = chunk[c].next
          /\ St(c) \in Decided => word'[c] = word[c]

LEMMA FitsStays ==
    ASSUME Shape, Grows, NEW h, NEW d, Fits(h, d) PROVE Fits(h, d)'
<1>1. CASE h = 0
  BY <1>1 DEF Fits, FitsIn
<1>2. CASE h # 0
  <2>1. d \in Ids /\ H(d) = h - 1
    BY <1>2 DEF Fits, FitsIn, H, Shape
  <2>2. d \in DOMAIN chunk' /\ H(d)' = h - 1
    BY <2>1 DEF Grows
  <2> QED
    BY <1>2, <2>2 DEF Fits, FitsIn, H
<1> QED
  BY <1>1, <1>2

LEMMA CallStays ==
    ASSUME Shape, Grows, NEW h, NEW w, CallOK(h, w) PROVE CallOK(h, w)'
<1>1. w.trigger \in {"INSERT", "SWAP"} => Fits(h, w.data)'
  BY FitsStays DEF CallOK
<1>2. w.trigger = "ENSLAVE" => (w.data \in Ids /\ H(w.data) = h)'
  BY DEF CallOK, Grows
<1> QED
  BY <1>1, <1>2 DEF CallOK

LEMMA SoundStays ==
    ASSUME Shape, Grows, NEW x, Sound(x) PROVE Sound(x)'
<1>1. \A i \in DOMAIN x.e : Fits(x.height, x.e[i].data)'
  BY FitsStays DEF Sound
<1> QED
  BY <1>1 DEF Sound

LEMMA ReplacementStays ==
    ASSUME Shape, Grows, NEW K, NEW c \in Ids, NEW dec, NEW new, ReplacementOK(K, c, dec, new)
    PROVE  ReplacementOK(K, c, dec, new)'
<1>1. H(c)' = H(c)
  BY DEF Grows
<1>2. NewOK(K \/ H(c) = 0 \/ new.two, c, new.low)'
  <2>1. Sound(new.low)'
    BY SoundStays DEF ReplacementOK, NewOK
  <2> QED
    BY <1>1, <2>1 DEF ReplacementOK, NewOK
<1>3. new.two => NewOK(K \/ H(c) = 0, c, new.high)'
  <2> SUFFICES ASSUME new.two PROVE NewOK(K \/ H(c) = 0, c, new.high)'
    OBVIOUS
  <2>1. Sound(new.high)'
    BY SoundStays DEF ReplacementOK, NewOK
  <2> QED
    BY <1>1, <2>1 DEF ReplacementOK, NewOK
<1>4. new.master # Null => dec = "COPY" /\ (new.master \in Ids /\ H(new.master) = H(c))'
  BY DEF ReplacementOK, Grows
<1> QED
  BY <1>1, <1>2, <1>3, <1>4 DEF ReplacementOK

LEMMA OneStays ==
    ASSUME Grows, NEW c \in Ids, ReplacedByOne(c), Related(c) PROVE ReplacedByOne(c)'
<1>1. chunk[c].low \in Ids
  BY DEF ReplacedByOne, Related
<1> QED
  BY <1>1 DEF ReplacedByOne, Grows

LEMMA TwoStays ==
    ASSUME Grows, NEW c \in Ids, ReplacedByTwo(c), Related(c) PROVE ReplacedByTwo(c)'
<1>1. chunk[c].low \in Ids
  BY DEF ReplacedByTwo, Related
<1> QED
  BY <1>1 DEF ReplacedByTwo, Grows

LEMMA SoughtStays ==
    ASSUME Shape, Grows, NEW x, SoughtOK(x) PROVE SoughtOK(x)'
<1>1. Ids \subseteq Ids' /\ \A c \in Ids : H(c)' = H(c)
  BY DEF Grows
<1>2. x.then = "unlink" => ReplacedByOne(x.new)'
  BY OneStays DEF SoughtOK, Shape
<1>3. x.then = "enslave" => MinFrozen(x.son)'
  BY DEF SoughtOK, Grows
<1>4. x.then \in {"insert", "replace"} => (x.new \in Ids /\ H(x.new) = H(x.son))'
  BY <1>1 DEF SoughtOK
<1> QED
  BY <1>1, <1>2, <1>3, <1>4 DEF SoughtOK

LEMMA FoundStays ==
    ASSUME Grows, NEW x, FoundOK(x) PROVE FoundOK(x)'
<1>1. Ids \subseteq Ids' /\ H(x.at)' = H(x.at) /\ DOMAIN chunk[x.at].e \subseteq DOMAIN chunk'[x.at].e
  BY DEF FoundOK, Grows
<1> QED
  BY <1>1 DEF FoundOK

LEMMA StepStays ==
    ASSUME Shape, Grows, NEW K, NEW x, StepOK(K, x) PROVE StepOK(K, x)'
<1>1. Ids \subseteq Ids' /\ \A c \in Ids : H(c)' = H(c)
  BY DEF Grows
<1>2. \A c \in Ids : DOMAIN chunk[c].e \subseteq DOMAIN chunk'[c].e
  BY DEF Grows
<1>3. x.do \in Steps
  BY DEF StepOK
<1>4. CASE x.do \in {"descend", "delete", "settle", "normal", "help", "helpInfant", "compare", "mark",
                     "respond", "swapRoot"}
  BY <1>1, <1>3, <1>4 DEF StepOK
<1>5. CASE x.do \in {"insert", "replace"}
  <2>1. Fits(H(x.c), x.data)'
    BY <1>1, <1>5, FitsStays DEF StepOK
  <2> QED
    BY <1>1, <1>3, <1>5, <2>1 DEF StepOK
<1>6. CASE x.do \in {"place", "link"}
  <2>1. x.own \/ chunk'[x.c].frozen
    BY <1>6 DEF StepOK, Grows
  <2> QED
    BY <1>1, <1>2, <1>3, <1>6, <2>1 DEF StepOK
<1>7. CASE x.do = "swap"
  <2>1. Fits(H(x.c), x.data)'
    BY <1>1, <1>7, FitsStays DEF StepOK
  <2> QED
    BY <1>1, <1>2, <1>3, <1>7, <2>1 DEF StepOK
<1>8. CASE x.do \in {"freeze", "decide", "pair", "build", "install"}
  <2>1. x.c \in Ids /\ CallOK(H(x.c), x.w)
    BY <1>8 DEF StepOK
  <2>2. CallOK(H(x.c), x.w)'
    BY <1>1, <2>1, CallStays
  <2>3. x.do = "install" => St(x.c)' = x.dec /\ ReplacementOK(K, x.c, x.dec, x.new)'
    <3> SUFFICES ASSUME x.do = "install" PROVE St(x.c)' = x.dec /\ ReplacementOK(K, x.c, x.dec, x.new)'
      OBVIOUS
    <3>1. St(x.c) = x.dec /\ ReplacementOK(K, x.c, x.dec, x.new) /\ x.dec \in Decided
      BY DEF StepOK, Decided
    <3> QED
      BY <2>1, <3>1, ReplacementStays DEF Grows, St
  <2> QED
    BY <1>1, <1>3, <1>8, <2>1, <2>2, <2>3 DEF StepOK
<1>9. CASE x.do \in {"repoint", "update"}
  <2>1. x.c \in Ids /\ chunk[x.c].low # Null
    BY <1>9 DEF StepOK
  <2>2. chunk'[x.c].low # Null
    BY <2>1 DEF Grows
  <2>3. x.do = "update" => St(x.c)' = x.dec
    <3> SUFFICES ASSUME x.do = "update" PROVE St(x.c)' = x.dec
      OBVIOUS
    <3>1. St(x.c) = x.dec /\ x.dec \in Decided
      BY DEF StepOK, Decided
    <3> QED
      BY <2>1, <3>1 DEF Grows, St
  <2> QED
    BY <1>1, <1>3, <1>9, <2>1, <2>2, <2>3 DEF StepOK
<1>10. CASE x.do \in {"parent", "found", "onward"}
  <2>1. SoughtOK(x)'
    BY <1>10, SoughtStays DEF StepOK
  <2>2. x.do \in {"found", "onward"} => FoundOK(x)'
    BY <1>10, FoundStays DEF StepOK
  <2> QED
    BY <1>1, <1>3, <1>10, <2>1, <2>2 DEF StepOK
<1>16. CASE x.do = "onto"
  BY <1>1, <1>2, <1>3, <1>16 DEF StepOK
<1>11. CASE x.do \in {"request", "check"}
  <2>1. x.c \in Ids /\ MinFrozen(x.c)'
    BY <1>11 DEF StepOK, Grows
  <2> QED
    BY <1>1, <1>2, <1>3, <1>11, <2>1 DEF StepOK
<1>12. CASE x.do \in {"setSlave", "look", "yield", "take"}
  <2>1. Masters(x.c, x.slave)'
    BY <1>1, <1>12 DEF StepOK, Masters, Grows
  <2> QED
    BY <1>3, <1>12, <2>1 DEF StepOK
<1>13. CASE x.do = "unlink"
  <2>1. x.master \in Ids /\ ReplacedByOne(x.master)'
    BY <1>13, OneStays DEF StepOK, Shape
  <2> QED
    BY <1>1, <1>3, <1>13, <2>1 DEF StepOK
<1>14. CASE x.do = "setRoot"
  BY <1>1, <1>3, <1>14 DEF StepOK, Grows
<1>15. CASE x.do = "newRoot"
  <2>1. x.c \in Ids /\ ReplacedByTwo(x.c)'
    BY <1>15, TwoStays DEF StepOK, Shape
  <2> QED
    BY <1>1, <1>3, <1>15, <2>1 DEF StepOK
<1> QED
  BY <1>3, <1>4, <1>5, <1>6, <1>7, <1>8, <1>9, <1>10, <1>11, <1>12, <1>13, <1>14, <1>15,
     <1>16 DEF Steps
-----------------------------------------------------------------------------
(***************************************************************************)
(* The stacks.  A step of t takes the first of its steps away and puts the *)
(* steps s in its place.                                                   *)
(***************************************************************************)
Good(K, x) == StepOK(K, x) /\ Plain(x) /\ x.do # "decide"

AllGood(K, s) == IsSeq(s) /\ \A i \in 1 .. Len(s) : Good(K, s[i])

\* what may be put on a stack
Top(K, s) ==
    /\ IsSeq(s)
    /\ \A i \in 1 .. Len(s) : StepOK(K, s[i])
    /\ \A i \in 2 .. Len(s) : Plain(s[i])
    /\ \A i \in 1 .. Len(s) : s[i].do = "decide" =>
          i > 1 /\ s[i - 1].do = "settle" /\ s[i - 1].c = s[i].c

LEMMA IsSeqIs ==
    ASSUME NEW s, IsSeq(s)
    PROVE  Len(s) \in Nat /\ DOMAIN s = 1 .. Len(s) /\ s = [i \in 1 .. Len(s) |-> s[i]]
BY DEF IsSeq

LEMMA SeqIs ==
    ASSUME NEW s, NEW n \in Nat, s = [i \in 1 .. n |-> s[i]]
    PROVE  IsSeq(s) /\ Len(s) = n /\ DOMAIN s = 1 .. n
<1>1. DOMAIN s = 1 .. n
  OBVIOUS
<1>2. s \in Seq({s[i] : i \in DOMAIN s}) /\ Len(s) = n
  BY <1>1
<1> QED
  BY <1>1, <1>2 DEF IsSeq

LEMMA SeqOfAny ==
    ASSUME NEW S, NEW q \in Seq(S) PROVE IsSeq(q)
<1>1. Len(q) \in Nat /\ q = [i \in 1 .. Len(q) |-> q[i]]
  OBVIOUS
<1> QED
  BY <1>1, SeqIs

LEMMA SeqCat ==
    ASSUME NEW a, IsSeq(a), NEW b, IsSeq(b)
    PROVE  /\ IsSeq(a \o b) /\ Len(a \o b) = Len(a) + Len(b)
           /\ \A i \in 1 .. Len(a) : (a \o b)[i] = a[i]
           /\ \A i \in 1 .. Len(b) : (a \o b)[Len(a) + i] = b[i]
           /\ \A i \in 1 .. Len(a \o b) : i <= Len(a) \/ (i > Len(a) /\ i - Len(a) \in 1 .. Len(b)
                                                         /\ (a \o b)[i] = b[i - Len(a)])
<1> DEFINE S == {a[i] : i \in DOMAIN a} \cup {b[i] : i \in DOMAIN b}
           A == {a[i] : i \in DOMAIN a}
           B == {b[i] : i \in DOMAIN b}
<1>1. a \in Seq(A) /\ b \in Seq(B)
  BY DEF IsSeq
<1>2. a \in Seq(S) /\ b \in Seq(S)
  <2>1. Len(a) \in Nat /\ Len(b) \in Nat /\ DOMAIN a = 1 .. Len(a) /\ DOMAIN b = 1 .. Len(b)
    BY IsSeqIs
  <2>2. \A i \in DOMAIN a : a[i] \in S
    OBVIOUS
  <2>3. \A i \in DOMAIN b : b[i] \in S
    OBVIOUS
  <2>4. a = [i \in 1 .. Len(a) |-> a[i]] /\ b = [i \in 1 .. Len(b) |-> b[i]]
    BY IsSeqIs
  <2> HIDE DEF S
  <2> QED
    BY <2>1, <2>2, <2>3, <2>4
<1> HIDE DEF S, A, B
<1>3. a \o b \in Seq(S) /\ Len(a \o b) = Len(a) + Len(b) /\ Len(a) \in Nat /\ Len(b) \in Nat
  BY <1>2
<1>4. IsSeq(a \o b)
  BY <1>3, SeqOfAny
<1>5. /\ \A i \in 1 .. Len(a) : (a \o b)[i] = a[i]
      /\ \A i \in 1 .. Len(b) : (a \o b)[Len(a) + i] = b[i]
  BY <1>2
<1>6. \A i \in 1 .. Len(a \o b) : i <= Len(a) \/ (i > Len(a) /\ i - Len(a) \in 1 .. Len(b)
                                                  /\ (a \o b)[i] = b[i - Len(a)])
  BY <1>2, <1>3
<1> QED
  BY <1>3, <1>4, <1>5, <1>6

LEMMA TailIs ==
    ASSUME NEW s, IsSeq(s), s # <<>>
    PROVE  /\ Len(s) >= 1 /\ Head(s) = s[1]
           /\ IsSeq(Tail(s)) /\ Len(Tail(s)) = Len(s) - 1
           /\ \A i \in 1 .. Len(s) - 1 : Tail(s)[i] = s[i + 1]
<1> DEFINE A == {s[i] : i \in DOMAIN s}
<1>1. s \in Seq(A)
  BY DEF IsSeq
<1> HIDE DEF A
<1>2. /\ Len(s) >= 1 /\ Head(s) = s[1] /\ Tail(s) \in Seq(A) /\ Len(Tail(s)) = Len(s) - 1
      /\ \A i \in 1 .. Len(s) - 1 : Tail(s)[i] = s[i + 1]
  BY <1>1
<1>3. IsSeq(Tail(s))
  BY <1>2, SeqOfAny
<1> QED
  BY <1>2, <1>3

LEMMA Good0 ==
    ASSUME NEW K PROVE AllGood(K, <<>>)
<1>1. IsSeq(<<>>) /\ Len(<<>>) = 0
  BY DEF IsSeq
<1> QED
  BY <1>1 DEF AllGood

LEMMA SeqOf1 ==
    ASSUME NEW a PROVE IsSeq(<<a>>) /\ Len(<<a>>) = 1 /\ <<a>>[1] = a
BY DEF IsSeq

LEMMA Good1 ==
    ASSUME NEW K, NEW a, Good(K, a) PROVE AllGood(K, <<a>>)
BY SeqOf1 DEF AllGood

LEMMA GoodCat ==
    ASSUME NEW K, NEW a, AllGood(K, a), NEW b, AllGood(K, b) PROVE AllGood(K, a \o b)
<1>1. ASSUME NEW i \in 1 .. Len(a \o b) PROVE Good(K, (a \o b)[i])
  <2>1. Len(a) \in Nat /\ Len(b) \in Nat
    BY IsSeqIs DEF AllGood
  <2>2. CASE i <= Len(a)
    <3>1. i \in 1 .. Len(a)
      BY <2>1, <2>2
    <3> QED
      BY <3>1, SeqCat DEF AllGood
  <2>3. CASE ~(i <= Len(a))
    <3>1. i - Len(a) \in 1 .. Len(b) /\ (a \o b)[i] = b[i - Len(a)]
      BY <2>3, SeqCat DEF AllGood
    <3> QED
      BY <3>1 DEF AllGood
  <2> QED
    BY <2>2, <2>3
<1> QED
  BY <1>1, SeqCat DEF AllGood

LEMMA Good2 ==
    ASSUME NEW K, NEW a, Good(K, a), NEW b, Good(K, b) PROVE AllGood(K, <<a, b>>)
<1>1. IsSeq(<<a, b>>) /\ Len(<<a, b>>) = 2
  BY DEF IsSeq
<1>2. <<a, b>>[1] = a /\ <<a, b>>[2] = b
  OBVIOUS
<1> QED
  BY <1>1, <1>2 DEF AllGood

LEMMA Good3 ==
    ASSUME NEW K, NEW a, Good(K, a), NEW b, Good(K, b), NEW c, Good(K, c)
    PROVE  AllGood(K, <<a, b, c>>)
<1>1. IsSeq(<<a, b, c>>) /\ Len(<<a, b, c>>) = 3
  BY DEF IsSeq
<1>2. <<a, b, c>>[1] = a /\ <<a, b, c>>[2] = b /\ <<a, b, c>>[3] = c
  OBVIOUS
<1> QED
  BY <1>1, <1>2 DEF AllGood

LEMMA Good4 ==
    ASSUME NEW K, NEW a, Good(K, a), NEW b, Good(K, b), NEW c, Good(K, c), NEW d, Good(K, d)
    PROVE  AllGood(K, <<a, b, c, d>>)
<1>1. IsSeq(<<a, b, c, d>>) /\ Len(<<a, b, c, d>>) = 4
  BY DEF IsSeq
<1>2. <<a, b, c, d>>[1] = a /\ <<a, b, c, d>>[2] = b /\ <<a, b, c, d>>[3] = c /\ <<a, b, c, d>>[4] = d
  OBVIOUS
<1> QED
  BY <1>1, <1>2 DEF AllGood

LEMMA Good5 ==
    ASSUME NEW K, NEW a, Good(K, a), NEW b, Good(K, b), NEW c, Good(K, c), NEW d, Good(K, d),
           NEW e, Good(K, e)
    PROVE  AllGood(K, <<a, b, c, d, e>>)
<1>1. IsSeq(<<a, b, c, d, e>>) /\ Len(<<a, b, c, d, e>>) = 5
  BY DEF IsSeq
<1>2. <<a, b, c, d, e>>[1] = a /\ <<a, b, c, d, e>>[2] = b /\ <<a, b, c, d, e>>[3] = c /\ <<a, b, c, d, e>>[4] = d /\ <<a, b, c, d, e>>[5] = e
  OBVIOUS
<1> QED
  BY <1>1, <1>2 DEF AllGood

LEMMA TopOfGood ==
    ASSUME NEW K, NEW s, AllGood(K, s) PROVE Top(K, s)
BY IsSeqIs DEF AllGood, Good, Top

LEMMA TopOf1 ==
    ASSUME NEW K, NEW a, StepOK(K, a), a.do # "decide" PROVE Top(K, <<a>>)
BY SeqOf1 DEF Top

LEMMA TopStays ==
    ASSUME Shape, Grows, NEW K, NEW s, Top(K, s) PROVE Top(K, s)'
<1>1. \A i \in 1 .. Len(s) : StepOK(K, s[i])'
  BY StepStays DEF Top
<1>2. IsSeq(s)' /\ \A i \in 2 .. Len(s) : Plain(s[i])'
  BY DEF Top, IsSeq, Plain
<1> QED
  BY <1>1, <1>2 DEF Top

LEMMA StackStays ==
    ASSUME Shape, Grows, NEW K, NEW s, Stack(K, s) PROVE Stack(K, s)'
<1>1. \A i \in 1 .. Len(s) : StepOK(K, s[i])'
  BY StepStays DEF Stack
<1>2. IsSeq(s)' /\ \A i \in 2 .. Len(s) : Plain(s[i])'
  BY DEF Stack, IsSeq, Plain
<1>3. ASSUME NEW i \in 1 .. Len(s), s[i].do = "decide" PROVE SettledBefore(s, i)'
  <2>1. SettledBefore(s, i) /\ s[i].c \in Ids
    BY <1>3 DEF Stack, StepOK
  <2> QED
    BY <2>1 DEF SettledBefore, Grows
<1> QED
  BY <1>1, <1>2, <1>3 DEF Stack

Pushes(t, s) == todo[t] # <<>> /\ todo' = [todo EXCEPT ![t] = s \o Tail(todo[t])]

LEMMA StackPushed ==
    ASSUME Shape, Grows, NEW K, NEW t \in Thread, Stacks(K), NEW s, Top(K, s)', Pushes(t, s),
           Now(t).do = "settle" => chunk'[Now(t).c].frozen
    PROVE  Stacks(K)'
<1> DEFINE r == todo[t]
           q == s \o Tail(todo[t])
<1>1. PICK p : p = Tail(todo[t])
  OBVIOUS
<1>2. PICK z : z = s \o p
  OBVIOUS
<1>3. DOMAIN todo' = Thread /\ todo'[t] = z /\ \A u \in Thread \ {t} : todo'[u] = todo[u]
  BY <1>1, <1>2 DEF Pushes, Stacks
<1>4. PICK r0 : r0 = todo[t]
  OBVIOUS
<1>5. Stack(K, r0) /\ r0 # <<>> /\ p = Tail(r0) /\ Now(t) = r0[1]
  BY <1>1, <1>4, TailIs DEF Stacks, Pushes, Now, Stack
<1>6. Stack(K, r0)'
  BY <1>5, StackStays
<1>7. /\ IsSeq(r0) /\ IsSeq(p) /\ IsSeq(s) /\ Len(r0) \in Nat /\ Len(r0) >= 1 /\ Len(s) \in Nat
      /\ Len(p) = Len(r0) - 1 /\ Len(p) \in Nat
      /\ \A i \in 1 .. Len(p) : p[i] = r0[i + 1]
  <2>1. IsSeq(r0) /\ IsSeq(s)
    BY <1>5 DEF Stack, Top, IsSeq
  <2> QED
    BY <1>5, <2>1, TailIs, IsSeqIs
<1>8. /\ IsSeq(z) /\ Len(z) = Len(s) + Len(p)
      /\ \A i \in 1 .. Len(s) : z[i] = s[i]
      /\ \A i \in 1 .. Len(z) : i <= Len(s) \/ (i > Len(s) /\ i - Len(s) \in 1 .. Len(p) /\ z[i] = p[i - Len(s)])
  BY <1>2, <1>7, SeqCat
<1>9. ASSUME NEW i \in 1 .. Len(z), ~(i <= Len(s))
      PROVE  \E j \in 2 .. Len(r0) : z[i] = r0[j] /\ j = i - Len(s) + 1
  BY <1>7, <1>8, <1>9
<1>10. ASSUME NEW i \in 1 .. Len(z) PROVE StepOK(K, z[i])'
  <2>1. CASE i <= Len(s)
    BY <1>7, <1>8, <2>1 DEF Top
  <2>2. CASE ~(i <= Len(s))
    <3>1. PICK j \in 2 .. Len(r0) : z[i] = r0[j]
      BY <1>9, <2>2
    <3>2. j \in 1 .. Len(r0)
      BY <1>7
    <3> QED
      BY <1>6, <3>1, <3>2 DEF Stack
  <2> QED
    BY <2>1, <2>2
<1>11. ASSUME NEW i \in 2 .. Len(z) PROVE Plain(z[i])
  <2>0. i \in 1 .. Len(z)
    BY <1>7, <1>8
  <2>1. CASE i <= Len(s)
    <3>1. i \in 2 .. Len(s) /\ z[i] = s[i]
      BY <1>7, <1>8, <2>0, <2>1
    <3> QED
      BY <3>1 DEF Top, Plain
  <2>2. CASE ~(i <= Len(s))
    <3>1. PICK j \in 2 .. Len(r0) : z[i] = r0[j]
      BY <1>9, <2>0, <2>2
    <3> QED
      BY <1>5, <3>1 DEF Stack, Plain
  <2> QED
    BY <2>1, <2>2
<1>12. ASSUME NEW i \in 1 .. Len(z), z[i].do = "decide" PROVE SettledBefore(z, i)'
  <2>1. CASE i <= Len(s)
    <3>1. i \in 1 .. Len(s) /\ z[i] = s[i]
      BY <1>7, <1>8, <2>1
    <3>2. i > 1 /\ s[i - 1].do = "settle" /\ s[i - 1].c = s[i].c
      BY <1>12, <3>1 DEF Top
    <3>3. z[i - 1] = s[i - 1]
      BY <1>7, <1>8, <3>1, <3>2
    <3> QED
      BY <3>1, <3>2, <3>3 DEF SettledBefore
  <2>2. CASE ~(i <= Len(s))
    <3>1. PICK j \in 2 .. Len(r0) : z[i] = r0[j] /\ j = i - Len(s) + 1
      BY <1>9, <2>2
    <3>2. j \in 1 .. Len(r0) /\ r0[j].do = "decide"
      BY <1>7, <1>12, <3>1
    <3>3. SettledBefore(r0, j)'
      BY <1>6, <3>2 DEF Stack
    <3>4. CASE chunk'[r0[j].c].frozen
      BY <3>1, <3>4 DEF SettledBefore
    <3>5. CASE ~chunk'[r0[j].c].frozen
      <4>1. r0[j - 1].do = "settle" /\ r0[j - 1].c = r0[j].c
        BY <3>3, <3>5 DEF SettledBefore
      <4>2. j # 2
        BY <1>5, <3>5, <4>1
      <4>3. i - 1 \in 1 .. Len(z) /\ ~(i - 1 <= Len(s)) /\ i > 1 /\ (i - 1) - Len(s) + 1 = j - 1
        BY <1>7, <1>8, <2>2, <3>1, <4>2
      <4>4. z[i - 1] = r0[j - 1]
        BY <1>9, <4>3
      <4> QED
        BY <3>1, <4>1, <4>3, <4>4 DEF SettledBefore
    <3> QED
      BY <3>4, <3>5
  <2> QED
    BY <2>1, <2>2
<1>13. Stack(K, z)'
  <2>1. IsSeq(z)'
    BY <1>8 DEF IsSeq
  <2>2. \A i \in 2 .. Len(z) : Plain(z[i])'
    BY <1>11 DEF Plain
  <2> QED
    BY <1>10, <1>12, <2>1, <2>2 DEF Stack
<1>14. ASSUME NEW u \in Thread \ {t} PROVE Stack(K, todo[u])'
  <2>1. PICK y : y = todo[u]
    OBVIOUS
  <2>2. Stack(K, y)
    BY <2>1 DEF Stacks
  <2>3. Stack(K, y)'
    BY <2>2, StackStays
  <2>4. todo'[u] = y
    BY <1>3, <2>1
  <2> QED
    BY <2>3, <2>4
<1> QED
  BY <1>3, <1>13, <1>14 DEF Stacks
-----------------------------------------------------------------------------
(***************************************************************************)
(* What a step does to the threads' own state.                             *)
(***************************************************************************)
\* t is not in the middle of something
Idle(t) == todo[t] # <<>> => Plain(Now(t))

Counting(t) == At(t, "compare") \/ At(t, "mark")

\* t goes on with what it was in the middle of
Continues(t) ==
    \/ /\ Placing(t) /\ Placing(t)' /\ ~Counting(t)'
       /\ Now(t)'.c = Now(t).c /\ Now(t)'.slot = Now(t).slot /\ Now(t)'.own = Now(t).own
    \/ Counting(t) /\ Counting(t)' /\ ~Placing(t)' /\ Now(t)'.c = Now(t).c

\* only t's stack changes
OnlyOf(t) == DOMAIN todo' = Thread /\ \A u \in Thread \ {t} : todo'[u] = todo[u]

LEMMA Heads ==
    ASSUME NEW K, NEW t \in Thread, Stacks(K), NEW s, IsSeq(s), Pushes(t, s)
    PROVE  /\ OnlyOf(t)
           /\ s # <<>> => todo'[t] # <<>> /\ Head(todo'[t]) = s[1]
           /\ s = <<>> /\ todo'[t] # <<>> => Plain(Head(todo'[t]))
<1>1. PICK r : r = todo[t]
  OBVIOUS
<1>2. PICK p : p = Tail(r)
  OBVIOUS
<1>3. PICK z : z = s \o p
  OBVIOUS
<1>4. todo'[t] = z /\ OnlyOf(t)
  BY <1>1, <1>2, <1>3 DEF Pushes, Stacks, OnlyOf
<1>5. Stack(K, r) /\ IsSeq(r) /\ r # <<>>
  BY <1>1 DEF Stacks, Stack, Pushes
<1>6. /\ IsSeq(p) /\ Len(p) = Len(r) - 1 /\ \A i \in 1 .. Len(r) - 1 : p[i] = r[i + 1]
      /\ Len(r) \in Nat /\ Len(r) >= 1 /\ Len(s) \in Nat
  BY <1>2, <1>5, TailIs, IsSeqIs
<1>7. IsSeq(z) /\ Len(z) = Len(s) + Len(p) /\ (\A i \in 1 .. Len(s) : z[i] = s[i])
  BY <1>3, <1>6, SeqCat
<1>8. z # <<>> => Head(z) = z[1] /\ Len(z) >= 1
  BY <1>7, TailIs
<1>9. CASE s # <<>>
  <2>1. Len(s) >= 1
    BY <1>9, TailIs
  <2>2. Len(z) # 0
    BY <1>6, <1>7, <2>1
  <2>3. z # <<>> /\ 1 \in 1 .. Len(s)
    BY <1>6, <2>1, <2>2
  <2> QED
    BY <1>4, <1>7, <1>8, <1>9, <2>3
<1>10. CASE s = <<>>
  <2>1. Len(s) = 0
    BY <1>10
  <2>2. ASSUME z # <<>> PROVE Plain(Head(z))
    <3>1. 1 \in 1 .. Len(z) /\ ~(1 <= Len(s)) /\ Len(z) = Len(p)
      BY <1>6, <1>7, <1>8, <2>1, <2>2
    <3>2. z[1] = p[1]
      <4>1. 1 <= Len(s) \/ z[1] = p[1 - Len(s)]
        BY <1>3, <1>5, <1>6, <3>1, SeqCat
      <4> QED
        BY <2>1, <3>1, <4>1
    <3>3. z[1] = r[2] /\ 2 \in 2 .. Len(r)
      BY <1>6, <3>1, <3>2
    <3> QED
      BY <1>5, <1>8, <2>2, <3>3 DEF Stack
  <2> QED
    BY <1>4, <1>10, <2>2
<1> QED
  BY <1>9, <1>10

\* steps that leave t idle
Easy(K, s) == Top(K, s) /\ (s # <<>> => Plain(s[1]))

LEMMA EasyIs ==
    ASSUME NEW K, NEW s, AllGood(K, s) PROVE Easy(K, s)
<1>1. Top(K, s)
  BY TopOfGood
<1>2. ASSUME s # <<>> PROVE Plain(s[1])
  <2>1. Len(s) >= 1 /\ Len(s) \in Nat
    BY <1>2, TailIs, IsSeqIs DEF AllGood
  <2> QED
    BY <2>1 DEF AllGood, Good
<1> QED
  BY <1>1, <1>2 DEF Easy

LEMMA HeadIdle ==
    ASSUME NEW K, NEW t \in Thread, Stacks(K), NEW s, Easy(K, s), Pushes(t, s)
    PROVE  Idle(t)'
<1>1. CASE s = <<>>
  BY <1>1, Heads DEF Easy, Top, Idle, Now, Plain
<1>2. CASE s # <<>>
  <2>2. Plain(s[1])
    BY <1>2 DEF Easy
  <2>3. Head(todo'[t]) = s[1]
    BY <1>2, Heads DEF Easy, Top
  <2> QED
    BY <2>2, <2>3 DEF Idle, Now, Plain
<1> QED
  BY <1>1, <1>2

LEMMA IdleMeans ==
    ASSUME NEW t \in Thread, Idle(t)
    PROVE  /\ ~At(t, "link") /\ ~Counting(t)
           /\ At(t, "place") => ~Now(t).own
           /\ ~OwnsSlot(t)
BY DEF Idle, Plain, Counting, At, Now, OwnsSlot, Placing

LEMMA Others ==
    ASSUME NEW t \in Thread, OnlyOf(t), NEW u \in Thread \ {t}
    PROVE  /\ Now(u)' = Now(u)
           /\ At(u, "place")' <=> At(u, "place")
           /\ At(u, "link")' <=> At(u, "link")
           /\ At(u, "compare")' <=> At(u, "compare")
           /\ At(u, "mark")' <=> At(u, "mark")
<1>1. todo'[u] = todo[u]
  BY DEF OnlyOf
<1> QED
  BY <1>1 DEF Now, At

LEMMA OwedFinite ==
    ASSUME NEW c PROVE IsFiniteSet(Owed(c)) /\ Cardinality(Owed(c)) \in Nat
<1>1. Owed(c) \subseteq Thread
  BY DEF Owed
<1> QED
  BY <1>1, ThreadAssumption, FS_Subset, FS_CardinalityType

LEMMA OwedFewer ==
    ASSUME NEW c, NEW S, S \subseteq Owed(c) PROVE Cardinality(S) <= Cardinality(Owed(c)) /\ Cardinality(S) \in Nat
BY OwedFinite, FS_Subset, FS_CardinalityType

(***************************************************************************)
(* A step that changes no chunk.                                           *)
(***************************************************************************)
FinalsStay == \A c \in Ids : St(c) \in Decided => word'[c] = word[c]

LEMMA GrowsQuiet ==
    ASSUME Shape, UNCHANGED <<top, chunk>>, FinalsStay PROVE Grows
<1>1. Ids' = Ids
  BY DEF Ids
<1> QED
  BY <1>1 DEF Shape, Grows, FinalsStay, H, MinFrozen, EntrNum, Linked

LEMMA ShapeQuiet ==
    ASSUME Shape, UNCHANGED <<top, chunk>>, root' \in Ids PROVE Shape'
BY DEF Shape, Ids, Sound, Related, Fits, FitsIn, H, Pending, ChunkRecord

LEMMA CountsQuiet ==
    ASSUME NEW K, Counts(K), Shape, UNCHANGED <<top, chunk>>, \A c \in Ids : Owed(c)' \subseteq Owed(c)
    PROVE  Counts(K)'
<1> SUFFICES ASSUME NEW c \in Ids PROVE (Enough(K, chunk[c]) /\ CountsUp(K, c))'
  BY DEF Counts, Ids
<1>1. Enough(K, chunk[c])'
  BY DEF Counts, Enough, Kept
<1>2. Cardinality(Owed(c)') <= Cardinality(Owed(c)) /\ Cardinality(Owed(c)') \in Nat /\ Cardinality(Owed(c)) \in Nat
  BY OwedFewer, OwedFinite
<1>3. chunk[c].cnt \in Int /\ EntrNum(chunk[c]) \in Nat
  BY EntriesAre, LinkedFinite DEF Shape, Sound
<1>4. CountsUp(K, c)'
  <2>1. chunk'[c] = chunk[c] /\ Cardinality(Owed(c))' = Cardinality(Owed(c)')
    OBVIOUS
  <2>2. Kept(K, chunk[c]) => EntrNum(chunk[c]) >= chunk[c].cnt + Cardinality(Owed(c)')
    BY <1>2, <1>3 DEF Counts, CountsUp
  <2> QED
    BY <2>1, <2>2 DEF CountsUp, Kept, EntrNum, Linked
<1> QED
  BY <1>1, <1>4

LEMMA OwedKept ==
    ASSUME NEW t \in Thread, OnlyOf(t), Idle(t)' \/ Continues(t), NEW c
    PROVE  Owed(c)' \subseteq Owed(c)
<1> SUFFICES ASSUME NEW u \in Thread, u \in Owed(c)' PROVE u \in Owed(c)
  BY DEF Owed
<1>1. Counting(u)' /\ Now(u)'.c = c
  BY DEF Owed, Counting
<1>2. CASE u # t
  BY <1>1, <1>2, Others DEF Owed, Counting
<1>3. CASE u = t
  <2>1. Continues(t)
    BY <1>1, <1>3 DEF Idle, Plain, Counting, At, Now
  <2> QED
    BY <1>1, <1>3, <2>1 DEF Continues, Owed, Counting
<1> QED
  BY <1>2, <1>3

\* the slots that are owned after the step were owned before
OwnersStay ==
    \A u \in Thread : OwnsSlot(u)' =>
        /\ OwnsSlot(u) /\ Now(u)'.c = Now(u).c /\ Now(u)'.slot = Now(u).slot
        /\ chunk'[Now(u).c].e[Now(u).slot].at = "pending"

LEMMA OwningStays ==
    ASSUME Owning, OwnersStay PROVE Owning'
<1>1. ASSUME NEW u \in Thread, OwnsSlot(u)' PROVE (chunk[Now(u).c].e[Now(u).slot].at = "pending")'
  BY <1>1 DEF OwnersStay
<1>2. ASSUME NEW u \in Thread, NEW v \in Thread, OwnsSlot(u)', OwnsSlot(v)', u # v
      PROVE  Now(u)'.c # Now(v)'.c \/ Now(u)'.slot # Now(v)'.slot
  BY <1>2 DEF OwnersStay, Owning
<1> QED
  BY <1>1, <1>2 DEF Owning

LEMMA OwnersQuiet ==
    ASSUME NEW t \in Thread, OnlyOf(t), Owning, Idle(t)' \/ Continues(t), UNCHANGED chunk
    PROVE  OwnersStay
<1> SUFFICES ASSUME NEW u \in Thread, OwnsSlot(u)'
             PROVE  /\ OwnsSlot(u) /\ Now(u)'.c = Now(u).c /\ Now(u)'.slot = Now(u).slot
                    /\ chunk'[Now(u).c].e[Now(u).slot].at = "pending"
  BY DEF OwnersStay
<1>1. OwnsSlot(u) /\ Now(u)'.c = Now(u).c /\ Now(u)'.slot = Now(u).slot
  <2>1. Placing(u)' /\ Now(u)'.own /\ ~chunk[Now(u)'.c].frozen
    BY DEF OwnsSlot
  <2>2. CASE u # t
    BY <2>1, <2>2, Others DEF OwnsSlot, Placing
  <2>3. CASE u = t
    <3>1. Continues(t)
      BY <2>1, <2>3 DEF Idle, Plain, Placing, At, Now
    <3> QED
      BY <2>1, <2>3, <3>1 DEF Continues, OwnsSlot
  <2> QED
    BY <2>2, <2>3
<1> QED
  BY <1>1 DEF Owning

LEMMA HoldsQuiet ==
    ASSUME NEW t \in Thread, OnlyOf(t), Holds, UNCHANGED <<chunk, hold>>, hold[t] = NoHold
    PROVE  Holds'
<1> SUFFICES ASSUME NEW u \in Thread, hold[u] # NoHold PROVE HoldOK(u)'
  BY DEF Holds
<1>1. u # t /\ HoldOK(u)
  BY DEF Holds
<1>2. /\ Now(u)' = Now(u)
      /\ At(u, "link")' <=> At(u, "link")
      /\ At(u, "mark")' <=> At(u, "mark")
  BY <1>1, Others
<1> QED
  BY <1>1, <1>2 DEF HoldOK, NoHold

LEMMA QuietKeeps ==
    ASSUME NEW K \in BOOLEAN, TreeInv(K), NEW t \in Thread, OnlyOf(t), Stacks(K)',
           UNCHANGED <<top, chunk, hold>>, root' \in Ids, hold[t] = NoHold,
           Words', Idle(t)' \/ Continues(t), Calls'
    PROVE  TreeInv(K)'
<1>1. Shape /\ Stacks(K) /\ Owning /\ Holds /\ Counts(K)
  BY DEF TreeInv
<1>2. Shape'
  BY <1>1, ShapeQuiet
<1>3. Owning'
  BY <1>1, OwnersQuiet, OwningStays
<1>4. Holds'
  BY <1>1, HoldsQuiet
<1>5. Counts(K)'
  <2>1. \A c \in Ids : Owed(c)' \subseteq Owed(c)
    BY OwedKept
  <2> QED
    BY <1>1, <2>1, CountsQuiet
<1> QED
  BY <1>2, <1>3, <1>4, <1>5 DEF TreeInv
-----------------------------------------------------------------------------
(***************************************************************************)
(* The mergeBuddy words.                                                   *)
(***************************************************************************)
WordSet == [st : Alone, bud : {Null}] \cup [st : Together, bud : Ids]

LEMMA WordIs ==
    ASSUME Words, NEW c \in Ids
    PROVE  /\ word[c] \in WordSet /\ word[c] = W(St(c), Bud(c))
           /\ St(c) \in Alone => Bud(c) = Null
           /\ St(c) \in Together => Bud(c) \in Ids
           /\ St(c) \in Alone \cup Together
           /\ Bud(c) \in Ids \cup {Null}
           /\ WordOK(c)
<1>1. word[c] \in WordSet /\ WordOK(c)
  BY DEF Words, WordType, WordSet, Ids
<1> QED
  BY <1>1 DEF WordSet, Alone, Together, W, St, Bud

LEMMA WordsQuiet ==
    ASSUME Words, UNCHANGED <<top, chunk, word>> PROVE Words' /\ FinalsStay
<1>1. WordType'
  BY DEF Words, WordType
<1>2. ASSUME NEW c \in Ids PROVE WordOK(c)'
  BY DEF Words, WordOK, St, Bud, H, Paired, MinFrozen, ReplacedByTwo
<1> QED
  BY <1>1, <1>2 DEF Words, FinalsStay, Ids

\* word n may be written for chunk c
MayWrite(c, n) ==
    /\ n \in WordSet
    /\ n.bud # Null => H(n.bud) = H(c)
    /\ n.st = "MERGE" => word[n.bud] = W("SLAVE_FREEZE", c)
    /\ n.st \in {"REQUEST_SLAVE", "MERGE"} => MinFrozen(c)
    /\ n.st = "SPLIT" => chunk[c].frozen /\ EntrNum(chunk[c]) >= MaxEntries

LEMMA WriteWords ==
    ASSUME Words, UNCHANGED <<top, chunk>>, NEW c \in Ids, St(c) \notin Decided,
           NEW n, MayWrite(c, n), word' = [word EXCEPT ![c] = n]
    PROVE  Words' /\ FinalsStay
<1>1. word \in [Ids -> WordSet] /\ word' \in [Ids -> WordSet]
  BY DEF Words, WordType, WordSet, Ids, MayWrite
<1>2. WordType'
  BY <1>1 DEF WordType, WordSet, Ids
<1>3. FinalsStay
  BY <1>1 DEF FinalsStay, St
<1>4. word'[c] = n /\ \A d \in Ids \ {c} : word'[d] = word[d]
  BY <1>1
<1>5. n = W(n.st, n.bud) /\ (n.st \in Together => n.bud \in Ids) /\ (n.st \notin Together => n.bud = Null)
  BY DEF MayWrite, WordSet, Alone, Together, W
<1>6. WordOK(c)'
  <2>1. chunk[c].low = Null
    BY WordIs DEF WordOK, Decided
  <2>2. n.st = "MERGE" => n.bud # c /\ n.bud \in Ids /\ word'[n.bud] = W("SLAVE_FREEZE", c) /\ n.bud # Null
    <3> SUFFICES ASSUME n.st = "MERGE"
                 PROVE  n.bud # c /\ n.bud \in Ids /\ word'[n.bud] = W("SLAVE_FREEZE", c) /\ n.bud # Null
      OBVIOUS
    <3>1. n.bud \in Ids /\ word[n.bud] = W("SLAVE_FREEZE", c)
      BY <1>5 DEF MayWrite, Together
    <3>2. n.bud # c
      BY <3>1 DEF St, Decided, W
    <3> QED
      BY <1>4, <3>1, <3>2 DEF Null, Ids
  <2>3. n.st = "MERGE" => Paired(c, n.bud)'
    BY <1>4, <1>5, <2>2 DEF Paired, W
  <2> QED
    BY <1>4, <1>5, <2>1, <2>3 DEF WordOK, MayWrite, St, Bud, H, MinFrozen, ReplacedByTwo
<1>7. ASSUME NEW d \in Ids \ {c} PROVE WordOK(d)'
  <2>1. WordOK(d) /\ word'[d] = word[d]
    BY <1>4 DEF Words
  <2>2. St(d) = "MERGE" => Paired(d, Bud(d))'
    <3> SUFFICES ASSUME St(d) = "MERGE" PROVE Paired(d, Bud(d))'
      OBVIOUS
    <3>1. Paired(d, Bud(d)) /\ Bud(d) \in Ids
      BY <2>1, WordIs DEF WordOK, Together
    <3>2. word'[Bud(d)] = word[Bud(d)]
      BY <1>3, <3>1 DEF FinalsStay, Paired, St, Decided, W
    <3> QED
      BY <2>1, <3>1, <3>2 DEF Paired, Bud
  <2> QED
    BY <2>1, <2>2 DEF WordOK, St, Bud, H, MinFrozen, ReplacedByTwo
<1>8. Ids' = Ids
  BY DEF Ids
<1> QED
  BY <1>2, <1>3, <1>6, <1>7, <1>8 DEF Words

LEMMA CasWords ==
    ASSUME Words, UNCHANGED <<top, chunk>>, NEW c \in Ids, NEW e, NEW n,
           word[c] = e => St(c) \notin Decided /\ MayWrite(c, n), Cas(c, e, n)
    PROVE  Words' /\ FinalsStay
<1>1. CASE word[c] = e
  BY <1>1, WriteWords DEF Cas
<1>2. CASE word[c] # e
  BY <1>2, WordsQuiet DEF Cas
<1> QED
  BY <1>1, <1>2

LEMMA MayWriteAlone ==
    ASSUME NEW c \in Ids, NEW st \in Alone,
           st = "SPLIT" => chunk[c].frozen /\ EntrNum(chunk[c]) >= MaxEntries
    PROVE  MayWrite(c, W(st, Null))
BY DEF MayWrite, W, Alone, WordSet

LEMMA MayWriteTogether ==
    ASSUME NEW c \in Ids, NEW st \in Together, NEW d \in Ids, H(d) = H(c),
           st = "MERGE" => word[d] = W("SLAVE_FREEZE", c),
           st # "SLAVE_FREEZE" => MinFrozen(c)
    PROVE  MayWrite(c, W(st, d))
BY DEF MayWrite, W, Together, WordSet

(***************************************************************************)
(* The calls stay well-formed.                                             *)
(***************************************************************************)
LEMMA CallsStay ==
    ASSUME Calls, UNCHANGED left, NEW t, History(t) PROVE Calls'
<1>1. CASE chunk' = chunk /\ root' = root
  BY <1>1 DEF History, Calls
<1>2. CASE ~(chunk' = chunk /\ root' = root)
  <2> DEFINE seen == Promise!Observe(content')
             authors == Authors(t, chunk', root', content' \ content, content \ content')
  <2>1. call' = [u \in Thread |-> IF u \in authors THEN [seen[u] EXCEPT !.eff = TRUE] ELSE seen[u]]
    BY <1>2 DEF History
  <2>2. ASSUME NEW u \in Thread PROVE seen[u] \in CallState
    <3>1. call[u] \in CallState
      BY DEF Calls
    <3>2. seen[u] = IF Promise!Active(u) THEN [call[u] EXCEPT !.seen = @ \cup {(call[u].key \in content')}]
                    ELSE call[u]
      BY DEF Promise!Observe
    <3>3. {(call[u].key \in content')} \subseteq BOOLEAN
      OBVIOUS
    <3>4. call[u].seen \cup {(call[u].key \in content')} \in SUBSET BOOLEAN
      BY <3>1, <3>3 DEF CallState
    <3> QED
      BY <3>1, <3>2, <3>4 DEF CallState
  <2> HIDE DEF seen, authors
  <2>3. ASSUME NEW u \in Thread PROVE [seen[u] EXCEPT !.eff = TRUE] \in CallState
    BY <2>2 DEF CallState
  <2>4. call' \in [Thread -> CallState]
    BY <2>1, <2>2, <2>3
  <2> QED
    BY <2>4 DEF Calls
<1> QED
  BY <1>1, <1>2
-----------------------------------------------------------------------------
(***************************************************************************)
(* The steps that change no chunk.                                         *)
(***************************************************************************)
LEMMA HeadIs ==
    ASSUME NEW K, TreeInv(K), NEW t \in Thread, todo[t] # <<>>
    PROVE  /\ StepOK(K, Now(t))
           /\ Now(t).do = "decide" => chunk[Now(t).c].frozen
           /\ Now(t).do \notin {"link", "mark"} => hold[t] = NoHold
<1>1. PICK s : s = todo[t]
  OBVIOUS
<1>2. Stack(K, s) /\ IsSeq(s) /\ s # <<>>
  BY <1>1 DEF TreeInv, Stacks, Stack
<1>3. Len(s) \in Nat /\ Len(s) >= 1 /\ Now(t) = s[1]
  BY <1>1, <1>2, TailIs, IsSeqIs DEF Now
<1>4. StepOK(K, s[1]) /\ (s[1].do = "decide" => SettledBefore(s, 1))
  BY <1>2, <1>3 DEF Stack
<1>5. Now(t).do \notin {"link", "mark"} => hold[t] = NoHold
  BY DEF TreeInv, Holds, HoldOK, At, Now
<1> QED
  BY <1>3, <1>4, <1>5 DEF SettledBefore

\* what a step that is not in the middle of something has to show
LEMMA StepKeeps ==
    ASSUME NEW K \in BOOLEAN, TreeInv(K), NEW t \in Thread, todo[t] # <<>>,
           Now(t).do \notin {"settle", "link", "mark"}, NEW s, Easy(K, s), Then(t, s),
           UNCHANGED <<top, chunk, hold>>, root' \in Ids, Words', FinalsStay,
           UNCHANGED left, History(t)
    PROVE  TreeInv(K)'
<1>1. Shape /\ Stacks(K) /\ Calls
  BY DEF TreeInv
<1>2. Pushes(t, s)
  BY DEF Pushes, Then
<1>3. IsSeq(s) /\ Top(K, s)
  BY DEF Easy, Top
<1>4. OnlyOf(t) /\ Idle(t)'
  BY <1>1, <1>2, <1>3, Heads, HeadIdle
<1>5. Stacks(K)'
  <2>1. Grows
    BY <1>1, GrowsQuiet
  <2> QED
    BY <1>1, <1>2, <1>3, <2>1, TopStays, StackPushed
<1>6. Calls'
  BY <1>1, CallsStay
<1>7. hold[t] = NoHold
  BY HeadIs
<1> QED
  BY <1>4, <1>5, <1>6, <1>7, QuietKeeps

LEMMA PrivateKeeps ==
    ASSUME NEW K \in BOOLEAN, TreeInv(K), NEW t \in Thread, todo[t] # <<>>,
           Now(t).do \notin {"settle", "link", "mark"}, NEW s, AllGood(K, s), Privately(t, s), During(t)
    PROVE  TreeInv(K)' /\ FinalsStay
<1>1. Words' /\ FinalsStay
  BY WordsQuiet DEF TreeInv, Privately, Shared
<1>2. root' \in Ids
  BY DEF TreeInv, Shape, Privately, Shared
<1> QED
  BY <1>1, <1>2, EasyIs, StepKeeps DEF Privately, Shared, During

LEMMA FailsKeeps ==
    ASSUME NEW K \in BOOLEAN, TreeInv(K), NEW t \in Thread, todo[t] # <<>>,
           Now(t).do \notin {"link", "mark"}, NEW what, Fails(t, what), During(t)
    PROVE  TreeInv(K)' /\ FinalsStay
<1>1. Shape /\ Stacks(K) /\ Calls /\ Words
  BY DEF TreeInv
<1>2. todo' = [todo EXCEPT ![t] = <<>>] /\ UNCHANGED <<root, top, chunk, word, hold>>
  BY DEF Fails, Shared
<1>3. OnlyOf(t) /\ todo'[t] = <<>>
  BY <1>1, <1>2 DEF OnlyOf, Stacks
<1>4. Idle(t)'
  BY <1>3 DEF Idle
<1>5. Words' /\ FinalsStay
  BY <1>1, <1>2, WordsQuiet
<1>6. Stacks(K)'
  <2>1. Grows
    BY <1>1, <1>2, <1>5, GrowsQuiet
  <2>2. Stack(K, <<>>)'
    <3>1. IsSeq(<<>>) /\ Len(<<>>) = 0
      BY DEF IsSeq
    <3> QED
      BY <3>1 DEF Stack, IsSeq
  <2>3. ASSUME NEW u \in Thread PROVE Stack(K, todo[u])'
    <3>1. CASE u = t
      BY <1>3, <2>2, <3>1
    <3>2. CASE u # t
      <4>1. PICK y : y = todo[u]
        OBVIOUS
      <4>2. Stack(K, y)
        BY <1>1, <4>1 DEF Stacks
      <4>3. Stack(K, y)'
        BY <1>1, <2>1, <4>2, StackStays
      <4>4. todo'[u] = y
        BY <1>3, <3>2, <4>1 DEF OnlyOf
      <4> QED
        BY <4>3, <4>4
    <3> QED
      BY <3>1, <3>2
  <2> QED
    BY <1>3, <2>3 DEF Stacks, OnlyOf
<1>7. Calls'
  BY <1>1, CallsStay DEF During
<1>8. hold[t] = NoHold
  BY HeadIs
<1>9. root' \in Ids
  BY <1>1, <1>2 DEF Shape
<1> QED
  BY <1>2, <1>3, <1>4, <1>5, <1>6, <1>7, <1>8, <1>9, QuietKeeps
-----------------------------------------------------------------------------
(***************************************************************************)
(* The steps that are put on a stack are as they should be.                *)
(***************************************************************************)
LEMMA GoodSimple ==
    ASSUME NEW K, NEW c \in Ids
    PROVE  /\ Good(K, Descend(c)) /\ Good(K, Settle(c)) /\ Good(K, Normal(c)) /\ Good(K, Help(c))
           /\ Good(K, [do |-> "helpInfant", c |-> c])
BY DEF Good, Plain, StepOK, Steps, Descend, Settle, Normal, Help

LEMMA GoodRespond ==
    ASSUME NEW K, NEW r PROVE Good(K, Respond(r))
BY DEF Good, Plain, StepOK, Steps, Respond

LEMMA GoodInsert ==
    ASSUME NEW K, NEW c \in Ids, NEW k \in Key, NEW d, Fits(H(c), d) PROVE Good(K, InsertTo(c, k, d))
BY DEF Good, Plain, StepOK, Steps, InsertTo

LEMMA GoodDelete ==
    ASSUME NEW K, NEW c \in Ids, NEW k \in Key, NEW d PROVE Good(K, DeleteFrom(c, k, d))
BY DEF Good, Plain, StepOK, Steps, DeleteFrom

LEMMA GoodReplace ==
    ASSUME NEW K, NEW c \in Ids, H(c) # 0, NEW k \in Key, NEW exp, NEW d, Fits(H(c), d)
    PROVE  Good(K, ReplaceIn(c, k, exp, d))
BY DEF Good, Plain, StepOK, Steps, ReplaceIn

LEMMA GoodSwap ==
    ASSUME NEW K, NEW x, x.c \in Ids, H(x.c) # 0, x.key \in Key, Fits(H(x.c), x.data),
           NEW i \in DOMAIN chunk[x.c].e
    PROVE  Good(K, Swap(x, i))
BY DEF Good, Plain, StepOK, Steps, Swap

LEMMA GoodCalls ==
    ASSUME NEW K, NEW c \in Ids, NEW w, CallOK(H(c), w)
    PROVE  Good(K, Freeze(c, w)) /\ Good(K, Pair(c, w))
BY DEF Good, Plain, StepOK, Steps, Freeze, Pair

LEMMA GoodBuild ==
    ASSUME NEW K, NEW c \in Ids, NEW w, CallOK(H(c), w), NEW dec \in {"COPY", "SPLIT", "MERGE"}
    PROVE  Good(K, Build(c, w, dec))
BY DEF Good, Plain, StepOK, Steps, Build

LEMMA GoodParent ==
    ASSUME NEW K, NEW k, NEW son \in Ids, NEW then \in {"insert", "replace", "delete", "unlink", "enslave"},
           NEW new,
           then \in {"insert", "replace"} => new \in Ids /\ H(new) = H(son),
           then = "insert" => k \in Key,
           then = "unlink" => new \in Ids /\ ReplacedByOne(new),
           then = "enslave" => MinFrozen(son)
    PROVE  Good(K, Parent(k, son, then, new))
<1> DEFINE x == Parent(k, son, then, new)
<1>1. /\ x.do = "parent" /\ x.key = k /\ x.son = son /\ x.then = then /\ x.new = new /\ x.at = Null
  BY DEF Parent
<1> HIDE DEF x
<1>2. SoughtOK(x)
  BY <1>1 DEF SoughtOK
<1>3. Good(K, x)
  BY <1>1, <1>2 DEF Good, Plain, StepOK, Steps
<1> QED
  BY <1>3 DEF x

LEMMA GoodSearch ==
    ASSUME NEW K, NEW x, SoughtOK(x), NEW d \in Ids PROVE Good(K, SearchIn(d, x))
<1> DEFINE y == SearchIn(d, x)
<1>1. y.do = "parent" /\ y.key = x.key /\ y.son = x.son /\ y.then = x.then /\ y.new = x.new /\ y.at = d
  BY DEF SearchIn, Parent
<1> HIDE DEF y
<1>2. SoughtOK(y)
  BY <1>1 DEF SoughtOK
<1>3. Good(K, y)
  BY <1>1, <1>2 DEF Good, Plain, StepOK, Steps
<1> QED
  BY <1>3 DEF y

LEMMA GoodFound ==
    ASSUME NEW K, NEW x, SoughtOK(x), NEW d \in Ids, H(d) # 0, NEW cur \in DOMAIN chunk[d].e, NEW near,
           x.then = "enslave" /\ near # Null => near \in DOMAIN chunk[d].e
    PROVE  Good(K, Found(d, x, cur, near))
<1> DEFINE y == Found(d, x, cur, near)
<1>1. /\ y.do = "found" /\ y.key = x.key /\ y.son = x.son /\ y.then = x.then /\ y.new = x.new
      /\ y.at = d /\ y.slot = cur /\ y.near = near
  BY DEF Found
<1> HIDE DEF y
<1>2. SoughtOK(y) /\ FoundOK(y)
  BY <1>1 DEF SoughtOK, FoundOK
<1>3. Good(K, y)
  BY <1>1, <1>2 DEF Good, Plain, StepOK, Steps
<1> QED
  BY <1>3 DEF y

LEMMA GoodOnward ==
    ASSUME NEW K, NEW x, x.do = "found", SoughtOK(x), FoundOK(x) PROVE Good(K, [x EXCEPT !.do = "onward"])
<1> DEFINE y == [x EXCEPT !.do = "onward"]
<1>1. /\ y.do = "onward" /\ y.key = x.key /\ y.son = x.son /\ y.then = x.then /\ y.new = x.new
      /\ y.at = x.at /\ y.slot = x.slot /\ y.near = x.near
  OBVIOUS
<1> HIDE DEF y
<1>2. SoughtOK(y) /\ FoundOK(y)
  BY <1>1 DEF SoughtOK, FoundOK
<1>3. Good(K, y)
  BY <1>1, <1>2 DEF Good, Plain, StepOK, Steps
<1> QED
  BY <1>3 DEF y

LEMMA GoodFind ==
    ASSUME NEW K, NEW c \in Ids, MinFrozen(c), NEW old PROVE Good(K, FindSlave(c, old))
BY GoodParent DEF FindSlave

LEMMA GoodRequest ==
    ASSUME NEW K, NEW m \in Ids, MinFrozen(m), NEW old, NEW p \in Ids, H(p) # 0, H(p) - 1 = H(m),
           NEW i \in DOMAIN chunk[p].e
    PROVE  Good(K, Request(m, old, p, i))
BY DEF Good, Plain, StepOK, Steps, Request

LEMMA GoodCheck ==
    ASSUME NEW K, NEW m \in Ids, MinFrozen(m), NEW old, NEW p \in Ids PROVE Good(K, Check(m, old, p))
BY DEF Good, Plain, StepOK, Steps, Check

LEMMA GoodMasters ==
    ASSUME NEW K, NEW m, NEW s, Masters(m, s)
    PROVE  Good(K, SetSlave(m, s)) /\ Good(K, Look(m, s)) /\ Good(K, Yield(m, s)) /\ Good(K, Take(m, s))
BY DEF Good, Plain, StepOK, Steps, SetSlave, Look, Yield, Take

LEMMA GoodUnlink ==
    ASSUME NEW K, NEW p \in Ids, NEW k \in Key, NEW low, NEW m \in Ids, ReplacedByOne(m)
    PROVE  Good(K, Unlink(p, k, low, m))
BY DEF Good, Plain, StepOK, Steps, Unlink

LEMMA GoodRoots ==
    ASSUME NEW K, NEW p, NEW new \in Ids
    PROVE  Good(K, SwapRoot(p, new)) /\ (chunk[new].next = Null => Good(K, SetRoot(p, new)))
BY DEF Good, Plain, StepOK, Steps, SwapRoot, SetRoot

LEMMA GoodNewRoot ==
    ASSUME NEW K, NEW c \in Ids, ReplacedByTwo(c), NEW sep \in Key PROVE Good(K, NewRoot(c, sep))
BY DEF Good, Plain, StepOK, Steps, NewRoot

LEMMA GoodUpdate ==
    ASSUME NEW K, NEW c \in Ids, chunk[c].low # Null, NEW dec \in {"COPY", "SPLIT", "MERGE"},
           St(c) = dec, NEW sep \in Key
    PROVE  Good(K, [do |-> "repoint", c |-> c]) /\ Good(K, [do |-> "update", c |-> c, dec |-> dec, sep |-> sep])
BY DEF Good, Plain, StepOK, Steps

LEMMA GoodOnto ==
    ASSUME NEW K, NEW c \in Ids, H(c) # 0, NEW i \in DOMAIN chunk[c].e PROVE Good(K, Onto(c, i))
BY DEF Good, Plain, StepOK, Steps, Onto

LEMMA GoodHelpIfInfant ==
    ASSUME NEW K, NEW c \in Ids PROVE AllGood(K, HelpIfInfant(c))
BY Good0, Good1, GoodSimple DEF HelpIfInfant

\* the son of an entry of an inner chunk
LEMMA SonIs ==
    ASSUME Shape, NEW p \in Ids, ~Leaf(p), NEW i \in DOMAIN chunk[p].e
    PROVE  Son(p, i) \in Ids /\ H(Son(p, i)) = H(p) - 1 /\ H(p) \in Nat
<1>1. Sound(chunk[p]) /\ chunk[p].height # 0 /\ DOMAIN chunk = Ids
  BY DEF Shape, Leaf
<1>2. Fits(chunk[p].height, chunk[p].e[i].data)
  BY <1>1 DEF Sound
<1> QED
  BY <1>1, <1>2, EntriesAre DEF Fits, FitsIn, Son, H, Sound

LEMMA ChunkTyped ==
    ASSUME Shape, NEW c \in Ids
    PROVE  /\ chunk[c] \in ChunkRecord /\ Sound(chunk[c]) /\ Related(c) /\ H(c) \in Nat
           /\ chunk[c].cnt \in Int /\ EntrNum(chunk[c]) \in Nat
           /\ c \in Nat /\ c # Null
BY EntriesAre, LinkedFinite DEF Shape, Sound, H, Ids, Null
-----------------------------------------------------------------------------
(***************************************************************************)
(* Each step keeps the invariant, and leaves the words as they are in      *)
(* which something has been decided.                                       *)
(***************************************************************************)
LEMMA AtIs ==
    ASSUME NEW t, NEW a, At(t, a) PROVE todo[t] # <<>> /\ Now(t).do = a
BY DEF At, Now

LEMMA DescendKeeps ==
    ASSUME NEW K \in BOOLEAN, TreeInv(K), NEW t \in Thread, DescendStep(t), During(t)
    PROVE  TreeInv(K)' /\ FinalsStay
<1>1. Shape /\ Calls
  BY DEF TreeInv
<1>2. todo[t] # <<>> /\ Now(t).do = "descend" /\ StepOK(K, Now(t))
  BY AtIs, HeadIs DEF DescendStep
<1>3. PICK c : c = Now(t).c
  OBVIOUS
<1>4. c \in Ids
  BY <1>2, <1>3 DEF StepOK
<1>5. PICK k : k = call[t].key
  OBVIOUS
<1>6. k \in Key
  BY <1>1, <1>5 DEF Calls, CallState
<1>7. PICK cur : cur = CurOf(chunk[c], k)
  OBVIOUS
<1>8. CASE ~Leaf(c) /\ cur = Null /\ Fails(t, "findLeaf: no entry for the key")
  BY <1>2, <1>8, FailsKeeps
<1>9. CASE ~Leaf(c) /\ cur # Null /\ Privately(t, <<Onto(c, cur)>>)
  <2>1. cur \in DOMAIN chunk[c].e
    BY <1>1, <1>4, <1>7, <1>9, CurIn, ChunkTyped
  <2>2. H(c) # 0
    BY <1>9 DEF Leaf, H
  <2>3. AllGood(K, <<Onto(c, cur)>>)
    BY <1>4, <2>1, <2>2, GoodOnto, Good1
  <2> QED
    BY <1>2, <1>9, <2>3, PrivateKeeps
<1>10. CASE Leaf(c) /\ Privately(t, <<Respond(Has(chunk[c], k))>>)
  <2>1. AllGood(K, <<Respond(Has(chunk[c], k))>>)
    BY GoodRespond, Good1
  <2> QED
    BY <1>2, <1>10, <2>1, PrivateKeeps
<1>11. CASE Leaf(c) /\ Privately(t, HelpIfInfant(c) \o <<InsertTo(c, k, t)>>)
  <2>1. Fits(H(c), t)
    BY <1>11 DEF Leaf, Fits, FitsIn, H
  <2>2. AllGood(K, HelpIfInfant(c) \o <<InsertTo(c, k, t)>>)
    BY <1>4, <1>6, <2>1, GoodInsert, Good1, GoodHelpIfInfant, GoodCat
  <2> QED
    BY <1>2, <1>11, <2>2, PrivateKeeps
<1>12. CASE Leaf(c) /\ Privately(t, HelpIfInfant(c) \o <<DeleteFrom(c, k, t)>>)
  <2>1. AllGood(K, HelpIfInfant(c) \o <<DeleteFrom(c, k, t)>>)
    BY <1>4, <1>6, GoodDelete, Good1, GoodHelpIfInfant, GoodCat
  <2> QED
    BY <1>2, <1>12, <2>1, PrivateKeeps
<1> QED
  BY <1>3, <1>5, <1>7, <1>8, <1>9, <1>10, <1>11, <1>12 DEF DescendStep

LEMMA OntoKeeps ==
    ASSUME NEW K \in BOOLEAN, TreeInv(K), NEW t \in Thread, OntoStep(t), During(t)
    PROVE  TreeInv(K)' /\ FinalsStay
<1>1. Shape
  BY DEF TreeInv
<1>2. todo[t] # <<>> /\ Now(t).do = "onto" /\ StepOK(K, Now(t))
  BY AtIs, HeadIs DEF OntoStep
<1>3. PICK c, i : c = Now(t).c /\ i = Now(t).slot
  OBVIOUS
<1>4. c \in Ids /\ ~Leaf(c) /\ i \in DOMAIN chunk[c].e
  BY <1>2, <1>3 DEF StepOK, Leaf, H
<1>5. AllGood(K, <<Descend(Son(c, i))>>)
  <2>1. Son(c, i) \in Ids
    BY <1>1, <1>4, SonIs
  <2> QED
    BY <2>1, GoodSimple, Good1
<1>6. Privately(t, <<Descend(Son(c, i))>>)
  BY <1>3 DEF OntoStep
<1> QED
  BY <1>2, <1>5, <1>6, PrivateKeeps

LEMMA ReplaceKeeps ==
    ASSUME NEW K \in BOOLEAN, TreeInv(K), NEW t \in Thread, ReplaceStep(t), During(t)
    PROVE  TreeInv(K)' /\ FinalsStay
<1>1. Shape
  BY DEF TreeInv
<1>2. todo[t] # <<>> /\ Now(t).do = "replace" /\ StepOK(K, Now(t))
  BY AtIs, HeadIs DEF ReplaceStep
<1>3. PICK i : i = Now(t)
  OBVIOUS
<1>4. i.c \in Ids /\ H(i.c) # 0 /\ i.key \in Key /\ Fits(H(i.c), i.data)
  BY <1>2, <1>3 DEF StepOK
<1>5. CASE Has(chunk[i.c], i.key) /\ Privately(t, <<Swap(i, CurOf(chunk[i.c], i.key))>>)
  <2>1. CurOf(chunk[i.c], i.key) \in DOMAIN chunk[i.c].e
    BY <1>1, <1>4, <1>5, CurIn, ChunkTyped DEF Has
  <2>2. AllGood(K, <<Swap(i, CurOf(chunk[i.c], i.key))>>)
    BY <1>4, <2>1, GoodSwap, Good1
  <2> QED
    BY <1>2, <1>5, <2>2, PrivateKeeps
<1>6. CASE Privately(t, <<>>)
  BY <1>2, <1>6, PrivateKeeps, Good0
<1> QED
  BY <1>3, <1>5, <1>6 DEF ReplaceStep

LEMMA NormalKeeps ==
    ASSUME NEW K \in BOOLEAN, TreeInv(K), NEW t \in Thread, NormalStep(t), During(t)
    PROVE  TreeInv(K)' /\ FinalsStay
<1>1. Shape /\ Words
  BY DEF TreeInv
<1>2. todo[t] # <<>> /\ Now(t).do = "normal" /\ StepOK(K, Now(t))
  BY AtIs, HeadIs DEF NormalStep
<1>3. PICK c \in Ids : c = Now(t).c
  BY <1>2 DEF StepOK
<1>4. Cas(c, W("INFANT", Null), W("NORMAL", Null)) /\ Then(t, <<>>) /\ UNCHANGED <<root, top, chunk, hold>>
  BY <1>3 DEF NormalStep
<1>5. MayWrite(c, W("NORMAL", Null))
  BY MayWriteAlone DEF Alone
<1>6. word[c] = W("INFANT", Null) => St(c) \notin Decided
  BY DEF St, W, Decided
<1>7. Words' /\ FinalsStay
  BY <1>1, <1>4, <1>5, <1>6, CasWords
<1>8. root' \in Ids
  BY <1>1, <1>4 DEF Shape
<1> QED
  BY <1>2, <1>4, <1>7, <1>8, Good0, EasyIs, StepKeeps DEF During

LEMMA SwapRootKeeps ==
    ASSUME NEW K \in BOOLEAN, TreeInv(K), NEW t \in Thread, SwapRootStep(t), During(t)
    PROVE  TreeInv(K)' /\ FinalsStay
<1>1. Shape /\ Words
  BY DEF TreeInv
<1>2. todo[t] # <<>> /\ Now(t).do = "swapRoot" /\ StepOK(K, Now(t))
  BY AtIs, HeadIs DEF SwapRootStep
<1>3. Then(t, <<>>) /\ UNCHANGED <<top, chunk, word, hold>>
  BY DEF SwapRootStep
<1>4. root' \in Ids
  BY <1>1, <1>2 DEF Shape, StepOK, SwapRootStep
<1>5. Words' /\ FinalsStay
  BY <1>1, <1>3, WordsQuiet
<1> QED
  BY <1>2, <1>3, <1>4, <1>5, Good0, EasyIs, StepKeeps DEF During

LEMMA FreezeKeeps ==
    ASSUME NEW K \in BOOLEAN, TreeInv(K), NEW t \in Thread, FreezeStep(t), During(t)
    PROVE  TreeInv(K)' /\ FinalsStay
<1>1. Shape /\ Words
  BY DEF TreeInv
<1>2. todo[t] # <<>> /\ Now(t).do = "freeze" /\ StepOK(K, Now(t))
  BY AtIs, HeadIs DEF FreezeStep
<1>3. PICK c \in Ids : c = Now(t).c
  BY <1>2 DEF StepOK
<1>4. PICK w : w = Now(t).w
  OBVIOUS
<1>5. CallOK(H(c), w)
  BY <1>2, <1>3, <1>4 DEF StepOK
<1>6. CASE \E what : Fails(t, what)
  BY <1>2, <1>6, FailsKeeps
<1>7. CASE /\ Cas(c, W("NORMAL", Null), W("FREEZE", Null))
           /\ Then(t, <<Settle(c), Decide(c, w)>>)
           /\ UNCHANGED <<root, top, chunk, hold, fault>>
  <2>1. MayWrite(c, W("FREEZE", Null))
    BY MayWriteAlone DEF Alone
  <2>2. word[c] = W("NORMAL", Null) => St(c) \notin Decided
    BY DEF St, W, Decided
  <2>3. Words' /\ FinalsStay
    BY <1>1, <1>7, <2>1, <2>2, CasWords
  <2>4. Easy(K, <<Settle(c), Decide(c, w)>>)
    <3> DEFINE s == <<Settle(c), Decide(c, w)>>
    <3>1. IsSeq(s) /\ Len(s) = 2 /\ s[1] = Settle(c) /\ s[2] = Decide(c, w)
      BY DEF IsSeq
    <3> HIDE DEF s
    <3>a. Good(K, Settle(c))
      BY GoodSimple
    <3>b. Settle(c).do = "settle" /\ Settle(c).c = c
      BY DEF Settle
    <3>2. StepOK(K, s[1]) /\ Plain(s[1]) /\ s[1].do = "settle" /\ s[1].c = c
      BY <3>1, <3>a, <3>b DEF Good
    <3>3. StepOK(K, s[2]) /\ Plain(s[2]) /\ s[2].c = c
      BY <1>5, <3>1 DEF Decide, StepOK, Steps, Plain
    <3>4. \A i \in 1 .. Len(s) : i = 1 \/ i = 2
      BY <3>1
    <3>5. Top(K, s)
      BY <3>1, <3>2, <3>3, <3>4 DEF Top
    <3> QED
      BY <3>2, <3>5 DEF Easy, s
  <2>5. root' \in Ids
    BY <1>1, <1>7 DEF Shape
  <2> QED
    BY <1>2, <1>7, <2>3, <2>4, <2>5, StepKeeps DEF During
<1>8. CASE St(c) \in {"COPY", "SPLIT"} /\ Privately(t, <<Build(c, w, St(c))>>)
  <2>1. AllGood(K, <<Build(c, w, St(c))>>)
    BY <1>5, <1>8, GoodBuild, Good1
  <2> QED
    BY <1>2, <1>8, <2>1, PrivateKeeps
<1>9. CASE Privately(t, <<Build(c, w, "MERGE")>>)
  <2>1. AllGood(K, <<Build(c, w, "MERGE")>>)
    BY <1>5, GoodBuild, Good1
  <2> QED
    BY <1>2, <1>9, <2>1, PrivateKeeps
<1>10. CASE St(c) = "REQUEST_SLAVE" /\ Privately(t, <<FindSlave(c, Null), Pair(c, w)>>)
  <2>1. MinFrozen(c)
    BY <1>1, <1>10, WordIs DEF WordOK
  <2>2. AllGood(K, <<FindSlave(c, Null), Pair(c, w)>>)
    BY <1>5, <2>1, GoodFind, GoodCalls, Good2
  <2> QED
    BY <1>2, <1>10, <2>2, PrivateKeeps
<1>11. CASE Privately(t, <<Settle(c), Pair(c, w)>>)
  <2>1. AllGood(K, <<Settle(c), Pair(c, w)>>)
    BY <1>5, GoodSimple, GoodCalls, Good2
  <2> QED
    BY <1>2, <1>11, <2>1, PrivateKeeps
<1> QED
  BY <1>3, <1>4, <1>6, <1>7, <1>8, <1>9, <1>10, <1>11 DEF FreezeStep

LEMMA DecideKeeps ==
    ASSUME NEW K \in BOOLEAN, TreeInv(K), NEW t \in Thread, DecideStep(t), During(t)
    PROVE  TreeInv(K)' /\ FinalsStay
<1>1. Shape /\ Words
  BY DEF TreeInv
<1>2. todo[t] # <<>> /\ Now(t).do = "decide" /\ StepOK(K, Now(t)) /\ chunk[Now(t).c].frozen
  BY AtIs, HeadIs DEF DecideStep
<1>3. PICK c \in Ids : c = Now(t).c
  BY <1>2 DEF StepOK
<1>4. PICK w : w = Now(t).w
  OBVIOUS
<1>5. PICK dec : dec = Decision(chunk[c])
  OBVIOUS
<1>6. CallOK(H(c), w) /\ chunk[c].frozen
  BY <1>2, <1>3, <1>4 DEF StepOK
<1>7. /\ dec \in {"COPY", "SPLIT", "MERGE"}
      /\ dec = "MERGE" => MinFrozen(c)
      /\ dec = "SPLIT" => EntrNum(chunk[c]) = MaxEntries
  BY <1>5, <1>6, SizeAssumption DEF Decision, MinFrozen
<1>8. CASE dec = "MERGE" /\ Privately(t, <<FindSlave(c, Null), Pair(c, w)>>)
  <2>1. AllGood(K, <<FindSlave(c, Null), Pair(c, w)>>)
    BY <1>6, <1>7, <1>8, GoodFind, GoodCalls, Good2
  <2> QED
    BY <1>2, <1>8, <2>1, PrivateKeeps
<1>9. CASE /\ dec # "MERGE" /\ Cas(c, W("FREEZE", Null), W(dec, Null)) /\ Then(t, <<Build(c, w, dec)>>)
           /\ UNCHANGED <<root, top, chunk, hold, fault>>
  <2>1. MayWrite(c, W(dec, Null))
    BY <1>6, <1>7, <1>9, MayWriteAlone, SizeAssumption DEF Alone
  <2>2. word[c] = W("FREEZE", Null) => St(c) \notin Decided
    BY DEF St, W, Decided
  <2>3. Words' /\ FinalsStay
    BY <1>1, <1>9, <2>1, <2>2, CasWords
  <2>4. AllGood(K, <<Build(c, w, dec)>>)
    BY <1>6, <1>7, GoodBuild, Good1
  <2>5. root' \in Ids
    BY <1>1, <1>9 DEF Shape
  <2> QED
    BY <1>2, <1>9, <2>3, <2>4, <2>5, EasyIs, StepKeeps DEF During
<1> QED
  BY <1>3, <1>4, <1>5, <1>8, <1>9 DEF DecideStep

LEMMA PairKeeps ==
    ASSUME NEW K \in BOOLEAN, TreeInv(K), NEW t \in Thread, PairStep(t), During(t)
    PROVE  TreeInv(K)' /\ FinalsStay
<1>1. Shape /\ Words
  BY DEF TreeInv
<1>2. todo[t] # <<>> /\ Now(t).do = "pair" /\ StepOK(K, Now(t))
  BY AtIs, HeadIs DEF PairStep
<1>3. PICK c \in Ids : c = Now(t).c
  BY <1>2 DEF StepOK
<1>4. PICK w : w = Now(t).w
  OBVIOUS
<1>5. PICK m : m = Bud(c)
  OBVIOUS
<1>6. CallOK(H(c), w)
  BY <1>2, <1>3, <1>4 DEF StepOK
<1>7. AllGood(K, <<Build(c, w, "MERGE")>>)
  BY <1>6, GoodBuild, Good1
<1>8. CASE Privately(t, <<Build(c, w, "MERGE")>>)
  BY <1>2, <1>7, <1>8, PrivateKeeps
<1>9. CASE /\ St(c) = "SLAVE_FREEZE"
           /\ Cas(m, W("REQUEST_SLAVE", c), W("MERGE", c))
           /\ Then(t, <<Build(c, w, "MERGE")>>)
           /\ UNCHANGED <<root, top, chunk, hold, fault>>
  <2>1. m \in Ids /\ H(m) = H(c) /\ word[c] = W("SLAVE_FREEZE", m)
    <3>1. m \in Ids /\ WordOK(c) /\ word[c] = W("SLAVE_FREEZE", m)
      BY <1>1, <1>5, <1>9, WordIs DEF Together
    <3> QED
      BY <1>5, <3>1 DEF WordOK, Ids, Null
  <2>2. ASSUME word[m] = W("REQUEST_SLAVE", c) PROVE St(m) \notin Decided /\ MayWrite(m, W("MERGE", c))
    <3>1. St(m) = "REQUEST_SLAVE" /\ St(m) \notin Decided
      BY <2>2 DEF St, W, Decided
    <3>2. MinFrozen(m)
      BY <1>1, <2>1, <3>1, WordIs DEF WordOK
    <3> QED
      BY <2>1, <3>1, <3>2, MayWriteTogether DEF Together
  <2>3. Words' /\ FinalsStay
    BY <1>1, <1>9, <2>1, <2>2, CasWords
  <2>4. root' \in Ids
    BY <1>1, <1>9 DEF Shape
  <2> QED
    BY <1>2, <1>7, <1>9, <2>3, <2>4, EasyIs, StepKeeps DEF During
<1>10. CASE \E what : Fails(t, what)
  BY <1>2, <1>10, FailsKeeps
<1> QED
  BY <1>3, <1>4, <1>5, <1>8, <1>9, <1>10 DEF PairStep

LEMMA RequestKeeps ==
    ASSUME NEW K \in BOOLEAN, TreeInv(K), NEW t \in Thread, RequestStep(t), During(t)
    PROVE  TreeInv(K)' /\ FinalsStay
<1>1. Shape /\ Words
  BY DEF TreeInv
<1>2. todo[t] # <<>> /\ Now(t).do = "request" /\ StepOK(K, Now(t))
  BY AtIs, HeadIs DEF RequestStep
<1>3. PICK m \in Ids : m = Now(t).c
  BY <1>2 DEF StepOK
<1>4. PICK p \in Ids : p = Now(t).parent
  BY <1>2 DEF StepOK
<1>5. PICK old, slot : old = Now(t).old /\ slot = Now(t).slot
  OBVIOUS
<1>6. MinFrozen(m) /\ H(p) # 0 /\ H(p) - 1 = H(m) /\ slot \in DOMAIN chunk[p].e
  BY <1>2, <1>3, <1>4, <1>5 DEF StepOK
<1>7. PICK s : s = Son(p, slot)
  OBVIOUS
<1>8. s \in Ids /\ H(s) = H(m)
  BY <1>1, <1>6, <1>7, SonIs DEF Leaf, H
<1>9. PICK exp : exp = Expected(m, old)
  OBVIOUS
<1>10. CASE Privately(t, <<>>)
  BY <1>2, <1>10, PrivateKeeps, Good0
<1>11. CASE \E what : Fails(t, what)
  BY <1>2, <1>11, FailsKeeps
<1>12. CASE /\ Cas(m, exp, W("REQUEST_SLAVE", s))
            /\ Then(t, <<Check(m, old, p)>>)
            /\ UNCHANGED <<root, top, chunk, hold, fault>>
  <2>1. MayWrite(m, W("REQUEST_SLAVE", s))
    BY <1>6, <1>8, MayWriteTogether DEF Together
  <2>2. word[m] = exp => St(m) \notin Decided
    BY <1>9 DEF St, W, Decided, Expected
  <2>3. Words' /\ FinalsStay
    BY <1>1, <1>12, <2>1, <2>2, CasWords
  <2>4. AllGood(K, <<Check(m, old, p)>>)
    BY <1>6, GoodCheck, Good1
  <2>5. root' \in Ids
    BY <1>1, <1>12 DEF Shape
  <2> QED
    BY <1>2, <1>12, <2>3, <2>4, <2>5, EasyIs, StepKeeps DEF During
<1> QED
  BY <1>3, <1>4, <1>5, <1>7, <1>9, <1>10, <1>11, <1>12 DEF RequestStep

LEMMA CheckKeeps ==
    ASSUME NEW K \in BOOLEAN, TreeInv(K), NEW t \in Thread, CheckStep(t), During(t)
    PROVE  TreeInv(K)' /\ FinalsStay
<1>1. Shape /\ Words
  BY DEF TreeInv
<1>2. todo[t] # <<>> /\ Now(t).do = "check" /\ StepOK(K, Now(t))
  BY AtIs, HeadIs DEF CheckStep
<1>3. PICK i : i = Now(t)
  OBVIOUS
<1>4. i.c \in Ids /\ MinFrozen(i.c) /\ i.parent \in Ids
  BY <1>2, <1>3 DEF StepOK
<1>5. PICK s : s = Bud(i.c)
  OBVIOUS
<1>6. CASE \E what : Fails(t, what)
  BY <1>2, <1>6, FailsKeeps
<1>7. CASE Privately(t, <<Freeze(i.parent, NoCall), FindSlave(i.c, s)>>)
  <2>1. CallOK(H(i.parent), NoCall)
    BY DEF CallOK, NoCall
  <2>2. AllGood(K, <<Freeze(i.parent, NoCall), FindSlave(i.c, s)>>)
    BY <1>4, <2>1, GoodCalls, GoodFind, Good2
  <2> QED
    BY <1>2, <1>7, <2>2, PrivateKeeps
<1>8. CASE s # Null /\ Privately(t, <<SetSlave(i.c, s)>>)
  <2>1. WordOK(i.c) /\ s \in Ids
    BY <1>1, <1>4, <1>5, <1>8, WordIs
  <2>2. Masters(i.c, s)
    BY <1>4, <1>5, <1>8, <2>1 DEF Masters, WordOK
  <2>3. AllGood(K, <<SetSlave(i.c, s)>>)
    BY <2>2, GoodMasters, Good1
  <2> QED
    BY <1>2, <1>8, <2>3, PrivateKeeps
<1> QED
  BY <1>3, <1>5, <1>6, <1>7, <1>8 DEF CheckStep

LEMMA SetSlaveKeeps ==
    ASSUME NEW K \in BOOLEAN, TreeInv(K), NEW t \in Thread, SetSlaveStep(t), During(t)
    PROVE  TreeInv(K)' /\ FinalsStay
<1>1. Shape /\ Words
  BY DEF TreeInv
<1>2. todo[t] # <<>> /\ Now(t).do = "setSlave" /\ StepOK(K, Now(t))
  BY AtIs, HeadIs DEF SetSlaveStep
<1>3. PICK m, s : m = Now(t).c /\ s = Now(t).slave
  OBVIOUS
<1>4. Masters(m, s)
  BY <1>2, <1>3 DEF StepOK
<1>5. m \in Ids /\ s \in Ids /\ H(m) = H(s)
  BY <1>4 DEF Masters
<1>6. PICK steps : steps = IF word[s] = W("NORMAL", Null) THEN <<Settle(s), Take(m, s)>> ELSE <<Look(m, s)>>
  OBVIOUS
<1>7. AllGood(K, steps)
  <2>1. AllGood(K, <<Settle(s), Take(m, s)>>) /\ AllGood(K, <<Look(m, s)>>)
    BY <1>4, <1>5, GoodMasters, GoodSimple, Good1, Good2
  <2> QED
    BY <1>6, <2>1
<1>8. /\ Cas(s, W("NORMAL", Null), W("SLAVE_FREEZE", m)) /\ Then(t, steps)
      /\ UNCHANGED <<root, top, chunk, hold>>
  BY <1>3, <1>6 DEF SetSlaveStep
<1>9. MayWrite(s, W("SLAVE_FREEZE", m))
  BY <1>5, MayWriteTogether DEF Together
<1>10. word[s] = W("NORMAL", Null) => St(s) \notin Decided
  BY DEF St, W, Decided
<1>11. Words' /\ FinalsStay
  BY <1>1, <1>5, <1>8, <1>9, <1>10, CasWords
<1>12. root' \in Ids
  BY <1>1, <1>8 DEF Shape
<1> QED
  BY <1>2, <1>7, <1>8, <1>11, <1>12, EasyIs, StepKeeps DEF During

LEMMA LookKeeps ==
    ASSUME NEW K \in BOOLEAN, TreeInv(K), NEW t \in Thread, LookStep(t), During(t)
    PROVE  TreeInv(K)' /\ FinalsStay
<1>1. Shape /\ Words
  BY DEF TreeInv
<1>2. todo[t] # <<>> /\ Now(t).do = "look" /\ StepOK(K, Now(t))
  BY AtIs, HeadIs DEF LookStep
<1>3. PICK m, s : m = Now(t).c /\ s = Now(t).slave
  OBVIOUS
<1>4. Masters(m, s)
  BY <1>2, <1>3 DEF StepOK
<1>5. m \in Ids /\ s \in Ids /\ H(m) = H(s) /\ MinFrozen(m)
  BY <1>4 DEF Masters
<1>6. CASE Privately(t, <<Help(s), SetSlave(m, s)>>)
  <2>1. AllGood(K, <<Help(s), SetSlave(m, s)>>)
    BY <1>4, <1>5, GoodMasters, GoodSimple, Good2
  <2> QED
    BY <1>2, <1>6, <2>1, PrivateKeeps
<1>7. CASE Privately(t, <<Settle(s), Take(m, s)>>)
  <2>1. AllGood(K, <<Settle(s), Take(m, s)>>)
    BY <1>4, <1>5, GoodMasters, GoodSimple, Good2
  <2> QED
    BY <1>2, <1>7, <2>1, PrivateKeeps
<1>8. CASE Privately(t, <<Yield(m, s)>>)
  <2>1. AllGood(K, <<Yield(m, s)>>)
    BY <1>4, GoodMasters, Good1
  <2> QED
    BY <1>2, <1>8, <2>1, PrivateKeeps
<1>9. CASE Privately(t, AskAgain(m, s))
  <2> DEFINE w == [NoCall EXCEPT !.trigger = "ENSLAVE", !.data = m]
  <2>1. w.trigger = "ENSLAVE" /\ w.data = m
    BY DEF NoCall
  <2>2. AskAgain(m, s) = <<Freeze(s, w), FindSlave(m, s)>>
    BY DEF AskAgain
  <2> HIDE DEF w
  <2>3. CallOK(H(s), w)
    BY <1>5, <2>1 DEF CallOK
  <2>4. AllGood(K, AskAgain(m, s))
    BY <1>5, <2>2, <2>3, GoodCalls, GoodFind, Good2
  <2> QED
    BY <1>2, <1>9, <2>4, PrivateKeeps
<1> QED
  BY <1>3, <1>6, <1>7, <1>8, <1>9 DEF LookStep

LEMMA YieldKeeps ==
    ASSUME NEW K \in BOOLEAN, TreeInv(K), NEW t \in Thread, YieldStep(t), During(t)
    PROVE  TreeInv(K)' /\ FinalsStay
<1>1. Shape /\ Words
  BY DEF TreeInv
<1>2. todo[t] # <<>> /\ Now(t).do = "yield" /\ StepOK(K, Now(t))
  BY AtIs, HeadIs DEF YieldStep
<1>3. PICK m, s : m = Now(t).c /\ s = Now(t).slave
  OBVIOUS
<1>4. Masters(m, s)
  BY <1>2, <1>3 DEF StepOK
<1>5. m \in Ids /\ s \in Ids /\ H(m) = H(s) /\ MinFrozen(m)
  BY <1>4 DEF Masters
<1>6. PICK low : low = Yielding(m, s)
  OBVIOUS
<1>7. PICK high : high = IF low = m THEN s ELSE m
  OBVIOUS
<1>8. low \in Ids /\ high \in Ids /\ H(high) = H(low)
  BY <1>5, <1>6, <1>7 DEF Yielding
<1>9. PICK steps : steps = IF word[low] = W("REQUEST_SLAVE", high) THEN <<Take(m, s)>> ELSE <<FindSlave(m, s)>>
  OBVIOUS
<1>10. AllGood(K, steps)
  <2>1. AllGood(K, <<Take(m, s)>>) /\ AllGood(K, <<FindSlave(m, s)>>)
    BY <1>4, <1>5, GoodMasters, GoodFind, Good1
  <2> QED
    BY <1>9, <2>1
<1>11. /\ Cas(low, W("REQUEST_SLAVE", high), W("SLAVE_FREEZE", high)) /\ Then(t, steps)
       /\ UNCHANGED <<root, top, chunk, hold>>
  BY <1>3, <1>6, <1>7, <1>9 DEF YieldStep
<1>12. MayWrite(low, W("SLAVE_FREEZE", high))
  BY <1>8, MayWriteTogether DEF Together
<1>13. word[low] = W("REQUEST_SLAVE", high) => St(low) \notin Decided
  BY DEF St, W, Decided
<1>14. Words' /\ FinalsStay
  BY <1>1, <1>8, <1>11, <1>12, <1>13, CasWords
<1>15. root' \in Ids
  BY <1>1, <1>11 DEF Shape
<1> QED
  BY <1>2, <1>10, <1>11, <1>14, <1>15, EasyIs, StepKeeps DEF During

LEMMA TakeKeeps ==
    ASSUME NEW K \in BOOLEAN, TreeInv(K), NEW t \in Thread, TakeStep(t), During(t)
    PROVE  TreeInv(K)' /\ FinalsStay
<1>1. Shape /\ Words
  BY DEF TreeInv
<1>2. todo[t] # <<>> /\ Now(t).do = "take" /\ StepOK(K, Now(t))
  BY AtIs, HeadIs DEF TakeStep
<1>3. PICK m, s : m = Now(t).c /\ s = Now(t).slave
  OBVIOUS
<1>4. Masters(m, s)
  BY <1>2, <1>3 DEF StepOK
<1>5. m \in Ids /\ s \in Ids /\ H(m) = H(s) /\ MinFrozen(m)
  BY <1>4 DEF Masters
<1>6. PICK new : new = IF word[m] = W("REQUEST_SLAVE", s) THEN W("MERGE", s) ELSE word[m]
  OBVIOUS
<1>7. CASE /\ new.st = "SLAVE_FREEZE" \/ (new = W("MERGE", s) /\ word[s] = W("SLAVE_FREEZE", m))
           /\ word' = [word EXCEPT ![m] = new]
           /\ Then(t, <<>>)
           /\ UNCHANGED <<root, top, chunk, hold, fault>>
  <2>1. word[m] = W("REQUEST_SLAVE", s) => Words' /\ FinalsStay
    <3> SUFFICES ASSUME word[m] = W("REQUEST_SLAVE", s) PROVE Words' /\ FinalsStay
      OBVIOUS
    <3>1. new = W("MERGE", s)
      BY <1>6
    <3>2. word[s] = W("SLAVE_FREEZE", m)
      BY <1>7, <3>1 DEF W
    <3>3. MayWrite(m, new)
      BY <1>5, <3>1, <3>2, MayWriteTogether DEF Together
    <3>4. St(m) \notin Decided
      BY DEF St, W, Decided
    <3> QED
      BY <1>1, <1>5, <1>7, <3>3, <3>4, WriteWords
  <2>2. word[m] # W("REQUEST_SLAVE", s) => Words' /\ FinalsStay
    <3> SUFFICES ASSUME word[m] # W("REQUEST_SLAVE", s) PROVE Words' /\ FinalsStay
      OBVIOUS
    <3>1. word' = [word EXCEPT ![m] = word[m]]
      BY <1>6, <1>7
    <3>2. word \in [Ids -> WordSet]
      BY <1>1 DEF Words, WordType, WordSet, Ids
    <3>3. word' = word
      BY <3>1, <3>2
    <3> QED
      BY <1>1, <1>7, <3>3, WordsQuiet
  <2>3. Words' /\ FinalsStay
    BY <2>1, <2>2
  <2>4. root' \in Ids
    BY <1>1, <1>7 DEF Shape
  <2> QED
    BY <1>2, <1>7, <2>3, <2>4, Good0, EasyIs, StepKeeps DEF During
<1>8. CASE \E what : Fails(t, what)
  BY <1>2, <1>8, FailsKeeps
<1> QED
  BY <1>3, <1>6, <1>7, <1>8 DEF TakeStep

LEMMA RepointKeeps ==
    ASSUME NEW K \in BOOLEAN, TreeInv(K), NEW t \in Thread, RepointStep(t), During(t)
    PROVE  TreeInv(K)' /\ FinalsStay
<1>1. Shape /\ Words
  BY DEF TreeInv
<1>2. todo[t] # <<>> /\ Now(t).do = "repoint" /\ StepOK(K, Now(t))
  BY AtIs, HeadIs DEF RepointStep
<1>3. PICK c \in Ids : c = Now(t).c
  BY <1>2 DEF StepOK
<1>4. PICK n : n = chunk[c].low
  OBVIOUS
<1>5. n \in Ids /\ H(n) = H(c)
  BY <1>1, <1>2, <1>3, <1>4, ChunkTyped DEF StepOK, Related
<1>6. PICK m : m = Bud(n)
  OBVIOUS
<1>7. Then(t, <<>>) /\ UNCHANGED <<root, top, chunk, hold>>
  BY DEF RepointStep
<1>8. CASE St(n) = "SLAVE_FREEZE" /\ Cas(m, W("REQUEST_SLAVE", c), W("REQUEST_SLAVE", n))
  <2>1. m \in Ids /\ H(m) = H(n)
    <3>1. m \in Ids /\ WordOK(n)
      BY <1>1, <1>5, <1>6, <1>8, WordIs DEF Together
    <3> QED
      BY <1>6, <3>1 DEF WordOK, Ids, Null
  <2>2. ASSUME word[m] = W("REQUEST_SLAVE", c)
        PROVE  St(m) \notin Decided /\ MayWrite(m, W("REQUEST_SLAVE", n))
    <3>1. St(m) = "REQUEST_SLAVE" /\ St(m) \notin Decided
      BY <2>2 DEF St, W, Decided
    <3>2. MinFrozen(m)
      BY <1>1, <2>1, <3>1, WordIs DEF WordOK
    <3> QED
      BY <1>5, <2>1, <3>1, <3>2, MayWriteTogether DEF Together
  <2>3. Words' /\ FinalsStay
    BY <1>1, <1>7, <1>8, <2>1, <2>2, CasWords
  <2>4. root' \in Ids
    BY <1>1, <1>7 DEF Shape
  <2> QED
    BY <1>2, <1>7, <2>3, <2>4, Good0, EasyIs, StepKeeps DEF During
<1>9. CASE UNCHANGED word
  <2>1. Words' /\ FinalsStay
    BY <1>1, <1>7, <1>9, WordsQuiet
  <2>2. root' \in Ids
    BY <1>1, <1>7 DEF Shape
  <2> QED
    BY <1>2, <1>7, <2>1, <2>2, Good0, EasyIs, StepKeeps DEF During
<1> QED
  BY <1>3, <1>4, <1>6, <1>8, <1>9 DEF RepointStep

(***************************************************************************)
(* callForUpdate and helpInfant.                                           *)
(***************************************************************************)
\* the new chunks
LEMMA NewsAre ==
    ASSUME Shape, NEW c \in Ids, chunk[c].low # Null
    PROVE  /\ LowNew(c) \in Ids /\ H(LowNew(c)) = H(c)
           /\ HighNew(c) # Null => HighNew(c) \in Ids /\ H(HighNew(c)) = H(c)
           /\ ReplacedByTwo(c) <=> HighNew(c) # Null
           /\ ReplacedByOne(c) <=> HighNew(c) = Null
<1>1. LowNew(c) \in Ids /\ H(LowNew(c)) = H(c)
  BY ChunkTyped DEF LowNew, Related
<1>2. HighNew(c) = chunk[LowNew(c)].next
  BY DEF LowNew, HighNew
<1>3. HighNew(c) # Null => HighNew(c) \in Ids /\ H(HighNew(c)) = H(LowNew(c))
  BY <1>1, <1>2, ChunkTyped DEF Related
<1> QED
  BY <1>1, <1>3 DEF ReplacedByOne, ReplacedByTwo, HighNew

LEMMA GoodReplaceFor ==
    ASSUME NEW K, NEW c \in Ids, NEW new \in Ids, H(new) = H(c) PROVE Good(K, ReplaceFor(c, new))
BY GoodParent DEF ReplaceFor

LEMMA SplitIs ==
    ASSUME Shape, NEW K, NEW c \in Ids, ReplacedByTwo(c), NEW sep
    PROVE  /\ sep \in Key => AllGood(K, SplitSteps(c, sep))
           /\ AllGood(K, Tail(SplitSteps(c, sep)))
<1>1. /\ LowNew(c) \in Ids /\ H(LowNew(c)) = H(c)
      /\ HighNew(c) \in Ids /\ H(HighNew(c)) = H(c)
  BY NewsAre DEF ReplacedByTwo
<1>2. Good(K, ReplaceFor(c, HighNew(c))) /\ Good(K, Normal(LowNew(c))) /\ Good(K, Normal(HighNew(c)))
  BY <1>1, GoodReplaceFor, GoodSimple
<1>3. ASSUME sep \in Key PROVE Good(K, Parent(sep, c, "insert", LowNew(c)))
  BY <1>1, <1>3, GoodParent
<1>4. Tail(SplitSteps(c, sep)) = <<ReplaceFor(c, HighNew(c)), Normal(LowNew(c)), Normal(HighNew(c))>>
  BY DEF SplitSteps
<1>5. AllGood(K, Tail(SplitSteps(c, sep)))
  BY <1>2, <1>4, Good3
<1>6. ASSUME sep \in Key PROVE AllGood(K, SplitSteps(c, sep))
  BY <1>2, <1>3, <1>6, Good4 DEF SplitSteps
<1> QED
  BY <1>5, <1>6

LEMMA PartsAre ==
    ASSUME Words, NEW m \in Ids, St(m) = "MERGE"
    PROVE  /\ LowPart(m) \in Ids /\ H(LowPart(m)) = H(m)
           /\ HighPart(m) \in Ids /\ H(HighPart(m)) = H(m)
<1>1. Bud(m) \in Ids /\ WordOK(m)
  BY WordIs DEF Together
<1>2. H(Bud(m)) = H(m)
  BY <1>1 DEF WordOK, Ids, Null
<1>3. LowPart(m) = m \/ LowPart(m) = Bud(m)
  BY DEF LowPart
<1>4. HighPart(m) = m \/ HighPart(m) = Bud(m)
  BY DEF HighPart
<1> QED
  BY <1>1, <1>2, <1>3, <1>4

LEMMA MergeIs ==
    ASSUME Shape, Words, NEW K, NEW m \in Ids, St(m) = "MERGE", ReplacedByOne(m)
    PROVE  AllGood(K, MergeSteps(m))
<1>1. /\ LowNew(m) \in Ids /\ H(LowNew(m)) = H(m)
      /\ LowPart(m) \in Ids /\ H(LowPart(m)) = H(m) /\ HighPart(m) \in Ids /\ H(HighPart(m)) = H(m)
  BY NewsAre, PartsAre DEF ReplacedByOne
<1>2. Good(K, ReplaceFor(HighPart(m), LowNew(m))) /\ Good(K, Normal(LowNew(m)))
  BY <1>1, GoodReplaceFor, GoodSimple
<1>3. Good(K, Parent(LastKey(chunk[LowPart(m)]), LowPart(m), "unlink", m))
  BY <1>1, GoodParent
<1> QED
  BY <1>2, <1>3, Good3 DEF MergeSteps

LEMMA BorrowIs ==
    ASSUME Shape, Words, NEW K, NEW m \in Ids, St(m) = "MERGE", ReplacedByTwo(m), NEW sep \in Key
    PROVE  AllGood(K, BorrowSteps(m, sep))
<1>1. /\ LowNew(m) \in Ids /\ H(LowNew(m)) = H(m) /\ HighNew(m) \in Ids /\ H(HighNew(m)) = H(m)
      /\ LowPart(m) \in Ids /\ H(LowPart(m)) = H(m) /\ HighPart(m) \in Ids /\ H(HighPart(m)) = H(m)
  BY NewsAre, PartsAre DEF ReplacedByTwo
<1>2. PICK low : low = LowPart(m)
  OBVIOUS
<1>3. PICK son : son = IF LastKey(chunk[low]) < sep THEN HighPart(m) ELSE low
  OBVIOUS
<1>4. son \in Ids /\ H(son) = H(m)
  BY <1>1, <1>2, <1>3
<1>5. Good(K, Parent(sep, son, "insert", LowNew(m)))
  BY <1>1, <1>4, GoodParent
<1>6. Good(K, ReplaceFor(HighPart(m), HighNew(m))) /\ Good(K, Normal(LowNew(m))) /\ Good(K, Normal(HighNew(m)))
  BY <1>1, GoodReplaceFor, GoodSimple
<1>7. Good(K, Parent(LastKey(chunk[low]), low, "delete", Null))
  BY <1>1, <1>2, GoodParent
<1>8. BorrowSteps(m, sep) =
        <<Parent(sep, son, "insert", LowNew(m)), ReplaceFor(HighPart(m), HighNew(m)),
          Parent(LastKey(chunk[low]), low, "delete", Null), Normal(LowNew(m)), Normal(HighNew(m))>>
  BY <1>2, <1>3 DEF BorrowSteps
<1> QED
  BY <1>5, <1>6, <1>7, <1>8, Good5

LEMMA UpdateKeeps ==
    ASSUME NEW K \in BOOLEAN, TreeInv(K), NEW t \in Thread, UpdateStep(t), During(t)
    PROVE  TreeInv(K)' /\ FinalsStay
<1>1. Shape /\ Words
  BY DEF TreeInv
<1>2. todo[t] # <<>> /\ Now(t).do = "update" /\ StepOK(K, Now(t))
  BY AtIs, HeadIs DEF UpdateStep
<1>3. PICK c \in Ids : c = Now(t).c
  BY <1>2 DEF StepOK
<1>4. PICK dec, sep : dec = Now(t).dec /\ sep = Now(t).sep
  OBVIOUS
<1>5. chunk[c].low # Null /\ St(c) = dec /\ sep \in Key /\ WordOK(c)
  BY <1>1, <1>2, <1>3, <1>4, WordIs DEF StepOK
<1>6. /\ LowNew(c) \in Ids /\ H(LowNew(c)) = H(c)
      /\ HighNew(c) # Null => HighNew(c) \in Ids /\ H(HighNew(c)) = H(c)
      /\ ReplacedByTwo(c) <=> HighNew(c) # Null
      /\ ReplacedByOne(c) <=> HighNew(c) = Null
  BY <1>1, <1>5, NewsAre
<1>7. CASE \E what : Fails(t, what)
  BY <1>2, <1>7, FailsKeeps
<1>8. CASE Privately(t, <<SwapRoot(c, LowNew(c)), Normal(LowNew(c))>>)
  <2>1. AllGood(K, <<SwapRoot(c, LowNew(c)), Normal(LowNew(c))>>)
    BY <1>6, GoodRoots, GoodSimple, Good2
  <2> QED
    BY <1>2, <1>8, <2>1, PrivateKeeps
<1>9. CASE Privately(t, <<ReplaceFor(c, LowNew(c)), Normal(LowNew(c))>>)
  <2>1. AllGood(K, <<ReplaceFor(c, LowNew(c)), Normal(LowNew(c))>>)
    BY <1>6, GoodReplaceFor, GoodSimple, Good2
  <2> QED
    BY <1>2, <1>9, <2>1, PrivateKeeps
<1>10. CASE dec = "SPLIT" /\ Privately(t, <<NewRoot(c, sep), Normal(LowNew(c)), Normal(HighNew(c))>>)
  <2>1. ReplacedByTwo(c)
    BY <1>5, <1>10 DEF WordOK
  <2>2. AllGood(K, <<NewRoot(c, sep), Normal(LowNew(c)), Normal(HighNew(c))>>)
    BY <1>5, <1>6, <2>1, GoodNewRoot, GoodSimple, Good3
  <2> QED
    BY <1>2, <1>10, <2>2, PrivateKeeps
<1>11. CASE dec = "SPLIT" /\ Privately(t, SplitSteps(c, sep))
  <2>1. ReplacedByTwo(c)
    BY <1>5, <1>11 DEF WordOK
  <2>2. AllGood(K, SplitSteps(c, sep))
    BY <1>1, <1>5, <2>1, SplitIs
  <2> QED
    BY <1>2, <1>11, <2>2, PrivateKeeps
<1>12. CASE dec = "MERGE" /\ HighNew(c) = Null /\ Privately(t, MergeSteps(c))
  <2>1. AllGood(K, MergeSteps(c))
    BY <1>1, <1>5, <1>6, <1>12, MergeIs
  <2> QED
    BY <1>2, <1>12, <2>1, PrivateKeeps
<1>13. CASE dec = "MERGE" /\ HighNew(c) # Null /\ Privately(t, BorrowSteps(c, sep))
  <2>1. AllGood(K, BorrowSteps(c, sep))
    BY <1>1, <1>5, <1>6, <1>13, BorrowIs
  <2> QED
    BY <1>2, <1>13, <2>1, PrivateKeeps
<1> QED
  BY <1>3, <1>4, <1>7, <1>8, <1>9, <1>10, <1>11, <1>12, <1>13 DEF UpdateStep

\* the first of two new chunks has a last key
LEMMA FirstHasLast ==
    ASSUME NEW K, Shape, Counts(K), NEW c \in Ids, chunk[c].next # Null
    PROVE  LastKey(chunk[c]) \in Key
<1>1. ~chunk[c].root /\ Kept(K, chunk[c])
  BY ChunkTyped DEF Related, Kept
<1>2. chunk[c].cnt >= MinEntries /\ EntrNum(chunk[c]) >= chunk[c].cnt + Cardinality(Owed(c))
  BY <1>1 DEF Counts, Enough, CountsUp
<1>3. chunk[c].cnt \in Int /\ EntrNum(chunk[c]) \in Nat /\ Cardinality(Owed(c)) \in Nat /\ MinEntries >= 1
  BY OwedFinite, ChunkTyped, SizeAssumption
<1>4. EntrNum(chunk[c]) # 0
  BY <1>2, <1>3, SizeAssumption
<1> QED
  BY <1>4, ChunkTyped, LastKeyIs

LEMMA HelpIs ==
    ASSUME NEW K, TreeInv(K), NEW n \in Ids, chunk[n].creator # Null,
           St(chunk[n].creator) \in {"COPY", "SPLIT", "MERGE"}
    PROVE  AllGood(K, HelpSteps(n))
<1>1. Shape /\ Words /\ Counts(K)
  BY DEF TreeInv
<1>2. PICK c : c = chunk[n].creator
  OBVIOUS
<1>3. c \in Ids /\ H(c) = H(n) /\ chunk[c].low # Null
  BY <1>1, <1>2, ChunkTyped DEF Related
<1>4. /\ LowNew(c) \in Ids /\ H(LowNew(c)) = H(c)
      /\ HighNew(c) # Null => HighNew(c) \in Ids /\ H(HighNew(c)) = H(c)
      /\ ReplacedByTwo(c) <=> HighNew(c) # Null
      /\ ReplacedByOne(c) <=> HighNew(c) = Null
  BY <1>1, <1>3, NewsAre
<1>5. WordOK(c)
  BY <1>1, <1>3, WordIs
<1>6. CASE St(c) = "COPY"
  <2>1. HelpSteps(n) = <<Normal(n)>>
    BY <1>2, <1>6 DEF HelpSteps
  <2> QED
    BY <2>1, GoodSimple, Good1
<1>7. CASE St(c) = "SPLIT"
  <2>1. HelpSteps(n) = Tail(SplitSteps(c, Null))
    BY <1>2, <1>7 DEF HelpSteps
  <2>2. ReplacedByTwo(c)
    BY <1>3, <1>5, <1>7 DEF WordOK
  <2> QED
    BY <1>1, <1>3, <2>1, <2>2, SplitIs
<1>8. CASE St(c) = "MERGE"
  <2>1. HelpSteps(n) = IF HighNew(c) = Null THEN MergeSteps(c)
                       ELSE IF St(LowNew(c)) # "INFANT" THEN <<Normal(HighNew(c))>>
                       ELSE BorrowSteps(c, LastKey(chunk[LowNew(c)]))
    BY <1>2, <1>8 DEF HelpSteps
  <2>2. HighNew(c) = Null => AllGood(K, MergeSteps(c))
    BY <1>1, <1>3, <1>4, <1>8, MergeIs
  <2>3. HighNew(c) # Null => AllGood(K, <<Normal(HighNew(c))>>)
    BY <1>4, GoodSimple, Good1
  <2>4. ASSUME HighNew(c) # Null PROVE AllGood(K, BorrowSteps(c, LastKey(chunk[LowNew(c)])))
    <3>1. chunk[LowNew(c)].next # Null
      BY <2>4 DEF HighNew, LowNew
    <3>2. LastKey(chunk[LowNew(c)]) \in Key
      BY <1>1, <1>4, <3>1, FirstHasLast
    <3> QED
      BY <1>1, <1>3, <1>4, <1>8, <2>4, <3>2, BorrowIs
  <2> QED
    BY <2>1, <2>2, <2>3, <2>4
<1> QED
  BY <1>2, <1>6, <1>7, <1>8

LEMMA HelpKeeps ==
    ASSUME NEW K \in BOOLEAN, TreeInv(K), NEW t \in Thread, HelpStep(t), During(t)
    PROVE  TreeInv(K)' /\ FinalsStay
<1>1. todo[t] # <<>> /\ Now(t).do \in {"help", "helpInfant"} /\ StepOK(K, Now(t))
  BY AtIs, HeadIs DEF HelpStep
<1>2. PICK n \in Ids : n = Now(t).c
  BY <1>1 DEF StepOK
<1>3. CASE \E what : Fails(t, what)
  BY <1>1, <1>3, FailsKeeps
<1>4. CASE /\ chunk[n].creator # Null /\ St(chunk[n].creator) \in {"COPY", "SPLIT", "MERGE"}
           /\ Privately(t, HelpSteps(n))
  <2>1. AllGood(K, HelpSteps(n))
    BY <1>4, HelpIs
  <2> QED
    BY <1>1, <1>4, <2>1, PrivateKeeps
<1> QED
  BY <1>2, <1>3, <1>4 DEF HelpStep

LEMMA HelpNotKeeps ==
    ASSUME NEW K \in BOOLEAN, TreeInv(K), NEW t \in Thread, HelpNot(t), During(t)
    PROVE  TreeInv(K)' /\ FinalsStay
<1>1. todo[t] # <<>> /\ Now(t).do = "helpInfant" /\ Privately(t, <<>>)
  BY AtIs DEF HelpNot
<1> QED
  BY <1>1, Good0, PrivateKeeps

(***************************************************************************)
(* findParent and what follows it.                                         *)
(***************************************************************************)
LEMMA NeighbourIs ==
    ASSUME Shape, NEW p \in Ids, NEW cur \in DOMAIN chunk[p].e, Neighbour(p, cur) # Null
    PROVE  Neighbour(p, cur) \in DOMAIN chunk[p].e
<1>1. PICK k : k = chunk[p].e[cur].key
  OBVIOUS
<1>2. k \in Nat /\ k + 1 \in Nat /\ chunk[p] \in ChunkRecord
  BY <1>1, ChunkTyped, EntriesAre
<1>3. Neighbour(p, cur) = IF PrevOf(chunk[p], k) # Null THEN PrevOf(chunk[p], k) ELSE CurOf(chunk[p], k + 1)
  BY <1>1 DEF Neighbour
<1>4. PrevOf(chunk[p], k) # Null => PrevOf(chunk[p], k) \in DOMAIN chunk[p].e
  BY <1>2, PrevIs
<1>5. CurOf(chunk[p], k + 1) # Null => CurOf(chunk[p], k + 1) \in DOMAIN chunk[p].e
  BY <1>2, CurIn
<1> QED
  BY <1>3, <1>4, <1>5

LEMMA FollowIs ==
    ASSUME Shape, NEW K, NEW i, SoughtOK(i), FoundOK(i), Son(i.at, i.slot) = i.son,
           i.then = "enslave" => i.near # Null
    PROVE  AllGood(K, Follow(i))
<1> PICK p, cur : p = i.at /\ cur = i.slot
  OBVIOUS
<1>10. p \in Ids /\ ~Leaf(p) /\ cur \in DOMAIN chunk[p].e
  BY DEF FoundOK, Leaf, H
<1>1. H(p) # 0 /\ H(p) \in Nat /\ H(i.son) = H(p) - 1 /\ i.son \in Ids
  BY <1>10, SonIs DEF Leaf, H
<1>2. PICK k : k = chunk[p].e[cur].key
  OBVIOUS
<1>3. k \in Key
  BY <1>2, <1>10, ChunkTyped, EntriesAre
<1>4. ASSUME i.then \in {"insert", "replace"} PROVE Fits(H(p), i.new)
  <2>1. i.new \in Ids /\ H(i.new) = H(i.son)
    BY <1>4 DEF SoughtOK
  <2> QED
    BY <1>1, <1>10, <2>1 DEF Fits, FitsIn, H, Shape
<1>5. CASE i.then = "insert"
  <2>1. Follow(i) = <<InsertTo(p, i.key, i.new)>>
    BY <1>5 DEF Follow
  <2>2. i.key \in Key
    BY <1>5 DEF SoughtOK
  <2> QED
    BY <1>4, <1>5, <2>1, <2>2, <1>10, GoodInsert, Good1
<1>6. CASE i.then = "replace"
  <2>1. Follow(i) = <<ReplaceIn(p, k, i.son, i.new)>>
    BY <1>2, <1>6 DEF Follow
  <2> QED
    BY <1>1, <1>3, <1>4, <1>6, <2>1, <1>10, GoodReplace, Good1
<1>7. CASE i.then = "delete"
  <2>1. Follow(i) = <<DeleteFrom(p, k, i.son)>>
    BY <1>2, <1>7 DEF Follow
  <2> QED
    BY <1>3, <2>1, <1>10, GoodDelete, Good1
<1>8. CASE i.then = "unlink"
  <2>1. Follow(i) = <<Unlink(p, k, i.son, i.new)>>
    BY <1>2, <1>8 DEF Follow
  <2>2. i.new \in Ids /\ ReplacedByOne(i.new)
    BY <1>8 DEF SoughtOK
  <2> QED
    BY <1>3, <2>1, <2>2, <1>10, GoodUnlink, Good1
<1>9. CASE i.then = "enslave"
  <2>1. Follow(i) = <<Request(i.son, i.new, p, i.near)>>
    BY <1>9 DEF Follow
  <2>2. i.near \in DOMAIN chunk[p].e
    BY <1>9 DEF FoundOK
  <2>3. MinFrozen(i.son)
    BY <1>9 DEF SoughtOK
  <2>4. PICK nb : nb = i.near
    OBVIOUS
  <2>5. H(p) - 1 = H(i.son)
    BY <1>1
  <2>6. Good(K, Request(i.son, i.new, p, nb))
    BY <1>1, <2>2, <2>3, <2>4, <2>5, <1>10, GoodRequest
  <2> QED
    BY <2>1, <2>4, <2>6, Good1
<1> QED
  BY <1>5, <1>6, <1>7, <1>8, <1>9 DEF SoughtOK

LEMMA NoParentKeeps ==
    ASSUME NEW K \in BOOLEAN, TreeInv(K), NEW t \in Thread, At(t, "parent"), NoParent(t), During(t)
    PROVE  TreeInv(K)' /\ FinalsStay
<1>1. todo[t] # <<>> /\ Now(t).do = "parent"
  BY AtIs
<1>2. Privately(t, <<>>) \/ \E what : Fails(t, what)
  BY DEF NoParent
<1> QED
  BY <1>1, <1>2, PrivateKeeps, FailsKeeps, Good0

LEMMA ParentKeeps ==
    ASSUME NEW K \in BOOLEAN, TreeInv(K), NEW t \in Thread, ParentStep(t), During(t)
    PROVE  TreeInv(K)' /\ FinalsStay
<1>1. Shape
  BY DEF TreeInv
<1>2. todo[t] # <<>> /\ Now(t).do = "parent" /\ StepOK(K, Now(t))
  BY AtIs, HeadIs DEF ParentStep
<1>3. PICK i, p, cur : i = Now(t) /\ p = i.at /\ cur = CurOf(chunk[p], i.key)
  OBVIOUS
<1>4. SoughtOK(i) /\ p \in Ids \cup {Null}
  BY <1>2, <1>3 DEF StepOK
<1>5. CASE NoParent(t)
  BY <1>5, NoParentKeeps DEF ParentStep
<1>6. CASE Privately(t, <<SearchIn(root, i)>>)
  <2>1. AllGood(K, <<SearchIn(root, i)>>)
    BY <1>1, <1>4, GoodSearch, Good1 DEF Shape
  <2> QED
    BY <1>2, <1>6, <2>1, PrivateKeeps
<1>7. ASSUME NEW near, near = IF i.then = "enslave" THEN Neighbour(p, cur) ELSE Null,
             p # Null, ~Leaf(p), cur # Null, Privately(t, <<Found(p, i, cur, near)>>)
      PROVE  TreeInv(K)' /\ FinalsStay
  <2>1. p \in Ids /\ H(p) # 0
    BY <1>4, <1>7 DEF Leaf, H
  <2>2. cur \in DOMAIN chunk[p].e
    BY <1>1, <1>3, <1>7, <2>1, CurIn, ChunkTyped
  <2>3. i.then = "enslave" /\ near # Null => near \in DOMAIN chunk[p].e
    BY <1>1, <1>7, <2>1, <2>2, NeighbourIs
  <2>4. AllGood(K, <<Found(p, i, cur, near)>>)
    BY <1>4, <2>1, <2>2, <2>3, GoodFound, Good1
  <2> QED
    BY <1>2, <1>7, <2>4, PrivateKeeps
<1> QED
  BY <1>3, <1>5, <1>6, <1>7 DEF ParentStep

LEMMA FoundKeeps ==
    ASSUME NEW K \in BOOLEAN, TreeInv(K), NEW t \in Thread, FoundStep(t), During(t)
    PROVE  TreeInv(K)' /\ FinalsStay
<1>1. Shape
  BY DEF TreeInv
<1>2. todo[t] # <<>> /\ Now(t).do = "found" /\ StepOK(K, Now(t))
  BY AtIs, HeadIs DEF FoundStep
<1>3. PICK i : i = Now(t)
  OBVIOUS
<1>4. i.do = "found" /\ SoughtOK(i) /\ FoundOK(i)
  BY <1>2, <1>3 DEF StepOK
<1>5. CASE Privately(t, <<[i EXCEPT !.do = "onward"]>>)
  <2>1. AllGood(K, <<[i EXCEPT !.do = "onward"]>>)
    BY <1>4, GoodOnward, Good1
  <2> QED
    BY <1>2, <1>5, <2>1, PrivateKeeps
<1>6. CASE Fails(t, "findParent: neighbour")
  BY <1>2, <1>6, FailsKeeps
<1>7. CASE /\ Son(i.at, i.slot) = i.son /\ (i.then = "enslave" => i.near # Null)
           /\ Privately(t, <<[do |-> "helpInfant", c |-> i.at]>> \o Follow(i))
  <2>1. AllGood(K, Follow(i))
    BY <1>1, <1>4, <1>7, FollowIs
  <2>2. AllGood(K, <<[do |-> "helpInfant", c |-> i.at]>>)
    BY <1>4, GoodSimple, Good1 DEF FoundOK
  <2>3. AllGood(K, <<[do |-> "helpInfant", c |-> i.at]>> \o Follow(i))
    BY <2>1, <2>2, GoodCat
  <2> QED
    BY <1>2, <1>7, <2>3, PrivateKeeps
<1> QED
  BY <1>3, <1>5, <1>6, <1>7 DEF FoundStep

LEMMA OnwardKeeps ==
    ASSUME NEW K \in BOOLEAN, TreeInv(K), NEW t \in Thread, OnwardStep(t), During(t)
    PROVE  TreeInv(K)' /\ FinalsStay
<1>1. Shape
  BY DEF TreeInv
<1>2. todo[t] # <<>> /\ Now(t).do = "onward" /\ StepOK(K, Now(t))
  BY AtIs, HeadIs DEF OnwardStep
<1>3. PICK i : i = Now(t)
  OBVIOUS
<1>4. SoughtOK(i) /\ i.at \in Ids /\ ~Leaf(i.at) /\ i.slot \in DOMAIN chunk[i.at].e
  BY <1>2, <1>3 DEF StepOK, FoundOK, Leaf, H
<1>5. AllGood(K, <<SearchIn(Son(i.at, i.slot), i)>>)
  <2>1. Son(i.at, i.slot) \in Ids
    BY <1>1, <1>4, SonIs
  <2> QED
    BY <1>4, <2>1, GoodSearch, Good1
<1>6. Privately(t, <<SearchIn(Son(i.at, i.slot), i)>>)
  BY <1>3 DEF OnwardStep
<1> QED
  BY <1>2, <1>5, <1>6, PrivateKeeps

LEMMA UnlinkKeeps ==
    ASSUME NEW K \in BOOLEAN, TreeInv(K), NEW t \in Thread, UnlinkStep(t), During(t)
    PROVE  TreeInv(K)' /\ FinalsStay
<1>1. Shape /\ Words
  BY DEF TreeInv
<1>2. todo[t] # <<>> /\ Now(t).do = "unlink" /\ StepOK(K, Now(t))
  BY AtIs, HeadIs DEF UnlinkStep
<1>3. PICK i : i = Now(t)
  OBVIOUS
<1>4. i.c \in Ids /\ i.key \in Key /\ i.master \in Ids /\ ReplacedByOne(i.master)
  BY <1>2, <1>3 DEF StepOK
<1>5. PICK new : new = LowNew(i.master)
  OBVIOUS
<1>6. new \in Ids /\ chunk[new].next = Null
  BY <1>1, <1>4, <1>5, NewsAre DEF ReplacedByOne, LowNew
<1>7. CASE Privately(t, <<DeleteFrom(i.c, i.key, i.low)>>)
  <2>1. AllGood(K, <<DeleteFrom(i.c, i.key, i.low)>>)
    BY <1>4, GoodDelete, Good1
  <2> QED
    BY <1>2, <1>7, <2>1, PrivateKeeps
<1>8. CASE \E what : Fails(t, what)
  BY <1>2, <1>8, FailsKeeps
<1>9. CASE Privately(t, <<SetRoot(i.c, new), SwapRoot(i.c, new)>>)
  <2>1. AllGood(K, <<SetRoot(i.c, new), SwapRoot(i.c, new)>>)
    BY <1>6, GoodRoots, Good2
  <2> QED
    BY <1>2, <1>9, <2>1, PrivateKeeps
<1>10. CASE Privately(t, <<>>)
  BY <1>2, <1>10, PrivateKeeps, Good0
<1> QED
  BY <1>3, <1>5, <1>7, <1>8, <1>9, <1>10 DEF UnlinkStep

(***************************************************************************)
(* The start of the threads, and of each call, and its answer.             *)
(***************************************************************************)
LEMMA StackOnly ==
    ASSUME Shape, Grows, NEW K, Stacks(K), NEW t \in Thread, OnlyOf(t), NEW s, Stack(K, s)', todo'[t] = s
    PROVE  Stacks(K)'
<1>1. ASSUME NEW u \in Thread PROVE Stack(K, todo[u])'
  <2>1. CASE u = t
    BY <2>1
  <2>2. CASE u # t
    <3>1. PICK y : y = todo[u]
      OBVIOUS
    <3>2. Stack(K, y)
      BY <3>1 DEF Stacks
    <3>3. Stack(K, y)'
      BY <3>2, StackStays
    <3>4. todo'[u] = y
      BY <2>2, <3>1 DEF OnlyOf
    <3> QED
      BY <3>3, <3>4
  <2> QED
    BY <2>1, <2>2
<1> QED
  BY <1>1 DEF Stacks, OnlyOf

LEMMA UnchangedKeeps ==
    ASSUME NEW K \in BOOLEAN, TreeInv(K), UNCHANGED <<Shared, todo, hold, left, call>>
    PROVE  TreeInv(K)' /\ FinalsStay
<1>1. Shape /\ Words /\ Stacks(K) /\ Owning /\ Holds /\ Counts(K) /\ Calls
  BY DEF TreeInv
<1>2. UNCHANGED <<root, top, chunk, word, todo, hold, left, call>>
  BY DEF Shared
<1>3. Words' /\ FinalsStay
  BY <1>1, <1>2, WordsQuiet
<1>4. Shape'
  BY <1>1, <1>2, ShapeQuiet DEF Shape
<1>5. Stacks(K)'
  <2>1. Grows
    BY <1>1, <1>2, <1>3, GrowsQuiet
  <2>2. PICK t \in Thread : TRUE
    BY ThreadAssumption
  <2>3. OnlyOf(t)
    BY <1>1, <1>2 DEF OnlyOf, Stacks
  <2>4. PICK s : s = todo[t]
    OBVIOUS
  <2>5. Stack(K, s)'
    BY <1>1, <2>1, <2>4, StackStays DEF Stacks
  <2> QED
    BY <1>1, <1>2, <2>1, <2>3, <2>4, <2>5, StackOnly
<1>6. ASSUME NEW u PROVE /\ Now(u)' = Now(u)
                         /\ At(u, "place")' <=> At(u, "place")
                         /\ At(u, "link")' <=> At(u, "link")
                         /\ At(u, "compare")' <=> At(u, "compare")
                         /\ At(u, "mark")' <=> At(u, "mark")
  BY <1>2 DEF Now, At
<1>7. Owning'
  BY <1>1, <1>2, <1>6 DEF Owning, OwnsSlot, Placing
<1>8. Holds'
  BY <1>1, <1>2, <1>6 DEF Holds, HoldOK
<1>9. Counts(K)'
  <2>1. \A c \in Ids : Owed(c)' \subseteq Owed(c)
    BY <1>6 DEF Owed
  <2> QED
    BY <1>1, <1>2, <2>1, CountsQuiet
<1>10. Calls'
  BY <1>1, <1>2 DEF Calls
<1> QED
  BY <1>3, <1>4, <1>5, <1>7, <1>8, <1>9, <1>10 DEF TreeInv

LEMMA BeginKeeps ==
    ASSUME NEW K \in BOOLEAN, TreeInv(K), NEW t \in Thread, Begin(t) PROVE TreeInv(K)' /\ FinalsStay
BY UnchangedKeeps DEF Begin

LEMMA InvokeKeeps ==
    ASSUME NEW K \in BOOLEAN, TreeInv(K), NEW t \in Thread, Invoke(t) PROVE TreeInv(K)' /\ FinalsStay
<1>1. Shape /\ Words /\ Stacks(K) /\ Calls /\ Holds
  BY DEF TreeInv
<1>2. UNCHANGED <<root, top, chunk, word, hold>> /\ todo[t] = <<>>
  BY DEF Invoke, Shared
<1>3. Words' /\ FinalsStay
  BY <1>1, <1>2, WordsQuiet
<1>4. OnlyOf(t) /\ todo'[t] = <<Descend(root)>>
  BY <1>1 DEF Invoke, OnlyOf, Stacks
<1>5. PICK s : s = <<Descend(root)>>
  OBVIOUS
<1>6. IsSeq(s) /\ Len(s) = 1 /\ s[1] = Descend(root) /\ Head(s) = Descend(root)
  BY <1>5, SeqOf1
<1>7. Descend(root).do = "descend" /\ Descend(root).c \in Ids'
  BY <1>1, <1>2 DEF Descend, Shape, Ids
<1>8. Stack(K, s)'
  <2>1. StepOK(K, s[1])'
    BY <1>6, <1>7 DEF StepOK, Steps
  <2>2. \A i \in 1 .. Len(s) : i = 1
    BY <1>6
  <2>3. \A i \in 2 .. Len(s) : FALSE
    BY <1>6
  <2> QED
    BY <1>6, <1>7, <2>1, <2>2, <2>3 DEF Stack, IsSeq
<1>9. Stacks(K)'
  <2>1. Grows
    BY <1>1, <1>2, <1>3, GrowsQuiet
  <2> QED
    BY <1>1, <1>4, <1>5, <1>8, <2>1, StackOnly
<1>10. Idle(t)'
  BY <1>4, <1>5, <1>6, <1>7 DEF Idle, Now, Plain
<1>11. hold[t] = NoHold
  BY <1>1, <1>2 DEF Holds, HoldOK, At
<1>12. Calls'
  <2>1. left[t] \in Seq(CallRecord) /\ left[t] # <<>> /\ left' = [left EXCEPT ![t] = Tail(left[t])]
    BY <1>1 DEF Calls, Invoke
  <2>2. Head(left[t]) \in CallRecord /\ Tail(left[t]) \in Seq(CallRecord)
    BY <2>1
  <2>3. left' \in [Thread -> Seq(CallRecord)]
    BY <1>1, <2>1, <2>2 DEF Calls
  <2>4. PICK first : first = Head(left[t])
    OBVIOUS
  <2>5. first.kind \in {"search", "insert", "delete"} /\ first.key \in Key
    BY <2>2, <2>4 DEF CallRecord
  <2>6. PICK new : new = [kind |-> first.kind, key |-> first.key, eff |-> FALSE,
                          seen |-> {(first.key \in content)}, res |-> "none"]
    OBVIOUS
  <2>7. call' = [call EXCEPT ![t] = new]
    BY <2>4, <2>6 DEF Invoke, Promise!Invoke
  <2>8. {(first.key \in content)} \in SUBSET BOOLEAN
    OBVIOUS
  <2>9. new \in CallState
    BY <2>5, <2>6, <2>8 DEF CallState
  <2>10. call' \in [Thread -> CallState]
    BY <1>1, <2>7, <2>9 DEF Calls
  <2> QED
    BY <2>3, <2>10 DEF Calls
<1>13. root' \in Ids
  BY <1>1, <1>2 DEF Shape
<1> QED
  BY <1>2, <1>3, <1>4, <1>9, <1>10, <1>11, <1>12, <1>13, QuietKeeps

LEMMA ReturnKeeps ==
    ASSUME NEW K \in BOOLEAN, TreeInv(K), NEW t \in Thread, Return(t) PROVE TreeInv(K)' /\ FinalsStay
<1>1. Shape /\ Words /\ Stacks(K) /\ Calls
  BY DEF TreeInv
<1>2. todo[t] # <<>> /\ Now(t).do = "respond"
  BY AtIs DEF Return
<1>3. UNCHANGED <<root, top, chunk, word, hold, left>> /\ Pushes(t, <<>>)
  BY <1>2 DEF Return, Shared, Pushes, Then
<1>4. Words' /\ FinalsStay
  BY <1>1, <1>3, WordsQuiet
<1>5. Easy(K, <<>>)
  BY Good0, EasyIs
<1>6. IsSeq(<<>>) /\ Top(K, <<>>)
  BY <1>5 DEF Easy, Top
<1>7. OnlyOf(t) /\ Idle(t)'
  BY <1>1, <1>3, <1>5, <1>6, Heads, HeadIdle
<1>8. Stacks(K)'
  <2>1. Grows
    BY <1>1, <1>3, <1>4, GrowsQuiet
  <2> QED
    BY <1>1, <1>2, <1>3, <1>6, <2>1, TopStays, StackPushed
<1>9. Calls'
  <2>1. PICK old : old = call[t]
    OBVIOUS
  <2>2. PICK new : new = [kind |-> "idle", key |-> old.key, eff |-> FALSE, seen |-> {},
                          res |-> IF Now(t).result THEN "TRUE" ELSE "FALSE"]
    OBVIOUS
  <2>3. call' = [call EXCEPT ![t] = new]
    BY <2>1, <2>2 DEF Return
  <2>4. old \in CallState
    BY <1>1, <2>1 DEF Calls
  <2>5. new \in CallState
    BY <2>2, <2>4 DEF CallState
  <2>6. call' \in [Thread -> CallState]
    BY <1>1, <2>3, <2>5 DEF Calls
  <2> QED
    BY <1>1, <1>3, <2>6 DEF Calls
<1>10. hold[t] = NoHold
  BY <1>2, HeadIs
<1>11. root' \in Ids
  BY <1>1, <1>3 DEF Shape
<1> QED
  BY <1>3, <1>4, <1>7, <1>8, <1>9, <1>10, <1>11, QuietKeeps

(***************************************************************************)
(* freezeRecovery: what is built for the chunk that is replaced, which is  *)
(* c itself, or its master.                                                *)
(***************************************************************************)
ReadyFor(K, c, dec, p) ==
    ReplacementOK(K, c, dec, p) /\ FormOK(p) /\ (~p.two => p.sep = MaxKey)

LEMMA OneIs ==
    ASSUME NEW K \in BOOLEAN, NEW c, NEW dec, dec # "SPLIT", NEW p, OneOK(c, p),
           K \/ H(c) = 0 => p.low.root \/ Len(p.low.e) >= MinEntries
    PROVE  ReadyFor(K, c, dec, p)
<1>1. FormOK(p) /\ p.two = FALSE /\ p.sep = MaxKey /\ p.master = Null /\ Built(c, p.low)
  BY DEF OneOK, FormOK
<1>2. NewOK(K \/ H(c) = 0 \/ p.two, c, p.low)
  <2>1. CASE K \/ H(c) = 0
    <3>1. NewOK(TRUE, c, p.low)
      BY <1>1, <2>1, BuiltIs
    <3> QED
      BY <3>1 DEF NewOK
  <2>2. CASE ~(K \/ H(c) = 0)
    BY <1>1, <2>2, BuiltIs DEF NewOK, Built
  <2> QED
    BY <2>1, <2>2
<1>3. MaxKey \in Key
  BY KeysAre
<1> QED
  BY <1>1, <1>2, <1>3 DEF ReadyFor, ReplacementOK

LEMMA TwoIs ==
    ASSUME NEW K \in BOOLEAN, NEW c, NEW dec, dec # "COPY", NEW p, NEW n, PairOK(n, c, p),
           K \/ H(c) = 0 => n # 2
    PROVE  ReadyFor(K, c, dec, p)
<1>1. FormOK(p) /\ p.two = TRUE /\ p.sep \in Key /\ p.master = Null /\ ~p.low.root /\ ~p.high.root
  BY DEF PairOK, FormOK
<1>2. NewOK(K \/ H(c) = 0 \/ p.two, c, p.low)
  BY DEF PairOK, NewOK
<1>3. NewOK(K \/ H(c) = 0, c, p.high)
  BY DEF PairOK, NewOK
<1> QED
  BY <1>1, <1>2, <1>3 DEF ReadyFor, ReplacementOK

LEMMA CopyIs ==
    ASSUME NEW K \in BOOLEAN, Shape, Counts(K), NEW c \in Ids, NEW t \in Thread, NEW partner
    PROVE  ReadyFor(K, c, "COPY", Shifted(CopyOf(chunk[c], c, t), partner))
<1>1. PICK x : x = chunk[c]
  OBVIOUS
<1>2. PICK p : p = CopyOf(x, c, t)
  OBVIOUS
<1>3. PICK low : low = Chunk(ListOf(x), H(c), x.root, c, t)
  OBVIOUS
<1>4. Sound(x) /\ x.height = H(c) /\ x.root \in BOOLEAN
  BY <1>1, ChunkTyped, EntriesAre DEF H
<1>5. ListFor(H(c), ListOf(x)) /\ Len(ListOf(x)) = EntrNum(x)
  BY <1>4, ListOfIs
<1>6. Built(c, low) /\ Len(low.e) = EntrNum(x) /\ low.root = x.root
  BY <1>3, <1>4, <1>5, ChunkIs
<1>7. OneOK(c, p) /\ p.low = low
  BY <1>2, <1>3, <1>4, <1>6 DEF CopyOf, OneOK
<1>8. ASSUME K \/ H(c) = 0, ~x.root PROVE EntrNum(x) >= MinEntries
  <2>1. Kept(K, x)
    BY <1>4, <1>8 DEF Kept
  <2>2. x.cnt >= MinEntries /\ EntrNum(x) >= x.cnt + Cardinality(Owed(c))
    BY <1>1, <1>8, <2>1 DEF Counts, Enough, CountsUp
  <2>3. x.cnt \in Int /\ EntrNum(x) \in Nat /\ Cardinality(Owed(c)) \in Nat
    BY <1>1, ChunkTyped, OwedFinite
  <2> QED
    BY <2>2, <2>3, SizeAssumption
<1>9. ReadyFor(K, c, "COPY", p)
  BY <1>6, <1>7, <1>8, OneIs
<1>10. Shifted(p, partner) = p
  BY <1>7, ShiftedOne
<1> QED
  BY <1>1, <1>2, <1>9, <1>10

LEMMA SplitReady ==
    ASSUME NEW K \in BOOLEAN, Shape, Words, NEW c \in Ids, St(c) = "SPLIT", NEW t \in Thread, NEW partner,
           K => ToMove(TwoOf(ListOf(chunk[c]), chunk[c].height, c, t), partner) # 2
    PROVE  ReadyFor(K, c, "SPLIT", Shifted(TwoOf(ListOf(chunk[c]), chunk[c].height, c, t), partner))
<1>1. PICK x : x = chunk[c]
  OBVIOUS
<1>2. PICK p : p = TwoOf(ListOf(x), H(c), c, t)
  OBVIOUS
<1>3. Sound(x) /\ x.height = H(c)
  BY <1>1, ChunkTyped DEF H
<1>4. ListFor(H(c), ListOf(x)) /\ Len(ListOf(x)) = EntrNum(x) /\ EntrNum(x) >= MaxEntries
  BY <1>1, <1>3, ListOfIs, WordIs DEF WordOK
<1>5. Halves(c, p)
  BY <1>2, <1>4, TwoOfIs
<1>6. PICK n : n = ToMove(p, partner)
  OBVIOUS
<1>7. PairOK(n, c, Shifted(p, partner))
  BY <1>5, <1>6, ShiftedTwo
<1>8. K \/ H(c) = 0 => n # 2
  <2>1. n # 0 => p.low.height # 0
    BY <1>6, ToMoveIs
  <2>2. p.low.height = H(c)
    BY <1>5 DEF Halves, Built
  <2> QED
    BY <1>1, <1>2, <1>3, <1>6, <2>1, <2>2
<1>9. ReadyFor(K, c, "SPLIT", Shifted(p, partner))
  BY <1>7, <1>8, TwoIs
<1> QED
  BY <1>1, <1>2, <1>3, <1>9

\* the partners c and d are merged for their master m
LEMMA MergeReady ==
    ASSUME NEW K \in BOOLEAN, Shape, NEW c \in Ids, NEW d \in Ids, NEW m \in {c, d}, H(c) = H(d),
           EntrNum(chunk[m]) >= MinEntries, NEW t \in Thread, NEW partner,
           K => ToMove(MergeOf(chunk[c], chunk[d], m, t), partner) # 2
    PROVE  ReadyFor(K, m, "MERGE", Shifted(MergeOf(chunk[c], chunk[d], m, t), partner))
<1>1. PICK x, y : x = chunk[c] /\ y = chunk[d]
  OBVIOUS
<1>2. PICK list : list = ListOf(x) \o ListOf(y)
  OBVIOUS
<1>3. PICK p : p = MergeOf(x, y, m, t)
  OBVIOUS
<1>4. Sound(x) /\ x.height = H(m) /\ Sound(y) /\ y.height = H(m) /\ m \in Ids
  BY <1>1, ChunkTyped DEF H
<1>5. /\ ListFor(H(m), ListOf(x)) /\ Len(ListOf(x)) = EntrNum(x)
      /\ ListFor(H(m), ListOf(y)) /\ Len(ListOf(y)) = EntrNum(y)
  BY <1>4, ListOfIs
<1>6. ListFor(H(m), list) /\ Len(list) = EntrNum(x) + EntrNum(y)
  <2>1. PICK a, b : a = ListOf(x) /\ b = ListOf(y)
    OBVIOUS
  <2>2. ListFor(H(m), a \o b) /\ Len(a \o b) = Len(a) + Len(b)
    BY <1>5, <2>1, ListsFor
  <2> QED
    BY <1>2, <1>5, <2>1, <2>2
<1>7. Len(list) >= MinEntries
  <2>1. EntrNum(x) \in Nat /\ EntrNum(y) \in Nat
    BY <1>1, ChunkTyped
  <2>2. EntrNum(x) >= MinEntries \/ EntrNum(y) >= MinEntries
    BY <1>1
  <2> QED
    BY <1>6, <2>1, <2>2, SizeAssumption
<1>8. CASE Len(list) >= MaxEntries
  <2>1. p = TwoOf(list, H(m), m, t)
    BY <1>2, <1>3, <1>4, <1>8 DEF MergeOf
  <2>2. Halves(m, p)
    BY <1>4, <1>6, <1>8, <2>1, TwoOfIs
  <2>3. PICK n : n = ToMove(p, partner)
    OBVIOUS
  <2>4. PairOK(n, m, Shifted(p, partner))
    BY <1>4, <2>2, <2>3, ShiftedTwo
  <2>5. K \/ H(m) = 0 => n # 2
    <3>1. n # 0 => p.low.height # 0
      BY <2>3, ToMoveIs
    <3>2. p.low.height = H(m)
      BY <2>2 DEF Halves, Built
    <3> QED
      BY <1>1, <1>3, <2>3, <3>1, <3>2
  <2>6. ReadyFor(K, m, "MERGE", Shifted(p, partner))
    BY <2>4, <2>5, TwoIs
  <2> QED
    BY <1>1, <1>3, <2>6
<1>9. CASE ~(Len(list) >= MaxEntries)
  <2>1. PICK low : low = Chunk(list, H(m), FALSE, m, t)
    OBVIOUS
  <2>2. Built(m, low) /\ Len(low.e) = Len(list)
    BY <1>4, <1>6, <2>1, ChunkIs
  <2>3. OneOK(m, p) /\ p.low = low
    BY <1>2, <1>3, <1>4, <1>9, <2>1, <2>2 DEF MergeOf, OneOK
  <2>4. ReadyFor(K, m, "MERGE", p)
    BY <1>7, <2>2, <2>3, OneIs
  <2>5. Shifted(p, partner) = p
    BY <2>3, ShiftedOne
  <2> QED
    BY <1>1, <1>3, <2>4, <2>5
<1> QED
  BY <1>8, <1>9

\* the chunk that is replaced
LEMMA MasterIs ==
    ASSUME Words, NEW c \in Ids, NEW dec \in {"COPY", "SPLIT", "MERGE"}, MayBuild(c, dec)
    PROVE  /\ MasterOf(c) \in Ids /\ H(MasterOf(c)) = H(c) /\ St(MasterOf(c)) = dec
           /\ dec # "MERGE" => MasterOf(c) = c
           /\ dec = "MERGE" => /\ Bud(c) \in Ids /\ H(Bud(c)) = H(c)
                               /\ MasterOf(c) \in {c, Bud(c)} /\ EntrNum(chunk[MasterOf(c)]) >= MinEntries
<1>1. CASE St(c) = dec
  <2>1. MasterOf(c) = c
    BY <1>1 DEF MasterOf
  <2>2. ASSUME dec = "MERGE" PROVE Bud(c) \in Ids /\ H(Bud(c)) = H(c) /\ EntrNum(chunk[c]) >= MinEntries
    <3>1. Bud(c) \in Ids /\ WordOK(c)
      BY <1>1, <2>2, WordIs DEF Together
    <3> QED
      BY <1>1, <2>2, <3>1 DEF WordOK, MinFrozen, Ids, Null
  <2> QED
    BY <1>1, <2>1, <2>2
<1>2. CASE dec = "MERGE" /\ St(c) = "SLAVE_FREEZE" /\ Paired(Bud(c), c)
  <2>1. PICK m : m = Bud(c)
    OBVIOUS
  <2>2. MasterOf(c) = m /\ St(m) = "MERGE"
    BY <1>2, <2>1 DEF MasterOf, Paired, St, W
  <2>3. m \in Ids /\ WordOK(c)
    BY <1>2, <2>1, WordIs DEF Together
  <2>4. H(m) = H(c)
    BY <2>1, <2>3 DEF WordOK, Ids, Null
  <2>5. EntrNum(chunk[m]) >= MinEntries
    BY <2>2, <2>3, WordIs DEF WordOK, MinFrozen
  <2> QED
    BY <1>2, <2>1, <2>2, <2>3, <2>4, <2>5
<1> QED
  BY <1>1, <1>2 DEF MayBuild

LEMMA BuildKeeps ==
    ASSUME NEW K \in BOOLEAN, TreeInv(K), NEW t \in Thread, BuildStep(t), During(t), K => NothingLost
    PROVE  TreeInv(K)' /\ FinalsStay
<1>1. Shape /\ Words /\ Counts(K)
  BY DEF TreeInv
<1>2. todo[t] # <<>> /\ Now(t).do = "build" /\ StepOK(K, Now(t))
  BY AtIs, HeadIs DEF BuildStep
<1>3. PICK c \in Ids : c = Now(t).c
  BY <1>2 DEF StepOK
<1>4. PICK dec \in {"COPY", "SPLIT", "MERGE"} : dec = Now(t).dec
  BY <1>2 DEF StepOK
<1>5. PICK w : w = Now(t).w
  OBVIOUS
<1>6. CallOK(H(c), w)
  BY <1>2, <1>3, <1>5 DEF StepOK
<1>7. PICK fit \in BOOLEAN : fit = (chunk[c].height = 0 \/ w.trigger # "INSERT" \/ St(w.data) \in Allowed)
  OBVIOUS
<1>8. PICK p : p = Shifted(Replacement(t, c, dec), Partners)
  OBVIOUS
<1>9. PICK o : o = Perform(p, w, dec, fit)
  OBVIOUS
<1>10. CASE Fails(t, "freezeRecovery")
  BY <1>2, <1>10, FailsKeeps
<1>11. CASE /\ MayBuild(c, dec)
            /\ Privately(t, <<[do |-> "install", c |-> MasterOf(c), w |-> w, dec |-> dec,
                               new |-> o.new, result |-> o.result]>>)
  <2>1. PICK m : m = MasterOf(c)
    OBVIOUS
  <2>2. /\ m \in Ids /\ H(m) = H(c) /\ St(m) = dec
        /\ dec # "MERGE" => m = c
        /\ dec = "MERGE" => /\ Bud(c) \in Ids /\ H(Bud(c)) = H(c)
                            /\ m \in {c, Bud(c)} /\ EntrNum(chunk[m]) >= MinEntries
    BY <1>1, <1>11, <2>1, MasterIs
  <2>3. K => ToMove(Replacement(t, c, dec), Partners) # 2
    <3>1. At(t, "build")
      BY DEF BuildStep
    <3> QED
      BY <1>3, <1>4, <1>11, <3>1 DEF NothingLost
  <2>4. ReadyFor(K, m, dec, p)
    <3>1. dec = "COPY" => ReadyFor(K, m, dec, p)
      BY <1>1, <1>8, <2>2, CopyIs DEF Replacement
    <3>2. dec = "SPLIT" => ReadyFor(K, m, dec, p)
      BY <1>1, <1>8, <2>2, <2>3, SplitReady DEF Replacement
    <3>3. ASSUME dec = "MERGE" PROVE ReadyFor(K, m, dec, p)
      <4>1. PICK a, b : a = LowOf(c, Bud(c)) /\ b = HighOf(c, Bud(c))
        OBVIOUS
      <4>2. a \in Ids /\ b \in Ids /\ m \in {a, b} /\ H(a) = H(b)
        BY <2>2, <3>3, <4>1 DEF LowOf, HighOf
      <4>3. Replacement(t, c, dec) = MergeOf(chunk[a], chunk[b], m, t)
        BY <2>1, <3>3, <4>1 DEF Replacement
      <4> QED
        BY <1>1, <1>8, <2>2, <2>3, <3>3, <4>2, <4>3, MergeReady
    <3> QED
      BY <3>1, <3>2, <3>3
  <2>5. CallOK(H(m), w)
    BY <1>6, <2>2
  <2>6. w.trigger = "INSERT" /\ H(m) = 0 => fit
    BY <1>7, <2>2 DEF H
  <2>7. ReplacementOK(K, m, dec, o.new)
    BY <1>1, <1>9, <2>2, <2>4, <2>5, <2>6, PerformIs DEF ReadyFor
  <2>8. PICK x : x = [do |-> "install", c |-> m, w |-> w, dec |-> dec, new |-> o.new, result |-> o.result]
    OBVIOUS
  <2>9. x.do = "install" /\ x.c = m /\ x.w = w /\ x.dec = dec /\ x.new = o.new
    BY <2>8
  <2>10. Good(K, x)
    BY <2>2, <2>5, <2>7, <2>9 DEF Good, Plain, StepOK, Steps
  <2>11. AllGood(K, <<x>>)
    BY <2>10, Good1
  <2> QED
    BY <1>2, <1>11, <2>1, <2>8, <2>11, PrivateKeeps
<1> QED
  BY <1>3, <1>4, <1>5, <1>7, <1>8, <1>9, <1>10, <1>11 DEF BuildStep
===============================================================================
