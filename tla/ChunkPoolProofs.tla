--------------------------- MODULE ChunkPoolProofs ---------------------------
(***************************************************************************)
(* allocateChunk gives no chunk to two calls and loses no captured bit,    *)
(* for any number of threads, any pool and whatever the flag words hold at *)
(* first.  The two reads of the flag word need not agree; what saves them  *)
(* is that bits are never cleared and that a thread comes to bit k of a    *)
(* word only after all lower bits of it are ON.                            *)
(***************************************************************************)
EXTENDS ChunkPool, TLAPS

Scanning(t) == pc[t] \in {"first", "second", "cas"}

\* the word t scans, as it is now
Here(t) == flags[word[t]]

\* all bits that t has passed in its word are ON
PassedOn(t) == Scanning(t) => \A j \in Bit : j < bit[t] => j \in Here(t)

(***************************************************************************)
(* A word read is a part of the word as it is now; if another bit than the *)
(* one at hand is ON since then, it is a higher one, and so is the one at  *)
(* hand.                                                                   *)
(***************************************************************************)
ReplaceOld(t) ==
    pc[t] \in {"second", "cas"} =>
        /\ bit[t] \in replace[t]
        /\ replace[t] \subseteq Here(t) \cup {bit[t]}
        /\ \A m \in Here(t) \ replace[t] : bit[t] \in Here(t)

ExpectedOld(t) ==
    pc[t] = "cas" =>
        /\ bit[t] \notin expected[t]
        /\ expected[t] \subseteq Here(t)
        /\ \A m \in Here(t) \ expected[t] : bit[t] \in Here(t)

GivenOn == \A i \in Word, k \in Bit : given[i][k] > 0 => k \in flags[i]

PoolInv ==
    /\ TypeOK
    /\ \A t \in Thread : PassedOn(t) /\ ReplaceOld(t) /\ ExpectedOld(t)
    /\ GivenOn
    /\ UniqueAllocation

LEMMA InitPool == Init => PoolInv
<1> SUFFICES ASSUME Init PROVE PoolInv
  OBVIOUS
<1>1. TypeOK
  BY PoolAssumption DEF Init, TypeOK, Label, Word, Bit
<1>2. \A t \in Thread : PassedOn(t) /\ ReplaceOld(t) /\ ExpectedOld(t)
  BY DEF Init, PassedOn, ReplaceOld, ExpectedOld, Scanning
<1>3. GivenOn /\ UniqueAllocation
  BY DEF Init, GivenOn, UniqueAllocation
<1> QED BY <1>1, <1>2, <1>3 DEF PoolInv

(***************************************************************************)
(* A step that leaves the flags alone leaves the other threads alone.      *)
(***************************************************************************)
Others(t) ==
    \A u \in Thread \ {t} :
        /\ pc'[u] = pc[u] /\ word'[u] = word[u] /\ bit'[u] = bit[u]
        /\ replace'[u] = replace[u] /\ expected'[u] = expected[u]

LEMMA SameFlags ==
    ASSUME PoolInv, NEW t \in Thread, Others(t), UNCHANGED <<flags, given>>, TypeOK',
           PassedOn(t)', ReplaceOld(t)', ExpectedOld(t)'
    PROVE  PoolInv'
<1>1. ASSUME NEW u \in Thread, u # t PROVE PassedOn(u)' /\ ReplaceOld(u)' /\ ExpectedOld(u)'
  BY <1>1 DEF PoolInv, Others, PassedOn, ReplaceOld, ExpectedOld, Scanning, Here
<1>2. GivenOn' /\ UniqueAllocation'
  BY DEF PoolInv, GivenOn, UniqueAllocation
<1> QED BY <1>1, <1>2 DEF PoolInv

LEMMA InvokePool == ASSUME PoolInv, NEW t \in Thread, Invoke(t) PROVE PoolInv'
<1>1. PICK s \in 0 .. Words - 1 :
        /\ start' = [start EXCEPT ![t] = s]
        /\ word' = [word EXCEPT ![t] = s + 1]
        /\ bit' = [bit EXCEPT ![t] = 0]
  BY DEF Invoke, FirstBit
<1>2. /\ pc' = [pc EXCEPT ![t] = "first"] /\ todo' = [todo EXCEPT ![t] = @ - 1] /\ todo[t] > 0
      /\ UNCHANGED <<flags, replace, expected, given>>
  BY DEF Invoke
<1>3. TypeOK'
  <2>1. s + 1 \in Word /\ 0 \in Bit
    BY PoolAssumption DEF Word, Bit
  <2>2. todo[t] - 1 \in 0 .. MaxCalls
    BY <1>2, PoolAssumption DEF PoolInv, TypeOK
  <2> QED BY <1>1, <1>2, <2>1, <2>2 DEF PoolInv, TypeOK, Label
<1>4. Others(t)
  BY <1>1, <1>2 DEF PoolInv, TypeOK, Others
<1>5. PassedOn(t)' /\ ReplaceOld(t)' /\ ExpectedOld(t)'
  <2>1. pc'[t] = "first" /\ bit'[t] = 0
    BY <1>1, <1>2 DEF PoolInv, TypeOK
  <2>2. \A j \in Bit : ~(j < 0)
    BY PoolAssumption DEF Bit
  <2> QED BY <2>1, <2>2 DEF PassedOn, ReplaceOld, ExpectedOld
<1> QED BY <1>2, <1>3, <1>4, <1>5, SameFlags

LEMMA ReadReplacePool == ASSUME PoolInv, NEW t \in Thread, ReadReplace(t) PROVE PoolInv'
<1>1. /\ pc[t] = "first" /\ pc' = [pc EXCEPT ![t] = "second"]
      /\ replace' = [replace EXCEPT ![t] = Here(t) \cup {bit[t]}]
      /\ UNCHANGED <<flags, start, word, bit, expected, given, todo>>
  BY DEF ReadReplace, Replace, Here
<1>2. Here(t) \in SUBSET Bit /\ bit[t] \in Bit
  BY DEF PoolInv, TypeOK, Here
<1>3. TypeOK'
  BY <1>1, <1>2 DEF PoolInv, TypeOK, Label
<1>4. Others(t)
  BY <1>1 DEF PoolInv, TypeOK, Others
<1>5. PassedOn(t)' /\ ReplaceOld(t)' /\ ExpectedOld(t)'
  BY <1>1 DEF PoolInv, TypeOK, PassedOn, ReplaceOld, ExpectedOld, Scanning, Here
<1> QED BY <1>1, <1>3, <1>4, <1>5, SameFlags

LEMMA ReadExpectedPool == ASSUME PoolInv, NEW t \in Thread, ReadExpected(t) PROVE PoolInv'
<1>1. /\ pc[t] = "second" /\ pc' = [pc EXCEPT ![t] = "cas"]
      /\ expected' = [expected EXCEPT ![t] = Here(t) \ {bit[t]}]
      /\ UNCHANGED <<flags, start, word, bit, replace, given, todo>>
  BY DEF ReadExpected, Expected, Here
<1>2. Here(t) \in SUBSET Bit
  BY DEF PoolInv, TypeOK, Here
<1>3. TypeOK'
  BY <1>1, <1>2 DEF PoolInv, TypeOK, Label
<1>4. Others(t)
  BY <1>1 DEF PoolInv, TypeOK, Others
<1>5. PassedOn(t)' /\ ReplaceOld(t)' /\ ExpectedOld(t)'
  BY <1>1 DEF PoolInv, TypeOK, PassedOn, ReplaceOld, ExpectedOld, Scanning, Here
<1> QED BY <1>1, <1>3, <1>4, <1>5, SameFlags

(***************************************************************************)
(* A failed compare-and-swap finds the bit ON; a successful one switches   *)
(* that bit ON and changes nothing else.                                   *)
(***************************************************************************)
LEMMA CasFails ==
    ASSUME PoolInv, NEW t \in Thread, pc[t] = "cas", Here(t) # expected[t]
    PROVE  bit[t] \in Here(t)
BY DEF PoolInv, ExpectedOld

LEMMA CasSucceeds ==
    ASSUME PoolInv, NEW t \in Thread, Capture(t)
    PROVE  /\ bit[t] \notin Here(t)
           /\ flags' = [flags EXCEPT ![word[t]] = Here(t) \cup {bit[t]}]
<1>1. Here(t) = expected[t] /\ flags' = [flags EXCEPT ![word[t]] = replace[t]] /\ pc[t] = "cas"
  BY DEF Capture, Here
<1>2. bit[t] \notin Here(t)
  BY <1>1 DEF PoolInv, ExpectedOld
<1>3. replace[t] = Here(t) \cup {bit[t]}
  BY <1>1, <1>2 DEF PoolInv, ReplaceOld
<1> QED BY <1>1, <1>2, <1>3

LEMMA CapturePool == ASSUME PoolInv, NEW t \in Thread, Capture(t) PROVE PoolInv'
<1> DEFINE i == word[t]
           k == bit[t]
<1>1. /\ pc[t] = "cas" /\ pc' = [pc EXCEPT ![t] = "idle"]
      /\ given' = [given EXCEPT ![i][k] = @ + 1]
      /\ UNCHANGED <<start, word, bit, replace, expected, todo>>
  BY DEF Capture
<1>2. k \notin flags[i] /\ flags' = [flags EXCEPT ![i] = @ \cup {k}]
  BY CasSucceeds DEF Here
<1>3. i \in Word /\ k \in Bit
  BY DEF PoolInv, TypeOK
<1>4. TypeOK'
  BY <1>1, <1>2, <1>3 DEF PoolInv, TypeOK, Label
<1>5. \A j \in Bit : j < k => j \in flags[i]
  BY <1>1 DEF PoolInv, PassedOn, Scanning, Here
<1>6. ASSUME NEW u \in Thread, u # t PROVE PassedOn(u)' /\ ReplaceOld(u)' /\ ExpectedOld(u)'
  <2>1. /\ pc'[u] = pc[u] /\ word'[u] = word[u] /\ bit'[u] = bit[u]
        /\ replace'[u] = replace[u] /\ expected'[u] = expected[u]
        /\ bit[u] \in Bit /\ word[u] \in Word
    BY <1>1, <1>6 DEF PoolInv, TypeOK
  <2>2. CASE word[u] # i
    <3>1. Here(u)' = Here(u)
      BY <1>2, <2>1, <2>2 DEF Here, PoolInv, TypeOK
    <3> QED BY <2>1, <3>1 DEF PoolInv, PassedOn, ReplaceOld, ExpectedOld, Scanning
  <2>3. CASE word[u] = i
    <3>1. Here(u)' = Here(u) \cup {k} /\ Here(u) = flags[i]
      BY <1>2, <1>3, <2>1, <2>3 DEF Here, PoolInv, TypeOK
    <3>2. PassedOn(u)'
      BY <2>1, <3>1 DEF PoolInv, PassedOn, Scanning
    <3>3. Scanning(u) => k = bit[u] \/ bit[u] \in flags[i]
      <4>1. Scanning(u) => ~(k < bit[u])
        BY <1>2, <1>3, <3>1 DEF PoolInv, PassedOn
      <4>2. bit[u] < k => bit[u] \in flags[i]
        BY <1>5, <2>1
      <4> QED BY <1>3, <2>1, <4>1, <4>2 DEF Bit
    <3>4. ReplaceOld(u)' /\ ExpectedOld(u)'
      BY <2>1, <3>1, <3>3 DEF PoolInv, ReplaceOld, ExpectedOld, Scanning
    <3> QED BY <3>2, <3>4
  <2> QED BY <2>2, <2>3
<1>7. PassedOn(t)' /\ ReplaceOld(t)' /\ ExpectedOld(t)'
  BY <1>1 DEF PoolInv, TypeOK, PassedOn, ReplaceOld, ExpectedOld, Scanning
<1>8. /\ given'[i][k] = given[i][k] + 1 /\ given[i][k] = 0
      /\ \A j \in Word, m \in Bit : <<j, m>> # <<i, k>> => given'[j][m] = given[j][m]
  <2>1. given[i][k] = 0
    BY <1>2, <1>3 DEF PoolInv, GivenOn, TypeOK
  <2> QED BY <1>1, <1>3, <2>1 DEF PoolInv, TypeOK
<1>9. \A j \in Word : flags[j] \subseteq flags'[j]
  BY <1>2, <1>3 DEF PoolInv, TypeOK
<1>10. k \in flags'[i]
  BY <1>2, <1>3 DEF PoolInv, TypeOK
<1>11. GivenOn'
  BY <1>8, <1>9, <1>10 DEF PoolInv, GivenOn
<1>12. UniqueAllocation'
  BY <1>8 DEF PoolInv, UniqueAllocation
<1> QED BY <1>4, <1>6, <1>7, <1>11, <1>12 DEF PoolInv

LEMMA AdvancePool == ASSUME PoolInv, NEW t \in Thread, Advance(t) PROVE PoolInv'
<1>1. /\ pc[t] = "cas" /\ UNCHANGED <<flags, start, replace, expected, given, todo>>
      /\ bit[t] \in Here(t)
  BY CasFails DEF Advance, Here
<1>2. /\ bit[t] \in Bit /\ word[t] \in Word
      /\ \A j \in Bit : j <= bit[t] => j \in Here(t)
  BY <1>1 DEF PoolInv, TypeOK, PassedOn, Scanning, Bit
<1>3. CASE ~WordDone(bit[t]) /\ bit' = [bit EXCEPT ![t] = bit[t] + 1]
           /\ pc' = [pc EXCEPT ![t] = "first"] /\ UNCHANGED word
  <2>1. bit[t] + 1 \in Bit
    BY <1>2, <1>3, PoolAssumption DEF WordDone, Bit
  <2>2. TypeOK'
    BY <1>1, <1>3, <2>1 DEF PoolInv, TypeOK, Label
  <2>3. Others(t)
    BY <1>1, <1>3 DEF PoolInv, TypeOK, Others
  <2>4. PassedOn(t)' /\ ReplaceOld(t)' /\ ExpectedOld(t)'
    BY <1>1, <1>2, <1>3 DEF PoolInv, TypeOK, PassedOn, ReplaceOld, ExpectedOld, Here, Bit
  <2> QED BY <1>1, <2>2, <2>3, <2>4, SameFlags
<1>4. CASE word' = [word EXCEPT ![t] = NextWord(word[t])] /\ bit' = [bit EXCEPT ![t] = 0]
           /\ pc' = [pc EXCEPT ![t] = "first"]
  <2>1. NextWord(word[t]) \in Word /\ 0 \in Bit
    <3>1. word[t] \in Nat /\ Words \in Nat \ {0}
      BY <1>2, PoolAssumption DEF Word
    <3>2. (word[t] + 1) % Words \in 0 .. Words - 1
      BY <3>1
    <3> QED BY <3>1, <3>2, PoolAssumption DEF NextWord, Word, Bit
  <2>2. TypeOK'
    BY <1>1, <1>4, <2>1 DEF PoolInv, TypeOK, Label
  <2>3. Others(t)
    BY <1>1, <1>4 DEF PoolInv, TypeOK, Others
  <2>4. PassedOn(t)' /\ ReplaceOld(t)' /\ ExpectedOld(t)'
    BY <1>1, <1>4 DEF PoolInv, TypeOK, PassedOn, ReplaceOld, ExpectedOld, Bit
  <2> QED BY <1>1, <2>2, <2>3, <2>4, SameFlags
<1>5. CASE pc' = [pc EXCEPT ![t] = "out"] /\ UNCHANGED <<word, bit>>
  <2>1. TypeOK'
    BY <1>1, <1>5 DEF PoolInv, TypeOK, Label
  <2>2. Others(t)
    BY <1>1, <1>5 DEF PoolInv, TypeOK, Others
  <2>3. PassedOn(t)' /\ ReplaceOld(t)' /\ ExpectedOld(t)'
    BY <1>5 DEF PoolInv, TypeOK, PassedOn, ReplaceOld, ExpectedOld, Scanning
  <2> QED BY <1>1, <2>1, <2>2, <2>3, SameFlags
<1> QED BY <1>3, <1>4, <1>5 DEF Advance, NextBit, FirstBit

LEMMA StutterPool == ASSUME PoolInv, UNCHANGED vars PROVE PoolInv'
<1>1. TypeOK' /\ GivenOn' /\ UniqueAllocation'
  BY DEF vars, PoolInv, TypeOK, GivenOn, UniqueAllocation
<1>2. \A t \in Thread : PassedOn(t)' /\ ReplaceOld(t)' /\ ExpectedOld(t)'
  BY DEF vars, PoolInv, PassedOn, ReplaceOld, ExpectedOld, Scanning, Here
<1> QED BY <1>1, <1>2 DEF PoolInv

LEMMA NextPool == PoolInv /\ [Next]_vars => PoolInv'
BY InvokePool, ReadReplacePool, ReadExpectedPool, CapturePool, AdvancePool, StutterPool
   DEF Next, Step

(***************************************************************************)
(* The invariant: bits are captured in order within a word, and what a     *)
(* thread has read is out of date only by bits it can still notice.        *)
(***************************************************************************)
THEOREM PoolInvariant == Spec => []PoolInv
BY InitPool, NextPool, PTL DEF Spec

(***************************************************************************)
(* allocateChunk returns no chunk twice.                                   *)
(***************************************************************************)
THEOREM AllocationsUnique == Spec => []UniqueAllocation
<1>1. PoolInv => UniqueAllocation
  BY DEF PoolInv
<1> QED BY <1>1, PoolInvariant, PTL

LEMMA FlagsGrow ==
    ASSUME PoolInv, [Next]_vars PROVE \A i \in Word : flags[i] \subseteq flags'[i]
<1>1. CASE UNCHANGED vars
  BY <1>1 DEF vars
<1>2. ASSUME NEW t \in Thread, Invoke(t) \/ Step(t)
      PROVE  \A i \in Word : flags[i] \subseteq flags'[i]
  <2>1. CASE Capture(t)
    <3>1. flags' = [flags EXCEPT ![word[t]] = Here(t) \cup {bit[t]}]
      BY <2>1, CasSucceeds
    <3>2. \A i \in Word : i = word[t] => Here(t) = flags[i]
      BY DEF Here
    <3>3. flags \in [Word -> SUBSET Bit]
      BY DEF PoolInv, TypeOK
    <3> QED BY <3>1, <3>2, <3>3
  <2>2. CASE UNCHANGED flags
    BY <2>2
  <2> QED BY <1>2, <2>1, <2>2 DEF Step, Invoke, ReadReplace, ReadExpected, Advance
<1> QED BY <1>1, <1>2 DEF Next

(***************************************************************************)
(* The compare-and-swap of allocateChunk never switches off a bit that     *)
(* another thread has captured.                                            *)
(***************************************************************************)
THEOREM CaptureLosesNothing == Spec => CapturedKept
<1>1. PoolInv /\ [Next]_vars => [\A i \in Word : flags[i] \subseteq flags'[i]]_vars
  BY FlagsGrow
<1> QED BY <1>1, PoolInvariant, PTL DEF Spec, CapturedKept

(***************************************************************************)
(* Every index that allocateChunk computes is one of the pool, and every   *)
(* thread is at a step of its call.                                        *)
(***************************************************************************)
THEOREM PoolTypeCorrect == Spec => []TypeOK
<1>1. PoolInv => TypeOK
  BY DEF PoolInv
<1> QED BY <1>1, PoolInvariant, PTL
-----------------------------------------------------------------------------
(***************************************************************************)
(* The words a scan from start s has left behind when it is at word w.     *)
(* From the last start it begins in the word beyond the modulus and comes  *)
(* back to word 1: word 0 is left out as well.                             *)
(***************************************************************************)
Last == Words - 1

OnItsWay(s, w) == IF s < Last THEN w # s /\ w <= Last
                              ELSE w = Words \/ (1 <= w /\ w < Last)

LeftBehind(s, w) ==
    IF s < Last
    THEN IF w > s THEN s + 1 .. w - 1 ELSE s + 1 .. Last \cup 0 .. w - 1
    ELSE IF w = Words THEN {} ELSE {Words} \cup 1 .. w - 1

ScanInv(t) ==
    /\ Scanning(t) => /\ OnItsWay(start[t], word[t])
                      /\ \A i \in LeftBehind(start[t], word[t]) : flags[i] = Bit
    /\ pc[t] = "out" => \A i \in Scanned(start[t]) : flags[i] = Bit

LEMMA NextWordIs ==
    ASSUME NEW w \in Word
    PROVE  NextWord(w) = IF w < Last THEN w + 1
                         ELSE IF w = Last \/ Words = 1 THEN 0 ELSE 1
<1> USE PoolAssumption DEF Word, Last, NextWord
<1>1. CASE w < Last
  <2>1. w + 1 \in 0 .. Words - 1
    BY <1>1
  <2> QED BY <1>1, <2>1
<1>2. CASE w = Last
  BY <1>2
<1>3. CASE w = Words /\ Words = 1
  BY <1>3
<1>4. CASE w = Words /\ Words > 1
  <2>1. (w + 1) % Words = 1
    BY <1>4
  <2> QED BY <1>4, <2>1
<1> QED BY <1>1, <1>2, <1>3, <1>4

LEMMA ScanGoesOn ==
    ASSUME NEW s \in 0 .. Last, NEW w \in Word, OnItsWay(s, w)
    PROVE  /\ NextWord(w) # s =>
                /\ OnItsWay(s, NextWord(w))
                /\ LeftBehind(s, NextWord(w)) \subseteq LeftBehind(s, w) \cup {w}
           /\ NextWord(w) = s => Scanned(s) \subseteq LeftBehind(s, w) \cup {w}
BY NextWordIs, PoolAssumption DEF OnItsWay, LeftBehind, Scanned, Last, Word

LEMMA ScannedInWord ==
    ASSUME NEW s \in 0 .. Last, NEW w \in Word, OnItsWay(s, w)
    PROVE  LeftBehind(s, w) \subseteq Word /\ Scanned(s) \subseteq Word
BY PoolAssumption DEF OnItsWay, LeftBehind, Scanned, Last, Word

LEMMA FullStaysFull ==
    ASSUME PoolInv, [Next]_vars, NEW i \in Word, flags[i] = Bit PROVE flags'[i] = Bit
<1>1. flags[i] \subseteq flags'[i]
  BY FlagsGrow
<1>2. flags'[i] \subseteq Bit
  BY NextPool DEF PoolInv, TypeOK
<1> QED BY <1>1, <1>2

\* the word is left only when all its bits are ON
LEMMA WordLeftFull ==
    ASSUME PoolInv, NEW t \in Thread, Advance(t), WordDone(bit[t]) PROVE flags[word[t]] = Bit
<1>1. pc[t] = "cas" /\ bit[t] \in Here(t)
  BY CasFails DEF Advance, Here
<1>2. bit[t] \in Bit /\ Here(t) \subseteq Bit
  BY DEF PoolInv, TypeOK, Here
<1>3. \A j \in Bit : j <= bit[t]
  BY <1>2, PoolAssumption DEF WordDone, Bit
<1>4. \A j \in Bit : j \in Here(t)
  BY <1>1, <1>2, <1>3 DEF PoolInv, PassedOn, Scanning, Bit
<1> QED BY <1>2, <1>4 DEF Here

LEMMA ScanStep ==
    ASSUME PoolInv, NEW t \in Thread, ScanInv(t), [Next]_vars PROVE ScanInv(t)'
<1> DEFINE s == start[t]
           w == word[t]
<1>0. s \in 0 .. Last /\ w \in Word
  BY DEF PoolInv, TypeOK, Last
<1>1. CASE UNCHANGED <<pc[t], start[t], word[t]>>
  <2>1. Scanning(t)' <=> Scanning(t)
    BY <1>1 DEF Scanning
  <2>2. Scanning(t) => \A i \in LeftBehind(s, w) : flags'[i] = Bit
    BY <1>0, ScannedInWord, FullStaysFull DEF ScanInv
  <2>3. pc[t] = "out" => \A i \in Scanned(s) : flags'[i] = Bit
    <3>1. Scanned(s) \subseteq Word
      BY <1>0, PoolAssumption DEF Scanned, Last, Word
    <3> QED BY <3>1, FullStaysFull DEF ScanInv
  <2> QED BY <1>1, <2>1, <2>2, <2>3 DEF ScanInv
<1>2. CASE Invoke(t)
  <2>1. PICK r \in 0 .. Words - 1 : start'[t] = r /\ word'[t] = r + 1
    BY <1>2 DEF Invoke, PoolInv, TypeOK
  <2>2. pc'[t] = "first"
    BY <1>2 DEF Invoke, PoolInv, TypeOK
  <2>3. OnItsWay(r, r + 1) /\ LeftBehind(r, r + 1) = {}
    BY PoolAssumption DEF OnItsWay, LeftBehind, Last
  <2> QED BY <2>1, <2>2, <2>3 DEF ScanInv
<1>3. CASE ReadReplace(t) \/ ReadExpected(t) \/ Capture(t)
  <2>1. start' = start /\ word' = word /\ Scanning(t) /\ pc'[t] \in {"second", "cas", "idle"}
    BY <1>3 DEF ReadReplace, ReadExpected, Capture, Scanning, PoolInv, TypeOK
  <2>2. \A i \in LeftBehind(s, w) : flags'[i] = Bit
    BY <1>0, <2>1, ScannedInWord, FullStaysFull DEF ScanInv
  <2> QED BY <2>1, <2>2 DEF ScanInv
<1>4. CASE Advance(t)
  <2>1. flags' = flags /\ start' = start /\ Scanning(t) /\ OnItsWay(s, w)
    BY <1>4 DEF Advance, Scanning, ScanInv
  <2>2. CASE pc'[t] = "first" /\ word'[t] = w
    BY <2>1, <2>2 DEF ScanInv
  <2>3. CASE WordDone(bit[t]) /\ NextWord(w) # s /\ pc'[t] = "first" /\ word'[t] = NextWord(w)
    BY <1>0, <1>4, <2>1, <2>3, WordLeftFull, ScanGoesOn DEF ScanInv
  <2>4. CASE WordDone(bit[t]) /\ NextWord(w) = s /\ pc'[t] = "out"
    BY <1>0, <1>4, <2>1, <2>4, WordLeftFull, ScanGoesOn DEF ScanInv, Scanning
  <2> QED BY <1>4, <2>2, <2>3, <2>4 DEF Advance, PoolInv, TypeOK
<1>5. ASSUME NEW u \in Thread, u # t, Invoke(u) \/ Step(u)
      PROVE  UNCHANGED <<pc[t], start[t], word[t]>>
  BY <1>5 DEF Invoke, Step, ReadReplace, ReadExpected, Capture, Advance, PoolInv, TypeOK
<1>6. CASE UNCHANGED vars
  BY <1>1, <1>6 DEF vars
<1> QED BY <1>1, <1>2, <1>3, <1>4, <1>5, <1>6 DEF Next, Step

(***************************************************************************)
(* A thread that ends the program for want of memory has found every chunk *)
(* of the words it scanned allocated, whatever the others did meanwhile.   *)
(***************************************************************************)
THEOREM GivesUpOnlyWhenFull == Spec => []ScannedFull
<1> DEFINE Inv == PoolInv /\ \A t \in Thread : ScanInv(t)
<1>1. Init => Inv
  BY InitPool DEF Init, ScanInv, Scanning
<1>2. Inv /\ [Next]_vars => Inv'
  BY NextPool, ScanStep
<1>3. Inv => ScannedFull
  BY DEF ScanInv, ScannedFull
<1> QED BY <1>1, <1>2, <1>3, PTL DEF Spec
===============================================================================
