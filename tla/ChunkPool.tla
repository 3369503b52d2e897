------------------------------ MODULE ChunkPool ------------------------------
(***************************************************************************)
(* The pool of chunks: allocateChunk (globals.c).  A bit of a flag word    *)
(* stands for a chunk and is ON once the chunk is allocated.  Threads scan *)
(* the words from a random place on and try to capture bits by             *)
(* compare-and-swap; the new value and the expected value come from two    *)
(* separate reads of the word.  Chunks are never given back: clearChunk is *)
(* not called.                                                             *)
(***************************************************************************)
EXTENDS Naturals

CONSTANTS
    Thread,
    Words,       \* numOfFlagWords = MAX_CHUNKS/BITS_IN_WORD - 1
    Bits,        \* BITS_IN_WORD
    InitFlags,   \* what memoryPoolFlags may hold at first: malloc does not tell
    MaxCalls,    \* bound: the number of calls a thread makes
    Runner       \* the threads that are never stalled for ever

Word == 0 .. Words      \* the words of memoryPoolFlags that stand for chunks
Bit  == 0 .. Bits - 1

ASSUME PoolAssumption ==
    /\ Words \in Nat \ {0}
    /\ Bits \in Nat \ {0}
    /\ InitFlags \subseteq [Word -> SUBSET Bit]
    /\ MaxCalls \in Nat
    /\ Runner \subseteq Thread

VARIABLES
    flags,       \* memoryPoolFlags: the set of bits that are ON in each word
    pc,          \* per thread: the next step
    start,       \* per thread: start_pnt
    word, bit,   \* per thread: i and k, the loop variables
    replace,     \* per thread: the new value of the word
    expected,    \* per thread: the expected value of the word
    given,       \* history: how often chunk k of word i has been returned
    todo         \* per thread: the number of calls it may still make

vars == <<flags, pc, start, word, bit, replace, expected, given, todo>>

Label == {"idle", "first", "second", "cas", "out"}

\* assert(FALSE) ends the program: nobody takes another step
Running == \A t \in Thread : pc[t] # "out"

SomewhereBit(s) == s % Bits                               \* a wrong version
FirstBit(s)     == 0

OneFurther(i) == i + 1                                    \* a wrong version
NextWord(i)   == (i + 1) % Words

Invoke(t) ==
    /\ Running /\ pc[t] = "idle" /\ todo[t] > 0
    /\ \E s \in 0 .. Words - 1 :
          /\ start' = [start EXCEPT ![t] = s]
          /\ word' = [word EXCEPT ![t] = s + 1]
          /\ bit' = [bit EXCEPT ![t] = FirstBit(s)]
    /\ pc' = [pc EXCEPT ![t] = "first"]
    /\ todo' = [todo EXCEPT ![t] = @ - 1]
    /\ UNCHANGED <<flags, replace, expected, given>>

\* flags[i] | add_mask
Replace(f, k) == f \cup {k}

ReadReplace(t) ==
    /\ Running /\ pc[t] = "first"
    /\ replace' = [replace EXCEPT ![t] = Replace(flags[word[t]], bit[t])]
    /\ pc' = [pc EXCEPT ![t] = "second"]
    /\ UNCHANGED <<flags, start, word, bit, expected, given, todo>>

\* flags[i] & remove_mask
Unmasked(f, k) == f                                       \* a wrong version
Expected(f, k) == f \ {k}

ReadExpected(t) ==
    /\ Running /\ pc[t] = "second"
    /\ expected' = [expected EXCEPT ![t] = Expected(flags[word[t]], bit[t])]
    /\ pc' = [pc EXCEPT ![t] = "cas"]
    /\ UNCHANGED <<flags, start, word, bit, replace, given, todo>>

(***************************************************************************)
(* The compare-and-swap: the chunk is captured, or the thread goes on with *)
(* the next bit, the next word, or is out of memory.                       *)
(***************************************************************************)
Capture(t) ==
    /\ Running /\ pc[t] = "cas"
    /\ flags[word[t]] = expected[t]
    /\ flags' = [flags EXCEPT ![word[t]] = replace[t]]
    /\ given' = [given EXCEPT ![word[t]][bit[t]] = @ + 1]
    /\ pc' = [pc EXCEPT ![t] = "idle"]
    /\ UNCHANGED <<start, word, bit, replace, expected, todo>>

SameBit(k) == k                                           \* a wrong version
NextBit(k) == k + 1

\* the last bit of the word has been tried
LastButOne(k) == k + 2 >= Bits                            \* a wrong version
WordDone(k)   == k + 1 >= Bits

Advance(t) ==
    /\ Running /\ pc[t] = "cas"
    /\ flags[word[t]] # expected[t]
    /\ \/ /\ ~WordDone(bit[t])
          /\ bit' = [bit EXCEPT ![t] = NextBit(@)]
          /\ pc' = [pc EXCEPT ![t] = "first"]
          /\ UNCHANGED word
       \/ /\ WordDone(bit[t])
          /\ NextWord(word[t]) # start[t]
          /\ word' = [word EXCEPT ![t] = NextWord(@)]
          /\ bit' = [bit EXCEPT ![t] = FirstBit(start[t])]
          /\ pc' = [pc EXCEPT ![t] = "first"]
       \/ /\ WordDone(bit[t])
          /\ NextWord(word[t]) = start[t]
          /\ pc' = [pc EXCEPT ![t] = "out"]
          /\ UNCHANGED <<word, bit>>
    /\ UNCHANGED <<flags, start, replace, expected, given, todo>>

Init ==
    /\ flags \in InitFlags
    /\ pc = [t \in Thread |-> "idle"]
    /\ start = [t \in Thread |-> 0]
    /\ word = [t \in Thread |-> 0]
    /\ bit = [t \in Thread |-> 0]
    /\ replace = [t \in Thread |-> {}]
    /\ expected = [t \in Thread |-> {}]
    /\ given = [i \in Word |-> [k \in Bit |-> 0]]
    /\ todo = [t \in Thread |-> MaxCalls]

\* a step inside a call
Step(t) == ReadReplace(t) \/ ReadExpected(t) \/ Capture(t) \/ Advance(t)

Next == \E t \in Thread : Invoke(t) \/ Step(t)

Spec == Init /\ [][Next]_vars

\* the scheduler runs the threads of Runner again and again
FairSpec == Spec /\ \A t \in Runner : WF_vars(Step(t))
-----------------------------------------------------------------------------
(***************************************************************************)
(* Types: every word scanned is one of the pool ("assert(retval >= 0 &&    *)
(* retval<MAX_CHUNKS)").                                                   *)
(***************************************************************************)
TypeOK ==
    /\ flags \in [Word -> SUBSET Bit]
    /\ pc \in [Thread -> Label]
    /\ start \in [Thread -> 0 .. Words - 1]
    /\ word \in [Thread -> Word]
    /\ bit \in [Thread -> Bit]
    /\ replace \in [Thread -> SUBSET Bit]
    /\ expected \in [Thread -> SUBSET Bit]
    /\ given \in [Word -> [Bit -> Nat]]
    /\ todo \in [Thread -> 0 .. MaxCalls]

(***************************************************************************)
(* No chunk is given to two calls of allocateChunk, although the new value *)
(* of a flag word may be older than the value it replaces.                 *)
(***************************************************************************)
UniqueAllocation == \A i \in Word, k \in Bit : given[i][k] <= 1

(***************************************************************************)
(* A capture switches nothing OFF: what other threads have captured        *)
(* between the two reads of the word stays captured.                       *)
(***************************************************************************)
CapturedKept == [][\A i \in Word : flags[i] \subseteq flags'[i]]_vars

(***************************************************************************)
(* A thread that gives up has found every chunk of the words it scanned    *)
(* allocated: passing a bit because the word changed loses no chunk.       *)
(***************************************************************************)
Scanned(s) ==
    IF s < Words - 1 THEN (0 .. Words - 1) \ {s}
                     ELSE {Words} \cup 1 .. Words - 2

ScannedFull ==
    \A t \in Thread : pc[t] = "out" => \A i \in Scanned(start[t]) : flags[i] = Bit

(***************************************************************************)
(* A thread that keeps running comes to the end of its call, even if all   *)
(* the others stop in the middle of theirs, or the program ends.           *)
(***************************************************************************)
CallEnds == \A t \in Runner : pc[t] # "idle" ~> pc[t] = "idle" \/ ~Running
===============================================================================
