---------------------------- MODULE MCChunkRebuild ----------------------------
(***************************************************************************)
(* Small instances of ChunkRebuild.  The old chunks hold even keys, so     *)
(* that there is a key between any two, beside and at each of them.        *)
(***************************************************************************)
EXTENDS ChunkRebuild, TLC

CONSTANTS t1, t2

Symmetry == Permutations(Thread)
Threads2 == {t1, t2}

\* runs of even keys: of any length from 2 on and from 4 on, and the last one
EvenLists == {s \in {[i \in 1 .. n |-> 2 * (from + i)] :
                          n \in 0 .. MaxEntries, from \in {0, 1, MaxEntries}} :
                 \A i \in DOMAIN s : s[i] <= MaxKey}

Calls(b) ==
    IF b THEN [trigger : {"INSERT", "DELETE"}, key : {2, 7, 8, 11}]
                    \cup [trigger : {"SWAP", "NONE"}, key : {8}]
    ELSE [trigger : {"INSERT", "DELETE"}, key : {1, 2, 8, 9, 10, 11, 18}]
            \cup [trigger : {"ENSLAVE", "NONE"}, key : {1}]
===============================================================================
