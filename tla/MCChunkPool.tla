----------------------------- MODULE MCChunkPool -----------------------------
(***************************************************************************)
(* Small instances of ChunkPool.                                           *)
(***************************************************************************)
EXTENDS ChunkPool, TLC

CONSTANTS t1, t2

Symmetry == Permutations(Thread)
Threads2 == {t1, t2}
Runner1  == {t1}

\* memory that was in use before
Used == {[i \in Word |-> IF i = 0 THEN S ELSE Bit \ S] : S \in SUBSET Bit}
===============================================================================
