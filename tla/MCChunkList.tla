----------------------------- MODULE MCChunkList -----------------------------
(***************************************************************************)
(* Small instances of ChunkList.                                           *)
(***************************************************************************)
EXTENDS ChunkList, TLC

CONSTANTS t1, t2

Calls(kinds, keys) == [kind : kinds, key : keys]

Symmetry == Permutations(Thread)

NoRunner == {}
Threads2 == {t1, t2}

\* inserts, searches and a master that wants the chunk
InsertWork == [t \in Thread |-> Calls({"insert"}, {1, 2}) \cup Calls({"search"}, {2}) \cup Calls({"enslave"}, {1})]
InsertList == <<3>>

\* deletes of neighbouring keys, at the minimum after two of them
DeleteWork == [t \in Thread |-> Calls({"delete"}, {1, 2, 3})
                    \cup IF t = t1 THEN Calls({"search"}, {2}) ELSE Calls({"enslave"}, {1})]
DeleteList == <<1, 2, 3>>

\* a key is inserted only where no key before it is ever deleted
BelowWork == [t \in Thread |-> Calls({"insert"}, {1, 2}) \cup Calls({"delete"}, {2, 3})]
BelowList == <<2, 3>>

\* inserts and deletes of any key
MixedWork == [t \in Thread |-> Calls({"insert", "delete"}, 1 .. MaxKey)]
MixedList == <<1, 3>>

\* t1 is never stalled, t2 may stop anywhere
Runner1  == {t1}
===============================================================================
