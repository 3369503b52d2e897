------------------------------- MODULE ChunkSet -------------------------------
(***************************************************************************)
(* What one chunk promises to the threads that call searchInChunk,         *)
(* insertToChunk and deleteInChunk on it (lockfreeBtree.h states it for    *)
(* the tree): a set of keys with atomic calls.                             *)
(*                                                                         *)
(* Every call is invoked, takes effect at most once, and responds.  A call *)
(* that changes the set takes effect in one step; a call that does not     *)
(* change it must answer something that was true at some moment between    *)
(* its invocation and its response, which `seen` records.  A call that     *)
(* runs into a frozen chunk leaves with the answer Moved: it is repeated   *)
(* by freezeRecovery in the replacement chunk, so it must not have taken   *)
(* effect here.                                                            *)
(***************************************************************************)
CONSTANTS Thread, Key

VARIABLES
    content,    \* the keys the chunk holds
    call        \* per thread: the call in progress, or the last answer

Kind    == {"search", "insert", "delete", "enslave"}
Answer  == {"none", "TRUE", "FALSE", "moved"}

CallType ==
    [kind : Kind \cup {"idle"}, key : Key,
     eff  : BOOLEAN,            \* the call has changed the set
     seen : SUBSET BOOLEAN,     \* the values key \in content took meanwhile
     res  : Answer]

Active(t) == call[t].kind # "idle"

(***************************************************************************)
(* The calls in progress after the set has become C.                       *)
(***************************************************************************)
Observe(C) ==
    [u \in Thread |->
        IF Active(u) THEN [call[u] EXCEPT !.seen = @ \cup {call[u].key \in C}]
                     ELSE call[u]]

Invoke(t, kind, k) ==
    /\ ~Active(t)
    /\ call' = [call EXCEPT ![t] =
                  [kind |-> kind, key |-> k, eff |-> FALSE,
                   seen |-> {(k \in content)}, res |-> "none"]]
    /\ UNCHANGED content

InsertEffect(t) ==
    /\ call[t].kind = "insert" /\ ~call[t].eff
    /\ call[t].key \notin content
    /\ content' = content \cup {call[t].key}
    /\ call' = [Observe(content') EXCEPT ![t].eff = TRUE]

DeleteEffect(t) ==
    /\ call[t].kind = "delete" /\ ~call[t].eff
    /\ call[t].key \in content
    /\ content' = content \ {call[t].key}
    /\ call' = [Observe(content') EXCEPT ![t].eff = TRUE]

(***************************************************************************)
(* The answers call c may give.                                            *)
(***************************************************************************)
Legal(c) ==
    CASE c.kind = "search"  -> {IF b THEN "TRUE" ELSE "FALSE" : b \in c.seen}
      [] c.kind = "insert"  -> IF c.eff THEN {"TRUE"}
                               ELSE {"moved"} \cup (IF TRUE \in c.seen THEN {"FALSE"} ELSE {})
      [] c.kind = "delete"  -> IF c.eff THEN {"TRUE"}
                               ELSE {"moved"} \cup (IF FALSE \in c.seen THEN {"FALSE"} ELSE {})
      [] c.kind = "enslave" -> {"moved"}

Respond(t) ==
    /\ Active(t)
    /\ \E r \in Legal(call[t]) :
          call' = [call EXCEPT ![t] =
                     [kind |-> "idle", key |-> call[t].key, eff |-> FALSE,
                      seen |-> {}, res |-> r]]
    /\ UNCHANGED content

Init ==
    /\ content \in SUBSET Key
    /\ \E k \in Key :
          call = [t \in Thread |-> [kind |-> "idle", key |-> k, eff |-> FALSE,
                                    seen |-> {}, res |-> "none"]]

Next ==
    \E t \in Thread :
        \/ \E kind \in Kind, k \in Key : Invoke(t, kind, k)
        \/ InsertEffect(t)
        \/ DeleteEffect(t)
        \/ Respond(t)

Spec == Init /\ [][Next]_<<content, call>>
===============================================================================
