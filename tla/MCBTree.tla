-------------------------------- MODULE MCBTree --------------------------------
(***************************************************************************)
(* Small instances of BTree: trees that are one call away from a change of *)
(* their shape, and what two threads do to them.                           *)
(***************************************************************************)
EXTENDS BTree, TLC

CONSTANTS t1, t2

Threads2 == {t1, t2}
Runner1  == {t1}         \* t2 may stop for ever anywhere in its calls
Runner2  == Threads2

Entries(keys, sons) ==
    [i \in DOMAIN keys |-> [key |-> keys[i], data |-> sons[i], at |-> "linked"]]
LeafOver(keys) == Chunk(Entries(keys, [i \in DOMAIN keys |-> Null]), 0, FALSE, Null, Null)
Over(height, isRoot, keys, sons) == Chunk(Entries(keys, sons), height, isRoot, Null, Null)
AsRoot(x) == [x EXCEPT !.root = TRUE]

\* the chunk after n slots of it have been used and given up
Worn(x, n) == [x EXCEPT !.e = [j \in 1 .. n |-> [key |-> 9, data |-> Null, at |-> "deleted"]] \o @]

Insert(k) == [kind |-> "insert", key |-> k]
Delete(k) == [kind |-> "delete", key |-> k]
Search(k) == [kind |-> "search", key |-> k]

\* t1 makes the calls of one member of A, t2 those of one member of B
Start(tree, A, B) ==
    {[chunk |-> tree, root |-> 1, calls |-> (t1 :> a) @@ (t2 :> b)] : a \in A, b \in B}
Ones(S)  == {<<c>> : c \in S}
Pairs(S) == S \X S
-----------------------------------------------------------------------------
\* n even keys from `from` on
Evens(from, n) == [i \in 1 .. n |-> from + 2 * (i - 1)]

\* two leaves of n and m keys under the root
TwoLeaves(n, m) ==
    <<Over(1, TRUE, <<2 * n, MaxKey>>, <<2, 3>>),
      LeafOver(Evens(2, n)), LeafOver(Evens(2 + 2 * n, m))>>

\* trees over leaves of n[1], n[2], ... keys: 2, 3, 5, 6, 8, 9 ... in order
KeyAt(j) == j + (j + 1) \div 2
Before(n, i) == LET sum[j \in 0 .. i] == IF j = 0 THEN 0 ELSE sum[j - 1] + n[j] IN sum[i - 1]
LeavesOf(n) == [i \in DOMAIN n |-> LeafOver([j \in 1 .. n[i] |-> KeyAt(Before(n, i) + j)])]
LastOf(n, i) == IF i = Len(n) THEN MaxKey ELSE KeyAt(Before(n, i) + n[i])

Height1(n) ==
    <<Over(1, TRUE, [i \in DOMAIN n |-> LastOf(n, i)], [i \in DOMAIN n |-> i + 1])>> \o LeavesOf(n)

\* two inner chunks under the root, the first one over m of the leaves
Height2(n, m) ==
    LET Inner(from, to) ==
          Over(1, FALSE, [i \in 1 .. to - from + 1 |-> LastOf(n, from + i - 1)],
                         [i \in 1 .. to - from + 1 |-> from + i + 2])
    IN  <<Over(2, TRUE, <<LastOf(n, m), MaxKey>>, <<2, 3>>), Inner(1, m), Inner(m + 1, Len(n))>>
        \o LeavesOf(n)
-----------------------------------------------------------------------------
(***************************************************************************)
(* The starts: an empty tree; a full root that is split; two leaves, the   *)
(* left one at the minimum, that are redivided (and the left one may fill  *)
(* meanwhile); a slave that is worn out, and may be copied; a master that  *)
(* is not leftmost, with a neighbour that is about to split.               *)
(***************************************************************************)
EmptyStarts ==
    Start(<<AsRoot(LeafOver(<<>>))>>, Ones({Insert(1)}), Pairs({Insert(1), Delete(1), Search(1)}))
SplitRootStarts ==
    Start(<<AsRoot(LeafOver(Evens(2, MaxEntries)))>>,
          Ones({Insert(1), Insert(21)}), Pairs({Insert(1), Insert(11), Delete(10), Search(1)}))
BorrowStarts ==
    Start(TwoLeaves(2, 8), Ones({Delete(2)}),
          {Insert(1), Search(10)} \X {Insert(9), Delete(10)})
CopyStarts ==
    UNION {Start(<<Over(1, TRUE, <<4, MaxKey>>, <<2, 3>>), LeafOver(<<2, 4>>),
                   Worn(LeafOver(Evens(6, n)), MaxEntries - n)>>,
                 Ones({Delete(2)}), {<<Insert(5), Delete(10)>>, <<Delete(10), Insert(5)>>})
             : n \in {4, 6}}
LeftStarts ==
    Start(<<Over(1, TRUE, <<18, 22, MaxKey>>, <<2, 3, 4>>),
            LeafOver(Evens(2, 9)), LeafOver(<<20, 22>>), LeafOver(<<23, 24>>)>>,
          Ones({Delete(20)}), {<<Insert(1), Insert(3)>>})

\* a full inner root that is split, by a split or a borrow under it
SplitInnerStarts ==
    Start(Height1(<<2, 10, 2, 2, 2, 2, 2, 2, 2, 2>>),
          Ones({Insert(KeyAt(11) - 1)}), Ones({Insert(KeyAt(7) - 1), Delete(KeyAt(28))}))
    \cup
    Start(Height1(<<2, 2, 2, 2, 8, 2, 2, 2, 2, 2>>),
          Ones({Delete(KeyAt(17))}), Ones({Insert(KeyAt(9) - 1), Delete(KeyAt(18))}))

\* two inner chunks that are redivided, because of a merge under the first one
BorrowInnerStarts ==
    Start(Height2(<<2, 3, 2, 2, 2, 2, 2, 2, 2, 2>>, 2),
          Ones({Delete(KeyAt(1))}), Ones({Delete(KeyAt(20)), Insert(KeyAt(9) - 1)}))

StallStarts ==
    EmptyStarts \cup SplitRootStarts \cup BorrowStarts \cup CopyStarts \cup LeftStarts
        \cup SplitInnerStarts \cup BorrowInnerStarts

(***************************************************************************)
(* Two chunks may request each other: the root is merged away; three       *)
(* leaves at the minimum; two inner chunks that are merged.                *)
(***************************************************************************)
MergeRootStarts ==
    Start(TwoLeaves(2, 3), Ones({Delete(2)}), Pairs({Insert(1), Insert(5), Delete(6), Search(2)}))
ThreeLeaves ==
    <<Over(1, TRUE, <<4, 8, MaxKey>>, <<2, 3, 4>>),
      LeafOver(<<2, 4>>), LeafOver(<<6, 8>>), LeafOver(<<10, 12>>)>>
TwoMastersStarts ==
    Start(ThreeLeaves, Ones({Delete(2)}),
          Ones({Delete(6), Delete(10)}) \cup {<<Delete(4), Delete(12)>>})
MergeInnerStarts ==
    Start(Height2(<<2, 3, 2, 2>>, 2), Ones({Delete(KeyAt(1))}),
          {<<Delete(KeyAt(6))>>, <<Search(KeyAt(1)), Search(KeyAt(9))>>})

BothStarts == MergeRootStarts \cup TwoMastersStarts \cup MergeInnerStarts
-----------------------------------------------------------------------------
\* the right neighbour of a leftmost master splits
NeighbourStarts == Start(TwoLeaves(2, 9), Ones({Delete(2)}), {<<Insert(9), Insert(11)>>})

\* the leaf that findLeaf is on its way to is redivided
DescentStarts == Start(TwoLeaves(2, 8), Ones({Delete(2)}), Ones({Insert(9)}))

\* two threads cut the inner root differently, between the partners of a merge under it
SeparatorStarts ==
    Start(Height1(<<2, 2, 2, 2, 10, 2, 2, 2, 2, 2>>),
          Ones({Insert(KeyAt(9) + 1)}), Ones({Delete(KeyAt(20))}))

\* two neighbours request each other, and t2 stops
LivelockStarts == Start(ThreeLeaves, Ones({Delete(2)}), Ones({Delete(6)}))

\* a thread comes back to a request that has been withdrawn
StaleStarts ==
    Start(Height2(<<2, 3, 2, 2>>, 2),
          Ones({Delete(KeyAt(6))}), {<<Delete(KeyAt(1)), Delete(KeyAt(7))>>})
===============================================================================
