# A verification project for the lock-free B+tree

TLA+ models of the lock-free B+tree of this repository, the TLC runs that check
them on small instances, and proofs, checked by TLAPS, of what holds for every
size.  `PROJECT.json` lists the runs, the mutants that show each property can
fail, the lines each definition stands for, the findings, the hazards and the
theorems.

## 1. The system

The tree is made of *chunks*.  A chunk is an array of `MAX_ENTRIES` entries, a
list head, a counter and a few words for its replacement.  An entry is two
words: `keyData` (key, data, frozen bit) and `nextEntry` (index of the successor,
version, deleted bit, frozen bit).  All changes are compare-and-swaps.  A chunk
that is full, or at its minimum, is *frozen*: every word of it gets its frozen
bit, the list is *stabilised*, and the chunk is replaced by a copy, by two
halves, or together with a neighbour by one or two merged chunks.

| component | state | operations | interacts with |
|---|---|---|---|
| chunk list (`chunkAlgorithm.c`, `chunk.c`, `entry.c`) | entries, head, `counter`; per thread `prev`, `cur`, `next` | `searchInChunk`, `insertToChunk`, `deleteInChunk`, `insertEntry`, `find`, `clearEntry`, `replaceInChunk`, `allocateEntry`, `incCount`, `decCount` | other threads on the same words; calls freeze |
| freeze (`chunkAlgorithm.c`, `chunk.c`) | frozen bits, state in `mergeBuddy` | `freeze`, `markChunkFrozen`, `stabilizeChunk`, `freezeDecision` | runs beside the operations of the list; calls the merge protocol and recovery |
| recovery (`chunkAlgorithm.c`, `chunk.c`) | `newChunk`, `nextChunk`, private chunks | `freezeRecovery`, `copyToOneChunk`, `splitIntoTwoChunks`, `mergeTo...`, `shouldMove`, `moveEntryFromFirstToSecond` | takes chunks from the pool, performs the call, updates the tree |
| merge protocol (`treeAlgorithm.c`) | `mergeBuddy` of two neighbours | `findMergeSlave`, `setSlave` | freezes the slave and the parent |
| tree update (`treeAlgorithm.c`) | inner chunks, `btree->root`, INFANT states | `callForUpdate`, `split`, `merge`, `borrow`, `splitRoot`, `mergeRoot`, `helpInfant`, `findParent`, `findLeaf` | list operations on the parent, which may freeze in turn |
| chunk pool (`globals.c`) | `memoryPoolFlags` | `allocateChunk` (`clearChunk` is never called) | recovery, root split |
| reclamation (`chunkAlgorithm.c`, `globals.c`) | hazard pointers, lists of retired entries | `retireEntry`, `handleReclamationBuffer` | would reuse entries; reclaims nothing as written |
| tree interface (`lockfreeBtree.c`) | threads, start barrier | `searchInTree`, `insertToTree`, `deleteFromTree`, `initialize`, `start_routine` | `findLeaf`, then the list operation |
| word packing (`entry.c`) | - | masks and shifts | everything |

What is hard: nothing is ever locked, so every two accesses of one function can
be separated by any number of steps of the others; threads help each other, so
the same insert, stabilisation or recovery is carried out by several threads at
once, some of them late; and a thread may stop for ever anywhere.  What makes
each part correct:

* list: calls are linearizable; the list stays sorted; its counter keeps the
  minimum; nothing that was inserted disappears;
* freeze: the stabilised list does not change any more and is complete; all
  threads take the same recovery decision;
* recovery: exactly one call gets into the replacement; sizes are such that the
  replacement need not be frozen before it is known; losers go on where their
  key is;
* merge protocol: two partners agree who is master and who slave, and no chunk
  has two partners;
* tree update: every key stays reachable from the root while the parent changes;
* pool: no chunk is given out twice.

## 2. The modules

| module | what it is |
|---|---|
| `ChunkSet` | abstract: a set of keys with atomic calls, what a chunk and the whole tree promise |
| `ChunkList` | one leaf chunk, word by word, from NORMAL to the hand-over to recovery |
| `ChunkRebuild` | `freezeRecovery` up to the tree update, down to slots and links |
| `ChunkPool` | `allocateChunk` |
| `MergeWords` | abstract: what the `mergeBuddy` words of all chunks promise each other |
| `StartBarrier` | the barrier at the head of `start_routine` |
| `BTreeChunk` | the chunks of the tree as values: find, replacements, calls in a replacement |
| `BTree` | the composition: the three operations, freeze, merge protocol, recovery and tree update, for any number of threads; implements `ChunkSet` and `MergeWords`, starts with `StartBarrier` |
| `MCChunkList`, `MCChunkRebuild`, `MCChunkPool`, `MCBTree` | instances for TLC |
| `ChunkListProofs` (types, privacy, order), `ChunkListContent` (what the list holds), `ChunkListCalls` (counter, freeze, linearizability), `ChunkRebuildProofs`, `ChunkPoolProofs`, `MergeWordsProofs`, `BTreeInvariant` (the invariant of the tree, lemmas, the steps that change no chunk), `BTreeProofs` (the other steps, the barrier, the theorems about the tree) | the proofs |

`ChunkSet` and `MergeWords` are refined with `INSTANCE ... WITH`: `ImplementsSet`
in `ChunkList` and again in `BTree`, `FollowsProtocol` in `BTree`.  The other
modules fit together by assumption and guarantee.

* `ChunkList` ends where `ChunkRebuild` begins: its `SettledListFixed`,
  `SettledComplete` and `DecisionAgreement` are what `ChunkRebuild` takes for
  granted (the old lists are constants of a behaviour and all threads have the
  same `recov`).
* `BTree` takes for granted that the operations on a leaf are atomic
  (`ImplementsSet` of `ChunkList`, where it holds), that a stabilised list does not
  change, and that the list built for a replacement is the old list (the runs of
  `ChunkRebuild`).
* `ChunkPool` gives what all take for granted of a new chunk: that nobody else
  has it.

### ChunkList

| model | code |
|---|---|
| `next`, `kd` | `nextEntry` of the head and the entries, `keyData` of the entries |
| `counter`, `fstate` | `counter`, the state bits of `mergeBuddy` |
| `tg` | `prev`, `cur`, `next` of `ThreadGlobals` |
| `my` | the locals of the functions on the thread's stack: the allocated entry, the loop variable of `allocateEntry` / `stabilizeChunk`, `savedNext` / `clearedNext`, where `find` returns to, trigger and decision of the freeze |
| `FindHead`, `FindNext`, `FindUnlink` | `find` |
| `Allocate`, `InsertFrom`, `InsertFound`, `InsertLink`, `InsertCount` | `insertToChunk`, `allocateEntry`, `insertEntry`, `incCount` |
| `ClearNext`, `ClearKey`, `ClearHelp`, `ClearFound` | `clearEntry` |
| `DeleteCount` ... `DeleteFixed` | `deleteInChunk`, `decCount` |
| `FreezeStart`, `FreezeSwitch`, `MarkFrozen`, `MarkedAll`, `Stabilize*`, `Decide`, `Recover` | `freeze`, `markChunkFrozen`, `stabilizeChunk`, `freezeDecision` |
| `Enslave`, `PartnerResolves` | what `setSlave` and `findMergeSlave`, run for or by a neighbour, do to this chunk |
| `content`, `call`, `settled` | history: the abstract set, the calls, whether somebody has finished `stabilizeChunk` |

An action is one access to shared memory that others can disturb.  Accesses are
fused only where no interleaving is lost: a validated read with its validation,
a compare-and-swap loop with its last round, a word that is already frozen with
the next one.  Each fusion is named at its action.

Taken as given, and why: memory is sequentially consistent (all writes are
`g_atomic_pointer_compare_and_exchange`, reads are aligned words on x86);
versions are unbounded (52 bits); entries are never reused after they were
linked (the reclamation loop does not run, see `chunkAlgorithm.c:731`), but an
entry whose insert found its key is; the data of an entry travels with its key in the same
word and is left out; the identity of a master is left out, two masters that
want the same slave differ only in which of them goes on in its own chunk; a
thread that finds the chunk in REQUEST_SLAVE goes to recovery without the second
`markChunkFrozen` and `stabilizeChunk` of the fall-through, which find nothing to
do; `assert` is in effect, a failed one stops the thread (`fault`).

`ChunkSet` is refined directly: `content` and `call` are kept as history in
`ChunkList`, and an insert takes effect where its entry is linked, by whoever
links it, a delete where its entry is marked.  Calls that change nothing must
give an answer that was right at some moment of the call.  A call that is handed
over to recovery ("moved") must not have taken effect.

### ChunkPool

`flags[i]` is the set of bits that are on in word `i`; `ReadReplace`,
`ReadExpected` and `Capture`/`Advance` are the two reads and the compare-and-swap
of the loop body.  Compilers may merge the two reads, which gives a subset of the
behaviours.  `InitFlags` is what `malloc` may have left in the words, since
`initialize` does not clear them.  A failed `assert(FALSE)` ends the program
(`Running`).

### ChunkRebuild

The old list or lists, the recovery decision and the calls are chosen in `Init`
the way `freezeDecision` and the merge protocol hand them over.  `Build` is the
first half of `freezeRecovery` (`CopyEntries` is `copyEntriesArray` down to slots
and links, since the connecting of edges and the moving of entries are about
links), `Perform` the call in the private replacement, `Install` the
compare-and-swap of `newChunk` and the choice of `retChunk`, `Repoint` the last
compare-and-swap before `callForUpdate`.  The words of the sons that `shouldMove`
reads belong to other components and may be anything; the answers of the data
comparisons of inner chunks likewise.

### BTreeChunk and BTree

| model | code |
|---|---|
| `chunk[c]`: `e`, `cnt`, `height`, `root`, `frozen`, `low`, `next`, `creator` | `Chunk`: `entriesArray` with the list through it, `counter`, `height`, `root`, the frozen bits, `newChunk`, `nextChunk`, `creator` |
| `word[c]` | `mergeBuddy`: state and partner |
| `root`, `top` | `btree->root`; how far the chunk pool has been used |
| `todo[t]` | the stack of thread `t`: the step it does next, then what is left of the functions that called it |
| `hold[t]` | the word that `tg` or a local remembers for the next compare-and-swap |
| `place`, `waiting`, `left[t]` | the barrier; the thread's array of `Input` |
| `content`, `call`; `misled` | history, for `ChunkSet`; the keys that `findLeaf` was led astray for |
| `DescendStep`, `OntoStep` | `findLeaf`: in each chunk the entry is found, then its son read |
| `ParentStep`, `FoundStep`, `OnwardStep` | `findParent`: in each chunk the entry is found, its son compared, and the son read again to go on |
| `InsertStep`, `PlaceStep`, `LinkStep` | `insertToChunk`, `insertEntry` |
| `DeleteStep`, `CompareStep`, `MarkStep`; `ReplaceStep`, `SwapStep` | `deleteInChunk`; `replaceInChunk` |
| `FreezeStep`, `SettleStep`, `DecideStep`, `PairStep` | `freeze`, `markChunkFrozen`, `stabilizeChunk`, `freezeDecision` |
| `RequestStep`, `CheckStep`, `TakeStep`; `SetSlaveStep`, `LookStep`, `YieldStep` | `findMergeSlave`; `setSlave` |
| `BuildStep`, `InstallStep`, `RepointStep` | `freezeRecovery` |
| `UpdateStep` with `SplitSteps`, `MergeSteps`, `BorrowSteps`; `HelpStep`; `NormalStep` | `callForUpdate`, `split`, `merge`, `borrow`; `helpInfant`; the compare-and-swap from INFANT to NORMAL |
| `UnlinkStep`, `SetRootStep`, `SwapRootStep`; `NewRootStep` | `mergeRoot`; `splitRoot` with `addRootSons` |

A function that calls others is the sequence of steps it puts on `todo`: `split`,
for instance, is `Parent(insert)`, `Parent(replace)`, `Normal`, `Normal`, and each
`Parent` is replaced, chunk by chunk, by the operation on the parent that it has found, which may
put a freeze of that parent, with all that follows, in front of the rest.  So the
recursion of the code (freeze - recovery - update - insert - freeze) needs no
recursion in the model.

What one step fuses, and why that loses nothing the properties are about: the root
is read in the step that starts the call, or together with the root flag in
`findParent` (the flag of a chunk is never taken back, so that one that is missing at
the second read was missing at the first; and a call that seems to start only when the
root is read has less time in which its answer may be right); an operation on a leaf is one step, because `ChunkList` is about its interleavings; a
walk through a list is one step, for the same reason; marking all words of a
chunk as frozen is one step; `freeze` switches on the state in the step of its
first compare-and-swap; the last compare-and-swap of `findMergeSlave` and the read
of the word behind it are one step; a replacement is built, and the call performed
in it, in one step, since nobody else knows it, except that the words of the sons,
which it reads, are read at that moment; `mergeRoot` reads the two entries of the
root in one step.  An operation on an inner chunk is *not* one step: an insert
allocates, finds its place and checks its son, and links (3 steps), a delete
counts, finds and compares, and marks (3), a swap finds and swaps (2), since here
late threads of different updates meet; nor is a step of a descent, which finds an
entry first and reads its son later.  The neighbour that `findParent` hands to
`findMergeSlave` is the one that find saw (`near`), its son is read later still
(`RequestStep`).  Versions of words are the resetting of
`hold` by `Touch`.

`LeafIn` follows at most three chunks, which is the height of the trees here.
Keys of inner chunks, recovery decisions and separators are all computed as in the
code; chunk numbers are given out in order (any free chunk will do), and chunks are never
freed (`clearChunk` is never called).  The assertions kept are those on the freeze
states, on missing sons, neighbours and creators, and on infants; a failed one is
`fault` and ends the program.

History: a key that comes into the tree (reachable from the root) is the effect of
the insert whose entry it is, a key that goes is the effect of the thread that
built the leaf, or changed it.  The effect of a call performed in a replacement is
thus not at the installation of the replacement but at the step that makes it
reachable, by whichever thread.

### MergeWords

One action per successful compare-and-swap of a `mergeBuddy` word, by any thread,
whenever the word is what the compare-and-swap compares it with.  A thread may come
with a partner that it looked up long before, so `Request` and `Enslave` take any
chunk in use: a master may ask for another slave although one serves it already, and a
slave may be frozen for a master that has gone elsewhere (`tree_stale`).  The master that
`freezeRecovery` points to the copy of its slave requests just another one.  Only `Take`
looks at a second word, as the code does: the slave has been set, by the same thread or
as `freeze` finds it, before the master is taken to MERGE.  What is left of the
agreement of two partners is `PartnersAgree`, and that it survives all this is proved
for any number of chunks.  That the code makes no other changes of these words is
`FollowsProtocol`, checked on instances and proved for all (section 4).

### StartBarrier

The code between lock and unlock is one step, two around `g_cond_wait`, which is
assumed to return only after the broadcast.

## 3. The runs

Properties marked (x) are stated so that the run must find them violated.

| run | instance | properties |
|---|---|---|
| `list_insert` | 2 threads, 2 calls each; inserts of 1 and 2, search, enslave; one key at first | `ListSorted`, `ImplementsSet`, `SettledListFixed` |
| `list_delete` | 2 threads, 2 calls each; deletes of all three keys of a full chunk, one thread searches, the other enslaves and may stop for ever | `TypeOK`, `MinimumKept`, `DecisionAgreement`, `CallsAnswered` |
| `list_below` | a root chunk; inserts of 1 and 2, deletes of 2 and 3 | `ListIsContent`, `SettledComplete`, `CounterExact`, `NeverInsertDeleted` |
| `list_lost` | one insert and one delete | `InsertedKeysFound` (x) |
| `pool_used` | 2 threads, 3 calls each, 4 words of 2 bits (`Words` = 3), partly set; one thread runs, one may stop for ever | `TypeOK`, `ScannedFull`, `UniqueAllocation`, `CallEnds` |
| `rebuild` | 2 threads, `MIN` 1, `MAX` 8, leaves and inner chunks of all sizes, copies, splits and merges | `TypeOK`, `RoomForTheCall`, `OneCallInstalled`, `AnswerIsRight`, `CountersRight`, `SentToItsHalf`, `Divided` |
| `tree_stall` | 2 threads through the barrier, `MIN` 2, `MAX` 10, seven kinds of trees; one thread runs, one may stop for ever | `TypeOK`, `MovesSafe` (`FitsArray` and `NothingLost`), `Balanced`, `KeysInPlace`, `RestsClean`, `MergesNeighbours`, `StartTogether`, `SetUnlessMisled`, `CallsAnswered`, `FrozenStays` |
| `tree_both` | the same where two chunks may request each other; both threads run | `NoFault`, `MinimumInTree`, `RestsClean`, `PartnersAgree`, `ImplementsSet`, `FollowsProtocol`, `CallsAnswered`, `DecisionsStay` |
| `tree_descent` | an insert beside a redivision | `InsertsArrive` (x) |
| `tree_separator` | two updates under a full inner root | `KeysStay` (x) |
| `tree_livelock` | three leaves at the minimum, one thread may stop | `CallsAnswered` (x) |
| `tree_stale` | two inner chunks, a master that changes its mind | `NoFault` (x) |

Of the chunk list a property that is proved (section 4) is checked in one run, the one
where it is most at risk, although the other list runs would pass with it too.
That captured bits stay ON (`CapturedKept` of the pool) is proved only.

**Bounds.**  The program insists on `MAX_ENTRIES >= 2*MIN_ENTRIES + 6`
(`main_test.c:31`).  That inequality is about the sizes of replacements, and the
runs of `ChunkRebuild` and `BTree` meet it with equality.  `BTree` has `MIN` 2,
since with 1 an inner chunk would be left with a single son, which has no
neighbour to merge with; in `ChunkRebuild`, where sons do not matter, `MIN` is 1.
Within one chunk only the two limits themselves matter, and the passing runs of
`ChunkList` use `MIN` 1 and `MAX` 3 so that both are reached within four calls:
full, by linked and by unlinked entries; at the minimum; and anything between.
With three slots, an insert can land before, between and behind the others, and an
entry can be marked, passed over, and stabilised on either side of another one.
Four calls by two threads are enough for a delete to meet an insert that meets a
freeze started by a third call.  `ListIsContent` fails where a key is inserted
right behind one being deleted, which is the finding of `list_lost`; `list_below`
therefore inserts only where no key before the place of insertion is deleted, and
checks everything that holds there.  It is a root, the chunk that may be emptied;
`list_delete` is not, and stops at its minimum.  In the pool `Words` is the modulus
of the scan, and there is one word more.  With 4 words of 2 bits a thread can come
to a word by its own start or from the word before, which a smaller pool does not
show; next bit, next word and wrap-around all happen.

The tree runs start from trees that are one call away from a change of shape, and
let two threads, with one or two calls each, meet in it.  `StallStarts`: an empty
tree; a full leaf as root; two leaves that are redivided, one of which may fill
meanwhile; a slave whose slots are used up, so that it is being copied when it is
wanted; a master in the middle, whose left neighbour splits; a full inner root,
split by a split or a redivision below it; two inner chunks that are redivided.
`BothStarts`: a root that is merged away; three leaves at the minimum; two inner
chunks that are merged because of a merge below.  Between them every branch of
every step of `BTree` is taken but the failing assertions.  Keys are the numbers
up to 44, enough for the largest tree and for free keys in its leaves;
`MaxChunks` is never reached.  Two inner levels need no
larger trees: an inner chunk's father is treated like its son's.

*What the passing runs leave out* is what the findings are about.  An insert right
behind a key being deleted (`list_lost`) happens inside a leaf, whose operations are
steps.  Five faults are in `BTree`.  Four of them do not happen from the starts of the
passing runs: a leftmost master whose right neighbour splits (`NeighbourStarts`); two
updates below a full inner root with a merge request at the median (`tree_separator`);
mutual requests with a thread that stops (`tree_livelock`: in `tree_both` both threads
run); a thread that sleeps through a whole merge of its master (`tree_stale`).  The
fifth, a son read too late by `findLeaf` (`tree_descent`), happens wherever a search,
insert or delete runs beside a split or a redivision, and so in `tree_stall` as well.
There the two properties it breaks make an exception for it: `misled` collects the keys
of the calls that have found an entry whose son is then replaced although another entry
has become the one for the key.  `SetUnlessMisled` allows a call for such a key a wrong
answer, and demands everything else of `ImplementsSet`: right answers of all other calls,
and no change of the set but by the one call that made it.  `KeysInPlace` allows a key of
`misled` to lie in the wrong leaf.  In `tree_both` chunks are merged, and a late son
is harmless: the son that is replaced or whose entry goes is frozen, so that a change is
sent on to the merged chunk, and a search finds in it the keys as they were during the
call; `ImplementsSet` is checked there without exception.

**Fairness.**  `FairSpec` is weak fairness of the steps of the threads in
`Runner` only: the operating system runs them again and again.  Nothing is
assumed of the others, which may be preempted for ever inside a call, and
nothing makes a thread start a call in `ChunkList`.  This is what a lock-free
structure promises to live with.  `CallsAnswered` is stated for bounded numbers of
calls of the others: in unbounded interference only *some* thread makes progress.
In `BTree` the weak fairness is written out (`[]<>~Able(t) \/ []<><<...>>`), which
TLC checks faster than `WF_vars(Step(t))` and which means the same, since a thread
is enabled when it has something to do and its steps are those that change its
`todo`.  The barrier is the one place where a thread waits for another by design:
all threads are assumed to come to it.

**Deadlock** is checked in the list and tree runs (`AllDone` is the one step of a
program that has finished).  The pool and the rebuilding stop when their calls are
done.

### Findings

* `list_lost` - a key whose insert has answered TRUE is lost
  (`chunkAlgorithm.c:163`).
* `tree_descent` - an insert that reads the son of an entry after a redivision puts its
  key into a leaf where nobody looks for it, and answers TRUE (`treeAlgorithm.c:92`).
* `tree_separator` - the loser of a recovery updates the tree with a separator
  that is not that of the installed chunks (`chunkAlgorithm.c:653`).
* `tree_livelock` - two chunks that request each other can keep a thread busy for
  ever while another one is stopped (`treeAlgorithm.c:280`).
* `tree_stale` - a chunk is enslaved to a master that has merged with another one
  (`treeAlgorithm.c:241`).

Four more disagreements are in the models but not kept as runs: a merge with a chunk that
is no neighbour any more, because the son of the neighbour's entry is read after a split
has changed it, loses the keys of the master, which are looked for in the chunk between
the two once its entry is gone (`treeAlgorithm.c:191`: from `NeighbourStarts` of `MCBTree`
`KeysStay` does not hold, and neither does `MergesNeighbours`); `clearEntry`
passes NULL to `getKey` when the list of a root has become empty
(`chunkAlgorithm.c:773`); the pool reports "out of memory" with free chunks left,
as the scan never looks at the word it starts at (`globals.c:94`); the first of two
entries moved over the cut of an inner chunk is lost (`chunk.c:639`: the second one
is linked before slot 0 like the first), for which `shouldMove` must answer 2.
`NothingLost` says that it never does; the histories of `tree_stall` do not make it
do so, whether others could is open, and it is a hypothesis of one theorem below.

## 4. The proofs

All theorems hold for every value of the constants that meets the named
assumptions.

**Chunk list** (`ChunkListProofs`), from `SizeAssumption`, `InitListAssumption`
and `WorkAssumption` of `ChunkList`:

* `TypeInvariant` and `TypeCorrect == Spec => []TypeOK`.

`TypeOK` is not inductive: that `kd[e].key` is a key wherever `insertEntry` looks
one up, that the index `cur` is an entry where it is used, that a thread in
`stabilizeChunk` has a slot to go on with, all rest on what the thread did
before.  `TypeInv` adds it as four conjuncts per thread: `IdleInv` (an idle thread
holds nothing), `FindInv` (find has somewhere to return to and, where it looks at
an entry, there is one), `OwnInv` (an insert that holds an entry holds one with
its key), `StableInv` (in `stabilizeChunk` every word of the chunk is frozen and
the chosen slot has a key), and `OwnDistinct` (no two inserts hold the same
entry).  The proof has a lemma per action for the acting thread and two lemmas
(`OtherThread` and its companions) for the others: a step that keeps the words
and keys another thread uses keeps what it relies on.

* `DeletedNeverInserted == Spec => []NeverInsertDeleted`, `PrivacyInvariant`.

An entry is *private* while it is free or its insert has not linked it.
`PrivacyInv` says that as long as some word of the chunk is not frozen, no
`nextEntry` word and no word a thread has read leads to a private entry
(`HiddenInv`), so that no delete can have found it, and that it is not marked
(`UnmarkedInv`).  Once all words are frozen, `stabilizeChunk` may link entries
that are still private; then the mark itself is impossible, because
`deleteInChunk` compares with a word without the frozen bit (`SavedInv`), and what
`stabilizeChunk` has chosen stays unmarked (`ChosenInv`).  One lemma
(`EffectKeeps`) says which effects of a step keep all this; one lemma per action
shows that it has only such effects.

* `AlwaysSorted == Spec => []ListSorted`, `OrderInvariant`.

`ListSorted` is about every word, not only those met on a walk from the head: the
entry it leads to has a larger key.  So it needs no induction over the list, and it
says more: a thread that stands on an entry disconnected long ago walks up as well.
It is not inductive, because links are made from words that have grown old:
`deleteInChunk` redirects `prev` to the successor that find read before the mark,
and `insertEntry` points the predecessor at an entry whose own word was set before.
What does not grow old is the order of the keys: by `PrivacyInv` the key of an entry
somebody may know never changes.  `OrderInv` adds to `ListSorted`, for each thread,
that the place it has reached ascends (`Between`), that the entry it inserts belongs
there (`Placed`) and that the entry it frees leads nowhere (`Cleared`); and, for the
entries, that a free one leads nowhere (`FreeEnds`) and that a known one has a key
(`RefsTaken`).  The other threads keep their place because the keys they compared stay
(`KnownBelow`, `OthersOrdered`); the steps that redirect a word share
`RedirectKeepsOrder`.

* `ContentFound == ASSUME InsertsBelow PROVE Spec => []ListIsContent`,
  `ListInvariant` (`ChunkListContent`).

`InsertsBelow` restricts the workload: no key is inserted that is larger than a key
some call deletes.  Inserts alone, deletes alone, and mixtures such as those of
`list_below` satisfy it, for any number of threads and any size; without it the
property is false (`list_lost`).  The state does not show which entries are in the
list, so the invariant is existential: there is a set `L` of entries, those ever
linked, such that every word leads into `L` (`WordsIn`), the unmarked ones,
`Live(L)`, have different keys and these are the content (`Apart`, `Holds`), and no
word of `L`, not even a marked one, leads past a live entry (`NoSkip`).  That is what
a disconnection could break, and the late link of an insert; so the invariant goes on
with what each thread has read.  The word find has compared with is still there, or
it has changed its version and the compare-and-swap that expects it fails
(`PlaceInv`); an entry about to be linked leads where its predecessor does, or after
the freeze to a live entry beyond (`LinkInv`); what a delete is about to disconnect
has its key and a successor behind which no live entry hides (`MarkInv`), and here
`InsertsBelow` is needed; and two threads that work on the same entry, an insert and
one that stabilises for it, agree where it belongs (`Meet`).  `Content` is their
conjunction.  A step of `t` shows its own part and that the list is as before or has
one entry more or one mark more (`Onward`); `ContentKeeps` does the rest for the
other threads once and for all.  From `NoSkip`, `LiveAre` concludes that the walk of
`Reached` meets exactly `Live(L)`, with a least counterexample (`WFMin`).

* `CounterFollows == ASSUME InsertsBelow PROVE Spec => []CounterExact`,
  `MinimumHolds == ASSUME InsertsBelow PROVE Spec => []MinimumKept`,
  `CounterInvariant` (`ChunkListCalls`).

A thread *owes* a correction of the counter when it has linked an entry and not
counted it, or counted a delete and not marked the entry (`Owes`).  `CountInv` says
that the counter and the number of threads that owe are together at most the number
of keys, and equal to it while the chunk is NORMAL; afterwards `stabilizeChunk` links
entries that nobody counts, so that only the bound is left.  The bound is what
`MinimumKept` needs: a chunk other than the root never counts below `MIN_ENTRIES`.
That a link adds a key and a mark takes one away is where the list is used: by
`ListIsContent`'s invariant the key linked was not there, the key marked was.

* `CopyComplete == ASSUME InsertsBelow PROVE Spec => []SettledComplete`,
* `ListStaysFixed == ASSUME InsertsBelow PROVE Spec => SettledListFixed`,
* `DecisionsAgree == ASSUME InsertsBelow PROVE Spec => []DecisionAgreement`,
  `FreezeInvariant` (`ChunkListCalls`).

What has to be shown is that the list is fixed as soon as *one* thread has finished
`stabilizeChunk`, whatever the others still do.  The list is *clean* up to a key
(`CleanTo`) when no live entry below it, nor the head, leads to a deleted one.  The
first search of `stabilizeChunk` is for a key beyond all others, with every word frozen:
behind it the list is clean, and stays so, since a frozen word cannot be marked any
more, and what a link or a disconnection redirects leads to a live entry again
(`StaysClean`).  The loop over the entries then finds each entry that is not deleted in
the list, or links it (`StableAt`, `Complete`).  At its end the chunk is `Finished`:
nothing is left to link, mark or disconnect, and neither the list nor the walk can
change (`FinishedFixed`, `FinishedComplete`).  `DecideInv` adds that the freeze state of
the second phase was computed from the number of entries of a finished list, the same
for every thread that computes it, and that threads that found the chunk enslaved
skip the computation together.  The steps are divided as before: one lemma per action
shows what it does to the freeze state and to the place of its own thread (`Steady`),
and `SteadyKeeps` does the rest for the others.

* `CallsLinearizable == ASSUME InsertsBelow PROVE Spec => ImplementsSet`,
  `CallsInvariant` (`ChunkListCalls`).

This is the refinement of `ChunkSet`: each step of the chunk is a step of the set or
leaves it alone.  Which entries are in the list is known from `Content`, that the list
no longer changes once the chunk is stabilised from `Stable`; `CallsInv` adds what a
thread may say about its call.  `EffectInv`: a delete has taken effect exactly from the
mark to its answer, an insert exactly if its thread has linked the entry or the entry is
a live one of the list, where a helper may have linked it.  `HistoryInv`: what find has
told, and that the key of an insert existed, was so at some moment of the call.
`WayInv`: a thread that asks for a key has not gone past it, so that the last word find
reads decides (`Learns`): even if the entry it stands on was disconnected long ago, its
word leads past no live entry, and so a larger key behind it means that the key is absent
at that moment.  What the thread does with it later counts because the moment was inside
the call.  The delicate case is an insert that finds its key and
cannot clear its entry because the chunk is frozen: `stabilizeChunk`, run by anybody, may
link that entry.  `clearEntry` therefore stabilises the chunk itself and looks whether
the entry is in the list; by then the list is fixed, so that the answer agrees with
whether the insert has taken effect.  For this `Owned` says that an entry with a key
that is not in the list belongs to a call that is still running: a helper never carries
out the insert of a call that has answered.  A lemma per action (`...Calls`) shows `Linearized`: the next list,
`CallsInv` of it, and the step of the set.

`InsertsBelow` is a hypothesis of all theorems from `ContentFound` on, since they count
keys or need that the live entries are the content.

**Freeze recovery** (`ChunkRebuildProofs`), from `SizeAssumption` and
`WorkAssumption` of `ChunkRebuild`:

* `TypeCorrect == Spec => []TypeOK`, `RoomGuaranteed == Spec => []RoomForTheCall`,
* `OneCallIsInstalled == Spec => []OneCallInstalled`,
  `AnswerCorrect == Spec => []AnswerIsRight`,
* `CountersCorrect == Spec => []CountersRight`,
  `SeparatorDivides == Spec => []Divided`,
  `LosersSentToTheirHalf == Spec => []SentToItsHalf`.

The invariant is `IInv`: the old lists stay what `Init` chose (`OldInv`); a thread
that has built holds lists whose keys are those of the old ones, straight, counted
and, for a split, divided by the separator (`Ready`); one that has done its call as
well holds what the call makes of that (`Outcome`); and what is installed is what its
winner had, the answer of each thread being that of its call or "moved"
(`Winning`, `Progress`).  It is needed because nothing in `CountersRight` or
`OneCallInstalled` says what a thread holds before it has installed it.

The argument has three parts.  *Lists*: `Linked` relates a chain of cells to the set
of its keys, and a walk from the head meets exactly the cells of the list.  That is
an induction over the list; the induction theorems of the library cannot be used
(they take an operator), so it is done with a least counterexample
(`WFMin`).  *Building*: what `CopyEntries` leaves for each of copy, split and merge; the
bounds of `RoomForTheCall` come from here, from `MAX_ENTRIES >= 2 * MIN_ENTRIES + 6`
for the halves of a split, and with the room for one more entry the call of the
winner always finds a slot.  *Threads*: a step of one thread changes its own lists
and, in the compare-and-swap that installs, the winner.

**Pool** (`ChunkPoolProofs`), from `PoolAssumption`:

* `AllocationsUnique == Spec => []UniqueAllocation`,
* `CaptureLosesNothing == Spec => CapturedKept`,
* `GivesUpOnlyWhenFull == Spec => []ScannedFull`,
* `PoolTypeCorrect == Spec => []TypeOK`, `PoolInvariant`.

The new value of a word may be older than the value it replaces.  The invariant
says why that is harmless: the bits of `replace` are among those of `expected` and
the one bit to be captured, and `expected` lacks that bit; flags only grow; so
when the word equals `expected`, `replace` is `expected` with the one bit added.
`ScanInv` adds the words a scan has left behind (`LeftBehind`), all of them full:
a compare-and-swap fails only if its bit is ON by then, and flags only grow.

**Merge words** (`MergeWordsProofs`), for any set `ChunkId` and any `None` not in it:

* `MergesAgree == Spec => []PartnersAgree`, `WordsTypeCorrect == Spec => []TypeOK`.

`PartnersAgree` is inductive with the types and with `HavePartner`, that a request and a
slave have a partner: no compare-and-swap expects a word in MERGE or SLAVE_FREEZE
(`FinalStays`), so that a pair stays one, and only `Take` makes a new one.  What the words do *not* promise is that a slave has a master that
waits for it; `tree_stale` shows one that has not.  That `BTree` implements `MergeWords`
is `WordsFollowProtocol`, below.

**Tree** (`BTreeInvariant`, `BTreeProofs`), for any finite set of threads
(`ThreadAssumption`), any sizes that `assertConfig` allows (`SizeAssumption`) and any
initial trees that are `WellFormed` (`StartsAssumption`), of any height:

* `TypesKept == Spec => []TypeOK`, `TreeStaysBalanced == Spec => []Balanced`,
* `MergesAreMutual == Spec => []PartnersAgree`,
  `DecisionsAreFinal == Spec => DecisionsStay`,
* `FrozenIsKept == Spec => FrozenStays`,
* `LeavesStayFull == Spec => []LeavesFull`,
  `MinimumIsKept == Spec /\ []NothingLost => []MinimumInTree`,
* `WordsFollowProtocol == Spec => FollowsProtocol`,
* `AlwaysInv == Spec => []Always(FALSE)`, the inductive invariant.

`WellFormed` is what calls that are all answered leave behind: no chunk is frozen or
replaced, sons are one level below, the counter does not exceed the entries, and a
chunk without the root flag has its minimum.  It does not ask that keys are in the
right place or that every chunk is in the tree; so the theorems also hold after keys
have been lost as in the findings, and whatever the faults of the tree update are,
they do not touch what is proved.

None of the properties is inductive, since each step works on what its thread has
read before: a stack holds chunks that may have been frozen and replaced any number of
times before the step comes.  `TreeInv(K)` is the conjunction of

* `Shape`: what the words of a chunk lead to is in use and of the right level, pending
  and unlinked entries included (they may be linked late); a new chunk is of the
  height of its creator, which has been replaced;
* `Words`: a freeze state has a partner exactly if it needs one, of the same height;
  a chunk in MERGE is `Paired`; a chunk that requests a slave is frozen and has
  enough entries to be a master; a chunk in SPLIT is full; only a chunk whose recovery
  is decided has been replaced, and one in SPLIT by two;
* `Stacks`: each step on the stack of a thread may rely on something that nothing
  others do makes false (`StepOK`): levels, that a chunk has been replaced, that a
  decision has been taken, that a chunk is frozen and has a minimum.  What can be
  made false is never part of it; the steps that look at such things first are in the
  model what they are in the code.  `SettledBefore` says that a chunk is frozen before
  it is decided what becomes of it;
* `Owning`: an entry that a thread has allocated stays its own until it is linked;
* `Holds`: a word that is held is still what find saw.  This is why a link or a mark by
  a thread that has slept is harmless: had the word changed, or the chunk been
  frozen in between, the word would not be held any more (`Touch`);
* `Counts`: see below;
* `Calls`.

A step of `t` shows what it leaves on its own stack (`Good...`), and what it does to
the chunks and words; `StackStays`, `OwningStays`, `HoldsQuiet` and their companions
carry the stacks of all others over once and for all.  The replacements are treated as
values: `ListIs` (the list of a chunk in order, by ranks of its entries), `TwoOfIs`,
`ShiftedOne`, `ShiftedTwo`, `PerformIs` say how many entries each has and that its
sons fit.  That `FrozenStays` holds rests on `Holds` and on the words of a frozen
chunk: of the steps that change a chunk (`KeptByLink`, `KeptByMark`, `KeptByInstall`,
`KeptByNewRoot`) a link into a frozen chunk only adds.

*The minimum.*  Deletes first decrement the counter, which `decCount` does not let
below `MIN_ENTRIES`, and mark later; inserts link first.  So the list has at least as
many entries as the counter says and as threads still owe marks (`CountsUp`), and
the counter is at least the minimum (`Enough`).  New chunks have enough entries:
a split is of a full chunk, and half of it is enough, by `SizeAssumption`; a merge has
a master with its minimum, which is what `MinFrozen` carries from the freeze through
all of the merge protocol.  The one place where this breaks is the move of two entries
(`chunk.c:639`), which counts two and links one.  `Kept(K, x)` is therefore the set of
chunks about which it is claimed: for `K = FALSE` leaves, from which nothing is moved,
and chunks with a `nextChunk`, which got none of the entries; for `K = TRUE` all of
them, and then the step needs `NothingLost`.  `AlwaysInv` is the first case,
`MinimumIsKept` the second.

*The protocol.*  Of the steps of `BTree` those of `WordsAlone` change no word; nine
change one word by one compare-and-swap (`WordsMove`), in a way that `Moved` lists and
`MovedFollows` finds in `MergeWords`; `InstallFollows` and `NewRootFollows` are the
steps that bring chunks into use, and only the first changes `newChunk` (`LowsStay` for
the others).  The invariant is needed for the partners: that a slave a thread comes with
is a chunk in use (`StepOK`), and that the slave whose thread takes its master to MERGE
points to it (`WordIs`).  It also says that a replacement that is born enslaved is that
of a chunk in COPY and is one chunk (`ReplacementOK`).

**Barrier** (`BTreeProofs`), for any finite set of threads:

* `StartIsTheBarrier == Spec => BarrierSpec`: each step of the tree is a step of
  `StartBarrier` or leaves its variables alone;
* `ThreadsStartTogether == Spec => []StartTogether`.

`waiting` is the number of threads inside (`Counted`); once one is through, nobody is
outside any more (`NoneLate`), and so the decrements cannot make a late thread miss
the size (`LastOne`: if the count with the next one is the size, the next one is the
last).

**Only model-checked**, and why:

* liveness (`CallsAnswered`, `CallEnds`), which is out of the prover's reach;
* of the chunk list, `ListIsContent` and what rests on it for other workloads than
  `InsertsBelow`, where `ListIsContent` does not hold in general: an insert lost as in
  `list_lost` lets its key be inserted and counted again;
* of the tree, what the findings break outside the instances of the passing runs:
  `ImplementsSet`, `SetUnlessMisled`, `KeysInPlace` and `RestsClean` (after
  `tree_separator` and from `NeighbourStarts` keys are lost and chunks cut off),
  `MergesNeighbours` (from `NeighbourStarts`) and `NoFault` (`tree_stale`).  They are not
  theorems of the code as it is;
* `MovesSafe`, which has two parts.  `FitsArray`: how many late links a frozen inner
  chunk can still get is not bounded by what each thread knows, so a bound for its
  replacement needs an account of all threads that have placed an entry there, which is
  not done.  `NothingLost`: it depends on which sons of a chunk request each other, hence
  on who is whose neighbour, as do the findings.

## 5. What is not modelled

* reclamation (`retireEntry`, `handleReclamationBuffer`, hazard pointers): as
  written it reuses nothing, so no other part sees it, and a model of it would have
  no property that could fail;
* word packing (`entry.c`): masks and shifts without state; the models take the
  fields of a word as a record, and versions as unbounded (52 bits);
* `clearChunk`, `retireChunk`, `handleChunkReclamationBuffer`: never called or
  empty;
* a return of `g_cond_wait` without a broadcast;
* a key and data wider than their fields, and the value that `searchInTree`
  returns with a key;
* printing, timing, the benchmark driver, the unit tests and scripts.
