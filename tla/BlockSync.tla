----------------------------- MODULE BlockSync -----------------------------
(***************************************************************************)
(* How the gateway commits blocks to its database                          *)
(* (based/crates/sequencer/src/block_sync/mod.rs, and the head of          *)
(* crates/db/src/lib.rs).                                                  *)
(*                                                                         *)
(* The database holds one chain, that of its head.  A block that does not  *)
(* fit is put aside, the head rolled back if the block belongs to another  *)
(* chain, and the numbers of the missing blocks are returned to the        *)
(* caller, who may or may not ask for them.  Blocks are valid: one that is *)
(* not stops the program.                                                  *)
(***************************************************************************)
EXTENDS Hashes

CONSTANTS
    Block,          \* the blocks that may be handed in
    InitHead,       \* the head of the database at the start
    MaxPending      \* bound: the pending blocks of the behaviours considered

ASSUME BlockAssumption == Block \subseteq Hash \ {<<>>} /\ InitHead \in Hash

VARIABLES
    db,                 \* the hash of the head of the database
    pendingBlocks,      \* pending_blocks, in descending order of their numbers
    blocksToFetch       \* what the last commit_block returned: {} for None

syncVars == <<db, pendingBlocks, blocksToFetch>>

-----------------------------------------------------------------------------
SyncInit ==
    /\ db = InitHead
    /\ pendingBlocks = <<>>
    /\ blocksToFetch = {}

\* Mutant: the comparison is not reversed.
AscendingIndices(b) ==
    {i \in 1 .. Len(pendingBlocks) + 1 :
        \A j \in DOMAIN pendingBlocks :
            j < i <=> Number(pendingBlocks[j]) < Number(b)}

\* The indices at which insert_pending_block may insert b: the binary search
\* finds any block with its number, or else the place that keeps the order.
PendingIndices(b) ==
    LET equal == {i \in DOMAIN pendingBlocks : Number(pendingBlocks[i]) = Number(b)}
        above == {i \in DOMAIN pendingBlocks : Number(pendingBlocks[i]) > Number(b)}
    IN  IF equal # {} THEN equal
        ELSE {i \in 1 .. Len(pendingBlocks) + 1 : above = 1 .. i - 1}

insert_pending_block(b) ==
    \E i \in PendingIndices(b) :
        pendingBlocks' = SubSeq(pendingBlocks, 1, i - 1) \o <<b>>
                         \o SubSeq(pendingBlocks, i, Len(pendingBlocks))

\* Mutant: only the head is compared.
IsHead(b) == b = db

AlreadyCommitted(b) == b \in Ancestors(db)

\* The head that b has to extend: blocks of b's number and above are rolled back.
RolledBack(b) == SubSeq(db, 1, Number(b) - 1)

\* A block above the next one.
CommitTooHigh(b) ==
    /\ Number(b) > Number(db) + 1
    /\ insert_pending_block(b)
    /\ blocksToFetch' = {<<Number(db) + 1, Number(b) - 1>>}
    /\ UNCHANGED db

CommitAgain(b) ==
    /\ AlreadyCommitted(b)
    /\ blocksToFetch' = {}
    /\ UNCHANGED <<db, pendingBlocks>>

\* A block of another chain: one more block is rolled back, and the chain between
\* asked for.
CommitReorg(b) ==
    /\ Number(b) <= Number(db) + 1
    /\ ~AlreadyCommitted(b)
    /\ Parent(b) # RolledBack(b)
    /\ db' = Parent(RolledBack(b))
    /\ insert_pending_block(b)
    /\ blocksToFetch' = {<<Number(b) - 2, Number(b)>>}

\* The pending block popped i-th, and the head once k of them are executed on b.
Popped(i) == pendingBlocks[Len(pendingBlocks) + 1 - i]

HeadAfter(b, k) == IF k = 0 THEN b ELSE Popped(k)

Linked(b, i) == Parent(Popped(i)) = HeadAfter(b, i - 1)

\* The loop over the pending blocks executes k of them.
Drains(b, k) ==
    /\ \A i \in 1 .. k : Linked(b, i)
    /\ k < Len(pendingBlocks) => ~Linked(b, k + 1)

\* What it stops at has the next number, and so is of another chain.
Mismatch(b, k) ==
    /\ k < Len(pendingBlocks)
    /\ Number(Popped(k + 1)) = Number(HeadAfter(b, k)) + 1

IsNextBlock(b) ==
    /\ Number(b) <= Number(db) + 1
    /\ ~AlreadyCommitted(b)
    /\ Parent(b) = RolledBack(b)

CommitNext(b) ==
    /\ IsNextBlock(b)
    /\ \E k \in 0 .. Len(pendingBlocks) :
          /\ Drains(b, k) /\ ~Mismatch(b, k)
          /\ db' = HeadAfter(b, k)
          /\ pendingBlocks' = SubSeq(pendingBlocks, 1, Len(pendingBlocks) - k)
    /\ blocksToFetch' = {}

\* Mutant: the block rolled back is not asked for again.
RefetchPendingOnly(b) ==
    /\ IsNextBlock(b)
    /\ \E k \in 0 .. Len(pendingBlocks) :
          /\ Drains(b, k) /\ Mismatch(b, k)
          /\ db' = Parent(HeadAfter(b, k))
          /\ pendingBlocks' = SubSeq(pendingBlocks, 1, Len(pendingBlocks) - k - 1)
          /\ blocksToFetch' = {<<Number(Popped(k + 1)), Number(Popped(k + 1))>>}

\* The pending block is dropped, and with it the head it does not link to.
CommitMismatch(b) ==
    /\ IsNextBlock(b)
    /\ \E k \in 0 .. Len(pendingBlocks) :
          /\ Drains(b, k) /\ Mismatch(b, k)
          /\ db' = Parent(HeadAfter(b, k))
          /\ pendingBlocks' = SubSeq(pendingBlocks, 1, Len(pendingBlocks) - k - 1)
          /\ blocksToFetch' = {<<Number(Popped(k + 1)) - 1, Number(Popped(k + 1))>>}

commit_block(b) ==
    \/ CommitTooHigh(b)
    \/ CommitAgain(b)
    \/ CommitReorg(b)
    \/ CommitNext(b)
    \/ CommitMismatch(b)

\* Whatever the order in which blocks come.
SyncNext ==
    \E b \in Block :
        /\ Len(pendingBlocks) < MaxPending
        /\ commit_block(b)

SyncSpec == SyncInit /\ [][SyncNext]_syncVars

-----------------------------------------------------------------------------
(***************************************************************************)
(* Properties.                                                             *)
(***************************************************************************)
\* The types of the variables.
SyncTypeOK ==
    /\ db \in Hash
    /\ pendingBlocks \in Seq(Hash \ {<<>>})
    /\ blocksToFetch \subseteq Nat \X Nat

\* pending_blocks is a "Sorted list in reverse order by block number", whatever
\* blocks come and are popped: the binary search of insert_pending_block and the
\* loop of commit_block, which looks at its last element only, rely on it.
PendingSorted ==
    \A i, j \in DOMAIN pendingBlocks :
        i < j => Number(pendingBlocks[i]) >= Number(pendingBlocks[j])

\* commit_block gives up a committed block only for one of another chain: a block
\* below or above the head on its chain never moves the head back, whatever is
\* pending, however late it comes and however often.
RollsBackForAnotherChainOnly ==
    [][\A b \in Block :
          /\ commit_block(b)
          /\ b \in Ancestors(db) \/ db \in Ancestors(b)
          => db \in Ancestors(db')]_syncVars

\* When commit_block leaves the head behind a block it was given, the range it
\* returns has the block that the head needs next, however far it has rolled back.
NextBlockRequested ==
    \A r \in blocksToFetch : r[1] <= Number(db) + 1 /\ Number(db) + 1 <= r[2]
=============================================================================
