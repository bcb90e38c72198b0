---------------------------- MODULE BlockFetcher ----------------------------
(***************************************************************************)
(* The gateway's thread that fetches blocks from the node behind the       *)
(* portal (based/crates/sequencer/src/block_sync/block_fetcher.rs and      *)
(* fetch_blocks.rs).  A block the node does not have yet is asked for      *)
(* until it has it: a batch is complete before any of it is sent.          *)
(***************************************************************************)
EXTENDS Hashes

CONSTANT BatchSize      \* batch_size

VARIABLES
    nextBlock,      \* next_block
    syncUntil,      \* sync_until
    received,       \* whether the requests were taken since the last batch
    requests,       \* the BlockFetch channel
    synced,         \* the channel of fetched blocks
    remote          \* the head of the node the blocks are fetched from

fetcherVars == <<nextBlock, syncUntil, received>>

Least(S)    == CHOOSE x \in S : \A y \in S : x <= y
Greatest(S) == CHOOSE x \in S : \A y \in S : x >= y

\* new and on_init: the database is at block number n.
FetcherInit(n) ==
    /\ nextBlock = n + 1
    /\ syncUntil = Number(remote)
    /\ received = TRUE
    /\ synced = <<>>

\* Mutant: a batch is taken to end before its last block.
FetchExclusive ==
    LET stop == Least({nextBlock + BatchSize, syncUntil})
    IN  /\ received
        /\ nextBlock < syncUntil
        /\ stop <= Number(remote)
        /\ synced' = synced \o [i \in 1 .. stop - nextBlock |->
                                   SubSeq(remote, 1, nextBlock + i - 1)]
        /\ nextBlock' = stop + 1
        /\ received' = FALSE
        /\ UNCHANGED <<syncUntil, requests>>

\* Mutant: the next batch overlaps this one.
FetchOverlapping ==
    LET stop == Least({nextBlock + BatchSize, syncUntil})
    IN  /\ received
        /\ nextBlock < syncUntil
        /\ stop <= Number(remote)
        /\ synced' = synced \o [i \in 1 .. stop - nextBlock + 1 |->
                                   SubSeq(remote, 1, nextBlock + i - 1)]
        /\ nextBlock' = nextBlock + 1
        /\ received' = FALSE
        /\ UNCHANGED <<syncUntil, requests>>

\* The first half of loop_body.
FetchBatch ==
    LET stop == Least({nextBlock + BatchSize, syncUntil})
    IN  /\ received
        /\ nextBlock < syncUntil
        /\ stop <= Number(remote)
        /\ synced' = synced \o [i \in 1 .. stop - nextBlock + 1 |->
                                   SubSeq(remote, 1, nextBlock + i - 1)]
        /\ nextBlock' = stop + 1
        /\ received' = FALSE
        /\ UNCHANGED <<syncUntil, requests>>

\* Its second half, handle_fetch for every request in the channel.  Without blocks
\* to fetch the thread does nothing else.
ReceiveRequests ==
    /\ ~received \/ (nextBlock >= syncUntil /\ requests # <<>>)
    /\ nextBlock' = Least({nextBlock} \cup {requests[i][1] : i \in DOMAIN requests})
    /\ syncUntil' = Greatest({syncUntil} \cup {requests[i][2] : i \in DOMAIN requests})
    /\ received' = TRUE
    /\ requests' = <<>>
    /\ UNCHANGED synced

FetcherNext == FetchBatch \/ ReceiveRequests
=============================================================================
