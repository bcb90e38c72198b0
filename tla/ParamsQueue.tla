---------------------------- MODULE ParamsQueue ----------------------------
(***************************************************************************)
(* The ring of sequence locks through which the sequencer hands the block  *)
(* parameters to the simulators (based/crates/common/src/communication:    *)
(* queue.rs, seqlock.rs).  "Should only be produced to by the sequencer",  *)
(* so there is one producer.  A message is its index; a slot holds it in   *)
(* two words, which are written and copied one after the other.  Accesses  *)
(* take effect in program order, as on x86-64 with the compiler fences of  *)
(* the code.  Versions are not reduced modulo 2^32: they grow by 2 per lap *)
(* of 4096 blocks.                                                         *)
(***************************************************************************)
EXTENDS Integers, Sequences

CONSTANTS
    Length,         \* mask + 1
    Consumer,
    MaxProduced     \* bound: the messages of the behaviours considered

ASSUME LengthAssumption == Length \in Nat \ {0}
ASSUME MaxProducedAssumption == MaxProduced \in Nat

VARIABLES
    count,          \* QueueHeader.count
    version, data,  \* of each Seqlock
    producer,       \* the next step of produce
    at,             \* where each consumer is in its code
    pos, expected,  \* ConsumerBare.pos and expected_version
    copy,           \* the words a consumer has copied
    got             \* history: what try_consume has returned to each consumer

ringVars     == <<count, version, data, producer>>
consumerVars == <<at, pos, expected, copy, got>>
queueVars    == <<ringVars, consumerVars>>

Slot == 0 .. Length - 1
None == -1

QueueInit ==
    /\ count = 0
    /\ version = [s \in Slot |-> 0]
    /\ data = [s \in Slot |-> <<None, None>>]
    /\ producer = "idle"
    /\ at = [c \in Consumer |-> "detached"]
    /\ pos = [c \in Consumer |-> 0]
    /\ expected = [c \in Consumer |-> 0]
    /\ copy = [c \in Consumer |-> <<None, None>>]
    /\ got = [c \in Consumer |-> <<>>]

-----------------------------------------------------------------------------
\* The message being produced, and its slot.
Message  == count - 1
Position == Message % Length

next_count ==
    /\ producer = "idle"
    /\ count < MaxProduced
    /\ count' = count + 1
    /\ producer' = "lock"
    /\ UNCHANGED <<version, data, consumerVars>>

\* Mutant: the version is raised once, after the data.
WriteWithoutLock ==
    /\ producer = "lock"
    /\ producer' = "first"
    /\ UNCHANGED <<count, version, data, consumerVars>>

WriteLock ==
    /\ producer = "lock"
    /\ version' = [version EXCEPT ![Position] = @ + 1]
    /\ producer' = "first"
    /\ UNCHANGED <<count, data, consumerVars>>

WriteWord(i, from, to) ==
    /\ producer = from
    /\ data' = [data EXCEPT ![Position][i] = Message]
    /\ producer' = to
    /\ UNCHANGED <<count, version, consumerVars>>

\* version.store(v + 2), where v was read when the slot was locked.
WriteUnlock ==
    /\ producer = "unlock"
    /\ version' = [version EXCEPT ![Position] = @ + 1]
    /\ producer' = "idle"
    /\ UNCHANGED <<count, data, consumerVars>>

Produce ==
    \/ next_count
    \/ WriteLock
    \/ WriteWord(1, "first", "second")
    \/ WriteWord(2, "second", "unlock")
    \/ WriteUnlock

-----------------------------------------------------------------------------
Goto(c, from, to) == at[c] = from /\ at' = [at EXCEPT ![c] = to]

\* A consumer attaches: cur_pos and version read the count one after the other.
AttachPosition(c) ==
    /\ Goto(c, "detached", "attaching")
    /\ pos' = [pos EXCEPT ![c] = count % Length]
    /\ UNCHANGED <<ringVars, expected, copy, got>>

AttachVersion(c) ==
    /\ Goto(c, "attaching", "poll")
    /\ expected' = [expected EXCEPT ![c] = 2 * (count \div Length) + 2]
    /\ UNCHANGED <<ringVars, pos, copy, got>>

\* Mutant: the test for Empty is dropped.
ReadAnyVersion(c) ==
    /\ Goto(c, "poll", "first")
    /\ UNCHANGED <<ringVars, pos, expected, copy, got>>

\* read_with_version_clone, past the test for Empty, which changes nothing.
ReadVersion(c) ==
    /\ Goto(c, "poll", "first")
    /\ version[pos[c]] >= expected[c]
    /\ UNCHANGED <<ringVars, pos, expected, copy, got>>

CopyWord(c, i, from, to) ==
    /\ Goto(c, from, to)
    /\ copy' = [copy EXCEPT ![c][i] = data[pos[c]][i]]
    /\ UNCHANGED <<ringVars, pos, expected, got>>

\* Mutant: the consumer does not move on.
UpdateNothing(c) ==
    UNCHANGED <<pos, expected>>

update_pos(c) ==
    /\ pos' = [pos EXCEPT ![c] = (@ + 1) % Length]
    /\ expected' = [expected EXCEPT ![c] = IF pos[c] + 1 = Length THEN @ + 2 ELSE @]

ReadOk(c) ==
    /\ Goto(c, "check", "poll")
    /\ version[pos[c]] = expected[c]
    /\ got' = [got EXCEPT ![c] = Append(@, copy[c])]
    /\ update_pos(c)
    /\ UNCHANGED <<ringVars, copy>>

\* Mutant: a consumer that was sped past starts over with the lap it is in.
RecoverInPlace(c) ==
    /\ Goto(c, "check", "poll")
    /\ version[pos[c]] # expected[c]
    /\ UNCHANGED <<ringVars, pos, expected, copy, got>>

\* SpedPast: recover_after_error, and try again.
ReadSpedPast(c) ==
    /\ Goto(c, "check", "poll")
    /\ version[pos[c]] # expected[c]
    /\ expected' = [expected EXCEPT ![c] = @ + 2]
    /\ UNCHANGED <<ringVars, pos, copy, got>>

Consume(c) ==
    \/ AttachPosition(c) \/ AttachVersion(c)
    \/ ReadVersion(c)
    \/ CopyWord(c, 1, "first", "second")
    \/ CopyWord(c, 2, "second", "check")
    \/ ReadOk(c) \/ ReadSpedPast(c)

QueueNext == Produce \/ \E c \in Consumer : Consume(c)

\* The threads run.
QueueSpec ==
    /\ QueueInit /\ [][QueueNext]_queueVars
    /\ WF_queueVars(Produce)
    /\ \A c \in Consumer : WF_queueVars(Consume(c))

-----------------------------------------------------------------------------
(***************************************************************************)
(* Properties.                                                             *)
(***************************************************************************)
\* The types of the variables.
QueueTypeOK ==
    /\ count \in 0 .. MaxProduced
    /\ version \in [Slot -> Nat]
    /\ data \in [Slot -> (Nat \cup {None}) \X (Nat \cup {None})]
    /\ producer \in {"idle", "lock", "first", "second", "unlock"}
    /\ at \in [Consumer -> {"detached", "attaching", "poll", "first", "second", "check"}]
    /\ pos \in [Consumer -> Slot]
    /\ expected \in [Consumer -> Nat]
    /\ copy \in [Consumer -> (Nat \cup {None}) \X (Nat \cup {None})]
    /\ got \in [Consumer -> Seq((Nat \cup {None}) \X (Nat \cup {None}))]

\* A copy that the producer overwrote in the middle is never returned: what
\* try_consume returns is one message, both words of it.
WholeMessages ==
    \A c \in Consumer : \A i \in 1 .. Len(got[c]) :
        got[c][i][1] = got[c][i][2] /\ got[c][i][1] \in Nat

\* Messages come in the order in which they were produced and none twice; what a
\* consumer that was sped past loses is whole laps ("Lost {len} messages").
OrderedUpToLaps ==
    \A c \in Consumer : \A i \in 2 .. Len(got[c]) :
        LET step == got[c][i][1] - got[c][i - 1][1]
        IN  step > 0 /\ step % Length = 1 % Length

\* The index of the message that a consumer reads next.
Cursor(c) == (expected[c] \div 2 - 1) * Length + pos[c]

\* A consumer never waits for a message a whole lap or more away: it attaches with two
\* reads of the count, between which the ring may be passed, and catches up one lap at
\* a time while the producer goes on.
NeverALapAhead ==
    \A c \in Consumer :
        at[c] \notin {"detached", "attaching"} => Cursor(c) < count + Length

\* However far it falls behind, a consumer that keeps polling comes to the end of what
\* was produced: it waits, and nothing that was written is left to read.
ReachesLatest ==
    \A c \in Consumer : <>[](at[c] = "poll" /\ Cursor(c) >= count)
=============================================================================
