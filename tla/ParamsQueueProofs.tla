-------------------------- MODULE ParamsQueueProofs --------------------------
(***************************************************************************)
(* What try_consume returns is never torn and comes in order, for every    *)
(* length of the ring and any number of consumers.                         *)
(***************************************************************************)
EXTENDS ParamsQueue, SequenceTheorems, TLAPS

Word == Nat \cup {None}

\* A slot is locked, its version odd, exactly while the producer writes to it; a slot
\* that is not locked holds one message, or nothing before its first.
SlotsConsistent ==
    /\ producer # "idle" => count > 0
    /\ \A s \in Slot :
        /\ version[s] % 2 = IF producer \in {"first", "second", "unlock"} /\ s = Position
                            THEN 1 ELSE 0
        /\ version[s] % 2 = 0 => data[s][1] = data[s][2]
        /\ version[s] % 2 = 0 /\ version[s] > 0 => data[s][1] \in Nat
        /\ producer = "second" /\ s = Position => data[s][1] = Message
        /\ producer = "unlock" /\ s = Position => data[s][1] = Message /\ data[s][2] = Message

\* The version a consumer waits for is that of an unlocked slot that was written, and
\* as long as the slot still has it the words copied are the words of the slot.
CopiesConsistent ==
    \A c \in Consumer :
        /\ expected[c] % 2 = 0
        /\ at[c] \notin {"detached", "attaching"} => expected[c] > 0
        /\ at[c] \in {"first", "second", "check"} => version[pos[c]] >= expected[c]
        /\ version[pos[c]] = expected[c] =>
             /\ at[c] \in {"second", "check"} => copy[c][1] = data[pos[c]][1]
             /\ at[c] = "check" => copy[c][2] = data[pos[c]][2]

\* The inductive invariant.
QueueInv == QueueTypeOK /\ SlotsConsistent /\ CopiesConsistent /\ WholeMessages

LEMMA ModSlot ==
    ASSUME NEW n \in Int
    PROVE  n % Length \in Slot
BY LengthAssumption, Z3 DEF Slot

LEMMA DivNat ==
    ASSUME NEW n \in Nat
    PROVE  n \div Length \in Nat
BY LengthAssumption, Z3

LEMMA InitInv == QueueInit => QueueInv
<1> SUFFICES ASSUME QueueInit PROVE QueueInv
    OBVIOUS
<1> USE DEF QueueInit
<1>1. QueueTypeOK
  <2>1. 0 \in Slot
    BY LengthAssumption DEF Slot
  <2>2. None \in Word /\ <<None, None>> \in Word \X Word
    BY DEF Word, None
  <2> QED BY <2>1, <2>2, MaxProducedAssumption DEF QueueTypeOK, Word
<1>2. SlotsConsistent
  BY DEF SlotsConsistent
<1>3. CopiesConsistent
  BY DEF CopiesConsistent
<1>4. WholeMessages
  BY DEF WholeMessages
<1> QED BY <1>1, <1>2, <1>3, <1>4 DEF QueueInv

-----------------------------------------------------------------------------
\* The producer changes versions and words of its own slot only, and only while that
\* slot has a version no consumer can take for the one it waits for.
LEMMA ProduceInv == QueueInv /\ Produce => QueueInv'
<1> SUFFICES ASSUME QueueInv, Produce PROVE QueueInv'
    OBVIOUS
<1> USE DEF QueueInv, ringVars, consumerVars
<1>0. Position \in Slot /\ Message \in Int /\ None \in Int /\ (producer # "idle" => Message \in Nat)
  <2>1. Message \in Int /\ None \in Int /\ (producer # "idle" => Message \in Nat)
    BY MaxProducedAssumption DEF Message, QueueTypeOK, SlotsConsistent, None
  <2>2. Position \in Slot
    BY <2>1, ModSlot DEF Position
  <2> QED BY <2>1, <2>2
<1>w. WholeMessages'
  BY DEF WholeMessages, Produce, next_count, WriteLock, WriteWord, WriteUnlock
<1>1. CASE next_count
  <2>1. QueueTypeOK'
    BY <1>1, MaxProducedAssumption DEF QueueTypeOK, next_count
  <2>2. SlotsConsistent'
    BY <1>1 DEF SlotsConsistent, next_count, QueueTypeOK
  <2>3. CopiesConsistent'
    BY <1>1 DEF CopiesConsistent, next_count
  <2> QED BY <1>w, <2>1, <2>2, <2>3
<1>2. CASE WriteLock
  <2>1. QueueTypeOK'
    BY <1>0, <1>2 DEF QueueTypeOK, WriteLock
  <2>p. Position' = Position /\ Message' = Message
    BY <1>2 DEF WriteLock, Position, Message
  <2>2. SlotsConsistent'
    <3>1. /\ version' = [version EXCEPT ![Position] = @ + 1]
          /\ producer = "lock" /\ producer' = "first"
          /\ data' = data /\ count' = count
      BY <1>2 DEF WriteLock
    <3>2. /\ version[Position] \in Nat /\ version[Position] % 2 = 0
          /\ version'[Position] = version[Position] + 1
      BY <1>0, <3>1 DEF SlotsConsistent, QueueTypeOK
    <3>3. version'[Position] % 2 = 1
      BY <3>2, Z3
    <3>4. \A s \in Slot : s # Position => version'[s] = version[s]
      BY <3>1 DEF QueueTypeOK
    <3> QED BY <1>0, <2>p, <3>1, <3>3, <3>4 DEF SlotsConsistent
  <2>3. CopiesConsistent'
    <3> SUFFICES ASSUME NEW c \in Consumer
                 PROVE  /\ at[c] \in {"first", "second", "check"} => version'[pos[c]] >= expected[c]
                        /\ at[c] \in {"second", "check"} /\ version'[pos[c]] = expected[c]
                             => version[pos[c]] = expected[c]
      <4>1. UNCHANGED <<data, at, pos, expected, copy>>
        BY <1>2 DEF WriteLock
      <4> QED BY <4>1, Zenon DEF CopiesConsistent
    <3>1. /\ pos[c] \in Slot
          /\ version[pos[c]] \in Nat
          /\ version' = [version EXCEPT ![Position] = @ + 1]
          /\ expected[c] \in Nat
      BY <1>2 DEF QueueTypeOK, WriteLock
    <3>2. expected[c] % 2 = 0 /\ version[Position] % 2 = 0
      BY <1>0, <1>2 DEF CopiesConsistent, SlotsConsistent, WriteLock
    <3>3. at[c] \in {"first", "second", "check"} => version[pos[c]] >= expected[c]
      BY DEF CopiesConsistent
    <3>4. CASE pos[c] # Position
      <4>1. version'[pos[c]] = version[pos[c]]
        BY <3>1, <3>4 DEF QueueTypeOK
      <4> QED BY <4>1, <3>3
    <3>5. CASE pos[c] = Position
      <4>1. version'[pos[c]] = version[pos[c]] + 1
        BY <3>1, <3>5 DEF QueueTypeOK
      <4> QED BY <4>1, <3>1, <3>2, <3>3, <3>5, Z3
    <3> QED BY <3>4, <3>5
  <2> QED BY <1>w, <2>1, <2>2, <2>3
<1>3. ASSUME NEW i \in {1, 2}, WriteWord(i, IF i = 1 THEN "first" ELSE "second",
                                           IF i = 1 THEN "second" ELSE "unlock")
      PROVE  QueueInv'
  <2>0. /\ producer = IF i = 1 THEN "first" ELSE "second"
        /\ producer' = IF i = 1 THEN "second" ELSE "unlock"
        /\ data' = [data EXCEPT ![Position][i] = Message]
        /\ UNCHANGED <<count, version, at, pos, expected, copy, got>>
    BY <1>3 DEF WriteWord
  <2>m. Message \in Nat /\ Message # None
    BY <1>0, <2>0 DEF None
  <2>1. QueueTypeOK'
    <3>1. data[Position] \in Word \X Word /\ Message \in Word
      BY <1>0, <2>m DEF QueueTypeOK, Word
    <3>2. [data[Position] EXCEPT ![i] = Message] \in Word \X Word
      BY <3>1
    <3>3. data' \in [Slot -> Word \X Word]
      BY <1>0, <2>0, <3>2 DEF QueueTypeOK, Word
    <3> QED BY <2>0, <3>3 DEF QueueTypeOK, Word
  <2>p. Position' = Position /\ Message' = Message
    BY <2>0 DEF Position, Message
  <2>d. \A s \in Slot : s # Position => data'[s] = data[s]
    BY <2>0 DEF QueueTypeOK
  <2>e. data'[Position][i] = Message /\ (i = 2 => data'[Position][1] = data[Position][1])
    BY <1>0, <2>0 DEF QueueTypeOK
  <2>2. SlotsConsistent'
    BY <1>0, <2>0, <2>p, <2>d, <2>e DEF SlotsConsistent, QueueTypeOK
  <2>3. CopiesConsistent'
    <3> SUFFICES ASSUME NEW c \in Consumer, version[pos[c]] = expected[c]
                 PROVE  data'[pos[c]] = data[pos[c]]
        BY <2>0 DEF CopiesConsistent
    <3>1. version[Position] % 2 = 1 /\ expected[c] % 2 = 0
      BY <1>0, <2>0 DEF SlotsConsistent, CopiesConsistent
    <3>2. pos[c] # Position /\ pos[c] \in Slot
      BY <3>1 DEF QueueTypeOK
    <3> QED BY <3>2, <2>d
  <2> QED BY <1>w, <2>1, <2>2, <2>3
<1>4. CASE WriteUnlock
  <2>1. QueueTypeOK'
    BY <1>0, <1>4 DEF QueueTypeOK, WriteUnlock
  <2>p. Position' = Position /\ Message' = Message
    BY <1>4 DEF WriteUnlock, Position, Message
  <2>2. SlotsConsistent'
    <3>1. /\ version' = [version EXCEPT ![Position] = @ + 1]
          /\ producer = "unlock" /\ producer' = "idle"
          /\ data' = data /\ count' = count
      BY <1>4 DEF WriteUnlock
    <3>2. /\ version[Position] \in Nat /\ version[Position] % 2 = 1
          /\ version'[Position] = version[Position] + 1
      BY <1>0, <3>1 DEF SlotsConsistent, QueueTypeOK
    <3>3. version'[Position] % 2 = 0
      BY <3>2, Z3
    <3>4. \A s \in Slot : s # Position => version'[s] = version[s]
      BY <3>1 DEF QueueTypeOK
    <3> QED BY <1>0, <2>p, <3>1, <3>3, <3>4 DEF SlotsConsistent
  <2>3. CopiesConsistent'
    <3> SUFFICES ASSUME NEW c \in Consumer
                 PROVE  /\ at[c] \in {"first", "second", "check"} => version'[pos[c]] >= expected[c]
                        /\ at[c] \in {"second", "check"} /\ version'[pos[c]] = expected[c]
                             => version[pos[c]] = expected[c]
      <4>1. UNCHANGED <<data, at, pos, expected, copy>>
        BY <1>4 DEF WriteUnlock
      <4> QED BY <4>1, Zenon DEF CopiesConsistent
    <3>1. /\ pos[c] \in Slot
          /\ version[pos[c]] \in Nat
          /\ version' = [version EXCEPT ![Position] = @ + 1]
          /\ expected[c] \in Nat
      BY <1>4 DEF QueueTypeOK, WriteUnlock
    <3>2. expected[c] % 2 = 0 /\ version[Position] % 2 = 1
      BY <1>0, <1>4 DEF CopiesConsistent, SlotsConsistent, WriteUnlock
    <3>3. at[c] \in {"first", "second", "check"} => version[pos[c]] >= expected[c]
      BY DEF CopiesConsistent
    <3>4. CASE pos[c] # Position
      <4>1. version'[pos[c]] = version[pos[c]]
        BY <3>1, <3>4 DEF QueueTypeOK
      <4> QED BY <4>1, <3>3
    <3>5. CASE pos[c] = Position
      <4>1. version'[pos[c]] = version[pos[c]] + 1
        BY <3>1, <3>5 DEF QueueTypeOK
      <4> QED BY <4>1, <3>1, <3>2, <3>3, <3>5, Z3
    <3> QED BY <3>4, <3>5
  <2> QED BY <1>w, <2>1, <2>2, <2>3
<1> QED
  <2>1. CASE WriteWord(1, "first", "second")
    BY <2>1, <1>3
  <2>2. CASE WriteWord(2, "second", "unlock")
    BY <2>2, <1>3
  <2> QED BY <1>1, <1>2, <2>1, <2>2, <1>4 DEF Produce

-----------------------------------------------------------------------------
\* A consumer leaves the ring alone, so the slots stay as they are.
LEMMA ConsumeInv ==
    ASSUME QueueInv, NEW c \in Consumer, Consume(c)
    PROVE  QueueInv'
<1> USE DEF QueueInv, ringVars, Goto
<1>0. UNCHANGED ringVars /\ SlotsConsistent'
  <2>1. UNCHANGED ringVars
    BY DEF Consume, AttachPosition, AttachVersion, ReadVersion, CopyWord, ReadOk, ReadSpedPast
  <2> QED BY <2>1, Zenon DEF SlotsConsistent, Position, Message
<1>t. /\ at \in [Consumer -> {"detached", "attaching", "poll", "first", "second", "check"}]
      /\ pos \in [Consumer -> Slot] /\ expected \in [Consumer -> Nat]
      /\ copy \in [Consumer -> Word \X Word] /\ got \in [Consumer -> Seq(Word \X Word)]
      /\ version \in [Slot -> Nat] /\ data \in [Slot -> Word \X Word] /\ count \in Nat
  BY MaxProducedAssumption DEF QueueTypeOK, Word
<1>1. CASE AttachPosition(c)
  <2>1. count % Length \in Slot
    BY <1>t, ModSlot
  <2>2. QueueTypeOK'
    BY <1>0, <1>1, <2>1, Zenon DEF QueueTypeOK, AttachPosition
  <2>3. CopiesConsistent'
    BY <1>0, <1>1, <1>t DEF CopiesConsistent, AttachPosition
  <2>4. WholeMessages'
    BY <1>1 DEF WholeMessages, AttachPosition
  <2> QED BY <1>0, <2>2, <2>3, <2>4
<1>2. CASE AttachVersion(c)
  <2> DEFINE v == 2 * (count \div Length) + 2
  <2>1. v \in Nat /\ v % 2 = 0 /\ v > 0
    <3>1. count \div Length \in Nat
      BY <1>t, DivNat, Zenon
    <3> QED BY <3>1, Z3
  <2>2. expected' = [expected EXCEPT ![c] = v] /\ UNCHANGED <<pos, copy, got>>
    BY <1>2 DEF AttachVersion
  <2> HIDE DEF v
  <2>3. QueueTypeOK'
    BY <1>0, <1>2, <2>1, <2>2, Zenon DEF QueueTypeOK, AttachVersion
  <2>4. CopiesConsistent'
    BY <1>0, <1>2, <1>t, <2>1, <2>2 DEF CopiesConsistent, AttachVersion
  <2>5. WholeMessages'
    BY <2>2 DEF WholeMessages
  <2> QED BY <1>0, <2>3, <2>4, <2>5
<1>3. CASE ReadVersion(c)
  <2>1. QueueTypeOK'
    BY <1>0, <1>3 DEF QueueTypeOK, ReadVersion
  <2>2. CopiesConsistent'
    BY <1>0, <1>3, <1>t DEF CopiesConsistent, ReadVersion
  <2>3. WholeMessages'
    BY <1>3 DEF WholeMessages, ReadVersion
  <2> QED BY <1>0, <2>1, <2>2, <2>3
<1>4. ASSUME NEW i \in {1, 2}, CopyWord(c, i, IF i = 1 THEN "first" ELSE "second",
                                             IF i = 1 THEN "second" ELSE "check")
      PROVE  QueueInv'
  <2>0. /\ at[c] = IF i = 1 THEN "first" ELSE "second"
        /\ at' = [at EXCEPT ![c] = IF i = 1 THEN "second" ELSE "check"]
        /\ copy' = [copy EXCEPT ![c][i] = data[pos[c]][i]]
        /\ UNCHANGED <<pos, expected, got>>
    BY <1>4 DEF CopyWord
  <2>1. [copy[c] EXCEPT ![i] = data[pos[c]][i]] \in Word \X Word
    <3>1. copy[c] \in Word \X Word /\ data[pos[c]] \in Word \X Word
      BY <1>t
    <3>2. data[pos[c]][i] \in Word
      BY <3>1
    <3> QED BY <3>1, <3>2
  <2>2. copy' \in [Consumer -> Word \X Word]
    BY <1>t, <2>0, <2>1
  <2>3. QueueTypeOK'
    BY <1>0, <1>t, <2>0, <2>2 DEF QueueTypeOK, Word
  <2>4. /\ copy'[c][i] = data[pos[c]][i] /\ (i = 2 => copy'[c][1] = copy[c][1])
        /\ \A d \in Consumer : d # c => copy'[d] = copy[d]
    BY <1>t, <2>0
  <2>5. CopiesConsistent'
    BY <1>0, <1>t, <2>0, <2>4 DEF CopiesConsistent
  <2>6. WholeMessages'
    BY <2>0 DEF WholeMessages
  <2> QED BY <1>0, <2>3, <2>5, <2>6
<1>5. CASE ReadOk(c)
  <2>0. /\ at[c] = "check" /\ at' = [at EXCEPT ![c] = "poll"]
        /\ version[pos[c]] = expected[c]
        /\ got' = [got EXCEPT ![c] = Append(@, copy[c])]
        /\ pos' = [pos EXCEPT ![c] = (@ + 1) % Length]
        /\ expected' = [expected EXCEPT ![c] = IF pos[c] + 1 = Length THEN @ + 2 ELSE @]
        /\ copy' = copy
    BY <1>5 DEF ReadOk, update_pos
  <2>1. (pos[c] + 1) % Length \in Slot
    <3>1. pos[c] + 1 \in Int
      BY <1>t DEF Slot
    <3> QED BY <3>1, ModSlot
  <2>2. QueueTypeOK'
    <3>1. copy[c] \in Word \X Word /\ got[c] \in Seq(Word \X Word)
      BY <1>t
    <3>2. Append(got[c], copy[c]) \in Seq(Word \X Word)
      BY <3>1, AppendProperties
    <3>3. got' \in [Consumer -> Seq(Word \X Word)]
      BY <1>t, <2>0, <3>2
    <3>4. pos' \in [Consumer -> Slot] /\ expected' \in [Consumer -> Nat]
      BY <1>t, <2>0, <2>1
    <3>5. at' \in [Consumer -> {"detached", "attaching", "poll", "first", "second", "check"}]
      BY <1>t, <2>0
    <3> QED BY <1>0, <1>t, <2>0, <3>3, <3>4, <3>5 DEF QueueTypeOK, Word
  <2>3. CopiesConsistent'
    <3>1. expected'[c] % 2 = 0 /\ expected'[c] > 0
      <4>1. expected[c] \in Nat /\ expected[c] % 2 = 0 /\ expected[c] > 0
        BY <1>t, <2>0, Zenon DEF CopiesConsistent
      <4>2. expected'[c] = expected[c] \/ expected'[c] = expected[c] + 2
        BY <1>t, <2>0
      <4> QED BY <4>1, <4>2, Z3
    <3>2. \A d \in Consumer : d # c => /\ at'[d] = at[d] /\ pos'[d] = pos[d]
                                      /\ expected'[d] = expected[d]
      BY <1>t, <2>0
    <3>3. at'[c] = "poll"
      BY <1>t, <2>0
    <3> QED BY <1>0, <2>0, <3>1, <3>2, <3>3 DEF CopiesConsistent
  <2>4. WholeMessages'
    <3>1. expected[c] % 2 = 0 /\ expected[c] > 0 /\ copy[c][1] = data[pos[c]][1]
          /\ copy[c][2] = data[pos[c]][2]
      BY <2>0 DEF CopiesConsistent
    <3>2. copy[c][1] = copy[c][2] /\ copy[c][1] \in Nat
      BY <1>t, <2>0, <3>1 DEF SlotsConsistent
    <3> SUFFICES ASSUME NEW d \in Consumer, NEW i \in 1 .. Len(got'[d])
                 PROVE  got'[d][i][1] = got'[d][i][2] /\ got'[d][i][1] \in Nat
        BY DEF WholeMessages
    <3>3. CASE d # c
      BY <1>t, <2>0, <3>3 DEF WholeMessages
    <3>4. CASE d = c
      <4>1. got'[c] = Append(got[c], copy[c]) /\ got[c] \in Seq(Word \X Word)
        BY <1>t, <2>0
      <4>2. CASE i = Len(got[c]) + 1
        BY <3>2, <3>4, <4>1, <4>2
      <4>3. CASE i # Len(got[c]) + 1
        <5>1. i \in 1 .. Len(got[c]) /\ got'[c][i] = got[c][i]
          BY <3>4, <4>1, <4>3
        <5> QED BY <3>4, <5>1 DEF WholeMessages
      <4> QED BY <4>2, <4>3
    <3> QED BY <3>3, <3>4
  <2> QED BY <1>0, <2>2, <2>3, <2>4
<1>6. CASE ReadSpedPast(c)
  <2>0. /\ at' = [at EXCEPT ![c] = "poll"] /\ at[c] = "check"
        /\ expected' = [expected EXCEPT ![c] = @ + 2]
        /\ UNCHANGED <<pos, copy, got>>
    BY <1>6 DEF ReadSpedPast
  <2>1. QueueTypeOK'
    BY <1>0, <2>0 DEF QueueTypeOK
  <2>2. expected[c] \in Nat /\ expected[c] % 2 = 0 /\ expected'[c] = expected[c] + 2
    BY <1>t, <2>0 DEF CopiesConsistent
  <2>3. expected'[c] % 2 = 0 /\ expected'[c] > 0
    BY <2>2, Z3
  <2>4. CopiesConsistent'
    BY <1>0, <1>t, <2>0, <2>3 DEF CopiesConsistent
  <2>5. WholeMessages'
    BY <2>0 DEF WholeMessages
  <2> QED BY <1>0, <2>1, <2>4, <2>5
<1> QED
  <2>1. CASE CopyWord(c, 1, "first", "second")
    BY <2>1, <1>4
  <2>2. CASE CopyWord(c, 2, "second", "check")
    BY <2>2, <1>4
  <2> QED BY <1>1, <1>2, <1>3, <2>1, <2>2, <1>5, <1>6 DEF Consume

-----------------------------------------------------------------------------
LEMMA QueueStep == QueueInv /\ [QueueNext]_queueVars => QueueInv'
<1> SUFFICES ASSUME QueueInv, [QueueNext]_queueVars PROVE QueueInv'
    OBVIOUS
<1>1. CASE UNCHANGED queueVars
  BY <1>1, Zenon DEF queueVars, ringVars, consumerVars, QueueInv, QueueTypeOK, SlotsConsistent,
              CopiesConsistent, WholeMessages, Position, Message
<1> QED BY <1>1, ProduceInv, ConsumeInv DEF QueueNext

\* No consumer of the ring ever gets a message that is half of one and half of another:
\* for every length of the ring, any number of consumers and any interleaving.
THEOREM NoTornMessage == QueueSpec => []WholeMessages
<1>1. QueueInv => WholeMessages
  BY DEF QueueInv
<1> QED BY InitInv, QueueStep, <1>1, PTL DEF QueueSpec

-----------------------------------------------------------------------------
(***************************************************************************)
(* The order of what is read.                                              *)
(***************************************************************************)
\* The messages that are written.
Done == IF producer = "idle" THEN count ELSE count - 1

\* The message that a slot gets next, or is getting.
Turn(s) == (version[s] \div 2) * Length + s

\* A version counts the laps: the slot waits for the next message that goes to it,
\* and holds the one a lap before.
SlotsCounted ==
    \A s \in Slot :
        /\ version[s] % 2 = 0 => Done <= Turn(s) /\ Turn(s) < Done + Length
        /\ version[s] % 2 = 0 /\ version[s] > 0 => data[s][1] = Turn(s) - Length
        /\ version[s] % 2 = 1 => Turn(s) = Message

\* What a consumer got last is a number of laps and one message behind its cursor.
BehindCursor ==
    \A c \in Consumer :
        /\ at[c] \in {"detached", "attaching"} => got[c] = <<>>
        /\ got[c] # <<>> =>
             /\ got[c][Len(got[c])][1] < Cursor(c)
             /\ (Cursor(c) - got[c][Len(got[c])][1]) % Length = 1 % Length

LapInv == SlotsCounted /\ NeverALapAhead /\ BehindCursor /\ OrderedUpToLaps

\* Arithmetic of laps, and of the versions, two to a lap.
LEMMA ModDiv ==
    ASSUME NEW m \in Int, NEW l \in Int, l > 0
    PROVE  m % l = m - l * (m \div l)
BY Z3

LEMMA DivMod ==
    ASSUME NEW m \in Nat
    PROVE  /\ m \div Length \in Nat
           /\ (m \div Length) * Length \in Int
           /\ m = (m \div Length) * Length + (m % Length)
<1>1. m \div Length \in Nat
  BY DivNat
<1>2. m % Length = m - Length * (m \div Length)
  BY ModDiv, LengthAssumption
<1>3. Length * (m \div Length) = (m \div Length) * Length /\ (m \div Length) * Length \in Int
  BY <1>1, LengthAssumption, Z3
<1> QED BY <1>1, <1>2, <1>3

LEMMA ModUnique ==
    ASSUME NEW w \in Nat, NEW s \in Slot
    PROVE  (w * Length + s) % Length = s
BY LengthAssumption, Z3 DEF Slot

LEMMA Distribute ==
    ASSUME NEW a \in Int
    PROVE  /\ (a + 1) * Length = a * Length + Length
           /\ (a - 1) * Length = a * Length - Length
           /\ a * Length \in Int
BY LengthAssumption, Z3

LEMMA MulMonotone ==
    ASSUME NEW a \in Nat, NEW b \in Nat, a < b
    PROVE  a * Length + Length <= b * Length
BY LengthAssumption, Z3

LEMMA AddLap ==
    ASSUME NEW d \in Nat
    PROVE  (d + Length) % Length = d % Length
<1> DEFINE q == d \div Length  s == d % Length
<1>1. q \in Nat /\ q * Length \in Int /\ d = q * Length + s
  BY DivMod
<1>2. s \in Slot
  BY ModSlot
<1> HIDE DEF q, s
<1>3. (q + 1) * Length = q * Length + Length
  BY <1>1, Distribute
<1> DEFINE p == q * Length  r == (q + 1) * Length
<1>a. p \in Int /\ d = p + s /\ r = p + Length
  BY <1>1, <1>3
<1> HIDE DEF p, r
<1>b. d + Length = r + s
  BY <1>a, <1>2, LengthAssumption DEF Slot
<1>4. d + Length = (q + 1) * Length + s
  BY <1>b DEF r
<1>5. ((q + 1) * Length + s) % Length = s
  BY <1>1, <1>2, ModUnique
<1> QED BY <1>4, <1>5 DEF s

LEMMA Halves ==
    ASSUME NEW v \in Nat
    PROVE  /\ v \div 2 \in Nat
           /\ (v + 2) \div 2 = v \div 2 + 1
           /\ v % 2 = 0 => (v + 1) \div 2 = v \div 2
           /\ v % 2 = 1 => (v + 1) \div 2 = v \div 2 + 1
           /\ v % 2 \in {0, 1}
BY Z3

LEMMA HalvesOrder ==
    ASSUME NEW v \in Nat, NEW e \in Nat, e % 2 = 0, v > e
    PROVE  /\ v \div 2 >= e \div 2
           /\ v % 2 = 0 => v \div 2 >= e \div 2 + 1
BY Z3

\* Two messages of the same slot less than a lap apart are the same.
LEMMA SameTurn ==
    ASSUME NEW m \in Nat, NEW w \in Nat,
           m <= w * Length + (m % Length), w * Length + (m % Length) < m + Length
    PROVE  w * Length + (m % Length) = m
<1> DEFINE q == m \div Length  s == m % Length  p == q * Length  r == w * Length
<1>1. q \in Nat /\ p \in Int /\ m = p + s
  BY DivMod
<1>2. s \in Slot /\ r \in Int /\ m <= r + s /\ r + s < m + Length
  BY ModSlot, Distribute
<1>3. (q < w => p + Length <= r) /\ (w < q => r + Length <= p) /\ (q = w => p = r)
  BY <1>1, MulMonotone
<1>4. SUFFICES r + s = m
  OBVIOUS
<1> HIDE DEF q, s, p, r
<1>5. ~(q < w) /\ ~(w < q)
  BY <1>1, <1>2, <1>3, LengthAssumption DEF Slot
<1>6. q = w
  BY <1>1, <1>5
<1> QED BY <1>1, <1>3, <1>6

LEMMA LapInit == QueueInit => LapInv
<1> SUFFICES ASSUME QueueInit PROVE LapInv
    OBVIOUS
<1> USE DEF QueueInit
<1>1. SlotsCounted
  <2> SUFFICES ASSUME NEW s \in Slot
               PROVE  version[s] = 0 /\ Turn(s) = s /\ Done = 0
    BY LengthAssumption DEF SlotsCounted, Slot
  <2>1. version[s] = 0 /\ 0 \div 2 = 0 /\ 0 * Length = 0
    BY LengthAssumption, Z3
  <2> QED BY <2>1 DEF Turn, Done, Slot
<1>2. NeverALapAhead /\ BehindCursor /\ OrderedUpToLaps
  BY DEF NeverALapAhead, BehindCursor, OrderedUpToLaps
<1> QED BY <1>1, <1>2 DEF LapInv

\* Which messages the slots hold, step by step of the producer.
LEMMA TurnMod ==
    ASSUME QueueInv, NEW s \in Slot
    PROVE  /\ version[s] \in Nat /\ version[s] \div 2 \in Nat
           /\ Turn(s) \in Nat
           /\ Turn(s) % Length = s
<1>1. version[s] \in Nat /\ version[s] \div 2 \in Nat
  BY Halves DEF QueueInv, QueueTypeOK
<1> DEFINE w == version[s] \div 2
<1>2. (w * Length + s) % Length = s
  BY <1>1, ModUnique
<1>3. w * Length + s \in Nat
  BY <1>1, LengthAssumption, Z3 DEF Slot
<1> QED BY <1>1, <1>2, <1>3 DEF Turn

LEMMA SlotsStep ==
    ASSUME QueueInv, SlotsCounted, Produce
    PROVE  SlotsCounted'
<1> USE DEF ringVars, consumerVars
<1>0. count \in Nat /\ version \in [Slot -> Nat] /\ producer \in {"idle", "lock", "first", "second", "unlock"}
      /\ (producer # "idle" => count > 0)
  BY MaxProducedAssumption DEF QueueInv, QueueTypeOK, SlotsConsistent
<1>p. Position \in Slot /\ (producer # "idle" => Message \in Nat) /\ Message = count - 1
  <2>1. Message \in Int /\ Message = count - 1 /\ (producer # "idle" => Message \in Nat)
    BY <1>0 DEF Message
  <2> QED BY <2>1, ModSlot DEF Position
<1>1. CASE next_count
  <2>1. Done' = Done /\ version' = version /\ data' = data /\ producer = "idle"
    BY <1>0, <1>1 DEF next_count, Done
  <2>2. \A s \in Slot : Turn(s)' = Turn(s)
    BY <2>1 DEF Turn
  <2>3. \A s \in Slot : version[s] % 2 = 0
    BY <2>1 DEF QueueInv, SlotsConsistent
  <2> QED BY <2>1, <2>2, <2>3 DEF SlotsCounted
<1>2. CASE WriteLock
  <2>1. /\ version' = [version EXCEPT ![Position] = @ + 1]
        /\ count' = count /\ data' = data /\ Done' = Done /\ Done = Message /\ Message' = Message
        /\ producer = "lock"
    BY <1>2, <1>p DEF WriteLock, Done, Message
  <2>2. version[Position] % 2 = 0 /\ version[Position] \in Nat
    BY <1>0, <1>p, <2>1 DEF QueueInv, SlotsConsistent
  <2>3. \A s \in Slot : s # Position => version'[s] = version[s] /\ Turn(s)' = Turn(s)
    BY <1>0, <2>1 DEF Turn
  <2>4. version'[Position] = version[Position] + 1 /\ version'[Position] \div 2 = version[Position] \div 2
    <3>1. version'[Position] = version[Position] + 1
      BY <1>0, <1>p, <2>1
    <3> QED BY <2>2, <3>1, Halves
  <2>5. version'[Position] % 2 = 1
    BY <2>2, <2>4, Z3
  <2>6. Turn(Position) = Message
    <3>1. Message <= Turn(Position) /\ Turn(Position) < Message + Length
      BY <1>p, <2>1, <2>2 DEF SlotsCounted
    <3>2. version[Position] \div 2 \in Nat /\ Message \in Nat
      BY <1>p, <2>1, TurnMod
    <3> QED BY <3>1, <3>2, SameTurn DEF Turn, Position
  <2>7. \A s \in Slot : s = Position => Turn(s)' = Message
    BY <2>4, <2>6 DEF Turn
  <2> QED BY <1>p, <2>1, <2>3, <2>5, <2>7 DEF SlotsCounted
<1>3. ASSUME NEW i \in {1, 2}, WriteWord(i, IF i = 1 THEN "first" ELSE "second",
                                           IF i = 1 THEN "second" ELSE "unlock")
      PROVE  SlotsCounted'
  <2>1. /\ data' = [data EXCEPT ![Position][i] = Message]
        /\ version' = version /\ count' = count /\ producer \in {"first", "second"}
        /\ producer' # "idle"
    BY <1>3 DEF WriteWord
  <2>2. Done' = Done /\ Message' = Message
    BY <2>1 DEF Done, Message
  <2>3. \A s \in Slot : s # Position => data'[s] = data[s]
    BY <2>1 DEF QueueInv, QueueTypeOK
  <2>4. version[Position] % 2 = 1
    BY <1>p, <2>1 DEF QueueInv, SlotsConsistent
  <2>5. \A s \in Slot : Turn(s)' = Turn(s)
    BY <2>1 DEF Turn
  <2> QED BY <2>1, <2>2, <2>3, <2>4, <2>5 DEF SlotsCounted
<1>4. CASE WriteUnlock
  <2>1. /\ version' = [version EXCEPT ![Position] = @ + 1]
        /\ count' = count /\ data' = data /\ Done = Message /\ Done' = Message + 1
        /\ producer = "unlock" /\ producer' = "idle"
    BY <1>0, <1>4, <1>p DEF WriteUnlock, Done
  <2>2. version[Position] % 2 = 1 /\ version[Position] \in Nat /\ data[Position][1] = Message
    BY <1>0, <1>p, <2>1 DEF QueueInv, SlotsConsistent
  <2>3. \A s \in Slot : s # Position => version'[s] = version[s] /\ Turn(s)' = Turn(s)
    BY <1>0, <2>1 DEF Turn
  <2>4. version'[Position] \div 2 = version[Position] \div 2 + 1 /\ version[Position] \div 2 \in Nat
    <3>1. version'[Position] = version[Position] + 1
      BY <1>0, <1>p, <2>1
    <3> QED BY <2>2, <3>1, Halves
  <2>5. \A s \in Slot : s = Position => Turn(s)' = Message + Length
    <3> SUFFICES (version'[Position] \div 2) * Length + Position = Message + Length
      BY DEF Turn
    <3> DEFINE w == version[Position] \div 2  q == w * Length  r == (w + 1) * Length
    <3>1. r = q + Length /\ q \in Int
      BY <2>4, Distribute
    <3>2. q + Position = Message
      BY <1>p, <2>2 DEF SlotsCounted, Turn
    <3>3. SUFFICES r + Position = Message + Length
      BY <2>4
    <3> HIDE DEF q, r, w
    <3>4. Position \in Int /\ Length \in Int
      BY <1>p, LengthAssumption DEF Slot
    <3>5. ASSUME NEW x \in Int, x = Position PROVE r + x = Message + Length
      BY <3>1, <3>2, <3>4, <3>5
    <3> QED BY <3>4, <3>5
  <2>6. ASSUME NEW s \in Slot, s # Position
        PROVE  /\ version'[s] % 2 = 0
               /\ Message + 1 <= Turn(s) /\ Turn(s) < Message + 1 + Length
    <3>1. version[s] % 2 = 0 /\ version'[s] = version[s]
      BY <2>1, <2>3, <2>6 DEF QueueInv, SlotsConsistent
    <3>2. Message <= Turn(s) /\ Turn(s) < Message + Length
      BY <2>1, <3>1 DEF SlotsCounted
    <3>3. Turn(s) # Message /\ Turn(s) \in Nat
      BY <2>6, TurnMod DEF Position
    <3> QED BY <1>p, <2>1, <3>1, <3>2, <3>3, LengthAssumption
  <2>7. ASSUME NEW s \in Slot
        PROVE  /\ version'[s] % 2 = 0 => Message + 1 <= Turn(s)' /\ Turn(s)' < Message + 1 + Length
               /\ version'[s] % 2 = 0 /\ version'[s] > 0 => data[s][1] = Turn(s)' - Length
               /\ version'[s] % 2 # 1
    <3>1. CASE s = Position
      <4>1. version'[s] = version[Position] + 1
        BY <1>0, <2>1, <3>1
      <4>2. version'[s] % 2 = 0
        BY <2>2, <4>1, Z3
      <4> QED BY <1>p, <2>1, <2>2, <2>5, <3>1, <4>2, LengthAssumption
    <3>2. CASE s # Position
      <4>1. version'[s] = version[s] /\ Turn(s)' = Turn(s) /\ version'[s] % 2 = 0
        BY <2>3, <2>6, <3>2
      <4> QED BY <2>6, <3>2, <4>1 DEF SlotsCounted
    <3> QED BY <3>1, <3>2
  <2> QED BY <2>1, <2>7 DEF SlotsCounted
<1> QED
  <2>1. CASE WriteWord(1, "first", "second")
    BY <2>1, <1>3
  <2>2. CASE WriteWord(2, "second", "unlock")
    BY <2>2, <1>3
  <2> QED BY <1>1, <1>2, <2>1, <2>2, <1>4 DEF Produce

\* What the version in the cursor's slot says about the message at the cursor.
LEMMA AtCursor ==
    ASSUME QueueInv, SlotsCounted, NEW c \in Consumer,
           at[c] \notin {"detached", "attaching"}
    PROVE  /\ Cursor(c) \in Nat
           /\ version[pos[c]] = expected[c] => /\ data[pos[c]][1] = Cursor(c)
                                               /\ Cursor(c) < count
           /\ version[pos[c]] > expected[c] => Cursor(c) + Length < count
<1> DEFINE s == pos[c]  v == version[s]  e == expected[c]
           t == (v \div 2) * Length  k == (e \div 2 - 1) * Length
<1>1. s \in Slot /\ v \in Nat /\ e \in Nat /\ e % 2 = 0 /\ e > 0
  BY DEF QueueInv, QueueTypeOK, CopiesConsistent
<1>2. count \in Nat /\ Done <= count /\ Done \in Int /\ Message < count /\ Message \in Int
  BY MaxProducedAssumption DEF QueueInv, QueueTypeOK, Done, Message
<1>3. v \div 2 \in Nat /\ e \div 2 \in Nat /\ e \div 2 >= 1 /\ e \div 2 - 1 \in Nat /\ v % 2 \in {0, 1}
  <2>1. v \div 2 \in Nat /\ e \div 2 \in Nat /\ v % 2 \in {0, 1}
    BY <1>1, Halves
  <2>2. e \div 2 >= 1
    BY <1>1, Z3
  <2> QED BY <2>1, <2>2
<1>4. t \in Int /\ k \in Nat
  BY <1>3, LengthAssumption, Z3
<1>5. Turn(s) = t + s /\ Cursor(c) = k + s
  BY DEF Turn, Cursor
<1>6. /\ v % 2 = 0 => t + s < Done + Length
      /\ v % 2 = 0 /\ v > 0 => data[s][1] = (t + s) - Length
      /\ v % 2 = 1 => t + s = Message
  <2>1. /\ v % 2 = 0 => Turn(s) < Done + Length
        /\ v % 2 = 0 /\ v > 0 => data[s][1] = Turn(s) - Length
        /\ v % 2 = 1 => Turn(s) = Message
    BY <1>1 DEF SlotsCounted
  <2> HIDE DEF s, v, t
  <2> QED BY <1>5, <2>1
<1>7. v = e => t = k + Length
  <2>1. (e \div 2) * Length = (e \div 2 - 1) * Length + Length
    <3>1. (e \div 2 - 1) + 1 = e \div 2
      BY <1>3
    <3> QED BY <1>3, <3>1, Distribute
  <2> QED BY <2>1
<1>8. v > e => k + Length <= t
  <2> SUFFICES ASSUME v > e PROVE k + Length <= t
    OBVIOUS
  <2>1. v \div 2 >= e \div 2
    BY <1>1, HalvesOrder
  <2>2. e \div 2 - 1 < v \div 2
    BY <1>3, <2>1
  <2> QED BY <1>3, <2>2, MulMonotone
<1>9. v > e /\ v % 2 = 0 => k + Length + Length <= t
  <2> SUFFICES ASSUME v > e, v % 2 = 0 PROVE k + Length + Length <= t
    OBVIOUS
  <2>1. v \div 2 >= e \div 2 + 1
    BY <1>1, HalvesOrder
  <2> DEFINE a == e \div 2
  <2>2. a < v \div 2 /\ a \in Nat /\ a - 1 \in Nat /\ a - 1 < a
    BY <1>3, <2>1
  <2>3. a * Length + Length <= t /\ (a - 1) * Length + Length <= a * Length /\ a * Length \in Int
    BY <1>3, <2>2, MulMonotone, Distribute
  <2>4. k = (a - 1) * Length
    OBVIOUS
  <2> DEFINE b == a * Length
  <2>5. b \in Int /\ b + Length <= t /\ k + Length <= b
    BY <2>3, <2>4
  <2> HIDE DEF b, k, t, a
  <2> QED BY <1>4, <2>5, LengthAssumption
<1>10. s \in Nat
  BY <1>1, LengthAssumption DEF Slot
<1> HIDE DEF s, v, e, t, k
<1>11. Cursor(c) \in Nat
  BY <1>4, <1>5, <1>10
<1>12. v = e => data[s][1] = Cursor(c) /\ Cursor(c) < count
  <2> SUFFICES ASSUME v = e PROVE data[s][1] = Cursor(c) /\ Cursor(c) < count
    OBVIOUS
  <2>1. data[s][1] = (t + s) - Length /\ t + s < Done + Length /\ t = k + Length
    BY <1>1, <1>6, <1>7
  <2> QED BY <2>1, <1>2, <1>4, <1>5, <1>10, LengthAssumption
<1>13. v > e => Cursor(c) + Length < count
  <2>1. CASE v % 2 = 0
    BY <1>2, <1>4, <1>5, <1>6, <1>9, <1>10, <2>1, LengthAssumption
  <2>2. CASE v % 2 = 1
    BY <1>2, <1>4, <1>5, <1>6, <1>8, <1>10, <2>2, LengthAssumption
  <2> QED BY <1>3, <2>1, <2>2
<1> QED BY <1>11, <1>12, <1>13 DEF s, v, e

\* The producer raises the count and leaves the consumers alone.
LEMMA ProduceLaps ==
    ASSUME QueueInv, LapInv, Produce
    PROVE  LapInv'
<1>1. SlotsCounted'
  BY SlotsStep DEF LapInv
<1>2. UNCHANGED <<at, pos, expected, got>> /\ count \in Nat /\ count' \in Nat /\ count <= count'
  BY MaxProducedAssumption DEF QueueInv, QueueTypeOK, Produce, next_count, WriteLock, WriteWord, WriteUnlock, consumerVars
<1>3. \A c \in Consumer : Cursor(c)' = Cursor(c)
  BY <1>2 DEF Cursor
<1>4. NeverALapAhead'
  <2> SUFFICES ASSUME NEW c \in Consumer, at[c] \notin {"detached", "attaching"}
               PROVE  Cursor(c) < count' + Length
    BY <1>2, <1>3 DEF NeverALapAhead
  <2>1. Cursor(c) < count + Length /\ Cursor(c) \in Nat
    BY AtCursor DEF LapInv, NeverALapAhead
  <2> QED BY <1>2, <2>1, LengthAssumption
<1>5. BehindCursor'
  BY <1>2, <1>3 DEF LapInv, BehindCursor
<1>6. OrderedUpToLaps'
  BY <1>2 DEF LapInv, OrderedUpToLaps
<1> QED BY <1>1, <1>4, <1>5, <1>6 DEF LapInv

\* A consumer that moves, and its cursor.
LEMMA AttachedCursor ==
    ASSUME QueueInv, NEW c \in Consumer, AttachVersion(c)
    PROVE  Cursor(c)' < count' + Length
<1> DEFINE q == count \div Length  p == q * Length
<1>1. expected' = [expected EXCEPT ![c] = 2 * q + 2] /\ pos' = pos /\ count' = count
  BY DEF AttachVersion, ringVars
<1>2. count \in Nat /\ pos[c] \in Slot /\ expected \in [Consumer -> Nat]
  BY MaxProducedAssumption DEF QueueInv, QueueTypeOK
<1>3. q \in Nat /\ p \in Int /\ count = p + (count % Length) /\ count % Length \in Slot
  BY <1>2, DivMod, ModSlot
<1>4. (2 * q + 2) \div 2 - 1 = q
  BY <1>3, Z3
<1>5. Cursor(c)' = p + pos[c]
  BY <1>1, <1>2, <1>4 DEF Cursor
<1> HIDE DEF q, p
<1>6. count % Length \in Nat /\ pos[c] \in Int /\ pos[c] < Length
  BY <1>2, <1>3, LengthAssumption DEF Slot
<1>7. ASSUME NEW x \in Nat, x = count % Length PROVE p <= count
  BY <1>2, <1>3, <1>7
<1>8. p <= count
  BY <1>6, <1>7
<1> QED BY <1>1, <1>2, <1>3, <1>5, <1>6, <1>8, LengthAssumption

LEMMA NextCursor ==
    ASSUME QueueInv, NEW c \in Consumer, ReadOk(c)
    PROVE  Cursor(c)' = Cursor(c) + 1
<1> DEFINE e == expected[c]  h == e \div 2
<1>1. pos' = [pos EXCEPT ![c] = (@ + 1) % Length] /\ pos \in [Consumer -> Slot]
      /\ expected' = [expected EXCEPT ![c] = IF pos[c] + 1 = Length THEN @ + 2 ELSE @]
      /\ expected \in [Consumer -> Nat]
  BY DEF ReadOk, update_pos, QueueInv, QueueTypeOK
<1>2. pos[c] \in Nat /\ pos[c] < Length /\ e \in Nat /\ h \in Nat /\ (e + 2) \div 2 = h + 1
  BY <1>1, LengthAssumption, Halves DEF Slot
<1>3. CASE pos[c] + 1 = Length
  <2>1. pos'[c] = Length % Length /\ expected'[c] = e + 2
    BY <1>1, <1>3
  <2>2. Length % Length = 0
    BY LengthAssumption, Z3
  <2>3. expected'[c] \div 2 - 1 = (h - 1) + 1
    BY <1>2, <2>1
  <2>4. (h - 1 + 1) * Length = (h - 1) * Length + Length /\ (h - 1) * Length \in Int
    BY <1>2, Distribute
  <2>5. Cursor(c)' = (h - 1 + 1) * Length + 0 /\ Cursor(c) = (h - 1) * Length + pos[c]
    BY <2>1, <2>2, <2>3 DEF Cursor
  <2> DEFINE a == (h - 1) * Length  b == (h - 1 + 1) * Length
  <2>6. a \in Int /\ b = a + Length /\ Cursor(c)' = b + 0 /\ Cursor(c) = a + pos[c]
    BY <2>4, <2>5
  <2> HIDE DEF a, b
  <2> QED BY <1>2, <1>3, <2>6, LengthAssumption
<1>4. CASE pos[c] + 1 # Length
  <2>1. pos[c] + 1 \in Slot
    BY <1>2, <1>4, LengthAssumption DEF Slot
  <2>2. (0 * Length + (pos[c] + 1)) % Length = pos[c] + 1
    BY <2>1, ModUnique
  <2>3. 0 * Length + (pos[c] + 1) = pos[c] + 1
    BY <1>2, LengthAssumption
  <2>4. pos'[c] = pos[c] + 1 /\ expected'[c] = e
    BY <1>1, <1>4, <2>2, <2>3
  <2>5. (h - 1) * Length \in Int
    BY <1>2, Distribute
  <2> DEFINE a == (h - 1) * Length
  <2>6. a \in Int /\ Cursor(c)' = a + (pos[c] + 1) /\ Cursor(c) = a + pos[c]
    BY <2>4, <2>5 DEF Cursor
  <2> HIDE DEF a
  <2> QED BY <1>2, <2>6
<1> QED BY <1>3, <1>4

LEMMA SpedPastCursor ==
    ASSUME QueueInv, NEW c \in Consumer, ReadSpedPast(c)
    PROVE  Cursor(c)' = Cursor(c) + Length
<1> DEFINE e == expected[c]  h == e \div 2
<1>1. expected' = [expected EXCEPT ![c] = @ + 2] /\ pos' = pos
      /\ expected \in [Consumer -> Nat] /\ pos \in [Consumer -> Slot]
  BY DEF ReadSpedPast, QueueInv, QueueTypeOK
<1>2. expected'[c] = e + 2 /\ e \in Nat /\ pos[c] \in Int
  BY <1>1, LengthAssumption DEF Slot
<1>3. h \in Nat /\ expected'[c] \div 2 - 1 = (h - 1) + 1
  BY <1>2, Halves
<1> DEFINE a == (h - 1) * Length  b == (h - 1 + 1) * Length
<1>4. a \in Int /\ b = a + Length
  BY <1>3, Distribute
<1>5. Cursor(c)' = b + pos[c] /\ Cursor(c) = a + pos[c]
  BY <1>1, <1>3 DEF Cursor
<1> HIDE DEF a, b
<1> QED BY <1>2, <1>4, <1>5, LengthAssumption

LEMMA ConsumeLaps ==
    ASSUME QueueInv, LapInv, NEW c \in Consumer, Consume(c)
    PROVE  LapInv'
<1> USE DEF ringVars, Goto
<1>t. /\ at \in [Consumer -> {"detached", "attaching", "poll", "first", "second", "check"}]
      /\ pos \in [Consumer -> Slot] /\ expected \in [Consumer -> Nat]
      /\ copy \in [Consumer -> Word \X Word] /\ got \in [Consumer -> Seq(Word \X Word)]
      /\ count \in Nat
  BY MaxProducedAssumption DEF QueueInv, QueueTypeOK, Word
<1>0. UNCHANGED ringVars /\ SlotsCounted'
  <2>1. UNCHANGED ringVars
    BY DEF Consume, AttachPosition, AttachVersion, ReadVersion, CopyWord, ReadOk, ReadSpedPast
  <2>2. \A s \in Slot : Turn(s)' = Turn(s)
    BY <2>1 DEF Turn
  <2>3. Done' = Done /\ Message' = Message
    BY <2>1 DEF Done, Message
  <2> QED BY <2>1, <2>2, <2>3 DEF SlotsCounted, LapInv
\* The other consumers see nothing of it.
<1>d. ASSUME NEW d \in Consumer, d # c
      PROVE  at'[d] = at[d] /\ got'[d] = got[d] /\ Cursor(d)' = Cursor(d)
  <2>1. at'[d] = at[d] /\ got'[d] = got[d] /\ expected'[d] = expected[d] /\ pos'[d] = pos[d]
    BY <1>t, <1>d DEF Consume, AttachPosition, AttachVersion, ReadVersion, CopyWord, ReadOk,
                      ReadSpedPast, update_pos
  <2> QED BY <2>1 DEF Cursor
\* It is enough to look at c.
<1>s. SUFFICES
        /\ at'[c] \notin {"detached", "attaching"} => Cursor(c)' < count + Length
        /\ at'[c] \in {"detached", "attaching"} => got'[c] = <<>>
        /\ got'[c] # <<>> => /\ got'[c][Len(got'[c])][1] < Cursor(c)'
                             /\ (Cursor(c)' - got'[c][Len(got'[c])][1]) % Length = 1 % Length
        /\ \A i \in 2 .. Len(got'[c]) :
              /\ got'[c][i][1] - got'[c][i - 1][1] > 0
              /\ (got'[c][i][1] - got'[c][i - 1][1]) % Length = 1 % Length
  <2>1. NeverALapAhead'
    BY <1>0, <1>d, <1>s, Zenon DEF NeverALapAhead, LapInv
  <2>2. BehindCursor'
    BY <1>0, <1>d, <1>s DEF BehindCursor, LapInv
  <2>3. OrderedUpToLaps'
    BY <1>0, <1>d, <1>s DEF OrderedUpToLaps, LapInv
  <2> QED BY <1>0, <2>1, <2>2, <2>3, Zenon DEF LapInv
<1>o. /\ at[c] \notin {"detached", "attaching"} => Cursor(c) < count + Length
      /\ at[c] \in {"detached", "attaching"} => got[c] = <<>>
      /\ got[c] # <<>> => /\ got[c][Len(got[c])][1] < Cursor(c)
                          /\ (Cursor(c) - got[c][Len(got[c])][1]) % Length = 1 % Length
      /\ \A i \in 2 .. Len(got[c]) :
              /\ got[c][i][1] - got[c][i - 1][1] > 0
              /\ (got[c][i][1] - got[c][i - 1][1]) % Length = 1 % Length
  BY Zenon DEF LapInv, NeverALapAhead, BehindCursor, OrderedUpToLaps
<1>1. CASE AttachPosition(c)
  <2>1. at'[c] = "attaching" /\ got' = got /\ at[c] = "detached" /\ got[c] = <<>>
    BY <1>1, <1>t, <1>o DEF AttachPosition
  <2> QED BY <1>o, <2>1
<1>2. CASE AttachVersion(c)
  <2>1. at'[c] = "poll" /\ got' = got /\ at[c] = "attaching" /\ got[c] = <<>>
    BY <1>2, <1>t, <1>o DEF AttachVersion
  <2>2. Cursor(c)' < count + Length
    BY <1>0, <1>2, AttachedCursor
  <2> QED BY <1>o, <2>1, <2>2
<1>3. CASE \/ ReadVersion(c) \/ CopyWord(c, 1, "first", "second")
           \/ CopyWord(c, 2, "second", "check")
  <2>1. UNCHANGED <<pos, expected, got>> /\ at[c] \notin {"detached", "attaching"}
        /\ at'[c] \notin {"detached", "attaching"}
    BY <1>3, <1>t, Zenon DEF ReadVersion, CopyWord
  <2>2. Cursor(c)' = Cursor(c)
    BY <2>1 DEF Cursor
  <2> QED BY <1>o, <2>1, <2>2
<1>4. CASE ReadOk(c)
  <2>1. /\ at[c] = "check" /\ at'[c] = "poll" /\ version[pos[c]] = expected[c]
        /\ got'[c] = Append(got[c], copy[c])
    BY <1>4, <1>t DEF ReadOk
  <2>2. Cursor(c)' = Cursor(c) + 1
    BY <1>4, NextCursor
  <2>3. Cursor(c) \in Nat /\ data[pos[c]][1] = Cursor(c) /\ Cursor(c) < count
    BY <2>1, AtCursor, Zenon DEF LapInv
  <2>4. copy[c][1] = Cursor(c)
    BY <2>1, <2>3 DEF QueueInv, CopiesConsistent
  <2>5. /\ got[c] \in Seq(Word \X Word) /\ copy[c] \in Word \X Word
        /\ Len(got'[c]) = Len(got[c]) + 1 /\ Len(got[c]) \in Nat
        /\ got'[c][Len(got[c]) + 1] = copy[c]
        /\ \A i \in 1 .. Len(got[c]) : got'[c][i] = got[c][i]
    BY <1>t, <2>1
  <2>6. Cursor(c)' < count + Length
    BY <1>t, <2>2, <2>3, LengthAssumption
  <2>7. Cursor(c)' - Cursor(c) = 1 /\ Cursor(c) < Cursor(c)'
    BY <2>2, <2>3
  <2>8. ASSUME NEW i \in 2 .. Len(got'[c])
        PROVE  /\ got'[c][i][1] - got'[c][i - 1][1] > 0
               /\ (got'[c][i][1] - got'[c][i - 1][1]) % Length = 1 % Length
    <3>1. CASE i = Len(got[c]) + 1
      <4>1. Len(got[c]) \in 1 .. Len(got[c]) /\ i - 1 = Len(got[c]) /\ got[c] # <<>>
        BY <2>5, <3>1
      <4>2. got'[c][i] = copy[c] /\ got'[c][i - 1] = got[c][Len(got[c])]
        BY <2>5, <3>1, <4>1
      <4>3. got[c][Len(got[c])][1] \in Nat
        BY <4>1 DEF QueueInv, WholeMessages
      <4>4. /\ got[c][Len(got[c])][1] < Cursor(c)
            /\ (Cursor(c) - got[c][Len(got[c])][1]) % Length = 1 % Length
        BY <1>o, <4>1
      <4>5. got'[c][i][1] = Cursor(c) /\ got'[c][i - 1][1] = got[c][Len(got[c])][1]
        BY <2>4, <4>2
      <4> QED BY <2>3, <4>3, <4>4, <4>5
    <3>2. CASE i # Len(got[c]) + 1
      <4>1. i \in 2 .. Len(got[c]) /\ i \in 1 .. Len(got[c]) /\ i - 1 \in 1 .. Len(got[c])
        BY <2>5, <3>2
      <4>2. got'[c][i] = got[c][i] /\ got'[c][i - 1] = got[c][i - 1]
        BY <2>5, <4>1
      <4> QED BY <1>o, <4>1, <4>2
    <3> QED BY <3>1, <3>2
  <2>9. got'[c][Len(got'[c])][1] = Cursor(c)
    BY <2>4, <2>5
  <2> QED BY <2>1, <2>6, <2>7, <2>8, <2>9, Zenon
<1>5. CASE ReadSpedPast(c)
  <2>1. /\ at[c] = "check" /\ at'[c] = "poll" /\ version[pos[c]] # expected[c] /\ got' = got
    BY <1>5, <1>t DEF ReadSpedPast
  <2>2. version[pos[c]] > expected[c]
    BY <1>t, <2>1 DEF QueueInv, QueueTypeOK, CopiesConsistent
  <2>3. Cursor(c)' = Cursor(c) + Length
    BY <1>5, SpedPastCursor
  <2>4. Cursor(c) \in Nat /\ Cursor(c) + Length < count
    BY <2>1, <2>2, AtCursor, Zenon DEF LapInv
  <2>5. Cursor(c)' < count + Length
    BY <1>t, <2>3, <2>4, LengthAssumption
  <2>6. ASSUME got[c] # <<>>
        PROVE  /\ got[c][Len(got[c])][1] < Cursor(c)'
               /\ (Cursor(c)' - got[c][Len(got[c])][1]) % Length = 1 % Length
    <3> DEFINE g == got[c][Len(got[c])][1]  d == Cursor(c) - g
    <3>1. Len(got[c]) \in 1 .. Len(got[c])
      BY <1>t, <2>6
    <3>2. g \in Nat /\ g < Cursor(c) /\ d % Length = 1 % Length
      BY <1>o, <2>6, <3>1, Zenon DEF QueueInv, WholeMessages
    <3>3. d \in Nat /\ Cursor(c)' - g = d + Length /\ g < Cursor(c)'
      <4> HIDE DEF g
      <4> QED BY <2>3, <2>4, <3>2, LengthAssumption
    <3>4. (d + Length) % Length = d % Length
      BY <3>3, AddLap
    <3> QED BY <3>2, <3>3, <3>4, Zenon
  <2> QED BY <1>o, <2>1, <2>5, <2>6, Zenon
<1> QED BY <1>1, <1>2, <1>3, <1>4, <1>5, Zenon DEF Consume

LEMMA LapsInvariant == QueueSpec => []LapInv
<1>1. QueueInv /\ LapInv /\ [QueueNext]_queueVars => LapInv'
  <2> SUFFICES ASSUME QueueInv, LapInv, [QueueNext]_queueVars PROVE LapInv'
      OBVIOUS
  <2>1. CASE UNCHANGED queueVars
    BY <2>1, Zenon DEF queueVars, ringVars, consumerVars, LapInv, SlotsCounted, NeverALapAhead,
                BehindCursor, OrderedUpToLaps, Turn, Done, Message, Cursor
  <2> QED BY <2>1, ProduceLaps, ConsumeLaps DEF QueueNext
<1> QED BY InitInv, LapInit, QueueStep, <1>1, PTL DEF QueueSpec

\* What a consumer gets comes in the order in which it was produced, none of it twice,
\* and what it misses is whole laps of the ring: for every length of the ring.
THEOREM ReadsInOrder == QueueSpec => []OrderedUpToLaps
<1>1. LapInv => OrderedUpToLaps
  BY DEF LapInv
<1> QED BY LapsInvariant, <1>1, PTL

\* A consumer never waits for a message that is a lap or more away, wherever the two
\* reads of the count found the producer when it attached.
THEOREM WaitsWithinALap == QueueSpec => []NeverALapAhead
<1>1. LapInv => NeverALapAhead
  BY DEF LapInv
<1> QED BY LapsInvariant, <1>1, PTL
=============================================================================
