------------------------------ MODULE Pipe_proofs ------------------------------
(***************************************************************************)
(* Pipe keeps its segments, its counts and its stream, holds back its      *)
(* writer, forgets neither end, and implements ByteStream.                 *)
(*                                                                         *)
(* The invariant says what the pipe holds of the stream (HasData, of       *)
(* Pipe_steps), how the flags go with where the two ends are, and, for     *)
(* each event that is not set, who is going to set it.                     *)
(***************************************************************************)
EXTENDS Pipe_steps

Holds == \E h, m : HasData(p, reader, h, m, written)

Completed == {"freeing", "notifying", "done"}

\* The flags of completion, the events and where the two ends are.
Control ==
    /\ p.writerComplete <=> writer.at \in Completed
    /\ p.readerComplete <=> reader.at \in Completed
    /\ writer.at = "freeing" \/ reader.at = "freeing" \/ p.lastExamined = -1 => p.writerComplete /\ p.readerComplete
    /\ p.writerComplete => ~p.writing
    /\ writer.at \in {"idle", "resumed", "scheduling", "leaving"} => isSet["writer"]
    /\ writer.at = "waiting" => ~isSet["writer"]
    /\ reader.at = "waiting" => ~isSet["reader"]
    /\ p.notFlushed <= MaxUnflushed

\* While the writer's event is not set, somebody is going to set it.
Room ==
    ~isSet["writer"] /\ ~p.writerComplete =>
        \/ p.notConsumed >= ResumeWriterThreshold /\ ~p.readerComplete
        \/ pending["writer"] > 0
        \/ reader.at \in {"signalling", "notifying"}

\* The jobs that will set the writer's event, the one included that is not scheduled yet.
Signals == pending["writer"] + IF reader.at = "signalling" THEN 1 ELSE 0

\* For equal thresholds there is one of them exactly when there is room.
Pressure ==
    ResumeWriterThreshold = PauseWriterThreshold /\ PauseWriterThreshold > 0 /\ ~p.readerComplete =>
        IF isSet["writer"] THEN Signals = 0 /\ p.notConsumed < PauseWriterThreshold
        ELSE Signals = IF p.notConsumed < PauseWriterThreshold THEN 1 ELSE 0

\* One flush alone does not reach the threshold.
FlushesFit == PauseWriterThreshold = 0 \/ MaxUnflushed < PauseWriterThreshold

\* While the reader's event is not set, and there is something to read or nothing more
\* will come, somebody is going to set it.
Woken ==
    FlushesFit /\ ~isSet["reader"] /\ ~p.readerComplete =>
        IF p.writerComplete THEN pending["reader"] > 0 \/ writer.at = "notifying"
        ELSE p.notConsumed > 0 => pending["reader"] > 0 \/ (writer.at = "scheduling" /\ writer.wakes)

IInv == TypeOK /\ Holds /\ Control /\ Room /\ Pressure /\ Woken

-----------------------------------------------------------------------------
(* Types.                                                                  *)

WriterType == [at : {"idle", "awaiting", "waiting", "resumed", "scheduling", "leaving",
                     "freeing", "notifying", "done"}, wakes : BOOLEAN, ended : BOOLEAN]
ReaderType == [at : {"idle", "waiting", "reading", "holding", "signalling", "leaving",
                     "freeing", "notifying", "done"},
               begin : PositionType, end : PositionType, ended : BOOLEAN]

\* The types of the variables and of their fields.
LEMMA Types ==
    ASSUME TypeOK
    PROVE  /\ p \in PipeType /\ isSet \in [Events -> BOOLEAN] /\ pending \in [Events -> Nat] /\ stop \in BOOLEAN
           /\ writer \in WriterType /\ reader \in ReaderType /\ written \in 0 .. MaxBytes /\ written \in Nat
           /\ p.notConsumed \in Nat /\ p.notFlushed \in Nat /\ p.lastExamined \in Nat \cup {-1}
           /\ p.writing \in BOOLEAN /\ p.writerComplete \in BOOLEAN /\ p.readerComplete \in BOOLEAN
           /\ pending["writer"] \in Nat /\ pending["reader"] \in Nat
           /\ isSet["writer"] \in BOOLEAN /\ isSet["reader"] \in BOOLEAN
           /\ ResumeWriterThreshold \in Nat /\ PauseWriterThreshold \in Nat /\ MaxUnflushed \in Nat
           /\ ResumeWriterThreshold <= PauseWriterThreshold
<1>1. /\ p \in PipeType /\ isSet \in [Events -> BOOLEAN] /\ pending \in [Events -> Nat] /\ stop \in BOOLEAN
      /\ writer \in WriterType /\ reader \in ReaderType /\ written \in 0 .. MaxBytes
  BY DEF TypeOK, WriterType, ReaderType
<1>2. /\ p.notConsumed \in Nat /\ p.notFlushed \in Nat /\ p.lastExamined \in Nat \cup {-1}
      /\ p.writing \in BOOLEAN /\ p.writerComplete \in BOOLEAN /\ p.readerComplete \in BOOLEAN
  BY <1>1, PipeFields
<1>3. /\ pending["writer"] \in Nat /\ pending["reader"] \in Nat
      /\ isSet["writer"] \in BOOLEAN /\ isSet["reader"] \in BOOLEAN
  BY <1>1 DEF Events
<1> QED BY <1>1, <1>2, <1>3, SizesAssumption

\* And from these back, before a step and after it.
LEMMA TypesAre ==
    ASSUME p \in PipeType, isSet \in [Events -> BOOLEAN], pending \in [Events -> Nat], stop \in BOOLEAN,
           writer \in WriterType, reader \in ReaderType, written \in 0 .. MaxBytes
    PROVE  TypeOK
BY DEF TypeOK, WriterType, ReaderType

LEMMA TypesAfter ==
    ASSUME p' \in PipeType, isSet' \in [Events -> BOOLEAN], pending' \in [Events -> Nat], stop' \in BOOLEAN,
           writer' \in WriterType, reader' \in ReaderType, written' \in 0 .. MaxBytes
    PROVE  TypeOK'
BY DEF TypeOK, WriterType, ReaderType

-----------------------------------------------------------------------------
(* Initially.                                                              *)

\* An empty list holds nothing of the stream.
LEMMA InitData == Init => HasData(p, reader, 0, 0, 0) /\ written = 0
<1> SUFFICES ASSUME Init PROVE HasData(p, reader, 0, 0, 0) /\ written = 0
  OBVIOUS
<1> DEFINE L == [n \in Nat |-> Null]
<1>1. /\ \A s \in Segments : p.segments[s] = EmptySegment
      /\ p.segments = [s \in Segments |-> EmptySegment]
      /\ p.allocated = {} /\ p.pool = <<>> /\ p.notConsumed = 0 /\ p.notFlushed = 0 /\ p.buffered = 0
      /\ p.lastExamined = 0 /\ p.readingHead = NoPosition /\ p.readingTail = NoPosition
      /\ p.writingHead = Null /\ p.memory = NoMemory /\ p.writing = FALSE
      /\ reader.at = "idle" /\ written = 0
  BY DEF Init
<1>2. EmptySegment \in SegmentType /\ NoPosition \in PositionType /\ NoMemory \in MemoryType
      /\ <<>> \in Seq(Segments) /\ Len(<<>>) = 0 /\ NoPosition.segment = Null
  <2>1. <<>> \in Seq(Nat) /\ <<>> \in Seq(Segments) /\ Len(<<>>) = 0
    BY EmptySeq
  <2> QED BY <2>1 DEF EmptySegment, SegmentType, NoPosition, Position, PositionType, NoMemory, MemoryType
<1>3. p \in PipeType
  <2> DEFINE all == [s \in Segments |-> EmptySegment]
  <2>1. all \in [Segments -> SegmentType]
    BY <1>2
  <2>2. p = [segments |-> all,
             allocated |-> {}, pool |-> <<>>,
             notConsumed |-> 0, notFlushed |-> 0, buffered |-> 0, lastExamined |-> 0,
             readingHead |-> NoPosition, readingTail |-> NoPosition,
             writingHead |-> Null, memory |-> NoMemory, writing |-> FALSE,
             writerComplete |-> FALSE, readerComplete |-> FALSE]
    BY DEF Init
  <2> HIDE DEF all
  <2> QED BY <1>2, <2>1, <2>2 DEF PipeType
<1>4. \A i \in 1 .. 0 : FALSE
  OBVIOUS
<1>5. Stored(p, L, 1, 0, 0)
  <2>1. SegmentsTyped(p) /\ p.buffered \in Nat
    BY <1>3, PipeFields
  <2>2. L \in Lists
    BY DEF Lists, Pointers
  <2>3. Linked(p, L, 1, 0)
    BY <1>1, <1>4 DEF Linked
  <2>4. Indexed(p, L, 1, 0) /\ Filling(p, L, 1, 0, 0)
    BY <1>4 DEF Indexed, Filling
  <2> QED BY <2>1, <2>2, <2>3, <2>4 DEF Stored
<1>6. Pooled(p, L, 1, 0)
  <2>1. ToSet(<<>>) = {} /\ {L[i] : i \in 1 .. 0} = {} /\ IsInjective(<<>>)
    BY <1>4 DEF ToSet, IsInjective
  <2> QED BY <1>1, <1>2, <2>1, SizesAssumption DEF Pooled
<1>7. Vacant(p, 0, 0, 0, 0)
  BY <1>1, <1>2 DEF Vacant
<1>8. Lent(p, L, 1, 0, 0, 0)
  BY <1>1 DEF Lent, NoMemory
<1>9. Held(p, reader, L, 1, 0, 0)
  BY <1>1 DEF Held
<1>10. Data(p, reader, L, 1, 0, 0, 0, 0, 0, 0)
  BY <1>3, <1>5, <1>6, <1>7, <1>8, <1>9 DEF Data
<1> QED BY <1>1, <1>10 DEF HasData

LEMMA InitIInv == Init => IInv
<1> SUFFICES ASSUME Init PROVE IInv
  OBVIOUS
<1>1. Holds
  BY InitData DEF Holds
<1>2. p \in PipeType
  BY <1>1 DEF Holds, HasData, Data
<1>3. NoPosition \in PositionType
  BY DEF NoPosition, Position, PositionType
<1>4. /\ isSet = [e \in Events |-> e = "writer"] /\ pending = [e \in Events |-> 0] /\ stop = FALSE
      /\ writer = [at |-> "idle", wakes |-> FALSE, ended |-> FALSE]
      /\ reader = [at |-> "idle", begin |-> NoPosition, end |-> NoPosition, ended |-> FALSE]
      /\ written = 0
      /\ p.writerComplete = FALSE /\ p.readerComplete = FALSE /\ p.lastExamined = 0 /\ p.writing = FALSE
      /\ p.notFlushed = 0 /\ p.notConsumed = 0
  BY DEF Init
<1>5. TypeOK
  <2>1. writer \in WriterType /\ reader \in ReaderType
    BY <1>3, <1>4 DEF WriterType, ReaderType
  <2>2. isSet \in [Events -> BOOLEAN] /\ pending \in [Events -> Nat] /\ written \in 0 .. MaxBytes
    BY <1>4, SizesAssumption
  <2> QED BY <1>2, <1>4, <2>1, <2>2, TypesAre
<1>6. isSet["writer"] = TRUE /\ isSet["reader"] = FALSE /\ pending["writer"] = 0 /\ pending["reader"] = 0
  BY <1>4 DEF Events
<1>7. Control /\ Room
  BY <1>4, <1>6, SizesAssumption DEF Control, Room, Completed
<1>8. Pressure
  BY <1>4, <1>6, SizesAssumption DEF Pressure, Signals
<1>9. Woken
  BY <1>4, <1>6 DEF Woken
<1> QED BY <1>1, <1>5, <1>7, <1>8, <1>9 DEF IInv

-----------------------------------------------------------------------------
(* The writer's steps.                                                     *)

LEMMA GetMemoryStep ==
    ASSUME IInv, NEW hint \in Hints, GetMemory(hint)
    PROVE  IInv'
<1>1. TypeOK /\ Holds /\ Control /\ Room /\ Pressure /\ Woken
  BY DEF IInv
<1>2. /\ writer.at = "idle" /\ p' = AllocateWritingHead(p, hint) /\ HasRoom(p)
      /\ isSet' = isSet /\ pending' = pending /\ stop' = stop /\ writer' = writer /\ reader' = reader
      /\ written' = written
  BY DEF GetMemory, HasRoom
<1>3. p.lastExamined # -1 /\ ~p.writerComplete
  BY <1>1, <1>2 DEF Control, Completed
<1>4. PICK h, m : HasData(p, reader, h, m, written)
  BY <1>1 DEF Holds
<1>5. HasData(p', reader, h, m, written) /\ SameCounts(p', p) /\ p'.lastExamined # -1
  <2>1. hint \in Nat
    BY SizesAssumption
  <2> DEFINE v == AllocateWritingHead(p, hint)
  <2>2. HasData(v, reader, h, m, written) /\ SameCounts(v, p) /\ v.lastExamined # -1
    BY <1>2, <1>3, <1>4, <2>1, AllocateData
  <2>3. p' = v
    BY <1>2
  <2> HIDE DEF v
  <2> QED BY <2>2, <2>3
<1>6. Holds'
  BY <1>2, <1>5 DEF Holds
<1>7. p' \in PipeType
  BY <1>5 DEF HasData, Data
<1>8. TypeOK'
  BY <1>1, <1>2, <1>7 DEF TypeOK
<1>9. /\ p'.notConsumed = p.notConsumed /\ p'.notFlushed = p.notFlushed
      /\ p'.writerComplete = p.writerComplete /\ p'.readerComplete = p.readerComplete
  BY <1>5 DEF SameCounts
<1>10. Control' /\ Room' /\ Woken'
  BY <1>1, <1>2, <1>3, <1>5, <1>9 DEF Control, Room, Woken, Completed
<1>11. Pressure'
  BY <1>1, <1>2, <1>9 DEF Pressure, Signals
<1> QED BY <1>6, <1>8, <1>10, <1>11 DEF IInv

LEMMA AdvanceStep ==
    ASSUME IInv, NEW n \in 1 .. MaxUnflushed, Advance(n)
    PROVE  IInv'
<1>1. TypeOK /\ Holds /\ Control /\ Room /\ Pressure /\ Woken
  BY DEF IInv
<1>2. /\ writer.at = "idle" /\ p.writing /\ n <= p.memory.length /\ p.notFlushed + n <= MaxUnflushed
      /\ written + n <= MaxBytes /\ p' = Put(p, written, n)
      /\ isSet' = isSet /\ pending' = pending /\ stop' = stop /\ writer' = writer /\ reader' = reader
      /\ written' = written + n
  BY DEF Advance, Put
<1>3. p.lastExamined # -1 /\ ~p.writerComplete
  BY <1>1, <1>2 DEF Control, Completed
<1>4. PICK h, m : HasData(p, reader, h, m, written)
  BY <1>1 DEF Holds
<1>5. n \in Nat /\ n > 0
  BY SizesAssumption
<1>6. /\ HasData(p', reader, h, m, written + n)
      /\ p'.notConsumed = p.notConsumed /\ p'.notFlushed = p.notFlushed + n /\ p'.lastExamined = p.lastExamined
      /\ p'.writerComplete = p.writerComplete /\ p'.readerComplete = p.readerComplete
  <2> DEFINE v == Put(p, written, n)
  <2>1. /\ HasData(v, reader, h, m, written + n)
        /\ v.notConsumed = p.notConsumed /\ v.notFlushed = p.notFlushed + n /\ v.lastExamined = p.lastExamined
        /\ v.writerComplete = p.writerComplete /\ v.readerComplete = p.readerComplete
    BY <1>2, <1>4, <1>5, PutData
  <2>2. p' = v
    BY <1>2
  <2> HIDE DEF v
  <2> QED BY <2>1, <2>2
<1>7. Holds'
  BY <1>2, <1>6 DEF Holds
<1>8. p' \in PipeType
  BY <1>6 DEF HasData, Data
<1>9. TypeOK'
  <2>1. written' \in 0 .. MaxBytes
    BY <1>1, <1>2, <1>5 DEF TypeOK
  <2> QED BY <1>1, <1>2, <1>8, <2>1 DEF TypeOK
<1>10. Control' /\ Room' /\ Woken'
  BY <1>1, <1>2, <1>3, <1>6 DEF Control, Room, Woken, Completed
<1>11. Pressure'
  BY <1>1, <1>2, <1>6 DEF Pressure, Signals
<1> QED BY <1>7, <1>9, <1>10, <1>11 DEF IInv

\* Once committed, the bytes are counted as flushed.
LEMMA CommitFacts ==
    ASSUME IInv, writer.at \in {"idle", "leaving"}
    PROVE  LET v == Commit(p)
           IN  /\ \E h : HasData(v, reader, h, written, written)
               /\ v.notConsumed = p.notConsumed + p.notFlushed /\ v.notFlushed = 0 /\ ~v.writing
               /\ v.lastExamined = p.lastExamined /\ p.lastExamined # -1
               /\ v.writerComplete = p.writerComplete /\ v.readerComplete = p.readerComplete
               /\ ~p.writerComplete /\ isSet["writer"]
<1> DEFINE v == Commit(p)
<1>1. Holds /\ Control
  BY DEF IInv
<1>2. PICK h, m : HasData(p, reader, h, m, written)
  BY <1>1 DEF Holds
<1>3. /\ HasData(v, reader, h, written, written)
      /\ v.notConsumed = p.notConsumed + p.notFlushed /\ v.notFlushed = 0 /\ ~v.writing
      /\ v.lastExamined = p.lastExamined
      /\ v.writerComplete = p.writerComplete /\ v.readerComplete = p.readerComplete
  BY <1>2, CommitData
<1> HIDE DEF v
<1>4. ~p.writerComplete /\ isSet["writer"] /\ p.lastExamined # -1
  BY <1>1 DEF Control, Completed
<1> QED BY <1>3, <1>4 DEF v

\* The writer's event after Commit, and what that means for the reader's and the writer's waiting.
LEMMA PauseFacts ==
    ASSUME IInv, writer.at \in {"idle", "leaving"}, isSet' = IsSetAfterCommit,
           p'.notConsumed = p.notConsumed + p.notFlushed, p'.readerComplete = p.readerComplete,
           pending' = pending, reader' = reader
    PROVE  /\ isSet' \in [Events -> BOOLEAN] /\ isSet'["reader"] = isSet["reader"]
           /\ ~isSet'["writer"] => p'.notConsumed >= ResumeWriterThreshold /\ ~p.readerComplete
           /\ Pressure'
           /\ ~isSet'["writer"] /\ FlushesFit => p.notConsumed > 0
           /\ p.notFlushed = 0 => isSet'["writer"] /\ p'.notConsumed = p.notConsumed
<1>1. TypeOK /\ Control /\ Pressure
  BY DEF IInv
<1>2. /\ isSet \in [Events -> BOOLEAN] /\ isSet["writer"] /\ p.notConsumed \in Nat /\ p.notFlushed \in Nat
      /\ ResumeWriterThreshold \in Nat /\ PauseWriterThreshold \in Nat /\ MaxUnflushed \in Nat
      /\ ResumeWriterThreshold <= PauseWriterThreshold /\ p.notFlushed <= MaxUnflushed
      /\ p.readerComplete \in BOOLEAN /\ pending["writer"] \in Nat
  BY <1>1, Types DEF Control
<1>3. /\ isSet' \in [Events -> BOOLEAN] /\ isSet'["reader"] = isSet["reader"]
      /\ isSet'["writer"] = ~Pauses(p)
  BY <1>2 DEF IsSetAfterCommit, Events
<1>4. Pauses(p) => /\ p.notFlushed > 0 /\ PauseWriterThreshold > 0 /\ ~p.readerComplete
                   /\ p.notConsumed < PauseWriterThreshold /\ p'.notConsumed >= PauseWriterThreshold
  BY DEF Pauses
<1>5. ~isSet'["writer"] => p'.notConsumed >= ResumeWriterThreshold /\ ~p.readerComplete
  BY <1>2, <1>3, <1>4
<1>6. ~isSet'["writer"] /\ FlushesFit => p.notConsumed > 0
  BY <1>2, <1>3, <1>4 DEF FlushesFit
<1>7. p.notFlushed = 0 => isSet'["writer"] /\ p'.notConsumed = p.notConsumed
  BY <1>2, <1>3, <1>4
<1>8. Pressure'
  <2> SUFFICES ASSUME ResumeWriterThreshold = PauseWriterThreshold, PauseWriterThreshold > 0, ~p.readerComplete
               PROVE  /\ isSet'["writer"] => Signals' = 0 /\ p'.notConsumed < PauseWriterThreshold
                      /\ ~isSet'["writer"] => Signals' = 0 /\ ~(p'.notConsumed < PauseWriterThreshold)
    BY DEF Pressure
  <2>1. Signals = 0 /\ p.notConsumed < PauseWriterThreshold
    BY <1>1, <1>2 DEF Pressure
  <2>2. Signals' = 0
    BY <2>1 DEF Signals
  <2>3. CASE Pauses(p)
    <3>1. ~isSet'["writer"] /\ p'.notConsumed >= PauseWriterThreshold
      BY <1>3, <1>4, <2>3
    <3>2. ~(p'.notConsumed < PauseWriterThreshold)
      BY <1>2, <3>1
    <3> QED BY <2>2, <3>1, <3>2
  <2>4. CASE ~Pauses(p)
    <3>1. isSet'["writer"]
      BY <1>3, <2>4
    <3>2. p.notFlushed = 0 \/ p.notConsumed + p.notFlushed < PauseWriterThreshold
      BY <1>2, <2>1, <2>4 DEF Pauses
    <3>3. p'.notConsumed < PauseWriterThreshold
      BY <1>2, <2>1, <3>2
    <3> QED BY <2>2, <3>1, <3>3
  <2> QED BY <2>3, <2>4
<1> QED BY <1>3, <1>5, <1>6, <1>7, <1>8

LEMMA FlushStep ==
    ASSUME IInv, FlushAsync
    PROVE  IInv'
<1>1. TypeOK /\ Holds /\ Control /\ Room /\ Pressure /\ Woken
  BY DEF IInv
<1> DEFINE some == p.notFlushed > 0
           ended == p.readerComplete \/ stop
           not == FALSE
<1>2. /\ writer.at = "idle" /\ p' = Commit(p) /\ isSet' = IsSetAfterCommit
      /\ pending' = pending /\ stop' = stop /\ reader' = reader /\ written' = written
      /\ isSet'["writer"] => writer' = [at |-> "scheduling", wakes |-> some, ended |-> ended]
      /\ ~isSet'["writer"] => writer' = [at |-> "awaiting", wakes |-> some, ended |-> not]
  BY DEF FlushAsync, Flushed
<1>0. some \in BOOLEAN /\ ended \in BOOLEAN /\ not \in BOOLEAN /\ (p.notFlushed > 0 => some)
  OBVIOUS
<1> HIDE DEF some, ended, not
<1>3. /\ \E h : HasData(p', reader, h, written, written)
      /\ p'.notConsumed = p.notConsumed + p.notFlushed /\ p'.notFlushed = 0 /\ ~p'.writing
      /\ p'.lastExamined = p.lastExamined /\ p.lastExamined # -1
      /\ p'.writerComplete = p.writerComplete /\ p'.readerComplete = p.readerComplete
      /\ ~p.writerComplete /\ isSet["writer"]
  <2>1. writer.at \in {"idle", "leaving"}
    BY <1>2
  <2> QED BY <1>2, <2>1, CommitFacts
<1>4. /\ isSet' \in [Events -> BOOLEAN] /\ isSet'["reader"] = isSet["reader"]
      /\ ~isSet'["writer"] => p'.notConsumed >= ResumeWriterThreshold /\ ~p.readerComplete
      /\ Pressure'
      /\ ~isSet'["writer"] /\ FlushesFit => p.notConsumed > 0
      /\ p.notFlushed = 0 => isSet'["writer"] /\ p'.notConsumed = p.notConsumed
  BY <1>2, <1>3, PauseFacts
<1>5. Holds'
  BY <1>2, <1>3 DEF Holds
<1>6. p' \in PipeType
  BY <1>3 DEF HasData, Data
<1>7. p.notFlushed \in Nat /\ p.notConsumed \in Nat /\ pending["reader"] \in Nat /\ MaxUnflushed \in Nat /\ stop \in BOOLEAN
      /\ p.readerComplete \in BOOLEAN
  BY <1>1, Types
<1>8. TypeOK'
  <2>1. writer' \in WriterType
    <3>1. CASE isSet'["writer"]
      BY <1>0, <1>2, <3>1 DEF WriterType
    <3>2. CASE ~isSet'["writer"]
      BY <1>0, <1>2, <3>2 DEF WriterType
    <3> QED BY <3>1, <3>2
  <2>2. reader' \in ReaderType /\ pending' \in [Events -> Nat] /\ stop' \in BOOLEAN /\ written' \in 0 .. MaxBytes
    BY <1>1, <1>2, Types
  <2> QED BY <1>4, <1>6, <2>1, <2>2, TypesAfter
<1>9. /\ isSet'["writer"] => writer'.at = "scheduling" /\ (p.notFlushed > 0 => writer'.wakes)
      /\ ~isSet'["writer"] => writer'.at = "awaiting"
  BY <1>0, <1>2
<1>10. Control'
  <2>1. /\ writer'.at \notin Completed /\ writer.at \notin Completed /\ writer'.at # "waiting"
        /\ writer'.at \in {"idle", "resumed", "scheduling", "leaving"} => isSet'["writer"]
    BY <1>2, <1>9 DEF Completed
  <2>2. p'.notFlushed <= MaxUnflushed
    BY <1>3, <1>7
  <2> QED BY <1>1, <1>2, <1>3, <1>4, <2>1, <2>2 DEF Control, Completed
<1>11. Room'
  BY <1>3, <1>4 DEF Room
<1>12. Woken'
  <2> SUFFICES ASSUME FlushesFit, ~isSet["reader"], ~p.readerComplete, p'.notConsumed > 0
               PROVE  pending["reader"] > 0 \/ (writer'.at = "scheduling" /\ writer'.wakes)
    BY <1>2, <1>3, <1>4 DEF Woken
  <2>1. p.notConsumed > 0 => pending["reader"] > 0
    BY <1>1, <1>2, <1>3 DEF Woken
  <2>2. CASE p.notFlushed = 0
    BY <1>4, <2>1, <2>2
  <2>3. CASE p.notFlushed # 0
    <3>1. p.notFlushed > 0
      BY <1>7, <2>3
    <3> QED BY <1>4, <1>9, <2>1, <3>1
  <2> QED BY <2>2, <2>3
<1> QED BY <1>4, <1>5, <1>8, <1>10, <1>11, <1>12 DEF IInv

LEMMA CompleteWriterStep ==
    ASSUME IInv, CompleteWriter
    PROVE  IInv'
<1>1. TypeOK /\ Holds /\ Control /\ Room /\ Pressure /\ Woken
  BY DEF IInv
<1> DEFINE v == Commit(p)
           at == IF p.readerComplete THEN "freeing" ELSE "notifying"
<1>2. /\ writer.at \in {"idle", "leaving"} /\ p' = [v EXCEPT !.writerComplete = TRUE] /\ isSet' = IsSetAfterCommit
      /\ writer' = [writer EXCEPT !.at = at]
      /\ pending' = pending /\ stop' = stop /\ reader' = reader /\ written' = written
  BY DEF CompleteWriter
<1>3. /\ \E h : HasData(v, reader, h, written, written)
      /\ v.notConsumed = p.notConsumed + p.notFlushed /\ v.notFlushed = 0 /\ ~v.writing
      /\ v.lastExamined = p.lastExamined /\ p.lastExamined # -1
      /\ v.writerComplete = p.writerComplete /\ v.readerComplete = p.readerComplete
      /\ ~p.writerComplete /\ isSet["writer"]
  BY <1>2, CommitFacts
<1> HIDE DEF v
<1>4. v \in PipeType
  BY <1>3 DEF HasData, Data
<1>5. p' \in PipeType
  BY <1>2, <1>4 DEF PipeType
<1>6. /\ p'.segments = v.segments /\ p'.allocated = v.allocated /\ p'.pool = v.pool /\ SameContents(p', v)
      /\ p'.writerComplete = TRUE /\ p'.readerComplete = v.readerComplete
  BY <1>2, <1>4 DEF PipeType, SameContents
<1>7. Holds'
  <2>1. PICK h : HasData(v, reader, h, written, written)
    BY <1>3
  <2>2. HasData(p', reader, h, written, written)
    BY <1>5, <1>6, <2>1, MarkData
  <2> QED BY <1>2, <2>2 DEF Holds
<1>8. /\ p'.notConsumed = p.notConsumed + p.notFlushed /\ p'.readerComplete = p.readerComplete
      /\ p'.notFlushed = 0 /\ p'.writing = v.writing /\ p'.lastExamined # -1
  BY <1>3, <1>6 DEF SameContents
<1>9. /\ isSet' \in [Events -> BOOLEAN] /\ isSet'["reader"] = isSet["reader"] /\ Pressure'
  BY <1>2, <1>8, PauseFacts
<1>10. writer \in WriterType /\ p.readerComplete \in BOOLEAN /\ MaxUnflushed \in Nat
  BY <1>1, Types
<1>11. TypeOK'
  <2>1. writer' \in WriterType
    BY <1>2, <1>10 DEF WriterType
  <2>2. reader' \in ReaderType /\ pending' \in [Events -> Nat] /\ stop' \in BOOLEAN /\ written' \in 0 .. MaxBytes
    BY <1>1, <1>2, Types
  <2> QED BY <1>5, <1>9, <2>1, <2>2, TypesAfter
<1>12. writer'.at = at
  BY <1>2, <1>10 DEF WriterType
<1>13. writer'.at \in Completed /\ (writer'.at = "freeing" => p.readerComplete) /\ (~p.readerComplete => writer'.at = "notifying")
  BY <1>12 DEF Completed
<1>14. Control'
  <2>1. p'.writerComplete /\ ~p'.writing /\ p'.notFlushed <= MaxUnflushed
    BY <1>3, <1>6, <1>8, <1>10
  <2>2. /\ reader'.at = reader.at /\ (reader.at = "freeing" => p.readerComplete)
        /\ (p.readerComplete <=> reader.at \in Completed)
        /\ (reader.at = "waiting" => ~isSet["reader"])
    BY <1>1, <1>2 DEF Control
  <2>3. writer'.at \notin {"idle", "resumed", "scheduling", "leaving", "waiting"}
    BY <1>13 DEF Completed
  <2> QED BY <1>8, <1>9, <1>13, <2>1, <2>2, <2>3 DEF Control
<1>15. Room'
  BY <1>6 DEF Room
<1>16. Woken'
  BY <1>6, <1>8, <1>13 DEF Woken
<1> QED BY <1>7, <1>9, <1>11, <1>14, <1>15, <1>16 DEF IInv

\* A step that leaves the pipe alone, and takes no position the reader did not hold.
LEMMA Unmoved ==
    ASSUME IInv, p' = p, written' = written,
           reader'.at = "holding" => \/ reader'.begin = NoPosition /\ reader'.end = NoPosition
                                     \/ reader.at = "holding" /\ reader'.begin = reader.begin /\ reader'.end = reader.end
    PROVE  Holds'
<1>1. PICK h, m : HasData(p, reader, h, m, written)
  BY DEF IInv, Holds
<1> DEFINE x == reader'
<1>2. x.at = "holding" => \/ x.begin = NoPosition /\ x.end = NoPosition
                          \/ reader.at = "holding" /\ x.begin = reader.begin /\ x.end = reader.end
  OBVIOUS
<1> HIDE DEF x
<1>3. HasData(p, x, h, m, written)
  BY <1>1, <1>2, OtherReader
<1>4. HasData(p', reader', h, m, written')
  BY <1>3 DEF x
<1> QED BY <1>4 DEF Holds

LEMMA FlushCancelledStep ==
    ASSUME IInv, FlushCancelled
    PROVE  IInv'
<1>1. TypeOK /\ Control /\ Room /\ Pressure /\ Woken
  BY DEF IInv
<1>2. /\ writer.at = "idle" /\ writer' = [writer EXCEPT !.at = "leaving"]
      /\ p' = p /\ isSet' = isSet /\ pending' = pending /\ stop' = stop /\ reader' = reader /\ written' = written
  BY DEF FlushCancelled
<1>3. writer \in WriterType /\ writer' \in WriterType /\ writer'.at = "leaving"
  <2>1. writer \in WriterType
    BY <1>1, Types
  <2> QED BY <1>2, <2>1 DEF WriterType
<1>4. TypeOK'
  BY <1>1, <1>2, <1>3 DEF TypeOK, WriterType
<1>5. Holds'
  BY <1>2, Unmoved
<1>6. Control' /\ Room' /\ Woken'
  BY <1>1, <1>2, <1>3 DEF Control, Room, Woken, Completed
<1>7. Pressure'
  BY <1>1, <1>2 DEF Pressure, Signals
<1> QED BY <1>4, <1>5, <1>6, <1>7 DEF IInv

LEMMA AwaitWriterStep ==
    ASSUME IInv, AwaitWriter
    PROVE  IInv'
<1>1. TypeOK /\ Control /\ Room /\ Pressure /\ Woken
  BY DEF IInv
<1> DEFINE at == IF isSet["writer"] THEN "resumed" ELSE "waiting"
<1>2. /\ writer.at = "awaiting" /\ writer' = [writer EXCEPT !.at = at]
      /\ p' = p /\ isSet' = isSet /\ pending' = pending /\ stop' = stop /\ reader' = reader /\ written' = written
  BY DEF AwaitWriter
<1>3. /\ at \in {"resumed", "waiting"} /\ (at = "resumed" => isSet["writer"]) /\ (at = "waiting" => ~isSet["writer"])
  OBVIOUS
<1> HIDE DEF at
<1>4. writer \in WriterType /\ writer' \in WriterType /\ writer'.at = at
  <2>1. writer \in WriterType
    BY <1>1, Types
  <2> QED BY <1>2, <1>3, <2>1 DEF WriterType
<1>5. TypeOK'
  BY <1>1, <1>2, <1>4 DEF TypeOK, WriterType
<1>6. Holds'
  BY <1>2, Unmoved
<1>7. Control' /\ Room' /\ Woken'
  BY <1>1, <1>2, <1>3, <1>4 DEF Control, Room, Woken, Completed
<1>8. Pressure'
  BY <1>1, <1>2 DEF Pressure, Signals
<1> QED BY <1>5, <1>6, <1>7, <1>8 DEF IInv

LEMMA FlushResultStep ==
    ASSUME IInv, FlushResult
    PROVE  IInv'
<1>1. TypeOK /\ Control /\ Room /\ Pressure /\ Woken
  BY DEF IInv
<1> DEFINE ended == p.readerComplete \/ stop
<1>2. /\ writer.at = "resumed" /\ writer' = [at |-> "scheduling", wakes |-> writer.wakes, ended |-> ended]
      /\ p' = p /\ isSet' = isSet /\ pending' = pending /\ stop' = stop /\ reader' = reader /\ written' = written
  BY DEF FlushResult, Flushed
<1>3. ended \in BOOLEAN
  OBVIOUS
<1> HIDE DEF ended
<1>4. writer \in WriterType /\ writer' \in WriterType /\ writer'.at = "scheduling"
  <2>1. writer \in WriterType
    BY <1>1, Types
  <2> QED BY <1>2, <1>3, <2>1 DEF WriterType
<1>5. TypeOK'
  BY <1>1, <1>2, <1>4 DEF TypeOK, WriterType
<1>6. Holds'
  BY <1>2, Unmoved
<1>7. Control' /\ Room' /\ Woken'
  BY <1>1, <1>2, <1>4 DEF Control, Room, Woken, Completed
<1>8. Pressure'
  BY <1>1, <1>2 DEF Pressure, Signals
<1> QED BY <1>5, <1>6, <1>7, <1>8 DEF IInv

\* One job more that will set e.
LEMMA OneMore ==
    ASSUME TypeOK, NEW e \in Events, Schedule(e)
    PROVE  /\ pending' \in [Events -> Nat] /\ pending'[e] = pending[e] + 1 /\ pending'[e] > 0
           /\ \A o \in Events : o # e => pending'[o] = pending[o]
<1>1. pending \in [Events -> Nat]
  BY Types
<1> QED BY <1>1 DEF Schedule

LEMMA ScheduleReaderStep ==
    ASSUME IInv, ScheduleReader
    PROVE  IInv'
<1>1. TypeOK /\ Control /\ Room /\ Pressure /\ Woken
  BY DEF IInv
<1> DEFINE at == IF writer.ended THEN "leaving" ELSE "idle"
           not == FALSE
<1>2. /\ writer.at = "scheduling" /\ writer' = [at |-> at, wakes |-> not, ended |-> not]
      /\ writer.wakes => Schedule("reader")
      /\ ~writer.wakes => pending' = pending
      /\ p' = p /\ isSet' = isSet /\ stop' = stop /\ reader' = reader /\ written' = written
  BY DEF ScheduleReader
<1>3. at \in {"idle", "leaving"} /\ not \in BOOLEAN
  OBVIOUS
<1> HIDE DEF at, not
<1>4. pending \in [Events -> Nat] /\ pending["reader"] \in Nat
  BY <1>1, Types
<1>5. /\ pending' \in [Events -> Nat] /\ pending'["writer"] = pending["writer"]
      /\ writer.wakes => pending'["reader"] > 0
      /\ pending["reader"] > 0 => pending'["reader"] > 0
  <2>1. CASE writer.wakes
    <3>1. pending' \in [Events -> Nat] /\ pending'["writer"] = pending["writer"] /\ pending'["reader"] > 0
      BY <1>1, <1>2, <2>1, OneMore DEF Events
    <3> QED BY <3>1
  <2>2. CASE ~writer.wakes
    BY <1>2, <1>4, <2>2
  <2> QED BY <2>1, <2>2
<1>6. writer' \in WriterType /\ writer'.at = at
  BY <1>2, <1>3 DEF WriterType
<1>7. TypeOK'
  BY <1>1, <1>2, <1>5, <1>6 DEF TypeOK, WriterType
<1>8. Holds'
  BY <1>2, Unmoved
<1>9. Control' /\ Room' /\ Woken'
  BY <1>1, <1>2, <1>3, <1>5, <1>6 DEF Control, Room, Woken, Completed
<1>10. Pressure'
  BY <1>1, <1>2, <1>5 DEF Pressure, Signals
<1> QED BY <1>7, <1>8, <1>9, <1>10 DEF IInv

LEMMA WriterNotifiesStep ==
    ASSUME IInv, WriterNotifies
    PROVE  IInv'
<1>1. TypeOK /\ Control /\ Room /\ Pressure /\ Woken
  BY DEF IInv
<1>2. /\ writer.at = "notifying" /\ writer' = [writer EXCEPT !.at = "done"] /\ Schedule("reader")
      /\ p' = p /\ isSet' = isSet /\ stop' = stop /\ reader' = reader /\ written' = written
  BY DEF WriterNotifies
<1>3. pending' \in [Events -> Nat] /\ pending'["writer"] = pending["writer"] /\ pending'["reader"] > 0
  BY <1>1, <1>2, OneMore DEF Events
<1>4. writer \in WriterType /\ writer' \in WriterType /\ writer'.at = "done"
  <2>1. writer \in WriterType
    BY <1>1, Types
  <2> QED BY <1>2, <2>1 DEF WriterType
<1>5. TypeOK'
  BY <1>1, <1>2, <1>3, <1>4 DEF TypeOK, WriterType
<1>6. Holds'
  BY <1>2, Unmoved
<1>7. Control' /\ Room' /\ Woken'
  BY <1>1, <1>2, <1>3, <1>4 DEF Control, Room, Woken, Completed
<1>8. Pressure'
  BY <1>1, <1>2, <1>3 DEF Pressure, Signals
<1> QED BY <1>5, <1>6, <1>7, <1>8 DEF IInv

\* Freeing the pipe: both ends have completed, so no event is waited for.
LEMMA FreesFacts ==
    ASSUME IInv, writer.at = "freeing" \/ reader.at = "freeing"
    PROVE  LET v == CompletePipe(p)
           IN  /\ HasData(v, reader, written, written, written) /\ v \in PipeType
               /\ v.notFlushed = p.notFlushed /\ v.writing = p.writing /\ v.lastExamined = -1
               /\ v.writerComplete = p.writerComplete /\ v.readerComplete = p.readerComplete
               /\ p.writerComplete /\ p.readerComplete /\ v.allocated = {}
<1> DEFINE v == CompletePipe(p)
<1>1. Holds /\ Control
  BY DEF IInv
<1>2. p.writerComplete /\ p.readerComplete /\ ~p.writing /\ reader.at # "holding"
  BY <1>1 DEF Control, Completed
<1>3. PICK h, m : HasData(p, reader, h, m, written)
  BY <1>1 DEF Holds
<1>4. /\ HasData(v, reader, written, written, written) /\ v.allocated = {}
      /\ v.notFlushed = p.notFlushed /\ v.writing = p.writing /\ v.lastExamined = -1
      /\ v.writerComplete = p.writerComplete /\ v.readerComplete = p.readerComplete
  BY <1>2, <1>3, CompleteData
<1> HIDE DEF v
<1>5. v \in PipeType
  BY <1>4 DEF HasData, Data
<1> QED BY <1>2, <1>4, <1>5 DEF v

LEMMA WriterFreesStep ==
    ASSUME IInv, WriterFrees
    PROVE  IInv'
<1>1. TypeOK /\ Control
  BY DEF IInv
<1> DEFINE v == CompletePipe(p)
<1>2. /\ writer.at = "freeing" /\ p' = v /\ writer' = [writer EXCEPT !.at = "notifying"]
      /\ isSet' = isSet /\ pending' = pending /\ stop' = stop /\ reader' = reader /\ written' = written
  BY DEF WriterFrees
<1>3. /\ HasData(v, reader, written, written, written) /\ v \in PipeType
      /\ v.notFlushed = p.notFlushed /\ v.writing = p.writing /\ v.lastExamined = -1
      /\ v.writerComplete = p.writerComplete /\ v.readerComplete = p.readerComplete
      /\ p.writerComplete /\ p.readerComplete
  BY <1>2, FreesFacts
<1> HIDE DEF v
<1>4. writer \in WriterType /\ writer' \in WriterType /\ writer'.at = "notifying"
  <2>1. writer \in WriterType
    BY <1>1, Types
  <2> QED BY <1>2, <2>1 DEF WriterType
<1>5. TypeOK'
  BY <1>1, <1>2, <1>3, <1>4 DEF TypeOK, WriterType
<1>6. Holds'
  BY <1>2, <1>3 DEF Holds
<1>7. Control'
  BY <1>1, <1>2, <1>3, <1>4 DEF Control, Completed
<1>8. Room' /\ Pressure' /\ Woken'
  BY <1>2, <1>3 DEF Room, Pressure, Woken
<1> QED BY <1>5, <1>6, <1>7, <1>8 DEF IInv

-----------------------------------------------------------------------------
(* The reader's steps.                                                     *)

LEMMA ReaderFreesStep ==
    ASSUME IInv, ReaderFrees
    PROVE  IInv'
<1>1. TypeOK /\ Control
  BY DEF IInv
<1> DEFINE v == CompletePipe(p)
<1>2. /\ reader.at = "freeing" /\ p' = v /\ reader' = [reader EXCEPT !.at = "notifying"]
      /\ isSet' = isSet /\ pending' = pending /\ stop' = stop /\ writer' = writer /\ written' = written
  BY DEF ReaderFrees
<1>3. /\ HasData(v, reader, written, written, written) /\ v \in PipeType
      /\ v.notFlushed = p.notFlushed /\ v.writing = p.writing /\ v.lastExamined = -1
      /\ v.writerComplete = p.writerComplete /\ v.readerComplete = p.readerComplete
      /\ p.writerComplete /\ p.readerComplete
  BY <1>2, FreesFacts
<1> HIDE DEF v
<1>4. reader \in ReaderType /\ reader' \in ReaderType /\ reader'.at = "notifying"
  <2>1. reader \in ReaderType
    BY <1>1, Types
  <2> QED BY <1>2, <2>1 DEF ReaderType
<1>5. TypeOK'
  BY <1>1, <1>2, <1>3, <1>4 DEF TypeOK, ReaderType
<1>6. Holds'
  <2> DEFINE x == reader'
  <2>1. x.at # "holding"
    BY <1>4
  <2> HIDE DEF x
  <2>2. HasData(v, x, written, written, written)
    BY <1>3, <2>1, OtherReader
  <2>3. HasData(p', reader', written, written, written')
    BY <1>2, <2>2 DEF x
  <2> QED BY <2>3 DEF Holds
<1>7. Control'
  BY <1>1, <1>2, <1>3, <1>4 DEF Control, Completed
<1>8. Room' /\ Pressure' /\ Woken'
  BY <1>2, <1>3 DEF Room, Pressure, Woken
<1> QED BY <1>5, <1>6, <1>7, <1>8 DEF IInv

LEMMA ReadAsyncStep ==
    ASSUME IInv, ReadAsync
    PROVE  IInv'
<1>1. TypeOK /\ Control /\ Room /\ Pressure /\ Woken
  BY DEF IInv
<1> DEFINE at == IF isSet["reader"] THEN "reading" ELSE "waiting"
<1>2. /\ reader.at = "idle" /\ reader' = [reader EXCEPT !.at = at]
      /\ p' = p /\ isSet' = isSet /\ pending' = pending /\ stop' = stop /\ writer' = writer /\ written' = written
  BY DEF ReadAsync
<1>3. at \in {"reading", "waiting"} /\ (at = "waiting" => ~isSet["reader"])
  OBVIOUS
<1> HIDE DEF at
<1>4. reader \in ReaderType /\ reader' \in ReaderType /\ reader'.at = at
  <2>1. reader \in ReaderType
    BY <1>1, Types
  <2> QED BY <1>2, <1>3, <2>1 DEF ReaderType
<1>5. TypeOK'
  BY <1>1, <1>2, <1>4 DEF TypeOK, ReaderType
<1>6. Holds'
  BY <1>2, <1>3, <1>4, Unmoved
<1>7. Control' /\ Room' /\ Woken'
  BY <1>1, <1>2, <1>3, <1>4 DEF Control, Room, Woken, Completed
<1>8. Pressure'
  BY <1>1, <1>2, <1>3, <1>4 DEF Pressure, Signals
<1> QED BY <1>5, <1>6, <1>7, <1>8 DEF IInv

LEMMA ReadCancelledStep ==
    ASSUME IInv, ReadCancelled
    PROVE  IInv'
<1>1. TypeOK /\ Control /\ Room /\ Pressure /\ Woken
  BY DEF IInv
<1> DEFINE ended == TRUE
<1>2. /\ reader.at = "idle" /\ reader' = [at |-> "holding", begin |-> NoPosition, end |-> NoPosition, ended |-> ended]
      /\ p' = p /\ isSet' = isSet /\ pending' = pending /\ stop' = stop /\ writer' = writer /\ written' = written
  BY DEF ReadCancelled
<1>3. ended \in BOOLEAN /\ NoPosition \in PositionType
  BY DEF NoPosition, Position, PositionType
<1> HIDE DEF ended
<1>4. reader' \in ReaderType /\ reader'.at = "holding" /\ reader'.begin = NoPosition /\ reader'.end = NoPosition
  BY <1>2, <1>3 DEF ReaderType
<1>5. TypeOK'
  BY <1>1, <1>2, <1>4 DEF TypeOK, ReaderType
<1>6. Holds'
  BY <1>2, <1>4, Unmoved
<1>7. Control' /\ Room' /\ Woken'
  BY <1>1, <1>2, <1>4 DEF Control, Room, Woken, Completed
<1>8. Pressure'
  BY <1>1, <1>2, <1>4 DEF Pressure, Signals
<1> QED BY <1>5, <1>6, <1>7, <1>8 DEF IInv

LEMMA ReadResultStep ==
    ASSUME IInv, ReadResult
    PROVE  IInv'
<1>1. TypeOK /\ Holds /\ Control /\ Room /\ Pressure /\ Woken
  BY DEF IInv
<1> DEFINE some == p.readingHead.segment # Null
           begin == IF some THEN p.readingHead ELSE NoPosition
           end == IF some THEN p.readingTail ELSE NoPosition
           ended == p.writerComplete \/ stop
<1>2. /\ reader.at = "reading" /\ reader' = [at |-> "holding", begin |-> begin, end |-> end, ended |-> ended]
      /\ p' = p /\ isSet' = isSet /\ pending' = pending /\ stop' = stop /\ writer' = writer /\ written' = written
  BY DEF ReadResult
<1>3. ended \in BOOLEAN /\ begin \in PositionType /\ end \in PositionType
  <2>1. p.readingHead \in PositionType /\ p.readingTail \in PositionType /\ NoPosition \in PositionType
    <3>1. p \in PipeType
      BY <1>1, Types
    <3> QED BY <3>1, PipeFields DEF NoPosition, Position, PositionType
  <2> QED BY <2>1
<1>4. /\ p.readingHead.segment # Null => begin = p.readingHead /\ end = p.readingTail
      /\ p.readingHead.segment = Null => begin = NoPosition /\ end = NoPosition
  OBVIOUS
<1> HIDE DEF begin, end, ended
<1>5. reader' \in ReaderType /\ reader'.at = "holding" /\ reader'.begin = begin /\ reader'.end = end
  BY <1>2, <1>3 DEF ReaderType
<1>6. TypeOK'
  BY <1>1, <1>2, <1>5 DEF TypeOK, ReaderType
<1>7. ~p.readerComplete /\ p.lastExamined # -1
  BY <1>1, <1>2 DEF Control, Completed
<1>8. Holds'
  <2>1. PICK h, m : HasData(p, reader, h, m, written)
    BY <1>1 DEF Holds
  <2> DEFINE x == reader'
  <2>2. /\ p.readingHead.segment # Null => x.begin = p.readingHead /\ x.end = p.readingTail
        /\ p.readingHead.segment = Null => x.begin = NoPosition /\ x.end = NoPosition
    BY <1>4, <1>5
  <2> HIDE DEF x
  <2>3. HasData(p, x, h, m, written)
    BY <1>7, <2>1, <2>2, ResultData
  <2>4. HasData(p', reader', h, m, written')
    BY <1>2, <2>3 DEF x
  <2> QED BY <2>4 DEF Holds
<1>9. Control' /\ Room' /\ Woken'
  BY <1>1, <1>2, <1>5 DEF Control, Room, Woken, Completed
<1>10. Pressure'
  BY <1>1, <1>2, <1>5 DEF Pressure, Signals
<1> QED BY <1>6, <1>8, <1>9, <1>10 DEF IInv

LEMMA ScheduleWriterStep ==
    ASSUME IInv, ScheduleWriter
    PROVE  IInv'
<1>1. TypeOK /\ Control /\ Room /\ Pressure /\ Woken
  BY DEF IInv
<1> DEFINE at == IF reader.ended THEN "leaving" ELSE "idle"
           not == FALSE
<1>2. /\ reader.at = "signalling" /\ reader' = [reader EXCEPT !.at = at, !.ended = not] /\ Schedule("writer")
      /\ p' = p /\ isSet' = isSet /\ stop' = stop /\ writer' = writer /\ written' = written
  BY DEF ScheduleWriter
<1>3. at \in {"idle", "leaving"} /\ not \in BOOLEAN
  OBVIOUS
<1> HIDE DEF at, not
<1>4. /\ pending' \in [Events -> Nat] /\ pending'["reader"] = pending["reader"]
      /\ pending'["writer"] = pending["writer"] + 1 /\ pending'["writer"] > 0
  BY <1>1, <1>2, OneMore DEF Events
<1>5. reader \in ReaderType /\ reader' \in ReaderType /\ reader'.at = at
  <2>1. reader \in ReaderType
    BY <1>1, Types
  <2> QED BY <1>2, <1>3, <2>1 DEF ReaderType
<1>6. TypeOK'
  BY <1>1, <1>2, <1>4, <1>5 DEF TypeOK, ReaderType
<1>7. Holds'
  BY <1>2, <1>3, <1>5, Unmoved
<1>8. Control' /\ Room' /\ Woken'
  BY <1>1, <1>2, <1>3, <1>4, <1>5 DEF Control, Room, Woken, Completed
<1>9. Pressure'
  <2>1. Signals' = Signals
    <3>1. pending["writer"] \in Nat /\ Signals = pending["writer"] + 1
      BY <1>1, <1>2, Types DEF Signals
    <3>2. Signals' = pending'["writer"] + 0
      BY <1>3, <1>5 DEF Signals
    <3> QED BY <1>4, <3>1, <3>2
  <2> QED BY <1>1, <1>2, <2>1 DEF Pressure
<1> QED BY <1>6, <1>7, <1>8, <1>9 DEF IInv

LEMMA ReaderNotifiesStep ==
    ASSUME IInv, ReaderNotifies
    PROVE  IInv'
<1>1. TypeOK /\ Control /\ Room /\ Pressure /\ Woken
  BY DEF IInv
<1>2. /\ reader.at = "notifying" /\ reader' = [reader EXCEPT !.at = "done"] /\ Schedule("writer")
      /\ p' = p /\ isSet' = isSet /\ stop' = stop /\ writer' = writer /\ written' = written
  BY DEF ReaderNotifies
<1>3. pending' \in [Events -> Nat] /\ pending'["reader"] = pending["reader"] /\ pending'["writer"] > 0
  BY <1>1, <1>2, OneMore DEF Events
<1>4. reader \in ReaderType /\ reader' \in ReaderType /\ reader'.at = "done"
  <2>1. reader \in ReaderType
    BY <1>1, Types
  <2> QED BY <1>2, <2>1 DEF ReaderType
<1>5. TypeOK'
  BY <1>1, <1>2, <1>3, <1>4 DEF TypeOK, ReaderType
<1>6. Holds'
  BY <1>2, <1>4, Unmoved
<1>7. p.readerComplete
  BY <1>1, <1>2 DEF Control, Completed
<1>8. Control' /\ Room'
  BY <1>1, <1>2, <1>3, <1>4, <1>7 DEF Control, Room, Completed
<1>9. Pressure' /\ Woken'
  BY <1>2, <1>7 DEF Pressure, Woken
<1> QED BY <1>5, <1>6, <1>8, <1>9 DEF IInv

LEMMA CompleteReaderStep ==
    ASSUME IInv, NEW from \in {"idle", "leaving"}, CompleteReader(from)
    PROVE  IInv'
<1>1. TypeOK /\ Holds /\ Control
  BY DEF IInv
<1> DEFINE at == IF p.writerComplete THEN "freeing" ELSE "notifying"
           yes == TRUE
<1>2. /\ reader.at = from /\ p' = [p EXCEPT !.readerComplete = yes] /\ reader' = [reader EXCEPT !.at = at]
      /\ isSet' = isSet /\ pending' = pending /\ stop' = stop /\ writer' = writer /\ written' = written
  BY DEF CompleteReader
<1>3. /\ at \in {"freeing", "notifying"} /\ (at = "freeing" => p.writerComplete)
      /\ (~p.writerComplete => at = "notifying") /\ yes \in BOOLEAN /\ yes
  OBVIOUS
<1> HIDE DEF at, yes
<1>4. p \in PipeType
  BY <1>1, Types
<1>5. p' \in PipeType
  BY <1>2, <1>3, <1>4 DEF PipeType
<1>6. /\ p'.segments = p.segments /\ p'.allocated = p.allocated /\ p'.pool = p.pool /\ SameContents(p', p)
      /\ p'.readerComplete = yes /\ p'.writerComplete = p.writerComplete
  BY <1>2, <1>4 DEF PipeType, SameContents
<1>7. reader \in ReaderType /\ reader' \in ReaderType /\ reader'.at = at
  <2>1. reader \in ReaderType
    BY <1>1, Types
  <2> QED BY <1>2, <1>3, <2>1 DEF ReaderType
<1>8. TypeOK'
  BY <1>1, <1>2, <1>5, <1>7 DEF TypeOK, ReaderType
<1>9. Holds'
  <2>1. PICK h, m : HasData(p, reader, h, m, written)
    BY <1>1 DEF Holds
  <2>2. HasData(p', reader, h, m, written)
    BY <1>5, <1>6, <2>1, MarkData
  <2> DEFINE x == reader'
             v == p'
  <2>3. x.at # "holding" /\ HasData(v, reader, h, m, written)
    BY <1>3, <1>7, <2>2
  <2> HIDE DEF x, v
  <2>4. HasData(v, x, h, m, written)
    BY <2>3, OtherReader
  <2>5. HasData(p', reader', h, m, written')
    BY <1>2, <2>4 DEF x, v
  <2> QED BY <2>5 DEF Holds
<1>10. Control'
  <2>1. /\ p'.notFlushed = p.notFlushed /\ p'.writing = p.writing /\ p'.lastExamined = p.lastExamined
    BY <1>6 DEF SameContents
  <2>2. ~p.readerComplete
    BY <1>1, <1>2 DEF Control, Completed
  <2> QED BY <1>1, <1>2, <1>3, <1>6, <1>7, <2>1, <2>2 DEF Control, Completed
<1>11. Room'
  BY <1>2, <1>3, <1>6, <1>7 DEF Room
<1>12. Pressure' /\ Woken'
  BY <1>3, <1>6 DEF Pressure, Woken
<1> QED BY <1>8, <1>9, <1>10, <1>11, <1>12 DEF IInv

\* Neither examining nor consuming touches the Writing flag.
LEMMA SameWriting ==
    ASSUME NEW q \in PipeType, NEW consumed, NEW examined
    PROVE  Consume(Examine(q, examined), consumed).writing = q.writing
<1> DEFINE e == Examine(q, examined)
<1>1. e.writing = q.writing /\ "writing" \in DOMAIN e
  BY DEF Examine, PipeType
<1> HIDE DEF e
<1>2. Consume(e, consumed).writing = e.writing
  BY <1>1 DEF Consume, FreeSegments, MoveToNextBlock
<1> QED BY <1>1, <1>2 DEF e

LEMMA AdvanceReaderStep ==
    ASSUME IInv, NEW consumed \in Positions, NEW examined \in Positions, AdvanceReader(consumed, examined)
    PROVE  IInv'
<1>1. TypeOK /\ Holds /\ Control /\ Room /\ Pressure /\ Woken
  BY DEF IInv
<1> DEFINE e == Examine(p, examined)
           v == Consume(e, consumed)
           wakes == Resumes(p.notConsumed, e.notConsumed)
           leaves == reader.ended /\ (stop \/ consumed = reader.end)
           at == IF wakes THEN "signalling" ELSE IF leaves THEN "leaving" ELSE "idle"
           ended == wakes /\ leaves
           sleeps == Sleeps(examined)
           awake == isSet["reader"] /\ ~sleeps
<1>2. /\ reader.at = "holding" /\ MayAdvance(consumed, examined) /\ p' = v
      /\ reader' = [at |-> at, begin |-> NoPosition, end |-> NoPosition, ended |-> ended]
      /\ isSet' = [isSet EXCEPT !["reader"] = awake]
      /\ pending' = pending /\ stop' = stop /\ writer' = writer /\ written' = written
  BY DEF AdvanceReader
<1>3. at \in {"signalling", "leaving", "idle"} /\ ended \in BOOLEAN /\ awake \in BOOLEAN /\ (at = "signalling" <=> wakes)
  OBVIOUS
<1>4. sleeps => examined = p.readingTail /\ ~p.writerComplete
  BY DEF Sleeps
<1>5. ~sleeps => awake = isSet["reader"]
  <2>1. isSet["reader"] \in BOOLEAN
    BY <1>1, Types
  <2> QED BY <2>1
<1>6. PICK h, m : HasData(p, reader, h, m, written)
  BY <1>1 DEF Holds
<1>7. ~p.readerComplete /\ p.lastExamined # -1
  BY <1>1, <1>2 DEF Control, Completed
<1> HIDE DEF at, ended, awake, leaves, sleeps
<1>8. reader' \in ReaderType /\ reader'.at = at
  <2>1. NoPosition \in PositionType
    BY DEF NoPosition, Position, PositionType
  <2> QED BY <1>2, <1>3, <2>1 DEF ReaderType
<1>9. /\ \E n \in Nat : h <= n /\ n <= m /\ HasData(v, reader', n, m, written)
      /\ v.notConsumed = e.notConsumed /\ v.notFlushed = p.notFlushed /\ v.lastExamined # -1
      /\ v.writerComplete = p.writerComplete /\ v.readerComplete = p.readerComplete
      /\ e.notConsumed <= p.notConsumed
      /\ examined = p.readingTail => e.notConsumed = 0
  <2> DEFINE z == reader'
  <2>1. z.at # "holding"
    BY <1>3, <1>8
  <2> HIDE DEF z
  <2>2. /\ \E n \in Nat : h <= n /\ n <= m /\ HasData(v, z, n, m, written)
        /\ v.notConsumed = e.notConsumed /\ v.notFlushed = p.notFlushed /\ v.lastExamined # -1
        /\ v.writerComplete = p.writerComplete /\ v.readerComplete = p.readerComplete
        /\ e.notConsumed <= p.notConsumed
        /\ examined = p.readingTail => e.notConsumed = 0
    BY <1>2, <1>6, <1>7, <2>1, AdvanceData
  <2> HIDE DEF e, v
  <2> QED BY <2>2 DEF z
<1>10. v.writing = p.writing
  <2>1. p \in PipeType
    BY <1>1, Types
  <2> QED BY <2>1, SameWriting
<1> HIDE DEF v, e
<1>11. wakes <=> p.notConsumed >= ResumeWriterThreshold /\ v.notConsumed < ResumeWriterThreshold
  BY <1>9 DEF Resumes
<1> HIDE DEF wakes
<1>12. /\ isSet' \in [Events -> BOOLEAN] /\ isSet'["writer"] = isSet["writer"] /\ isSet'["reader"] = awake
  <2>1. isSet \in [Events -> BOOLEAN]
    BY <1>1, Types
  <2> QED BY <1>2, <1>3, <2>1 DEF Events
<1>13. v \in PipeType
  BY <1>9 DEF HasData, Data
<1>14. TypeOK'
  BY <1>1, <1>2, <1>8, <1>12, <1>13 DEF TypeOK, ReaderType
<1>15. Holds'
  <2>1. PICK n \in Nat : HasData(v, reader', n, m, written)
    BY <1>9
  <2>2. HasData(p', reader', n, m, written')
    BY <1>2, <2>1
  <2> QED BY <2>2 DEF Holds
<1>16. v.notConsumed \in Nat /\ p.notConsumed \in Nat /\ ResumeWriterThreshold \in Nat /\ PauseWriterThreshold \in Nat
       /\ pending["writer"] \in Nat
  BY <1>1, <1>13, Types, PipeFields
<1>17. Control'
  BY <1>1, <1>2, <1>3, <1>8, <1>9, <1>10, <1>12 DEF Control, Completed
<1>18. Room'
  <2> SUFFICES ASSUME ~isSet["writer"], ~p.writerComplete
               PROVE  \/ v.notConsumed >= ResumeWriterThreshold
                      \/ pending["writer"] > 0
                      \/ at = "signalling"
    BY <1>2, <1>7, <1>8, <1>9, <1>12 DEF Room
  <2>1. p.notConsumed >= ResumeWriterThreshold \/ pending["writer"] > 0
    BY <1>1, <1>2 DEF Room
  <2> QED BY <1>3, <1>11, <1>16, <2>1
<1>19. Pressure'
  <2> SUFFICES ASSUME ResumeWriterThreshold = PauseWriterThreshold, PauseWriterThreshold > 0
               PROVE  IF isSet["writer"] THEN Signals' = 0 /\ v.notConsumed < PauseWriterThreshold
                      ELSE Signals' = IF v.notConsumed < PauseWriterThreshold THEN 1 ELSE 0
    BY <1>2, <1>12 DEF Pressure
  <2>1. Signals = pending["writer"]
    BY <1>2, <1>16 DEF Signals
  <2>2. Signals' = pending["writer"] + IF wakes THEN 1 ELSE 0
    BY <1>2, <1>3, <1>8 DEF Signals
  <2>3. IF isSet["writer"] THEN pending["writer"] = 0 /\ p.notConsumed < PauseWriterThreshold
        ELSE pending["writer"] = IF p.notConsumed < PauseWriterThreshold THEN 1 ELSE 0
    BY <1>1, <1>7, <2>1 DEF Pressure
  <2>4. wakes <=> ~(p.notConsumed < PauseWriterThreshold) /\ v.notConsumed < PauseWriterThreshold
    BY <1>11, <1>16
  <2>5. p.notConsumed < PauseWriterThreshold => v.notConsumed < PauseWriterThreshold
    BY <1>9, <1>16
  <2> QED BY <2>2, <2>3, <2>4, <2>5
<1>20. Woken'
  <2> SUFFICES ASSUME FlushesFit, ~awake
               PROVE  IF p.writerComplete THEN pending["reader"] > 0 \/ writer.at = "notifying"
                      ELSE v.notConsumed > 0 => pending["reader"] > 0 \/ (writer.at = "scheduling" /\ writer.wakes)
    BY <1>2, <1>9, <1>12 DEF Woken
  <2>1. CASE sleeps
    <3>1. ~p.writerComplete /\ v.notConsumed = 0
      BY <1>4, <1>9, <2>1
    <3> QED BY <3>1
  <2>2. CASE ~sleeps
    <3>1. ~isSet["reader"]
      BY <1>5, <2>2
    <3>2. v.notConsumed > 0 => p.notConsumed > 0
      BY <1>9, <1>16
    <3> QED BY <1>1, <1>7, <3>1, <3>2 DEF Woken
  <2> QED BY <2>1, <2>2
<1> QED BY <1>14, <1>15, <1>17, <1>18, <1>19, <1>20 DEF IInv

-----------------------------------------------------------------------------
(* The other steps.                                                        *)

LEMMA SetJobStep ==
    ASSUME IInv, NEW e \in Events, SetJob(e)
    PROVE  IInv'
<1>1. TypeOK /\ Control /\ Room /\ Pressure /\ Woken
  BY DEF IInv
<1>2. /\ pending[e] > 0 /\ pending' = [pending EXCEPT ![e] = pending[e] - 1]
      /\ p' = p /\ stop' = stop /\ written' = written
  BY DEF SetJob
<1>3. /\ pending \in [Events -> Nat] /\ isSet \in [Events -> BOOLEAN] /\ writer \in WriterType /\ reader \in ReaderType
  BY <1>1, Types
<1>4. /\ pending' \in [Events -> Nat] /\ pending'[e] = pending[e] - 1 /\ pending[e] \in Nat
      /\ \A o \in Events : o # e => pending'[o] = pending[o]
  <2>1. pending[e] \in Nat /\ pending[e] - 1 \in Nat
    BY <1>2, <1>3
  <2> QED BY <1>2, <1>3, <2>1
<1>5. CASE SetsEvent /\ e = "writer"
  <2> DEFINE at == IF writer.at = "waiting" THEN "resumed" ELSE writer.at
  <2>1. /\ isSet' \in [Events -> BOOLEAN] /\ isSet'["writer"] /\ isSet'["reader"] = isSet["reader"]
        /\ reader' = reader
        /\ writer.at = "waiting" => writer' = [writer EXCEPT !.at = "resumed"]
        /\ writer.at # "waiting" => writer' = writer
    BY <1>3, <1>5 DEF SetJob, Events
  <2>2. /\ writer' \in WriterType /\ writer'.wakes = writer.wakes
        /\ writer.at = "waiting" => writer'.at = "resumed"
        /\ writer.at # "waiting" => writer'.at = writer.at
    BY <1>3, <2>1 DEF WriterType
  <2>3. TypeOK'
    BY <1>1, <1>2, <1>4, <2>1, <2>2 DEF TypeOK, WriterType
  <2>4. Holds'
    BY <1>2, <2>1, Unmoved
  <2>5. /\ writer'.at # "waiting"
        /\ writer'.at \in Completed <=> writer.at \in Completed
        /\ writer'.at = "freeing" <=> writer.at = "freeing"
    BY <2>2 DEF Completed
  <2>6. Control' /\ Room'
    BY <1>1, <1>2, <2>1, <2>2, <2>5 DEF Control, Room
  <2>7. Woken'
    <3>1. pending'["reader"] = pending["reader"]
      BY <1>4, <1>5 DEF Events
    <3> QED BY <1>1, <1>2, <2>1, <2>2, <3>1 DEF Woken
  <2>8. Pressure'
    <3> SUFFICES ASSUME ResumeWriterThreshold = PauseWriterThreshold, PauseWriterThreshold > 0, ~p.readerComplete
                 PROVE  Signals' = 0 /\ p.notConsumed < PauseWriterThreshold
      BY <1>2, <2>1 DEF Pressure
    <3>1. Signals > 0 /\ Signals' = Signals - 1
      <4> DEFINE more == IF reader.at = "signalling" THEN 1 ELSE 0
      <4>1. more \in Nat /\ Signals = pending["writer"] + more
        BY DEF Signals
      <4>2. Signals' = pending'["writer"] + more
        BY <2>1 DEF Signals
      <4> HIDE DEF more
      <4> QED BY <1>2, <1>4, <1>5, <4>1, <4>2
    <3>2. Signals # 0 => ~isSet["writer"] /\ Signals = IF p.notConsumed < PauseWriterThreshold THEN 1 ELSE 0
      BY <1>1 DEF Pressure
    <3>3. Signals = 1 /\ p.notConsumed < PauseWriterThreshold
      BY <3>1, <3>2
    <3> QED BY <3>1, <3>3
  <2> QED BY <2>3, <2>4, <2>6, <2>7, <2>8 DEF IInv
<1>6. CASE SetsEvent /\ e = "reader"
  <2>1. /\ isSet' \in [Events -> BOOLEAN] /\ isSet'["reader"] /\ isSet'["writer"] = isSet["writer"]
        /\ writer' = writer
        /\ reader.at = "waiting" => reader' = [reader EXCEPT !.at = "reading"]
        /\ reader.at # "waiting" => reader' = reader
    BY <1>3, <1>6 DEF SetJob, Events
  <2>2. /\ reader' \in ReaderType
        /\ reader.at = "waiting" => reader'.at = "reading"
        /\ reader.at # "waiting" => reader'.at = reader.at /\ reader'.begin = reader.begin /\ reader'.end = reader.end
    BY <1>3, <2>1 DEF ReaderType
  <2>3. TypeOK'
    BY <1>1, <1>2, <1>4, <2>1, <2>2 DEF TypeOK, ReaderType
  <2>4. Holds'
    BY <1>2, <2>2, Unmoved
  <2>5. /\ reader'.at # "waiting"
        /\ reader'.at \in Completed <=> reader.at \in Completed
        /\ reader'.at = "freeing" <=> reader.at = "freeing"
        /\ reader'.at = "signalling" <=> reader.at = "signalling"
        /\ reader'.at = "notifying" <=> reader.at = "notifying"
    BY <2>2 DEF Completed
  <2>6. pending'["writer"] = pending["writer"]
    BY <1>4, <1>6 DEF Events
  <2>7. Control' /\ Room'
    BY <1>1, <1>2, <2>1, <2>5, <2>6 DEF Control, Room
  <2>8. Woken'
    BY <2>1 DEF Woken
  <2>9. Pressure'
    BY <1>1, <1>2, <2>1, <2>5, <2>6 DEF Pressure, Signals
  <2> QED BY <2>3, <2>4, <2>7, <2>8, <2>9 DEF IInv
<1>7. CASE ~SetsEvent
  <2>1. p.writerComplete /\ p.readerComplete /\ isSet' = isSet /\ writer' = writer /\ reader' = reader
    BY <1>7 DEF SetJob, SetsEvent
  <2>2. TypeOK'
    BY <1>1, <1>2, <1>4, <2>1 DEF TypeOK
  <2>3. Holds'
    BY <1>2, <2>1, Unmoved
  <2>4. Control'
    BY <1>1, <1>2, <2>1 DEF Control
  <2>5. Room' /\ Pressure' /\ Woken'
    BY <1>2, <2>1 DEF Room, Pressure, Woken
  <2> QED BY <2>2, <2>3, <2>4, <2>5 DEF IInv
<1> QED BY <1>5, <1>6, <1>7 DEF Events

LEMMA RequestStopStep ==
    ASSUME IInv, RequestStop
    PROVE  IInv'
<1>1. TypeOK /\ Control /\ Room /\ Pressure /\ Woken
  BY DEF IInv
<1>2. /\ stop' = TRUE /\ p' = p /\ isSet' = isSet /\ pending' = pending
      /\ writer' = writer /\ reader' = reader /\ written' = written
  BY DEF RequestStop
<1>3. TypeOK'
  BY <1>1, <1>2 DEF TypeOK
<1>4. Holds'
  BY <1>2, Unmoved
<1>5. Control' /\ Room' /\ Woken' /\ Pressure'
  BY <1>1, <1>2 DEF Control, Room, Woken, Pressure, Signals
<1> QED BY <1>3, <1>4, <1>5 DEF IInv

LEMMA StutterStep ==
    ASSUME IInv, UNCHANGED vars
    PROVE  IInv'
BY DEF vars, IInv, TypeOK, Holds, Control, Room, Pressure, Signals, Woken

LEMMA NextIInv == IInv /\ [Next]_vars => IInv'
<1> SUFFICES ASSUME IInv, [Next]_vars PROVE IInv'
  OBVIOUS
<1>1. CASE WriterStep
  <2>1. CASE writer.at = "leaving" /\ CompleteWriter
    BY <2>1, CompleteWriterStep
  <2> QED BY <1>1, <2>1, AwaitWriterStep, FlushResultStep, ScheduleReaderStep, WriterFreesStep, WriterNotifiesStep
      DEF WriterStep
<1>2. CASE ReaderStep
  <2>1. CASE \E consumed, examined \in Positions : AdvanceReader(consumed, examined)
    BY <2>1, AdvanceReaderStep
  <2>2. CASE CompleteReader("leaving")
    BY <2>2, CompleteReaderStep
  <2> QED BY <1>2, <2>1, <2>2, ReadAsyncStep, ReadCancelledStep, ReadResultStep, ScheduleWriterStep,
             ReaderFreesStep, ReaderNotifiesStep DEF ReaderStep
<1>3. CASE \E hint \in Hints : GetMemory(hint)
  BY <1>3, GetMemoryStep
<1>4. CASE \E n \in 1 .. MaxUnflushed : Advance(n)
  BY <1>4, AdvanceStep
<1>5. CASE CompleteReader("idle")
  BY <1>5, CompleteReaderStep
<1>6. CASE \E e \in Events : SetJob(e)
  BY <1>6, SetJobStep
<1>7. CASE Terminated \/ UNCHANGED vars
  BY <1>7, StutterStep DEF Terminated
<1> QED BY <1>1, <1>2, <1>3, <1>4, <1>5, <1>6, <1>7, FlushStep, FlushCancelledStep, CompleteWriterStep, RequestStopStep
    DEF Next

-----------------------------------------------------------------------------
(* The theorems.                                                           *)

\* The invariant holds whenever the writer, the reader, the jobs and the stop token
\* take their steps, in any order, for any sizes and thresholds.
THEOREM Inductive == Spec => []IInv
<1>1. Init => IInv
  BY InitIInv
<1>2. IInv /\ [Next]_vars => IInv'
  BY NextIInv
<1> QED BY <1>1, <1>2, PTL DEF Spec

\* No member leaves its type: in particular no count of bytes falls below zero,
\* where a USize would wrap.
THEOREM TypeCorrect == Spec => []TypeOK
<1>1. IInv => TypeOK
  BY DEF IInv
<1> QED BY <1>1, Inductive, PTL

\* Every allocated segment is in the list or in the pool, and none in both; the writer's
\* memory and the reader's sequence lie in the list.
THEOREM KeepsSegments == Spec => []SegmentsKept
<1>1. IInv => SegmentsKept
  BY DataKept DEF IInv, Holds
<1> QED BY <1>1, Inductive, PTL

\* The sequence the reader holds is a prefix of what was flushed, in the stream's order.
THEOREM ReaderReadsTheStream == Spec => []ReadsTheStream
<1>1. IInv => ReadsTheStream
  BY DataRead DEF IInv, Holds
<1> QED BY <1>1, Inductive, PTL

\* The two counts of Pipe are the lengths they stand for, until both ends have completed.
THEOREM CountsBytes == Spec => []BytesCounted
<1>1. IInv => BytesCounted
  <2> SUFFICES ASSUME IInv, ~(p.writerComplete /\ p.readerComplete)
               PROVE  /\ p.notFlushed = Len(UnflushedBytes)
                      /\ p.notConsumed = IF p.readingTail.segment = Null THEN 0
                                         ELSE Offset(p, p.readingTail) - p.lastExamined
    BY DEF BytesCounted
  <2>1. PICK h, m : HasData(p, reader, h, m, written)
    BY DEF IInv, Holds
  <2>2. p.lastExamined # -1
    BY DEF IInv, Control
  <2> QED BY <2>1, <2>2, DataCounted
<1> QED BY <1>1, Inductive, PTL

\* For equal thresholds, a writer that has control again is less than a threshold of
\* bytes ahead of the reader.
THEOREM HoldsBack == Spec => []BackPressure
<1>1. IInv => BackPressure
  BY DEF IInv, Control, Pressure, BackPressure
<1> QED BY <1>1, Inductive, PTL

\* A writer that waits for room will be woken: somebody is about to set its event, or
\* the reader is left enough bytes to cross the threshold.
THEOREM WriterWillResume == Spec => []WriterResumable
<1>1. IInv => WriterResumable
  BY DEF IInv, Control, Room, WriterResumable, Completed
<1> QED BY <1>1, Inductive, PTL

\* When no single flush reaches the threshold, a reader never sleeps over flushed bytes
\* or over the end of the stream.  The hypothesis is needed: FlushAsync waits for room
\* before it schedules the reader, so one flush that reaches the threshold leaves both
\* ends waiting for each other (Pipe.cpp:193).
THEOREM ReaderWillWake ==
    ASSUME FlushesFit
    PROVE  Spec => []ReaderWoken
<1>1. IInv => ReaderWoken
  <2> SUFFICES ASSUME IInv, reader.at = "waiting", p.notConsumed > 0 \/ p.writerComplete
               PROVE  \/ pending["reader"] > 0
                      \/ writer.at \in {"awaiting", "resumed", "notifying"}
                      \/ writer.at = "scheduling" /\ writer.wakes
    BY DEF ReaderWoken
  <2>1. ~isSet["reader"] /\ ~p.readerComplete
    BY DEF IInv, Control, Completed
  <2> QED BY <2>1 DEF IInv, Woken
<1> QED BY <1>1, Inductive, PTL

-----------------------------------------------------------------------------
(* The stream the pipe implements.                                         *)

\* q shows the numbers from h + 1 to m as flushed, and those from m + 1 to w as unflushed.
Shows(q, h, m, w) ==
    /\ h \in Nat /\ m \in Nat /\ w \in Nat /\ h <= m /\ m <= w
    /\ FlushedOf(q) = Numbers(h, m) /\ UnflushedOf(q) = Numbers(m, w)

\* What the pipe holds of the stream is what Stream sees.
LEMMA DataShows ==
    ASSUME NEW q, NEW r, NEW h, NEW m, NEW w, HasData(q, r, h, m, w)
    PROVE  Shows(q, h, m, w)
<1>1. PICK L, lo, hi, t, base : Data(q, r, L, lo, hi, t, base, h, m, w)
  BY DEF HasData
<1>2. h \in Nat /\ m \in Nat /\ w \in Nat /\ h <= m /\ m <= w
  BY <1>1, DataOrder
<1> QED BY <1>1, <1>2, StreamIs DEF Shows

\* The numbers of an interval that is not empty.
LEMMA NumbersSome ==
    ASSUME NEW a \in Nat, NEW b \in Nat, a <= b
    PROVE  Numbers(a, b) = <<>> <=> a = b
<1>1. Len(Numbers(a, b)) = b - a
  BY NumbersSeq
<1>2. a # b => Numbers(a, b) # <<>>
  <2> SUFFICES ASSUME a # b, Numbers(a, b) = <<>> PROVE FALSE
    OBVIOUS
  <2>1. Len(<<>>) = 0
    OBVIOUS
  <2> QED BY <1>1, <2>1
<1>3. a = b => Numbers(a, b) = <<>>
  BY NumbersEmpty
<1> QED BY <1>2, <1>3

\* What Stream sees of the pipe, before and after a step.
SeenBefore(h, m) == FlushedBytes = Numbers(h, m) /\ UnflushedBytes = Numbers(m, written)
SeenAfter(h, m) == FlushedBytes' = Numbers(h, m) /\ UnflushedBytes' = Numbers(m, written')

\* The same, of the two states of a step.
LEMMA Seen ==
    ASSUME NEW h, NEW m
    PROVE  /\ Shows(p, h, m, written) => SeenBefore(h, m)
           /\ Shows(p', h, m, written') => SeenAfter(h, m)
BY DEF Shows, SeenBefore, SeenAfter, FlushedOf, UnflushedOf, FlushedBytes, UnflushedBytes

\* The steps of the stream, in terms of the numbers.
LEMMA StreamSame ==
    ASSUME NEW h, NEW m, SeenBefore(h, m), SeenAfter(h, m), written' = written, p'.readerComplete = p.readerComplete
    PROVE  UNCHANGED Stream!vars
BY DEF SeenBefore, SeenAfter, Stream!vars

LEMMA StreamPut ==
    ASSUME NEW h \in Nat, NEW m \in Nat, written \in Nat, m <= written, SeenBefore(h, m), SeenAfter(h, m),
           NEW n \in 1 .. MaxUnflushed, MaxUnflushed \in Nat, written' = written + n,
           ~p.readerComplete, p'.readerComplete = p.readerComplete
    PROVE  Stream!Put(n)
<1>1. n \in Nat /\ written + n \in Nat /\ written <= written + n
  OBVIOUS
<1>2. Numbers(m, written) \o Numbers(written, written + n) = Numbers(m, written + n)
  BY <1>1, NumbersJoin
<1>3. Numbers(written, written + n) = [i \in 1 .. n |-> written + i]
  <2>1. (written + n) - written = n
    BY <1>1
  <2> QED BY <2>1 DEF Numbers
<1> QED BY <1>2, <1>3 DEF SeenBefore, SeenAfter, Stream!Put

LEMMA StreamFlush ==
    ASSUME NEW h \in Nat, NEW m \in Nat, written \in Nat, h <= m, m <= written,
           SeenBefore(h, m), SeenAfter(h, written), written' = written, p'.readerComplete = p.readerComplete
    PROVE  Stream!Flush \/ UNCHANGED Stream!vars
<1>1. CASE m = written
  BY <1>1, StreamSame
<1>2. CASE m # written
  <2>1. Numbers(m, written) # <<>>
    BY <1>2, NumbersSome
  <2>2. Numbers(h, m) \o Numbers(m, written) = Numbers(h, written)
    BY NumbersJoin
  <2>3. Numbers(written, written) = <<>>
    BY NumbersEmpty
  <2> QED BY <2>1, <2>2, <2>3 DEF SeenBefore, SeenAfter, Stream!Flush
<1> QED BY <1>1, <1>2

LEMMA StreamTake ==
    ASSUME NEW h \in Nat, NEW m \in Nat, NEW n \in Nat, h <= n, n <= m,
           SeenBefore(h, m), SeenAfter(n, m), written' = written,
           ~p.readerComplete, p'.readerComplete = p.readerComplete
    PROVE  (\E k \in 1 .. Len(FlushedBytes) : Stream!Take(k)) \/ UNCHANGED Stream!vars
<1>1. CASE n = h
  BY <1>1, StreamSame
<1>2. CASE n # h
  <2>1. Len(FlushedBytes) = m - h
    <3>1. h <= m
      OBVIOUS
    <3> QED BY <3>1, NumbersSeq DEF SeenBefore
  <2>2. n - h \in 1 .. m - h
    BY <1>2
  <2>3. SubSeq(FlushedBytes, n - h + 1, Len(FlushedBytes)) = Numbers(n, m)
    BY NumbersTail DEF SeenBefore
  <2>4. Stream!Take(n - h)
    BY <2>3 DEF SeenBefore, SeenAfter, Stream!Take
  <2> QED BY <2>1, <2>2, <2>4
<1> QED BY <1>1, <1>2

LEMMA StreamDiscard ==
    ASSUME NEW h \in Nat, NEW m \in Nat, written \in Nat, h <= m, m <= written,
           SeenBefore(h, m), SeenAfter(written, written), written' = written,
           p.readerComplete, p'.readerComplete = p.readerComplete
    PROVE  Stream!Discard \/ UNCHANGED Stream!vars
<1>1. CASE h = written
  <2>1. m = written
    BY <1>1
  <2> QED BY <1>1, <2>1, StreamSame
<1>2. CASE h # written
  <2>1. UnflushedBytes \o FlushedBytes # <<>>
    <3>1. /\ Numbers(h, m) \in Seq(Nat) /\ Len(Numbers(h, m)) = m - h
          /\ Numbers(m, written) \in Seq(Nat) /\ Len(Numbers(m, written)) = written - m
      BY NumbersSeq
    <3> DEFINE a == Numbers(m, written)
               b == Numbers(h, m)
    <3>2. a \in Seq(Nat) /\ b \in Seq(Nat) /\ Len(a) = written - m /\ Len(b) = m - h
      BY <3>1
    <3> HIDE DEF a, b
    <3>4. Len(a \o b) = Len(a) + Len(b)
      BY <3>2, ConcatProperties
    <3>5. Len(a \o b) = (written - m) + (m - h)
      BY <3>2, <3>4
    <3>6. UnflushedBytes \o FlushedBytes = a \o b
      BY DEF SeenBefore, a, b
    <3>3. Len(<<>>) = 0 /\ (written - m) + (m - h) # 0
      BY <1>2
    <3> QED BY <3>3, <3>5, <3>6
  <2>2. Numbers(written, written) = <<>>
    BY NumbersEmpty
  <2>3. FlushedBytes' = <<>> /\ UnflushedBytes' = <<>>
    BY <2>2 DEF SeenAfter
  <2> QED BY <2>1, <2>3 DEF Stream!Discard
<1> QED BY <1>1, <1>2

\* The bytes depend on the segments alone.
LEMMA SameBytes ==
    ASSUME NEW q, NEW v, v.segments = q.segments, NEW begin, NEW end
    PROVE  Bytes(v, begin, end) = Bytes(q, begin, end)
BY DEF Bytes

\* Each step of the pipe is one of the stream, or changes nothing of it.
LEMMA StreamSteps == IInv /\ [Next]_vars => [Stream!Next]_(Stream!vars)
<1> SUFFICES ASSUME IInv, [Next]_vars PROVE Stream!Next \/ UNCHANGED Stream!vars
  OBVIOUS
<1>1. TypeOK /\ Holds /\ Control
  BY DEF IInv
<1>2. PICK h, m : HasData(p, reader, h, m, written)
  BY <1>1 DEF Holds
<1>3. Shows(p, h, m, written)
  BY <1>2, DataShows
<1>4. h \in Nat /\ m \in Nat /\ written \in Nat /\ h <= m /\ m <= written /\ SeenBefore(h, m)
  <2>1. h \in Nat /\ m \in Nat /\ written \in Nat /\ h <= m /\ m <= written
    BY <1>3 DEF Shows
  <2> QED BY <1>3, <2>1, Seen
<1>5. ASSUME p' = p, written' = written PROVE UNCHANGED Stream!vars
  BY <1>5 DEF Stream!vars, FlushedBytes, UnflushedBytes
<1>6. ASSUME NEW hint \in Hints, GetMemory(hint) PROVE UNCHANGED Stream!vars
  <2> DEFINE v == AllocateWritingHead(p, hint)
  <2>1. p' = v /\ HasRoom(p) /\ written' = written /\ writer.at = "idle"
    BY <1>6 DEF GetMemory, HasRoom
  <2>2. hint \in Nat /\ p.lastExamined # -1
    BY <1>1, <2>1, SizesAssumption DEF Control, Completed
  <2>3. HasData(v, reader, h, m, written) /\ SameCounts(v, p)
    BY <1>2, <2>1, <2>2, AllocateData
  <2> HIDE DEF v
  <2>4. Shows(v, h, m, written) /\ v.readerComplete = p.readerComplete
    BY <2>3, DataShows DEF SameCounts
  <2>5. SeenAfter(h, m) /\ p'.readerComplete = p.readerComplete
    BY <2>1, <2>4, Seen
  <2> QED BY <1>4, <2>1, <2>5, StreamSame
<1>7. ASSUME NEW n \in 1 .. MaxUnflushed, Advance(n) PROVE Stream!Put(n)
  <2> DEFINE v == Put(p, written, n)
  <2>1. p' = v /\ written' = written + n /\ ~p.readerComplete /\ n <= p.memory.length /\ p.writing
    BY <1>7 DEF Advance, Put
  <2>2. n \in Nat /\ n > 0 /\ MaxUnflushed \in Nat
    BY SizesAssumption
  <2>3. HasData(v, reader, h, m, written + n) /\ v.readerComplete = p.readerComplete
    BY <1>2, <2>1, <2>2, PutData
  <2> HIDE DEF v
  <2>4. Shows(v, h, m, written + n)
    BY <2>3, DataShows
  <2>5. SeenAfter(h, m) /\ p'.readerComplete = p.readerComplete
    BY <2>1, <2>3, <2>4, Seen
  <2> QED BY <1>4, <2>1, <2>2, <2>5, StreamPut
<1>8. ASSUME FlushAsync \/ CompleteWriter PROVE Stream!Flush \/ UNCHANGED Stream!vars
  <2> DEFINE v == Commit(p)
  <2>1. HasData(v, reader, h, written, written) /\ v.readerComplete = p.readerComplete
    BY <1>2, CommitData
  <2>2. (p' = v \/ p' = [v EXCEPT !.writerComplete = TRUE]) /\ written' = written
    BY <1>8 DEF FlushAsync, CompleteWriter
  <2> HIDE DEF v
  <2>3. FlushedOf(p') = FlushedOf(v) /\ UnflushedOf(p') = UnflushedOf(v) /\ p'.readerComplete = v.readerComplete
    <3>1. v \in PipeType
      BY <2>1 DEF HasData, Data
    <3>2. /\ p'.segments = v.segments /\ p'.readingHead = v.readingHead /\ p'.readingTail = v.readingTail
          /\ p'.writingHead = v.writingHead /\ p'.buffered = v.buffered /\ p'.readerComplete = v.readerComplete
      BY <2>2, <3>1 DEF PipeType
    <3> QED BY <3>2, SameBytes DEF FlushedOf, UnflushedOf
  <2>4. Shows(v, h, written, written)
    BY <2>1, DataShows
  <2>5. Shows(p', h, written, written')
    BY <2>2, <2>3, <2>4 DEF Shows
  <2>6. SeenAfter(h, written)
    BY <2>5, Seen
  <2> QED BY <1>4, <2>1, <2>2, <2>3, <2>6, StreamFlush
<1>9. ASSUME NEW consumed \in Positions, NEW examined \in Positions, AdvanceReader(consumed, examined)
      PROVE  Stream!Next \/ UNCHANGED Stream!vars
  <2> DEFINE v == Consume(Examine(p, examined), consumed)
             z == [reader EXCEPT !.at = "leaving"]
  <2>1. p' = v /\ written' = written /\ reader.at = "holding" /\ MayAdvance(consumed, examined)
    BY <1>9 DEF AdvanceReader
  <2>2. p.lastExamined # -1 /\ ~p.readerComplete
    BY <1>1, <2>1 DEF Control, Completed
  <2>3. z.at # "holding"
    <3>1. reader \in ReaderType
      BY <1>1, Types
    <3> QED BY <3>1 DEF ReaderType
  <2> HIDE DEF z
  <2>4. (\E n \in Nat : h <= n /\ n <= m /\ HasData(v, z, n, m, written)) /\ v.readerComplete = p.readerComplete
    BY <1>2, <2>1, <2>2, <2>3, AdvanceData
  <2>5. PICK n \in Nat : h <= n /\ n <= m /\ HasData(v, z, n, m, written)
    BY <2>4
  <2> HIDE DEF v
  <2>6. Shows(v, n, m, written)
    BY <2>5, DataShows
  <2>7. SeenAfter(n, m) /\ p'.readerComplete = p.readerComplete
    BY <2>1, <2>4, <2>6, Seen
  <2>8. (\E k \in 1 .. Len(FlushedBytes) : Stream!Take(k)) \/ UNCHANGED Stream!vars
    BY <1>4, <2>1, <2>2, <2>5, <2>7, StreamTake
  <2> QED BY <2>8 DEF Stream!Next
<1>10. ASSUME NEW from \in {"idle", "leaving"}, CompleteReader(from) PROVE Stream!Abandon
  <2>1. reader.at = from /\ p' = [p EXCEPT !.readerComplete = TRUE] /\ written' = written
    BY <1>10 DEF CompleteReader
  <2>2. ~p.readerComplete
    BY <1>1, <2>1 DEF Control, Completed
  <2>3. /\ p'.segments = p.segments /\ p'.readingHead = p.readingHead /\ p'.readingTail = p.readingTail
        /\ p'.writingHead = p.writingHead /\ p'.buffered = p.buffered /\ p'.readerComplete = TRUE
    <3>1. p \in PipeType
      BY <1>1, Types
    <3> QED BY <2>1, <3>1 DEF PipeType
  <2>4. FlushedOf(p') = FlushedOf(p) /\ UnflushedOf(p') = UnflushedOf(p)
    BY <2>3, SameBytes DEF FlushedOf, UnflushedOf
  <2>5. Shows(p', h, m, written')
    BY <1>3, <2>1, <2>4 DEF Shows
  <2>6. SeenAfter(h, m)
    BY <2>5, Seen
  <2>7. p.readerComplete = FALSE
    BY <1>1, <2>2, Types
  <2> QED BY <1>4, <2>1, <2>2, <2>3, <2>6 DEF SeenBefore, SeenAfter, Stream!Abandon
<1>11. ASSUME WriterFrees \/ ReaderFrees PROVE Stream!Discard \/ UNCHANGED Stream!vars
  <2> DEFINE v == CompletePipe(p)
  <2>1. p' = v /\ written' = written /\ (writer.at = "freeing" \/ reader.at = "freeing")
    BY <1>11 DEF WriterFrees, ReaderFrees
  <2>2. HasData(v, reader, written, written, written) /\ v.readerComplete = p.readerComplete /\ p.readerComplete
    BY <2>1, FreesFacts
  <2> HIDE DEF v
  <2>3. Shows(v, written, written, written)
    BY <2>2, DataShows
  <2>4. SeenAfter(written, written) /\ p'.readerComplete = p.readerComplete
    BY <2>1, <2>2, <2>3, Seen
  <2> QED BY <1>4, <2>1, <2>2, <2>4, StreamDiscard
<1>12. ASSUME \/ AwaitWriter \/ FlushResult \/ ScheduleReader \/ WriterNotifies
              \/ ReadAsync \/ ReadCancelled \/ ReadResult \/ ScheduleWriter \/ ReaderNotifies
              \/ FlushCancelled \/ RequestStop \/ Terminated \/ UNCHANGED vars
              \/ \E e \in Events : SetJob(e)
       PROVE  p' = p /\ written' = written
  BY <1>12 DEF AwaitWriter, FlushResult, ScheduleReader, WriterNotifies, ReadAsync, ReadCancelled, ReadResult,
               ScheduleWriter, ReaderNotifies, FlushCancelled, RequestStop, Terminated, SetJob, vars
<1>13. CASE WriterStep
  BY <1>5, <1>8, <1>11, <1>12, <1>13 DEF WriterStep, Stream!Next
<1>14. CASE ReaderStep
  <2>1. CASE \E consumed, examined \in Positions : AdvanceReader(consumed, examined)
    BY <1>9, <2>1
  <2>2. CASE CompleteReader("leaving")
    BY <1>10, <2>2 DEF Stream!Next
  <2> QED BY <1>5, <1>11, <1>12, <1>14, <2>1, <2>2 DEF ReaderStep, Stream!Next
<1>15. CASE \E n \in 1 .. MaxUnflushed : Advance(n)
  BY <1>7, <1>15 DEF Stream!Next
<1>16. CASE CompleteReader("idle")
  BY <1>10, <1>16 DEF Stream!Next
<1>17. CASE FlushAsync \/ CompleteWriter
  BY <1>8, <1>17 DEF Stream!Next
<1>18. CASE \E hint \in Hints : GetMemory(hint)
  BY <1>6, <1>18
<1> QED BY <1>5, <1>12, <1>13, <1>14, <1>15, <1>16, <1>17, <1>18 DEF Next

\* The pipe implements the stream: the reader takes the bytes in the order in which they
\* were put, none lost, repeated or made up, and none that was not flushed.
THEOREM KeepsTheStream == Spec => ImplementsStream
<1>1. Init => Stream!Init
  <2> SUFFICES ASSUME Init PROVE Stream!Init
    OBVIOUS
  <2>1. HasData(p, reader, 0, 0, 0) /\ written = 0
    BY InitData
  <2>2. FlushedBytes = <<>> /\ UnflushedBytes = <<>>
    <3>1. Shows(p, 0, 0, 0)
      BY <2>1, DataShows
    <3>2. Numbers(0, 0) = <<>>
      BY NumbersEmpty
    <3> QED BY <3>1, <3>2 DEF Shows, FlushedOf, UnflushedOf, FlushedBytes, UnflushedBytes
  <2>3. p.readerComplete = FALSE
    BY DEF Init
  <2> QED BY <2>1, <2>2, <2>3 DEF Stream!Init
<1>2. IInv /\ [Next]_vars => [Stream!Next]_(Stream!vars)
  BY StreamSteps
<1> QED BY <1>1, <1>2, Inductive, PTL DEF Spec, ImplementsStream, Stream!Spec
=============================================================================
