--------------------------------- MODULE Pipe ---------------------------------
(***************************************************************************)
(* UnAsync/Pipes: one writer (GetMemory, Advance, FlushAsync, Complete)    *)
(* and one reader (ReadAsync, Advance, Complete) over a list of segments.  *)
(*                                                                         *)
(* What m_Mutex guards is the record p, and a critical section is one      *)
(* step; the steps between two sections, the awaits and the jobs that set  *)
(* the events are steps of their own.  The events keep EventPromise: Set   *)
(* leaves the event set and resumes who waits.  A byte is the number of    *)
(* its place in the stream.                                                *)
(*                                                                         *)
(* GetMemory's test outside the lock reads only what the writer itself     *)
(* changes while the Writing flag is set, so it is one step with the       *)
(* section it guards.  Asserts are compiled out, as in a release build.    *)
(***************************************************************************)
EXTENDS Integers, SequencesExt

CONSTANTS
    MinimumSegmentSize, MaximumSegmentPoolSize,
    PauseWriterThreshold, ResumeWriterThreshold,
    Hints,              \* the size hints the writer passes to GetMemory
    MaxBytes,           \* bound: the bytes the writer has to write
    MaxUnflushed,       \* the most bytes the writer leaves to one flush
    MaxSegments         \* bound: the segments that exist at once

ASSUME SizesAssumption ==
    /\ MinimumSegmentSize \in Nat \ {0}
    /\ {MaximumSegmentPoolSize, PauseWriterThreshold, ResumeWriterThreshold} \subseteq Nat
    /\ ResumeWriterThreshold <= PauseWriterThreshold
    /\ Hints \subseteq Nat
    /\ {MaxBytes, MaxUnflushed, MaxSegments} \subseteq Nat

Null == 0                       \* nullptr
Segments == 1 .. MaxSegments    \* addresses of segments
Events == {"reader", "writer"}

VARIABLES
    p,          \* the pipe's members that m_Mutex guards
    isSet,      \* m_ReaderAwaitable and m_WriterAwaitable
    pending,    \* how many jobs of Schedule have still to set each event
    stop,       \* stop_requested() of the token both ends were given
    writer,     \* the writer: where it is, and its locals
    reader,     \* the reader: where it is, and the result it holds
    written     \* auxiliary: the bytes the writer has put into the pipe

vars == <<p, isSet, pending, stop, writer, reader, written>>

Position(s, i) == [segment |-> s, index |-> i]
NoPosition == Position(Null, 0)
NoMemory   == [segment |-> Null, from |-> 0, length |-> 0]

\* A segment after Reset.
EmptySegment == [memory |-> <<>>, next |-> Null, end |-> 0, running |-> 0]

Init ==
    /\ p = [segments |-> [s \in Segments |-> EmptySegment],
            allocated |-> {}, pool |-> <<>>,
            notConsumed |-> 0, notFlushed |-> 0, buffered |-> 0, lastExamined |-> 0,
            readingHead |-> NoPosition, readingTail |-> NoPosition,
            writingHead |-> Null, memory |-> NoMemory, writing |-> FALSE,
            writerComplete |-> FALSE, readerComplete |-> FALSE]
    /\ isSet = [e \in Events |-> e = "writer"]
    /\ pending = [e \in Events |-> 0]
    /\ stop = FALSE
    /\ writer = [at |-> "idle", wakes |-> FALSE, ended |-> FALSE]
    /\ reader = [at |-> "idle", begin |-> NoPosition, end |-> NoPosition, ended |-> FALSE]
    /\ written = 0

-----------------------------------------------------------------------------
(* Segments.                                                               *)

\* The memory of the array pool is fresh: whatever it holds is not the stream's.
RentMemory(q, s, hint) ==
    LET size == IF hint > MinimumSegmentSize THEN hint ELSE MinimumSegmentSize
    IN  [q EXCEPT !.segments[s].memory = [i \in 1 .. size |-> 0],
                  !.memory = [segment |-> s, from |-> 0, length |-> size]]

\* The segment AllocateSegment takes: the last of the pool, or a new one.
NextSegment(q) ==
    IF q.pool # <<>> THEN Last(q.pool) ELSE CHOOSE s \in Segments : s \notin q.allocated

AllocateSegment(q, hint) ==
    LET s == NextSegment(q)
    IN  RentMemory([q EXCEPT !.allocated = @ \cup {s},
                             !.pool = IF @ = <<>> THEN @ ELSE Front(@)], s, hint)

\* FreeSegment for each of the list: reset, and put into the pool while that has room.
FreeSegments(q, list, allowPooling) ==
    LET room == IF allowPooling THEN MaximumSegmentPoolSize - Len(q.pool) ELSE 0
        kept == SubSeq(list, 1, IF room < Len(list) THEN room ELSE Len(list))
    IN  [q EXCEPT !.segments = [s \in Segments |-> IF s \in ToSet(list) THEN EmptySegment ELSE @[s]],
                  !.pool = @ \o kept,
                  !.allocated = @ \ (ToSet(list) \ ToSet(kept))]

\* The segments from s on, up to but without the segment until.
Chain(q, s, until) ==
    LET from[r \in Segments \cup {Null}] ==
            IF r \in {Null, until} THEN <<>> ELSE <<r>> \o from[q.segments[r].next]
    IN  from[s]

AdvanceEnd(q, s, count) == [q EXCEPT !.segments[s].end = @ + count]

\* Mutant: the running index of the new segment is not computed.
SetNextUncounted(q, s, next) == [q EXCEPT !.segments[s].next = next]

\* SetNext: the new segment is the last one, so only its running index changes.
SetNext(q, s, next) ==
    [q EXCEPT !.segments = [@ EXCEPT
        ![s].next = next,
        ![next].running = q.segments[s].running + q.segments[s].end]]

Offset(q, position) == q.segments[position.segment].running + position.index

\* memory(from, to), within the bounds of the memory.
Slice(memory, from, to) == SubSeq(memory, from + 1, IF to < Len(memory) THEN to ELSE Len(memory))

\* The bytes of the sequence from begin to end, as TryGetBuffer delivers them.
Bytes(q, begin, end) ==
    LET low(s) == IF s = begin.segment THEN begin.index ELSE 0
        from[s \in Segments \cup {Null}] ==
            IF s = Null THEN <<>>
            ELSE IF s = end.segment THEN Slice(q.segments[s].memory, low(s), end.index)
            ELSE Slice(q.segments[s].memory, low(s), q.segments[s].end) \o from[q.segments[s].next]
    IN  from[begin.segment]

-----------------------------------------------------------------------------
(* The writer.                                                             *)

NeedsMemory(hint) ==
    ~p.writing \/ p.memory.length = 0 \/ p.memory.length < hint

AllocateWritingHead(q, hint) ==
    LET w == [q EXCEPT !.writing = TRUE]
        a == [AdvanceEnd(w, w.writingHead, w.buffered) EXCEPT !.buffered = 0]
        b == AllocateSegment(a, hint)
        s == NextSegment(w)
    IN  IF w.writingHead = Null
        THEN [AllocateSegment(w, hint) EXCEPT
                  !.writingHead = s, !.readingHead.segment = s, !.readingTail.segment = s,
                  !.lastExamined = 0]
        ELSE IF w.memory.length > 0 /\ w.memory.length >= hint THEN w
        ELSE IF a.segments[a.writingHead].end = 0 THEN RentMemory(a, a.writingHead, hint)
        ELSE [SetNext(b, a.writingHead, s) EXCEPT !.writingHead = s]

GetMemory(hint) ==
    /\ writer.at = "idle"
    /\ written < MaxBytes
    /\ ~(p.pool = <<>> /\ p.allocated = Segments)      \* bound: MaxSegments
    /\ NeedsMemory(hint)
    /\ p' = AllocateWritingHead(p, hint)
    /\ UNCHANGED <<isSet, pending, stop, writer, reader, written>>

\* The writer fills the next n bytes of the memory it got, then calls Advance,
\* which ignores them when the reader has completed.
Advance(n) ==
    /\ writer.at = "idle"
    /\ ~p.readerComplete
    /\ p.writing /\ n <= p.memory.length
    /\ p.notFlushed + n <= MaxUnflushed /\ written + n <= MaxBytes
    /\ p' = [p EXCEPT
         !.segments[p.memory.segment].memory =
             [i \in DOMAIN @ |-> IF i \in p.memory.from + 1 .. p.memory.from + n
                                 THEN written + i - p.memory.from ELSE @[i]],
         !.notFlushed = @ + n, !.buffered = @ + n,
         !.memory = IF n = p.memory.length THEN NoMemory
                    ELSE [p.memory EXCEPT !.from = p.memory.from + n, !.length = p.memory.length - n]]
    /\ written' = written + n
    /\ UNCHANGED <<isSet, pending, stop, writer, reader>>

\* Mutant: the tail's index is the number of bytes of this flush.
CommitBuffered(q) ==
    LET w == AdvanceEnd([q EXCEPT !.writing = FALSE], q.writingHead, q.buffered)
    IN  IF q.notFlushed = 0 THEN [q EXCEPT !.writing = FALSE]
        ELSE [w EXCEPT !.readingTail = Position(w.writingHead, w.buffered),
                       !.notConsumed = @ + w.notFlushed,
                       !.notFlushed = 0, !.buffered = 0]

\* Mutant: m_WritingHeadBytesBuffered is not reset.
CommitTwice(q) ==
    LET w == AdvanceEnd([q EXCEPT !.writing = FALSE], q.writingHead, q.buffered)
    IN  IF q.notFlushed = 0 THEN [q EXCEPT !.writing = FALSE]
        ELSE [w EXCEPT !.readingTail = Position(w.writingHead, w.segments[w.writingHead].end),
                       !.notConsumed = @ + w.notFlushed,
                       !.notFlushed = 0]

Commit(q) ==
    LET w == AdvanceEnd([q EXCEPT !.writing = FALSE], q.writingHead, q.buffered)
    IN  IF q.notFlushed = 0 THEN [q EXCEPT !.writing = FALSE]
        ELSE [w EXCEPT !.readingTail = Position(w.writingHead, w.segments[w.writingHead].end),
                       !.notConsumed = @ + w.notFlushed,
                       !.notFlushed = 0, !.buffered = 0]

\* Mutant: the flush that reaches the threshold is let through.
PausesBeyond(q) ==
    /\ q.notFlushed > 0 /\ PauseWriterThreshold > 0 /\ ~q.readerComplete
    /\ q.notConsumed < PauseWriterThreshold
    /\ q.notConsumed + q.notFlushed > PauseWriterThreshold

\* Commit resets the writer's event when it crosses the threshold.
Pauses(q) ==
    /\ q.notFlushed > 0 /\ PauseWriterThreshold > 0 /\ ~q.readerComplete
    /\ q.notConsumed < PauseWriterThreshold
    /\ q.notConsumed + q.notFlushed >= PauseWriterThreshold

IsSetAfterCommit == [isSet EXCEPT !["writer"] = @ /\ ~Pauses(p)]

\* The rest of FlushAsync, from the result on: still, or again, under the lock.
Flushed(wakes) ==
    writer' = [at |-> "scheduling", wakes |-> wakes, ended |-> p.readerComplete \/ stop]

FlushAsync ==
    /\ writer.at = "idle"
    /\ ~stop
    /\ p' = Commit(p)
    /\ isSet' = IsSetAfterCommit
    /\ IF isSet'["writer"] THEN Flushed(p.notFlushed > 0)
       ELSE writer' = [at |-> "awaiting", wakes |-> p.notFlushed > 0, ended |-> FALSE]
    /\ UNCHANGED <<pending, stop, reader, written>>

\* A token that is stopped already: nothing is committed.
FlushCancelled ==
    /\ writer.at = "idle"
    /\ stop
    /\ writer' = [writer EXCEPT !.at = "leaving"]
    /\ UNCHANGED <<p, isSet, pending, stop, reader, written>>

AwaitWriter ==
    /\ writer.at = "awaiting"
    /\ writer' = [writer EXCEPT !.at = IF isSet["writer"] THEN "resumed" ELSE "waiting"]
    /\ UNCHANGED <<p, isSet, pending, stop, reader, written>>

FlushResult ==
    /\ writer.at = "resumed"
    /\ Flushed(writer.wakes)
    /\ UNCHANGED <<p, isSet, pending, stop, reader, written>>

\* Schedule: a job that will set the event.
Schedule(e) == pending' = [pending EXCEPT ![e] = @ + 1]

ScheduleReader ==
    /\ writer.at = "scheduling"
    /\ IF writer.wakes THEN Schedule("reader") ELSE UNCHANGED pending
    /\ writer' = [at |-> IF writer.ended THEN "leaving" ELSE "idle", wakes |-> FALSE, ended |-> FALSE]
    /\ UNCHANGED <<p, isSet, stop, reader, written>>

CompleteWriter ==
    /\ writer.at \in {"idle", "leaving"}
    /\ p' = [Commit(p) EXCEPT !.writerComplete = TRUE]
    /\ isSet' = IsSetAfterCommit
    /\ writer' = [writer EXCEPT !.at = IF p.readerComplete THEN "freeing" ELSE "notifying"]
    /\ UNCHANGED <<pending, stop, reader, written>>

-----------------------------------------------------------------------------
(* The reader.                                                             *)

ReadAsync ==
    /\ reader.at = "idle"
    /\ ~stop
    /\ reader' = [reader EXCEPT !.at = IF isSet["reader"] THEN "reading" ELSE "waiting"]
    /\ UNCHANGED <<p, isSet, pending, stop, writer, written>>

ReadCancelled ==
    /\ reader.at = "idle"
    /\ stop
    /\ reader' = [at |-> "holding", begin |-> NoPosition, end |-> NoPosition, ended |-> TRUE]
    /\ UNCHANGED <<p, isSet, pending, stop, writer, written>>

ReadResult ==
    /\ reader.at = "reading"
    /\ LET some == p.readingHead.segment # Null
       IN  reader' = [at |-> "holding",
                      begin |-> IF some THEN p.readingHead ELSE NoPosition,
                      end |-> IF some THEN p.readingTail ELSE NoPosition,
                      ended |-> p.writerComplete \/ stop]
    /\ UNCHANGED <<p, isSet, pending, stop, writer, written>>

\* Mutant: the writing head is released although the writer has got memory in it.
ReleasesHeldHead(q, consumed) ==
    /\ consumed.index = q.segments[consumed.segment].end
    /\ consumed.segment = q.writingHead => q.buffered = 0

\* Is the segment that ends with consumed released, too?
Releases(q, consumed) ==
    /\ consumed.index = q.segments[consumed.segment].end
    /\ consumed.segment = q.writingHead => q.buffered = 0 /\ ~q.writing

\* MoveReturnEndToNextBlock
MoveToNextBlock(q, s) ==
    LET next == Position(q.segments[s].next, 0)
        w == IF s = q.writingHead THEN [q EXCEPT !.writingHead = Null, !.memory = NoMemory] ELSE q
    IN  [w EXCEPT !.readingHead = next,
                  !.readingTail = IF @.segment = s THEN next ELSE @]

Consume(q, consumed) ==
    LET s == consumed.segment
        next == q.segments[s].next
        head == q.readingHead.segment
    IN  IF s = Null THEN q
        ELSE IF Releases(q, consumed)
             THEN FreeSegments(MoveToNextBlock(q, s), Chain(q, head, next), TRUE)
             ELSE FreeSegments([q EXCEPT !.readingHead = consumed], Chain(q, head, s), TRUE)

\* Mutant: m_LastExaminedIndex is not brought up to date.
ExamineAgain(q, examined) ==
    IF examined.segment = Null \/ q.lastExamined = -1 THEN q
    ELSE [q EXCEPT !.notConsumed = @ - (Offset(q, examined) - q.lastExamined)]

Examine(q, examined) ==
    IF examined.segment = Null \/ q.lastExamined = -1 THEN q
    ELSE [q EXCEPT !.notConsumed = @ - (Offset(q, examined) - q.lastExamined),
                   !.lastExamined = Offset(q, examined)]

\* Mutant: only a writer beyond the resume threshold is woken.
ResumesBeyond(old, new) == old > ResumeWriterThreshold /\ new < ResumeWriterThreshold

\* Does the reader wake the writer?
Resumes(old, new) == old >= ResumeWriterThreshold /\ new < ResumeWriterThreshold

\* Mutant: a writer may have completed in the meantime.
SleepsAnyway(examined) == examined = p.readingTail

\* Everything was examined: the reader's event is reset.
Sleeps(examined) == examined = p.readingTail /\ ~p.writerComplete

\* The positions of the sequence the reader holds.
Positions ==
    LET s == Append(Chain(p, reader.begin.segment, reader.end.segment), reader.end.segment)
        low(i)  == IF s[i] = reader.begin.segment THEN reader.begin.index ELSE 0
        high(i) == IF s[i] = reader.end.segment THEN reader.end.index ELSE p.segments[s[i]].end
    IN  IF reader.begin.segment = Null THEN {NoPosition}
        ELSE UNION {{Position(s[i], n) : n \in low(i) .. high(i)} : i \in DOMAIN s}

\* How a reader may call Advance: it examined what it consumed, nothing it had
\* examined before is unexamined, and it consumes a byte or examined all of them
\* (consumed all of them, when it was told that no more will come).
MayAdvance(consumed, examined) ==
    reader.begin # NoPosition =>
        /\ Offset(p, consumed) <= Offset(p, examined)
        /\ Offset(p, examined) >= p.lastExamined
        /\ \/ Offset(p, consumed) > Offset(p, reader.begin)
           \/ examined = reader.end /\ (reader.ended => consumed = reader.end)

AdvanceReader(consumed, examined) ==
    /\ reader.at = "holding"
    /\ MayAdvance(consumed, examined)
    /\ LET e == Examine(p, examined)
           wakes == Resumes(p.notConsumed, e.notConsumed)
           leaves == reader.ended /\ (stop \/ consumed = reader.end)
       IN  /\ p' = Consume(e, consumed)
           /\ reader' = [at |-> IF wakes THEN "signalling" ELSE IF leaves THEN "leaving" ELSE "idle",
                         begin |-> NoPosition, end |-> NoPosition, ended |-> wakes /\ leaves]
    /\ isSet' = [isSet EXCEPT !["reader"] = @ /\ ~Sleeps(examined)]
    /\ UNCHANGED <<pending, stop, writer, written>>

ScheduleWriter ==
    /\ reader.at = "signalling"
    /\ Schedule("writer")
    /\ reader' = [reader EXCEPT !.at = IF reader.ended THEN "leaving" ELSE "idle", !.ended = FALSE]
    /\ UNCHANGED <<p, isSet, stop, writer, written>>

\* A reader may also give up before the writer has completed (at = "idle").
CompleteReader(at) ==
    /\ reader.at = at
    /\ p' = [p EXCEPT !.readerComplete = TRUE]
    /\ reader' = [reader EXCEPT !.at = IF p.writerComplete THEN "freeing" ELSE "notifying"]
    /\ UNCHANGED <<isSet, pending, stop, writer, written>>

-----------------------------------------------------------------------------
(* The end: whoever completes second frees the pipe's memory.              *)

CompletePipe(q) ==
    LET first == IF q.readingHead.segment = Null THEN q.readingTail.segment ELSE q.readingHead.segment
        f == FreeSegments(q, Chain(q, first, Null), FALSE)
    IN  [f EXCEPT !.allocated = @ \ ToSet(q.pool), !.pool = <<>>,
                  !.readingHead.segment = Null, !.readingTail.segment = Null,
                  !.writingHead = Null, !.lastExamined = -1, !.memory = NoMemory]

WriterFrees ==
    /\ writer.at = "freeing"
    /\ p' = CompletePipe(p)
    /\ writer' = [writer EXCEPT !.at = "notifying"]
    /\ UNCHANGED <<isSet, pending, stop, reader, written>>

ReaderFrees ==
    /\ reader.at = "freeing"
    /\ p' = CompletePipe(p)
    /\ reader' = [reader EXCEPT !.at = "notifying"]
    /\ UNCHANGED <<isSet, pending, stop, writer, written>>

WriterNotifies ==
    /\ writer.at = "notifying"
    /\ Schedule("reader")
    /\ writer' = [writer EXCEPT !.at = "done"]
    /\ UNCHANGED <<p, isSet, stop, reader, written>>

ReaderNotifies ==
    /\ reader.at = "notifying"
    /\ Schedule("writer")
    /\ reader' = [reader EXCEPT !.at = "done"]
    /\ UNCHANGED <<p, isSet, stop, writer, written>>

\* Mutant: && for || in the job's test.
SetsOnlyBefore == ~p.writerComplete /\ ~p.readerComplete

SetsEvent == ~p.writerComplete \/ ~p.readerComplete

\* The job of Schedule.  A test that passes just before the pipe completes sets
\* an event nobody awaits any more, so the test and Set are one step.
SetJob(e) ==
    /\ pending[e] > 0
    /\ pending' = [pending EXCEPT ![e] = @ - 1]
    /\ IF SetsEvent
       THEN /\ isSet' = [isSet EXCEPT ![e] = TRUE]
            /\ writer' = IF e = "writer" /\ writer.at = "waiting" THEN [writer EXCEPT !.at = "resumed"] ELSE writer
            /\ reader' = IF e = "reader" /\ reader.at = "waiting" THEN [reader EXCEPT !.at = "reading"] ELSE reader
       ELSE UNCHANGED <<isSet, writer, reader>>
    /\ UNCHANGED <<p, stop, written>>

RequestStop ==
    /\ ~stop /\ {writer.at, reader.at} # {"done"}
    /\ stop' = TRUE
    /\ UNCHANGED <<p, isSet, pending, writer, reader, written>>

Finished == writer.at = "done" /\ reader.at = "done" /\ \A e \in Events : pending[e] = 0

Terminated == Finished /\ UNCHANGED vars

WriterStep ==
    \/ AwaitWriter \/ FlushResult \/ ScheduleReader \/ WriterFrees \/ WriterNotifies
    \/ writer.at = "leaving" /\ CompleteWriter

ReaderStep ==
    \/ ReadAsync \/ ReadCancelled \/ ReadResult \/ ScheduleWriter \/ ReaderFrees \/ ReaderNotifies
    \/ \E consumed, examined \in Positions : AdvanceReader(consumed, examined)
    \/ CompleteReader("leaving")

Next ==
    \/ WriterStep \/ ReaderStep
    \/ \E hint \in Hints : GetMemory(hint)
    \/ \E n \in 1 .. MaxUnflushed : Advance(n)
    \/ FlushAsync \/ FlushCancelled
    \/ CompleteWriter
    \/ CompleteReader("idle")
    \/ \E e \in Events : SetJob(e)
    \/ RequestStop
    \/ Terminated

Spec == Init /\ [][Next]_vars

\* The scheduler executes the jobs it is given, a coroutine that can go on does,
\* and the writer, whenever it has control again and again, completes at last.
Fairness ==
    /\ WF_vars(WriterStep) /\ WF_vars(ReaderStep)
    /\ \A e \in Events : WF_vars(SetJob(e))
    /\ SF_vars(CompleteWriter)

FairSpec == Spec /\ Fairness

-----------------------------------------------------------------------------
PositionType == [segment : Segments \cup {Null}, index : Nat]
MemoryType   == [segment : Segments \cup {Null}, from : Nat, length : Nat]
SegmentType  == [memory : Seq(Nat), next : Segments \cup {Null}, end : Nat, running : Nat]

PipeType ==
    [segments : [Segments -> SegmentType], allocated : SUBSET Segments, pool : Seq(Segments),
     notConsumed : Nat, notFlushed : Nat, buffered : Nat, lastExamined : Nat \cup {-1},
     readingHead : PositionType, readingTail : PositionType, writingHead : Segments \cup {Null},
     memory : MemoryType, writing : BOOLEAN,
     writerComplete : BOOLEAN, readerComplete : BOOLEAN]

\* m_BytesNotConsumed and the other counts are USize: below zero they would wrap.
TypeOK ==
    /\ p \in PipeType
    /\ isSet \in [Events -> BOOLEAN]
    /\ pending \in [Events -> Nat]
    /\ stop \in BOOLEAN
    /\ writer \in [at : {"idle", "awaiting", "waiting", "resumed", "scheduling", "leaving",
                         "freeing", "notifying", "done"}, wakes : BOOLEAN, ended : BOOLEAN]
    /\ reader \in [at : {"idle", "waiting", "reading", "holding", "signalling", "leaving",
                         "freeing", "notifying", "done"},
                   begin : PositionType, end : PositionType, ended : BOOLEAN]
    /\ written \in 0 .. MaxBytes

Listed == ToSet(Chain(p, IF p.readingHead.segment = Null THEN p.readingTail.segment
                         ELSE p.readingHead.segment, Null))

\* Every segment is in the list or in the pool, none in both and none forgotten;
\* what the writer fills and what the reader reads lies in the list, and the
\* memory of a listed segment holds all it claims to hold.
SegmentsKept ==
    /\ Listed \cup ToSet(p.pool) = p.allocated
    /\ Listed \cap ToSet(p.pool) = {} /\ IsInjective(p.pool)
    /\ \A s \in Listed : p.segments[s].end <= Len(p.segments[s].memory)
    /\ p.writing /\ p.memory.length > 0 => p.memory.segment = p.writingHead
    /\ p.writing => p.writingHead \in Listed
    /\ reader.at = "holding" => {reader.begin.segment, reader.end.segment} \subseteq Listed \cup {Null}

FlushedBytes   == Bytes(p, p.readingHead, p.readingTail)
UnflushedBytes ==
    IF p.writingHead = Null THEN <<>>
    ELSE Bytes(p, p.readingTail,
               Position(p.writingHead, p.segments[p.writingHead].end + p.buffered))

\* The reader sees the next bytes of the stream, up to a point the writer has
\* flushed, and they stay what they are while the writer gets memory, splits
\* segments and flushes more.
ReadsTheStream ==
    reader.at = "holding" =>
        LET bytes == Bytes(p, reader.begin, reader.end)
        IN  /\ IsPrefix(bytes, FlushedBytes)
            /\ \A i \in 2 .. Len(bytes) : bytes[i] = bytes[i - 1] + 1

\* m_BytesNotConsumed is what was flushed and not examined, m_BytesNotFlushed
\* what was written and not flushed, although positions are relative to segments
\* that come and go, and the count of the list starts again when it was empty.
BytesCounted ==
    ~(p.writerComplete /\ p.readerComplete) =>
        /\ p.notFlushed = Len(UnflushedBytes)
        /\ p.notConsumed = IF p.readingTail.segment = Null THEN 0
                           ELSE Offset(p, p.readingTail) - p.lastExamined

\* Back pressure, for equal thresholds: a writer that has control again has less
\* than a threshold of bytes ahead of the reader, whichever Set woke it.
BackPressure ==
    ResumeWriterThreshold = PauseWriterThreshold /\ PauseWriterThreshold > 0 =>
        (writer.at = "idle" => p.readerComplete \/ p.notConsumed < PauseWriterThreshold)

\* A writer that waits for room is woken: enough bytes are left for the reader to
\* cross the threshold, or the call that sets the event is on its way.
WriterResumable ==
    writer.at = "waiting" =>
        \/ p.notConsumed >= ResumeWriterThreshold /\ ~p.readerComplete
        \/ pending["writer"] > 0
        \/ reader.at \in {"signalling", "notifying"}

\* A reader does not sleep over flushed bytes, nor over the end of the stream: a
\* job will set its event, or the writer is about to schedule one.
ReaderWoken ==
    reader.at = "waiting" /\ (p.notConsumed > 0 \/ p.writerComplete) =>
        \/ pending["reader"] > 0
        \/ writer.at \in {"awaiting", "resumed", "notifying"}
        \/ writer.at = "scheduling" /\ writer.wakes

Stream == INSTANCE ByteStream WITH
    MaxPut <- MaxUnflushed, unflushed <- UnflushedBytes, flushed <- FlushedBytes,
    abandoned <- p.readerComplete

\* Through all splitting, pooling and reuse of segments the bytes come out in the
\* order in which they went in: the pipe implements ByteStream.
ImplementsStream == Stream!Spec

\* Whatever the interleaving, cancellation or back pressure, both ends complete
\* and every segment is freed: for a writer that never flushes as many bytes at
\* once as the pause threshold (the run's MaxUnflushed is below it), without
\* which the two ends can wait for each other (README, section 6).
PipeCompletes == <>[](Finished /\ p.allocated = {})
=============================================================================
