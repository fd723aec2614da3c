---------------------------- MODULE SequenceReader ----------------------------
(***************************************************************************)
(* SequenceReader (UnAsync/Buffers/SequenceReader.h): a cursor over a      *)
(* ReadOnlySequence that remembers the buffer it is in and where the next  *)
(* one begins.  The operations of the class that call each other are       *)
(* operators from one reader to the next, the public ones actions.  The    *)
(* caller keeps the contract the asserts state: it does not advance past   *)
(* the end nor rewind by more than Consumed().                             *)
(***************************************************************************)
EXTENDS ReadOnlySequence

CONSTANTS
    Elems,          \* what the segments may hold
    Inputs,         \* the sequences a reader is made for
    MaxLength       \* bound: the most elements of one of them

Positions == [segment : Nat \ {0}, index : Nat] \cup {NullPosition}

\* A position in the list of s, before or behind an element of a segment.
InList(s, p) ==
    /\ p.segment \in 1..Len(s.segments)
    /\ p.index \in 0..Len(s.segments[p.segment])

NotAfter(p, q) == p.segment < q.segment \/ (p.segment = q.segment /\ p.index <= q.index)

\* A sequence is null or lies between two positions of its list.
ASSUME InputsAssumption ==
    /\ MaxLength \in Nat
    /\ \A s \in Inputs :
        /\ s \in [segments : Seq(Seq(Elems)), begin : Positions, end : Positions]
        /\ \/ s.begin = NullPosition /\ s.end = NullPosition
           \/ InList(s, s.begin) /\ InList(s, s.end) /\ NotAfter(s.begin, s.end)
        /\ GetLength(s) <= MaxLength

VARIABLES
    sequence,       \* m_Sequence, which never changes
    reader,         \* the reader's other members
    result          \* what the last operation returned

vars == <<sequence, reader, result>>

Readers == [current : Positions, next : Positions, buffer : Seq(Elems),
            index : Nat, consumed : Nat, more : BOOLEAN]

Nothing == [found |-> FALSE, count |-> 0, data |-> <<>>]

UnreadBuffer(r) == Slice(r.buffer, r.index, Len(r.buffer))

\* On to the next buffer that is not empty; past the empty ones at the end
\* of the sequence if there is none.
MoveToNextBuffer(r) ==
    IF IsSingleSegment(sequence) \/ r.next = NullPosition
    THEN [r EXCEPT !.more = FALSE]
    ELSE LET rest == {At(k, 0) : k \in r.next.segment..sequence.end.segment}
             filled == {p \in rest : Buffer(sequence, p) # <<>>}
             stop == IF filled = {}
                     THEN At(sequence.end.segment, 0)
                     ELSE CHOOSE p \in filled : \A q \in filled : p.segment <= q.segment
         IN  [r EXCEPT !.current = stop,
                       !.next = NextBuffer(sequence, stop),
                       !.buffer = Buffer(sequence, stop),
                       !.index = 0,
                       !.more = filled # {}]

AtBegin ==
    [current |-> sequence.begin, next |-> NextBuffer(sequence, sequence.begin),
     buffer |-> First(sequence), index |-> 0, consumed |-> 0,
     more |-> First(sequence) # <<>>]

\* The constructor.
NewReader ==
    IF ~AtBegin.more /\ ~IsSingleSegment(sequence)
    THEN MoveToNextBuffer([AtBegin EXCEPT !.more = TRUE])
    ELSE AtBegin

Reset ==
    IF sequence.begin # NullPosition /\ AtBegin.buffer = <<>>
    THEN MoveToNextBuffer([AtBegin EXCEPT !.more = TRUE])
    ELSE AtBegin

\* Mutant: > for >=, the reader stays at the end of a buffer.
AdvanceCurrentBufferLate(r, n) ==
    LET moved == [r EXCEPT !.consumed = @ + n, !.index = @ + n]
    IN  IF moved.index > Len(r.buffer) THEN MoveToNextBuffer(moved) ELSE moved

AdvanceCurrentBuffer(r, n) ==
    LET moved == [r EXCEPT !.consumed = @ + n, !.index = @ + n]
    IN  IF moved.index >= Len(r.buffer) THEN MoveToNextBuffer(moved) ELSE moved

\* The loop of Advance, which leaves m_Consumed alone.
AdvanceAcross(r, n) ==
    LET loop[state \in Readers \X Nat] ==
            LET q == state[1]
                count == state[2]
                remaining == Len(q.buffer) - q.index
                moved == MoveToNextBuffer([q EXCEPT !.index = @ + remaining])
            IN  IF ~q.more THEN q
                ELSE IF remaining > count THEN [q EXCEPT !.index = @ + count]
                ELSE IF remaining = count THEN moved
                ELSE loop[<<moved, count - remaining>>]
    IN  loop[<<r, n>>]

Advanced(r, n) ==
    IF Len(r.buffer) - r.index > n
    THEN [r EXCEPT !.index = @ + n, !.consumed = @ + n]
    ELSE AdvanceAcross(r, n)

Rewound(r, n) ==
    IF n = 0 THEN r
    ELSE IF r.index >= n
         THEN [r EXCEPT !.consumed = @ - n, !.index = @ - n, !.more = TRUE]
         ELSE Advanced(Reset, r.consumed - n)

\* AdvancePastPredicate, of which AdvancePast and AdvancePastAny are the uses.
AdvancedPast(r, values) ==
    LET loop[q \in Readers] ==
            LET other == SelectInSeq(UnreadBuffer(q), LAMBDA x : x \notin values)
                run == IF other = 0 THEN Len(UnreadBuffer(q)) ELSE other - 1
                moved == AdvanceCurrentBuffer(q, run)
            IN  IF run = 0 THEN q
                ELSE IF moved.index = 0 /\ moved.more THEN loop[moved]
                ELSE moved
    IN  loop[r]

\* ArraySlice::FindFirstOf, counted from one; zero if there is none.
FindFirstOf(memory, delimiter) == SelectInSeq(memory, LAMBDA x : x = delimiter)

\* The loop of TryReadToImpl: the reader at the delimiter or at the end.
AtDelimiter(r, delimiter) ==
    LET loop[q \in Readers] ==
            LET i == FindFirstOf(UnreadBuffer(q), delimiter)
            IN  IF ~q.more THEN q
                ELSE IF i = 0 THEN loop[AdvanceCurrentBuffer(q, Len(UnreadBuffer(q)))]
                ELSE AdvanceCurrentBuffer(q, i - 1)
    IN  loop[r]

Position(r) ==
    IF r.current = NullPosition THEN NullPosition
    ELSE Seek(sequence, r.current, r.index)

\* Mutant: the reader is not put back when there is no delimiter.
TryReadToImplLost(r, delimiter, past, skip) ==
    LET stop == AtDelimiter(IF skip > 0 THEN Advanced(r, skip) ELSE r, delimiter)
    IN  [found |-> stop.more,
         reader |-> IF past /\ stop.more THEN Advanced(stop, 1) ELSE stop,
         sequence |-> Subsequence(sequence, Position(r), Position(stop))]

\* TryReadToImpl without its copy: the reader it leaves behind, and the
\* sequence read.
TryReadToImpl(r, delimiter, past, skip) ==
    LET stop == AtDelimiter(IF skip > 0 THEN Advanced(r, skip) ELSE r, delimiter)
    IN  [found |-> stop.more,
         reader |-> IF ~stop.more THEN r ELSE IF past THEN Advanced(stop, 1) ELSE stop,
         sequence |-> Subsequence(sequence, Position(r), Position(stop))]

Peek(r) == IF r.more THEN <<r.buffer[r.index + 1]>> ELSE <<>>

UnreadSequence(r) == Subsequence(sequence, Position(r), sequence.end)
-----------------------------------------------------------------------------
Init ==
    /\ sequence \in Inputs
    /\ reader = NewReader
    /\ result = Nothing

Advance(n) ==
    /\ n <= GetLength(UnreadSequence(reader))
    /\ reader' = Advanced(reader, n)
    /\ result' = Nothing
    /\ UNCHANGED sequence

Rewind(n) ==
    /\ n <= reader.consumed
    /\ reader' = Rewound(reader, n)
    /\ result' = Nothing
    /\ UNCHANGED sequence

AdvancePast(values) ==
    /\ reader' = AdvancedPast(reader, values)
    /\ result' = [Nothing EXCEPT !.count = reader'.consumed - reader.consumed]
    /\ UNCHANGED sequence

Read(data) == [found |-> TRUE, count |-> 0, data |-> data]

\* TryReadTo that returns a sequence.
TryReadToSequence(delimiter, past) ==
    LET read == TryReadToImpl(reader, delimiter, past, 0)
    IN  /\ reader' = read.reader
        /\ result' = IF read.found THEN Read(CopiedData(read.sequence)) ELSE Nothing
        /\ UNCHANGED sequence

\* TryReadTo that returns a slice: of the current buffer if the delimiter is
\* in it, of the only segment, or of the owner's copy.
TryReadTo(delimiter, past) ==
    LET index == FindFirstOf(UnreadBuffer(reader), delimiter)
        read == TryReadToImpl(reader, delimiter, past, Len(UnreadBuffer(reader)))
    IN  /\ UNCHANGED sequence
        /\ IF index # 0
           THEN /\ reader' = AdvanceCurrentBuffer(reader, IF past THEN index ELSE index - 1)
                /\ result' = Read(Slice(UnreadBuffer(reader), 0, index - 1))
           ELSE /\ reader' = read.reader
                /\ result' = IF ~read.found THEN Nothing
                             ELSE IF IsSingleSegment(read.sequence)
                                  THEN Read(First(read.sequence))
                                  ELSE Read(CopiedData(read.sequence))

Next ==
    \/ \E n \in 0..MaxLength : Advance(n) \/ Rewind(n)
    \/ \E values \in SUBSET Elems : AdvancePast(values)
    \/ \E delimiter \in Elems, past \in BOOLEAN :
           TryReadToSequence(delimiter, past) \/ TryReadTo(delimiter, past)

Spec == Init /\ [][Next]_vars
-----------------------------------------------------------------------------
(* The index stays in the buffer, so that no length minus index wraps, and *)
(* IsEnd() tells exactly that nothing of the buffer is left: every         *)
(* operation reads the buffer without looking at its bounds.               *)
TypeOK ==
    /\ reader.buffer \in Seq(Elems)
    /\ reader.index \in 0..Len(reader.buffer)
    /\ reader.more = (reader.index < Len(reader.buffer))
    /\ reader.consumed \in 0..MaxLength
    /\ result \in [found : BOOLEAN, count : 0..MaxLength, data : Seq(Elems)]

(* How far the reader is, in elements.                                     *)
Offset == FlatIndex(sequence, Position(reader)) - FlatIndex(sequence, sequence.begin)

(* A range-based for visits as many buffers as there are, but is one       *)
(* behind: it shows the first one twice and never the last, unless there   *)
(* is only one.                                                            *)
OneBehind(s) ==
    IF s.begin = NullPosition THEN <<>>
    ELSE [k \in DOMAIN Buffers(s) |-> Buffers(s)[IF k = 1 THEN 1 ELSE k - 1]]

(* Seek, slices by positions and by offsets, the length and the copy       *)
(* agree with the flat elements from wherever the reader stands to every   *)
(* later offset, and so do Peek, UnreadBuffer and UnreadSequence.  The     *)
(* iterator does not: over each of these slices it is one buffer behind.   *)
ViewsAreFlat ==
    LET flat == Elements(sequence)
        Agrees(s, from, to) ==
            /\ Elements(s) = SubSeq(flat, from + 1, to)
            /\ CopiedData(s) = Elements(s)
            /\ GetLength(s) = Len(Elements(s))
            /\ IteratedBuffers(s) = OneBehind(s)
    IN  /\ sequence.begin # NullPosition =>
            \A to \in Offset..Len(flat) :
                /\ Agrees(Subsequence(sequence, Position(reader),
                              Seek(sequence, Position(reader), to - Offset)), Offset, to)
                /\ Agrees(OffsetSubsequence(sequence, Offset, to), Offset, to)
        /\ Agrees(UnreadSequence(reader), Offset, Len(flat))
        /\ Peek(reader) = IF Offset < Len(flat) THEN <<flat[Offset + 1]>> ELSE <<>>
        /\ IsPrefix(UnreadBuffer(reader), SubSeq(flat, Offset + 1, Len(flat)))
        /\ reader.consumed <= Offset

(* The reader reads the flat elements: the borders of the segments show in *)
(* nothing but the count of consumed elements, and there as FlatReader     *)
(* says.                                                                   *)
Flat == INSTANCE FlatReader WITH
    flat <- Elements(sequence), at <- Offset, counted <- reader.consumed

ImplementsFlatReader == Flat!Spec
=============================================================================
