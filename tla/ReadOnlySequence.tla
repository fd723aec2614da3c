--------------------------- MODULE ReadOnlySequence ---------------------------
(***************************************************************************)
(* ReadOnlySequence (UnAsync/Buffers/ReadOnlySequence.h): a window into a  *)
(* linked list of segments.  A sequence is a record: the segments of the   *)
(* list, in its order, each a sequence of elements, and the positions of   *)
(* the first element and of the one after the last.  The list may go on    *)
(* after the segment of the end; segments may be empty.                    *)
(***************************************************************************)
EXTENDS Naturals, Sequences, SequencesExt

\* A position is a segment, by its place in the list, and an index in it.
At(segment, index) == [segment |-> segment, index |-> index]

NullPosition == At(0, 0)

\* ArraySlice::operator()(begin, end): indices from zero, half open.
Slice(memory, begin, end) == SubSeq(memory, begin + 1, end)

\* The elements of the list before segment k, as SetNext adds them up.
RunningIndex(s, k) ==
    LET index[j \in 1..k] == IF j = 1 THEN 0 ELSE index[j - 1] + Len(s.segments[j - 1])
    IN  index[k]

IsSingleSegment(s) == s.begin.segment = s.end.segment

\* What TryGetBuffer says of a position: the memory from there to the end
\* of its segment, or of the sequence ...
Buffer(s, p) ==
    LET memory == s.segments[p.segment]
    IN  Slice(memory, p.index,
              IF p.segment = s.end.segment THEN s.end.index ELSE Len(memory))

\* ... and the position after it, null after the last.
NextBuffer(s, p) ==
    IF p.segment = s.end.segment THEN NullPosition ELSE At(p.segment + 1, 0)

\* First and GetFirstBuffer: nothing if the sequence has no segment.
First(s) == IF s.begin = NullPosition THEN <<>> ELSE Buffer(s, s.begin)

GetLength(s) ==
    IF IsSingleSegment(s)
    THEN s.end.index - s.begin.index
    ELSE (RunningIndex(s, s.end.segment) + s.end.index)
           - (RunningIndex(s, s.begin.segment) + s.begin.index)

\* The loop of SeekMultiple stops in the segment of the end, or before it
\* in the first segment that is longer than what is left of the offset.
SeekMultiple(s, first, offset) ==
    LET length(k) == RunningIndex(s, k) - RunningIndex(s, first)
        stop == Min({k \in first..s.end.segment :
                        k = s.end.segment \/ length(k + 1) > offset})
    IN  At(stop, offset - length(stop))

\* Mutant: the index of the origin is forgotten.
SeekFromSegment(s, origin, offset) ==
    LET currentLength == Len(s.segments[origin.segment])
    IN  IF origin.segment = s.end.segment \/ currentLength > offset
        THEN At(origin.segment, origin.index + offset)
        ELSE SeekMultiple(s, origin.segment + 1, offset - currentLength)

Seek(s, origin, offset) ==
    LET currentLength == Len(s.segments[origin.segment]) - origin.index
    IN  IF origin.segment = s.end.segment \/ currentLength > offset
        THEN At(origin.segment, origin.index + offset)
        ELSE SeekMultiple(s, origin.segment + 1, offset - currentLength)

\* operator()(begin, end) for positions, and for offsets.
Subsequence(s, begin, end) == [s EXCEPT !.begin = begin, !.end = end]

OffsetSubsequence(s, begin, end) ==
    Subsequence(s, Seek(s, s.begin, begin), Seek(s, s.begin, end))

\* The buffers TryGetNext finds from the beginning on.
Buffers(s) ==
    [k \in 1..(s.end.segment - s.begin.segment + 1) |->
        IF k = 1 THEN Buffer(s, s.begin) ELSE Buffer(s, At(s.begin.segment + k - 1, 0))]

\* What CopyDataTo writes into the destination.
CopiedData(s) == IF IsSingleSegment(s) THEN First(s) ELSE FlattenSeq(Buffers(s))

\* begin(): the first buffer, and the position in front of it.
IteratorBegin(s) == [current |-> s.begin, buffer |-> First(s)]

\* operator++, TryGetNext: the buffer at the position, which moves behind it.
Incremented(s, it) ==
    IF it.current = NullPosition THEN it
    ELSE [current |-> NextBuffer(s, it.current), buffer |-> Buffer(s, it.current)]

\* The buffers a range-based for shows: the loop ends when the position is
\* end()'s, null, which is at the latest one ++ for each segment later.
IteratedBuffers(s) ==
    LET last == s.end.segment - s.begin.segment + 2
        iterator[k \in 1..last] ==
            IF k = 1 THEN IteratorBegin(s) ELSE Incremented(s, iterator[k - 1])
        stop == Min({k \in 1..last : iterator[k].current = NullPosition})
    IN  [k \in 1..(stop - 1) |-> iterator[k].buffer]
-----------------------------------------------------------------------------
(* The reference: the elements between the two positions, with the         *)
(* segments' borders forgotten.                                            *)

FlatIndex(s, p) ==
    IF p = NullPosition THEN 0 ELSE Len(FlattenSeq(SubSeq(s.segments, 1, p.segment - 1))) + p.index

Elements(s) ==
    SubSeq(FlattenSeq(s.segments), FlatIndex(s, s.begin) + 1, FlatIndex(s, s.end))
=============================================================================
