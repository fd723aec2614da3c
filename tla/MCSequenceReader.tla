--------------------------- MODULE MCSequenceReader ---------------------------
(* Sequences of one to three segments of up to two elements, from any      *)
(* index of the first to any index of the last, and the null sequence.     *)
(* What lies outside of the window is a delimiter, "d", which nothing may  *)
(* find; a segment may follow that is not in the window.                   *)
EXTENDS SequenceReader

MCElems == {"d", "x"}

Outside(memory, begin, end) ==
    \A i \in DOMAIN memory : i <= begin \/ i > end => memory[i] = "d"

Memory == SeqOf(MCElems, 2)

Windows ==
    {[segments |-> segments, begin |-> At(1, b), end |-> At(Len(segments), e)] :
        segments \in UNION {[1..n -> Memory] : n \in 1..3}, b \in 0..2, e \in 0..2}

ProperWindow(s) ==
    LET n == s.end.segment
        b == s.begin.index
        e == s.end.index
    IN  /\ b <= Len(s.segments[1]) /\ e <= Len(s.segments[n])
        /\ IF n = 1
           THEN b <= e /\ Outside(s.segments[1], b, e)
           ELSE /\ Outside(s.segments[1], b, 2)
                /\ Outside(s.segments[n], 0, e)

MCSequences ==
    LET proper == {s \in Windows : ProperWindow(s)}
    IN  {[segments |-> <<>>, begin |-> NullPosition, end |-> NullPosition]}
          \cup proper
          \cup {[s EXCEPT !.segments = Append(@, <<"d">>)] : s \in proper}
=============================================================================
