------------------------------ MODULE FlatReader ------------------------------
(***************************************************************************)
(* What a SequenceReader promises: to read a sequence of elements as if    *)
(* they lay side by side, wherever the borders of the segments are.        *)
(*                                                                         *)
(* The count of consumed elements is the one thing in which the borders    *)
(* show.  Advance counts what it skips or, when it leaves a buffer, counts *)
(* nothing; Rewind goes back by the count it is given or, when it leaves   *)
(* the buffer, to the place the count names, which may lie further back.   *)
(***************************************************************************)
EXTENDS Naturals, Sequences, SequencesExt

CONSTANTS
    Elems,      \* what a sequence may hold
    MaxLength   \* bound: the longest sequence

VARIABLES
    flat,       \* the elements
    at,         \* how many of them lie before the reader
    counted,    \* how many of those the reader says it has consumed
    result      \* what the last operation returned

vars == <<flat, at, counted, result>>

Nothing == [found |-> FALSE, count |-> 0, data |-> <<>>]

Rest == SubSeq(flat, at + 1, Len(flat))

Moved(n) == at' = at + n /\ UNCHANGED flat

Init ==
    /\ flat \in Seq(Elems) /\ Len(flat) <= MaxLength
    /\ at = 0
    /\ counted = 0
    /\ result = Nothing

Advance(n) ==
    /\ n <= Len(Rest)
    /\ Moved(n)
    /\ counted' \in {counted, counted + n}
    /\ result' = Nothing

Rewind(n) ==
    /\ n <= counted
    /\ at' \in {at - n, counted - n}
    /\ counted' \in {0, counted - n}
    /\ result' = Nothing
    /\ UNCHANGED flat

\* Over the elements of the set, up to the first other one.
AdvancePast(values) ==
    \E n \in 0..Len(Rest) :
        /\ \A i \in 1..n : Rest[i] \in values
        /\ n < Len(Rest) => Rest[n + 1] \notin values
        /\ Moved(n)
        /\ counted' = counted + n
        /\ result' = [Nothing EXCEPT !.count = n]

\* Up to the first delimiter, or nowhere.
ReadTo(delimiter, pastDelimiter) ==
    \E n \in 0..Len(Rest) :
        /\ \A i \in 1..n : Rest[i] # delimiter
        /\ IF n = Len(Rest)
           THEN UNCHANGED <<flat, at, counted>> /\ result' = Nothing
           ELSE LET moved == IF pastDelimiter THEN n + 1 ELSE n
                IN  /\ Rest[n + 1] = delimiter
                    /\ Moved(moved)
                    /\ counted' \in counted..(counted + moved)
                    /\ result' = [found |-> TRUE, count |-> 0, data |-> SubSeq(Rest, 1, n)]

Next ==
    \/ \E n \in 0..MaxLength : Advance(n) \/ Rewind(n)
    \/ \E values \in SUBSET Elems : AdvancePast(values)
    \/ \E delimiter \in Elems, past \in BOOLEAN : ReadTo(delimiter, past)

Spec == Init /\ [][Next]_vars
=============================================================================
