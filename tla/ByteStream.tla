------------------------------ MODULE ByteStream ------------------------------
(***************************************************************************)
(* What a pipe promises: the bytes come out in the order in which they     *)
(* went in, none lost, repeated or made up, and only what was flushed can  *)
(* be taken.  A byte is the number of its place in the stream.             *)
(***************************************************************************)
EXTENDS Naturals, Sequences

CONSTANT MaxPut     \* bound: the most bytes put at once

VARIABLES
    written,        \* how many bytes have been put into the stream
    unflushed,      \* those the writer has not flushed yet
    flushed,        \* those the reader has not taken yet
    abandoned       \* the reader takes no more

vars == <<written, unflushed, flushed, abandoned>>

Init ==
    /\ written = 0
    /\ unflushed = <<>>
    /\ flushed = <<>>
    /\ abandoned = FALSE

Put(n) ==
    /\ ~abandoned
    /\ written' = written + n
    /\ unflushed' = unflushed \o [i \in 1..n |-> written + i]
    /\ UNCHANGED <<flushed, abandoned>>

Flush ==
    /\ UNCHANGED <<written, abandoned>>
    /\ unflushed # <<>>
    /\ unflushed' = <<>>
    /\ flushed' = flushed \o unflushed

Take(n) ==
    /\ ~abandoned
    /\ UNCHANGED <<written, abandoned>>
    /\ flushed' = SubSeq(flushed, n + 1, Len(flushed))
    /\ UNCHANGED unflushed

Abandon ==
    /\ ~abandoned
    /\ abandoned' = TRUE
    /\ UNCHANGED <<written, unflushed, flushed>>

Discard ==
    /\ abandoned /\ unflushed \o flushed # <<>>
    /\ unflushed' = <<>>
    /\ flushed' = <<>>
    /\ UNCHANGED <<written, abandoned>>

Next ==
    \/ \E n \in 1..MaxPut : Put(n)
    \/ Flush
    \/ \E n \in 1..Len(flushed) : Take(n)
    \/ Abandon
    \/ Discard

Spec == Init /\ [][Next]_vars
=============================================================================
