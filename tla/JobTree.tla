------------------------------- MODULE JobTree -------------------------------
(***************************************************************************)
(* JobTree (UnAsync/Jobs/JobTree.h): a node keeps its first child and its  *)
(* cancelled flag in one word, a BoolPointer (Internal/BoolPointer.h).     *)
(* One thread attaches children, others cancel, as the comment in SetBool  *)
(* has it; each load and each store of the word is a step.                 *)
(***************************************************************************)
EXTENDS Naturals

CONSTANTS
    Root,           \* the node that is there from the start
    Children,       \* those that will be attached
    Owner,          \* the thread that attaches them
    Cancellers,     \* the threads that call Cancel
    Null            \* no node

Nodes == Children \cup {Root}
Threads == Cancellers \cup {Owner}

VARIABLES
    pair,           \* m_ChildCancelledPair of each node
    sibling,        \* m_pSibling of each node
    attached,       \* the children AddChild was called with
    pc              \* where each thread is in AddChild or Cancel

vars == <<pair, sibling, attached, pc>>

Word(pointer, bit) == [pointer |-> pointer, bit |-> bit]

\* GetPointer casts the whole word, bit included: the pointer of a node that is
\* cancelled points one byte further, and null is no longer null.
GetPointer(node) == pair[node]
IsNull(word) == word = Word(Null, FALSE)

\* GetBool
IsCancelled(node) == pair[node].bit

At(step, node, child, word) == [step |-> step, node |-> node, child |-> child, word |-> word]
Nowhere == At("out", Null, Null, Word(Null, FALSE))
In(t, step) == pc[t].step = step

GoTo(t, step, node, child, word) == pc' = [pc EXCEPT ![t] = At(step, node, child, word)]

Init ==
    /\ pair = [n \in Nodes |-> Word(Null, FALSE)]
    /\ sibling = [n \in Nodes |-> Word(Null, FALSE)]
    /\ attached = {}
    /\ pc = [t \in Threads |-> Nowhere]

-----------------------------------------------------------------------------
\* The test in AddChild: has the node a child?
AddChild(node, child) ==
    /\ In(Owner, "out")
    /\ node \in attached \cup {Root} /\ child \in Children \ (attached \cup {node})
    /\ attached' = attached \cup {child}
    /\ GoTo(Owner, IF IsNull(GetPointer(node)) THEN "setPointer" ELSE "sibling", node, child,
            Word(Null, FALSE))
    /\ UNCHANGED <<pair, sibling>>

SetSibling ==
    /\ In(Owner, "sibling")
    /\ sibling' = [sibling EXCEPT ![pc[Owner].child] = GetPointer(pc[Owner].node)]
    /\ GoTo(Owner, "setPointer", pc[Owner].node, pc[Owner].child, Word(Null, FALSE))
    /\ UNCHANGED <<pair, attached>>

\* SetPointer: the load of the flag, the store of pointer and flag.
SetPointerLoad ==
    /\ In(Owner, "setPointer")
    /\ GoTo(Owner, "store", pc[Owner].node, pc[Owner].child,
            Word(pc[Owner].child, pair[pc[Owner].node].bit))
    /\ UNCHANGED <<pair, sibling, attached>>

\* SetBool(true): the load of the pointer, the store of pointer and flag.
CancelLoad(t, node) ==
    /\ t # Owner
    /\ In(t, "out")
    /\ node \in attached \cup {Root}
    /\ GoTo(t, "store", node, Null, Word(pair[node].pointer, TRUE))
    /\ UNCHANGED <<pair, sibling, attached>>

Store(t) ==
    /\ In(t, "store")
    /\ pair' = [pair EXCEPT ![pc[t].node] = pc[t].word]
    /\ pc' = [pc EXCEPT ![t] = Nowhere]
    /\ UNCHANGED <<sibling, attached>>

Next ==
    \/ \E node \in Nodes, child \in Children : AddChild(node, child)
    \/ SetSibling \/ SetPointerLoad
    \/ \E t \in Cancellers, node \in Nodes : CancelLoad(t, node)
    \/ \E t \in Threads : Store(t)

Spec == Init /\ [][Next]_vars

-----------------------------------------------------------------------------
\* BoolPointer.h:42: "The boolean value can be only set to true (cancelled state)
\* and it is never going back."
CancelSticks == [][\A n \in Nodes : IsCancelled(n) => IsCancelled(n)']_vars
=============================================================================
