----------------------------- MODULE MCCoroutines -----------------------------
(* The shape of the program in the repository's README: main waits for a   *)
(* task that hops to the scheduler, joins three others with WhenAllReady   *)
(* (one ends without suspending, two run on the workers), twice, awaits a  *)
(* task that is done and joins three more with WhenAll, all of which fail, *)
(* so that it never gets to the last await.  A nested task fails too, but  *)
(* is awaited with WhenReady.                                              *)
EXTENDS Coroutines

CONSTANTS main0, w1, w2, sync, test1, all1, all2, all3, hops, quick, nested, last,
          all4, all5, all6, fails1, fails2, fails3, skipped, w3

Await(op, q) == [op |-> op, on |-> q]
Hop == Await("hop", <<>>)

MCWorkers == {w1, w2, w3}
MCFails == {last, fails1, fails2, fails3}
MCWhenAll == {all1, all2, all3, all4, all5, all6}
MCCoroutines == MCWhenAll \cup
    {sync, test1, hops, quick, nested, last, fails1, fails2, fails3, skipped}
MCKind == [c \in MCCoroutines |->
    CASE c = sync -> "syncWait" [] c \in MCWhenAll -> "whenAll" [] OTHER -> "task"]
MCScript == [c \in MCCoroutines |->
    CASE c = sync   -> <<Await("task", <<test1>>)>>
      [] c = test1  -> <<Hop, Await("allReady", <<all1, all2, all3>>),
                         Await("allReady", <<all1, all2, all3>>),
                         Await("task", <<quick>>),
                         Await("all", <<all4, all5, all6>>), Await("task", <<skipped>>)>>
      [] c = all1   -> <<Await("task", <<hops>>)>>
      [] c = all2   -> <<Await("task", <<quick>>)>>
      [] c = all3   -> <<Await("task", <<nested>>)>>
      [] c = all4   -> <<Await("task", <<fails1>>)>>
      [] c = all5   -> <<Await("task", <<fails2>>)>>
      [] c = all6   -> <<Await("task", <<fails3>>)>>
      [] c = hops   -> <<Hop, Hop>>
      [] c \in {last, fails1, fails2} -> <<Hop>>
      [] c \in {quick, fails3, skipped} -> <<>>
      [] c = nested -> <<Hop, Await("whenReady", <<last>>)>>]
=============================================================================
