-------------------------------- MODULE Queue --------------------------------
(***************************************************************************)
(* The synchronized queue between the threads of a bridge (Queue.hh), as   *)
(* pure operators on the value of one queue.  There is one thread that     *)
(* pops, the bridge's writer.  A queue is a record of                      *)
(*   items     the elements, oldest first;                                 *)
(*   done      whether finish has been called;                             *)
(*   consumer  where the popping thread is: "out" of pop's wait loop,      *)
(*             "waiting" on the condition variable, or "woken" by it and   *)
(*             about to test done.                                         *)
(* A stretch of code under the queue's mutex is one operator.              *)
(***************************************************************************)
EXTENDS Sequences

NewQueue == [items |-> <<>>, done |-> FALSE, consumer |-> "out"]

\* queue.push(std::move(item)) under the mutex.
Enqueue(q, x) == [q EXCEPT !.items = Append(@, x)]

\* done = true under the mutex.
SetDone(q) == [q EXCEPT !.done = TRUE]

\* condVar.notify_one(): nothing is remembered when nobody waits.
NotifyOne(q) ==
    IF q.consumer = "waiting" THEN [q EXCEPT !.consumer = "woken"] ELSE q

\* pop returns true: the loop is over because there is an element.  It is
\* left before the first wait or after a wake-up that found done unset.
CanTake(q) ==
    /\ q.items # <<>>
    /\ q.consumer = "out" \/ (q.consumer = "woken" /\ ~q.done)

\* Mistake: the element is copied and stays in the queue.
TakeCopy(q) == [q EXCEPT !.consumer = "out"]

Take(q) == [q EXCEPT !.items = Tail(@), !.consumer = "out"]

\* pop waits: the queue is empty.  done is not tested before the wait.
CanWait(q) ==
    /\ q.items = <<>>
    /\ q.consumer = "out" \/ (q.consumer = "woken" /\ ~q.done)

Wait(q) == [q EXCEPT !.consumer = "waiting"]

\* Mistake: every wake-up ends pop.
CanStopAnyway(q) == q.consumer = "woken"

\* pop returns false: done is set when the thread wakes up, whether or not
\* there are elements left.
CanStop(q) == q.consumer = "woken" /\ q.done

Leave(q) == [q EXCEPT !.consumer = "out"]
=============================================================================
