---------------------------- MODULE QueueThreads ----------------------------
(***************************************************************************)
(* The threads that share one Queue: producers that push (the application  *)
(* threads behind Master::read, write and terminate, and the bridge's      *)
(* reader), the thread that calls finish (the reader, when it ends) and    *)
(* the consumer (the bridge's writer).  push and finish unlock the mutex   *)
(* before they notify, so each of them is two steps.                       *)
(***************************************************************************)
EXTENDS Queue, Integers

CONSTANTS Producers,    \* the threads that push
          MaxPush       \* bound: elements pushed by one producer

ASSUME MaxPushAssumption == MaxPush \in Nat

VARIABLES q,            \* the queue
          ppc,          \* producer: "idle" or, before its notify, "notify"
          pushes,       \* producer: number of elements pushed
          fpc,          \* finish: "idle", "notify", "returned"
          cpc,          \* consumer: "pop" or, when pop said false, "stopped"
          pushed,       \* history: the elements in the order of pushing
          popped        \* history: the elements in the order of popping

vars == <<q, ppc, pushes, fpc, cpc, pushed, popped>>

Init ==
    /\ q = NewQueue
    /\ ppc = [p \in Producers |-> "idle"]
    /\ pushes = [p \in Producers |-> 0]
    /\ fpc = "idle"
    /\ cpc = "pop"
    /\ pushed = <<>>
    /\ popped = <<>>

push(p) ==
    /\ ppc[p] = "idle"
    /\ pushes[p] < MaxPush
    /\ q' = Enqueue(q, <<p, pushes[p]>>)
    /\ ppc' = [ppc EXCEPT ![p] = "notify"]
    /\ pushes' = [pushes EXCEPT ![p] = @ + 1]
    /\ pushed' = Append(pushed, <<p, pushes[p]>>)
    /\ UNCHANGED <<fpc, cpc, popped>>

\* Mistake: push does not notify.
pushNotifyNobody(p) ==
    /\ ppc[p] = "notify"
    /\ ppc' = [ppc EXCEPT ![p] = "idle"]
    /\ UNCHANGED <<q, pushes, fpc, cpc, pushed, popped>>

pushNotify(p) ==
    /\ ppc[p] = "notify"
    /\ q' = NotifyOne(q)
    /\ ppc' = [ppc EXCEPT ![p] = "idle"]
    /\ UNCHANGED <<pushes, fpc, cpc, pushed, popped>>

finish ==
    /\ fpc = "idle"
    /\ q' = SetDone(q)
    /\ fpc' = "notify"
    /\ UNCHANGED <<ppc, pushes, cpc, pushed, popped>>

\* Mistake: finish does not notify.
finishNotifyNobody ==
    /\ fpc = "notify"
    /\ fpc' = "returned"
    /\ UNCHANGED <<q, ppc, pushes, cpc, pushed, popped>>

finishNotify ==
    /\ fpc = "notify"
    /\ q' = NotifyOne(q)
    /\ fpc' = "returned"
    /\ UNCHANGED <<ppc, pushes, cpc, pushed, popped>>

\* The consumer calls pop again as soon as it has dealt with an element.
popTrue ==
    /\ cpc = "pop"
    /\ CanTake(q)
    /\ q' = Take(q)
    /\ popped' = Append(popped, Head(q.items))
    /\ UNCHANGED <<ppc, pushes, fpc, cpc, pushed>>

popWait ==
    /\ cpc = "pop"
    /\ CanWait(q)
    /\ q' = Wait(q)
    /\ UNCHANGED <<ppc, pushes, fpc, cpc, pushed, popped>>

popFalse ==
    /\ cpc = "pop"
    /\ CanStop(q)
    /\ q' = Leave(q)
    /\ cpc' = "stopped"
    /\ UNCHANGED <<ppc, pushes, fpc, pushed, popped>>

\* A condition variable may wake its waiter without a notification.
spuriousWakeup ==
    /\ q.consumer = "waiting"
    /\ q' = NotifyOne(q)
    /\ UNCHANGED <<ppc, pushes, fpc, cpc, pushed, popped>>

Pop == popTrue \/ popWait \/ popFalse

Next ==
    \/ \E p \in Producers : push(p) \/ pushNotify(p)
    \/ finish
    \/ finishNotify
    \/ Pop
    \/ spuriousWakeup

Spec == Init /\ [][Next]_vars

\* A thread that is inside a call gets to run; nobody has to call push or
\* finish, and no spurious wake-up has to happen.
Fairness ==
    /\ WF_vars(Pop)
    /\ WF_vars(finishNotify)
    /\ \A p \in Producers : WF_vars(pushNotify(p))

FairSpec == Spec /\ Fairness
-----------------------------------------------------------------------------
Elements == Producers \X Nat

\* The variables have their types.
TypeOK ==
    /\ q \in [items : Seq(Elements), done : BOOLEAN,
              consumer : {"out", "waiting", "woken"}]
    /\ ppc \in [Producers -> {"idle", "notify"}]
    /\ pushes \in [Producers -> Nat]
    /\ fpc \in {"idle", "notify", "returned"}
    /\ cpc \in {"pop", "stopped"}
    /\ pushed \in Seq(Elements)
    /\ popped \in Seq(Elements)

\* Elements leave the queue in the order they entered it, none lost and none
\* twice, whatever the threads' interleaving.
FifoOrder == pushed = popped \o q.items

\* No wake-up of push is lost: when the consumer waits while there is an
\* element, some producer has still to call notify_one.
NoLostPush ==
    q.consumer = "waiting" /\ q.items # <<>>
        => \E p \in Producers : ppc[p] = "notify"

\* Every element pushed is popped in the end, unless the consumer stopped.
PushedIsPopped ==
    \A n \in 1 .. MaxPush :
        (Len(pushed) >= n) ~> (Len(popped) >= n \/ cpc = "stopped")

\* finish stops the consumer when it finds it waiting ("wake the pop caller
\* if necessary").
FinishWakesWaiter ==
    (fpc = "notify" /\ q.consumer = "waiting") ~> (cpc = "stopped")

\* Queue.hh: pop returns "true if an element was popped; false if the
\* finish method has been invoked", so it does return after finish.
FinishStopsConsumer == (fpc = "returned") ~> (cpc = "stopped")
=============================================================================
