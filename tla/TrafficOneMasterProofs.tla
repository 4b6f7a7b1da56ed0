----------------------- MODULE TrafficOneMasterProofs -----------------------
(***************************************************************************)
(* Proofs about the started system of test 02: one master and the slave    *)
(* that the router finds for it in the first client, and any number of     *)
(* clients and blocks beside them.  Nothing is lost there, no thread ends  *)
(* with an error, and the router ends with everything delivered.  The      *)
(* first part, about the promises, holds for every system.  The last part  *)
(* shows that the system is a bus when the slave is the only one.          *)
(***************************************************************************)
EXTENDS TrafficProofs

\* Element k of the queue of client c is a request.
Queued(c, k) == k \in DOMAIN q[c].items /\ IsRequest(q[c].items[k].msg)

\* An application with the operations o waits for operation n, of master m.
Waits(o, m, n) == n \in DOMAIN o /\ o[n].master = m /\ o[n].status = "pending"

\* The requests in a queue belong to operations that wait, each to another.
QueueWaits(c) ==
    \A k \in Nat : Queued(c, k) =>
        /\ q[c].items[k].msg.txn.initiator \in masterMap(c)
        /\ Waits(ops[c], q[c].items[k].msg.txn.initiator, q[c].items[k].op)
        /\ \A j \in Nat : Queued(c, j) /\ q[c].items[j].op = q[c].items[k].op => j = k

\* So does the request that a writer is about to register.
WriterWaits(c) ==
    bridge[c].writer = "register" =>
        /\ bridge[c].txn.msg.txn.initiator \in masterMap(c)
        /\ Waits(ops[c], bridge[c].txn.msg.txn.initiator, bridge[c].txn.op)
        /\ \A k \in Nat : Queued(c, k) => q[c].items[k].op # bridge[c].txn.op

\* So do the promises in txns, which have different ids.
TxnWaits(m, c) ==
    \A e \in txns[m] :
        /\ Waits(ops[c], m, e.op)
        /\ \A i \in txns[m] : i.op = e.op \/ i.id = e.id => i = e
        /\ bridge[c].writer = "register" => bridge[c].txn.op # e.op
        /\ \A k \in Nat : Queued(c, k) => q[c].items[k].op # e.op

PendingInv ==
    \A c \in Clients : /\ QueueWaits(c) /\ WriterWaits(c)
                       /\ \A m \in masterMap(c) : TxnWaits(m, c)
-----------------------------------------------------------------------------
(* What the operations do to a queue *)

\* Only SetDone touches done.
LEMMA QueueDone ==
    ASSUME NEW r, IsQueue(r)
    PROVE  /\ Wait(r).done = r.done /\ NotifyOne(r).done = r.done /\ Leave(r).done = r.done
           /\ Take(r).done = r.done
           /\ \A e : NotifyOne(Enqueue(r, e)).done = r.done
  BY DEF IsQueue, Wait, NotifyOne, Leave, Take, Enqueue

\* The elements of a sequence that has grown at its end, and the new one.
LEMMA Grown ==
    ASSUME NEW S, NEW s \in Seq(S), NEW e \in S
    PROVE  /\ Len(s) \in Nat /\ DOMAIN s = 1 .. Len(s)
           /\ DOMAIN Append(s, e) = 1 .. (Len(s) + 1)
           /\ Append(s, e)[Len(s) + 1] = e
           /\ \A k \in DOMAIN s : Append(s, e)[k] = s[k]
  OBVIOUS

\* The first element of a sequence, and the others in their order.
LEMMA Shrunk ==
    ASSUME NEW S, NEW s \in Seq(S), s # <<>>
    PROVE  /\ Len(s) \in Nat \ {0} /\ DOMAIN s = 1 .. Len(s) /\ Head(s) = s[1]
           /\ DOMAIN Tail(s) = 1 .. (Len(s) - 1)
           /\ \A k \in DOMAIN Tail(s) : k + 1 \in DOMAIN s /\ Tail(s)[k] = s[k + 1]
           /\ Len(Tail(s)) = Len(s) - 1
  <1> DEFINE n == Len(s)
             r == Tail(s)
  <1>1. /\ n \in Nat \ {0} /\ DOMAIN s = 1 .. n /\ Head(s) = s[1] /\ DOMAIN r = 1 .. (n - 1)
        /\ Len(r) = n - 1
    OBVIOUS
  <1>2. \A i \in 1 .. (n - 1) : r[i] = s[i + 1]
    OBVIOUS
  <1> HIDE DEF n, r
  <1>3. \A k \in DOMAIN r : k + 1 \in DOMAIN s /\ r[k] = s[k + 1]
    BY <1>1, <1>2
  <1> QED
    BY <1>1, <1>3 DEF n, r

\* A push puts the entry at the end of one queue and leaves done alone.
LEMMA PushEffect ==
    ASSUME Shape, NEW c \in Clients, NEW e \in GoodEntry, Push(c, e)
    PROVE  /\ q'[c].items = Append(q[c].items, e) /\ q'[c].done = q[c].done
           /\ q[c].items \in Seq(GoodEntry)
           /\ \A d \in Clients \ {c} : q'[d] = q[d]
  <1>1. IsQueue(q[c]) /\ DOMAIN q = Clients
    BY DEF Shape, QueuesInv
  <1>2. NotifyOne(Enqueue(q[c], e)).done = q[c].done
    BY <1>1, QueueDone
  <1>3. q'[c] = NotifyOne(Enqueue(q[c], e))
    BY <1>1 DEF Push
  <1> QED
    BY <1>1, <1>2, <1>3, PushStep DEF Shape, IsQueue
-----------------------------------------------------------------------------
(* What the steps do *)

\* The state of client d and of what the router keeps for it is left alone.
Same(d) ==
    /\ q'[d] = q[d] /\ bridge'[d] = bridge[d] /\ toRouter'[d] = toRouter[d]
    /\ toClient'[d] = toClient[d] /\ rr'[d] = rr[d] /\ rw'[d] = rw[d]

\* The goroutine route and the router process are left alone.
SameRoute == rt' = rt /\ masterCount' = masterCount /\ up' = up

\* Master::read and Master::write push a request of a new operation.
LEMMA IssueEffect ==
    ASSUME Shape, NEW c \in Clients, NEW m \in masterMap(c), NEW type \in ReqTypes,
           NEW b \in Buffers, issue(m, type, b)
    PROVE  /\ \E e \in GoodEntry : /\ Push(c, e) /\ IsRequest(e.msg)
                                   /\ e.msg.txn.initiator = m /\ e.op = Len(ops[c]) + 1
           /\ \E o \in Op : /\ ops'[c] = Append(ops[c], o)
                            /\ o.master = m /\ o.status = "pending"
           /\ ops[c] \in Seq(Op) /\ \A d \in Clients \ {c} : ops'[d] = ops[d]
           /\ m \notin terminated
           /\ UNCHANGED <<terminated, bridge, txns, toRouter, toClient, rr, rw, rt, masterCount, up>>
  <1>1. Ips[m].owner = c /\ m \in Masters
    BY Owners
  <1>2. PICK n \in Nat : n = Len(ops[c]) + 1
    BY LenProperties DEF Shape, OpsInv
  <1>3. n \in 1 .. MaxOps
    BY <1>1, <1>2, BoundsAssumption DEF issue
  <1>4. PICK t : t = RequestTxn(m, type, b, n)
    OBVIOUS
  <1>5. Entry("TRANSACTION", TxnMsg(t), n) \in GoodEntry /\ IsRequest(TxnMsg(t)) /\ t.initiator = m
        /\ t.data \in Bytes
    BY <1>1, <1>3, <1>4, RequestIsGood
  <1>6. Push(c, Entry("TRANSACTION", TxnMsg(t), n))
    BY <1>1, <1>2, <1>4 DEF issue
  <1>7. PICK o : o = [master |-> m, type |-> type, address |-> b.address, size |-> b.size,
                      status |-> "pending", buffer |-> t.data]
    OBVIOUS
  <1>8. ops' = [ops EXCEPT ![c] = Append(@, o)]
    BY <1>1, <1>2, <1>4, <1>7 DEF issue
  <1>9. ops \in [Clients -> Seq(Op)]
    BY DEF Shape, OpsInv
  <1>10. o \in Op
    <2>1. b.address \in Addr /\ b.size \in Addr
      BY BuffersAssumption
    <2> QED
      BY <1>1, <1>5, <1>7, <2>1 DEF Op
  <1>11. o.master = m /\ o.status = "pending"
    BY <1>7
  <1>12. \E e \in GoodEntry : /\ Push(c, e) /\ IsRequest(e.msg)
                              /\ e.msg.txn.initiator = m /\ e.op = Len(ops[c]) + 1
    <2>1. /\ Entry("TRANSACTION", TxnMsg(t), n).msg = TxnMsg(t) /\ TxnMsg(t).txn = t
          /\ Entry("TRANSACTION", TxnMsg(t), n).op = n
      BY EntryFacts, MessageFacts
    <2> QED
      BY <1>2, <1>5, <1>6, <2>1
  <1>13. /\ m \notin terminated
         /\ UNCHANGED <<terminated, bridge, txns, toRouter, toClient, rr, rw, rt, masterCount, up>>
    BY DEF issue, routerVars
  <1>14. ops'[c] = Append(ops[c], o) /\ \A d \in Clients \ {c} : ops'[d] = ops[d]
    BY <1>8, <1>9
  <1> QED
    BY <1>9, <1>10, <1>11, <1>12, <1>13, <1>14

\* Master::terminate pushes a termination.
LEMMA TerminateEffect ==
    ASSUME Shape, NEW c \in Clients, NEW m \in masterMap(c), terminate(m)
    PROVE  /\ \E e \in GoodEntry : Push(c, e) /\ e.msg = TerminateMsg(m) /\ e.msg.type = "TERMINATE"
           /\ m \notin terminated /\ terminated' = terminated \cup {m}
           /\ EarlyTerminate \/ ~Outstanding(m)
           /\ UNCHANGED <<ops, bridge, txns, toRouter, toClient, rr, rw, rt, masterCount, up>>
  <1>1. Ips[m].owner = c /\ m \in Masters
    BY Owners
  <1>2. ~IsRequest(TerminateMsg(m)) /\ 0 \in 0 .. MaxOps
    BY MessageFacts, BoundsAssumption DEF IsRequest
  <1>3. Entry("TERMINATION", TerminateMsg(m), 0) \in GoodEntry
    BY <1>1, <1>2, EntryFacts, GoodMsgFacts
  <1>4. Push(c, Entry("TERMINATION", TerminateMsg(m), 0))
    BY <1>1 DEF terminate
  <1>5. \E e \in GoodEntry : Push(c, e) /\ e.msg = TerminateMsg(m) /\ e.msg.type = "TERMINATE"
    BY <1>3, <1>4, EntryFacts, MessageFacts
  <1> QED
    BY <1>5 DEF terminate, routerVars

\* The fields of the record of a bridge.
LEMMA BridgeFields ==
    ASSUME Shape, NEW c \in Clients
    PROVE  /\ DOMAIN bridge = Clients /\ IsBridge(bridge[c])
           /\ DOMAIN bridge[c] = {"state", "reader", "readerStatus", "writer", "writerStatus", "txn", "app"}
  BY DEF Shape, BridgesInv, IsBridge

\* waitForCompletion and disconnect.
LEMMA JoinEffect ==
    ASSUME Shape, NEW c \in Clients, waitForCompletion(c) \/ disconnect(c)
    PROVE  /\ \A d \in Clients \ {c} : Same(d)
           /\ SameRoute /\ UNCHANGED <<ops, terminated, q, txns, toRouter, toClient, rr, rw>>
           /\ bridge'[c].reader = bridge[c].reader /\ bridge'[c].readerStatus = bridge[c].readerStatus
           /\ bridge'[c].writer = bridge[c].writer /\ bridge'[c].writerStatus = bridge[c].writerStatus
           /\ bridge'[c].txn = bridge[c].txn
           /\ \/ /\ bridge'[c].state = bridge[c].state /\ bridge[c].app = "running"
                 /\ bridge'[c].app = "completed"
                 /\ bridge[c].reader = "exited" /\ bridge[c].writer = "exited"
              \/ /\ bridge[c].app = "completed" /\ bridge'[c].app = "disconnected"
                 /\ bridge'[c].state = "DISCONNECTED"
  <1>1. /\ DOMAIN bridge = Clients
        /\ DOMAIN bridge[c] = {"state", "reader", "readerStatus", "writer", "writerStatus", "txn", "app"}
    BY BridgeFields
  <1>2. /\ UNCHANGED <<ops, terminated, q, txns, toRouter, toClient, rr, rw>>
        /\ SameRoute
    BY DEF waitForCompletion, disconnect, appVars, routerVars, SameRoute
  <1>3. CASE waitForCompletion(c)
    <2>1. bridge' = [bridge EXCEPT ![c].app = "completed"]
      BY <1>3 DEF waitForCompletion
    <2>2. \A d \in Clients \ {c} : bridge'[d] = bridge[d]
      BY <2>1, <1>1
    <2> QED
      BY <1>1, <1>2, <1>3, <2>1, <2>2 DEF waitForCompletion, Same
  <1>4. CASE disconnect(c)
    <2>1. bridge' = [bridge EXCEPT ![c].app = "disconnected", ![c].state = "DISCONNECTED"]
      BY <1>4 DEF disconnect
    <2>2. \A d \in Clients \ {c} : bridge'[d] = bridge[d]
      BY <2>1, <1>1
    <2> QED
      BY <1>1, <1>2, <1>4, <2>1, <2>2 DEF disconnect, Same
  <1> QED
    BY <1>3, <1>4

\* The writer takes the first element of its queue.
LEMMA TakeEffect ==
    ASSUME Shape, NEW c \in Clients, writerTake(c)
    PROVE  /\ \A d \in Clients \ {c} : Same(d)
           /\ SameRoute /\ UNCHANGED <<ops, terminated, txns, toRouter, toClient, rr, rw>>
           /\ q[c].items # <<>> /\ q[c].items \in Seq(GoodEntry) /\ Head(q[c].items) \in GoodEntry
           /\ q'[c].items = Tail(q[c].items) /\ q'[c].done = q[c].done
           /\ bridge[c].writer = "pop" /\ bridge'[c].txn = Head(q[c].items)
           /\ bridge'[c].writer = IF IsRequest(Head(q[c].items).msg) THEN "register" ELSE "send"
           /\ bridge'[c].reader = bridge[c].reader /\ bridge'[c].readerStatus = bridge[c].readerStatus
           /\ bridge'[c].state = bridge[c].state /\ bridge'[c].writerStatus = bridge[c].writerStatus
           /\ bridge'[c].app = bridge[c].app
  <1>1. /\ DOMAIN bridge = Clients
        /\ DOMAIN bridge[c] = {"state", "reader", "readerStatus", "writer", "writerStatus", "txn", "app"}
    BY BridgeFields
  <1>2. IsQueue(q[c]) /\ DOMAIN q = Clients
    BY DEF Shape, QueuesInv
  <1>3. PICK h : h = Head(q[c].items)
    OBVIOUS
  <1>4. PICK w : w = IF IsRequest(h.msg) THEN "register" ELSE "send"
    OBVIOUS
  <1>5. /\ q[c].items # <<>> /\ q' = [q EXCEPT ![c] = Take(@)] /\ bridge[c].writer = "pop"
        /\ bridge' = [bridge EXCEPT ![c].txn = h, ![c].writer = w]
    BY <1>3, <1>4 DEF writerTake, CanTake
  <1>6. /\ SameRoute /\ UNCHANGED <<ops, terminated, txns, toRouter, toClient, rr, rw>>
    BY DEF writerTake, appVars, routerVars, SameRoute
  <1>7. /\ q'[c].items = Tail(q[c].items) /\ h \in GoodEntry
        /\ \A d \in Clients \ {c} : q'[d] = q[d]
    BY <1>3, <1>5, TakeStep DEF Shape
  <1>8. q'[c].done = q[c].done
    BY <1>2, <1>5, QueueDone
  <1>9. \A d \in Clients \ {c} : bridge'[d] = bridge[d]
    BY <1>1, <1>5
  <1>10. /\ bridge'[c].txn = h /\ bridge'[c].writer = w
         /\ bridge'[c].reader = bridge[c].reader /\ bridge'[c].readerStatus = bridge[c].readerStatus
         /\ bridge'[c].state = bridge[c].state /\ bridge'[c].writerStatus = bridge[c].writerStatus
         /\ bridge'[c].app = bridge[c].app
    BY <1>1, <1>5
  <1>11. \A d \in Clients \ {c} : Same(d)
    BY <1>6, <1>7, <1>9 DEF Same
  <1> QED
    BY <1>2, <1>3, <1>4, <1>5, <1>6, <1>7, <1>8, <1>10, <1>11 DEF IsQueue

\* The writer waits, a spurious wake-up, or the reader's notification.
LEMMA WaitEffect ==
    ASSUME Shape, NEW c \in Clients, writerWait(c) \/ spuriousWakeup(c)
    PROVE  /\ SameRoute /\ UNCHANGED <<ops, terminated, txns, bridge, toRouter, toClient, rr, rw>>
           /\ \A d \in Clients : q'[d].items = q[d].items /\ q'[d].done = q[d].done
  <1>1. IsQueue(q[c]) /\ DOMAIN q = Clients
    BY DEF Shape, QueuesInv
  <1>2. SameRoute /\ UNCHANGED <<ops, terminated, txns, bridge, toRouter, toClient, rr, rw>>
    BY DEF writerWait, spuriousWakeup, appVars, routerVars, SameRoute
  <1>3. PICK r \in {Wait(q[c]), NotifyOne(q[c])} : q' = [q EXCEPT ![c] = r]
    BY DEF writerWait, spuriousWakeup
  <1>4. r.items = q[c].items /\ r.done = q[c].done
    BY <1>1, <1>3, QueueDone, QueueFields
  <1>5. \A d \in Clients : q'[d].items = q[d].items /\ q'[d].done = q[d].done
    BY <1>1, <1>3, <1>4
  <1> QED
    BY <1>2, <1>5

\* The writer's pop returns false.
LEMMA StopEffect ==
    ASSUME Shape, NEW c \in Clients, writerStop(c)
    PROVE  /\ \A d \in Clients \ {c} : Same(d)
           /\ SameRoute /\ UNCHANGED <<ops, terminated, txns, toRouter, toClient, rr, rw>>
           /\ q'[c].items = q[c].items /\ q'[c].done = q[c].done /\ q[c].done
           /\ bridge[c].writer = "pop" /\ bridge'[c].writer = "logout"
           /\ bridge'[c].reader = bridge[c].reader /\ bridge'[c].readerStatus = bridge[c].readerStatus
           /\ bridge'[c].state = bridge[c].state /\ bridge'[c].writerStatus = bridge[c].writerStatus
           /\ bridge'[c].app = bridge[c].app /\ bridge'[c].txn = bridge[c].txn
  <1>1. /\ DOMAIN bridge = Clients
        /\ DOMAIN bridge[c] = {"state", "reader", "readerStatus", "writer", "writerStatus", "txn", "app"}
    BY BridgeFields
  <1>2. IsQueue(q[c]) /\ DOMAIN q = Clients
    BY DEF Shape, QueuesInv
  <1>3. /\ q' = [q EXCEPT ![c] = Leave(@)] /\ bridge[c].writer = "pop" /\ q[c].done
        /\ bridge' = [bridge EXCEPT ![c].writer = "logout"]
    BY DEF writerStop, CanStop
  <1>4. SameRoute /\ UNCHANGED <<ops, terminated, txns, toRouter, toClient, rr, rw>>
    BY DEF writerStop, appVars, routerVars, SameRoute
  <1>5. Leave(q[c]).items = q[c].items /\ Leave(q[c]).done = q[c].done
    BY <1>2, QueueDone, QueueFields
  <1>6. /\ q'[c].items = q[c].items /\ q'[c].done = q[c].done
        /\ \A d \in Clients \ {c} : q'[d] = q[d]
    BY <1>2, <1>3, <1>5
  <1>7. /\ \A d \in Clients \ {c} : bridge'[d] = bridge[d]
        /\ bridge'[c].writer = "logout"
        /\ bridge'[c].reader = bridge[c].reader /\ bridge'[c].readerStatus = bridge[c].readerStatus
        /\ bridge'[c].state = bridge[c].state /\ bridge'[c].writerStatus = bridge[c].writerStatus
        /\ bridge'[c].app = bridge[c].app /\ bridge'[c].txn = bridge[c].txn
    BY <1>1, <1>3
  <1>8. \A d \in Clients \ {c} : Same(d)
    BY <1>4, <1>6, <1>7 DEF Same
  <1> QED
    BY <1>3, <1>4, <1>6, <1>7, <1>8

\* A request gets its id and its promise is entered in txns.
LEMMA RegisterEffect ==
    ASSUME Shape, NEW c \in Clients, writerRegister(c)
    PROVE  \E t \in Transaction, m \in Masters, new \in Nat :
             /\ bridge[c].txn \in GoodEntry /\ IsRequest(bridge[c].txn.msg)
             /\ t = bridge[c].txn.msg.txn /\ m = t.initiator /\ new = lastTxnId[m]
             /\ bridge[c].writer = "register" /\ bridge'[c].writer = "send"
             /\ bridge'[c].txn.msg = TxnMsg([t EXCEPT !.id = new])
             /\ \A i \in Masters \ {m} : txns'[i] = txns[i]
             /\ txns'[m] = txns[m] \cup {[id |-> new, op |-> bridge[c].txn.op]}
             /\ \A d \in Clients \ {c} : Same(d)
             /\ SameRoute /\ UNCHANGED <<ops, terminated, q, toRouter, toClient, rr, rw>>
             /\ bridge'[c].reader = bridge[c].reader /\ bridge'[c].readerStatus = bridge[c].readerStatus
             /\ bridge'[c].state = bridge[c].state /\ bridge'[c].writerStatus = bridge[c].writerStatus
             /\ bridge'[c].app = bridge[c].app
  <1>1. /\ DOMAIN bridge = Clients /\ IsBridge(bridge[c])
        /\ DOMAIN bridge[c] = {"state", "reader", "readerStatus", "writer", "writerStatus", "txn", "app"}
    BY BridgeFields
  <1>2. PICK e : e = bridge[c].txn
    OBVIOUS
  <1>3. e \in GoodEntry /\ IsRequest(e.msg) /\ bridge[c].writer = "register"
    BY <1>1, <1>2 DEF writerRegister, IsBridge
  <1>4. PICK t \in Transaction : t = e.msg.txn
    BY <1>3, NumberedIsGood
  <1>5. PICK m \in Masters : m = t.initiator
    BY TxnFields
  <1>6. PICK new \in Nat : new = lastTxnId[m]
    BY DEF Shape, TablesInv
  <1>7. PICK x : x = [id |-> new, op |-> e.op]
    OBVIOUS
  <1>8. /\ bridge' = [bridge EXCEPT ![c].writer = "send", ![c].txn.msg.txn.id = new]
        /\ txns' = [txns EXCEPT ![m] = @ \cup {x}]
    BY <1>2, <1>4, <1>5, <1>6, <1>7 DEF writerRegister
  <1>9. SameRoute /\ UNCHANGED <<ops, terminated, q, toRouter, toClient, rr, rw>>
    BY DEF writerRegister, appVars, routerVars, SameRoute
  <1>10. /\ bridge'[c].writer = "send" /\ bridge'[c].txn = [e EXCEPT !.msg.txn.id = new]
         /\ \A d \in Clients \ {c} : bridge'[d] = bridge[d]
         /\ bridge'[c].reader = bridge[c].reader /\ bridge'[c].readerStatus = bridge[c].readerStatus
         /\ bridge'[c].state = bridge[c].state /\ bridge'[c].writerStatus = bridge[c].writerStatus
         /\ bridge'[c].app = bridge[c].app
    <2>1. PICK f : f = [e EXCEPT !.msg.txn.id = new]
      OBVIOUS
    <2>2. bridge' = [bridge EXCEPT ![c].writer = "send", ![c].txn = f]
      BY <1>2, <1>8, <2>1
    <2> QED
      BY <1>1, <2>1, <2>2
  <1>11. bridge'[c].txn.msg = TxnMsg([t EXCEPT !.id = new])
    BY <1>3, <1>4, <1>10, NumberedIsGood
  <1>12. (\A i \in Masters \ {m} : txns'[i] = txns[i]) /\ txns'[m] = txns[m] \cup {x}
    BY <1>8 DEF Shape, TablesInv
  <1>13. \A d \in Clients \ {c} : Same(d)
    BY <1>9, <1>10 DEF Same
  <1> WITNESS t \in Transaction, m \in Masters, new \in Nat
  <1> QED
    BY <1>2, <1>3, <1>4, <1>5, <1>6, <1>7, <1>9, <1>10, <1>11, <1>12, <1>13, Zenon

\* sendTransaction, sendTermination and sendLogout.
LEMMA SendEffect ==
    ASSUME Shape, NEW c \in Clients, writerSend(c) \/ writerLogout(c)
    PROVE  /\ \A d \in Clients \ {c} : Same(d)
           /\ SameRoute /\ UNCHANGED <<ops, terminated, q, txns, toClient, rr, rw>>
           /\ up = "running" /\ toRouter[c] \in Seq(GoodMsg) /\ bridge[c].state = "STARTED"
           /\ bridge'[c].reader = bridge[c].reader /\ bridge'[c].readerStatus = bridge[c].readerStatus
           /\ bridge'[c].writerStatus = bridge[c].writerStatus /\ bridge'[c].app = bridge[c].app
           /\ \/ /\ bridge[c].writer = "send" /\ bridge'[c].writer = "pop"
                 /\ bridge[c].txn.msg \in GoodMsg /\ bridge'[c].txn = NoEntry
                 /\ bridge'[c].state = bridge[c].state
                 /\ toRouter'[c] = Append(toRouter[c], bridge[c].txn.msg)
              \/ /\ bridge[c].writer = "logout" /\ bridge'[c].writer = "exited"
                 /\ bridge'[c].txn = bridge[c].txn /\ bridge'[c].state = "LOGGED_OUT"
                 /\ toRouter'[c] = Append(toRouter[c], DoneMsg)
  <1>1. /\ DOMAIN bridge = Clients /\ IsBridge(bridge[c])
        /\ DOMAIN bridge[c] = {"state", "reader", "readerStatus", "writer", "writerStatus", "txn", "app"}
    BY BridgeFields
  <1>2. toRouter \in [Clients -> Seq(GoodMsg)]
    BY DEF Shape, SocketsInv
  <1>3. /\ SameRoute /\ UNCHANGED <<ops, terminated, q, txns, toClient, rr, rw>>
        /\ up = "running" /\ bridge[c].state = "STARTED"
    BY DEF writerSend, writerLogout, appVars, routerVars, SameRoute
  <1>4. CASE writerSend(c)
    <2>1. PICK msg \in GoodMsg : msg = bridge[c].txn.msg
      BY <1>1, <1>4, EntryFacts DEF writerSend, IsBridge
    <2>2. /\ toRouter' = [toRouter EXCEPT ![c] = Append(@, msg)] /\ bridge[c].writer = "send"
          /\ bridge' = [bridge EXCEPT ![c].writer = "pop", ![c].txn = NoEntry]
      BY <1>4, <2>1 DEF writerSend
    <2>3. toRouter'[c] = Append(toRouter[c], msg) /\ \A d \in Clients \ {c} : toRouter'[d] = toRouter[d]
      BY <1>2, <2>2
    <2>4. /\ \A d \in Clients \ {c} : bridge'[d] = bridge[d]
          /\ bridge'[c].reader = bridge[c].reader /\ bridge'[c].readerStatus = bridge[c].readerStatus
          /\ bridge'[c].writerStatus = bridge[c].writerStatus /\ bridge'[c].app = bridge[c].app
          /\ bridge'[c].writer = "pop" /\ bridge'[c].txn = NoEntry
          /\ bridge'[c].state = bridge[c].state
      BY <1>1, <2>2
    <2>5. \A d \in Clients \ {c} : Same(d)
      BY <1>3, <2>3, <2>4 DEF Same
    <2> QED
      BY <1>2, <1>3, <2>1, <2>2, <2>3, <2>4, <2>5
  <1>5. CASE writerLogout(c)
    <2>1. /\ toRouter' = [toRouter EXCEPT ![c] = Append(@, DoneMsg)] /\ bridge[c].writer = "logout"
          /\ bridge' = [bridge EXCEPT ![c].writer = "exited", ![c].state = "LOGGED_OUT"]
      BY <1>5 DEF writerLogout
    <2>2. toRouter'[c] = Append(toRouter[c], DoneMsg) /\ \A d \in Clients \ {c} : toRouter'[d] = toRouter[d]
      BY <1>2, <2>1
    <2>3. /\ \A d \in Clients \ {c} : bridge'[d] = bridge[d]
          /\ bridge'[c].reader = bridge[c].reader /\ bridge'[c].readerStatus = bridge[c].readerStatus
          /\ bridge'[c].writerStatus = bridge[c].writerStatus /\ bridge'[c].app = bridge[c].app
          /\ bridge'[c].writer = "exited" /\ bridge'[c].txn = bridge[c].txn
          /\ bridge'[c].state = "LOGGED_OUT"
      BY <1>1, <2>1
    <2>4. \A d \in Clients \ {c} : Same(d)
      BY <1>3, <2>2, <2>3 DEF Same
    <2> QED
      BY <1>2, <1>3, <2>1, <2>2, <2>3, <2>4
  <1> QED
    BY <1>4, <1>5

\* A writer that fails, or a client that dies.
LEMMA FailEffect ==
    ASSUME Shape, NEW c \in Clients, writerFail(c) \/ Die(c)
    PROVE  /\ \A d \in Clients \ {c} : Same(d)
           /\ SameRoute /\ UNCHANGED <<ops, terminated, q, txns, toRouter, toClient, rr, rw>>
           /\ bridge'[c].writer = "exited"
  <1>1. /\ DOMAIN bridge = Clients
        /\ DOMAIN bridge[c] = {"state", "reader", "readerStatus", "writer", "writerStatus", "txn", "app"}
    BY BridgeFields
  <1>2. SameRoute /\ UNCHANGED <<ops, terminated, q, txns, toRouter, toClient, rr, rw>>
    BY DEF writerFail, Die, appVars, routerVars, SameRoute
  <1>3. bridge'[c].writer = "exited" /\ \A d \in Clients \ {c} : bridge'[d] = bridge[d]
    BY <1>1 DEF writerFail, Die
  <1> QED
    BY <1>2, <1>3 DEF Same

\* What a reader has received.
LEMMA ConsumeEffect ==
    ASSUME Shape, NEW c \in Clients, Receiving(c), Consume(c)
    PROVE  /\ toClient[c] # <<>> /\ toClient[c] \in Seq(GoodMsg) /\ Head(toClient[c]) \in GoodMsg
           /\ toClient'[c] = Tail(toClient[c])
           /\ \A d \in Clients \ {c} : toClient'[d] = toClient[d]
           /\ bridge[c].reader = "receive" /\ bridge[c].state = "STARTED"
  <1>1. toClient \in [Clients -> Seq(GoodMsg)] /\ toClient[c] # <<>>
    BY DEF Shape, SocketsInv, Receiving
  <1>2. Head(toClient[c]) \in GoodMsg
    BY <1>1, ReceivedIsGood
  <1> QED
    BY <1>1, <1>2 DEF Consume, Receiving

\* The reader stops.
LEMMA StopReaderEffect ==
    ASSUME Shape, NEW c \in Clients, NEW status, StopReader(c, status)
    PROVE  /\ \A d \in Clients \ {c} : q'[d] = q[d] /\ bridge'[d] = bridge[d]
           /\ q'[c].items = q[c].items
           /\ bridge'[c].reader = "notify" /\ bridge'[c].readerStatus = status
           /\ bridge'[c].writer = bridge[c].writer /\ bridge'[c].writerStatus = bridge[c].writerStatus
           /\ bridge'[c].state = bridge[c].state /\ bridge'[c].app = bridge[c].app
           /\ bridge'[c].txn = bridge[c].txn
  <1>1. /\ DOMAIN bridge = Clients
        /\ DOMAIN bridge[c] = {"state", "reader", "readerStatus", "writer", "writerStatus", "txn", "app"}
    BY BridgeFields
  <1>2. /\ q' = [q EXCEPT ![c] = SetDone(@)]
        /\ bridge' = [bridge EXCEPT ![c].reader = "notify", ![c].readerStatus = status]
    BY DEF StopReader
  <1>3. (\A d \in Clients \ {c} : q'[d] = q[d]) /\ q'[c].items = q[c].items
    BY <1>2, SameItemsStep DEF Shape, QueuesInv
  <1> QED
    BY <1>1, <1>2, <1>3

\* The reader ends because of DONE or of a message it does not know.
LEMMA EndEffect ==
    ASSUME Shape, NEW c \in Clients,
           receiveDone(c) \/ receiveUnknownResponse(c) \/ receiveUnknownRequest(c)
    PROVE  /\ \A d \in Clients \ {c} : Same(d)
           /\ SameRoute /\ UNCHANGED <<ops, terminated, txns, toRouter, rr, rw>>
           /\ toClient[c] # <<>> /\ toClient[c] \in Seq(GoodMsg) /\ Head(toClient[c]) \in GoodMsg
           /\ toClient'[c] = Tail(toClient[c]) /\ bridge[c].reader = "receive"
           /\ q'[c].items = q[c].items
           /\ bridge'[c].reader = "notify"
           /\ receiveDone(c) => Head(toClient[c]).type = "DONE" /\ bridge'[c].readerStatus = "ok"
           /\ bridge'[c].writer = bridge[c].writer /\ bridge'[c].writerStatus = bridge[c].writerStatus
           /\ bridge'[c].state = bridge[c].state /\ bridge'[c].app = bridge[c].app
           /\ bridge'[c].txn = bridge[c].txn
  <1>1. PICK status : StopReader(c, status) /\ (receiveDone(c) => status = "ok")
    BY DEF receiveDone, receiveUnknownResponse, receiveUnknownRequest, IsResponse, IsRequest
  <1>2. Receiving(c) /\ Consume(c) /\ (receiveDone(c) => Head(toClient[c]).type = "DONE")
    BY DEF receiveDone, receiveUnknownResponse, receiveUnknownRequest
  <1>3. SameRoute /\ UNCHANGED <<ops, terminated, txns, toRouter, rr, rw>>
    BY DEF receiveDone, receiveUnknownResponse, receiveUnknownRequest, appVars, routerVars, SameRoute
  <1>4. /\ toClient[c] # <<>> /\ toClient[c] \in Seq(GoodMsg) /\ Head(toClient[c]) \in GoodMsg
        /\ toClient'[c] = Tail(toClient[c])
        /\ \A d \in Clients \ {c} : toClient'[d] = toClient[d]
        /\ bridge[c].reader = "receive"
    BY <1>2, ConsumeEffect
  <1>5. /\ \A d \in Clients \ {c} : q'[d] = q[d] /\ bridge'[d] = bridge[d]
        /\ q'[c].items = q[c].items
        /\ bridge'[c].reader = "notify" /\ bridge'[c].readerStatus = status
        /\ bridge'[c].writer = bridge[c].writer /\ bridge'[c].writerStatus = bridge[c].writerStatus
        /\ bridge'[c].state = bridge[c].state /\ bridge'[c].app = bridge[c].app
        /\ bridge'[c].txn = bridge[c].txn
    BY <1>1, StopReaderEffect
  <1>6. \A d \in Clients \ {c} : Same(d)
    BY <1>3, <1>4, <1>5 DEF Same
  <1> QED
    BY <1>1, <1>2, <1>3, <1>4, <1>5, <1>6

\* The reader has the answer to an operation.
LEMMA AnswerEffect ==
    ASSUME Shape, NEW c \in Clients, receiveResponse(c)
    PROVE  \E h \in GoodMsg, m \in masterMap(c) : \E e \in txns[m] :
             /\ h = Head(toClient[c]) /\ IsResponse(h) /\ m = h.txn.initiator /\ e.id = h.txn.id
             /\ \A d \in Clients \ {c} : Same(d)
             /\ SameRoute /\ UNCHANGED <<terminated, q, bridge, toRouter, rr, rw>>
             /\ toClient[c] # <<>> /\ toClient[c] \in Seq(GoodMsg)
             /\ toClient'[c] = Tail(toClient[c]) /\ bridge[c].reader = "receive"
             /\ txns'[m] = txns[m] \ {e}
             /\ \A i \in Masters \ {m} : txns'[i] = txns[i]
             /\ \A d \in Clients \ {c} : ops'[d] = ops[d]
             /\ DOMAIN ops'[c] = DOMAIN ops[c]
             /\ \A i \in DOMAIN ops[c] : i # e.op => ops'[c][i] = ops[c][i]
  <1>1. PICK h : h = Head(toClient[c])
    OBVIOUS
  <1>2. Receiving(c) /\ Consume(c) /\ IsResponse(h) /\ h.txn.initiator \in masterMap(c)
    BY <1>1 DEF receiveResponse
  <1>3. /\ toClient[c] # <<>> /\ toClient[c] \in Seq(GoodMsg) /\ h \in GoodMsg
        /\ toClient'[c] = Tail(toClient[c])
        /\ \A d \in Clients \ {c} : toClient'[d] = toClient[d]
        /\ bridge[c].reader = "receive"
    BY <1>1, <1>2, ConsumeEffect
  <1>4. SameRoute /\ UNCHANGED <<terminated, q, bridge, toRouter, rr, rw>>
    BY DEF receiveResponse, routerVars, SameRoute
  <1>5. PICK m \in masterMap(c) : m = h.txn.initiator
    BY <1>2
  <1>6. m \in Masters
    BY Owners
  <1>7. PICK e \in txns[m] :
          /\ e.id = h.txn.id /\ txns' = [txns EXCEPT ![m] = @ \ {e}]
          /\ ops' = [ops EXCEPT ![c][e.op].status = IF h.txn.ok THEN "ok" ELSE "error",
                                ![c][e.op].buffer = IF h.txn.type = "READ_RESP" /\ h.txn.ok
                                                    THEN h.txn.data ELSE @]
    BY <1>1, <1>5 DEF receiveResponse
  <1>8. txns'[m] = txns[m] \ {e} /\ \A i \in Masters \ {m} : txns'[i] = txns[i]
    BY <1>6, <1>7 DEF Shape, TablesInv
  <1>9. (\A d \in Clients \ {c} : ops'[d] = ops[d]) /\ DOMAIN ops'[c] = DOMAIN ops[c]
    BY AnswerStep
  <1>10. \A i \in DOMAIN ops[c] : i # e.op => ops'[c][i] = ops[c][i]
    <2> DEFINE status == IF h.txn.ok THEN "ok" ELSE "error"
               taken == h.txn.type = "READ_RESP" /\ h.txn.ok
    <2>1. ops' = [ops EXCEPT ![c][e.op].status = status,
                             ![c][e.op].buffer = IF taken THEN h.txn.data ELSE @]
      BY <1>7
    <2> HIDE DEF status, taken
    <2> QED
      BY <2>1 DEF Shape, OpsInv
  <1>11. \A d \in Clients \ {c} : Same(d)
    BY <1>3, <1>4 DEF Same
  <1> WITNESS h \in GoodMsg, m \in masterMap(c)
  <1> WITNESS e \in txns[m]
  <1> QED
    BY <1>1, <1>2, <1>3, <1>4, <1>5, <1>7, <1>8, <1>9, <1>10, <1>11, Zenon

\* The reader has called the handler of a slave and queues the response.
LEMMA RequestEffect ==
    ASSUME Shape, NEW c \in Clients, receiveRequest(c)
    PROVE  \E h \in GoodMsg, e \in GoodEntry :
             /\ h = Head(toClient[c]) /\ IsRequest(h) /\ IsResponse(e.msg) /\ Push(c, e)
             /\ e.msg.txn.initiator = h.txn.initiator /\ e.msg.txn.id = h.txn.id
             /\ SameRoute /\ UNCHANGED <<ops, terminated, bridge, txns, toRouter, rr, rw>>
             /\ toClient[c] # <<>> /\ toClient[c] \in Seq(GoodMsg)
             /\ toClient'[c] = Tail(toClient[c]) /\ bridge[c].reader = "receive"
             /\ \A d \in Clients \ {c} : Same(d)
  <1>1. PICK h : h = Head(toClient[c])
    OBVIOUS
  <1>2. /\ Receiving(c) /\ Consume(c) /\ IsRequest(h) /\ h.txn.target + 1 \in slaveMap(c)
        /\ Push(c, Entry("TRANSACTION", TxnMsg(ResponseTxn(mem[h.txn.target + 1], h.txn)), 0))
    BY <1>1 DEF receiveRequest
  <1>3. /\ toClient[c] # <<>> /\ toClient[c] \in Seq(GoodMsg) /\ h \in GoodMsg
        /\ toClient'[c] = Tail(toClient[c])
        /\ \A d \in Clients \ {c} : toClient'[d] = toClient[d]
        /\ bridge[c].reader = "receive"
    BY <1>1, <1>2, ConsumeEffect
  <1>4. SameRoute /\ UNCHANGED <<ops, terminated, bridge, txns, toRouter, rr, rw>>
    BY DEF receiveRequest, appVars, routerVars, SameRoute
  <1>5. PICK t \in Transaction : t = h.txn /\ t.type \in ReqTypes /\ t.target = 0
    BY <1>2, <1>3, GoodMsgFacts DEF IsRequest
  <1>6. PICK cells \in [Addr -> 0 .. MaxOps] : cells = mem[t.target + 1]
    BY <1>2, <1>5, Owners DEF Shape, TablesInv
  <1>7. PICK msg \in GoodMsg : /\ msg = TxnMsg(ResponseTxn(cells, t)) /\ IsResponse(msg)
                               /\ msg.txn.initiator = t.initiator /\ msg.txn.id = t.id
    BY <1>5, ResponseIsGood, MessageFacts
  <1>8. ~IsRequest(msg) /\ 0 \in 0 .. MaxOps
    BY <1>7, BoundsAssumption DEF IsRequest, IsResponse, ReqTypes, RespTypes
  <1>9. PICK e \in GoodEntry : Push(c, e) /\ e.msg = msg
    BY <1>2, <1>5, <1>6, <1>7, <1>8, EntryFacts
  <1>10. \A d \in Clients \ {c} : q'[d] = q[d]
    BY <1>9, PushEffect
  <1>11. \A d \in Clients \ {c} : Same(d)
    BY <1>3, <1>4, <1>10 DEF Same
  <1> WITNESS h \in GoodMsg, e \in GoodEntry
  <1> QED
    BY <1>1, <1>2, <1>3, <1>4, <1>5, <1>7, <1>9, <1>11

\* The reader fails, or never returns from its loop.
LEMMA ReaderFailEffect ==
    ASSUME Shape, NEW c \in Clients, receiveFail(c) \/ receiveSpin(c)
    PROVE  /\ SameRoute /\ UNCHANGED <<ops, terminated, txns, toRouter, toClient, rr, rw>>
           /\ \A d \in Clients : /\ q'[d].items = q[d].items /\ bridge'[d].txn = bridge[d].txn
                                 /\ bridge'[d].writer = bridge[d].writer
  <1>1. /\ DOMAIN bridge = Clients
        /\ DOMAIN bridge[c] = {"state", "reader", "readerStatus", "writer", "writerStatus", "txn", "app"}
    BY BridgeFields
  <1>2. \A d \in Clients : q'[d].items = q[d].items
    BY SameItemsStep DEF receiveFail, receiveSpin, Shape
  <1>3. \A d \in Clients : bridge'[d].writer = bridge[d].writer /\ bridge'[d].txn = bridge[d].txn
    BY <1>1 DEF receiveFail, receiveSpin
  <1> QED
    BY <1>2, <1>3 DEF receiveFail, receiveSpin, appVars, routerVars, SameRoute

\* The reader notifies the writer and ends.
LEMMA NotifyEffect ==
    ASSUME Shape, NEW c \in Clients, readerNotify(c)
    PROVE  /\ \A d \in Clients \ {c} : Same(d)
           /\ SameRoute /\ UNCHANGED <<ops, terminated, txns, toRouter, toClient, rr, rw>>
           /\ q'[c].items = q[c].items /\ q'[c].done = q[c].done
           /\ bridge[c].reader = "notify" /\ bridge'[c].reader = "exited"
           /\ bridge'[c].readerStatus = bridge[c].readerStatus
           /\ bridge'[c].writer = bridge[c].writer /\ bridge'[c].writerStatus = bridge[c].writerStatus
           /\ bridge'[c].state = bridge[c].state /\ bridge'[c].app = bridge[c].app
           /\ bridge'[c].txn = bridge[c].txn
  <1>1. /\ DOMAIN bridge = Clients
        /\ DOMAIN bridge[c] = {"state", "reader", "readerStatus", "writer", "writerStatus", "txn", "app"}
    BY BridgeFields
  <1>2. IsQueue(q[c]) /\ DOMAIN q = Clients
    BY DEF Shape, QueuesInv
  <1>3. /\ q' = [q EXCEPT ![c] = NotifyOne(@)] /\ bridge[c].reader = "notify"
        /\ bridge' = [bridge EXCEPT ![c].reader = "exited"]
    BY DEF readerNotify
  <1>4. NotifyOne(q[c]).items = q[c].items /\ NotifyOne(q[c]).done = q[c].done
    BY <1>2, QueueDone, QueueFields
  <1>5. /\ \A d \in Clients \ {c} : q'[d] = q[d] /\ bridge'[d] = bridge[d]
        /\ q'[c].items = q[c].items /\ q'[c].done = q[c].done
    BY <1>1, <1>2, <1>3, <1>4
  <1>6. SameRoute /\ UNCHANGED <<ops, terminated, txns, toRouter, toClient, rr, rw>>
    BY DEF readerNotify, appVars, routerVars, SameRoute
  <1>7. \A d \in Clients \ {c} : Same(d)
    BY <1>5, <1>6 DEF Same
  <1> QED
    BY <1>1, <1>3, <1>5, <1>6, <1>7

\* client.reader has a message.
LEMMA ReadEffect ==
    ASSUME Shape, NEW c \in Clients, clientRead(c)
    PROVE  /\ \A d \in Clients \ {c} : Same(d)
           /\ SameRoute /\ UNCHANGED <<ops, terminated, txns, q, bridge, toClient, rw>>
           /\ up = "running" /\ rr[c].pc = "read"
           /\ toRouter[c] # <<>> /\ toRouter[c] \in Seq(GoodMsg) /\ Head(toRouter[c]) \in GoodMsg
           /\ toRouter'[c] = Tail(toRouter[c])
           /\ Head(toRouter[c]).type = "DONE" => rr'[c].pc = "exited" /\ rr'[c].msg = NoMsg
           /\ Head(toRouter[c]).type # "DONE" => rr'[c].pc = "push" /\ rr'[c].msg = Head(toRouter[c])
  <1>1. toRouter \in [Clients -> Seq(GoodMsg)] /\ DOMAIN rr = Clients
    BY DEF Shape, SocketsInv, RouterInv
  <1>2. /\ toRouter[c] # <<>> /\ up = "running" /\ rr[c].pc = "read"
        /\ toRouter' = [toRouter EXCEPT ![c] = Tail(@)]
        /\ rr' = [rr EXCEPT ![c] = IF Head(toRouter[c]).type = "DONE"
                                   THEN [pc |-> "exited", msg |-> NoMsg]
                                   ELSE [pc |-> "push", msg |-> Head(toRouter[c])]]
    BY DEF clientRead
  <1>3. SameRoute /\ UNCHANGED <<ops, terminated, txns, q, bridge, toClient, rw>>
    BY DEF clientRead, appVars, bridgeVars, SameRoute
  <1>4. toRouter'[c] = Tail(toRouter[c]) /\ \A d \in Clients \ {c} : toRouter'[d] = toRouter[d]
    BY <1>1, <1>2
  <1>5. /\ \A d \in Clients \ {c} : rr'[d] = rr[d]
        /\ Head(toRouter[c]).type = "DONE" => rr'[c].pc = "exited" /\ rr'[c].msg = NoMsg
        /\ Head(toRouter[c]).type # "DONE" => rr'[c].pc = "push" /\ rr'[c].msg = Head(toRouter[c])
    BY <1>1, <1>2
  <1>6. Head(toRouter[c]) \in GoodMsg
    BY <1>1, <1>2, HeadTailProperties
  <1>7. \A d \in Clients \ {c} : Same(d)
    BY <1>3, <1>4, <1>5 DEF Same
  <1> QED
    BY <1>1, <1>2, <1>3, <1>4, <1>5, <1>6, <1>7

\* client.writer writes a message.
LEMMA WriteEffect ==
    ASSUME Shape, NEW c \in Clients, clientWrite(c)
    PROVE  /\ \A d \in Clients \ {c} : Same(d)
           /\ SameRoute /\ UNCHANGED <<ops, terminated, txns, q, bridge, toRouter, rr>>
           /\ up = "running" /\ rw[c].pc = "write" /\ rw[c].msg \in GoodMsg
           /\ toClient[c] \in Seq(GoodMsg) /\ toClient'[c] = Append(toClient[c], rw[c].msg)
           /\ rw'[c].msg = NoMsg
           /\ rw'[c].pc = IF rw[c].msg.type = "DONE" THEN "exited" ELSE "receive"
  <1>1. toClient \in [Clients -> Seq(GoodMsg)] /\ DOMAIN rw = Clients
    BY DEF Shape, SocketsInv, RouterInv
  <1>2. PICK p : p = IF rw[c].msg.type = "DONE" THEN "exited" ELSE "receive"
    OBVIOUS
  <1>3. /\ up = "running" /\ rw[c].pc = "write"
        /\ toClient' = [toClient EXCEPT ![c] = Append(@, rw[c].msg)]
        /\ rw' = [rw EXCEPT ![c] = [pc |-> p, msg |-> NoMsg]]
    BY <1>2 DEF clientWrite
  <1>4. SameRoute /\ UNCHANGED <<ops, terminated, txns, q, bridge, toRouter, rr>>
    BY DEF clientWrite, appVars, bridgeVars, SameRoute
  <1>5. rw[c].msg \in GoodMsg
    BY <1>3 DEF Shape, RouterInv
  <1>6. /\ toClient'[c] = Append(toClient[c], rw[c].msg)
        /\ \A d \in Clients \ {c} : toClient'[d] = toClient[d] /\ rw'[d] = rw[d]
        /\ rw'[c].msg = NoMsg /\ rw'[c].pc = p
    BY <1>1, <1>3
  <1>7. \A d \in Clients \ {c} : Same(d)
    BY <1>4, <1>6 DEF Same
  <1> QED
    BY <1>1, <1>2, <1>3, <1>4, <1>5, <1>6, <1>7

\* route takes a message from client.reader.
LEMMA RouteEffect ==
    ASSUME Shape, NEW c \in Clients,
           routeLastTerminate(c) \/ routeTerminate(c) \/ routeResponse(c) \/ routeRequest(c)
    PROVE  /\ \A d \in Clients \ {c} : Same(d)
           /\ UNCHANGED <<ops, terminated, txns, q, bridge, toRouter, toClient, rw>>
           /\ up = "running" /\ rt.pc = "receive" /\ rr[c].pc = "push" /\ rr[c].msg \in GoodMsg
           /\ rr'[c].pc = "read" /\ rr'[c].msg = NoMsg
           /\ \/ /\ routeLastTerminate(c) /\ rr[c].msg.type = "TERMINATE"
                 /\ rt'.pc = "sendDone" /\ rt'.msg = DoneMsg
                 /\ masterCount = 1 /\ masterCount' = 0 /\ up' = up
              \/ routeTerminate(c) /\ masterCount # 1
              \/ /\ rr[c].msg.type = "TRANSACTION"
                 /\ \E msg \in GoodMsg : /\ rt' = [pc |-> "send", msg |-> msg, client |-> 0]
                                         /\ msg.type = "TRANSACTION"
                                         /\ msg.txn.initiator = rr[c].msg.txn.initiator
                                         /\ msg.txn.id = rr[c].msg.txn.id
                 /\ masterCount' = masterCount /\ up' = up
  <1>1. /\ TakeIncoming(c) /\ Incoming(c, rr[c].msg)
        /\ UNCHANGED <<ops, terminated, txns, q, bridge, toRouter, toClient, rw>>
    BY DEF routeLastTerminate, routeTerminate, routeResponse, routeRequest, appVars, bridgeVars
  <1>2. /\ rr'[c].pc = "read" /\ rr'[c].msg = NoMsg /\ \A d \in Clients \ {c} : rr'[d] = rr[d]
        /\ rr[c].pc = "push" /\ rr[c].msg \in GoodMsg /\ up = "running" /\ rt.pc = "receive"
    BY <1>1 DEF TakeIncoming, Incoming, Shape, RouterInv
  <1>3. \A d \in Clients \ {c} : Same(d)
    BY <1>1, <1>2 DEF Same
  <1>4. CASE routeLastTerminate(c)
    <2>1. /\ rr[c].msg.type = "TERMINATE" /\ masterCount = 1 /\ masterCount' = masterCount - 1
          /\ rt' = [pc |-> "sendDone", msg |-> DoneMsg, client |-> 0] /\ up' = up
      BY <1>4 DEF routeLastTerminate
    <2>2. masterCount' = 0 /\ rt'.pc = "sendDone" /\ rt'.msg = DoneMsg
      BY <2>1
    <2> QED
      BY <1>1, <1>2, <1>3, <1>4, <2>1, <2>2
  <1>5. CASE routeTerminate(c)
    <2>1. masterCount # 1
      BY <1>5 DEF routeTerminate
    <2> QED
      BY <1>1, <1>2, <1>3, <1>5, <2>1
  <1>6. CASE routeResponse(c)
    <2>1. /\ IsResponse(rr[c].msg) /\ Outgoing(ClientId(rr[c].msg.txn.initiator), rr[c].msg)
          /\ masterCount' = masterCount /\ up' = up
      BY <1>6 DEF routeResponse
    <2>2. rt' = [pc |-> "send", msg |-> rr[c].msg, client |-> 0] /\ rr[c].msg.type = "TRANSACTION"
      BY <2>1 DEF Outgoing, ClientId, IsResponse
    <2> QED
      BY <1>1, <1>2, <1>3, <2>1, <2>2
  <1>7. CASE routeRequest(c)
    <2>1. rr[c].msg.type = "TRANSACTION" /\ masterCount' = masterCount /\ up' = up
      BY <1>7 DEF routeRequest, IsRequest
    <2>2. \E msg \in GoodMsg : /\ rt' = [pc |-> "send", msg |-> msg, client |-> 0]
                               /\ msg.type = "TRANSACTION"
                               /\ msg.txn.initiator = rr[c].msg.txn.initiator
                               /\ msg.txn.id = rr[c].msg.txn.id
      BY <1>7, RouteRequestFacts
    <2> QED
      BY <1>1, <1>2, <1>3, <2>1, <2>2
  <1> QED
    BY <1>4, <1>5, <1>6, <1>7

\* route hands a message to client.writer.
LEMMA HandOverEffect ==
    ASSUME Shape, routeSend \/ sendDone
    PROVE  \E c \in Clients :
             /\ c = rt.client /\ \A d \in Clients \ {c} : Same(d)
             /\ UNCHANGED <<ops, terminated, txns, q, bridge, toRouter, toClient, rr, masterCount, up>>
             /\ up = "running" /\ rw[c].pc = "receive" /\ rw'[c].pc = "write"
             /\ \/ /\ routeSend /\ rt.pc = "send" /\ rw'[c].msg = rt.msg
                   /\ rt'.pc = "receive" /\ rt'.msg = NoMsg
                \/ /\ sendDone /\ rt.pc = "sendDone" /\ rw'[c].msg = DoneMsg
                   /\ rt'.pc \in {"sendDone", "exited"} /\ rt'.msg \in {rt.msg, NoMsg}
  <1>1. PICK c \in Clients : c = rt.client
    BY DEF Shape, RouterInv
  <1>2. DOMAIN rw = Clients /\ DOMAIN rt = {"pc", "msg", "client"}
    BY DEF Shape, RouterInv
  <1>3. UNCHANGED <<ops, terminated, txns, q, bridge, toRouter, toClient, rr, masterCount, up>>
    BY DEF routeSend, sendDone, appVars, bridgeVars
  <1>4. up = "running" /\ rw[c].pc = "receive"
    BY <1>1 DEF routeSend, sendDone
  <1>5. CASE routeSend
    <2>1. /\ rw' = [rw EXCEPT ![c] = [pc |-> "write", msg |-> rt.msg]] /\ rt.pc = "send"
          /\ rt' = [pc |-> "receive", msg |-> NoMsg, client |-> 0]
      BY <1>1, <1>5 DEF routeSend
    <2>2. /\ rw'[c].pc = "write" /\ rw'[c].msg = rt.msg /\ \A d \in Clients \ {c} : rw'[d] = rw[d]
          /\ rt'.pc = "receive" /\ rt'.msg = NoMsg
      BY <1>2, <2>1
    <2>3. \A d \in Clients \ {c} : Same(d)
      BY <1>3, <2>2 DEF Same
    <2> QED
      BY <1>1, <1>3, <1>4, <1>5, <2>1, <2>2, <2>3
  <1>6. CASE sendDone
    <2>1. /\ rw' = [rw EXCEPT ![c] = [pc |-> "write", msg |-> DoneMsg]] /\ rt.pc = "sendDone"
          /\ rt' = IF c + 1 \in Clients THEN [rt EXCEPT !.client = @ + 1]
                   ELSE [pc |-> "exited", msg |-> NoMsg, client |-> 0]
      BY <1>1, <1>6 DEF sendDone
    <2>2. rw'[c].pc = "write" /\ rw'[c].msg = DoneMsg /\ \A d \in Clients \ {c} : rw'[d] = rw[d]
      BY <1>2, <2>1
    <2>3. rt'.pc \in {"sendDone", "exited"} /\ rt'.msg \in {rt.msg, NoMsg}
      BY <1>2, <2>1
    <2>4. \A d \in Clients \ {c} : Same(d)
      BY <1>3, <2>2 DEF Same
    <2> QED
      BY <1>1, <1>3, <1>4, <1>6, <2>1, <2>2, <2>3, <2>4
  <1> QED
    BY <1>5, <1>6

\* The router process ends, or nothing happens.
LEMMA RestEffect ==
    ASSUME routerExit \/ UNCHANGED vars
    PROVE  /\ UNCHANGED <<ops, terminated, txns, q, bridge, toRouter, toClient, rr, rw, rt, masterCount>>
           /\ \/ up' = up
              \/ /\ up' = "exited" /\ rt.pc = "exited"
                 /\ \A c \in Clients : rr[c].pc = "exited" /\ rw[c].pc = "exited"
  BY DEF routerExit, vars, appVars, bridgeVars, routerVars

\* The router process fails because a client has closed its socket.
LEMMA FatalEffect ==
    ASSUME NEW c \in Clients, clientReadFatal(c) \/ clientWriteFatal(c)
    PROVE  UNCHANGED <<ops, terminated, txns, q, bridge, toRouter, toClient, rr, rw, rt, masterCount>>
  BY DEF clientReadFatal, clientWriteFatal, Fatal, appVars, bridgeVars
-----------------------------------------------------------------------------
(* The promises *)

\* A step that adds no request to a queue and no promise keeps PendingInv.
LEMMA QuietPending ==
    ASSUME PendingInv, ops' = ops, txns' = txns,
           \A d \in Clients :
             /\ \A k \in Nat : Queued(d, k)' => Queued(d, k) /\ q'[d].items[k] = q[d].items[k]
             /\ bridge'[d].writer = "register" =>
                  bridge[d].writer = "register" /\ bridge'[d].txn = bridge[d].txn
    PROVE  PendingInv'
  <1> SUFFICES ASSUME NEW d \in Clients
               PROVE  QueueWaits(d)' /\ WriterWaits(d)' /\ \A m \in masterMap(d) : TxnWaits(m, d)'
    BY DEF PendingInv, masterMap
  <1>1. /\ QueueWaits(d) /\ WriterWaits(d) /\ \A m \in masterMap(d) : TxnWaits(m, d)
        /\ \A m, n : Waits(ops'[d], m, n) <=> Waits(ops[d], m, n)
    BY DEF PendingInv, Waits
  <1>2. QueueWaits(d)'
    BY <1>1 DEF QueueWaits, masterMap
  <1>3. WriterWaits(d)'
    BY <1>1 DEF WriterWaits, masterMap
  <1>4. \A m \in masterMap(d) : TxnWaits(m, d)'
    BY <1>1 DEF TxnWaits
  <1> QED
    BY <1>2, <1>3, <1>4

\* Queues and writers that a step leaves alone.
LEMMA QueuedFrames ==
    ASSUME NEW d \in Clients
    PROVE  /\ q'[d].items = q[d].items =>
                \A k \in Nat : /\ Queued(d, k)' <=> Queued(d, k)
                               /\ q'[d].items[k] = q[d].items[k]
           /\ q' = q /\ bridge' = bridge /\ ops' = ops /\ txns' = txns /\ PendingInv => PendingInv'
  <1>1. q'[d].items = q[d].items =>
           \A k \in Nat : (Queued(d, k)' <=> Queued(d, k)) /\ q'[d].items[k] = q[d].items[k]
    BY DEF Queued
  <1>2. q' = q /\ bridge' = bridge /\ ops' = ops /\ txns' = txns /\ PendingInv => PendingInv'
    <2> HAVE q' = q /\ bridge' = bridge /\ ops' = ops /\ txns' = txns /\ PendingInv
    <2> QED
      BY QuietPending DEF Queued
  <1> QED
    BY <1>1, <1>2

\* The requests of a queue after a push.
LEMMA QueuedPush ==
    ASSUME Shape, NEW c \in Clients, NEW e \in GoodEntry, Push(c, e)
    PROVE  \A d \in Clients : \A k \in Nat :
             Queued(d, k)' =>
               \/ Queued(d, k) /\ q'[d].items[k] = q[d].items[k]
               \/ d = c /\ k = Len(q[c].items) + 1 /\ IsRequest(e.msg) /\ q'[d].items[k] = e
  <1>1. /\ q'[c].items = Append(q[c].items, e) /\ q[c].items \in Seq(GoodEntry)
        /\ \A d \in Clients \ {c} : q'[d] = q[d]
    BY PushEffect
  <1>2. PICK s \in Seq(GoodEntry) : s = q[c].items
    BY <1>1
  <1>3. /\ Len(s) \in Nat /\ DOMAIN s = 1 .. Len(s) /\ DOMAIN Append(s, e) = 1 .. (Len(s) + 1)
        /\ Append(s, e)[Len(s) + 1] = e
        /\ \A k \in DOMAIN s : Append(s, e)[k] = s[k]
    BY Grown
  <1> SUFFICES ASSUME NEW d \in Clients, NEW k \in Nat, Queued(d, k)'
               PROVE  \/ Queued(d, k) /\ q'[d].items[k] = q[d].items[k]
                      \/ d = c /\ k = Len(s) + 1 /\ IsRequest(e.msg) /\ q'[d].items[k] = e
    BY <1>2
  <1>4. CASE d # c
    BY <1>1, <1>4 DEF Queued
  <1>5. CASE d = c
    <2>1. k \in DOMAIN Append(s, e) /\ IsRequest(Append(s, e)[k].msg) /\ q'[d].items = Append(s, e)
      BY <1>1, <1>2, <1>5 DEF Queued
    <2>2. k \in DOMAIN s \/ k = Len(s) + 1
      BY <1>3, <2>1
    <2> QED
      BY <1>2, <1>3, <1>5, <2>1, <2>2 DEF Queued
  <1> QED
    BY <1>4, <1>5

\* A new operation waits, and so do the old ones; no promise and no request
\* is about an operation that is still to be issued.
LEMMA IssuePending ==
    ASSUME Shape, PendingInv, NEW c \in Clients, NEW m \in masterMap(c),
           NEW type \in ReqTypes, NEW b \in Buffers, issue(m, type, b)
    PROVE  PendingInv'
  <1>1. PICK e \in GoodEntry : /\ Push(c, e) /\ IsRequest(e.msg)
                               /\ e.msg.txn.initiator = m /\ e.op = Len(ops[c]) + 1
    BY IssueEffect
  <1>2. PICK o \in Op : ops'[c] = Append(ops[c], o) /\ o.master = m /\ o.status = "pending"
    BY IssueEffect
  <1>3. /\ ops[c] \in Seq(Op) /\ \A d \in Clients \ {c} : ops'[d] = ops[d]
        /\ bridge' = bridge /\ txns' = txns
    BY IssueEffect
  <1>4. /\ DOMAIN ops[c] = 1 .. Len(ops[c]) /\ Len(ops[c]) \in Nat
        /\ DOMAIN ops'[c] = 1 .. (Len(ops[c]) + 1) /\ ops'[c][e.op] = o
        /\ \A k \in DOMAIN ops[c] : ops'[c][k] = ops[c][k]
    BY <1>1, <1>2, <1>3, Grown
  <1>5. e.op \in DOMAIN ops'[c] /\ e.op \notin DOMAIN ops[c]
    BY <1>1, <1>4
  <1>6. /\ \A d \in Clients : \A i, n : Waits(ops[d], i, n) => Waits(ops'[d], i, n)
        /\ \A i : ~Waits(ops[c], i, e.op) /\ Waits(ops'[c], m, e.op)
    BY <1>2, <1>3, <1>4, <1>5 DEF Waits
  <1>7. \A d \in Clients : \A k \in Nat :
          Queued(d, k)' =>
            \/ Queued(d, k) /\ q'[d].items[k] = q[d].items[k]
            \/ d = c /\ k = Len(q[c].items) + 1 /\ q'[d].items[k] = e
    BY <1>1, QueuedPush
  <1> SUFFICES ASSUME NEW d \in Clients
               PROVE  QueueWaits(d)' /\ WriterWaits(d)' /\ \A i \in masterMap(d) : TxnWaits(i, d)'
    BY DEF PendingInv, masterMap
  <1>8. QueueWaits(d) /\ WriterWaits(d) /\ \A i \in masterMap(d) : TxnWaits(i, d)
    BY DEF PendingInv
  <1>9. QueueWaits(d)'
    <2> SUFFICES ASSUME NEW k \in Nat, Queued(d, k)'
                 PROVE  /\ q'[d].items[k].msg.txn.initiator \in masterMap(d)
                        /\ Waits(ops'[d], q'[d].items[k].msg.txn.initiator, q'[d].items[k].op)
                        /\ \A j \in Nat : Queued(d, j)' /\ q'[d].items[j].op = q'[d].items[k].op => j = k
      BY DEF QueueWaits, masterMap
    <2>1. \A j \in Nat : Queued(d, j) => /\ q[d].items[j].msg.txn.initiator \in masterMap(d)
                                         /\ Waits(ops[d], q[d].items[j].msg.txn.initiator, q[d].items[j].op)
                                         /\ d = c => q[d].items[j].op # e.op
      BY <1>6, <1>8 DEF QueueWaits
    <2>2. CASE Queued(d, k) /\ q'[d].items[k] = q[d].items[k]
      <3>1. \A j \in Nat : Queued(d, j)' /\ q'[d].items[j].op = q'[d].items[k].op => j = k
        BY <1>7, <1>8, <2>1, <2>2 DEF QueueWaits
      <3> QED
        BY <1>6, <2>1, <2>2, <3>1
    <2>3. CASE d = c /\ k = Len(q[c].items) + 1 /\ q'[d].items[k] = e
      <3>1. \A j \in Nat : Queued(d, j)' /\ q'[d].items[j].op = q'[d].items[k].op => j = k
        BY <1>7, <2>1, <2>3
      <3> QED
        BY <1>1, <1>6, <2>3, <3>1
    <2> QED
      BY <1>7, <2>2, <2>3
  <1>10. WriterWaits(d)'
    <2> SUFFICES ASSUME bridge[d].writer = "register"
                 PROVE  /\ bridge[d].txn.msg.txn.initiator \in masterMap(d)
                        /\ Waits(ops'[d], bridge[d].txn.msg.txn.initiator, bridge[d].txn.op)
                        /\ \A k \in Nat : Queued(d, k)' => q'[d].items[k].op # bridge[d].txn.op
      BY <1>3 DEF WriterWaits, masterMap
    <2>1. /\ bridge[d].txn.msg.txn.initiator \in masterMap(d)
          /\ Waits(ops[d], bridge[d].txn.msg.txn.initiator, bridge[d].txn.op)
          /\ \A k \in Nat : Queued(d, k) => q[d].items[k].op # bridge[d].txn.op
      BY <1>8 DEF WriterWaits
    <2>2. d = c => bridge[d].txn.op # e.op
      BY <1>6, <2>1
    <2> QED
      BY <1>6, <1>7, <2>1, <2>2
  <1>11. ASSUME NEW i \in masterMap(d) PROVE TxnWaits(i, d)'
    <2> SUFFICES ASSUME NEW x \in txns[i]
                 PROVE  /\ Waits(ops'[d], i, x.op)
                        /\ \A y \in txns[i] : y.op = x.op \/ y.id = x.id => y = x
                        /\ bridge[d].writer = "register" => bridge[d].txn.op # x.op
                        /\ \A k \in Nat : Queued(d, k)' => q'[d].items[k].op # x.op
      BY <1>3 DEF TxnWaits
    <2>1. /\ Waits(ops[d], i, x.op)
          /\ \A y \in txns[i] : y.op = x.op \/ y.id = x.id => y = x
          /\ bridge[d].writer = "register" => bridge[d].txn.op # x.op
          /\ \A k \in Nat : Queued(d, k) => q[d].items[k].op # x.op
      BY <1>8 DEF TxnWaits
    <2>2. d = c => x.op # e.op
      BY <1>6, <2>1
    <2> QED
      BY <1>6, <1>7, <2>1, <2>2
  <1> QED
    BY <1>9, <1>10, <1>11

\* The writer has the request that was first in the queue.
LEMMA TakePending ==
    ASSUME Shape, PendingInv, NEW c \in Clients, writerTake(c)
    PROVE  PendingInv'
  <1>1. /\ \A d \in Clients \ {c} : Same(d)
        /\ ops' = ops /\ txns' = txns
        /\ q[c].items # <<>> /\ q[c].items \in Seq(GoodEntry)
        /\ q'[c].items = Tail(q[c].items) /\ bridge[c].writer = "pop"
        /\ bridge'[c].txn = Head(q[c].items)
        /\ bridge'[c].writer = IF IsRequest(Head(q[c].items).msg) THEN "register" ELSE "send"
    BY TakeEffect
  <1>2. PICK s \in Seq(GoodEntry) : s = q[c].items
    BY <1>1
  <1>3. /\ Len(s) \in Nat \ {0} /\ DOMAIN s = 1 .. Len(s) /\ Head(s) = s[1]
        /\ DOMAIN Tail(s) = 1 .. (Len(s) - 1)
        /\ \A k \in DOMAIN Tail(s) : k + 1 \in DOMAIN s /\ Tail(s)[k] = s[k + 1]
    BY <1>1, <1>2, Shrunk
  <1>4. \A k \in Nat : Queued(c, k)' => Queued(c, k + 1) /\ q'[c].items[k] = q[c].items[k + 1] /\ k # 0
    <2> SUFFICES ASSUME NEW k \in Nat, Queued(c, k)'
                 PROVE  Queued(c, k + 1) /\ q'[c].items[k] = q[c].items[k + 1] /\ k # 0
      OBVIOUS
    <2>1. k \in DOMAIN Tail(s) /\ IsRequest(Tail(s)[k].msg) /\ q'[c].items[k] = Tail(s)[k]
      BY <1>1, <1>2 DEF Queued
    <2>2. k + 1 \in DOMAIN s /\ Tail(s)[k] = s[k + 1] /\ k # 0
      BY <1>3, <2>1
    <2> QED
      BY <1>2, <2>1, <2>2 DEF Queued
  <1>5. bridge'[c].writer = "register" => Queued(c, 1) /\ bridge'[c].txn = q[c].items[1]
    BY <1>1, <1>2, <1>3 DEF Queued
  <1>6. \A d \in Clients : \A i, n : Waits(ops'[d], i, n) <=> Waits(ops[d], i, n)
    BY <1>1 DEF Waits
  <1> SUFFICES ASSUME NEW d \in Clients
               PROVE  QueueWaits(d)' /\ WriterWaits(d)' /\ \A i \in masterMap(d) : TxnWaits(i, d)'
    BY DEF PendingInv, masterMap
  <1>7. QueueWaits(d) /\ WriterWaits(d) /\ \A i \in masterMap(d) : TxnWaits(i, d)
    BY DEF PendingInv
  <1>8. CASE d # c
    <2>1. q'[d] = q[d] /\ bridge'[d] = bridge[d]
      BY <1>1, <1>8 DEF Same
    <2>2. \A k \in Nat : Queued(d, k)' <=> Queued(d, k)
      BY <2>1 DEF Queued
    <2>3. QueueWaits(d)'
      BY <1>6, <1>7, <2>1, <2>2 DEF QueueWaits, masterMap
    <2>4. WriterWaits(d)'
      BY <1>6, <1>7, <2>1, <2>2 DEF WriterWaits, masterMap
    <2>5. \A i \in masterMap(d) : TxnWaits(i, d)'
      BY <1>1, <1>6, <1>7, <2>1, <2>2 DEF TxnWaits
    <2> QED
      BY <2>3, <2>4, <2>5
  <1>9. CASE d = c
    <2>1. \A k \in Nat : k + 1 \in Nat
      OBVIOUS
    <2>2. QueueWaits(c)'
      <3> SUFFICES ASSUME NEW k \in Nat, Queued(c, k)'
                   PROVE  /\ q'[c].items[k].msg.txn.initiator \in masterMap(c)
                          /\ Waits(ops'[c], q'[c].items[k].msg.txn.initiator, q'[c].items[k].op)
                          /\ \A j \in Nat : Queued(c, j)' /\ q'[c].items[j].op = q'[c].items[k].op => j = k
        BY DEF QueueWaits, masterMap
      <3>1. \A j \in Nat : Queued(c, j) /\ q[c].items[j].op = q[c].items[k + 1].op => j = k + 1
        BY <1>4, <1>7, <1>9, <2>1 DEF QueueWaits
      <3>2. \A j \in Nat : Queued(c, j)' /\ q'[c].items[j].op = q'[c].items[k].op => j + 1 = k + 1
        BY <1>4, <2>1, <3>1
      <3>3. \A j \in Nat : j + 1 = k + 1 => j = k
        OBVIOUS
      <3>4. /\ q[c].items[k + 1].msg.txn.initiator \in masterMap(c)
            /\ Waits(ops[c], q[c].items[k + 1].msg.txn.initiator, q[c].items[k + 1].op)
        BY <1>4, <1>7, <1>9, <2>1 DEF QueueWaits
      <3> QED
        BY <1>4, <1>6, <3>2, <3>3, <3>4
    <2>3. WriterWaits(c)'
      <3> SUFFICES ASSUME bridge'[c].writer = "register"
                   PROVE  /\ bridge'[c].txn.msg.txn.initiator \in masterMap(c)
                          /\ Waits(ops'[c], bridge'[c].txn.msg.txn.initiator, bridge'[c].txn.op)
                          /\ \A k \in Nat : Queued(c, k)' => q'[c].items[k].op # bridge'[c].txn.op
        BY DEF WriterWaits, masterMap
      <3>1. /\ q[c].items[1].msg.txn.initiator \in masterMap(c)
            /\ Waits(ops[c], q[c].items[1].msg.txn.initiator, q[c].items[1].op)
            /\ \A j \in Nat : Queued(c, j) /\ q[c].items[j].op = q[c].items[1].op => j = 1
        BY <1>5, <1>7, <1>9 DEF QueueWaits
      <3>2. \A k \in Nat : k # 0 => k + 1 # 1
        OBVIOUS
      <3>3. \A k \in Nat : Queued(c, k)' => q'[c].items[k].op # q[c].items[1].op
        BY <1>4, <2>1, <3>1, <3>2
      <3> QED
        BY <1>5, <1>6, <3>1, <3>3
    <2>4. ASSUME NEW i \in masterMap(c) PROVE TxnWaits(i, c)'
      <3> SUFFICES ASSUME NEW x \in txns[i]
                   PROVE  /\ Waits(ops'[c], i, x.op)
                          /\ \A y \in txns[i] : y.op = x.op \/ y.id = x.id => y = x
                          /\ bridge'[c].writer = "register" => bridge'[c].txn.op # x.op
                          /\ \A k \in Nat : Queued(c, k)' => q'[c].items[k].op # x.op
        BY <1>1 DEF TxnWaits
      <3>1. /\ Waits(ops[c], i, x.op)
            /\ \A y \in txns[i] : y.op = x.op \/ y.id = x.id => y = x
            /\ \A k \in Nat : Queued(c, k) => q[c].items[k].op # x.op
        BY <1>7, <1>9 DEF TxnWaits
      <3> QED
        BY <1>4, <1>5, <1>6, <2>1, <3>1
    <2> QED
      BY <1>9, <2>2, <2>3, <2>4
  <1> QED
    BY <1>8, <1>9

\* The promise that the writer enters in txns has a new id.
LEMMA RegisterPending ==
    ASSUME Shape, PlacesInv, PendingInv, NEW c \in Clients, writerRegister(c)
    PROVE  PendingInv'
  <1>0. PICK t \in Transaction, m \in Masters, new \in Nat :
          /\ bridge[c].txn \in GoodEntry /\ IsRequest(bridge[c].txn.msg)
          /\ t = bridge[c].txn.msg.txn /\ m = t.initiator /\ new = lastTxnId[m]
          /\ bridge[c].writer = "register" /\ bridge'[c].writer = "send"
          /\ bridge'[c].txn.msg = TxnMsg([t EXCEPT !.id = new])
          /\ \A i \in Masters \ {m} : txns'[i] = txns[i]
          /\ txns'[m] = txns[m] \cup {[id |-> new, op |-> bridge[c].txn.op]}
          /\ \A d \in Clients \ {c} : Same(d)
          /\ SameRoute /\ UNCHANGED <<ops, terminated, q, toRouter, toClient, rr, rw>>
          /\ bridge'[c].reader = bridge[c].reader /\ bridge'[c].readerStatus = bridge[c].readerStatus
          /\ bridge'[c].state = bridge[c].state /\ bridge'[c].writerStatus = bridge[c].writerStatus
          /\ bridge'[c].app = bridge[c].app
    BY RegisterEffect, Zenon
  <1>1. /\ t = bridge[c].txn.msg.txn /\ m = t.initiator /\ new = lastTxnId[m]
        /\ bridge[c].writer = "register" /\ bridge'[c].writer = "send"
        /\ \A i \in Masters \ {m} : txns'[i] = txns[i]
        /\ txns'[m] = txns[m] \cup {[id |-> new, op |-> bridge[c].txn.op]}
        /\ \A d \in Clients \ {c} : Same(d)
        /\ ops' = ops /\ q' = q
    BY <1>0
  <1>2. PICK x : x = [id |-> new, op |-> bridge[c].txn.op]
    OBVIOUS
  <1>3. x.id = new /\ x.op = bridge[c].txn.op /\ txns'[m] = txns[m] \cup {x}
    BY <1>1, <1>2
  <1>4. \A y \in txns[m] : y.id # new
    <2> SUFFICES ASSUME NEW y \in txns[m] PROVE y.id # new
      OBVIOUS
    <2>1. y.id \in Ids(m)
      BY DEF Ids
    <2>2. y.id < new /\ y.id \in Nat
      BY <1>1, <2>1 DEF PlacesInv, FreshIds, Shape, TablesInv
    <2> QED
      BY <2>2
  <1>5. /\ m \in masterMap(c) /\ Waits(ops[c], m, x.op)
        /\ \A k \in Nat : Queued(c, k) => q[c].items[k].op # x.op
    BY <1>1, <1>3 DEF PendingInv, WriterWaits
  <1>6. \A d \in Clients : \A k \in Nat : Queued(d, k)' <=> Queued(d, k)
    BY <1>1 DEF Queued
  <1> SUFFICES ASSUME NEW d \in Clients
               PROVE  QueueWaits(d)' /\ WriterWaits(d)' /\ \A i \in masterMap(d) : TxnWaits(i, d)'
    BY DEF PendingInv, masterMap
  <1>7. QueueWaits(d) /\ WriterWaits(d) /\ \A i \in masterMap(d) : TxnWaits(i, d)
    BY DEF PendingInv
  <1>8. bridge'[d].writer = "register" => bridge[d].writer = "register" /\ bridge'[d].txn = bridge[d].txn
    BY <1>1 DEF Same
  <1>9. QueueWaits(d)'
    BY <1>1, <1>6, <1>7 DEF QueueWaits, masterMap
  <1>10. WriterWaits(d)'
    BY <1>1, <1>6, <1>7, <1>8 DEF WriterWaits, masterMap
  <1>11. ASSUME NEW i \in masterMap(d) PROVE TxnWaits(i, d)'
    <2>1. i \in Masters /\ Ips[i].owner = d /\ Ips[m].owner = c
      BY <1>5, Owners
    <2>2. TxnWaits(i, d)
      BY <1>7
    <2>3. CASE i # m
      BY <1>1, <1>6, <1>8, <2>1, <2>2, <2>3 DEF TxnWaits
    <2>4. CASE i = m
      <3>1. d = c
        BY <2>1, <2>4
      <3> SUFFICES ASSUME NEW e \in txns'[m]
                   PROVE  /\ Waits(ops[c], m, e.op)
                          /\ \A y \in txns'[m] : y.op = e.op \/ y.id = e.id => y = e
                          /\ \A k \in Nat : Queued(c, k) => q[c].items[k].op # e.op
        BY <1>1, <1>6, <2>4, <3>1 DEF TxnWaits
      <3>2. \A y \in txns[m] : y.op # x.op
        <4>1. bridge[c].writer = "register" /\ x.op = bridge[c].txn.op
          BY <1>1, <1>3
        <4>2. TxnWaits(m, c)
          BY <2>2, <2>4, <3>1
        <4>3. \A y \in txns[m] : bridge[c].writer = "register" => bridge[c].txn.op # y.op
          BY <4>2 DEF TxnWaits
        <4> QED
          BY <4>1, <4>3
      <3>3. CASE e = x
        <4>1. \A y \in txns'[m] : y.op = e.op \/ y.id = e.id => y = e
          BY <1>3, <1>4, <3>2, <3>3
        <4> QED
          BY <1>5, <3>3, <4>1
      <3>4. CASE e \in txns[m]
        <4>1. /\ Waits(ops[c], m, e.op)
              /\ \A y \in txns[m] : y.op = e.op \/ y.id = e.id => y = e
              /\ \A k \in Nat : Queued(c, k) => q[c].items[k].op # e.op
          BY <2>2, <2>4, <3>1, <3>4 DEF TxnWaits
        <4> QED
          BY <1>3, <1>4, <3>2, <3>4, <4>1
      <3> QED
        BY <1>3, <3>3, <3>4
    <2> QED
      BY <2>3, <2>4
  <1> QED
    BY <1>9, <1>10, <1>11

\* The promise that is fulfilled was the only one of its operation, which
\* has no request in the queue any more.
LEMMA AnswerPending ==
    ASSUME Shape, PendingInv, NEW c \in Clients, receiveResponse(c)
    PROVE  PendingInv'
  <1>1. PICK h \in GoodMsg, m \in masterMap(c) : \E e \in txns[m] :
          /\ h = Head(toClient[c]) /\ IsResponse(h) /\ m = h.txn.initiator /\ e.id = h.txn.id
          /\ \A d \in Clients \ {c} : Same(d)
          /\ SameRoute /\ UNCHANGED <<terminated, q, bridge, toRouter, rr, rw>>
          /\ toClient[c] # <<>> /\ toClient[c] \in Seq(GoodMsg)
          /\ toClient'[c] = Tail(toClient[c]) /\ bridge[c].reader = "receive"
          /\ txns'[m] = txns[m] \ {e}
          /\ \A i \in Masters \ {m} : txns'[i] = txns[i]
          /\ \A d \in Clients \ {c} : ops'[d] = ops[d]
          /\ DOMAIN ops'[c] = DOMAIN ops[c]
          /\ \A i \in DOMAIN ops[c] : i # e.op => ops'[c][i] = ops[c][i]
    BY AnswerEffect, Zenon
  <1>2. PICK e \in txns[m] :
          /\ q' = q /\ bridge' = bridge
          /\ txns'[m] = txns[m] \ {e}
          /\ \A i \in Masters \ {m} : txns'[i] = txns[i]
          /\ \A d \in Clients \ {c} : ops'[d] = ops[d]
          /\ DOMAIN ops'[c] = DOMAIN ops[c]
          /\ \A i \in DOMAIN ops[c] : i # e.op => ops'[c][i] = ops[c][i]
    BY <1>1
  <1>3. \A i, n : Waits(ops[c], i, n) /\ n # e.op => Waits(ops'[c], i, n)
    BY <1>2 DEF Waits
  <1>4. /\ Waits(ops[c], m, e.op)
        /\ \A y \in txns[m] : y.op = e.op => y = e
        /\ bridge[c].writer = "register" => bridge[c].txn.op # e.op
        /\ \A k \in Nat : Queued(c, k) => q[c].items[k].op # e.op
    BY DEF PendingInv, TxnWaits
  <1>5. \A d \in Clients : \A k \in Nat : Queued(d, k)' <=> Queued(d, k)
    BY <1>2 DEF Queued
  <1>6. \A i \in Masters : txns'[i] \subseteq txns[i]
    BY <1>2
  <1> SUFFICES ASSUME NEW d \in Clients
               PROVE  QueueWaits(d)' /\ WriterWaits(d)' /\ \A i \in masterMap(d) : TxnWaits(i, d)'
    BY DEF PendingInv, masterMap
  <1>7. QueueWaits(d) /\ WriterWaits(d) /\ \A i \in masterMap(d) : TxnWaits(i, d)
    BY DEF PendingInv
  <1>8. \A i, n : Waits(ops[d], i, n) /\ (d = c => n # e.op) => Waits(ops'[d], i, n)
    BY <1>2, <1>3
  <1>9. QueueWaits(d)'
    BY <1>2, <1>4, <1>5, <1>7, <1>8 DEF QueueWaits, masterMap
  <1>10. WriterWaits(d)'
    BY <1>2, <1>4, <1>5, <1>7, <1>8 DEF WriterWaits, masterMap
  <1>11. ASSUME NEW i \in masterMap(d) PROVE TxnWaits(i, d)'
    <2>1. i \in Masters /\ Ips[i].owner = d /\ Ips[m].owner = c
      BY Owners
    <2> SUFFICES ASSUME NEW x \in txns'[i]
                 PROVE  /\ Waits(ops'[d], i, x.op)
                        /\ \A y \in txns'[i] : y.op = x.op \/ y.id = x.id => y = x
                        /\ bridge[d].writer = "register" => bridge[d].txn.op # x.op
                        /\ \A k \in Nat : Queued(d, k) => q[d].items[k].op # x.op
      BY <1>2, <1>5 DEF TxnWaits
    <2>2. x \in txns[i] /\ txns'[i] \subseteq txns[i]
      BY <1>6, <2>1
    <2>3. /\ Waits(ops[d], i, x.op)
          /\ \A y \in txns[i] : y.op = x.op \/ y.id = x.id => y = x
          /\ bridge[d].writer = "register" => bridge[d].txn.op # x.op
          /\ \A k \in Nat : Queued(d, k) => q[d].items[k].op # x.op
      BY <1>7, <2>2 DEF TxnWaits
    <2>4. d = c => x.op # e.op
      <3> HAVE d = c
      <3>1. CASE i = m
        BY <1>2, <1>4, <3>1
      <3>2. CASE i # m
        BY <1>4, <2>3, <3>2 DEF Waits
      <3> QED
        BY <3>1, <3>2
    <2> QED
      BY <1>8, <2>2, <2>3, <2>4
  <1> QED
    BY <1>9, <1>10, <1>11

\* The promises keep belonging to operations that wait.
LEMMA NextPending ==
    ASSUME Shape, PlacesInv, PendingInv, [Next]_vars
    PROVE  PendingInv'
  <1>1. ASSUME NEW c \in Clients, Application(c) PROVE PendingInv'
    <2>1. ASSUME NEW m \in masterMap(c), NEW b \in Buffers, read(m, b) \/ write(m, b) PROVE PendingInv'
      BY <2>1, IssuePending DEF read, write, ReqTypes
    <2>2. ASSUME NEW m \in masterMap(c), terminate(m) PROVE PendingInv'
      <3>1. PICK e \in GoodEntry : Push(c, e) /\ e.msg.type = "TERMINATE"
        BY <2>2, TerminateEffect
      <3>2. ops' = ops /\ txns' = txns /\ bridge' = bridge /\ ~IsRequest(e.msg)
        BY <2>2, <3>1, TerminateEffect DEF IsRequest
      <3>3. \A d \in Clients : \A k \in Nat :
              Queued(d, k)' => Queued(d, k) /\ q'[d].items[k] = q[d].items[k]
        BY <3>1, <3>2, QueuedPush
      <3> QED
        BY <3>2, <3>3, QuietPending
    <2>3. CASE waitForCompletion(c) \/ disconnect(c)
      <3>1. /\ ops' = ops /\ txns' = txns /\ q' = q
            /\ \A d \in Clients \ {c} : bridge'[d] = bridge[d]
            /\ bridge'[c].writer = bridge[c].writer /\ bridge'[c].txn = bridge[c].txn
        BY <2>3, JoinEffect DEF Same
      <3> QED
        BY <3>1, QueuedFrames, QuietPending
    <2>4. CASE crash(c)
      <3>1. /\ ops' = ops /\ txns' = txns /\ q' = q
            /\ \A d \in Clients \ {c} : bridge'[d] = bridge[d]
            /\ bridge'[c].writer = "exited"
        BY <2>4, FailEffect DEF Same, crash
      <3> QED
        BY <3>1, QueuedFrames, QuietPending
    <2> QED
      BY <1>1, <2>1, <2>2, <2>3, <2>4 DEF Application
  <1>2. ASSUME NEW c \in Clients, Writer(c) PROVE PendingInv'
    <2>1. CASE writerTake(c)
      BY <2>1, TakePending
    <2>2. CASE writerRegister(c)
      BY <2>2, RegisterPending
    <2>3. CASE writerWait(c)
      <3>1. ops' = ops /\ txns' = txns /\ bridge' = bridge /\ \A d \in Clients : q'[d].items = q[d].items
        BY <2>3, WaitEffect
      <3> QED
        BY <3>1, QueuedFrames, QuietPending
    <2>4. CASE writerStop(c)
      <3>1. /\ ops' = ops /\ txns' = txns /\ \A d \in Clients : q'[d].items = q[d].items
            /\ \A d \in Clients \ {c} : bridge'[d] = bridge[d]
            /\ bridge'[c].writer = "logout"
        BY <2>4, StopEffect DEF Same
      <3> QED
        BY <3>1, QueuedFrames, QuietPending
    <2>5. CASE writerSend(c) \/ writerLogout(c)
      <3>1. /\ ops' = ops /\ txns' = txns /\ q' = q
            /\ \A d \in Clients \ {c} : bridge'[d] = bridge[d]
            /\ bridge'[c].writer \in {"pop", "exited"}
        BY <2>5, SendEffect DEF Same
      <3> QED
        BY <3>1, QueuedFrames, QuietPending
    <2>6. CASE writerFail(c) \/ writerKilled(c)
      <3>1. /\ ops' = ops /\ txns' = txns /\ q' = q
            /\ \A d \in Clients \ {c} : bridge'[d] = bridge[d]
            /\ bridge'[c].writer = "exited"
        BY <2>6, FailEffect DEF Same, writerKilled
      <3> QED
        BY <3>1, QueuedFrames, QuietPending
    <2> QED
      BY <1>2, <2>1, <2>2, <2>3, <2>4, <2>5, <2>6 DEF Writer
  <1>3. ASSUME NEW c \in Clients, Reader(c) PROVE PendingInv'
    <2>1. CASE receiveResponse(c)
      BY <2>1, AnswerPending
    <2>2. CASE receiveRequest(c)
      <3>1. PICK e \in GoodEntry : Push(c, e) /\ IsResponse(e.msg)
        BY <2>2, RequestEffect
      <3>2. ops' = ops /\ txns' = txns /\ bridge' = bridge /\ ~IsRequest(e.msg)
        BY <2>2, <3>1, RequestEffect DEF IsRequest, IsResponse, ReqTypes, RespTypes
      <3>3. \A d \in Clients : \A k \in Nat :
              Queued(d, k)' => Queued(d, k) /\ q'[d].items[k] = q[d].items[k]
        BY <3>1, <3>2, QueuedPush
      <3> QED
        BY <3>2, <3>3, QuietPending
    <2>3. CASE receiveDone(c) \/ receiveUnknownResponse(c) \/ receiveUnknownRequest(c)
      <3>1. /\ ops' = ops /\ txns' = txns /\ \A d \in Clients : q'[d].items = q[d].items
            /\ \A d \in Clients \ {c} : bridge'[d] = bridge[d]
            /\ bridge'[c].writer = bridge[c].writer /\ bridge'[c].txn = bridge[c].txn
        BY <2>3, EndEffect DEF Same
      <3> QED
        BY <3>1, QueuedFrames, QuietPending
    <2>4. CASE receiveFail(c) \/ receiveSpin(c)
      <3>1. /\ ops' = ops /\ txns' = txns
            /\ \A d \in Clients : /\ q'[d].items = q[d].items
                                  /\ bridge'[d].writer = bridge[d].writer /\ bridge'[d].txn = bridge[d].txn
        BY <2>4, ReaderFailEffect
      <3> QED
        BY <3>1, QueuedFrames, QuietPending
    <2>5. CASE readerNotify(c)
      <3>1. /\ ops' = ops /\ txns' = txns /\ \A d \in Clients : q'[d].items = q[d].items
            /\ \A d \in Clients \ {c} : bridge'[d] = bridge[d]
            /\ bridge'[c].writer = bridge[c].writer /\ bridge'[c].txn = bridge[c].txn
        BY <2>5, NotifyEffect DEF Same
      <3> QED
        BY <3>1, QueuedFrames, QuietPending
    <2> QED
      BY <1>3, <2>1, <2>2, <2>3, <2>4, <2>5 DEF Reader
  <1>4. ASSUME NEW c \in Clients, spuriousWakeup(c) PROVE PendingInv'
    <2>1. ops' = ops /\ txns' = txns /\ bridge' = bridge /\ \A d \in Clients : q'[d].items = q[d].items
      BY <1>4, WaitEffect
    <2> QED
      BY <2>1, QueuedFrames, QuietPending
  <1>5. ASSUME UNCHANGED <<ops, txns, q, bridge>> PROVE PendingInv'
    BY <1>5, QueuedFrames, Owners
  <1>6. ASSUME NEW c \in Clients, RouterReader(c) \/ RouterWriter(c) PROVE UNCHANGED <<ops, txns, q, bridge>>
    BY <1>6 DEF RouterReader, RouterWriter, clientRead, clientReadFatal, clientWrite, clientWriteFatal,
                appVars, bridgeVars
  <1>7. ASSUME Route \/ routerExit \/ UNCHANGED vars PROVE UNCHANGED <<ops, txns, q, bridge>>
    BY <1>7 DEF Route, routeLastTerminate, routeTerminate, routeResponse, routeRequest, routeSend,
                sendDone, routerExit, vars, appVars, bridgeVars
  <1> QED
    BY <1>1, <1>2, <1>3, <1>4, <1>5, <1>6, <1>7 DEF Next

\* Nothing waits at first.
LEMMA InitPending == Init => PendingInv
  <1> SUFFICES ASSUME Init, NEW c \in Clients
               PROVE  QueueWaits(c) /\ WriterWaits(c) /\ \A m \in masterMap(c) : TxnWaits(m, c)
    BY DEF PendingInv
  <1>1. /\ q[c].items = <<>> /\ bridge[c].writer = "pop"
        /\ \A m \in masterMap(c) : txns[m] = {}
    BY Owners DEF Init, NewQueue
  <1>2. \A k \in Nat : ~Queued(c, k)
    BY <1>1 DEF Queued
  <1> QED
    BY <1>1, <1>2 DEF QueueWaits, WriterWaits, TxnWaits

\* A promise always belongs to an operation that waits, and no two promises
\* of a master, and no promise and a request that is still to be registered,
\* belong to the same one: Bridge::reader never fulfils a promise twice, for
\* any number of masters, slaves and clients and whatever fails.
THEOREM PromisesWait == Spec => []PendingInv
  <1>1. Init => Shape /\ PlacesInv /\ PendingInv
    BY InitShape, InitPlaces, InitPending
  <1>2. Shape /\ PlacesInv /\ PendingInv /\ [Next]_vars => (Shape /\ PlacesInv /\ PendingInv)'
    BY NextShape, NextPlaces, NextPending
  <1> QED
    BY <1>1, <1>2, PTL DEF Spec

\* What an answered operation has got is final.
Final(c, k) == ops[c][k].status # "pending" => ops'[c][k] = ops[c][k]

AnswersAreFinal == \A c \in Clients : \A k \in DOMAIN ops[c] : Final(c, k)

\* An operation is answered at most once: its status and its buffer do not
\* change after the first answer, whatever arrives later.
THEOREM AnsweredOnce == Spec => [][AnswersAreFinal]_vars
  <1>1. ASSUME Shape, PendingInv, [Next]_vars PROVE AnswersAreFinal
    <2> SUFFICES ASSUME NEW d \in Clients, NEW k \in DOMAIN ops[d], ops[d][k].status # "pending"
                 PROVE  ops'[d][k] = ops[d][k]
      BY DEF AnswersAreFinal, Final
    <2>1. ASSUME NEW c \in Clients, NEW m \in masterMap(c), NEW type \in ReqTypes, NEW b \in Buffers,
                 issue(m, type, b)
          PROVE  ops'[d][k] = ops[d][k]
      <3>1. PICK o \in Op : ops'[c] = Append(ops[c], o)
        BY <1>1, <2>1, IssueEffect
      <3>2. ops[c] \in Seq(Op) /\ \A i \in Clients \ {c} : ops'[i] = ops[i]
        BY <1>1, <2>1, IssueEffect
      <3> QED
        BY <3>1, <3>2, Grown
    <2>2. ASSUME NEW c \in Clients, receiveResponse(c) PROVE ops'[d][k] = ops[d][k]
      <3>1. \E m \in masterMap(c) : \E e \in txns[m] :
              /\ \A i \in Clients \ {c} : ops'[i] = ops[i]
              /\ \A i \in DOMAIN ops[c] : i # e.op => ops'[c][i] = ops[c][i]
        BY <1>1, <2>2, AnswerEffect
      <3>2. PICK m \in masterMap(c) : \E e \in txns[m] :
              /\ \A i \in Clients \ {c} : ops'[i] = ops[i]
              /\ \A i \in DOMAIN ops[c] : i # e.op => ops'[c][i] = ops[c][i]
        BY <3>1
      <3>3. PICK e \in txns[m] :
              /\ \A i \in Clients \ {c} : ops'[i] = ops[i]
              /\ \A i \in DOMAIN ops[c] : i # e.op => ops'[c][i] = ops[c][i]
        BY <3>2
      <3>4. Waits(ops[c], m, e.op)
        BY <1>1 DEF PendingInv, TxnWaits
      <3> QED
        BY <3>3, <3>4 DEF Waits
    <2>3. ASSUME NEW c \in Clients, NEW m \in masterMap(c), terminate(m) PROVE ops'[d][k] = ops[d][k]
      BY <2>3 DEF terminate
    <2> QED
      BY <1>1, <2>1, <2>2, <2>3, OpsFrames
  <1>2. UNCHANGED vars => AnswersAreFinal
    BY DEF vars, appVars, AnswersAreFinal, Final
  <1>3. Init => Shape /\ PlacesInv /\ PendingInv
    BY InitShape, InitPlaces, InitPending
  <1>4. Shape /\ PlacesInv /\ PendingInv /\ [Next]_vars => (Shape /\ PlacesInv /\ PendingInv)'
    BY NextShape, NextPlaces, NextPending
  <1> QED
    BY <1>1, <1>2, <1>3, <1>4, PTL DEF Spec
-----------------------------------------------------------------------------
(* The system of test 02 *)

\* There is one master.  It is in the first client, to which the router sends
\* all requests, and so is the first block, a slave, which all requests name
\* as their target (RequestReachesOwner and TargetIsSet say what the code was
\* meant to do).  The application waits before it terminates the master, and
\* no process dies.
OneMaster ==
    /\ \E m \in masterMap(0) : Masters = {m}
    /\ 1 \in slaveMap(0)
    /\ ~EarlyTerminate /\ Crashing = {}

\* A goroutine keeps a message only to hand it over.
Hands(c) ==
    /\ rr[c].pc # "push" => rr[c].msg = NoMsg
    /\ rw[c].pc # "write" => rw[c].msg = NoMsg

HandsInv == (rt.pc # "send" => rt.msg \in {NoMsg, DoneMsg}) /\ \A c \in Clients : Hands(c)

\* A direction of a socket without DONE, and one that ends with it.
Open(s)    == \A k \in DOMAIN s : s[k].type # "DONE"
Closing(s) == s # <<>> /\ \A k \in DOMAIN s : s[k].type = "DONE" <=> k = Len(s)

\* DONE is the last that the bridge of client c sends.
Uplink(c) ==
    /\ \A k \in DOMAIN q[c].items : q[c].items[k].msg.type # "DONE"
    /\ bridge[c].txn.msg.type # "DONE" /\ rr[c].msg.type # "DONE"
    /\ bridge[c].writer # "exited" => Open(toRouter[c]) /\ rr[c].pc # "exited"
    /\ bridge[c].writer = "exited" /\ rr[c].pc # "exited" => Closing(toRouter[c])
    /\ rr[c].pc = "exited" => toRouter[c] = <<>>

\* DONE is the last that it gets.
Downlink(c) ==
    /\ rw[c].pc # "exited" => Open(toClient[c]) /\ bridge[c].reader = "receive"
    /\ rw[c].pc = "exited" /\ bridge[c].reader = "receive" => Closing(toClient[c])
    /\ bridge[c].reader # "receive" => toClient[c] = <<>>

\* The threads of a bridge end without errors, the reader first.
Threads(c) ==
    /\ bridge[c].readerStatus = "ok" /\ bridge[c].writerStatus = "ok" /\ bridge[c].app # "killed"
    /\ bridge[c].state = "STARTED" <=> bridge[c].writer # "exited"
    /\ bridge[c].app # "running" => bridge[c].reader = "exited" /\ bridge[c].writer = "exited"
    /\ q[c].done => bridge[c].reader # "receive"
    /\ bridge[c].writer \in {"logout", "exited"} => bridge[c].reader # "receive"

\* The router process ends after its goroutines.
UpInv ==
    /\ up # "fatal"
    /\ up = "exited" => /\ rt.pc = "exited"
                        /\ \A c \in Clients : rr[c].pc = "exited" /\ rw[c].pc = "exited"

ThreadsInv == UpInv /\ \A c \in Clients : Uplink(c) /\ Downlink(c) /\ Threads(c)

\* Nothing but DONE is on the way from client c to route.
Silent(c) ==
    /\ q[c].items = <<>> /\ bridge[c].writer \notin {"register", "send"}
    /\ \A k \in DOMAIN toRouter[c] : toRouter[c][k].type = "DONE"
    /\ rr[c].pc # "push"

\* Nor on the way to it.
Idle(c) ==
    /\ Silent(c)
    /\ \A k \in DOMAIN toClient[c] : toClient[c][k].type = "DONE"
    /\ rw[c].pc = "write" => rw[c].msg.type = "DONE"

\* The first client has all the traffic.
IdleInv == (\A c \in Clients \ {0} : Idle(c)) /\ (rt.pc = "send" => rt.client = 0)

\* Exactly one message is on the way from client c to route.
OneToken(c) ==
    /\ bridge[c].writer # "register"
    /\ \/ Len(q[c].items) = 1 /\ bridge[c].writer # "send" /\ toRouter[c] = <<>> /\ rr[c].pc # "push"
       \/ q[c].items = <<>> /\ bridge[c].writer = "send" /\ toRouter[c] = <<>> /\ rr[c].pc # "push"
       \/ q[c].items = <<>> /\ bridge[c].writer # "send" /\ Len(toRouter[c]) = 1 /\ rr[c].pc # "push"
       \/ q[c].items = <<>> /\ bridge[c].writer # "send" /\ toRouter[c] = <<>> /\ rr[c].pc = "push"

\* route has not yet seen the termination of the last master.
Working == rt.pc \in {"receive", "send"}

\* Before that there is no DONE on the way to a client.
NoDoneYet ==
    Working => /\ rt.msg.type # "DONE"
               /\ \A c \in Clients : rw[c].pc # "exited" /\ rw[c].msg.type # "DONE"

\* The termination of the master is alone on its way, and nothing follows it.
TokenInv ==
    /\ Working /\ Masters \subseteq terminated => OneToken(0)
    /\ ~Working => Silent(0) /\ masterCount = 0

CalmInv ==
    /\ Shape /\ PlacesInv /\ HonestInv /\ PendingInv
    /\ HandsInv /\ ThreadsInv /\ IdleInv /\ NoDoneYet /\ TokenInv

\* Sequences that are read and written.
LEMMA OpenFacts ==
    ASSUME NEW s \in Seq(GoodMsg)
    PROVE  /\ \A e \in GoodMsg : Open(s) /\ e.type # "DONE" => Open(Append(s, e))
           /\ \A e \in GoodMsg : Open(s) /\ e.type = "DONE" => Closing(Append(s, e))
           /\ s # <<>> /\ Open(s) => Open(Tail(s)) /\ Head(s).type # "DONE"
           /\ s # <<>> /\ Closing(s) /\ Head(s).type = "DONE" => Tail(s) = <<>>
           /\ s # <<>> /\ Closing(s) /\ Head(s).type # "DONE" => Closing(Tail(s))
           /\ Open(<<>>)
  <1>1. ASSUME NEW e \in GoodMsg, Open(s)
        PROVE  IF e.type = "DONE" THEN Closing(Append(s, e)) ELSE Open(Append(s, e))
    <2>1. PICK r : r = Append(s, e)
      OBVIOUS
    <2>2. /\ Len(s) \in Nat /\ DOMAIN s = 1 .. Len(s)
          /\ DOMAIN r = 1 .. (Len(s) + 1) /\ r[Len(s) + 1] = e
          /\ \A k \in DOMAIN s : r[k] = s[k]
      BY <2>1, Grown
    <2>3. Len(r) = Len(s) + 1 /\ r # <<>>
      BY <2>1
    <2>4. \A k \in DOMAIN r : k \in DOMAIN s \/ k = Len(s) + 1
      BY <2>2
    <2>5. \A k \in DOMAIN s : k # Len(s) + 1
      BY <2>2
    <2>6. CASE e.type = "DONE"
      BY <1>1, <2>1, <2>2, <2>3, <2>4, <2>5, <2>6 DEF Open, Closing
    <2>7. CASE e.type # "DONE"
      BY <1>1, <2>1, <2>2, <2>4, <2>7 DEF Open
    <2> QED
      BY <2>6, <2>7
  <1>2. ASSUME s # <<>>
        PROVE  /\ Open(s) => Open(Tail(s)) /\ Head(s).type # "DONE"
               /\ Closing(s) /\ Head(s).type = "DONE" => Tail(s) = <<>>
               /\ Closing(s) /\ Head(s).type # "DONE" => Closing(Tail(s))
    <2>1. PICK r \in Seq(GoodMsg) : r = Tail(s)
      BY <1>2, HeadTailProperties
    <2>2. PICK n \in Nat \ {0} : n = Len(s)
      BY <1>2, Shrunk
    <2>3. /\ DOMAIN s = 1 .. n /\ Head(s) = s[1]
          /\ DOMAIN r = 1 .. (n - 1) /\ Len(r) = n - 1
          /\ \A k \in DOMAIN r : k + 1 \in DOMAIN s /\ r[k] = s[k + 1]
      BY <1>2, <2>1, <2>2, Shrunk
    <2>4. 1 \in DOMAIN s
      BY <2>3
    <2>5. Open(s) => Open(r) /\ Head(s).type # "DONE"
      BY <2>3, <2>4 DEF Open
    <2>6. ASSUME Closing(s), Head(s).type = "DONE" PROVE r = <<>>
      <3>1. n = 1
        BY <2>2, <2>3, <2>4, <2>6 DEF Closing
      <3> QED
        BY <2>3, <3>1, EmptySeq
    <2>7. ASSUME Closing(s), Head(s).type # "DONE" PROVE Closing(r)
      <3>1. n # 1
        BY <2>2, <2>3, <2>4, <2>7 DEF Closing
      <3>2. r # <<>>
        BY <2>3, <3>1
      <3>3. \A k \in DOMAIN r : r[k].type = "DONE" <=> k + 1 = n
        BY <2>2, <2>3, <2>7 DEF Closing
      <3>4. \A k \in DOMAIN r : k + 1 = n <=> k = Len(r)
        BY <2>3
      <3> QED
        BY <3>2, <3>3, <3>4 DEF Closing
    <2> QED
      BY <2>1, <2>5, <2>6, <2>7
  <1>3. Open(<<>>)
    BY DEF Open
  <1> QED
    BY <1>1, <1>2, <1>3
-----------------------------------------------------------------------------
(* The steps that remain *)

\* The only master.
LEMMA TheMaster ==
    ASSUME OneMaster
    PROVE  /\ \A c \in Clients : \A m \in masterMap(c) : c = 0 /\ Masters = {m}
           /\ \A m \in Masters : m \in masterMap(0) /\ Masters = {m}
           /\ Cardinality(Masters) = 1 /\ ~EarlyTerminate /\ Crashing = {} /\ 1 \in slaveMap(0)
  <1>1. PICK m \in masterMap(0) : Masters = {m}
    BY DEF OneMaster
  <1>2. Cardinality(Masters) = 1
    BY <1>1, FS_Singleton
  <1> QED
    BY <1>1, <1>2, Owners DEF OneMaster

\* The threads of a bridge do not meet an end of file or a closed socket.
LEMMA NoFailure ==
    ASSUME Shape, ThreadsInv, NEW c \in Clients
    PROVE  /\ ~writerFail(c) /\ ~writerKilled(c) /\ ~receiveFail(c) /\ ~receiveSpin(c)
           /\ ~clientReadFatal(c) /\ ~clientWriteFatal(c)
  <1>1. UpInv /\ Uplink(c) /\ Downlink(c) /\ Threads(c)
    BY DEF ThreadsInv
  <1>2. up \in {"running", "exited"}
    BY <1>1 DEF Shape, RouterInv, UpInv
  <1>3. ~AtEof(c)
    <2> SUFFICES ASSUME AtEof(c) PROVE FALSE
      OBVIOUS
    <2>1. bridge[c].reader = "receive" /\ toClient[c] = <<>> /\ up = "exited"
      BY <1>2 DEF AtEof
    <2>2. rw[c].pc = "exited"
      BY <1>1, <2>1 DEF UpInv
    <2> QED
      BY <1>1, <2>1, <2>2 DEF Downlink, Closing
  <1>4. ~writerFail(c)
    BY <1>1, <1>3 DEF writerFail, Threads
  <1>5. ~writerKilled(c)
    BY <1>1, <1>2 DEF writerKilled, UpInv, Uplink
  <1>6. ~receiveFail(c) /\ ~receiveSpin(c)
    BY <1>1, <1>3 DEF receiveFail, receiveSpin, Threads
  <1>7. ~clientReadFatal(c)
    <2> SUFFICES ASSUME clientReadFatal(c) PROVE FALSE
      OBVIOUS
    <2>1. rr[c].pc = "read" /\ toRouter[c] = <<>> /\ bridge[c].state = "DISCONNECTED"
      BY DEF clientReadFatal, Closed
    <2> QED
      BY <1>1, <2>1 DEF Threads, Uplink, Closing
  <1>8. ~clientWriteFatal(c)
    <2> SUFFICES ASSUME clientWriteFatal(c) PROVE FALSE
      OBVIOUS
    <2>1. rw[c].pc = "write" /\ bridge[c].state = "DISCONNECTED"
      BY DEF clientWriteFatal, Closed
    <2> QED
      BY <1>1, <2>1 DEF Threads, Downlink
  <1> QED
    BY <1>4, <1>5, <1>6, <1>7, <1>8

\* What a reader that goes on has received is for the first client.
LEMMA ReceivedByFirst ==
    ASSUME Shape, IdleInv, NEW c \in Clients, toClient[c] # <<>>, Head(toClient[c]).type = "TRANSACTION"
    PROVE  c = 0
  <1>1. toClient[c] \in Seq(GoodMsg)
    BY DEF Shape, SocketsInv
  <1>2. 1 \in DOMAIN toClient[c] /\ Head(toClient[c]) = toClient[c][1]
    BY <1>1, Shrunk
  <1> QED
    BY <1>2 DEF IdleInv, Idle

\* A message on the way belongs to a promise.
LEMMA OnTheWay ==
    ASSUME Shape, PlacesInv, NEW c \in Clients
    PROVE  /\ \A k \in DOMAIN q[c].items : LET msg == q[c].items[k].msg IN
                IsResponse(msg) => msg.txn.initiator \in Masters /\ msg.txn.id \in Ids(msg.txn.initiator)
           /\ \A k \in DOMAIN toRouter[c] : LET msg == toRouter[c][k] IN
                msg.type = "TRANSACTION" =>
                  msg.txn.initiator \in Masters /\ msg.txn.id \in Ids(msg.txn.initiator)
           /\ \A k \in DOMAIN toClient[c] : LET msg == toClient[c][k] IN
                msg.type = "TRANSACTION" =>
                  msg.txn.initiator \in Masters /\ msg.txn.id \in Ids(msg.txn.initiator)
           /\ LET msg == bridge[c].txn.msg IN
                bridge[c].writer = "send" /\ msg.type = "TRANSACTION" =>
                  msg.txn.initiator \in Masters /\ msg.txn.id \in Ids(msg.txn.initiator)
           /\ LET msg == rr[c].msg IN
                rr[c].pc = "push" /\ msg.type = "TRANSACTION" =>
                  msg.txn.initiator \in Masters /\ msg.txn.id \in Ids(msg.txn.initiator)
  <1>1. ASSUME NEW kind \in Kinds, NEW k \in Nat, NEW msg \in GoodMsg,
               Load(<<kind, c, k>>) = msg, msg.type = "TRANSACTION"
        PROVE  msg.txn.initiator \in Masters /\ msg.txn.id \in Ids(msg.txn.initiator)
    <2>1. PICK m \in Masters, id \in Nat : m = msg.txn.initiator /\ id = msg.txn.id
      BY <1>1, GoodMsgFacts, TxnFields
    <2>2. <<kind, c, k>> \in Spots
      BY SpotFacts
    <2>3. Carries(Load(<<kind, c, k>>), m, id)
      BY <1>1, <2>1 DEF Carries
    <2> QED
      BY <2>1, <2>2, <2>3 DEF PlacesInv, Known
  <1>2. ASSUME NEW k \in DOMAIN q[c].items, IsResponse(q[c].items[k].msg)
        PROVE  LET msg == q[c].items[k].msg IN
                 msg.txn.initiator \in Masters /\ msg.txn.id \in Ids(msg.txn.initiator)
    <2>1. k \in Nat /\ q[c].items[k] \in GoodEntry
      BY DEF Shape, QueuesInv, IsQueue
    <2>2. PICK msg \in GoodMsg : msg = q[c].items[k].msg
      BY <2>1, EntryFacts
    <2>3. Load(<<"queue", c, k>>) = msg /\ msg.type = "TRANSACTION"
      BY <1>2, <2>1, <2>2, Loads DEF ResponseAt, IsResponse
    <2> QED
      BY <1>1, <2>1, <2>2, <2>3 DEF Kinds
  <1>3. ASSUME NEW k \in DOMAIN toRouter[c], toRouter[c][k].type = "TRANSACTION"
        PROVE  LET msg == toRouter[c][k] IN
                 msg.txn.initiator \in Masters /\ msg.txn.id \in Ids(msg.txn.initiator)
    <2>1. k \in Nat
      BY DEF Shape, SocketsInv
    <2>2. PICK msg \in GoodMsg : msg = toRouter[c][k]
      BY DEF Shape, SocketsInv
    <2>3. Load(<<"toRouter", c, k>>) = msg /\ msg.type = "TRANSACTION"
      BY <1>3, <2>1, <2>2, Loads DEF At
    <2> QED
      BY <1>1, <2>1, <2>2, <2>3 DEF Kinds
  <1>4. ASSUME NEW k \in DOMAIN toClient[c], toClient[c][k].type = "TRANSACTION"
        PROVE  LET msg == toClient[c][k] IN
                 msg.txn.initiator \in Masters /\ msg.txn.id \in Ids(msg.txn.initiator)
    <2>1. k \in Nat
      BY DEF Shape, SocketsInv
    <2>2. PICK msg \in GoodMsg : msg = toClient[c][k]
      BY DEF Shape, SocketsInv
    <2>3. Load(<<"toClient", c, k>>) = msg /\ msg.type = "TRANSACTION"
      BY <1>4, <2>1, <2>2, Loads DEF At
    <2> QED
      BY <1>1, <2>1, <2>2, <2>3 DEF Kinds
  <1>5. ASSUME bridge[c].writer = "send", bridge[c].txn.msg.type = "TRANSACTION"
        PROVE  LET msg == bridge[c].txn.msg IN
                 msg.txn.initiator \in Masters /\ msg.txn.id \in Ids(msg.txn.initiator)
    <2>1. PICK msg \in GoodMsg : msg = bridge[c].txn.msg
      BY <1>5, BridgeFields, EntryFacts DEF IsBridge
    <2>2. Load(<<"writer", c, 0>>) = msg /\ msg.type = "TRANSACTION"
      BY <1>5, <2>1, Loads DEF Sending
    <2> QED
      BY <1>1, <2>1, <2>2 DEF Kinds
  <1>6. ASSUME rr[c].pc = "push", rr[c].msg.type = "TRANSACTION"
        PROVE  LET msg == rr[c].msg IN
                 msg.txn.initiator \in Masters /\ msg.txn.id \in Ids(msg.txn.initiator)
    <2>1. PICK msg \in GoodMsg : msg = rr[c].msg
      BY <1>6 DEF Shape, RouterInv
    <2>2. Load(<<"rr", c, 0>>) = msg /\ msg.type = "TRANSACTION"
      BY <1>6, <2>1, Loads
    <2> QED
      BY <1>1, <2>1, <2>2 DEF Kinds
  <1> QED
    BY <1>2, <1>3, <1>4, <1>5, <1>6

\* A reader knows what it receives.
LEMMA NothingUnknown ==
    ASSUME OneMaster, Shape, PlacesInv, IdleInv, NEW c \in Clients
    PROVE  ~receiveUnknownRequest(c) /\ ~receiveUnknownResponse(c)
  <1> SUFFICES ASSUME receiveUnknownRequest(c) \/ receiveUnknownResponse(c) PROVE FALSE
    OBVIOUS
  <1>1. /\ toClient[c] # <<>> /\ Head(toClient[c]).type = "TRANSACTION"
    BY DEF receiveUnknownRequest, receiveUnknownResponse, Receiving, IsRequest, IsResponse
  <1>2. c = 0
    BY <1>1, ReceivedByFirst
  <1>3. toClient[c] \in Seq(GoodMsg)
    BY DEF Shape, SocketsInv
  <1>4. PICK h \in GoodMsg : h = Head(toClient[c])
    BY <1>1, <1>3, HeadTailProperties
  <1>5. 1 \in DOMAIN toClient[c] /\ h = toClient[c][1]
    BY <1>1, <1>3, <1>4, Shrunk
  <1>6. CASE receiveUnknownRequest(c)
    <2>1. h.txn.target = 0 /\ h.txn.target + 1 \notin slaveMap(c)
      BY <1>1, <1>4, <1>6, GoodMsgFacts DEF receiveUnknownRequest
    <2> QED
      BY <1>2, <2>1, TheMaster
  <1>7. CASE receiveUnknownResponse(c)
    <2>1. h.txn.initiator \in Masters /\ h.txn.id \in Ids(h.txn.initiator)
      BY <1>1, <1>4, <1>5, OnTheWay
    <2>2. h.txn.initiator \in masterMap(c)
      BY <1>2, <2>1, TheMaster
    <2> QED
      BY <1>4, <1>7, <2>1, <2>2 DEF receiveUnknownResponse, Ids
  <1> QED
    BY <1>6, <1>7

\* The steps of one client that its goroutines and threads still take.
ClientStep(c) ==
    \/ \E m \in masterMap(c) :
         (\E type \in ReqTypes, b \in Buffers : issue(m, type, b)) \/ terminate(m)
    \/ waitForCompletion(c) \/ disconnect(c)
    \/ writerTake(c) \/ writerWait(c) \/ spuriousWakeup(c) \/ writerStop(c) \/ writerRegister(c)
    \/ writerSend(c) \/ writerLogout(c)
    \/ receiveDone(c) \/ receiveResponse(c) \/ receiveRequest(c) \/ readerNotify(c)
    \/ clientRead(c) \/ clientWrite(c)
    \/ routeLastTerminate(c) \/ routeResponse(c) \/ routeRequest(c)

RouterStep == routeSend \/ sendDone \/ routerExit \/ UNCHANGED vars

\* The errors of the code are not met.
LEMMA StepsLeft ==
    ASSUME OneMaster, Shape, PlacesInv, ThreadsInv, IdleInv, [Next]_vars
    PROVE  (\E c \in Clients : ClientStep(c)) \/ RouterStep
  <1>1. ASSUME NEW c \in Clients, Application(c) PROVE ClientStep(c)
    BY <1>1, TheMaster DEF Application, ClientStep, read, write, ReqTypes, crash
  <1>2. ASSUME NEW c \in Clients, Writer(c) PROVE ClientStep(c)
    BY <1>2, NoFailure DEF Writer, ClientStep
  <1>3. ASSUME NEW c \in Clients, Reader(c) PROVE ClientStep(c)
    BY <1>3, NoFailure, NothingUnknown DEF Reader, ClientStep
  <1>4. ASSUME NEW c \in Clients, RouterReader(c) \/ RouterWriter(c) PROVE ClientStep(c)
    BY <1>4, NoFailure DEF RouterReader, RouterWriter, ClientStep
  <1>5. ASSUME NEW c \in Clients PROVE ~routeTerminate(c)
    <2> SUFFICES ASSUME routeTerminate(c) PROVE FALSE
      OBVIOUS
    <2>1. up = "running" /\ rt.pc = "receive" /\ masterCount # 1
      BY DEF routeTerminate, Incoming
    <2> QED
      BY <2>1, TheMaster DEF Shape, CountInv
  <1>6. Route => (\E c \in Clients : ClientStep(c)) \/ RouterStep
    BY <1>5 DEF Route, ClientStep, RouterStep
  <1>7. ASSUME NEW c \in Clients, spuriousWakeup(c) PROVE ClientStep(c)
    BY <1>7 DEF ClientStep
  <1> QED
    BY <1>1, <1>2, <1>3, <1>4, <1>6, <1>7 DEF Next, RouterStep

\* The steps of a bridge leave the goroutines of the router alone.
LEMMA BridgeLeavesRouter ==
    ASSUME NEW c \in Clients, ClientStep(c)
    PROVE  \/ UNCHANGED <<rr, rw, rt, masterCount, up>>
           \/ clientRead(c) \/ clientWrite(c)
           \/ routeLastTerminate(c) \/ routeResponse(c) \/ routeRequest(c)
  BY DEF ClientStep, issue, terminate, waitForCompletion, disconnect, writerTake, writerWait,
         spuriousWakeup, writerStop, writerRegister, writerSend, writerLogout, receiveDone,
         receiveResponse, receiveRequest, readerNotify, routerVars

\* A goroutine keeps a message only to hand it over.
LEMMA NextHands ==
    ASSUME Shape, HandsInv, (\E c \in Clients : ClientStep(c)) \/ RouterStep
    PROVE  HandsInv'
  <1>1. ASSUME UNCHANGED <<rr, rw, rt>> PROVE HandsInv'
    BY <1>1 DEF HandsInv, Hands
  <1>2. ASSUME NEW c \in Clients, clientRead(c) PROVE HandsInv'
    <2>1. /\ \A d \in Clients \ {c} : rr'[d] = rr[d]
          /\ rw' = rw /\ rt' = rt
          /\ rr'[c].pc # "push" => rr'[c].msg = NoMsg
      BY <1>2, ReadEffect DEF Same, SameRoute
    <2> QED
      BY <2>1 DEF HandsInv, Hands
  <1>3. ASSUME NEW c \in Clients, clientWrite(c) PROVE HandsInv'
    <2>1. /\ \A d \in Clients \ {c} : rw'[d] = rw[d]
          /\ rr' = rr /\ rt' = rt /\ rw'[c].msg = NoMsg
      BY <1>3, WriteEffect DEF Same, SameRoute
    <2> QED
      BY <2>1 DEF HandsInv, Hands
  <1>4. ASSUME NEW c \in Clients, routeLastTerminate(c) \/ routeResponse(c) \/ routeRequest(c)
        PROVE  HandsInv'
    <2>1. /\ \A d \in Clients \ {c} : rr'[d] = rr[d]
          /\ rw' = rw /\ rr'[c].msg = NoMsg
      BY <1>4, RouteEffect DEF Same
    <2>2. rt'.pc = "send" \/ rt'.msg = DoneMsg
      BY <1>4 DEF routeLastTerminate, routeResponse, routeRequest, Outgoing
    <2> QED
      BY <2>1, <2>2 DEF HandsInv, Hands
  <1>5. ASSUME routeSend \/ sendDone PROVE HandsInv'
    <2>1. PICK c \in Clients :
            /\ c = rt.client /\ \A d \in Clients \ {c} : Same(d)
            /\ rr' = rr /\ rw'[c].pc = "write"
            /\ \/ /\ routeSend /\ rt.pc = "send" /\ rw'[c].msg = rt.msg
                  /\ rt'.pc = "receive" /\ rt'.msg = NoMsg
               \/ /\ sendDone /\ rt.pc = "sendDone" /\ rw'[c].msg = DoneMsg
                  /\ rt'.pc \in {"sendDone", "exited"} /\ rt'.msg \in {rt.msg, NoMsg}
      BY <1>5, HandOverEffect
    <2>2. \A d \in Clients \ {c} : rw'[d] = rw[d]
      BY <2>1 DEF Same
    <2> QED
      BY <2>1, <2>2 DEF HandsInv, Hands
  <1>6. ASSUME routerExit \/ UNCHANGED vars PROVE HandsInv'
    BY <1>1, <1>6, RestEffect
  <1> QED
    BY <1>1, <1>2, <1>3, <1>4, <1>5, <1>6, BridgeLeavesRouter DEF RouterStep

\* What concerns one client is left alone with it.
LEMMA ThreadsFrames ==
    ASSUME NEW d \in Clients, Same(d), Uplink(d), Downlink(d), Threads(d)
    PROVE  Uplink(d)' /\ Downlink(d)' /\ Threads(d)'
  <1>1. Uplink(d)'
    BY DEF Same, Uplink, Open, Closing
  <1>2. Downlink(d)'
    BY DEF Same, Downlink, Open, Closing
  <1>3. Threads(d)'
    BY DEF Same, Threads
  <1> QED
    BY <1>1, <1>2, <1>3

\* It suffices to look at the client that takes the step.
LEMMA OneClient ==
    ASSUME ThreadsInv, NEW c \in Clients, \A d \in Clients \ {c} : Same(d), UpInv',
           Uplink(c)', Downlink(c)', Threads(c)'
    PROVE  ThreadsInv'
  BY ThreadsFrames DEF ThreadsInv

\* The router process ends after its goroutines.
LEMMA UpStep ==
    ASSUME Shape, UpInv, (\E c \in Clients : ClientStep(c)) \/ RouterStep
    PROVE  UpInv'
  <1>1. ASSUME UNCHANGED <<rr, rw, rt, masterCount, up>> PROVE UpInv'
    BY <1>1 DEF UpInv
  <1>2. ASSUME up = "running", up' = up PROVE UpInv'
    BY <1>2 DEF UpInv
  <1>3. ASSUME NEW c \in Clients, ClientStep(c) PROVE UpInv'
    <2>1. CASE UNCHANGED <<rr, rw, rt, masterCount, up>>
      BY <1>1, <2>1
    <2>2. CASE \/ clientRead(c) \/ clientWrite(c) \/ routeLastTerminate(c)
               \/ routeResponse(c) \/ routeRequest(c)
      BY <1>2, <2>2 DEF clientRead, clientWrite, routeLastTerminate, routeResponse, routeRequest, Incoming
    <2> QED
      BY <1>3, <2>1, <2>2, BridgeLeavesRouter
  <1>4. ASSUME RouterStep PROVE UpInv'
    <2>1. CASE routeSend \/ sendDone
      BY <1>2, <2>1 DEF routeSend, sendDone
    <2>2. CASE routerExit \/ UNCHANGED vars
      BY <2>2, RestEffect DEF UpInv
    <2> QED
      BY <1>4, <2>1, <2>2 DEF RouterStep
  <1> QED
    BY <1>3, <1>4

\* A push of anything but DONE keeps the uplink.
LEMMA PushUplink ==
    ASSUME Shape, NEW c \in Clients, NEW e \in GoodEntry, Push(c, e), e.msg.type # "DONE",
           Uplink(c), Threads(c),
           bridge' = bridge, toRouter'[c] = toRouter[c], rr'[c] = rr[c]
    PROVE  Uplink(c)' /\ Threads(c)'
  <1>1. /\ q'[c].items = Append(q[c].items, e) /\ q'[c].done = q[c].done
        /\ q[c].items \in Seq(GoodEntry)
    BY PushEffect
  <1>2. \A k \in DOMAIN q'[c].items : q'[c].items[k].msg.type # "DONE"
    BY <1>1, AppendElements DEF Uplink
  <1>3. Uplink(c)'
    BY <1>2 DEF Uplink, Open, Closing
  <1>4. Threads(c)'
    BY <1>1 DEF Threads
  <1> QED
    BY <1>3, <1>4

\* The applications.
LEMMA ApplicationThreads ==
    ASSUME Shape, ThreadsInv, UpInv', NEW c \in Clients,
           \/ \E m \in masterMap(c) :
                (\E type \in ReqTypes, b \in Buffers : issue(m, type, b)) \/ terminate(m)
           \/ waitForCompletion(c) \/ disconnect(c)
    PROVE  ThreadsInv'
  <1>1. Uplink(c) /\ Downlink(c) /\ Threads(c)
    BY DEF ThreadsInv
  <1>2. ASSUME NEW e \in GoodEntry, Push(c, e), e.msg.type # "DONE",
               UNCHANGED <<bridge, toRouter, toClient, rr, rw>>
        PROVE  ThreadsInv'
    <2>1. \A d \in Clients \ {c} : Same(d)
      BY <1>2, PushEffect DEF Same
    <2>2. Uplink(c)' /\ Threads(c)'
      BY <1>1, <1>2, PushUplink
    <2>3. Downlink(c)'
      BY <1>1, <1>2 DEF Downlink, Open, Closing
    <2> QED
      BY <2>1, <2>2, <2>3, OneClient
  <1>3. ASSUME NEW m \in masterMap(c), NEW type \in ReqTypes, NEW b \in Buffers, issue(m, type, b)
        PROVE  ThreadsInv'
    <2>1. PICK e \in GoodEntry : Push(c, e) /\ IsRequest(e.msg)
      BY <1>3, IssueEffect
    <2>2. e.msg.type # "DONE" /\ UNCHANGED <<bridge, toRouter, toClient, rr, rw>>
      BY <1>3, <2>1, IssueEffect DEF IsRequest
    <2> QED
      BY <1>2, <2>1, <2>2
  <1>4. ASSUME NEW m \in masterMap(c), terminate(m) PROVE ThreadsInv'
    <2>1. PICK e \in GoodEntry : Push(c, e) /\ e.msg.type = "TERMINATE"
      BY <1>4, TerminateEffect
    <2>2. UNCHANGED <<bridge, toRouter, toClient, rr, rw>>
      BY <1>4, TerminateEffect
    <2> QED
      BY <1>2, <2>1, <2>2
  <1>5. CASE waitForCompletion(c) \/ disconnect(c)
    <2>1. /\ \A d \in Clients \ {c} : Same(d)
          /\ UNCHANGED <<ops, terminated, q, txns, toRouter, toClient, rr, rw>>
          /\ bridge'[c].reader = bridge[c].reader /\ bridge'[c].readerStatus = bridge[c].readerStatus
          /\ bridge'[c].writer = bridge[c].writer /\ bridge'[c].writerStatus = bridge[c].writerStatus
          /\ bridge'[c].txn = bridge[c].txn
          /\ \/ /\ bridge'[c].state = bridge[c].state /\ bridge[c].app = "running"
                /\ bridge'[c].app = "completed"
                /\ bridge[c].reader = "exited" /\ bridge[c].writer = "exited"
             \/ /\ bridge[c].app = "completed" /\ bridge'[c].app = "disconnected"
                /\ bridge'[c].state = "DISCONNECTED"
      BY <1>5, JoinEffect
    <2>2. Uplink(c)'
      BY <1>1, <2>1 DEF Uplink, Open, Closing
    <2>3. Downlink(c)'
      BY <1>1, <2>1 DEF Downlink, Open, Closing
    <2>4. Threads(c)'
      BY <1>1, <2>1 DEF Threads
    <2> QED
      BY <2>1, <2>2, <2>3, <2>4, OneClient
  <1> QED
    BY <1>3, <1>4, <1>5

\* Bridge::writer.
LEMMA WriterThreads ==
    ASSUME Shape, ThreadsInv, UpInv', NEW c \in Clients,
           \/ writerTake(c) \/ writerWait(c) \/ spuriousWakeup(c) \/ writerStop(c)
           \/ writerRegister(c) \/ writerSend(c) \/ writerLogout(c)
    PROVE  ThreadsInv'
  <1>1. Uplink(c) /\ Downlink(c) /\ Threads(c)
    BY DEF ThreadsInv
  <1>2. CASE writerTake(c)
    <2>1. /\ \A d \in Clients \ {c} : Same(d)
          /\ UNCHANGED <<ops, terminated, txns, toRouter, toClient, rr, rw>>
          /\ q[c].items # <<>> /\ q[c].items \in Seq(GoodEntry)
          /\ q'[c].items = Tail(q[c].items) /\ q'[c].done = q[c].done
          /\ bridge[c].writer = "pop" /\ bridge'[c].txn = Head(q[c].items)
          /\ bridge'[c].writer \in {"register", "send"}
          /\ bridge'[c].reader = bridge[c].reader /\ bridge'[c].readerStatus = bridge[c].readerStatus
          /\ bridge'[c].state = bridge[c].state /\ bridge'[c].writerStatus = bridge[c].writerStatus
          /\ bridge'[c].app = bridge[c].app
      BY <1>2, TakeEffect
    <2>2. /\ Head(q[c].items).msg.type # "DONE"
          /\ \A k \in DOMAIN q'[c].items : q'[c].items[k].msg.type # "DONE"
      BY <1>1, <2>1, TailElements DEF Uplink
    <2>3. Uplink(c)'
      BY <1>1, <2>1, <2>2 DEF Uplink, Open, Closing
    <2>4. Downlink(c)'
      BY <1>1, <2>1 DEF Downlink, Open, Closing
    <2>5. Threads(c)'
      BY <1>1, <2>1 DEF Threads
    <2> QED
      BY <2>1, <2>3, <2>4, <2>5, OneClient
  <1>3. CASE writerWait(c) \/ spuriousWakeup(c)
    <2>1. /\ UNCHANGED <<ops, terminated, txns, bridge, toRouter, toClient, rr, rw>>
          /\ \A d \in Clients : q'[d].items = q[d].items /\ q'[d].done = q[d].done
      BY <1>3, WaitEffect
    <2>2. ASSUME NEW d \in Clients PROVE Uplink(d)' /\ Downlink(d)' /\ Threads(d)'
      <3>1. Uplink(d) /\ Downlink(d) /\ Threads(d)
        BY DEF ThreadsInv
      <3>2. Uplink(d)'
        BY <2>1, <3>1 DEF Uplink, Open, Closing
      <3>3. Downlink(d)' /\ Threads(d)'
        BY <2>1, <3>1 DEF Downlink, Threads, Open, Closing
      <3> QED
        BY <3>2, <3>3
    <2> QED
      BY <2>2 DEF ThreadsInv
  <1>4. CASE writerStop(c)
    <2>1. /\ \A d \in Clients \ {c} : Same(d)
          /\ UNCHANGED <<ops, terminated, txns, toRouter, toClient, rr, rw>>
          /\ q'[c].items = q[c].items /\ q'[c].done = q[c].done /\ q[c].done
          /\ bridge[c].writer = "pop" /\ bridge'[c].writer = "logout"
          /\ bridge'[c].reader = bridge[c].reader /\ bridge'[c].readerStatus = bridge[c].readerStatus
          /\ bridge'[c].state = bridge[c].state /\ bridge'[c].writerStatus = bridge[c].writerStatus
          /\ bridge'[c].app = bridge[c].app /\ bridge'[c].txn = bridge[c].txn
      BY <1>4, StopEffect
    <2>2. Uplink(c)'
      BY <1>1, <2>1 DEF Uplink, Open, Closing
    <2>3. Downlink(c)'
      BY <1>1, <2>1 DEF Downlink, Open, Closing
    <2>4. Threads(c)'
      BY <1>1, <2>1 DEF Threads
    <2> QED
      BY <2>1, <2>2, <2>3, <2>4, OneClient
  <1>5. CASE writerRegister(c)
    <2>1. \E t \in Transaction, new \in Nat :
            /\ bridge[c].writer = "register" /\ bridge'[c].writer = "send"
            /\ bridge'[c].txn.msg = TxnMsg([t EXCEPT !.id = new])
            /\ \A d \in Clients \ {c} : Same(d)
            /\ UNCHANGED <<ops, terminated, q, toRouter, toClient, rr, rw>>
            /\ bridge'[c].reader = bridge[c].reader /\ bridge'[c].readerStatus = bridge[c].readerStatus
            /\ bridge'[c].state = bridge[c].state /\ bridge'[c].writerStatus = bridge[c].writerStatus
            /\ bridge'[c].app = bridge[c].app
      BY <1>5, RegisterEffect
    <2>2. bridge'[c].txn.msg.type # "DONE"
      BY <2>1, MessageFacts
    <2>3. Uplink(c)'
      BY <1>1, <2>1, <2>2 DEF Uplink, Open, Closing
    <2>4. Downlink(c)'
      BY <1>1, <2>1 DEF Downlink, Open, Closing
    <2>5. Threads(c)'
      BY <1>1, <2>1 DEF Threads
    <2> QED
      BY <2>1, <2>3, <2>4, <2>5, OneClient
  <1>6. CASE writerSend(c) \/ writerLogout(c)
    <2>1. /\ \A d \in Clients \ {c} : Same(d)
          /\ UNCHANGED <<ops, terminated, q, txns, toClient, rr, rw>>
          /\ toRouter[c] \in Seq(GoodMsg)
          /\ bridge'[c].reader = bridge[c].reader /\ bridge'[c].readerStatus = bridge[c].readerStatus
          /\ bridge'[c].writerStatus = bridge[c].writerStatus /\ bridge'[c].app = bridge[c].app
          /\ \/ /\ bridge[c].writer = "send" /\ bridge'[c].writer = "pop"
                /\ bridge[c].txn.msg \in GoodMsg /\ bridge'[c].txn = NoEntry
                /\ bridge'[c].state = bridge[c].state
                /\ toRouter'[c] = Append(toRouter[c], bridge[c].txn.msg)
             \/ /\ bridge[c].writer = "logout" /\ bridge'[c].writer = "exited"
                /\ bridge'[c].txn = bridge[c].txn /\ bridge'[c].state = "LOGGED_OUT"
                /\ toRouter'[c] = Append(toRouter[c], DoneMsg)
      BY <1>6, SendEffect
    <2>2. Open(toRouter[c]) /\ rr[c].pc # "exited" /\ bridge[c].txn.msg.type # "DONE"
      BY <1>1, <2>1 DEF Uplink
    <2>3. IF bridge'[c].writer = "exited" THEN Closing(toRouter'[c]) ELSE Open(toRouter'[c])
      BY <2>1, <2>2, OpenFacts, GoodMsgFacts, MessageFacts
    <2>4. bridge'[c].txn.msg.type # "DONE"
      BY <2>1, <2>2, EntryFacts, MessageFacts
    <2>5. Uplink(c)'
      <3>1. q' = q /\ rr' = rr
        BY <2>1
      <3>2. /\ (bridge[c].writer # "exited" => Open(toRouter[c]))'
            /\ (bridge[c].writer = "exited" => Closing(toRouter[c]))'
        BY <2>3 DEF Open, Closing
      <3> QED
        BY <1>1, <2>2, <2>4, <3>1, <3>2 DEF Uplink
    <2>6. Downlink(c)'
      BY <1>1, <2>1 DEF Downlink, Open, Closing
    <2>7. Threads(c)'
      BY <1>1, <2>1 DEF Threads
    <2> QED
      BY <2>1, <2>5, <2>6, <2>7, OneClient
  <1> QED
    BY <1>2, <1>3, <1>4, <1>5, <1>6

\* Bridge::reader.
LEMMA ReaderThreads ==
    ASSUME Shape, ThreadsInv, UpInv', NEW c \in Clients,
           receiveDone(c) \/ receiveResponse(c) \/ receiveRequest(c) \/ readerNotify(c)
    PROVE  ThreadsInv'
  <1>1. Uplink(c) /\ Downlink(c) /\ Threads(c)
    BY DEF ThreadsInv
  <1>2. ASSUME toClient[c] # <<>>, toClient[c] \in Seq(GoodMsg), Head(toClient[c]).type # "DONE",
               toClient'[c] = Tail(toClient[c]), bridge[c].reader = "receive",
               bridge'[c].reader = "receive", rw'[c] = rw[c]
        PROVE  Downlink(c)'
    <2>1. /\ rw[c].pc # "exited" => Open(toClient'[c])
          /\ rw[c].pc = "exited" => Closing(toClient'[c])
      BY <1>1, <1>2, OpenFacts DEF Downlink
    <2> QED
      BY <1>2, <2>1 DEF Downlink, Open, Closing
  <1>3. CASE receiveDone(c)
    <2>1. /\ \A d \in Clients \ {c} : Same(d)
          /\ UNCHANGED <<ops, terminated, txns, toRouter, rr, rw>>
          /\ toClient[c] # <<>> /\ toClient[c] \in Seq(GoodMsg) /\ Head(toClient[c]) \in GoodMsg
          /\ toClient'[c] = Tail(toClient[c]) /\ bridge[c].reader = "receive"
          /\ q'[c].items = q[c].items
          /\ bridge'[c].reader = "notify" /\ Head(toClient[c]).type = "DONE"
          /\ bridge'[c].readerStatus = "ok"
          /\ bridge'[c].writer = bridge[c].writer /\ bridge'[c].writerStatus = bridge[c].writerStatus
          /\ bridge'[c].state = bridge[c].state /\ bridge'[c].app = bridge[c].app
          /\ bridge'[c].txn = bridge[c].txn
      BY <1>3, EndEffect
    <2>2. rw[c].pc = "exited" /\ toClient'[c] = <<>>
      BY <1>1, <2>1, OpenFacts DEF Downlink
    <2>3. Uplink(c)'
      BY <1>1, <2>1 DEF Uplink, Open, Closing
    <2>4. Downlink(c)'
      BY <2>1, <2>2 DEF Downlink
    <2>5. Threads(c)'
      BY <1>1, <2>1 DEF Threads
    <2> QED
      BY <2>1, <2>3, <2>4, <2>5, OneClient
  <1>4. CASE receiveResponse(c)
    <2>1. \E h \in GoodMsg :
            /\ h = Head(toClient[c]) /\ IsResponse(h)
            /\ \A d \in Clients \ {c} : Same(d)
            /\ UNCHANGED <<terminated, q, bridge, toRouter, rr, rw>>
            /\ toClient[c] # <<>> /\ toClient[c] \in Seq(GoodMsg)
            /\ toClient'[c] = Tail(toClient[c]) /\ bridge[c].reader = "receive"
      BY <1>4, AnswerEffect
    <2>2. Head(toClient[c]).type # "DONE"
      BY <2>1 DEF IsResponse
    <2>3. Downlink(c)'
      BY <1>2, <2>1, <2>2
    <2>4. Uplink(c)'
      BY <1>1, <2>1 DEF Uplink, Open, Closing
    <2>5. Threads(c)'
      BY <1>1, <2>1 DEF Threads
    <2> QED
      BY <2>1, <2>3, <2>4, <2>5, OneClient
  <1>5. CASE receiveRequest(c)
    <2>1. PICK h \in GoodMsg, e \in GoodEntry :
            /\ h = Head(toClient[c]) /\ IsRequest(h) /\ IsResponse(e.msg) /\ Push(c, e)
            /\ UNCHANGED <<ops, terminated, bridge, txns, toRouter, rr, rw>>
            /\ toClient[c] # <<>> /\ toClient[c] \in Seq(GoodMsg)
            /\ toClient'[c] = Tail(toClient[c]) /\ bridge[c].reader = "receive"
            /\ \A d \in Clients \ {c} : Same(d)
      BY <1>5, RequestEffect
    <2>2. Head(toClient[c]).type # "DONE" /\ e.msg.type # "DONE"
      BY <2>1 DEF IsRequest, IsResponse
    <2>3. Downlink(c)'
      BY <1>2, <2>1, <2>2
    <2>4. Uplink(c)' /\ Threads(c)'
      BY <1>1, <2>1, <2>2, PushUplink
    <2> QED
      BY <2>1, <2>3, <2>4, OneClient
  <1>6. CASE readerNotify(c)
    <2>1. /\ \A d \in Clients \ {c} : Same(d)
          /\ UNCHANGED <<ops, terminated, txns, toRouter, toClient, rr, rw>>
          /\ q'[c].items = q[c].items /\ q'[c].done = q[c].done
          /\ bridge[c].reader = "notify" /\ bridge'[c].reader = "exited"
          /\ bridge'[c].readerStatus = bridge[c].readerStatus
          /\ bridge'[c].writer = bridge[c].writer /\ bridge'[c].writerStatus = bridge[c].writerStatus
          /\ bridge'[c].state = bridge[c].state /\ bridge'[c].app = bridge[c].app
          /\ bridge'[c].txn = bridge[c].txn
      BY <1>6, NotifyEffect
    <2>2. Uplink(c)'
      BY <1>1, <2>1 DEF Uplink, Open, Closing
    <2>3. Downlink(c)'
      BY <1>1, <2>1 DEF Downlink
    <2>4. Threads(c)'
      BY <1>1, <2>1 DEF Threads
    <2> QED
      BY <2>1, <2>2, <2>3, <2>4, OneClient
  <1> QED
    BY <1>3, <1>4, <1>5, <1>6

\* The goroutines of a client.
LEMMA GoroutinesThreads ==
    ASSUME Shape, ThreadsInv, UpInv', NEW c \in Clients,
           \/ clientRead(c) \/ clientWrite(c)
           \/ routeLastTerminate(c) \/ routeResponse(c) \/ routeRequest(c)
    PROVE  ThreadsInv'
  <1>1. Uplink(c) /\ Downlink(c) /\ Threads(c)
    BY DEF ThreadsInv
  <1>2. CASE clientRead(c)
    <2>1. /\ \A d \in Clients \ {c} : Same(d)
          /\ UNCHANGED <<ops, terminated, txns, q, bridge, toClient, rw>>
          /\ rr[c].pc = "read"
          /\ toRouter[c] # <<>> /\ toRouter[c] \in Seq(GoodMsg) /\ Head(toRouter[c]) \in GoodMsg
          /\ toRouter'[c] = Tail(toRouter[c])
          /\ Head(toRouter[c]).type = "DONE" => rr'[c].pc = "exited" /\ rr'[c].msg = NoMsg
          /\ Head(toRouter[c]).type # "DONE" => rr'[c].pc = "push" /\ rr'[c].msg = Head(toRouter[c])
      BY <1>2, ReadEffect
    <2>2. rr'[c].msg.type # "DONE"
      BY <2>1, MessageFacts
    <2>3. Uplink(c)'
      <3>1. CASE bridge[c].writer # "exited"
        <4>1. Head(toRouter[c]).type # "DONE" /\ Open(toRouter'[c]) /\ rr'[c].pc = "push"
          BY <1>1, <2>1, <3>1, OpenFacts DEF Uplink
        <4> QED
          BY <1>1, <2>1, <2>2, <3>1, <4>1 DEF Uplink, Open
      <3>2. CASE bridge[c].writer = "exited" /\ Head(toRouter[c]).type = "DONE"
        <4>1. toRouter'[c] = <<>> /\ rr'[c].pc = "exited"
          BY <1>1, <2>1, <3>2, OpenFacts DEF Uplink
        <4> QED
          BY <1>1, <2>1, <2>2, <3>2, <4>1 DEF Uplink
      <3>3. CASE bridge[c].writer = "exited" /\ Head(toRouter[c]).type # "DONE"
        <4>1. Closing(toRouter'[c]) /\ rr'[c].pc = "push"
          BY <1>1, <2>1, <3>3, OpenFacts DEF Uplink
        <4> QED
          BY <1>1, <2>1, <2>2, <3>3, <4>1 DEF Uplink, Closing
      <3> QED
        BY <3>1, <3>2, <3>3
    <2>4. Downlink(c)'
      BY <1>1, <2>1 DEF Downlink, Open, Closing
    <2>5. Threads(c)'
      BY <1>1, <2>1 DEF Threads
    <2> QED
      BY <2>1, <2>3, <2>4, <2>5, OneClient
  <1>3. CASE clientWrite(c)
    <2>1. /\ \A d \in Clients \ {c} : Same(d)
          /\ UNCHANGED <<ops, terminated, txns, q, bridge, toRouter, rr>>
          /\ rw[c].pc = "write" /\ rw[c].msg \in GoodMsg
          /\ toClient[c] \in Seq(GoodMsg) /\ toClient'[c] = Append(toClient[c], rw[c].msg)
          /\ rw'[c].pc = IF rw[c].msg.type = "DONE" THEN "exited" ELSE "receive"
      BY <1>3, WriteEffect
    <2>2. Open(toClient[c]) /\ bridge[c].reader = "receive"
      BY <1>1, <2>1 DEF Downlink
    <2>3. /\ rw[c].msg.type = "DONE" => Closing(toClient'[c])
          /\ rw[c].msg.type # "DONE" => Open(toClient'[c])
      BY <2>1, <2>2, OpenFacts
    <2>4. Downlink(c)'
      BY <2>1, <2>2, <2>3 DEF Downlink, Open, Closing
    <2>5. Uplink(c)'
      BY <1>1, <2>1 DEF Uplink, Open, Closing
    <2>6. Threads(c)'
      BY <1>1, <2>1 DEF Threads
    <2> QED
      BY <2>1, <2>4, <2>5, <2>6, OneClient
  <1>4. CASE routeLastTerminate(c) \/ routeResponse(c) \/ routeRequest(c)
    <2>1. /\ \A d \in Clients \ {c} : Same(d)
          /\ UNCHANGED <<ops, terminated, txns, q, bridge, toRouter, toClient, rw>>
          /\ rr[c].pc = "push" /\ rr'[c].pc = "read" /\ rr'[c].msg = NoMsg
      BY <1>4, RouteEffect
    <2>2. rr'[c].msg.type # "DONE"
      BY <2>1, MessageFacts
    <2>3. Uplink(c)'
      BY <1>1, <2>1, <2>2 DEF Uplink, Open, Closing
    <2>4. Downlink(c)'
      BY <1>1, <2>1 DEF Downlink, Open, Closing
    <2>5. Threads(c)'
      BY <1>1, <2>1 DEF Threads
    <2> QED
      BY <2>1, <2>3, <2>4, <2>5, OneClient
  <1> QED
    BY <1>2, <1>3, <1>4

\* The threads and goroutines end in order.
LEMMA NextThreads ==
    ASSUME Shape, ThreadsInv, (\E c \in Clients : ClientStep(c)) \/ RouterStep
    PROVE  ThreadsInv'
  <1>1. UpInv'
    BY UpStep DEF ThreadsInv
  <1>2. ASSUME NEW c \in Clients, ClientStep(c) PROVE ThreadsInv'
    BY <1>1, <1>2, ApplicationThreads, WriterThreads, ReaderThreads, GoroutinesThreads DEF ClientStep
  <1>3. CASE routeSend \/ sendDone
    <2>1. PICK c \in Clients :
            /\ \A d \in Clients \ {c} : Same(d)
            /\ UNCHANGED <<ops, terminated, txns, q, bridge, toRouter, toClient, rr, masterCount, up>>
            /\ rw[c].pc = "receive" /\ rw'[c].pc = "write"
      BY <1>3, HandOverEffect
    <2>2. Uplink(c) /\ Downlink(c) /\ Threads(c)
      BY DEF ThreadsInv
    <2>3. Uplink(c)'
      BY <2>1, <2>2 DEF Uplink, Open, Closing
    <2>4. Downlink(c)'
      BY <2>1, <2>2 DEF Downlink, Open
    <2>5. Threads(c)'
      BY <2>1, <2>2 DEF Threads
    <2> QED
      BY <1>1, <2>1, <2>3, <2>4, <2>5, OneClient
  <1>4. CASE routerExit \/ UNCHANGED vars
    <2>1. \A d \in Clients : Same(d)
      BY <1>4, RestEffect DEF Same
    <2> QED
      BY <1>1, <2>1, ThreadsFrames DEF ThreadsInv
  <1> QED
    BY <1>2, <1>3, <1>4 DEF RouterStep
-----------------------------------------------------------------------------
(* The traffic of the first client *)

\* A client that takes no step stays idle, and so does one that only logs out.
LEMMA IdleStep ==
    ASSUME OneMaster, Shape, IdleInv, NEW c \in Clients \ {0}, ClientStep(c)
    PROVE  Idle(c)'
  <1>1. Idle(c) /\ Silent(c)
    BY DEF IdleInv, Idle
  <1>2. masterMap(c) = {}
    BY TheMaster
  <1>3. /\ ~writerTake(c) /\ ~writerRegister(c) /\ ~writerSend(c)
        /\ ~routeLastTerminate(c) /\ ~routeResponse(c) /\ ~routeRequest(c)
    BY <1>1 DEF Silent, writerTake, CanTake, writerRegister, writerSend, routeLastTerminate,
                routeResponse, routeRequest, Incoming
  <1>4. ~receiveResponse(c) /\ ~receiveRequest(c)
    BY ReceivedByFirst DEF receiveResponse, receiveRequest, Receiving, IsRequest, IsResponse
  <1>5. ASSUME q'[c].items = q[c].items, bridge'[c].writer \notin {"register", "send"},
               UNCHANGED <<toRouter, toClient, rr, rw>>
        PROVE  Idle(c)'
    BY <1>1, <1>5 DEF Idle, Silent
  <1>6. CASE waitForCompletion(c) \/ disconnect(c)
    BY <1>1, <1>5, <1>6, JoinEffect DEF Silent
  <1>7. CASE writerWait(c) \/ spuriousWakeup(c)
    BY <1>1, <1>5, <1>7, WaitEffect DEF Silent
  <1>8. CASE writerStop(c)
    BY <1>5, <1>8, StopEffect
  <1>9. CASE writerLogout(c)
    <2>1. /\ UNCHANGED <<ops, terminated, q, txns, toClient, rr, rw>>
          /\ toRouter[c] \in Seq(GoodMsg) /\ bridge'[c].writer = "exited"
          /\ toRouter'[c] = Append(toRouter[c], DoneMsg)
      BY <1>9, SendEffect DEF writerLogout
    <2>2. \A k \in DOMAIN toRouter'[c] : toRouter'[c][k].type = "DONE"
      BY <1>1, <2>1, AppendElements, GoodMsgFacts, MessageFacts DEF Silent
    <2> QED
      BY <1>1, <2>1, <2>2 DEF Idle, Silent
  <1>10. CASE receiveDone(c)
    <2>1. /\ UNCHANGED <<ops, terminated, txns, toRouter, rr, rw>>
          /\ toClient[c] # <<>> /\ toClient[c] \in Seq(GoodMsg)
          /\ toClient'[c] = Tail(toClient[c]) /\ q'[c].items = q[c].items
          /\ bridge'[c].writer = bridge[c].writer
      BY <1>10, EndEffect
    <2>2. \A k \in DOMAIN toClient'[c] : toClient'[c][k].type = "DONE"
      BY <1>1, <2>1, TailElements DEF Idle
    <2> QED
      BY <1>1, <2>1, <2>2 DEF Idle, Silent
  <1>11. CASE readerNotify(c)
    BY <1>1, <1>5, <1>11, NotifyEffect DEF Silent
  <1>12. CASE clientRead(c)
    <2>1. /\ UNCHANGED <<ops, terminated, txns, q, bridge, toClient, rw>>
          /\ toRouter[c] # <<>> /\ toRouter[c] \in Seq(GoodMsg)
          /\ toRouter'[c] = Tail(toRouter[c])
          /\ Head(toRouter[c]).type = "DONE" => rr'[c].pc = "exited"
      BY <1>12, ReadEffect
    <2>2. /\ Head(toRouter[c]).type = "DONE"
          /\ \A k \in DOMAIN toRouter'[c] : toRouter'[c][k].type = "DONE"
      BY <1>1, <2>1, TailElements DEF Silent
    <2> QED
      BY <1>1, <2>1, <2>2 DEF Idle, Silent
  <1>13. CASE clientWrite(c)
    <2>1. /\ UNCHANGED <<ops, terminated, txns, q, bridge, toRouter, rr>>
          /\ rw[c].pc = "write" /\ rw[c].msg \in GoodMsg
          /\ toClient[c] \in Seq(GoodMsg) /\ toClient'[c] = Append(toClient[c], rw[c].msg)
          /\ rw'[c].pc \in {"exited", "receive"}
      BY <1>13, WriteEffect
    <2>2. \A k \in DOMAIN toClient'[c] : toClient'[c][k].type = "DONE"
      BY <1>1, <2>1, AppendElements DEF Idle
    <2> QED
      BY <1>1, <2>1, <2>2 DEF Idle, Silent
  <1> QED
    BY <1>2, <1>3, <1>4, <1>6, <1>7, <1>8, <1>9, <1>10, <1>11, <1>12, <1>13 DEF ClientStep

\* A step of one client changes nothing of another.
LEMMA OthersSame ==
    ASSUME Shape, NEW c \in Clients, ClientStep(c), NEW d \in Clients \ {c}
    PROVE  /\ q'[d].items = q[d].items /\ bridge'[d] = bridge[d] /\ toRouter'[d] = toRouter[d]
           /\ toClient'[d] = toClient[d] /\ rr'[d] = rr[d] /\ rw'[d] = rw[d]
  <1> DEFINE G == /\ q'[d].items = q[d].items /\ bridge'[d] = bridge[d] /\ toRouter'[d] = toRouter[d]
                  /\ toClient'[d] = toClient[d] /\ rr'[d] = rr[d] /\ rw'[d] = rw[d]
  <1>1. Same(d) => G
    BY DEF Same
  <1>2. ASSUME NEW e \in GoodEntry, Push(c, e), UNCHANGED <<bridge, toRouter, toClient, rr, rw>> PROVE G
    BY <1>2, PushEffect
  <1> HIDE DEF G
  <1>3. ASSUME NEW m \in masterMap(c), NEW type \in ReqTypes, NEW b \in Buffers, issue(m, type, b) PROVE G
    <2>1. PICK e \in GoodEntry : Push(c, e)
      BY <1>3, IssueEffect
    <2>2. UNCHANGED <<bridge, toRouter, toClient, rr, rw>>
      BY <1>3, IssueEffect
    <2> QED
      BY <1>2, <2>1, <2>2
  <1>4. ASSUME NEW m \in masterMap(c), terminate(m) PROVE G
    <2>1. PICK e \in GoodEntry : Push(c, e)
      BY <1>4, TerminateEffect
    <2>2. UNCHANGED <<bridge, toRouter, toClient, rr, rw>>
      BY <1>4, TerminateEffect
    <2> QED
      BY <1>2, <2>1, <2>2
  <1>5. ASSUME writerWait(c) \/ spuriousWakeup(c) PROVE G
    BY <1>5, WaitEffect DEF G
  <1>6. ASSUME waitForCompletion(c) \/ disconnect(c) PROVE G
    <2>1. \A i \in Clients \ {c} : Same(i)
      BY <1>6, JoinEffect
    <2> QED
      BY <1>1, <2>1
  <1>7. ASSUME writerTake(c) PROVE G
    <2>1. \A i \in Clients \ {c} : Same(i)
      BY <1>7, TakeEffect
    <2> QED
      BY <1>1, <2>1
  <1>8. ASSUME writerStop(c) PROVE G
    <2>1. \A i \in Clients \ {c} : Same(i)
      BY <1>8, StopEffect
    <2> QED
      BY <1>1, <2>1
  <1>9. ASSUME writerRegister(c) PROVE G
    <2>1. \A i \in Clients \ {c} : Same(i)
      BY <1>9, RegisterEffect
    <2> QED
      BY <1>1, <2>1
  <1>10. ASSUME writerSend(c) \/ writerLogout(c) PROVE G
    <2>1. \A i \in Clients \ {c} : Same(i)
      BY <1>10, SendEffect
    <2> QED
      BY <1>1, <2>1
  <1>11. ASSUME receiveDone(c) PROVE G
    <2>1. \A i \in Clients \ {c} : Same(i)
      BY <1>11, EndEffect
    <2> QED
      BY <1>1, <2>1
  <1>12. ASSUME receiveResponse(c) PROVE G
    <2>1. \A i \in Clients \ {c} : Same(i)
      BY <1>12, AnswerEffect
    <2> QED
      BY <1>1, <2>1
  <1>13. ASSUME receiveRequest(c) PROVE G
    <2>1. \A i \in Clients \ {c} : Same(i)
      BY <1>13, RequestEffect
    <2> QED
      BY <1>1, <2>1
  <1>14. ASSUME readerNotify(c) PROVE G
    <2>1. \A i \in Clients \ {c} : Same(i)
      BY <1>14, NotifyEffect
    <2> QED
      BY <1>1, <2>1
  <1>15. ASSUME clientRead(c) PROVE G
    <2>1. \A i \in Clients \ {c} : Same(i)
      BY <1>15, ReadEffect
    <2> QED
      BY <1>1, <2>1
  <1>16. ASSUME clientWrite(c) PROVE G
    <2>1. \A i \in Clients \ {c} : Same(i)
      BY <1>16, WriteEffect
    <2> QED
      BY <1>1, <2>1
  <1>17. ASSUME routeLastTerminate(c) \/ routeResponse(c) \/ routeRequest(c) PROVE G
    <2>1. \A i \in Clients \ {c} : Same(i)
      BY <1>17, RouteEffect
    <2> QED
      BY <1>1, <2>1
  <1>18. G
    BY <1>3, <1>4, <1>5, <1>6, <1>7, <1>8, <1>9, <1>10, <1>11, <1>12, <1>13, <1>14, <1>15, <1>16, <1>17 DEF ClientStep
  <1> QED
    BY <1>18 DEF G

\* The other clients stay idle.
LEMMA NextIdle ==
    ASSUME OneMaster, Shape, IdleInv, (\E c \in Clients : ClientStep(c)) \/ RouterStep
    PROVE  IdleInv'
  <1>1. ASSUME NEW c \in Clients, ClientStep(c) PROVE IdleInv'
    <2>1. ASSUME NEW d \in Clients \ {0} PROVE Idle(d)'
      <3>1. CASE d = c
        BY <1>1, <2>1, <3>1, IdleStep
      <3>2. CASE d # c
        <4>1. /\ q'[d].items = q[d].items /\ bridge'[d] = bridge[d] /\ toRouter'[d] = toRouter[d]
              /\ toClient'[d] = toClient[d] /\ rr'[d] = rr[d] /\ rw'[d] = rw[d]
          BY <1>1, <2>1, <3>2, OthersSame
        <4> QED
          BY <2>1, <4>1 DEF IdleInv, Idle, Silent
      <3> QED
        BY <3>1, <3>2
    <2>2. rt'.pc = "send" => rt'.client = 0
      <3>1. CASE UNCHANGED <<rr, rw, rt, masterCount, up>>
        BY <3>1 DEF IdleInv
      <3>2. CASE clientRead(c) \/ clientWrite(c)
        BY <3>2 DEF IdleInv, clientRead, clientWrite
      <3>3. CASE routeLastTerminate(c)
        BY <3>3 DEF routeLastTerminate
      <3>4. CASE routeResponse(c)
        BY <3>4 DEF routeResponse, Outgoing, ClientId
      <3>5. CASE routeRequest(c)
        BY <3>5, RouteRequestFacts
      <3> QED
        BY <1>1, <3>1, <3>2, <3>3, <3>4, <3>5, BridgeLeavesRouter
    <2> QED
      BY <2>1, <2>2 DEF IdleInv
  <1>2. CASE routeSend \/ sendDone
    <2>1. PICK c \in Clients :
            /\ c = rt.client /\ \A d \in Clients \ {c} : Same(d)
            /\ UNCHANGED <<ops, terminated, txns, q, bridge, toRouter, toClient, rr, masterCount, up>>
            /\ \/ /\ routeSend /\ rt.pc = "send" /\ rw'[c].msg = rt.msg
                  /\ rt'.pc = "receive" /\ rt'.msg = NoMsg
               \/ /\ sendDone /\ rt.pc = "sendDone" /\ rw'[c].msg = DoneMsg
                  /\ rt'.pc \in {"sendDone", "exited"} /\ rt'.msg \in {rt.msg, NoMsg}
      BY <1>2, HandOverEffect
    <2>2. c # 0 => rw'[c].msg.type = "DONE"
      BY <2>1, MessageFacts DEF IdleInv
    <2>3. \A d \in Clients \ {c} : rw'[d] = rw[d]
      BY <2>1 DEF Same
    <2>4. ASSUME NEW d \in Clients \ {0} PROVE Idle(d)'
      BY <2>1, <2>2, <2>3, <2>4 DEF IdleInv, Idle, Silent
    <2> QED
      BY <2>1, <2>4 DEF IdleInv
  <1>3. CASE routerExit \/ UNCHANGED vars
    BY <1>3, RestEffect DEF IdleInv, Idle, Silent
  <1> QED
    BY <1>1, <1>2, <1>3 DEF RouterStep

\* DONE is sent only after the termination of the last master.
LEMMA NextNoDone ==
    ASSUME Shape, NoDoneYet, (\E c \in Clients : ClientStep(c)) \/ RouterStep
    PROVE  NoDoneYet'
  <1>1. ASSUME UNCHANGED <<rw, rt>> PROVE NoDoneYet'
    BY <1>1 DEF NoDoneYet, Working
  <1>2. ASSUME NEW c \in Clients, clientWrite(c) PROVE NoDoneYet'
    <2>1. /\ \A d \in Clients \ {c} : rw'[d] = rw[d]
          /\ rt' = rt /\ rw'[c].msg = NoMsg
          /\ rw'[c].pc = IF rw[c].msg.type = "DONE" THEN "exited" ELSE "receive"
      BY <1>2, WriteEffect DEF Same, SameRoute
    <2> QED
      BY <2>1, MessageFacts DEF NoDoneYet, Working
  <1>3. ASSUME NEW c \in Clients, routeLastTerminate(c) \/ routeResponse(c) \/ routeRequest(c)
        PROVE  NoDoneYet'
    <2>1. rw' = rw /\ rt.pc = "receive"
      BY <1>3, RouteEffect
    <2>2. \/ rt'.pc = "sendDone"
          \/ rt'.msg.type = "TRANSACTION"
      <3>1. CASE routeLastTerminate(c)
        BY <3>1 DEF routeLastTerminate
      <3>2. CASE routeResponse(c)
        BY <3>2 DEF routeResponse, Outgoing, IsResponse
      <3>3. CASE routeRequest(c)
        BY <3>3, RouteRequestFacts
      <3> QED
        BY <1>3, <3>1, <3>2, <3>3
    <2> QED
      BY <2>1, <2>2 DEF NoDoneYet, Working
  <1>4. ASSUME routeSend \/ sendDone PROVE NoDoneYet'
    <2>1. PICK c \in Clients :
            /\ \A d \in Clients \ {c} : Same(d)
            /\ rw'[c].pc = "write"
            /\ \/ /\ routeSend /\ rt.pc = "send" /\ rw'[c].msg = rt.msg
                  /\ rt'.pc = "receive" /\ rt'.msg = NoMsg
               \/ /\ sendDone /\ rt.pc = "sendDone" /\ rw'[c].msg = DoneMsg
                  /\ rt'.pc \in {"sendDone", "exited"} /\ rt'.msg \in {rt.msg, NoMsg}
      BY <1>4, HandOverEffect
    <2>2. \A d \in Clients \ {c} : rw'[d] = rw[d]
      BY <2>1 DEF Same
    <2> QED
      BY <2>1, <2>2, MessageFacts DEF NoDoneYet, Working
  <1>5. ASSUME NEW c \in Clients, clientRead(c) PROVE UNCHANGED <<rw, rt>>
    BY <1>5 DEF clientRead
  <1>6. ASSUME routerExit \/ UNCHANGED vars PROVE UNCHANGED <<rw, rt>>
    BY <1>6, RestEffect
  <1> QED
    BY <1>1, <1>2, <1>3, <1>4, <1>5, <1>6, BridgeLeavesRouter DEF RouterStep

\* When the application waits for nothing, no transaction is on its way.
LEMMA NoTransactions ==
    ASSUME OneMaster, Shape, PlacesInv, PendingInv, NEW m \in Masters, ~Outstanding(m)
    PROVE  /\ txns[m] = {}
           /\ \A k \in DOMAIN q[0].items : q[0].items[k].msg.type # "TRANSACTION"
           /\ bridge[0].writer # "register"
           /\ bridge[0].writer = "send" => bridge[0].txn.msg.type # "TRANSACTION"
           /\ \A k \in DOMAIN toRouter[0] : toRouter[0][k].type # "TRANSACTION"
           /\ \A k \in DOMAIN toClient[0] : toClient[0][k].type # "TRANSACTION"
           /\ rr[0].pc = "push" => rr[0].msg.type # "TRANSACTION"
  <1>1. m \in masterMap(0) /\ Masters = {m} /\ Ips[m].owner = 0 /\ 0 \in Clients
    BY TheMaster, Owners
  <1>2. \A n : ~Waits(ops[0], m, n)
    BY <1>1 DEF Waits, Outstanding
  <1>3. txns[m] = {}
    <2>1. \A e \in txns[m] : Waits(ops[0], m, e.op)
      BY <1>1 DEF PendingInv, TxnWaits
    <2> QED
      BY <1>2, <2>1
  <1>4. \A i \in Masters : Ids(i) = {}
    BY <1>1, <1>3 DEF Ids
  <1>5. bridge[0].writer # "register"
    <2> SUFFICES ASSUME bridge[0].writer = "register" PROVE FALSE
      OBVIOUS
    <2>1. /\ bridge[0].txn.msg.txn.initiator \in masterMap(0)
          /\ Waits(ops[0], bridge[0].txn.msg.txn.initiator, bridge[0].txn.op)
      BY <1>1 DEF PendingInv, WriterWaits
    <2>2. bridge[0].txn.msg.txn.initiator = m
      BY <1>1, <2>1, Owners
    <2> QED
      BY <1>2, <2>1, <2>2
  <1>6. ASSUME NEW k \in DOMAIN q[0].items, q[0].items[k].msg.type = "TRANSACTION" PROVE FALSE
    <2>1. k \in Nat /\ q[0].items[k] \in GoodEntry
      BY <1>1 DEF Shape, QueuesInv, IsQueue
    <2>2. PICK msg \in GoodMsg : msg = q[0].items[k].msg
      BY <2>1, EntryFacts
    <2>3. IsRequest(msg) \/ IsResponse(msg)
      BY <1>6, <2>2, GoodMsgFacts, TxnFields DEF IsRequest, IsResponse
    <2>4. CASE IsRequest(msg)
      <3>1. Queued(0, k)
        BY <2>2, <2>4 DEF Queued
      <3>2. /\ q[0].items[k].msg.txn.initiator \in masterMap(0)
            /\ Waits(ops[0], q[0].items[k].msg.txn.initiator, q[0].items[k].op)
        BY <1>1, <2>1, <3>1 DEF PendingInv, QueueWaits
      <3>3. q[0].items[k].msg.txn.initiator = m
        BY <1>1, <3>2, Owners
      <3> QED
        BY <1>2, <3>2, <3>3
    <2>5. CASE IsResponse(msg)
      BY <1>1, <1>4, <2>2, <2>5, OnTheWay
    <2> QED
      BY <2>3, <2>4, <2>5
  <1>7. /\ bridge[0].writer = "send" => bridge[0].txn.msg.type # "TRANSACTION"
        /\ \A k \in DOMAIN toRouter[0] : toRouter[0][k].type # "TRANSACTION"
        /\ \A k \in DOMAIN toClient[0] : toClient[0][k].type # "TRANSACTION"
        /\ rr[0].pc = "push" => rr[0].msg.type # "TRANSACTION"
    BY <1>1, <1>4, OnTheWay
  <1> QED
    BY <1>3, <1>5, <1>6, <1>7

\* What TokenInv is about is left alone.
LEMMA TokenFrame ==
    ASSUME TokenInv, terminated' = terminated, Working' <=> Working, masterCount' = masterCount,
           q'[0].items = q[0].items, toRouter'[0] = toRouter[0],
           \/ bridge'[0].writer = bridge[0].writer
           \/ bridge[0].writer \notin {"register", "send"} /\ bridge'[0].writer \notin {"register", "send"},
           rr'[0].pc = rr[0].pc
    PROVE  TokenInv'
  <1>1. OneToken(0) => OneToken(0)'
    BY DEF OneToken
  <1>2. Silent(0) => Silent(0)'
    BY DEF Silent
  <1> QED
    BY <1>1, <1>2 DEF TokenInv

\* Nothing is on the way when the master is terminated, and the termination
\* is the one message that follows.
LEMMA TerminateToken ==
    ASSUME OneMaster, Shape, PlacesInv, PendingInv, HonestInv, ThreadsInv, NoDoneYet,
           NEW c \in Clients, NEW m \in masterMap(c), terminate(m)
    PROVE  TokenInv'
  <1>1. c = 0 /\ m \in Masters /\ Masters = {m} /\ ~EarlyTerminate
    BY TheMaster, Owners
  <1>2. PICK e \in GoodEntry : Push(c, e)
    BY TerminateEffect
  <1>3. /\ m \notin terminated /\ ~Outstanding(m)
        /\ UNCHANGED <<ops, bridge, txns, toRouter, toClient, rr, rw, rt, masterCount, up>>
    BY <1>1, TerminateEffect
  <1>4. terminated = {}
    BY <1>1, <1>3 DEF Shape, OpsInv
  <1>5. Working
    BY <1>1, <1>4 DEF HonestInv, DoneInv, NoDoneAtRoute, Working
  <1>6. bridge[0].reader = "receive" /\ bridge[0].writer \notin {"logout", "exited"} /\ Open(toRouter[0])
    <2>1. Uplink(0) /\ Downlink(0) /\ Threads(0) /\ rw[0].pc # "exited"
      BY <1>1, <1>5 DEF ThreadsInv, NoDoneYet
    <2> QED
      BY <2>1 DEF Uplink, Downlink, Threads
  <1>7. \A msg \in GoodMsg : \/ msg.type = "DONE" \/ msg.type = "TRANSACTION"
                             \/ msg.type = "TERMINATE" /\ msg.ip \in Masters
    BY GoodMsgFacts, MessageFacts
  <1>8. /\ \A k \in DOMAIN q[0].items : q[0].items[k].msg.type # "TRANSACTION"
        /\ bridge[0].writer # "register"
        /\ bridge[0].writer = "send" => bridge[0].txn.msg.type # "TRANSACTION"
        /\ \A k \in DOMAIN toRouter[0] : toRouter[0][k].type # "TRANSACTION"
        /\ rr[0].pc = "push" => rr[0].msg.type # "TRANSACTION"
    BY <1>1, <1>3, NoTransactions
  <1>9. TerminationsInv /\ Uplink(0)
    BY <1>1 DEF HonestInv, ThreadsInv
  <1>10. q[0].items = <<>>
    <2>1. q[0].items \in Seq(GoodEntry)
      BY <1>1 DEF Shape, QueuesInv, IsQueue
    <2>2. ASSUME NEW k \in DOMAIN q[0].items PROVE FALSE
      <3>1. PICK msg \in GoodMsg : msg = q[0].items[k].msg
        BY <2>1, EntryFacts
      <3>2. msg.type # "DONE" /\ Ended(msg) /\ msg.type # "TRANSACTION"
        BY <1>1, <1>8, <1>9, <3>1 DEF Uplink, TerminationsInv, EndedQueue
      <3> QED
        BY <1>4, <1>7, <3>2 DEF Ended
    <2> QED
      BY <2>1, <2>2, TailElements
  <1>11. toRouter[0] = <<>>
    <2>1. toRouter[0] \in Seq(GoodMsg)
      BY <1>1 DEF Shape, SocketsInv
    <2>2. ASSUME NEW k \in DOMAIN toRouter[0] PROVE FALSE
      <3>1. PICK msg \in GoodMsg : msg = toRouter[0][k]
        BY <2>1
      <3>2. msg.type # "DONE" /\ Ended(msg) /\ msg.type # "TRANSACTION"
        BY <1>1, <1>6, <1>8, <1>9, <3>1 DEF Open, TerminationsInv, EndedSocket
      <3> QED
        BY <1>4, <1>7, <3>2 DEF Ended
    <2> QED
      BY <2>1, <2>2, TailElements
  <1>12. bridge[0].writer # "send"
    <2> SUFFICES ASSUME bridge[0].writer = "send" PROVE FALSE
      OBVIOUS
    <2>1. PICK msg \in GoodMsg : msg = bridge[0].txn.msg
      BY <1>1, BridgeFields, EntryFacts DEF IsBridge
    <2>2. msg.type # "DONE" /\ Ended(msg) /\ msg.type # "TRANSACTION"
      BY <1>1, <1>8, <1>9, <2>1 DEF Uplink, TerminationsInv, EndedWriter
    <2> QED
      BY <1>4, <1>7, <2>2 DEF Ended
  <1>13. rr[0].pc # "push"
    <2> SUFFICES ASSUME rr[0].pc = "push" PROVE FALSE
      OBVIOUS
    <2>1. PICK msg \in GoodMsg : msg = rr[0].msg
      BY <1>1 DEF Shape, RouterInv
    <2>2. msg.type # "DONE" /\ Ended(msg) /\ msg.type # "TRANSACTION"
      BY <1>1, <1>8, <1>9, <2>1 DEF Uplink, TerminationsInv, EndedReader
    <2> QED
      BY <1>4, <1>7, <2>2 DEF Ended
  <1>14. Len(q'[0].items) = 1
    <2>1. q'[0].items = Append(<<>>, e)
      BY <1>1, <1>2, <1>10, PushEffect
    <2> QED
      BY <2>1
  <1>15. OneToken(0)'
    BY <1>3, <1>8, <1>11, <1>12, <1>13, <1>14 DEF OneToken
  <1>16. Working'
    BY <1>3, <1>5 DEF Working
  <1> QED
    BY <1>15, <1>16 DEF TokenInv

\* Once the master is terminated, its termination is alone on its way.
LEMMA ClientToken ==
    ASSUME OneMaster, Shape, PlacesInv, PendingInv, HonestInv, ThreadsInv, IdleInv, NoDoneYet, TokenInv,
           Masters \subseteq terminated, NEW c \in Clients, ClientStep(c)
    PROVE  TokenInv'
  <1>1. PICK m \in Masters : Masters = {m} /\ m \in terminated /\ ~Outstanding(m)
    BY TheMaster DEF OneMaster, HonestInv, Answered
  <1>2. /\ \A k \in DOMAIN q[0].items : q[0].items[k].msg.type # "TRANSACTION"
        /\ bridge[0].writer # "register"
        /\ \A k \in DOMAIN toClient[0] : toClient[0][k].type # "TRANSACTION"
        /\ rr[0].pc = "push" => rr[0].msg.type # "TRANSACTION"
    BY <1>1, NoTransactions
  <1>3. 0 \in Clients /\ Uplink(0) /\ Downlink(0) /\ Threads(0)
    BY Owners DEF ThreadsInv
  <1>4. Working => /\ bridge[0].reader = "receive" /\ bridge[0].writer \notin {"logout", "exited"}
                   /\ Open(toRouter[0]) /\ OneToken(0)
    <2> HAVE Working
    <2>1. rw[0].pc # "exited" /\ OneToken(0)
      BY <1>3 DEF NoDoneYet, TokenInv
    <2> QED
      BY <1>3, <2>1 DEF Uplink, Downlink, Threads
  <1>5. ~Working => Silent(0) /\ masterCount = 0
    BY DEF TokenInv
  <1>6. ~(\E i \in masterMap(c) : (\E type \in ReqTypes, b \in Buffers : issue(i, type, b)) \/ terminate(i))
    <2>1. \A i \in masterMap(c) : i \in terminated
      BY Owners
    <2> QED
      BY <2>1 DEF issue, terminate
  <1>7. ~receiveResponse(c) /\ ~receiveRequest(c)
    <2> SUFFICES ASSUME receiveResponse(c) \/ receiveRequest(c) PROVE FALSE
      OBVIOUS
    <2>1. toClient[c] # <<>> /\ Head(toClient[c]).type = "TRANSACTION" /\ toClient[c] \in Seq(GoodMsg)
      BY DEF receiveResponse, receiveRequest, Receiving, IsRequest, IsResponse, Shape, SocketsInv
    <2>2. c = 0
      BY <2>1, ReceivedByFirst
    <2> QED
      BY <1>2, <2>1, <2>2, TailElements
  <1>8. routeLastTerminate(c) \/ routeResponse(c) \/ routeRequest(c) => c = 0 /\ routeLastTerminate(c)
    <2> HAVE routeLastTerminate(c) \/ routeResponse(c) \/ routeRequest(c)
    <2>1. rr[c].pc = "push"
      BY RouteEffect
    <2>2. c = 0
      BY <2>1 DEF IdleInv, Idle, Silent
    <2> QED
      BY <1>2, <2>1, <2>2 DEF routeResponse, routeRequest, IsResponse, IsRequest
  <1>9. CASE c # 0
    <2>1. /\ q'[0].items = q[0].items /\ bridge'[0] = bridge[0] /\ toRouter'[0] = toRouter[0]
          /\ rr'[0] = rr[0]
      BY <1>3, <1>9, OthersSame
    <2>2. rt' = rt /\ masterCount' = masterCount
      BY <1>8, <1>9, BridgeLeavesRouter DEF clientRead, clientWrite
    <2>3. terminated' = terminated
      BY <1>6 DEF ClientStep, waitForCompletion, disconnect, writerTake, writerWait, spuriousWakeup,
                  writerStop, writerRegister, writerSend, writerLogout, receiveDone, receiveResponse,
                  receiveRequest, readerNotify, clientRead, clientWrite, routeLastTerminate,
                  routeResponse, routeRequest, appVars
    <2> QED
      BY <2>1, <2>2, <2>3, TokenFrame DEF Working
  <1>10. CASE c = 0 /\ (waitForCompletion(c) \/ disconnect(c))
    BY <1>10, JoinEffect, TokenFrame DEF SameRoute, Working
  <1>11. CASE c = 0 /\ (writerWait(c) \/ spuriousWakeup(c))
    BY <1>11, WaitEffect, TokenFrame DEF SameRoute, Working
  <1>12. CASE c = 0 /\ writerStop(c)
    BY <1>12, StopEffect, TokenFrame DEF SameRoute, Working
  <1>13. CASE c = 0 /\ receiveDone(c)
    BY <1>13, EndEffect, TokenFrame DEF SameRoute, Working
  <1>14. CASE c = 0 /\ readerNotify(c)
    BY <1>14, NotifyEffect, TokenFrame DEF SameRoute, Working
  <1>15. CASE c = 0 /\ clientWrite(c)
    BY <1>15, WriteEffect, TokenFrame DEF SameRoute, Working
  <1>16. CASE c = 0 /\ writerRegister(c)
    BY <1>2, <1>16 DEF writerRegister
  <1>17. CASE c = 0 /\ writerTake(c)
    <2>1. /\ SameRoute /\ UNCHANGED <<ops, terminated, txns, toRouter, toClient, rr, rw>>
          /\ q[0].items # <<>> /\ q[0].items \in Seq(GoodEntry)
          /\ q'[0].items = Tail(q[0].items) /\ bridge[0].writer = "pop"
          /\ bridge'[0].writer = IF IsRequest(Head(q[0].items).msg) THEN "register" ELSE "send"
      BY <1>17, TakeEffect
    <2>2. Working /\ OneToken(0)
      BY <1>4, <1>5, <2>1 DEF Silent
    <2>3. Len(q[0].items) = 1 /\ toRouter[0] = <<>> /\ rr[0].pc # "push"
      BY <2>1, <2>2 DEF OneToken
    <2>4. q'[0].items = <<>>
      <3>1. Len(Tail(q[0].items)) = 0 /\ Tail(q[0].items) \in Seq(GoodEntry)
        BY <2>1, <2>3, Shrunk, HeadTailProperties
      <3> QED
        BY <2>1, <3>1, EmptySeq
    <2>5. ~IsRequest(Head(q[0].items).msg)
      BY <1>2, <2>1, TailElements DEF IsRequest
    <2>6. OneToken(0)'
      BY <2>1, <2>3, <2>4, <2>5 DEF OneToken
    <2> QED
      BY <2>1, <2>2, <2>6 DEF TokenInv, SameRoute, Working
  <1>18. CASE c = 0 /\ writerSend(c)
    <2>1. /\ SameRoute /\ UNCHANGED <<ops, terminated, q, txns, toClient, rr, rw>>
          /\ bridge[0].writer = "send" /\ bridge'[0].writer = "pop"
          /\ toRouter'[0] = Append(toRouter[0], bridge[0].txn.msg)
      BY <1>18, SendEffect DEF writerSend
    <2>2. Working /\ OneToken(0)
      BY <1>4, <1>5, <2>1 DEF Silent
    <2>3. q[0].items = <<>> /\ toRouter[0] = <<>> /\ rr[0].pc # "push"
      <3>1. \A s : s = <<>> => Len(s) # 1
        OBVIOUS
      <3> QED
        BY <2>1, <2>2, <3>1 DEF OneToken
    <2>4. Len(toRouter'[0]) = 1
      BY <2>1, <2>3
    <2>5. OneToken(0)'
      BY <2>1, <2>3, <2>4 DEF OneToken
    <2> QED
      BY <2>1, <2>2, <2>5 DEF TokenInv, SameRoute, Working
  <1>19. CASE c = 0 /\ writerLogout(c)
    <2>1. /\ SameRoute /\ UNCHANGED <<ops, terminated, q, txns, toClient, rr, rw>>
          /\ bridge[0].writer = "logout" /\ bridge'[0].writer = "exited"
          /\ toRouter[0] \in Seq(GoodMsg) /\ toRouter'[0] = Append(toRouter[0], DoneMsg)
      BY <1>19, SendEffect DEF writerLogout
    <2>2. ~Working /\ Silent(0) /\ masterCount = 0
      BY <1>4, <1>5, <2>1
    <2>3. \A k \in DOMAIN toRouter'[0] : toRouter'[0][k].type = "DONE"
      BY <2>1, <2>2, AppendElements, GoodMsgFacts, MessageFacts DEF Silent
    <2>4. Silent(0)'
      BY <2>1, <2>2, <2>3 DEF Silent
    <2> QED
      BY <2>1, <2>2, <2>4 DEF TokenInv, SameRoute, Working
  <1>20. CASE c = 0 /\ clientRead(c)
    <2>1. /\ SameRoute /\ UNCHANGED <<ops, terminated, txns, q, bridge, toClient, rw>>
          /\ rr[0].pc = "read"
          /\ toRouter[0] # <<>> /\ toRouter[0] \in Seq(GoodMsg)
          /\ toRouter'[0] = Tail(toRouter[0])
          /\ Head(toRouter[0]).type = "DONE" => rr'[0].pc = "exited"
          /\ Head(toRouter[0]).type # "DONE" => rr'[0].pc = "push"
      BY <1>20, ReadEffect
    <2>2. CASE Working
      <3>1. Head(toRouter[0]).type # "DONE"
        BY <1>4, <2>1, <2>2, OpenFacts
      <3>2. /\ q[0].items = <<>> /\ bridge[0].writer \notin {"register", "send"}
            /\ Len(toRouter[0]) = 1
        BY <1>4, <2>1, <2>2 DEF OneToken
      <3>3. toRouter'[0] = <<>>
        <4>1. Len(Tail(toRouter[0])) = 0 /\ Tail(toRouter[0]) \in Seq(GoodMsg)
          BY <2>1, <3>2, Shrunk, HeadTailProperties
        <4> QED
          BY <2>1, <4>1, EmptySeq
      <3>4. OneToken(0)'
        BY <2>1, <3>1, <3>2, <3>3 DEF OneToken
      <3> QED
        BY <2>1, <2>2, <3>4 DEF TokenInv, SameRoute, Working
    <2>3. CASE ~Working
      <3>1. Silent(0) /\ masterCount = 0
        BY <1>5, <2>3
      <3>2. /\ Head(toRouter[0]).type = "DONE"
            /\ \A k \in DOMAIN toRouter'[0] : toRouter'[0][k].type = "DONE"
        BY <2>1, <3>1, TailElements DEF Silent
      <3>3. Silent(0)'
        BY <2>1, <3>1, <3>2 DEF Silent
      <3> QED
        BY <2>1, <2>3, <3>1, <3>3 DEF TokenInv, SameRoute, Working
    <2> QED
      BY <2>2, <2>3
  <1>21. CASE c = 0 /\ routeLastTerminate(c)
    <2>1. /\ UNCHANGED <<ops, terminated, txns, q, bridge, toRouter, toClient, rw>>
          /\ rt.pc = "receive" /\ rr[0].pc = "push" /\ rr'[0].pc = "read"
      BY <1>21, RouteEffect
    <2>2. rt'.pc = "sendDone" /\ masterCount' = 0
      BY <1>21 DEF routeLastTerminate
    <2>3. OneToken(0)
      BY <1>4, <2>1 DEF Working
    <2>4. /\ q[0].items = <<>> /\ bridge[0].writer \notin {"register", "send"}
          /\ toRouter[0] = <<>>
      BY <2>1, <2>3 DEF OneToken
    <2>5. Silent(0)'
      BY <2>1, <2>4 DEF Silent
    <2> QED
      BY <2>2, <2>5 DEF TokenInv, Working
  <1> QED
    BY <1>6, <1>7, <1>8, <1>9, <1>10, <1>11, <1>12, <1>13, <1>14, <1>15, <1>16, <1>17, <1>18, <1>19,
       <1>20, <1>21 DEF ClientStep

\* The termination of the master is alone on its way, and nothing follows it.
LEMMA NextToken ==
    ASSUME OneMaster, Shape, PlacesInv, PendingInv, HonestInv, ThreadsInv, IdleInv, NoDoneYet, TokenInv,
           DoneInv', (\E c \in Clients : ClientStep(c)) \/ RouterStep
    PROVE  TokenInv'
  <1>1. ASSUME NEW c \in Clients, NEW m \in masterMap(c), terminate(m) PROVE TokenInv'
    BY <1>1, TerminateToken
  <1>2. CASE ~(Masters \subseteq terminated')
    <2>1. Working'
      BY <1>2 DEF DoneInv, NoDoneAtRoute, Working, Masters
    <2> QED
      BY <1>2, <2>1 DEF TokenInv, Masters
  <1>3. ASSUME NEW c \in Clients, ClientStep(c), Masters \subseteq terminated' PROVE TokenInv'
    <2>1. CASE Masters \subseteq terminated
      BY <1>3, <2>1, ClientToken
    <2>2. CASE terminated' = terminated
      BY <1>3, <2>1, <2>2
    <2>3. CASE \E m \in masterMap(c) : terminate(m)
      BY <1>1, <1>3, <2>3
    <2>4. \/ terminated' = terminated
          \/ \E m \in masterMap(c) : terminate(m)
      BY <1>3 DEF ClientStep, issue, waitForCompletion, disconnect, writerTake, writerWait, spuriousWakeup,
                  writerStop, writerRegister, writerSend, writerLogout, receiveDone, receiveResponse,
                  receiveRequest, readerNotify, clientRead, clientWrite, routeLastTerminate,
                  routeResponse, routeRequest, appVars
    <2> QED
      BY <2>2, <2>3, <2>4
  <1>4. CASE routeSend \/ sendDone
    <2>1. PICK c \in Clients :
            /\ UNCHANGED <<ops, terminated, txns, q, bridge, toRouter, toClient, rr, masterCount, up>>
            /\ \/ /\ routeSend /\ rt.pc = "send" /\ rw'[c].msg = rt.msg
                  /\ rt'.pc = "receive" /\ rt'.msg = NoMsg
               \/ /\ sendDone /\ rt.pc = "sendDone" /\ rw'[c].msg = DoneMsg
                  /\ rt'.pc \in {"sendDone", "exited"} /\ rt'.msg \in {rt.msg, NoMsg}
      BY <1>4, HandOverEffect
    <2> QED
      BY <2>1, TokenFrame DEF Working
  <1>5. CASE routerExit \/ UNCHANGED vars
    BY <1>5, RestEffect, TokenFrame DEF Working
  <1> QED
    BY <1>2, <1>3, <1>4, <1>5 DEF RouterStep

\* The initial state.
LEMMA InitCalm ==
    ASSUME OneMaster, Init
    PROVE  CalmInv
  <1>1. Shape /\ PlacesInv /\ PendingInv
    BY InitShape, InitPlaces, InitPending
  <1>2. /\ 0 \in Clients /\ terminated = {} /\ up = "running" /\ rt.pc = "receive" /\ rt.msg = NoMsg
        /\ \A c \in Clients :
             /\ ops[c] = <<>> /\ q[c].items = <<>> /\ ~q[c].done
             /\ bridge[c].state = "STARTED" /\ bridge[c].reader = "receive"
             /\ bridge[c].readerStatus = "ok" /\ bridge[c].writer = "pop"
             /\ bridge[c].writerStatus = "ok" /\ bridge[c].txn = NoEntry /\ bridge[c].app = "running"
             /\ toRouter[c] = <<>> /\ toClient[c] = <<>>
             /\ rr[c].pc = "read" /\ rr[c].msg = NoMsg /\ rw[c].pc = "receive" /\ rw[c].msg = NoMsg
    BY Owners DEF Init, NewQueue
  <1>3. NoEntry.msg = NoMsg /\ NoMsg.type = "NONE"
    BY EntryFacts, MessageFacts
  <1>4. HonestInv
    <2>1. OwnOps /\ Answered /\ JoinedInv
      BY <1>2 DEF OwnOps, Answered, JoinedInv
    <2>2. TerminationsInv
      BY <1>2, <1>3 DEF TerminationsInv, EndedQueue, EndedSocket, EndedWriter, EndedReader, Ended
    <2>3. DoneInv
      BY <1>2, <1>3 DEF DoneInv, NoDoneAtRoute, NoDone
    <2> QED
      BY <2>1, <2>2, <2>3 DEF HonestInv
  <1>5. HandsInv /\ NoDoneYet
    BY <1>2, <1>3 DEF HandsInv, Hands, NoDoneYet, Working
  <1>6. ThreadsInv
    <2>1. UpInv
      BY <1>2 DEF UpInv
    <2>2. \A c \in Clients : Uplink(c) /\ Downlink(c) /\ Threads(c)
      BY <1>2, <1>3 DEF Uplink, Downlink, Threads, Open
    <2> QED
      BY <2>1, <2>2 DEF ThreadsInv
  <1>7. IdleInv
    BY <1>2 DEF IdleInv, Idle, Silent
  <1>8. TokenInv
    BY <1>2 DEF TokenInv, OneMaster, Working
  <1> QED
    BY <1>1, <1>4, <1>5, <1>6, <1>7, <1>8 DEF CalmInv

\* Every step keeps the inductive invariant, and is none of those with which
\* the code gives up.
LEMMA NextCalm ==
    ASSUME OneMaster, CalmInv, [Next]_vars
    PROVE  CalmInv' /\ ((\E c \in Clients : ClientStep(c)) \/ RouterStep)
  <1>1. /\ Shape /\ PlacesInv /\ HonestInv /\ PendingInv
        /\ HandsInv /\ ThreadsInv /\ IdleInv /\ NoDoneYet /\ TokenInv
    BY DEF CalmInv
  <1>2. (\E c \in Clients : ClientStep(c)) \/ RouterStep
    BY <1>1, StepsLeft
  <1>3. Shape' /\ PlacesInv' /\ PendingInv'
    BY <1>1, NextShape, NextPlaces, NextPending
  <1>4. OwnOps' /\ Answered' /\ terminated \subseteq terminated'
    BY <1>1, TheMaster, OpsHonest DEF HonestInv
  <1>5. TerminationsInv' /\ DoneInv' /\ JoinedInv'
    BY <1>1, <1>4, TerminationsStep, DoneStep, JoinedStep DEF HonestInv
  <1>6. HandsInv' /\ ThreadsInv' /\ NoDoneYet'
    BY <1>1, <1>2, NextHands, NextThreads, NextNoDone
  <1>7. IdleInv'
    BY <1>1, <1>2, NextIdle
  <1>8. TokenInv'
    BY <1>1, <1>2, <1>5, NextToken
  <1> QED
    BY <1>2, <1>3, <1>4, <1>5, <1>6, <1>7, <1>8 DEF CalmInv, HonestInv

\* In the system of test 02 no reader ends with an error: every request that
\* Bridge::reader receives is for a slave of its bridge, every response for a
\* promise that waits in txns, and the end of the router is announced by DONE.
\* Other slaves, other clients and the sizes of the queues do not matter.
THEOREM ReadersEndWell ==
    ASSUME OneMaster
    PROVE  Spec => []NoReaderError
  <1>1. Init => CalmInv
    BY InitCalm
  <1>2. CalmInv /\ [Next]_vars => CalmInv'
    BY NextCalm
  <1>3. CalmInv => NoReaderError
    BY DEF CalmInv, ThreadsInv, Threads, NoReaderError
  <1> QED
    BY <1>1, <1>2, <1>3, PTL DEF Spec

\* In that system the router process ends only when every client has logged
\* out without an error, and no message, no queued transaction and no promise
\* is left: when route sees the termination of the master, nothing else is on
\* its way, and DONE is the last that everybody gets and sends.
THEOREM RouterEndsCleanly ==
    ASSUME OneMaster
    PROVE  Spec => []CleanExit
  <1>1. Init => CalmInv
    BY InitCalm
  <1>2. CalmInv /\ [Next]_vars => CalmInv'
    BY NextCalm
  <1>3. ASSUME CalmInv PROVE CleanExit
    <2> SUFFICES ASSUME up = "exited"
                 PROVE  /\ masterCount = 0
                        /\ \A m \in Masters : txns[m] = {}
                        /\ \A c \in Clients :
                             /\ bridge[c].state \in {"LOGGED_OUT", "DISCONNECTED"}
                             /\ bridge[c].readerStatus = "ok" /\ bridge[c].writerStatus = "ok"
                             /\ toRouter[c] = <<>> /\ toClient[c] = <<>> /\ q[c].items = <<>>
      BY DEF CleanExit
    <2>1. /\ Shape /\ PlacesInv /\ HonestInv /\ PendingInv /\ ThreadsInv /\ IdleInv /\ TokenInv
      BY <1>3 DEF CalmInv
    <2>2. rt.pc = "exited" /\ \A c \in Clients : rr[c].pc = "exited" /\ rw[c].pc = "exited"
      BY <2>1 DEF ThreadsInv, UpInv
    <2>3. Silent(0) /\ masterCount = 0 /\ Masters \subseteq terminated
      BY <2>1, <2>2 DEF TokenInv, Working, HonestInv, DoneInv, NoDoneAtRoute
    <2>4. \A m \in Masters : ~Outstanding(m)
      BY <2>1, <2>3 DEF HonestInv, Answered
    <2>5. \A m \in Masters : txns[m] = {}
      BY <2>1, <2>4, NoTransactions
    <2>6. ASSUME NEW c \in Clients
          PROVE  /\ bridge[c].state \in {"LOGGED_OUT", "DISCONNECTED"}
                 /\ bridge[c].readerStatus = "ok" /\ bridge[c].writerStatus = "ok"
                 /\ toRouter[c] = <<>> /\ toClient[c] = <<>> /\ q[c].items = <<>>
      <3>1. Uplink(c) /\ Downlink(c) /\ Threads(c) /\ rr[c].pc = "exited"
        BY <2>1, <2>2 DEF ThreadsInv
      <3>2. bridge[c].writer = "exited" /\ toRouter[c] = <<>>
        BY <3>1 DEF Uplink
      <3>3. bridge[c].reader # "receive" /\ bridge[c].state # "STARTED"
        BY <3>1, <3>2 DEF Threads
      <3>4. toClient[c] = <<>>
        BY <3>1, <3>3 DEF Downlink
      <3>5. bridge[c].state \in {"STARTED", "LOGGED_OUT", "DISCONNECTED"}
        BY <2>1, BridgeFields DEF IsBridge
      <3>6. Silent(c)
        BY <2>1, <2>3 DEF IdleInv, Idle
      <3> QED
        BY <3>1, <3>2, <3>3, <3>4, <3>5, <3>6 DEF Threads, Silent
    <2> QED
      BY <2>3, <2>5, <2>6
  <1> QED
    BY <1>1, <1>2, <1>3, PTL DEF Spec
-----------------------------------------------------------------------------
(* Nothing is lost *)

\* The request of a promise, or its response, is on its way.
Found(m, id) == \E w \in Spots : Carries(Load(w), m, id)

NotLost == \A m \in Masters : \A id \in Ids(m) : Found(m, id)

\* The places of one kind in client c hold the same messages as before.
Kept(kind, c) ==
    /\ kind = "queue"    => q'[c].items = q[c].items
    /\ kind = "toRouter" => toRouter'[c] = toRouter[c]
    /\ kind = "toClient" => toClient'[c] = toClient[c]
    /\ kind = "writer"   => Sending(bridge'[c]) = Sending(bridge[c])
    /\ kind = "rr"       => rr'[c].msg = rr[c].msg
    /\ kind = "rw"       => rw'[c].msg = rw[c].msg
    /\ kind = "rt" /\ c = 0 => rt'.msg = rt.msg

\* What place w holds is still somewhere after the step.
Follows(w) ==
    \A m \in Masters, id \in Nat :
        Carries(Load(w), m, id) => \E v \in Spots : Carries(Load(v)', m, id)

\* The places that a step leaves alone.
LEMMA KeptLoads ==
    ASSUME NEW kind \in Kinds, NEW c \in Clients, NEW k \in Nat, Kept(kind, c)
    PROVE  Follows(<<kind, c, k>>)
  <1>1. <<kind, c, k>> \in Spots
    BY SpotFacts
  <1>2. Load(<<kind, c, k>>)' = Load(<<kind, c, k>>)
    <2>1. CASE kind = "queue"
      <3>1. q'[c].items = q[c].items
        BY <2>1 DEF Kept
      <3>2. Load(<<"queue", c, k>>) = ResponseAt(q[c].items, k)
        BY Loads
      <3>3. Load(<<"queue", c, k>>)' = ResponseAt(q'[c].items, k)
        BY Loads
      <3> QED
        BY <2>1, <3>1, <3>2, <3>3
    <2>2. CASE kind = "toRouter"
      <3>1. toRouter'[c] = toRouter[c]
        BY <2>2 DEF Kept
      <3>2. Load(<<"toRouter", c, k>>) = At(toRouter[c], k)
        BY Loads
      <3>3. Load(<<"toRouter", c, k>>)' = At(toRouter'[c], k)
        BY Loads
      <3> QED
        BY <2>2, <3>1, <3>2, <3>3
    <2>3. CASE kind = "toClient"
      <3>1. toClient'[c] = toClient[c]
        BY <2>3 DEF Kept
      <3>2. Load(<<"toClient", c, k>>) = At(toClient[c], k)
        BY Loads
      <3>3. Load(<<"toClient", c, k>>)' = At(toClient'[c], k)
        BY Loads
      <3> QED
        BY <2>3, <3>1, <3>2, <3>3
    <2>4. CASE kind = "writer"
      <3>1. Sending(bridge'[c]) = Sending(bridge[c])
        BY <2>4 DEF Kept
      <3>2. Load(<<"writer", c, k>>) = IF k = 0 THEN Sending(bridge[c]) ELSE NoMsg
        BY Loads
      <3>3. Load(<<"writer", c, k>>)' = IF k = 0 THEN Sending(bridge'[c]) ELSE NoMsg
        BY Loads
      <3> QED
        BY <2>4, <3>1, <3>2, <3>3
    <2>5. CASE kind = "rr"
      <3>1. rr'[c].msg = rr[c].msg
        BY <2>5 DEF Kept
      <3>2. Load(<<"rr", c, k>>) = IF k = 0 THEN rr[c].msg ELSE NoMsg
        BY Loads
      <3>3. Load(<<"rr", c, k>>)' = IF k = 0 THEN rr'[c].msg ELSE NoMsg
        BY Loads
      <3> QED
        BY <2>5, <3>1, <3>2, <3>3
    <2>6. CASE kind = "rw"
      <3>1. rw'[c].msg = rw[c].msg
        BY <2>6 DEF Kept
      <3>2. Load(<<"rw", c, k>>) = IF k = 0 THEN rw[c].msg ELSE NoMsg
        BY Loads
      <3>3. Load(<<"rw", c, k>>)' = IF k = 0 THEN rw'[c].msg ELSE NoMsg
        BY Loads
      <3> QED
        BY <2>6, <3>1, <3>2, <3>3
    <2>7. CASE kind = "rt"
      <3>1. c = 0 => rt'.msg = rt.msg
        BY <2>7 DEF Kept
      <3>2. Load(<<"rt", c, k>>) = IF k = 0 /\ c = 0 THEN rt.msg ELSE NoMsg
        BY Loads
      <3>3. Load(<<"rt", c, k>>)' = IF k = 0 /\ c = 0 THEN rt'.msg ELSE NoMsg
        BY Loads
      <3> QED
        BY <2>7, <3>1, <3>2, <3>3
    <2> QED
      BY <2>1, <2>2, <2>3, <2>4, <2>5, <2>6, <2>7 DEF Kinds
  <1> QED
    BY <1>1, <1>2 DEF Follows

\* A place that holds no transaction loses none.
LEMMA EmptyLoads ==
    ASSUME NEW w, Load(w) \in {NoMsg, DoneMsg}
    PROVE  Follows(w)
  BY MessageFacts DEF Follows, Carries

\* A message that is handed over.
LEMMA MovedLoads ==
    ASSUME NEW v, NEW w \in Spots, NEW msg, Load(v) = msg,
           \A m \in Masters, id \in Nat : Carries(msg, m, id) => Carries(Load(w)', m, id)
    PROVE  Follows(v)
  BY DEF Follows

\* The places of a sequence that grows keep their messages, and the last one
\* gets the new message.
LEMMA GrownLoads ==
    ASSUME Shape, NEW kind \in {"toRouter", "toClient"}, NEW c \in Clients, NEW msg \in GoodMsg,
           kind = "toRouter" => toRouter'[c] = Append(toRouter[c], msg),
           kind = "toClient" => toClient'[c] = Append(toClient[c], msg)
    PROVE  /\ \A k \in Nat : Follows(<<kind, c, k>>)
           /\ \E w \in Spots : Load(w)' = msg
  <1>1. PICK s \in Seq(GoodMsg) : /\ kind = "toRouter" => s = toRouter[c]
                                  /\ kind = "toClient" => s = toClient[c]
    BY DEF Shape, SocketsInv
  <1>2. ASSUME NEW k \in Nat
        PROVE  Load(<<kind, c, k>>) = At(s, k) /\ Load(<<kind, c, k>>)' = At(Append(s, msg), k)
    <2>1. CASE kind = "toRouter"
      <3>1. Load(<<"toRouter", c, k>>) = At(toRouter[c], k)
        BY Loads
      <3>2. Load(<<"toRouter", c, k>>)' = At(toRouter'[c], k)
        BY Loads
      <3> QED
        BY <1>1, <2>1, <3>1, <3>2
    <2>2. CASE kind = "toClient"
      <3>1. Load(<<"toClient", c, k>>) = At(toClient[c], k)
        BY Loads
      <3>2. Load(<<"toClient", c, k>>)' = At(toClient'[c], k)
        BY Loads
      <3> QED
        BY <1>1, <2>2, <3>1, <3>2
    <2> QED
      BY <2>1, <2>2
  <1>3. \A k \in Nat : At(Append(s, msg), k) = IF k = Len(s) + 1 THEN msg ELSE At(s, k)
    BY AppendAt
  <1>4. Len(s) + 1 \in Nat /\ Len(s) + 1 \notin DOMAIN s
    BY Grown
  <1>5. At(s, Len(s) + 1) = NoMsg
    BY <1>4 DEF At
  <1>6. kind \in Kinds
    BY DEF Kinds
  <1>7. ASSUME NEW k \in Nat PROVE Follows(<<kind, c, k>>)
    <2>1. <<kind, c, k>> \in Spots
      BY <1>6, SpotFacts
    <2>2. CASE k = Len(s) + 1
      BY <1>2, <1>5, <2>2, EmptyLoads
    <2>3. CASE k # Len(s) + 1
      <3>1. Load(<<kind, c, k>>)' = Load(<<kind, c, k>>)
        BY <1>2, <1>3, <2>3
      <3> QED
        BY <2>1, <3>1, MovedLoads
    <2> QED
      BY <2>2, <2>3
  <1>8. <<kind, c, Len(s) + 1>> \in Spots /\ Load(<<kind, c, Len(s) + 1>>)' = msg
    BY <1>2, <1>3, <1>4, <1>6, SpotFacts
  <1> QED
    BY <1>7, <1>8

\* All but the first message of a sequence that is read stay in it.
LEMMA ReadFollows ==
    ASSUME Shape, NEW kind \in {"toRouter", "toClient"}, NEW c \in Clients,
           kind = "toRouter" => toRouter[c] # <<>> /\ toRouter'[c] = Tail(toRouter[c]),
           kind = "toClient" => toClient[c] # <<>> /\ toClient'[c] = Tail(toClient[c]),
           NEW k \in Nat \ {1}
    PROVE  Follows(<<kind, c, k>>)
  <1>1. \A j \in Nat \ {0} : Load(<<kind, c, j>>)' = Load(<<kind, c, j + 1>>)
    BY ReadLoads
  <1>2. CASE k = 0
    <2>1. Load(<<kind, c, 0>>) = NoMsg
      <3>1. PICK s \in Seq(GoodMsg) : /\ kind = "toRouter" => s = toRouter[c]
                                      /\ kind = "toClient" => s = toClient[c]
        BY DEF Shape, SocketsInv
      <3>2. Load(<<kind, c, 0>>) = At(s, 0)
        BY <3>1, Loads
      <3>3. 0 \notin DOMAIN s
        OBVIOUS
      <3> QED
        BY <3>2, <3>3 DEF At
    <2> QED
      BY <1>2, <2>1, EmptyLoads
  <1>3. CASE k # 0
    <2>1. PICK j \in Nat \ {0} : k = j + 1
      <3>1. k - 1 \in Nat \ {0} /\ k = (k - 1) + 1
        BY <1>3
      <3> QED
        BY <3>1
    <2>2. <<kind, c, j>> \in Spots
      BY SpotFacts DEF Kinds
    <2>3. Load(<<kind, c, j>>)' = Load(<<kind, c, k>>)
      BY <1>1, <2>1
    <2> QED
      BY <2>2, <2>3, MovedLoads
  <1> QED
    BY <1>2, <1>3

\* The places of a queue after a push.
LEMMA PushFollows ==
    ASSUME Shape, NEW c \in Clients, NEW e \in GoodEntry, Push(c, e)
    PROVE  /\ \A d \in Clients, k \in Nat : Follows(<<"queue", d, k>>)
           /\ IsResponse(e.msg) => \E w \in Spots : Load(w)' = e.msg
  <1>1. /\ q'[c].items = Append(q[c].items, e) /\ q[c].items \in Seq(GoodEntry)
        /\ \A d \in Clients \ {c} : q'[d] = q[d]
    BY PushEffect
  <1>2. PICK s \in Seq(GoodEntry) : s = q[c].items
    BY <1>1
  <1>3. \A k \in Nat : /\ Load(<<"queue", c, k>>) = ResponseAt(s, k)
                       /\ Load(<<"queue", c, k>>)' = ResponseAt(Append(s, e), k)
    BY <1>1, <1>2, Loads
  <1>4. \A k \in Nat : ResponseAt(Append(s, e), k) =
          IF k = Len(s) + 1 THEN (IF IsResponse(e.msg) THEN e.msg ELSE NoMsg) ELSE ResponseAt(s, k)
    BY AppendAt
  <1>5. Len(s) + 1 \in Nat /\ Len(s) + 1 \notin DOMAIN s
    BY Grown
  <1>6. ResponseAt(s, Len(s) + 1) = NoMsg
    BY <1>5 DEF ResponseAt
  <1>7. \A d \in Clients, k \in Nat : <<"queue", d, k>> \in Spots
    BY SpotFacts DEF Kinds
  <1>8. ASSUME NEW d \in Clients, NEW k \in Nat PROVE Follows(<<"queue", d, k>>)
    <2>1. CASE d # c
      <3>1. Kept("queue", d)
        BY <1>1, <2>1 DEF Kept
      <3> QED
        BY <3>1, KeptLoads DEF Kinds
    <2>2. CASE d = c /\ k = Len(s) + 1
      BY <1>3, <1>6, <2>2, EmptyLoads
    <2>3. CASE d = c /\ k # Len(s) + 1
      <3>1. Load(<<"queue", d, k>>)' = Load(<<"queue", d, k>>)
        BY <1>3, <1>4, <2>3
      <3> QED
        BY <1>7, <3>1, MovedLoads
    <2> QED
      BY <2>1, <2>2, <2>3
  <1>9. IsResponse(e.msg) => Load(<<"queue", c, Len(s) + 1>>)' = e.msg
    BY <1>3, <1>4, <1>5
  <1> QED
    BY <1>5, <1>7, <1>8, <1>9

\* What is no transaction does not matter.
LEMMA PlainLoads ==
    ASSUME NEW w, NEW msg, Load(w) = msg, msg.type # "TRANSACTION"
    PROVE  Follows(w)
  BY DEF Follows, Carries

\* A step after which all that was on its way still is.
LEMMA FollowStep ==
    ASSUME Shape, NotLost,
           \A kind \in Kinds, d \in Clients : Kept(kind, d) \/ \A k \in Nat : Follows(<<kind, d, k>>)
    PROVE  /\ \A m \in Masters : \A id \in Ids(m) : Found(m, id)'
           /\ txns' = txns => NotLost'
  <1>1. \A w \in Spots : Follows(w)
    <2> SUFFICES ASSUME NEW w \in Spots PROVE Follows(w)
      OBVIOUS
    <2>1. PICK kind \in Kinds, d \in Clients, k \in Nat : w = <<kind, d, k>>
      BY SpotFacts
    <2>2. Follows(<<kind, d, k>>)
      BY KeptLoads
    <2> QED
      BY <2>1, <2>2
  <1>2. ASSUME NEW m \in Masters, NEW id \in Ids(m) PROVE Found(m, id)'
    <2>1. id \in Nat
      BY DEF Ids, Shape, TablesInv
    <2>2. PICK w \in Spots : Carries(Load(w), m, id)
      BY DEF NotLost, Found
    <2>3. PICK v \in Spots : Carries(Load(v)', m, id)
      BY <1>1, <2>1, <2>2 DEF Follows
    <2>4. Spots' = Spots /\ Carries(Load(v), m, id)'
      BY <2>3 DEF Spots, Kinds, Clients, Carries
    <2> QED
      BY <2>4 DEF Found
  <1>3. txns' = txns => NotLost'
    <2> HAVE txns' = txns
    <2>1. \A m \in Masters : Ids(m)' = Ids(m)
      BY DEF Ids
    <2> QED
      BY <1>2, <2>1 DEF NotLost, Masters
  <1> QED
    BY <1>2, <1>3

\* The clients that a step leaves alone.
LEMMA KeptFrames ==
    ASSUME NEW d \in Clients
    PROVE  /\ Same(d) => \A kind \in Kinds \ {"rt"} : Kept(kind, d)
           /\ d # 0 \/ rt' = rt => Kept("rt", d)
           /\ q'[d].items = q[d].items => Kept("queue", d)
           /\ toRouter'[d] = toRouter[d] => Kept("toRouter", d)
           /\ toClient'[d] = toClient[d] => Kept("toClient", d)
           /\ bridge'[d].writer = bridge[d].writer /\ bridge'[d].txn = bridge[d].txn => Kept("writer", d)
           /\ bridge'[d].writer # "send" /\ bridge[d].writer # "send" => Kept("writer", d)
           /\ rr'[d] = rr[d] => Kept("rr", d)
           /\ rw'[d] = rw[d] => Kept("rw", d)
  <1>1. Same(d) => \A kind \in Kinds \ {"rt"} : Kept(kind, d)
    BY DEF Same, Kept, Kinds
  <1>2. d # 0 \/ rt' = rt => Kept("rt", d)
    BY DEF Kept
  <1>3. /\ bridge'[d].writer = bridge[d].writer /\ bridge'[d].txn = bridge[d].txn => Kept("writer", d)
        /\ bridge'[d].writer # "send" /\ bridge[d].writer # "send" => Kept("writer", d)
    BY DEF Kept, Sending
  <1>4. /\ q'[d].items = q[d].items => Kept("queue", d)
        /\ toRouter'[d] = toRouter[d] => Kept("toRouter", d)
        /\ toClient'[d] = toClient[d] => Kept("toClient", d)
        /\ rr'[d] = rr[d] => Kept("rr", d)
        /\ rw'[d] = rw[d] => Kept("rw", d)
    BY DEF Kept
  <1> QED
    BY <1>1, <1>2, <1>3, <1>4

\* It suffices to follow what the acting client holds.
LEMMA FollowClient ==
    ASSUME Shape, NotLost, NEW c \in Clients, \A d \in Clients \ {c} : Same(d), rt' = rt,
           \A kind \in Kinds \ {"rt"} : Kept(kind, c) \/ \A k \in Nat : Follows(<<kind, c, k>>)
    PROVE  /\ \A m \in Masters : \A id \in Ids(m) : Found(m, id)'
           /\ txns' = txns => NotLost'
  <1>1. \A kind \in Kinds, d \in Clients : Kept(kind, d) \/ \A k \in Nat : Follows(<<kind, d, k>>)
    BY KeptFrames
  <1> QED
    BY <1>1, FollowStep

\* A thread or goroutine has one message in its hands.
LEMMA HandFollows ==
    ASSUME NEW kind \in {"writer", "rr", "rw", "rt"}, NEW c \in Clients, Follows(<<kind, c, 0>>)
    PROVE  \A k \in Nat : Follows(<<kind, c, k>>)
  <1> SUFFICES ASSUME NEW k \in Nat PROVE Follows(<<kind, c, k>>)
    OBVIOUS
  <1>1. CASE k = 0
    BY <1>1
  <1>2. CASE k # 0
    <2>1. Load(<<"writer", c, k>>) = NoMsg
      BY <1>2, Loads
    <2>2. Load(<<"rr", c, k>>) = NoMsg
      BY <1>2, Loads
    <2>3. Load(<<"rw", c, k>>) = NoMsg
      BY <1>2, Loads
    <2>4. Load(<<"rt", c, k>>) = NoMsg
      BY <1>2, Loads
    <2>5. Load(<<kind, c, k>>) = NoMsg
      BY <2>1, <2>2, <2>3, <2>4
    <2> QED
      BY <2>5, EmptyLoads
  <1> QED
    BY <1>1, <1>2

\* A queue whose first element is taken.
LEMMA TakeFollows ==
    ASSUME Shape, NEW c \in Clients, q[c].items # <<>>, q'[c].items = Tail(q[c].items),
           NEW k \in Nat \ {1}
    PROVE  Follows(<<"queue", c, k>>)
  <1>1. PICK s \in Seq(GoodEntry) : s = q[c].items
    BY DEF Shape, QueuesInv, IsQueue
  <1>2. Load(<<"queue", c, k>>) = ResponseAt(s, k)
    BY <1>1, Loads
  <1>3. CASE k = 0
    <2>1. 0 \notin DOMAIN s
      OBVIOUS
    <2>2. ResponseAt(s, k) = NoMsg
      BY <1>3, <2>1 DEF ResponseAt
    <2> QED
      BY <1>2, <2>2, EmptyLoads
  <1>4. CASE k # 0
    <2>1. PICK j \in Nat \ {0} : k = j + 1
      <3>1. k - 1 \in Nat \ {0} /\ k = (k - 1) + 1
        BY <1>4
      <3> QED
        BY <3>1
    <2>2. <<"queue", c, j>> \in Spots
      BY SpotFacts DEF Kinds
    <2>3. Load(<<"queue", c, j>>)' = ResponseAt(Tail(s), j)
      BY <1>1, Loads
    <2>4. ResponseAt(Tail(s), j) = ResponseAt(s, j + 1)
      BY <1>1, TailAt
    <2>5. Load(<<"queue", c, j>>)' = Load(<<"queue", c, k>>)
      BY <1>2, <2>1, <2>3, <2>4
    <2> QED
      BY <2>2, <2>5, MovedLoads
  <1> QED
    BY <1>3, <1>4

\* The steps that move no message, and the calls of an application.
LEMMA QuietKeeps ==
    ASSUME Shape, NotLost, NEW c \in Clients,
           \/ \E m \in masterMap(c) :
                (\E type \in ReqTypes, b \in Buffers : issue(m, type, b)) \/ terminate(m)
           \/ waitForCompletion(c) \/ disconnect(c)
           \/ writerWait(c) \/ spuriousWakeup(c) \/ writerStop(c) \/ readerNotify(c)
    PROVE  NotLost'
  <1>1. ASSUME NEW m \in masterMap(c),
               (\E type \in ReqTypes, b \in Buffers : issue(m, type, b)) \/ terminate(m)
        PROVE  NotLost'
    <2>1. \E e \in GoodEntry : Push(c, e)
      BY <1>1, IssueEffect, TerminateEffect
    <2>2. UNCHANGED <<bridge, txns, toRouter, toClient, rr, rw, rt>>
      BY <1>1, IssueEffect, TerminateEffect
    <2>3. \A d \in Clients, k \in Nat : Follows(<<"queue", d, k>>)
      BY <2>1, PushFollows
    <2>4. \A d \in Clients : /\ Kept("toRouter", d) /\ Kept("toClient", d) /\ Kept("writer", d)
                             /\ Kept("rr", d) /\ Kept("rw", d) /\ Kept("rt", d)
      BY <2>2, KeptFrames
    <2>5. \A kind \in Kinds, d \in Clients : Kept(kind, d) \/ \A k \in Nat : Follows(<<kind, d, k>>)
      BY <2>3, <2>4 DEF Kinds
    <2> QED
      BY <2>2, <2>5, FollowStep
  <1>2. ASSUME txns' = txns, rt' = rt, UNCHANGED <<toRouter, toClient, rr, rw>>,
               \A d \in Clients : q'[d].items = q[d].items /\ Kept("writer", d)
        PROVE  NotLost'
    <2>1. \A d \in Clients : /\ Kept("toRouter", d) /\ Kept("toClient", d) /\ Kept("queue", d)
                             /\ Kept("rr", d) /\ Kept("rw", d) /\ Kept("rt", d)
      BY <1>2, KeptFrames
    <2>2. \A kind \in Kinds, d \in Clients : Kept(kind, d)
      BY <1>2, <2>1 DEF Kinds
    <2> QED
      BY <1>2, <2>2, FollowStep
  <1>3. CASE waitForCompletion(c) \/ disconnect(c)
    <2>1. /\ \A d \in Clients \ {c} : Same(d)
          /\ SameRoute /\ UNCHANGED <<ops, terminated, q, txns, toRouter, toClient, rr, rw>>
          /\ bridge'[c].writer = bridge[c].writer /\ bridge'[c].txn = bridge[c].txn
      BY <1>3, JoinEffect
    <2>2. \A d \in Clients : q'[d].items = q[d].items /\ Kept("writer", d)
      BY <2>1, KeptFrames DEF Same
    <2> QED
      BY <1>2, <2>1, <2>2 DEF SameRoute
  <1>4. CASE writerWait(c) \/ spuriousWakeup(c)
    <2>1. /\ SameRoute /\ UNCHANGED <<ops, terminated, txns, bridge, toRouter, toClient, rr, rw>>
          /\ \A d \in Clients : q'[d].items = q[d].items
      BY <1>4, WaitEffect
    <2>2. \A d \in Clients : q'[d].items = q[d].items /\ Kept("writer", d)
      BY <2>1, KeptFrames DEF Same
    <2> QED
      BY <1>2, <2>1, <2>2 DEF SameRoute
  <1>5. CASE writerStop(c)
    <2>1. /\ \A d \in Clients \ {c} : Same(d)
          /\ SameRoute /\ UNCHANGED <<ops, terminated, txns, toRouter, toClient, rr, rw>>
          /\ q'[c].items = q[c].items
          /\ bridge[c].writer = "pop" /\ bridge'[c].writer = "logout"
      BY <1>5, StopEffect
    <2>2. \A d \in Clients : q'[d].items = q[d].items /\ Kept("writer", d)
      BY <2>1, KeptFrames DEF Same
    <2> QED
      BY <1>2, <2>1, <2>2 DEF SameRoute
  <1>6. CASE readerNotify(c)
    <2>1. /\ \A d \in Clients \ {c} : Same(d)
          /\ SameRoute /\ UNCHANGED <<ops, terminated, txns, toRouter, toClient, rr, rw>>
          /\ q'[c].items = q[c].items
          /\ bridge'[c].writer = bridge[c].writer /\ bridge'[c].txn = bridge[c].txn
      BY <1>6, NotifyEffect
    <2>2. \A d \in Clients : q'[d].items = q[d].items /\ Kept("writer", d)
      BY <2>1, KeptFrames DEF Same
    <2> QED
      BY <1>2, <2>1, <2>2 DEF SameRoute
  <1> QED
    BY <1>1, <1>3, <1>4, <1>5, <1>6

\* The writer takes a response from the queue and sends it, sends a request or
\* a termination, or logs out.
LEMMA WriterKeeps ==
    ASSUME Shape, NotLost, NEW c \in Clients, writerTake(c) \/ writerSend(c) \/ writerLogout(c)
    PROVE  NotLost'
  <1>1. ASSUME txns' = txns, SameRoute, UNCHANGED <<toClient, rr, rw>>, \A d \in Clients \ {c} : Same(d),
               Kept("queue", c) \/ \A k \in Nat : Follows(<<"queue", c, k>>),
               Kept("toRouter", c) \/ \A k \in Nat : Follows(<<"toRouter", c, k>>),
               Kept("writer", c) \/ \A k \in Nat : Follows(<<"writer", c, k>>)
        PROVE  NotLost'
    <2>1. Kept("toClient", c) /\ Kept("rr", c) /\ Kept("rw", c)
      BY <1>1, KeptFrames
    <2>2. \A kind \in Kinds \ {"rt"} : Kept(kind, c) \/ \A k \in Nat : Follows(<<kind, c, k>>)
      BY <1>1, <2>1 DEF Kinds
    <2>3. rt' = rt
      BY <1>1 DEF SameRoute
    <2> QED
      BY <1>1, <2>2, <2>3, FollowClient
  <1>2. CASE writerTake(c)
    <2>1. /\ \A d \in Clients \ {c} : Same(d)
          /\ SameRoute /\ UNCHANGED <<ops, terminated, txns, toRouter, toClient, rr, rw>>
          /\ q[c].items # <<>> /\ q[c].items \in Seq(GoodEntry) /\ Head(q[c].items) \in GoodEntry
          /\ q'[c].items = Tail(q[c].items)
          /\ bridge[c].writer = "pop" /\ bridge'[c].txn = Head(q[c].items)
          /\ bridge'[c].writer = IF IsRequest(Head(q[c].items).msg) THEN "register" ELSE "send"
      BY <1>2, TakeEffect
    <2>2. PICK h : h = Head(q[c].items)
      OBVIOUS
    <2>3. Kept("toRouter", c)
      BY <2>1, KeptFrames
    <2>4. \A k \in Nat : Follows(<<"writer", c, k>>)
      <3>1. Sending(bridge[c]) = NoMsg
        BY <2>1 DEF Sending
      <3>2. Load(<<"writer", c, 0>>) = NoMsg
        BY <3>1, Loads
      <3> QED
        BY <3>2, EmptyLoads, HandFollows
    <2>5. Follows(<<"queue", c, 1>>)
      <3>1. Load(<<"queue", c, 1>>) = ResponseAt(q[c].items, 1)
        BY Loads
      <3>2. ResponseAt(q[c].items, 1) = IF IsResponse(h.msg) THEN h.msg ELSE NoMsg
        BY <2>1, <2>2, TailAt
      <3>3. CASE IsResponse(h.msg)
        <4>1. ~IsRequest(h.msg)
          BY <3>3 DEF IsRequest, IsResponse, ReqTypes, RespTypes
        <4>2. Sending(bridge'[c]) = h.msg
          BY <2>1, <2>2, <4>1 DEF Sending
        <4>3. Load(<<"writer", c, 0>>)' = h.msg
          BY <4>2, Loads
        <4>4. <<"writer", c, 0>> \in Spots
          BY SpotFacts DEF Kinds
        <4>5. Load(<<"queue", c, 1>>) = h.msg
          BY <3>1, <3>2, <3>3
        <4> QED
          BY <4>3, <4>4, <4>5, MovedLoads
      <3>4. CASE ~IsResponse(h.msg)
        BY <3>1, <3>2, <3>4, EmptyLoads
      <3> QED
        BY <3>3, <3>4
    <2>6. \A k \in Nat : Follows(<<"queue", c, k>>)
      BY <2>1, <2>5, TakeFollows
    <2> QED
      BY <1>1, <2>1, <2>3, <2>4, <2>6
  <1>3. CASE writerSend(c) \/ writerLogout(c)
    <2>1. /\ \A d \in Clients \ {c} : Same(d)
          /\ SameRoute /\ UNCHANGED <<ops, terminated, q, txns, toClient, rr, rw>>
          /\ \/ /\ bridge[c].writer = "send" /\ bridge'[c].writer = "pop"
                /\ bridge[c].txn.msg \in GoodMsg
                /\ toRouter'[c] = Append(toRouter[c], bridge[c].txn.msg)
             \/ /\ bridge[c].writer = "logout" /\ bridge'[c].writer = "exited"
                /\ toRouter'[c] = Append(toRouter[c], DoneMsg)
      BY <1>3, SendEffect
    <2>2. Kept("queue", c)
      BY <2>1, KeptFrames
    <2>3. CASE bridge[c].writer = "send"
      <3>1. PICK msg \in GoodMsg : msg = bridge[c].txn.msg
        BY <2>1, <2>3
      <3>2. toRouter'[c] = Append(toRouter[c], msg)
        BY <2>1, <2>3, <3>1
      <3>3. (\A k \in Nat : Follows(<<"toRouter", c, k>>)) /\ \E w \in Spots : Load(w)' = msg
        BY <3>2, GrownLoads
      <3>4. Sending(bridge[c]) = msg
        BY <2>3, <3>1 DEF Sending
      <3>5. Load(<<"writer", c, 0>>) = msg
        BY <3>4, Loads
      <3>6. Follows(<<"writer", c, 0>>)
        BY <3>3, <3>5, MovedLoads
      <3>7. \A k \in Nat : Follows(<<"writer", c, k>>)
        BY <3>6, HandFollows
      <3> QED
        BY <1>1, <2>1, <2>2, <3>3, <3>7
    <2>4. CASE bridge[c].writer # "send"
      <3>1. toRouter'[c] = Append(toRouter[c], DoneMsg) /\ bridge'[c].writer # "send"
        BY <2>1, <2>4
      <3>2. DoneMsg \in GoodMsg
        BY GoodMsgFacts
      <3>3. \A k \in Nat : Follows(<<"toRouter", c, k>>)
        BY <3>1, <3>2, GrownLoads
      <3>4. Kept("writer", c)
        BY <2>4, <3>1, KeptFrames
      <3> QED
        BY <1>1, <2>1, <2>2, <3>3, <3>4
    <2> QED
      BY <2>3, <2>4
  <1> QED
    BY <1>2, <1>3

\* The request that enters txns is in the hands of the writer.
LEMMA RegisterKeeps ==
    ASSUME Shape, NotLost, NEW c \in Clients, writerRegister(c)
    PROVE  NotLost'
  <1>1. \E t \in Transaction, m \in Masters, new \in Nat :
          /\ bridge[c].txn \in GoodEntry /\ IsRequest(bridge[c].txn.msg)
          /\ t = bridge[c].txn.msg.txn /\ m = t.initiator /\ new = lastTxnId[m]
          /\ bridge[c].writer = "register" /\ bridge'[c].writer = "send"
          /\ bridge'[c].txn.msg = TxnMsg([t EXCEPT !.id = new])
          /\ \A i \in Masters \ {m} : txns'[i] = txns[i]
          /\ txns'[m] = txns[m] \cup {[id |-> new, op |-> bridge[c].txn.op]}
          /\ \A d \in Clients \ {c} : Same(d)
          /\ SameRoute /\ UNCHANGED <<ops, terminated, q, toRouter, toClient, rr, rw>>
          /\ bridge'[c].reader = bridge[c].reader /\ bridge'[c].readerStatus = bridge[c].readerStatus
          /\ bridge'[c].state = bridge[c].state /\ bridge'[c].writerStatus = bridge[c].writerStatus
          /\ bridge'[c].app = bridge[c].app
    BY RegisterEffect, Zenon
  <1>2. PICK t \in Transaction, m \in Masters, new \in Nat :
          /\ bridge[c].writer = "register" /\ bridge'[c].writer = "send"
          /\ bridge'[c].txn.msg = TxnMsg([t EXCEPT !.id = new]) /\ m = t.initiator
          /\ \A i \in Masters \ {m} : txns'[i] = txns[i]
          /\ txns'[m] = txns[m] \cup {[id |-> new, op |-> bridge[c].txn.op]}
          /\ \A d \in Clients \ {c} : Same(d)
          /\ SameRoute /\ UNCHANGED <<ops, terminated, q, toRouter, toClient, rr, rw>>
    BY <1>1, Zenon
  <1>3. /\ Kept("queue", c) /\ Kept("toRouter", c) /\ Kept("toClient", c)
        /\ Kept("rr", c) /\ Kept("rw", c) /\ rt' = rt
    BY <1>2, KeptFrames DEF SameRoute
  <1>4. \A k \in Nat : Follows(<<"writer", c, k>>)
    <2>1. Sending(bridge[c]) = NoMsg
      BY <1>2 DEF Sending
    <2>2. Load(<<"writer", c, 0>>) = NoMsg
      BY <2>1, Loads
    <2> QED
      BY <2>2, EmptyLoads, HandFollows
  <1>5. \A kind \in Kinds \ {"rt"} : Kept(kind, c) \/ \A k \in Nat : Follows(<<kind, c, k>>)
    BY <1>3, <1>4 DEF Kinds
  <1>6. \A i \in Masters : \A id \in Ids(i) : Found(i, id)'
    BY <1>2, <1>3, <1>5, FollowClient
  <1>7. Found(m, new)'
    <2>1. PICK u \in Transaction : u = [t EXCEPT !.id = new] /\ u.initiator = m /\ u.id = new
      <3>1. [t EXCEPT !.id = new] \in Transaction
        BY DEF Transaction
      <3>2. [t EXCEPT !.id = new].initiator = m /\ [t EXCEPT !.id = new].id = new
        BY <1>2 DEF Transaction
      <3> QED
        BY <3>1, <3>2
    <2>2. Sending(bridge'[c]) = TxnMsg(u)
      BY <1>2, <2>1 DEF Sending
    <2>3. Load(<<"writer", c, 0>>)' = TxnMsg(u)
      BY <2>2, Loads
    <2>4. Carries(TxnMsg(u), m, new)
      BY <2>1, MessageFacts DEF Carries
    <2>5. Carries(Load(<<"writer", c, 0>>)', m, new) /\ <<"writer", c, 0>> \in Spots
      BY <2>3, <2>4, SpotFacts DEF Kinds
    <2>6. Spots' = Spots /\ Carries(Load(<<"writer", c, 0>>), m, new)'
      BY <2>5 DEF Spots, Kinds, Clients, Carries
    <2> QED
      BY <2>5, <2>6 DEF Found
  <1>8. ASSUME NEW i \in Masters, NEW id \in Ids(i)' PROVE Found(i, id)'
    <2>1. id \in Ids(i) \/ (i = m /\ id = new)
      BY <1>2, <1>8 DEF Ids
    <2> QED
      BY <1>6, <1>7, <2>1
  <1> QED
    BY <1>8 DEF NotLost, Masters

\* The reader takes DONE, or turns a request into a response.
LEMMA ReaderKeeps ==
    ASSUME Shape, NotLost, NEW c \in Clients, receiveDone(c) \/ receiveRequest(c)
    PROVE  NotLost'
  <1>1. ASSUME txns' = txns, SameRoute, UNCHANGED <<toRouter, rr, rw>>, \A d \in Clients \ {c} : Same(d),
               toClient[c] # <<>>, toClient'[c] = Tail(toClient[c]), Kept("writer", c),
               Kept("queue", c) \/ \A k \in Nat : Follows(<<"queue", c, k>>),
               Follows(<<"toClient", c, 1>>)
        PROVE  NotLost'
    <2>1. Kept("toRouter", c) /\ Kept("rr", c) /\ Kept("rw", c) /\ rt' = rt
      BY <1>1, KeptFrames DEF SameRoute
    <2>2. \A k \in Nat \ {1} : Follows(<<"toClient", c, k>>)
      BY <1>1, ReadFollows
    <2>3. \A k \in Nat : Follows(<<"toClient", c, k>>)
      BY <1>1, <2>2
    <2>4. \A kind \in Kinds \ {"rt"} : Kept(kind, c) \/ \A k \in Nat : Follows(<<kind, c, k>>)
      BY <1>1, <2>1, <2>3 DEF Kinds
    <2> QED
      BY <1>1, <2>1, <2>4, FollowClient
  <1>2. CASE receiveDone(c)
    <2>1. /\ \A d \in Clients \ {c} : Same(d)
          /\ SameRoute /\ UNCHANGED <<ops, terminated, txns, toRouter, rr, rw>>
          /\ toClient[c] # <<>> /\ toClient'[c] = Tail(toClient[c])
          /\ q'[c].items = q[c].items /\ Head(toClient[c]).type = "DONE"
          /\ bridge'[c].writer = bridge[c].writer /\ bridge'[c].txn = bridge[c].txn
      BY <1>2, EndEffect
    <2>2. Kept("queue", c) /\ Kept("writer", c)
      BY <2>1, KeptFrames
    <2>3. Load(<<"toClient", c, 1>>) = Head(toClient[c])
      BY <2>1, ReadLoads
    <2>4. Follows(<<"toClient", c, 1>>)
      BY <2>1, <2>3, PlainLoads
    <2> QED
      BY <1>1, <2>1, <2>2, <2>4
  <1>3. CASE receiveRequest(c)
    <2>1. \E h \in GoodMsg, e \in GoodEntry :
             /\ h = Head(toClient[c]) /\ IsRequest(h) /\ IsResponse(e.msg) /\ Push(c, e)
             /\ e.msg.txn.initiator = h.txn.initiator /\ e.msg.txn.id = h.txn.id
             /\ SameRoute /\ UNCHANGED <<ops, terminated, bridge, txns, toRouter, rr, rw>>
             /\ toClient[c] # <<>> /\ toClient[c] \in Seq(GoodMsg)
             /\ toClient'[c] = Tail(toClient[c]) /\ bridge[c].reader = "receive"
             /\ \A d \in Clients \ {c} : Same(d)
      BY <1>3, RequestEffect, Zenon
    <2>2. PICK h \in GoodMsg, e \in GoodEntry :
             /\ h = Head(toClient[c]) /\ IsRequest(h) /\ IsResponse(e.msg) /\ Push(c, e)
             /\ e.msg.txn.initiator = h.txn.initiator /\ e.msg.txn.id = h.txn.id
             /\ SameRoute /\ UNCHANGED <<ops, terminated, bridge, txns, toRouter, rr, rw>>
             /\ toClient[c] # <<>> /\ toClient'[c] = Tail(toClient[c])
             /\ \A d \in Clients \ {c} : Same(d)
      BY <2>1, Zenon
    <2>3. Kept("writer", c)
      BY <2>2, KeptFrames
    <2>4. /\ \A k \in Nat : Follows(<<"queue", c, k>>)
          /\ \E w \in Spots : Load(w)' = e.msg
      BY <2>2, PushFollows
    <2>5. PICK w \in Spots : Load(w)' = e.msg
      BY <2>4
    <2>6. Load(<<"toClient", c, 1>>) = h
      BY <2>2, ReadLoads
    <2>7. \A m \in Masters, id \in Nat : Carries(h, m, id) => Carries(Load(w)', m, id)
      BY <2>2, <2>5 DEF Carries, IsResponse
    <2>8. Follows(<<"toClient", c, 1>>)
      BY <2>5, <2>6, <2>7, MovedLoads
    <2> QED
      BY <1>1, <2>2, <2>3, <2>4, <2>8
  <1> QED
    BY <1>2, <1>3

\* The promise that is fulfilled leaves txns, and the others keep theirs.
LEMMA AnswerKeeps ==
    ASSUME Shape, PendingInv, NotLost, NEW c \in Clients, receiveResponse(c)
    PROVE  NotLost'
  <1>1. \E h \in GoodMsg, m \in masterMap(c) : \E e \in txns[m] :
             /\ h = Head(toClient[c]) /\ IsResponse(h) /\ m = h.txn.initiator /\ e.id = h.txn.id
             /\ \A d \in Clients \ {c} : Same(d)
             /\ SameRoute /\ UNCHANGED <<terminated, q, bridge, toRouter, rr, rw>>
             /\ toClient[c] # <<>> /\ toClient[c] \in Seq(GoodMsg)
             /\ toClient'[c] = Tail(toClient[c]) /\ bridge[c].reader = "receive"
             /\ txns'[m] = txns[m] \ {e}
             /\ \A i \in Masters \ {m} : txns'[i] = txns[i]
             /\ \A d \in Clients \ {c} : ops'[d] = ops[d]
             /\ DOMAIN ops'[c] = DOMAIN ops[c]
             /\ \A i \in DOMAIN ops[c] : i # e.op => ops'[c][i] = ops[c][i]
    BY AnswerEffect, Zenon
  <1>2. PICK h \in GoodMsg, m \in masterMap(c) : \E e \in txns[m] :
             /\ h = Head(toClient[c]) /\ m = h.txn.initiator /\ e.id = h.txn.id
             /\ \A d \in Clients \ {c} : Same(d)
             /\ SameRoute /\ UNCHANGED <<terminated, q, bridge, toRouter, rr, rw>>
             /\ toClient[c] # <<>> /\ toClient'[c] = Tail(toClient[c])
             /\ txns'[m] = txns[m] \ {e}
             /\ \A i \in Masters \ {m} : txns'[i] = txns[i]
    BY <1>1, Zenon
  <1>3. PICK e \in txns[m] :
             /\ h = Head(toClient[c]) /\ m = h.txn.initiator /\ e.id = h.txn.id
             /\ \A d \in Clients \ {c} : Same(d)
             /\ SameRoute /\ UNCHANGED <<terminated, q, bridge, toRouter, rr, rw>>
             /\ toClient[c] # <<>> /\ toClient'[c] = Tail(toClient[c])
             /\ txns'[m] = txns[m] \ {e}
             /\ \A i \in Masters \ {m} : txns'[i] = txns[i]
    BY <1>2, Zenon
  <1>4. m \in Masters /\ rt' = rt
    BY <1>3, Owners DEF SameRoute
  <1>5. /\ Kept("queue", c) /\ Kept("toRouter", c) /\ Kept("writer", c)
        /\ Kept("rr", c) /\ Kept("rw", c)
    BY <1>3, KeptFrames
  <1>6. \A k \in Nat \ {1} : Follows(<<"toClient", c, k>>)
    BY <1>3, ReadFollows
  <1>7. Load(<<"toClient", c, 1>>) = h
    BY <1>3, ReadLoads
  <1>8. \A w \in Spots : w # <<"toClient", c, 1>> => Follows(w)
    <2> SUFFICES ASSUME NEW w \in Spots, w # <<"toClient", c, 1>> PROVE Follows(w)
      OBVIOUS
    <2>1. PICK kind \in Kinds, d \in Clients, k \in Nat : w = <<kind, d, k>>
      BY SpotFacts
    <2>2. CASE d # c
      <3>1. Kept(kind, d)
        BY <1>3, <1>4, <2>2, KeptFrames
      <3> QED
        BY <2>1, <3>1, KeptLoads
    <2>3. CASE d = c /\ kind = "rt"
      <3>1. Kept("rt", c)
        BY <1>4, KeptFrames
      <3> QED
        BY <2>1, <2>3, <3>1, KeptLoads
    <2>4. CASE d = c /\ kind = "toClient"
      BY <1>6, <2>1, <2>4
    <2>5. CASE d = c /\ kind \notin {"rt", "toClient"}
      <3>1. Kept(kind, c)
        BY <1>5, <2>5 DEF Kinds
      <3> QED
        BY <2>1, <2>5, <3>1, KeptLoads
    <2> QED
      BY <2>2, <2>3, <2>4, <2>5
  <1>9. ASSUME NEW i \in Masters, NEW id \in Ids(i)' PROVE Found(i, id)'
    <2>1. id \in Ids(i) /\ ~(i = m /\ id = e.id)
      <3>1. CASE i # m
        BY <1>3, <1>9, <3>1 DEF Ids
      <3>2. CASE i = m
        <4>1. PICK x \in txns[m] : x # e /\ x.id = id
          BY <1>3, <1>9, <3>2 DEF Ids
        <4>2. x.id # e.id
          BY <4>1 DEF PendingInv, TxnWaits
        <4> QED
          BY <3>2, <4>1, <4>2 DEF Ids
      <3> QED
        BY <3>1, <3>2
    <2>2. id \in Nat
      BY <2>1 DEF Ids, Shape, TablesInv
    <2>3. PICK w \in Spots : Carries(Load(w), i, id)
      BY <2>1 DEF NotLost, Found
    <2>4. w # <<"toClient", c, 1>>
      BY <1>3, <1>7, <2>1, <2>3 DEF Carries
    <2>5. PICK v \in Spots : Carries(Load(v)', i, id)
      BY <1>8, <2>2, <2>3, <2>4 DEF Follows
    <2>6. Spots' = Spots /\ Carries(Load(v), i, id)'
      BY <2>5 DEF Spots, Kinds, Clients, Carries
    <2> QED
      BY <2>6 DEF Found
  <1> QED
    BY <1>9 DEF NotLost, Masters

\* client.reader and client.writer hand on what they read and receive.
LEMMA ClientGoroutinesKeep ==
    ASSUME Shape, HandsInv, NotLost, NEW c \in Clients, clientRead(c) \/ clientWrite(c)
    PROVE  NotLost'
  <1>1. CASE clientRead(c)
    <2>1. /\ \A d \in Clients \ {c} : Same(d)
          /\ SameRoute /\ UNCHANGED <<ops, terminated, txns, q, bridge, toClient, rw>>
          /\ rr[c].pc = "read" /\ toRouter[c] # <<>> /\ toRouter'[c] = Tail(toRouter[c])
          /\ Head(toRouter[c]).type # "DONE" => rr'[c].msg = Head(toRouter[c])
      BY <1>1, ReadEffect
    <2>2. /\ Kept("queue", c) /\ Kept("toClient", c) /\ Kept("writer", c) /\ Kept("rw", c)
          /\ rt' = rt
      BY <2>1, KeptFrames DEF SameRoute
    <2>3. \A k \in Nat : Follows(<<"rr", c, k>>)
      <3>1. rr[c].msg = NoMsg
        BY <2>1 DEF HandsInv, Hands
      <3>2. Load(<<"rr", c, 0>>) = NoMsg
        BY <3>1, Loads
      <3> QED
        BY <3>2, EmptyLoads, HandFollows
    <2>4. Load(<<"toRouter", c, 1>>) = Head(toRouter[c])
      BY <2>1, ReadLoads
    <2>5. Follows(<<"toRouter", c, 1>>)
      <3>1. CASE Head(toRouter[c]).type = "DONE"
        BY <2>4, <3>1, PlainLoads
      <3>2. CASE Head(toRouter[c]).type # "DONE"
        <4>1. Load(<<"rr", c, 0>>)' = rr'[c].msg
          BY Loads
        <4>2. Load(<<"rr", c, 0>>)' = Head(toRouter[c])
          BY <2>1, <3>2, <4>1
        <4>3. <<"rr", c, 0>> \in Spots
          BY SpotFacts DEF Kinds
        <4> QED
          BY <2>4, <4>2, <4>3, MovedLoads
      <3> QED
        BY <3>1, <3>2
    <2>6. \A k \in Nat \ {1} : Follows(<<"toRouter", c, k>>)
      BY <2>1, ReadFollows
    <2>7. \A k \in Nat : Follows(<<"toRouter", c, k>>)
      BY <2>5, <2>6
    <2>8. \A kind \in Kinds \ {"rt"} : Kept(kind, c) \/ \A k \in Nat : Follows(<<kind, c, k>>)
      BY <2>2, <2>3, <2>7 DEF Kinds
    <2> QED
      BY <2>1, <2>2, <2>8, FollowClient
  <1>2. CASE clientWrite(c)
    <2>1. /\ \A d \in Clients \ {c} : Same(d)
          /\ SameRoute /\ UNCHANGED <<ops, terminated, txns, q, bridge, toRouter, rr>>
          /\ rw[c].msg \in GoodMsg /\ toClient'[c] = Append(toClient[c], rw[c].msg)
      BY <1>2, WriteEffect
    <2>2. /\ Kept("queue", c) /\ Kept("toRouter", c) /\ Kept("writer", c) /\ Kept("rr", c)
          /\ rt' = rt
      BY <2>1, KeptFrames DEF SameRoute
    <2>3. PICK msg \in GoodMsg : msg = rw[c].msg
      BY <2>1
    <2>4. toClient'[c] = Append(toClient[c], msg)
      BY <2>1, <2>3
    <2>5. (\A k \in Nat : Follows(<<"toClient", c, k>>)) /\ \E w \in Spots : Load(w)' = msg
      BY <2>4, GrownLoads
    <2>6. Load(<<"rw", c, 0>>) = msg
      BY <2>3, Loads
    <2>7. Follows(<<"rw", c, 0>>)
      BY <2>5, <2>6, MovedLoads
    <2>8. \A k \in Nat : Follows(<<"rw", c, k>>)
      BY <2>7, HandFollows
    <2>9. \A kind \in Kinds \ {"rt"} : Kept(kind, c) \/ \A k \in Nat : Follows(<<kind, c, k>>)
      BY <2>2, <2>5, <2>8 DEF Kinds
    <2> QED
      BY <2>1, <2>2, <2>9, FollowClient
  <1> QED
    BY <1>1, <1>2

\* It suffices to follow what a goroutine of client c and route hold.
LEMMA FollowRoute ==
    ASSUME Shape, NotLost, NEW c \in Clients, \A d \in Clients \ {c} : Same(d),
           UNCHANGED <<txns, q, bridge, toRouter, toClient>>,
           Kept("rr", c) \/ Follows(<<"rr", c, 0>>), Kept("rw", c) \/ Follows(<<"rw", c, 0>>),
           Follows(<<"rt", 0, 0>>)
    PROVE  NotLost'
  <1>1. Kept("queue", c) /\ Kept("toRouter", c) /\ Kept("toClient", c) /\ Kept("writer", c)
    BY KeptFrames
  <1>2. Kept("rr", c) \/ \A k \in Nat : Follows(<<"rr", c, k>>)
    BY HandFollows
  <1>3. Kept("rw", c) \/ \A k \in Nat : Follows(<<"rw", c, k>>)
    BY HandFollows
  <1>4. 0 \in Clients
    BY NumClientsAssumption DEF Clients
  <1>5. \A k \in Nat : Follows(<<"rt", 0, k>>)
    BY <1>4, HandFollows
  <1>6. \A d \in Clients : Kept("rt", d) \/ \A k \in Nat : Follows(<<"rt", d, k>>)
    BY <1>5, KeptFrames
  <1>7. \A kind \in Kinds \ {"rt"} : Kept(kind, c) \/ \A k \in Nat : Follows(<<kind, c, k>>)
    BY <1>1, <1>2, <1>3 DEF Kinds
  <1>8. \A kind \in Kinds \ {"rt"} : \A d \in Clients \ {c} : Kept(kind, d)
    BY KeptFrames
  <1>9. \A kind \in Kinds, d \in Clients : Kept(kind, d) \/ \A k \in Nat : Follows(<<kind, d, k>>)
    BY <1>6, <1>7, <1>8
  <1> QED
    BY <1>9, FollowStep

\* route hands on the transactions it receives, and drops only terminations.
LEMMA RouteKeeps ==
    ASSUME Shape, HandsInv, NotLost, NEW c \in Clients,
           routeLastTerminate(c) \/ routeResponse(c) \/ routeRequest(c)
    PROVE  NotLost'
  <1>1. /\ \A d \in Clients \ {c} : Same(d)
        /\ UNCHANGED <<ops, terminated, txns, q, bridge, toRouter, toClient, rw>>
        /\ rt.pc = "receive" /\ rr[c].msg \in GoodMsg
        /\ \/ rr[c].msg.type = "TERMINATE"
           \/ routeTerminate(c)
           \/ \E msg \in GoodMsg : /\ rt' = [pc |-> "send", msg |-> msg, client |-> 0]
                                   /\ msg.type = "TRANSACTION"
                                   /\ msg.txn.initiator = rr[c].msg.txn.initiator
                                   /\ msg.txn.id = rr[c].msg.txn.id
    BY RouteEffect
  <1>2. Kept("rw", c) /\ 0 \in Clients
    BY <1>1, KeptFrames, NumClientsAssumption DEF Clients
  <1>3. Follows(<<"rt", 0, 0>>)
    <2>1. rt.msg \in {NoMsg, DoneMsg}
      BY <1>1 DEF HandsInv
    <2>2. Load(<<"rt", 0, 0>>) = rt.msg
      BY <1>2, Loads
    <2> QED
      BY <2>1, <2>2, EmptyLoads
  <1>4. Load(<<"rr", c, 0>>) = rr[c].msg
    BY Loads
  <1>5. CASE rr[c].msg.type = "TERMINATE"
    <2>1. Follows(<<"rr", c, 0>>)
      BY <1>4, <1>5, PlainLoads
    <2> QED
      BY <1>1, <1>2, <1>3, <2>1, FollowRoute
  <1>6. ASSUME NEW msg \in GoodMsg, rt' = [pc |-> "send", msg |-> msg, client |-> 0],
               msg.type = "TRANSACTION", msg.txn.initiator = rr[c].msg.txn.initiator,
               msg.txn.id = rr[c].msg.txn.id
        PROVE  NotLost'
    <2>1. rt'.msg = msg
      BY <1>6
    <2>2. Load(<<"rt", 0, 0>>)' = rt'.msg
      BY <1>2, Loads
    <2>3. <<"rt", 0, 0>> \in Spots
      BY <1>2, SpotFacts DEF Kinds
    <2>4. \A m \in Masters, id \in Nat :
            Carries(rr[c].msg, m, id) => Carries(Load(<<"rt", 0, 0>>)', m, id)
      BY <1>6, <2>1, <2>2 DEF Carries
    <2>5. Follows(<<"rr", c, 0>>)
      BY <1>4, <2>3, <2>4, MovedLoads
    <2> QED
      BY <1>1, <1>2, <1>3, <2>5, FollowRoute
  <1>7. CASE routeTerminate(c)
    <2>1. rr[c].msg.type = "TERMINATE"
      BY <1>7 DEF routeTerminate
    <2> QED
      BY <1>5, <2>1
  <1> QED
    BY <1>1, <1>5, <1>6, <1>7

\* route hands a message to the writer of a client.
LEMMA HandOverKeeps ==
    ASSUME Shape, HandsInv, NotLost, routeSend \/ sendDone
    PROVE  NotLost'
  <1>1. \E c \in Clients :
             /\ c = rt.client /\ \A d \in Clients \ {c} : Same(d)
             /\ UNCHANGED <<ops, terminated, txns, q, bridge, toRouter, toClient, rr, masterCount, up>>
             /\ up = "running" /\ rw[c].pc = "receive" /\ rw'[c].pc = "write"
             /\ \/ /\ routeSend /\ rt.pc = "send" /\ rw'[c].msg = rt.msg
                   /\ rt'.pc = "receive" /\ rt'.msg = NoMsg
                \/ /\ sendDone /\ rt.pc = "sendDone" /\ rw'[c].msg = DoneMsg
                   /\ rt'.pc \in {"sendDone", "exited"} /\ rt'.msg \in {rt.msg, NoMsg}
    BY HandOverEffect, Zenon
  <1>2. PICK c \in Clients :
             /\ \A d \in Clients \ {c} : Same(d)
             /\ UNCHANGED <<ops, terminated, txns, q, bridge, toRouter, toClient, rr, masterCount, up>>
             /\ rw[c].pc = "receive"
             /\ (rt.pc = "send" /\ rw'[c].msg = rt.msg) \/ rt.pc = "sendDone"
    BY <1>1, Zenon
  <1>3. Kept("rr", c) /\ 0 \in Clients
    BY <1>2, KeptFrames, NumClientsAssumption DEF Clients
  <1>4. Follows(<<"rw", c, 0>>)
    <2>1. rw[c].msg = NoMsg
      BY <1>2 DEF HandsInv, Hands
    <2>2. Load(<<"rw", c, 0>>) = NoMsg
      BY <2>1, Loads
    <2> QED
      BY <2>2, EmptyLoads
  <1>5. Load(<<"rt", 0, 0>>) = rt.msg
    BY <1>3, Loads
  <1>6. Follows(<<"rt", 0, 0>>)
    <2>1. CASE rt.pc = "sendDone"
      <3>1. rt.msg \in {NoMsg, DoneMsg}
        BY <2>1 DEF HandsInv
      <3> QED
        BY <1>5, <3>1, EmptyLoads
    <2>2. CASE rw'[c].msg = rt.msg
      <3>1. Load(<<"rw", c, 0>>)' = rw'[c].msg
        BY Loads
      <3>2. <<"rw", c, 0>> \in Spots /\ Load(<<"rw", c, 0>>)' = rt.msg
        BY <2>2, <3>1, SpotFacts DEF Kinds
      <3> QED
        BY <1>5, <3>2, MovedLoads
    <2> QED
      BY <1>2, <2>1, <2>2
  <1> QED
    BY <1>2, <1>3, <1>4, <1>6, FollowRoute

\* No step of the system loses a transaction.
LEMMA NextNotLost ==
    ASSUME Shape, PendingInv, HandsInv, NotLost, (\E c \in Clients : ClientStep(c)) \/ RouterStep
    PROVE  NotLost'
  <1>1. ASSUME NEW c \in Clients, ClientStep(c) PROVE NotLost'
    <2>1. CASE \/ \E m \in masterMap(c) :
                    (\E type \in ReqTypes, b \in Buffers : issue(m, type, b)) \/ terminate(m)
               \/ waitForCompletion(c) \/ disconnect(c)
               \/ writerWait(c) \/ spuriousWakeup(c) \/ writerStop(c) \/ readerNotify(c)
      BY <2>1, QuietKeeps
    <2>2. CASE writerTake(c) \/ writerSend(c) \/ writerLogout(c)
      BY <2>2, WriterKeeps
    <2>3. CASE writerRegister(c)
      BY <2>3, RegisterKeeps
    <2>4. CASE receiveDone(c) \/ receiveRequest(c)
      BY <2>4, ReaderKeeps
    <2>5. CASE receiveResponse(c)
      BY <2>5, AnswerKeeps
    <2>6. CASE clientRead(c) \/ clientWrite(c)
      BY <2>6, ClientGoroutinesKeep
    <2>7. CASE routeLastTerminate(c) \/ routeResponse(c) \/ routeRequest(c)
      BY <2>7, RouteKeeps
    <2> QED
      BY <1>1, <2>1, <2>2, <2>3, <2>4, <2>5, <2>6, <2>7 DEF ClientStep
  <1>2. CASE routeSend \/ sendDone
    BY <1>2, HandOverKeeps
  <1>3. CASE routerExit \/ UNCHANGED vars
    <2>1. UNCHANGED <<txns, q, bridge, toRouter, toClient, rr, rw, rt>>
      BY <1>3, RestEffect
    <2>2. \A kind \in Kinds, d \in Clients : Kept(kind, d)
      BY <2>1 DEF Kept
    <2> QED
      BY <2>1, <2>2, FollowStep
  <1> QED
    BY <1>1, <1>2, <1>3 DEF RouterStep

\* Each spot with a transaction is one of its places.
LEMMA SpotsArePlaces ==
    ASSUME Shape, NEW m \in Masters, NEW id \in Nat, NEW w \in Spots, Carries(Load(w), m, id)
    PROVE  w \in Places(m, id)
  <1>1. PICK kind \in Kinds, c \in Clients, k \in Nat : w = <<kind, c, k>>
    BY SpotFacts
  <1>2. ~Carries(NoMsg, m, id)
    BY MessageFacts DEF Carries
  <1>3. Carries(Load(<<kind, c, k>>), m, id)
    BY <1>1
  <1>4. PlacesAt(c, m, id) \subseteq Places(m, id)
    BY DEF Places
  <1>5. CASE kind = "queue"
    <2>1. Load(<<"queue", c, k>>) = ResponseAt(q[c].items, k)
      BY Loads
    <2>2. /\ k \in DOMAIN q[c].items /\ IsResponse(q[c].items[k].msg)
          /\ Carries(q[c].items[k].msg, m, id)
      BY <1>2, <1>3, <1>5, <2>1 DEF ResponseAt
    <2>3. <<"queue", c, k>> \in PlacesAt(c, m, id)
      BY <2>2 DEF PlacesAt
    <2> QED
      BY <1>1, <1>4, <1>5, <2>3
  <1>6. CASE kind = "toRouter"
    <2>1. Load(<<"toRouter", c, k>>) = At(toRouter[c], k)
      BY Loads
    <2>2. k \in DOMAIN toRouter[c] /\ Carries(toRouter[c][k], m, id)
      BY <1>2, <1>3, <1>6, <2>1 DEF At
    <2>3. <<"toRouter", c, k>> \in PlacesAt(c, m, id)
      BY <2>2 DEF PlacesAt
    <2> QED
      BY <1>1, <1>4, <1>6, <2>3
  <1>7. CASE kind = "toClient"
    <2>1. Load(<<"toClient", c, k>>) = At(toClient[c], k)
      BY Loads
    <2>2. k \in DOMAIN toClient[c] /\ Carries(toClient[c][k], m, id)
      BY <1>2, <1>3, <1>7, <2>1 DEF At
    <2>3. <<"toClient", c, k>> \in PlacesAt(c, m, id)
      BY <2>2 DEF PlacesAt
    <2> QED
      BY <1>1, <1>4, <1>7, <2>3
  <1>8. CASE kind = "writer"
    <2>1. Load(<<"writer", c, k>>) = IF k = 0 THEN Sending(bridge[c]) ELSE NoMsg
      BY Loads
    <2>2. k = 0 /\ bridge[c].writer = "send" /\ Carries(bridge[c].txn.msg, m, id)
      BY <1>2, <1>3, <1>8, <2>1 DEF Sending
    <2>3. <<"writer", c, 0>> \in PlacesAt(c, m, id)
      BY <2>2 DEF PlacesAt
    <2> QED
      BY <1>1, <1>4, <1>8, <2>2, <2>3
  <1>9. CASE kind = "rr"
    <2>1. Load(<<"rr", c, k>>) = IF k = 0 THEN rr[c].msg ELSE NoMsg
      BY Loads
    <2>2. k = 0 /\ Carries(rr[c].msg, m, id)
      BY <1>2, <1>3, <1>9, <2>1
    <2>3. <<"rr", c, 0>> \in PlacesAt(c, m, id)
      BY <2>2 DEF PlacesAt
    <2> QED
      BY <1>1, <1>4, <1>9, <2>2, <2>3
  <1>10. CASE kind = "rw"
    <2>1. Load(<<"rw", c, k>>) = IF k = 0 THEN rw[c].msg ELSE NoMsg
      BY Loads
    <2>2. k = 0 /\ Carries(rw[c].msg, m, id)
      BY <1>2, <1>3, <1>10, <2>1
    <2>3. <<"rw", c, 0>> \in PlacesAt(c, m, id)
      BY <2>2 DEF PlacesAt
    <2> QED
      BY <1>1, <1>4, <1>10, <2>2, <2>3
  <1>11. CASE kind = "rt"
    <2>1. Load(<<"rt", c, k>>) = IF k = 0 /\ c = 0 THEN rt.msg ELSE NoMsg
      BY Loads
    <2>2. k = 0 /\ c = 0 /\ Carries(rt.msg, m, id)
      BY <1>2, <1>3, <1>11, <2>1
    <2>3. <<"rt", 0, 0>> \in Places(m, id)
      BY <2>2 DEF Places
    <2> QED
      BY <1>1, <1>11, <2>2, <2>3
  <1> QED
    BY <1>5, <1>6, <1>7, <1>8, <1>9, <1>10, <1>11 DEF Kinds

\* In the system of test 02 a request is neither lost nor doubled between the
\* writer that registers it and the reader that fulfils its promise: it, or its
\* response, is in exactly one queue, socket, thread or goroutine as long as the
\* promise waits in txns, and in none afterwards.
THEOREM NothingIsLost ==
    ASSUME OneMaster
    PROVE  Spec => []EveryRequestOnce
  <1>1. Init => CalmInv /\ NotLost
    <2>1. Init => NotLost
      BY DEF Init, NotLost, Ids
    <2> QED
      BY <2>1, InitCalm
  <1>2. ASSUME CalmInv, NotLost, [Next]_vars PROVE (CalmInv /\ NotLost)'
    <2>1. CalmInv' /\ ((\E c \in Clients : ClientStep(c)) \/ RouterStep)
      BY <1>2, NextCalm
    <2>2. Shape /\ PendingInv /\ HandsInv
      BY <1>2 DEF CalmInv
    <2>3. NotLost'
      BY <1>2, <2>1, <2>2, NextNotLost
    <2> QED
      BY <2>1, <2>3
  <1>3. ASSUME CalmInv, NotLost PROVE EveryRequestOnce
    <2> SUFFICES ASSUME NEW m \in Masters, NEW id \in 0 .. lastTxnId[m] - 1
                 PROVE  Cardinality(Places(m, id)) = IF id \in Ids(m) THEN 1 ELSE 0
      BY DEF EveryRequestOnce
    <2>1. Shape /\ PlacesInv
      BY <1>3 DEF CalmInv
    <2>2. id \in Nat
      BY <2>1 DEF Shape, TablesInv
    <2>3. \A w \in Places(m, id) : w \in Spots /\ Carries(Load(w), m, id)
      BY <2>1, <2>2, PlacesAreSpots
    <2>4. CASE id \in Ids(m)
      <3>1. PICK w \in Spots : Carries(Load(w), m, id)
        BY <1>3, <2>4 DEF NotLost, Found
      <3>2. w \in Places(m, id)
        BY <2>1, <2>2, <3>1, SpotsArePlaces
      <3>3. \A v \in Places(m, id) : v = w
        BY <2>1, <2>2, <2>3, <3>1 DEF PlacesInv, Apart
      <3>4. Places(m, id) = {w}
        BY <3>2, <3>3
      <3>5. Cardinality(Places(m, id)) = 1
        BY <3>4, FS_Singleton
      <3> QED
        BY <2>4, <3>5
    <2>5. CASE id \notin Ids(m)
      <3>1. Places(m, id) = {}
        BY <2>1, <2>2, <2>3, <2>5 DEF PlacesInv, Known
      <3>2. Cardinality(Places(m, id)) = 0
        BY <3>1, FS_EmptySet
      <3> QED
        BY <2>5, <3>2
    <2> QED
      BY <2>4, <2>5
  <1> QED
    BY <1>1, <1>2, <1>3, PTL DEF Spec
-----------------------------------------------------------------------------
(* The system of test 02 is a bus *)

\* The first block is the only slave, the master's block is empty, and neither
\* the slave's block nor a buffer reaches the end of the address space.  With
\* more slaves the first one answers for all (TargetIsSet), and an operation of
\* size zero at the end of a block is rejected.
PlainBlocks ==
    /\ Slaves = {1} /\ \A m \in Masters : Ips[m].size = 0
    /\ Ips[1].address + Ips[1].size < AddrSpace
    /\ \A b \in Buffers : b.size > 0 /\ b.address + b.size < AddrSpace

\* The operation falls into the slave's block.
Fits(op) ==
    op.address >= Ips[1].address /\ op.address + op.size <= Ips[1].address + Ips[1].size

\* The operations are those of the buffers.
SizesInv ==
    \A c \in Clients : \A k \in DOMAIN ops[c] :
        \E b \in Buffers : ops[c][k].address = b.address /\ ops[c][k].size = b.size

\* A writer that has nothing to register or to send has nothing.
EmptyHandInv ==
    \A c \in Clients : bridge[c].writer \notin {"register", "send"} => bridge[c].txn = NoEntry

\* The writer of the first client registers a request.
Registers == bridge[0].writer = "register"

\* Operation n of the first client is a request that waits to be registered, or
\* has a promise.
Ticket(n) ==
    \/ \E k \in Nat : Queued(0, k) /\ q[0].items[k].op = n
    \/ Registers /\ bridge[0].txn.op = n
    \/ \E m \in Masters : \E e \in txns[m] : e.op = n

\* The operations that the application waits for pass the queue, the writer and
\* txns in the order in which they were issued.
TicketsInv ==
    /\ \A n \in DOMAIN ops[0] : ops[0][n].status = "pending" => Ticket(n)
    /\ \A j, k \in Nat : Queued(0, j) /\ Queued(0, k) /\ j < k => q[0].items[j].op < q[0].items[k].op
    /\ Registers => \A k \in Nat : Queued(0, k) => bridge[0].txn.op < q[0].items[k].op
    /\ \A m \in Masters : \A e \in txns[m] :
         /\ \A k \in Nat : Queued(0, k) => e.op < q[0].items[k].op
         /\ Registers => e.op < bridge[0].txn.op
         /\ \A f \in txns[m] : e.id < f.id => e.op < f.op

\* What a request asks for, and what a response tells: a response of size zero
\* is that of createErrorTxn.
Asks(t, op) ==
    /\ t.type = op.type /\ t.address = op.address /\ t.size = op.size
    /\ op.type = "WRITE_REQ" => t.data = op.buffer

Tells(t, op) ==
    /\ t.type = RespOf(op.type)
    /\ t.size = 0 => ~t.ok /\ t.data = <<>> /\ ~Fits(op)
    /\ t.size # 0 => Fits(op)

\* The requests that are not yet registered.
AsksInv ==
    /\ \A k \in Nat : Queued(0, k) => Asks(q[0].items[k].msg.txn, ops[0][q[0].items[k].op])
    /\ Registers => Asks(bridge[0].txn.msg.txn, ops[0][bridge[0].txn.op])

\* The line that the transactions of the first client stand in: from the queue
\* of its bridge through the router and back to its reader, which comes first.
Cargo(kind, k)  == Load(<<kind, 0, k>>)
Moving(kind, k) == Cargo(kind, k).type = "TRANSACTION"

Rank == [kind \in Kinds |->
           CASE kind = "toClient" -> 1 [] kind = "rw" -> 2 [] kind = "rt" -> 3 [] kind = "rr" -> 4
             [] kind = "toRouter" -> 5 [] kind = "writer" -> 6 [] kind = "queue" -> 7]

Ahead(a, j, b, k) == Rank[a] < Rank[b] \/ (a = b /\ j < k)

\* Past route a request falls into the block; a response in the queue is the
\* slave's.
Means(kind, t, op) ==
    /\ t.type \in ReqTypes => Asks(t, op) /\ (Rank[kind] <= 3 => Fits(op))
    /\ t.type \in RespTypes => Tells(t, op) /\ (kind = "queue" => t.size # 0)

MeansInv ==
    \A kind \in Kinds, k \in Nat : Moving(kind, k) =>
        \A m \in Masters : \A e \in txns[m] :
            e.id = Cargo(kind, k).txn.id => Means(kind, Cargo(kind, k).txn, ops[0][e.op])

\* The transaction has not been at the slave.
First(t) == t.type \in ReqTypes \/ t.size = 0

\* A transaction t, and one that is behind it if ahead.
InOrder(t, u, ahead) ==
    /\ First(t) /\ ~First(u) => u.id < t.id
    /\ (First(t) <=> First(u)) /\ ahead => t.id < u.id

\* Nobody overtakes: those that have not been at the slave are in the order of
\* their ids, those that have been there are in that order, too, and they are
\* the older ones.
OrderInv ==
    \A a, b \in Kinds, j, k \in Nat : Moving(a, j) /\ Moving(b, k) =>
        InOrder(Cargo(a, j).txn, Cargo(b, k).txn, Ahead(a, j, b, k))

BusInv ==
    /\ SizesInv /\ EmptyHandInv /\ TicketsInv /\ AsksInv /\ MeansInv /\ OrderInv

\* findTarget finds the slave exactly for what falls into its block.
LEMMA FoundTargets ==
    ASSUME OneMaster, PlainBlocks, NEW a \in Addr, NEW s \in Addr, s > 0, a + s < AddrSpace,
           NEW p \in findTarget(Ips, ipMMap, a, s)
    PROVE  /\ p = 0 => ~(a >= Ips[1].address /\ a + s <= Ips[1].address + Ips[1].size)
           /\ p # 0 => p = 1 /\ a >= Ips[1].address /\ a + s <= Ips[1].address + Ips[1].size
  <1>1. PICK m \in masterMap(0) : Masters = {m}
    BY DEF OneMaster
  <1>2. /\ DOMAIN Ips = 1 .. Len(Ips) /\ Len(Ips) \in Nat
        /\ \A i \in DOMAIN Ips : Ips[i].address \in Addr /\ Ips[i].size \in Addr
    <2>1. PICK S : S = [address : Addr, size : Addr, type : IpTypes, owner : Clients]
      OBVIOUS
    <2>2. Ips \in Seq(S)
      BY <2>1, IpsAssumption
    <2>3. DOMAIN Ips = 1 .. Len(Ips) /\ Len(Ips) \in Nat /\ \A i \in DOMAIN Ips : Ips[i] \in S
      BY <2>2
    <2> QED
      BY <2>1, <2>3
  <1>3. m \in DOMAIN Ips /\ 1 \in DOMAIN Ips /\ m # 1 /\ DOMAIN Ips = {1, m}
    <2>1. Slaves = DOMAIN Ips \ {m} /\ Slaves = {1} /\ {m} \subseteq DOMAIN Ips
      BY <1>1, Owners DEF PlainBlocks, Slaves
    <2> QED
      BY <2>1
  <1>4. 1 < m /\ m \in Nat
    BY <1>2, <1>3
  <1>5. Addr = 0 .. AddrSpace - 1 /\ AddrSpace \in Nat \ {0}
    BY AddrSpaceAssumption DEF Addr
  <1>6. PICK x \in Addr, z \in Addr : x = Ips[1].address /\ z = Ips[1].size
    BY <1>2, <1>3
  <1>7. x + z < AddrSpace /\ Ips[m].size = 0
    BY <1>1, <1>6 DEF PlainBlocks
  <1>8. Plus(x, z) = x + z /\ Plus(a, s) = a + s
    BY <1>5, <1>7 DEF Plus
  <1>9. ~Covers(Ips[m], a)
    <2>1. PICK y \in Addr : y = Ips[m].address
      BY <1>2, <1>3
    <2>2. Plus(y, 0) = y
      BY <1>5, <2>1 DEF Plus
    <2> QED
      BY <1>5, <1>7, <2>1, <2>2 DEF Covers
  <1>10. Covers(Ips[1], a) <=> a >= x /\ a < x + z
    BY <1>6, <1>8 DEF Covers
  <1>11. \A i \in Addr : ipMMap[i] \in {0, 1, m}
    <2> SUFFICES ASSUME NEW i \in Addr PROVE ipMMap[i] \in {0, 1, m}
      OBVIOUS
    <2>1. PICK S : S = {0} \cup {k \in DOMAIN Ips : Ips[k].address = i}
      OBVIOUS
    <2>2. S \subseteq {0, 1, m} /\ 0 \in S
      BY <1>3, <2>1
    <2>3. \E k \in S : \A l \in S : k >= l
      <3>1. CASE m \in S
        BY <1>4, <2>2, <3>1
      <3>2. CASE m \notin S /\ 1 \in S
        BY <2>2, <3>2
      <3>3. CASE m \notin S /\ 1 \notin S
        BY <2>2, <3>3
      <3> QED
        BY <3>1, <3>2, <3>3
    <2>4. Max(S) \in S
      BY <2>3 DEF Max
    <2>5. ipMMap[i] = Max(S)
      BY <2>1 DEF ipMMap
    <2> QED
      BY <2>2, <2>4, <2>5
  <1>12. ASSUME Covers(Ips[1], a) PROVE ipMMap[x] = 1
    <2>1. x >= x /\ x < x + z
      BY <1>5, <1>10, <1>12
    <2>2. Ips[m].address # x
      <3>1. ~Conflicts(Ips[m], Ips[1])
        BY <1>3, <1>4, IpsAssumption
      <3>2. ~Covers(Ips[1], Ips[m].address)
        BY <3>1 DEF Conflicts
      <3> QED
        BY <1>6, <1>8, <2>1, <3>2 DEF Covers
    <2>3. PICK S : S = {0} \cup {k \in DOMAIN Ips : Ips[k].address = x}
      OBVIOUS
    <2>4. S = {0, 1}
      BY <1>3, <1>6, <2>2, <2>3
    <2>5. 1 \in S /\ (\A l \in S : 1 >= l) /\ \A k \in S : (\A l \in S : k >= l) => k = 1
      BY <2>4
    <2>6. Max(S) = 1
      BY <2>5 DEF Max
    <2> QED
      BY <2>3, <2>6 DEF ipMMap
  <1>13. PICK hits : hits = {k \in {ipMMap[i] : i \in Addr} \ {0} : Covers(Ips[k], a)}
    OBVIOUS
  <1>14. hits = IF Covers(Ips[1], a) THEN {1} ELSE {}
    <2>1. hits \subseteq {1}
      BY <1>9, <1>11, <1>13
    <2>2. Covers(Ips[1], a) => 1 \in hits
      BY <1>6, <1>12, <1>13
    <2>3. 1 \in hits => Covers(Ips[1], a)
      BY <1>13
    <2> QED
      BY <2>1, <2>2, <2>3
  <1>15. p \in IF hits = {} THEN {0} ELSE {IF SpansBoundary(Ips[k], a, s) THEN 0 ELSE k : k \in hits}
    BY <1>13 DEF findTarget
  <1>16. SpansBoundary(Ips[1], a, s) <=> a + s > x + z
    BY <1>6, <1>8 DEF SpansBoundary
  <1>17. CASE Covers(Ips[1], a)
    <2>1. p = IF SpansBoundary(Ips[1], a, s) THEN 0 ELSE 1
      BY <1>14, <1>15, <1>17
    <2> QED
      BY <1>5, <1>6, <1>10, <1>16, <1>17, <2>1
  <1>18. CASE ~Covers(Ips[1], a)
    <2>1. p = 0
      BY <1>14, <1>15, <1>18
    <2>2. ~(a >= x /\ a + s <= x + z)
      BY <1>5, <1>10, <1>18
    <2> QED
      BY <1>6, <2>1, <2>2
  <1> QED
    BY <1>17, <1>18

\* The memories of the bus for an operation.
LEMMA BusTargets ==
    ASSUME PlainBlocks, NEW op
    PROVE  B!Targets(op) = IF Fits(op) THEN {1} ELSE {}
  BY DEF PlainBlocks, B!Targets, B!FallsInto, Fits
-----------------------------------------------------------------------------
(* What came of the operations *)

\* The transactions on their way are those of the first client.
LEMMA FirstHasAll ==
    Shape /\ HandsInv /\ IdleInv =>
      \A w \in Spots : Load(w).type = "TRANSACTION" => \E kind \in Kinds, k \in Nat : w = <<kind, 0, k>>
  <1> SUFFICES ASSUME Shape, HandsInv, IdleInv,
                      NEW kind \in Kinds, NEW c \in Clients, NEW k \in Nat,
                      Load(<<kind, c, k>>).type = "TRANSACTION"
               PROVE  c = 0
    BY SpotFacts
  <1> SUFFICES ASSUME c # 0 PROVE FALSE
    OBVIOUS
  <1>1. Idle(c) /\ Hands(c)
    BY DEF IdleInv, HandsInv
  <1>2. NoMsg.type # "TRANSACTION"
    BY DEF NoMsg
  <1>3. CASE kind = "queue"
    <2>1. Load(<<"queue", c, k>>) = ResponseAt(q[c].items, k)
      BY Loads
    <2>2. DOMAIN q[c].items = {}
      BY <1>1 DEF Idle, Silent
    <2> QED
      BY <1>2, <1>3, <2>1, <2>2 DEF ResponseAt
  <1>4. CASE kind = "toRouter"
    <2>1. Load(<<"toRouter", c, k>>) = At(toRouter[c], k)
      BY Loads
    <2> QED
      BY <1>1, <1>2, <1>4, <2>1 DEF At, Idle, Silent
  <1>5. CASE kind = "toClient"
    <2>1. Load(<<"toClient", c, k>>) = At(toClient[c], k)
      BY Loads
    <2> QED
      BY <1>1, <1>2, <1>5, <2>1 DEF At, Idle
  <1>6. CASE kind = "writer"
    <2>1. Load(<<"writer", c, k>>) \in {Sending(bridge[c]), NoMsg}
      BY Loads
    <2> QED
      BY <1>1, <1>2, <1>6, <2>1 DEF Sending, Idle, Silent
  <1>7. CASE kind = "rr"
    <2>1. Load(<<"rr", c, k>>) \in {rr[c].msg, NoMsg}
      BY Loads
    <2> QED
      BY <1>1, <1>2, <1>7, <2>1 DEF Hands, Idle, Silent
  <1>8. CASE kind = "rw"
    <2>1. Load(<<"rw", c, k>>) \in {rw[c].msg, NoMsg}
      BY Loads
    <2> QED
      BY <1>1, <1>2, <1>8, <2>1 DEF Hands, Idle
  <1>9. CASE kind = "rt"
    <2>1. Load(<<"rt", c, k>>) = NoMsg
      BY Loads
    <2> QED
      BY <1>2, <1>9, <2>1
  <1> QED
    BY <1>3, <1>4, <1>5, <1>6, <1>7, <1>8, <1>9 DEF Kinds

\* The responses on their way are those in the spots.
LEMMA ResponsesAre ==
    Shape /\ EmptyHandInv =>
      \A r : r \in Responses <=> IsResponse(r) /\ \E w \in Spots : Load(w) = r
  <1> SUFFICES ASSUME Shape, EmptyHandInv, NEW r, IsResponse(r)
               PROVE  r \in Responses <=> \E w \in Spots : Load(w) = r
    BY DEF Responses
  <1> DEFINE Has(c) == \/ \E k \in DOMAIN q[c].items : q[c].items[k].msg = r
                       \/ r = bridge[c].txn.msg \/ r = rr[c].msg \/ r = rw[c].msg
                       \/ \E k \in DOMAIN toRouter[c] : toRouter[c][k] = r
                       \/ \E k \in DOMAIN toClient[c] : toClient[c][k] = r
  <1>1. r \in Responses <=> r = rt.msg \/ \E c \in Clients : Has(c)
    <2> DEFINE Elements(s) == {s[k] : k \in DOMAIN s}
               Held(c) == {entry.msg : entry \in Elements(q[c].items)}
                            \cup {bridge[c].txn.msg, rr[c].msg, rw[c].msg}
                            \cup Elements(toRouter[c]) \cup Elements(toClient[c])
    <2>1. \A c \in Clients : r \in Held(c) <=> Has(c)
      OBVIOUS
    <2>2. r \in Responses <=> r \in (UNION {Held(c) : c \in Clients}) \cup {rt.msg}
      BY DEF Responses
    <2> HIDE DEF Held, Has
    <2> QED
      BY <2>1, <2>2
  <1>2. r # NoMsg
    BY DEF IsResponse, NoMsg
  <1>3. ASSUME NEW c \in Clients
        PROVE  /\ DOMAIN q[c].items \subseteq Nat /\ DOMAIN toRouter[c] \subseteq Nat
               /\ DOMAIN toClient[c] \subseteq Nat
    BY DEF Shape, QueuesInv, IsQueue, SocketsInv
  <1>4. ASSUME NEW c \in Clients, Has(c) PROVE \E kind \in Kinds, k \in Nat : Load(<<kind, c, k>>) = r
    <2>1. CASE \E k \in DOMAIN q[c].items : q[c].items[k].msg = r
      <3>1. PICK k \in DOMAIN q[c].items : q[c].items[k].msg = r
        BY <2>1
      <3>2. k \in Nat /\ "queue" \in Kinds
        BY <1>3 DEF Kinds
      <3>3. Load(<<"queue", c, k>>) = ResponseAt(q[c].items, k)
        BY <3>2, Loads
      <3> QED
        BY <3>1, <3>2, <3>3 DEF ResponseAt
    <2>2. CASE r = bridge[c].txn.msg
      <3>1. bridge[c].writer = "send"
        BY <1>2, <2>2, EntryFacts DEF EmptyHandInv, Shape, BridgesInv, IsBridge, IsRequest, IsResponse, ReqTypes, RespTypes
      <3>2. Load(<<"writer", c, 0>>) = Sending(bridge[c]) /\ "writer" \in Kinds
        BY Loads DEF Kinds
      <3> QED
        BY <2>2, <3>1, <3>2 DEF Sending
    <2>3. CASE r = rr[c].msg
      <3>1. Load(<<"rr", c, 0>>) = rr[c].msg /\ "rr" \in Kinds
        BY Loads DEF Kinds
      <3> QED
        BY <2>3, <3>1
    <2>4. CASE r = rw[c].msg
      <3>1. Load(<<"rw", c, 0>>) = rw[c].msg /\ "rw" \in Kinds
        BY Loads DEF Kinds
      <3> QED
        BY <2>4, <3>1
    <2>5. CASE \E k \in DOMAIN toRouter[c] : toRouter[c][k] = r
      <3>1. PICK k \in DOMAIN toRouter[c] : toRouter[c][k] = r
        BY <2>5
      <3>2. k \in Nat /\ "toRouter" \in Kinds
        BY <1>3 DEF Kinds
      <3>3. Load(<<"toRouter", c, k>>) = At(toRouter[c], k)
        BY <3>2, Loads
      <3> QED
        BY <3>1, <3>2, <3>3 DEF At
    <2>6. CASE \E k \in DOMAIN toClient[c] : toClient[c][k] = r
      <3>1. PICK k \in DOMAIN toClient[c] : toClient[c][k] = r
        BY <2>6
      <3>2. k \in Nat /\ "toClient" \in Kinds
        BY <1>3 DEF Kinds
      <3>3. Load(<<"toClient", c, k>>) = At(toClient[c], k)
        BY <3>2, Loads
      <3> QED
        BY <3>1, <3>2, <3>3 DEF At
    <2> QED
      BY <1>4, <2>1, <2>2, <2>3, <2>4, <2>5, <2>6
  <1>5. ASSUME NEW kind \in Kinds, NEW c \in Clients, NEW k \in Nat, Load(<<kind, c, k>>) = r
        PROVE  r = rt.msg \/ Has(c)
    <2>1. CASE kind = "queue"
      <3>1. Load(<<"queue", c, k>>) = ResponseAt(q[c].items, k)
        BY Loads
      <3> QED
        BY <1>2, <1>5, <2>1, <3>1 DEF ResponseAt
    <2>2. CASE kind = "toRouter"
      <3>1. Load(<<"toRouter", c, k>>) = At(toRouter[c], k)
        BY Loads
      <3> QED
        BY <1>2, <1>5, <2>2, <3>1 DEF At
    <2>3. CASE kind = "toClient"
      <3>1. Load(<<"toClient", c, k>>) = At(toClient[c], k)
        BY Loads
      <3> QED
        BY <1>2, <1>5, <2>3, <3>1 DEF At
    <2>4. CASE kind = "writer"
      <3>1. Load(<<"writer", c, k>>) \in {Sending(bridge[c]), NoMsg}
        BY Loads
      <3> QED
        BY <1>2, <1>5, <2>4, <3>1 DEF Sending
    <2>5. CASE kind = "rr"
      <3>1. Load(<<"rr", c, k>>) \in {rr[c].msg, NoMsg}
        BY Loads
      <3> QED
        BY <1>2, <1>5, <2>5, <3>1
    <2>6. CASE kind = "rw"
      <3>1. Load(<<"rw", c, k>>) \in {rw[c].msg, NoMsg}
        BY Loads
      <3> QED
        BY <1>2, <1>5, <2>6, <3>1
    <2>7. CASE kind = "rt"
      <3>1. Load(<<"rt", c, k>>) \in {rt.msg, NoMsg}
        BY Loads
      <3> QED
        BY <1>2, <1>5, <2>7, <3>1
    <2> QED
      BY <2>1, <2>2, <2>3, <2>4, <2>5, <2>6, <2>7 DEF Kinds
  <1> HIDE DEF Has
  <1>6. r = rt.msg => \E kind \in Kinds, k \in Nat : Load(<<kind, 0, k>>) = r
    <2>1. Load(<<"rt", 0, 0>>) = rt.msg /\ "rt" \in Kinds
      BY Loads, Owners DEF Kinds
    <2> QED
      BY <2>1
  <1>7. ASSUME NEW w \in Spots, Load(w) = r PROVE r \in Responses
    <2>1. PICK kind \in Kinds, c \in Clients, k \in Nat : w = <<kind, c, k>>
      BY SpotFacts
    <2> QED
      BY <1>1, <1>5, <1>7, <2>1
  <1>8. ASSUME r \in Responses PROVE \E w \in Spots : Load(w) = r
    <2>1. PICK c \in Clients, kind \in Kinds, k \in Nat : Load(<<kind, c, k>>) = r
      BY <1>1, <1>4, <1>6, <1>8, Owners
    <2> QED
      BY <2>1, SpotFacts
  <1> QED
    BY <1>7, <1>8

\* What the application will hear of the operation with promise e.
Result(e, t) == [op |-> e.op, ok |-> t.ok, data |-> t.data]

\* The response at a place in the line, to the request of promise e.
Replies(kind, k, e) == IsResponse(Cargo(kind, k)) /\ Cargo(kind, k).txn.id = e.id

Told(x) ==
    \E m \in Masters : \E e \in txns[m] : \E kind \in Kinds, k \in Nat :
        Replies(kind, k, e) /\ x = Result(e, Cargo(kind, k).txn)

\* The transactions in the line have their types.
LEMMA CargoIsGood ==
    Shape => \A kind \in Kinds, k \in Nat : Moving(kind, k) =>
        /\ Cargo(kind, k) \in GoodMsg /\ Cargo(kind, k).txn \in Transaction
        /\ Cargo(kind, k).txn.id \in Nat /\ Cargo(kind, k).txn.initiator \in Masters
        /\ Cargo(kind, k).txn.type \in ReqTypes \cup RespTypes /\ Cargo(kind, k).txn.size \in Addr
  <1> SUFFICES ASSUME Shape, NEW kind \in Kinds, NEW k \in Nat, Moving(kind, k)
               PROVE  Cargo(kind, k) \in GoodMsg
    BY GoodMsgFacts, TxnFields DEF Moving
  <1>1. NoMsg.type # "TRANSACTION" /\ 0 \in Clients
    BY Owners DEF NoMsg
  <1>2. PICK r : r = Load(<<kind, 0, k>>) /\ r.type = "TRANSACTION" /\ r # NoMsg
    BY <1>1 DEF Moving, Cargo
  <1> SUFFICES r \in GoodMsg
    BY <1>2 DEF Cargo
  <1>3. CASE kind = "queue"
    <2>1. r = ResponseAt(q[0].items, k)
      BY <1>1, <1>2, <1>3, Loads
    <2>2. q[0].items \in Seq(GoodEntry)
      BY <1>1 DEF Shape, QueuesInv, IsQueue
    <2>3. k \in DOMAIN q[0].items /\ r = q[0].items[k].msg
      BY <1>2, <2>1 DEF ResponseAt
    <2>4. q[0].items[k] \in GoodEntry
      BY <2>2, <2>3
    <2> QED
      BY <2>3, <2>4, EntryFacts
  <1>4. CASE kind = "toRouter"
    <2>1. r = At(toRouter[0], k)
      BY <1>1, <1>2, <1>4, Loads
    <2> QED
      BY <1>1, <1>2, <2>1 DEF At, Shape, SocketsInv
  <1>5. CASE kind = "toClient"
    <2>1. r = At(toClient[0], k)
      BY <1>1, <1>2, <1>5, Loads
    <2> QED
      BY <1>1, <1>2, <2>1 DEF At, Shape, SocketsInv
  <1>6. CASE kind = "writer"
    <2>1. r = Sending(bridge[0])
      BY <1>1, <1>2, <1>6, Loads
    <2>2. bridge[0].txn \in GoodEntry /\ r = bridge[0].txn.msg
      BY <1>1, <1>2, <2>1 DEF Sending, Shape, BridgesInv, IsBridge
    <2> QED
      BY <2>2, EntryFacts
  <1>7. CASE kind = "rr"
    <2>1. r = rr[0].msg
      BY <1>1, <1>2, <1>7, Loads
    <2> QED
      BY <1>1, <1>2, <2>1 DEF Shape, RouterInv
  <1>8. CASE kind = "rw"
    <2>1. r = rw[0].msg
      BY <1>1, <1>2, <1>8, Loads
    <2> QED
      BY <1>1, <1>2, <2>1 DEF Shape, RouterInv
  <1>9. CASE kind = "rt"
    <2>1. r = rt.msg
      BY <1>1, <1>2, <1>9, Loads
    <2> QED
      BY <1>2, <2>1 DEF Shape, RouterInv
  <1> QED
    BY <1>3, <1>4, <1>5, <1>6, <1>7, <1>8, <1>9 DEF Kinds

\* The request of a promise, or the response to it, is in the line.
LEMMA InLine ==
    CalmInv /\ NotLost =>
      \A i \in Masters : \A f \in txns[i] :
        /\ \E kind \in Kinds, k \in Nat : Moving(kind, k) /\ Cargo(kind, k).txn.id = f.id
        /\ f.id \in Nat
  <1> SUFFICES ASSUME CalmInv, NotLost, NEW m \in Masters, NEW e \in txns[m]
               PROVE  /\ \E kind \in Kinds, k \in Nat : Moving(kind, k) /\ Cargo(kind, k).txn.id = e.id
                      /\ e.id \in Nat
    BY Zenon
  <1>1. e.id \in Ids(m) /\ e.id \in Nat
    BY DEF Ids, CalmInv, Shape, TablesInv
  <1>2. PICK w \in Spots : Carries(Load(w), m, e.id)
    BY <1>1 DEF NotLost, Found
  <1>3. PICK kind \in Kinds, k \in Nat : w = <<kind, 0, k>>
    BY <1>2, FirstHasAll DEF Carries, CalmInv
  <1> QED
    BY <1>1, <1>2, <1>3 DEF Carries, Moving, Cargo

\* The same for the next state.
LEMMA InNextLine ==
    (CalmInv /\ NotLost =>
      \A i \in Masters : \A f \in txns[i] :
        /\ \E kind \in Kinds, k \in Nat : Moving(kind, k) /\ Cargo(kind, k).txn.id = f.id
        /\ f.id \in Nat)'
  BY InLine, PTL

\* Two places in the line do not hold the same transaction.
LEMMA LineApart ==
    OneMaster /\ Shape /\ Apart /\ Known =>
      /\ \A a, b \in Kinds, j, k \in Nat :
           Moving(a, j) /\ Moving(b, k) /\ Cargo(a, j).txn.id = Cargo(b, k).txn.id => a = b /\ j = k
      /\ \A m \in Masters, a \in Kinds, j \in Nat :
           Moving(a, j) => \E e \in txns[m] : e.id = Cargo(a, j).txn.id
  <1> SUFFICES ASSUME OneMaster, Shape, Apart, Known, NEW a \in Kinds, NEW j \in Nat, Moving(a, j)
               PROVE  /\ \A b \in Kinds, k \in Nat :
                           Moving(b, k) /\ Cargo(a, j).txn.id = Cargo(b, k).txn.id => a = b /\ j = k
                      /\ \A m \in Masters : \E e \in txns[m] : e.id = Cargo(a, j).txn.id
    BY Zenon
  <1>1. PICK m \in Masters : Masters = {m}
    BY TheMaster DEF OneMaster
  <1>2. \A kind \in Kinds, k \in Nat : Moving(kind, k) =>
          /\ <<kind, 0, k>> \in Spots /\ Cargo(kind, k).txn.id \in Nat
          /\ Carries(Load(<<kind, 0, k>>), m, Cargo(kind, k).txn.id)
    BY <1>1, CargoIsGood, SpotFacts, Owners DEF Carries, Moving, Cargo
  <1>3. ASSUME NEW b \in Kinds, NEW k \in Nat, Moving(b, k), Cargo(a, j).txn.id = Cargo(b, k).txn.id
        PROVE  a = b /\ j = k
    <2>1. <<a, 0, j>> = <<b, 0, k>>
      BY <1>2, <1>3 DEF Apart
    <2> QED
      BY <2>1
  <1>4. Cargo(a, j).txn.id \in Ids(m)
    BY <1>2 DEF Known
  <1> QED
    BY <1>1, <1>3, <1>4 DEF Ids

\* The outcomes of the bus are what the responses in the line will tell.
LEMMA OutcomesAre ==
    OneMaster /\ Shape /\ HandsInv /\ IdleInv /\ EmptyHandInv =>
      /\ \A x : x \in Outcomes(0) <=> Told(x)
      /\ \A c \in Clients \ {0} : Outcomes(c) = {}
  <1> SUFFICES ASSUME OneMaster, Shape, HandsInv, IdleInv, EmptyHandInv
               PROVE  /\ \A x : x \in Outcomes(0) <=> Told(x)
                      /\ \A c \in Clients \ {0} : Outcomes(c) = {}
    OBVIOUS
  <1>1. \A c \in Clients \ {0} : Outcomes(c) = {}
    <2>1. \A c \in Clients \ {0} : masterMap(c) = {}
      BY TheMaster
    <2> QED
      BY <2>1 DEF Outcomes
  <1>2. masterMap(0) = Masters
    BY TheMaster DEF masterMap
  <1> DEFINE S(m, e) == {r \in Responses : r.txn.initiator = m /\ r.txn.id = e.id}
             T(m, e) == {[op |-> e.op, ok |-> msg.txn.ok, data |-> msg.txn.data] : msg \in S(m, e)}
  <1>3. ASSUME NEW m \in Masters, NEW e \in txns[m], NEW x
        PROVE  x \in T(m, e) <=> \E kind \in Kinds, k \in Nat :
                                    Replies(kind, k, e) /\ x = Result(e, Cargo(kind, k).txn)
    <2>1. ASSUME NEW kind \in Kinds, NEW k \in Nat, Replies(kind, k, e) PROVE Cargo(kind, k) \in S(m, e)
      <3>1. PICK r : r = Cargo(kind, k)
        OBVIOUS
      <3>2. <<kind, 0, k>> \in Spots /\ Load(<<kind, 0, k>>) = r
        BY <3>1, SpotFacts, Owners DEF Cargo
      <3>3. IsResponse(r) /\ r.txn.id = e.id
        BY <2>1, <3>1 DEF Replies
      <3>4. r \in Responses
        BY <3>2, <3>3, ResponsesAre
      <3>5. r \in GoodMsg
        BY <3>1, <3>3, CargoIsGood DEF IsResponse, Moving
      <3>6. r.txn.initiator = m
        BY <3>3, <3>5, GoodMsgFacts, TxnFields, TheMaster DEF IsResponse
      <3> QED
        BY <3>1, <3>3, <3>4, <3>6
    <2>2. ASSUME NEW r \in S(m, e) PROVE \E kind \in Kinds, k \in Nat : Replies(kind, k, e) /\ Cargo(kind, k) = r
      <3>1. r \in Responses /\ r.txn.id = e.id
        OBVIOUS
      <3>2. IsResponse(r) /\ \E w \in Spots : Load(w) = r
        BY <3>1, ResponsesAre
      <3>3. PICK w \in Spots : Load(w) = r
        BY <3>2
      <3>4. PICK kind \in Kinds, k \in Nat : w = <<kind, 0, k>>
        BY <3>2, <3>3, FirstHasAll DEF IsResponse
      <3>5. Cargo(kind, k) = r
        BY <3>3, <3>4 DEF Cargo
      <3> QED
        BY <3>1, <3>2, <3>5 DEF Replies
    <2> HIDE DEF S
    <2>3. ASSUME NEW kind \in Kinds, NEW k \in Nat, Replies(kind, k, e), x = Result(e, Cargo(kind, k).txn)
          PROVE  x \in T(m, e)
      BY <2>1, <2>3 DEF Result
    <2>4. ASSUME NEW r \in S(m, e), x = Result(e, r.txn)
          PROVE  \E kind \in Kinds, k \in Nat : Replies(kind, k, e) /\ x = Result(e, Cargo(kind, k).txn)
      BY <2>2, <2>4
    <2>5. x \in T(m, e) => \E r \in S(m, e) : x = Result(e, r.txn)
      BY DEF Result
    <2> HIDE DEF T
    <2> QED
      BY <2>3, <2>4, <2>5
  <1>4. \A x : x \in Outcomes(0) <=> \E m \in Masters : \E e \in txns[m] : x \in T(m, e)
    BY <1>2 DEF Outcomes
  <1> HIDE DEF T
  <1> QED
    BY <1>1, <1>3, <1>4 DEF Told

\* The same for the next state.
LEMMA OutcomesWillBe ==
    ASSUME OneMaster, Shape', HandsInv', IdleInv', EmptyHandInv'
    PROVE  /\ \A x : x \in Outcomes(0)' <=> Told(x)'
           /\ \A c \in Clients \ {0} : Outcomes(c)' = {}
  <1>1. (OneMaster /\ Shape /\ HandsInv /\ IdleInv /\ EmptyHandInv =>
          /\ \A x : x \in Outcomes(0) <=> Told(x)
          /\ \A c \in Clients \ {0} : Outcomes(c) = {})'
    BY OutcomesAre, PTL
  <1> QED
    BY <1>1
-----------------------------------------------------------------------------
(* The line moves *)

\* What is at one place of the line after a step was at another before it.
Comes(a, j, b, i) ==
    /\ Moving(b, i) /\ Cargo(a, j)'.txn.id = Cargo(b, i).txn.id
    /\ First(Cargo(a, j)'.txn) <=> First(Cargo(b, i).txn)

\* It is the same message, and it has not passed route if it is a request.
Brings(a, j, b, i) ==
    /\ Moving(b, i) /\ Cargo(a, j)' = Cargo(b, i)
    /\ Rank[a] <= 3 => Rank[b] <= 3 \/ Cargo(b, i).txn.type \in RespTypes
    /\ a = "queue" => b = "queue"

Carried == \A a \in Kinds, j \in Nat : Moving(a, j)' => \E b \in Kinds, i \in Nat : Brings(a, j, b, i)

\* The places of a kind are left alone, or the first one is vacated and the
\* others move up.
Stays(kind)    == \A k \in Nat : Moving(kind, k)' => Cargo(kind, k)' = Cargo(kind, k)
Advances(kind) == \A k \in Nat : Moving(kind, k)' => k # 0 /\ Cargo(kind, k)' = Cargo(kind, k + 1)

\* The transaction at place i, the first of its kind, becomes the n-th of the
\* kind before it.
Moves(from, i, to, n) ==
    /\ Rank[from] = Rank[to] + 1
    /\ \A kind \in Kinds \ {from, to} : Stays(kind)
    /\ \A k \in Nat : Moving(to, k)' => \/ k < n /\ Cargo(to, k)' = Cargo(to, k)
                                        \/ k = n /\ Comes(to, k, from, i)
    /\ \A k \in Nat : Moving(from, k)' => k + 1 > i /\ Cargo(from, k)' = Cargo(from, k + 1)

\* The kinds of places have their order.
LEMMA Ranks ==
    /\ \A a \in Kinds : Rank[a] \in Nat /\ Rank[a] <= 7
    /\ \A a, b \in Kinds : Rank[a] = Rank[b] => a = b
    /\ Rank["toClient"] = 1 /\ Rank["rw"] = 2 /\ Rank["rt"] = 3 /\ Rank["rr"] = 4
    /\ Rank["toRouter"] = 5 /\ Rank["writer"] = 6 /\ Rank["queue"] = 7
  <1>1. /\ Rank["toClient"] = 1 /\ Rank["rw"] = 2 /\ Rank["rt"] = 3 /\ Rank["rr"] = 4
        /\ Rank["toRouter"] = 5 /\ Rank["writer"] = 6 /\ Rank["queue"] = 7
    BY DEF Rank, Kinds
  <1> QED
    BY <1>1 DEF Kinds

\* Order is kept when everything comes from somewhere and nobody overtakes.
LEMMA OrderKept ==
    ASSUME OrderInv,
           \A a, b \in Kinds, j, k \in Nat : Moving(a, j)' /\ Moving(b, k)' =>
             \E c, d \in Kinds, i, l \in Nat :
               Comes(a, j, c, i) /\ Comes(b, k, d, l) /\ (Ahead(a, j, b, k) => Ahead(c, i, d, l))
    PROVE  OrderInv'
  <1> SUFFICES ASSUME NEW a \in Kinds, NEW b \in Kinds, NEW j \in Nat, NEW k \in Nat,
                      Moving(a, j)', Moving(b, k)'
               PROVE  InOrder(Cargo(a, j)'.txn, Cargo(b, k)'.txn, Ahead(a, j, b, k))
    BY Zenon DEF OrderInv
  <1>1. PICK c \in Kinds, d \in Kinds, i \in Nat, l \in Nat :
          Comes(a, j, c, i) /\ Comes(b, k, d, l) /\ (Ahead(a, j, b, k) => Ahead(c, i, d, l))
    BY Zenon
  <1>2. InOrder(Cargo(c, i).txn, Cargo(d, l).txn, Ahead(c, i, d, l))
    BY <1>1 DEF OrderInv, Comes
  <1> QED
    BY <1>1, <1>2 DEF Comes, InOrder

\* A transaction moves to the next kind of places.
LEMMA MoveKeepsOrder ==
    ASSUME OrderInv, NEW from \in Kinds, NEW to \in Kinds, NEW i \in Nat, NEW n \in Nat,
           Moves(from, i, to, n)
    PROVE  OrderInv'
  <1> DEFINE Place(a, j, c, l) == \/ a = c /\ j = l /\ a # from /\ (a = to => j < n)
                                  \/ a = to /\ j = n /\ c = from /\ l = i
                                  \/ a = from /\ c = from /\ l = j + 1 /\ l > i
  <1>1. Rank[from] = Rank[to] + 1 /\ from # to
    BY Ranks DEF Moves
  <1>2. ASSUME NEW a \in Kinds, NEW j \in Nat, Moving(a, j)'
        PROVE  \E c \in Kinds, l \in Nat : Comes(a, j, c, l) /\ Place(a, j, c, l)
    <2>1. CASE a \notin {from, to}
      <3>1. Cargo(a, j)' = Cargo(a, j)
        BY <1>2, <2>1 DEF Moves, Stays
      <3>2. Comes(a, j, a, j)
        BY <1>2, <3>1 DEF Comes, Moving
      <3> QED
        BY <2>1, <3>2
    <2>2. CASE a = to /\ j < n /\ Cargo(to, j)' = Cargo(to, j)
      <3>1. Comes(a, j, a, j)
        BY <1>2, <2>2 DEF Comes, Moving
      <3> QED
        BY <1>1, <2>2, <3>1
    <2>3. CASE a = to /\ j = n /\ Comes(to, j, from, i)
      BY <2>3
    <2>4. CASE a = from
      <3>1. j + 1 > i /\ Cargo(a, j)' = Cargo(a, j + 1) /\ j + 1 \in Nat
        BY <1>2, <2>4 DEF Moves
      <3>2. Comes(a, j, a, j + 1)
        BY <1>2, <3>1 DEF Comes, Moving
      <3> QED
        BY <2>4, <3>1, <3>2
    <2>5. a = to => \/ j < n /\ Cargo(to, j)' = Cargo(to, j)
                    \/ j = n /\ Comes(to, j, from, i)
      BY <1>2 DEF Moves
    <2> QED
      BY <2>1, <2>2, <2>3, <2>4, <2>5
  <1> HIDE DEF Place
  <1>3. ASSUME NEW a \in Kinds, NEW b \in Kinds, NEW j \in Nat, NEW k \in Nat, Moving(a, j)', Moving(b, k)'
        PROVE  \E c, d \in Kinds, l, h \in Nat :
                 Comes(a, j, c, l) /\ Comes(b, k, d, h) /\ (Ahead(a, j, b, k) => Ahead(c, l, d, h))
    <2>1. PICK c \in Kinds, l \in Nat : Comes(a, j, c, l) /\ Place(a, j, c, l)
      BY <1>2, <1>3, Zenon
    <2>2. PICK d \in Kinds, h \in Nat : Comes(b, k, d, h) /\ Place(b, k, d, h)
      BY <1>2, <1>3, Zenon
    <2>3. ASSUME Ahead(a, j, b, k) PROVE Ahead(c, l, d, h)
      <3>1. Rank[a] \in Nat /\ Rank[b] \in Nat /\ Rank[from] \in Nat /\ Rank[to] \in Nat
        BY Ranks
      <3>2. (Rank[b] = Rank[from] => b = from) /\ (Rank[a] = Rank[from] => a = from)
        BY Ranks
      <3> QED
        BY <1>1, <2>1, <2>2, <2>3, <3>1, <3>2 DEF Ahead, Place
    <2> QED
      BY <2>1, <2>2, <2>3, Zenon
  <1> QED
    BY <1>3, OrderKept, Zenon

\* What moves is the same message.
LEMMA MoveCarries ==
    ASSUME NEW from \in Kinds, NEW to \in Kinds, NEW i \in Nat, NEW n \in Nat, Moves(from, i, to, n),
           Moving(to, n)' => /\ Cargo(to, n)' = Cargo(from, i)
                             /\ from = "rr" => Cargo(from, i).txn.type \in RespTypes
    PROVE  Carried
  <1> SUFFICES ASSUME NEW a \in Kinds, NEW j \in Nat, Moving(a, j)'
               PROVE  \E b \in Kinds, l \in Nat : Brings(a, j, b, l)
    BY DEF Carried
  <1>1. Rank[from] = Rank[to] + 1 /\ from # to /\ to # "queue"
    BY Ranks DEF Moves
  <1>2. \A b \in Kinds, l \in Nat : Cargo(a, j)' = Cargo(b, l) => Moving(b, l)
    BY DEF Moving
  <1>3. CASE a \notin {from, to}
    <2>1. Cargo(a, j)' = Cargo(a, j)
      BY <1>3 DEF Moves, Stays
    <2>2. Brings(a, j, a, j)
      BY <1>2, <2>1 DEF Brings
    <2> QED
      BY <2>2
  <1>4. CASE a = to /\ j < n /\ Cargo(to, j)' = Cargo(to, j)
    BY <1>2, <1>4 DEF Brings
  <1>5. CASE a = to /\ j = n
    <2>1. Rank[to] <= 3 => Rank[from] <= 3 \/ from = "rr"
      <3>1. Rank[to] \in Nat /\ "rr" \in Kinds /\ (Rank[from] = Rank["rr"] => from = "rr")
        BY Ranks DEF Kinds
      <3> QED
        BY <1>1, <3>1, Ranks
    <2>2. Brings(a, j, from, i)
      BY <1>1, <1>2, <1>5, <2>1 DEF Brings
    <2> QED
      BY <2>2
  <1>6. CASE a = from
    <2>1. Cargo(a, j)' = Cargo(a, j + 1) /\ j + 1 \in Nat
      BY <1>6 DEF Moves
    <2>2. Brings(a, j, a, j + 1)
      BY <1>2, <2>1 DEF Brings
    <2> QED
      BY <2>1, <2>2
  <1>7. a = to => j = n \/ (j < n /\ Cargo(to, j)' = Cargo(to, j))
    BY DEF Moves
  <1> QED
    BY <1>3, <1>4, <1>5, <1>6, <1>7

\* Nothing moves, or those of one kind move up.
LEMMA ShrinkCarries ==
    ASSUME OrderInv, \A kind \in Kinds : Stays(kind) \/ Advances(kind)
    PROVE  OrderInv' /\ Carried
  <1> DEFINE Place(a, j, l) == (l = j /\ Stays(a)) \/ (l = j + 1 /\ Advances(a))
  <1>1. ASSUME NEW a \in Kinds, NEW j \in Nat, Moving(a, j)'
        PROVE  \E l \in Nat : Comes(a, j, a, l) /\ Brings(a, j, a, l) /\ Place(a, j, l) /\ l = IF Stays(a) THEN j ELSE j + 1
    <2>1. PICK l \in Nat : Cargo(a, j)' = Cargo(a, l) /\ l = IF Stays(a) THEN j ELSE j + 1
      BY <1>1 DEF Stays, Advances
    <2>2. Comes(a, j, a, l) /\ Brings(a, j, a, l)
      BY <1>1, <2>1 DEF Comes, Brings, Moving
    <2> QED
      BY <2>1, <2>2
  <1>2. ASSUME NEW a \in Kinds, NEW b \in Kinds, NEW j \in Nat, NEW k \in Nat, Moving(a, j)', Moving(b, k)'
        PROVE  \E c, d \in Kinds, l, h \in Nat :
                 Comes(a, j, c, l) /\ Comes(b, k, d, h) /\ (Ahead(a, j, b, k) => Ahead(c, l, d, h))
    <2>1. PICK l \in Nat : Comes(a, j, a, l) /\ l = IF Stays(a) THEN j ELSE j + 1
      BY <1>1, <1>2, Zenon
    <2>2. PICK h \in Nat : Comes(b, k, b, h) /\ h = IF Stays(b) THEN k ELSE k + 1
      BY <1>1, <1>2, Zenon
    <2>3. Ahead(a, j, b, k) => Ahead(a, l, b, h)
      BY <2>1, <2>2 DEF Ahead
    <2> QED
      BY <2>1, <2>2, <2>3, Zenon
  <1>3. OrderInv'
    BY <1>2, OrderKept, Zenon
  <1>4. Carried
    BY <1>1 DEF Carried
  <1> QED
    BY <1>3, <1>4

\* A message in the hands of a thread or a goroutine of the first client.
LEMMA HandCargo ==
    /\ Cargo("writer", 0) = Sending(bridge[0]) /\ Cargo("rr", 0) = rr[0].msg
    /\ Cargo("rw", 0) = rw[0].msg /\ Cargo("rt", 0) = rt.msg
    /\ Cargo("writer", 0)' = Sending(bridge'[0]) /\ Cargo("rr", 0)' = rr'[0].msg
    /\ Cargo("rw", 0)' = rw'[0].msg /\ Cargo("rt", 0)' = rt'.msg
    /\ \A kind \in {"writer", "rr", "rw", "rt"}, k \in Nat : Moving(kind, k)' => k = 0
  <1>1. 0 \in Clients /\ NoMsg.type # "TRANSACTION"
    BY Owners DEF NoMsg
  <1>2. /\ Cargo("writer", 0) = Sending(bridge[0]) /\ Cargo("rr", 0) = rr[0].msg
        /\ Cargo("rw", 0) = rw[0].msg /\ Cargo("rt", 0) = rt.msg
    BY <1>1, Loads DEF Cargo
  <1>3. /\ Cargo("writer", 0)' = Sending(bridge'[0]) /\ Cargo("rr", 0)' = rr'[0].msg
        /\ Cargo("rw", 0)' = rw'[0].msg /\ Cargo("rt", 0)' = rt'.msg
    BY <1>1, Loads DEF Cargo
  <1>4. ASSUME NEW kind \in {"writer", "rr", "rw", "rt"}, NEW k \in Nat, k # 0 PROVE ~Moving(kind, k)'
    <2>1. Load(<<"writer", 0, k>>)' = NoMsg
      BY <1>1, <1>4, Loads
    <2>2. Load(<<"rr", 0, k>>)' = NoMsg
      BY <1>1, <1>4, Loads
    <2>3. Load(<<"rw", 0, k>>)' = NoMsg
      BY <1>1, <1>4, Loads
    <2>4. Load(<<"rt", 0, k>>)' = NoMsg
      BY <1>1, <1>4, Loads
    <2>5. Cargo(kind, k)' = NoMsg
      BY <2>1, <2>2, <2>3, <2>4 DEF Cargo
    <2> QED
      BY <1>1, <2>5 DEF Moving
  <1> QED
    BY <1>2, <1>3, <1>4

\* Places that a step leaves alone, or empties.
LEMMA StillStays ==
    ASSUME NEW kind \in Kinds, Still(kind, 0)
    PROVE  Stays(kind)
  <1> SUFFICES ASSUME NEW k \in Nat, Moving(kind, k)' PROVE Cargo(kind, k)' = Cargo(kind, k)
    BY DEF Stays
  <1>1. Load(<<kind, 0, k>>)' = Load(<<kind, 0, k>>) \/ Load(<<kind, 0, k>>)' = NoMsg
    BY StillLoads, Owners
  <1> QED
    BY <1>1 DEF Moving, Cargo, NoMsg

\* Variables that a step leaves alone.
LEMMA FirstStays ==
    /\ q'[0].items = q[0].items => Stays("queue")
    /\ toRouter'[0] = toRouter[0] => Stays("toRouter")
    /\ toClient'[0] = toClient[0] => Stays("toClient")
    /\ bridge'[0].writer = bridge[0].writer /\ bridge'[0].txn = bridge[0].txn => Stays("writer")
    /\ bridge'[0].writer # "send" => Stays("writer")
    /\ rr'[0].msg \in {rr[0].msg, NoMsg} => Stays("rr")
    /\ rw'[0].msg \in {rw[0].msg, NoMsg, DoneMsg} => Stays("rw")
    /\ rt'.msg \in {rt.msg, NoMsg, DoneMsg} => Stays("rt")
  <1>1. {"queue", "toRouter", "toClient", "writer", "rr", "rw", "rt"} \subseteq Kinds
    BY DEF Kinds
  <1>2. q'[0].items = q[0].items => Stays("queue")
    BY <1>1, StillStays DEF Still
  <1>3. toRouter'[0] = toRouter[0] => Stays("toRouter")
    BY <1>1, StillStays DEF Still
  <1>4. toClient'[0] = toClient[0] => Stays("toClient")
    BY <1>1, StillStays DEF Still
  <1>5. bridge'[0].writer = bridge[0].writer /\ bridge'[0].txn = bridge[0].txn => Stays("writer")
    BY <1>1, StillStays DEF Still, Sending
  <1>6. bridge'[0].writer # "send" => Stays("writer")
    BY <1>1, StillStays DEF Still, Sending
  <1>7. rr'[0].msg \in {rr[0].msg, NoMsg} => Stays("rr")
    BY <1>1, StillStays DEF Still
  <1>8. NoMsg.type # "TRANSACTION" /\ DoneMsg.type # "TRANSACTION"
    BY DEF NoMsg, DoneMsg
  <1>9. rw'[0].msg \in {rw[0].msg, NoMsg, DoneMsg} => Stays("rw")
    BY <1>8, HandCargo DEF Stays, Moving
  <1>10. rt'.msg \in {rt.msg, NoMsg, DoneMsg} => Stays("rt")
    BY <1>8, HandCargo DEF Stays, Moving
  <1> QED
    BY <1>2, <1>3, <1>4, <1>5, <1>6, <1>7, <1>9, <1>10

\* The first message of a socket is read.
LEMMA SocketAdvances ==
    ASSUME Shape, NEW kind \in {"toRouter", "toClient"},
           kind = "toRouter" => toRouter[0] # <<>> /\ toRouter'[0] = Tail(toRouter[0]),
           kind = "toClient" => toClient[0] # <<>> /\ toClient'[0] = Tail(toClient[0])
    PROVE  /\ Advances(kind)
           /\ kind = "toRouter" => Cargo(kind, 1) = Head(toRouter[0])
           /\ kind = "toClient" => Cargo(kind, 1) = Head(toClient[0])
  <1>1. /\ Load(<<kind, 0, 0>>)' = NoMsg
        /\ \A j \in Nat \ {0} : Load(<<kind, 0, j>>)' = Load(<<kind, 0, j + 1>>)
        /\ kind = "toRouter" => Load(<<kind, 0, 1>>) = Head(toRouter[0])
        /\ kind = "toClient" => Load(<<kind, 0, 1>>) = Head(toClient[0])
    BY ReadLoads, Owners
  <1> QED
    BY <1>1 DEF Advances, Moving, Cargo, NoMsg

\* The writer takes the first element of the queue.
LEMMA QueueAdvances ==
    ASSUME Shape, q[0].items # <<>>, q'[0].items = Tail(q[0].items)
    PROVE  /\ Advances("queue")
           /\ Cargo("queue", 1) = IF IsResponse(Head(q[0].items).msg) THEN Head(q[0].items).msg ELSE NoMsg
  <1>1. 0 \in Clients /\ q[0].items \in Seq(GoodEntry)
    BY Owners DEF Shape, QueuesInv, IsQueue
  <1>2. PICK s \in Seq(GoodEntry) : s = q[0].items /\ s # <<>> /\ q'[0].items = Tail(s)
    BY <1>1
  <1>3. /\ ResponseAt(Tail(s), 0) = NoMsg
        /\ ResponseAt(s, 1) = IF IsResponse(Head(s).msg) THEN Head(s).msg ELSE NoMsg
        /\ \A k \in Nat \ {0} : ResponseAt(Tail(s), k) = ResponseAt(s, k + 1)
    BY <1>2, TailAt
  <1>4. \A k \in Nat : Cargo("queue", k)' = ResponseAt(Tail(s), k)
    BY <1>1, <1>2, Loads DEF Cargo
  <1>5. \A k \in Nat : Cargo("queue", k) = ResponseAt(s, k)
    BY <1>1, <1>2, Loads DEF Cargo
  <1>6. Advances("queue")
    BY <1>3, <1>4, <1>5 DEF Advances, Moving, NoMsg
  <1> QED
    BY <1>2, <1>3, <1>5, <1>6

\* A message is written to a socket.
LEMMA SocketGrows ==
    ASSUME Shape, NEW kind \in {"toRouter", "toClient"}, NEW msg \in GoodMsg,
           kind = "toRouter" => toRouter'[0] = Append(toRouter[0], msg),
           kind = "toClient" => toClient'[0] = Append(toClient[0], msg)
    PROVE  /\ \E n \in Nat : \A k \in Nat : Moving(kind, k)' => \/ k < n /\ Cargo(kind, k)' = Cargo(kind, k)
                                                                \/ k = n /\ Cargo(kind, k)' = msg
           /\ msg.type # "TRANSACTION" => Stays(kind)
  <1>1. PICK s \in Seq(GoodMsg) : s = IF kind = "toRouter" THEN toRouter[0] ELSE toClient[0]
    BY Owners DEF Shape, SocketsInv
  <1>2. \A k \in Nat : Cargo(kind, k) = At(s, k)
    <2>1. \A k \in Nat : Load(<<"toRouter", 0, k>>) = At(toRouter[0], k)
      BY Loads, Owners
    <2>2. \A k \in Nat : Load(<<"toClient", 0, k>>) = At(toClient[0], k)
      BY Loads, Owners
    <2> QED
      BY <1>1, <2>1, <2>2 DEF Cargo
  <1>3. \A k \in Nat : Cargo(kind, k)' = At(Append(s, msg), k)
    <2>1. \A k \in Nat : Load(<<"toRouter", 0, k>>)' = At(toRouter'[0], k)
      BY Loads, Owners
    <2>2. \A k \in Nat : Load(<<"toClient", 0, k>>)' = At(toClient'[0], k)
      BY Loads, Owners
    <2> QED
      BY <1>1, <2>1, <2>2 DEF Cargo
  <1>4. PICK n \in Nat : n = Len(s) + 1 /\ DOMAIN s = 1 .. Len(s)
    OBVIOUS
  <1>5. \A k \in Nat : At(Append(s, msg), k) = IF k = n THEN msg ELSE At(s, k)
    BY <1>4, AppendAt
  <1>6. ASSUME NEW k \in Nat, Moving(kind, k)'
        PROVE  \/ k < n /\ Cargo(kind, k)' = Cargo(kind, k)
               \/ k = n /\ Cargo(kind, k)' = msg
    <2>1. At(s, k) # NoMsg => k < n
      BY <1>4 DEF At
    <2>2. Cargo(kind, k)' # NoMsg
      BY <1>6 DEF Moving, NoMsg
    <2> QED
      BY <1>2, <1>3, <1>5, <2>1, <2>2
  <1> QED
    BY <1>6 DEF Stays, Moving

\* A message is handed over, to somebody who holds one at a time.
LEMMA ToHand ==
    ASSUME NEW from \in Kinds, NEW to \in {"writer", "rr", "rw", "rt"}, Rank[from] = Rank[to] + 1,
           NEW i \in {0, 1}, \A kind \in Kinds \ {from, to} : Stays(kind),
           Moving(to, 0)' => Comes(to, 0, from, i),
           i = 1 => Advances(from), i = 0 => \A k \in Nat : ~Moving(from, k)'
    PROVE  Moves(from, i, to, 0)
  <1>1. \A k \in Nat : Moving(to, k)' => k = 0
    BY HandCargo
  <1>2. ASSUME NEW k \in Nat, Moving(from, k)' PROVE k + 1 > i /\ Cargo(from, k)' = Cargo(from, k + 1)
    BY <1>2 DEF Advances
  <1> QED
    BY <1>1, <1>2 DEF Moves

\* The steps that change the memory, the operations, the promises and route.
LEMMA StepFrames ==
    ASSUME NEW c \in Clients, ClientStep(c)
    PROVE  /\ mem' = mem \/ receiveRequest(c)
           /\ \/ ops' = ops \/ receiveResponse(c)
              \/ \E m \in masterMap(c), type \in ReqTypes, b \in Buffers : issue(m, type, b)
           /\ txns' = txns \/ writerRegister(c) \/ receiveResponse(c)
           /\ rt' = rt \/ routeLastTerminate(c) \/ routeResponse(c) \/ routeRequest(c)
  <1>1. CASE \E m \in masterMap(c) : \E type \in ReqTypes, b \in Buffers : issue(m, type, b)
    BY <1>1 DEF issue, routerVars
  <1>2. CASE \E m \in masterMap(c) : terminate(m)
    BY <1>2 DEF terminate, routerVars
  <1>3. CASE waitForCompletion(c) \/ disconnect(c) \/ writerWait(c) \/ spuriousWakeup(c)
    BY <1>3 DEF waitForCompletion, disconnect, writerWait, spuriousWakeup, routerVars, appVars
  <1>4. CASE writerTake(c) \/ writerStop(c) \/ writerSend(c) \/ writerLogout(c)
    BY <1>4 DEF writerTake, writerStop, writerSend, writerLogout, routerVars, appVars
  <1>5. CASE writerRegister(c)
    BY <1>5 DEF writerRegister, routerVars, appVars
  <1>6. CASE receiveDone(c) \/ readerNotify(c)
    BY <1>6 DEF receiveDone, readerNotify, routerVars, appVars
  <1>7. CASE receiveResponse(c)
    BY <1>7 DEF receiveResponse, routerVars
  <1>8. CASE receiveRequest(c)
    BY <1>8 DEF receiveRequest, routerVars, appVars
  <1>9. CASE clientRead(c) \/ clientWrite(c)
    BY <1>9 DEF clientRead, clientWrite, bridgeVars, appVars
  <1>10. CASE routeLastTerminate(c) \/ routeResponse(c) \/ routeRequest(c)
    BY <1>10 DEF routeLastTerminate, routeResponse, routeRequest, bridgeVars, appVars
  <1> QED
    BY <1>1, <1>2, <1>3, <1>4, <1>5, <1>6, <1>7, <1>8, <1>9, <1>10 DEF ClientStep

\* The steps of the other clients leave the line and the bus alone.
LEMMA OthersLeave ==
    ASSUME OneMaster, CalmInv, NEW c \in Clients \ {0}, ClientStep(c)
    PROVE  /\ UNCHANGED <<ops, txns, mem, rt>>
           /\ q'[0].items = q[0].items /\ bridge'[0] = bridge[0] /\ toRouter'[0] = toRouter[0]
           /\ toClient'[0] = toClient[0] /\ rr'[0] = rr[0] /\ rw'[0] = rw[0]
  <1>1. Shape /\ IdleInv /\ Idle(c) /\ 0 \in Clients
    BY Owners DEF CalmInv, IdleInv
  <1>2. masterMap(c) = {}
    BY TheMaster
  <1>3. ~writerRegister(c)
    BY <1>1 DEF writerRegister, Idle, Silent
  <1>4. ~routeLastTerminate(c) /\ ~routeResponse(c) /\ ~routeRequest(c)
    BY <1>1 DEF routeLastTerminate, routeResponse, routeRequest, Incoming, Idle, Silent
  <1>5. ~receiveResponse(c)
    BY <1>1, ReceivedByFirst DEF receiveResponse, Receiving, IsResponse
  <1>6. ~receiveRequest(c)
    BY <1>1, ReceivedByFirst DEF receiveRequest, Receiving, IsRequest
  <1>7. UNCHANGED <<ops, txns, mem, rt>>
    BY <1>2, <1>3, <1>4, <1>5, <1>6, StepFrames
  <1>8. /\ q'[0].items = q[0].items /\ bridge'[0] = bridge[0] /\ toRouter'[0] = toRouter[0]
        /\ toClient'[0] = toClient[0] /\ rr'[0] = rr[0] /\ rw'[0] = rw[0]
    BY <1>1, OthersSame
  <1> QED
    BY <1>7, <1>8

\* So do the steps of route and of the router process, but for the line.
LEMMA RouterLeaves ==
    ASSUME RouterStep
    PROVE  UNCHANGED <<ops, txns, mem, q, bridge, toRouter, toClient, rr>>
  BY DEF RouterStep, routeSend, sendDone, routerExit, vars, bridgeVars, appVars, routerVars

Glides == OrderInv' /\ Carried

\* Nothing in the line moves.
LEMMA AllStay ==
    ASSUME OrderInv, Stays("queue"), Stays("toRouter"), Stays("toClient"), Stays("writer"),
           Stays("rr"), Stays("rw"), Stays("rt")
    PROVE  Glides
  <1>1. \A kind \in Kinds : Stays(kind) \/ Advances(kind)
    BY DEF Kinds
  <1> QED
    BY <1>1, ShrinkCarries DEF Glides

\* The application, and the threads when they do not move a message.
LEMMA QuietGlides ==
    ASSUME Shape, OrderInv,
           \/ \E m \in masterMap(0) :
                (\E type \in ReqTypes, b \in Buffers : issue(m, type, b)) \/ terminate(m)
           \/ waitForCompletion(0) \/ disconnect(0)
           \/ writerWait(0) \/ spuriousWakeup(0) \/ writerStop(0) \/ readerNotify(0)
    PROVE  Glides
  <1>0. 0 \in Clients /\ "queue" \in Kinds
    BY Owners DEF Kinds
  <1>1. ASSUME NEW e \in GoodEntry, Push(0, e), ~IsResponse(e.msg),
               UNCHANGED <<bridge, toRouter, toClient, rr, rw, rt>>
        PROVE  Glides
    <2>1. Stays("queue")
      BY <1>0, <1>1, PushStill, StillStays
    <2> QED
      BY <1>1, <2>1, AllStay, FirstStays
  <1>2. CASE \E m \in masterMap(0) : \E type \in ReqTypes, b \in Buffers : issue(m, type, b)
    <2>1. PICK m \in masterMap(0), type \in ReqTypes, b \in Buffers : issue(m, type, b)
      BY <1>2
    <2>2. /\ \E e \in GoodEntry : /\ Push(0, e) /\ IsRequest(e.msg)
                                  /\ e.msg.txn.initiator = m /\ e.op = Len(ops[0]) + 1
          /\ UNCHANGED <<terminated, bridge, txns, toRouter, toClient, rr, rw, rt, masterCount, up>>
      BY <1>0, <2>1, IssueEffect, Zenon
    <2>3. PICK e \in GoodEntry : Push(0, e) /\ IsRequest(e.msg)
      BY <2>2
    <2>4. ~IsResponse(e.msg)
      BY <2>3 DEF IsRequest, IsResponse, ReqTypes, RespTypes
    <2> QED
      BY <1>1, <2>2, <2>3, <2>4
  <1>3. CASE \E m \in masterMap(0) : terminate(m)
    <2>1. PICK m \in masterMap(0) : terminate(m)
      BY <1>3
    <2>2. /\ \E e \in GoodEntry : Push(0, e) /\ e.msg = TerminateMsg(m) /\ e.msg.type = "TERMINATE"
          /\ UNCHANGED <<ops, bridge, txns, toRouter, toClient, rr, rw, rt, masterCount, up>>
      BY <1>0, <2>1, TerminateEffect, Zenon
    <2>3. PICK e \in GoodEntry : Push(0, e) /\ e.msg.type = "TERMINATE"
      BY <2>2
    <2>4. ~IsResponse(e.msg)
      BY <2>3 DEF IsResponse
    <2> QED
      BY <1>1, <2>2, <2>3, <2>4
  <1>4. CASE waitForCompletion(0) \/ disconnect(0)
    <2>1. /\ SameRoute /\ UNCHANGED <<q, toRouter, toClient, rr, rw>>
          /\ bridge'[0].writer = bridge[0].writer /\ bridge'[0].txn = bridge[0].txn
      BY <1>0, <1>4, JoinEffect
    <2> QED
      BY <2>1, AllStay, FirstStays DEF SameRoute
  <1>5. CASE writerWait(0) \/ spuriousWakeup(0)
    <2>1. SameRoute /\ UNCHANGED <<bridge, toRouter, toClient, rr, rw>> /\ q'[0].items = q[0].items
      BY <1>0, <1>5, WaitEffect
    <2> QED
      BY <2>1, AllStay, FirstStays DEF SameRoute
  <1>6. CASE writerStop(0)
    <2>1. /\ SameRoute /\ UNCHANGED <<toRouter, toClient, rr, rw>>
          /\ q'[0].items = q[0].items /\ bridge'[0].writer = "logout"
      BY <1>0, <1>6, StopEffect
    <2> QED
      BY <2>1, AllStay, FirstStays DEF SameRoute
  <1>7. CASE readerNotify(0)
    <2>1. /\ SameRoute /\ UNCHANGED <<toRouter, toClient, rr, rw>> /\ q'[0].items = q[0].items
          /\ bridge'[0].writer = bridge[0].writer /\ bridge'[0].txn = bridge[0].txn
      BY <1>0, <1>7, NotifyEffect
    <2> QED
      BY <2>1, AllStay, FirstStays DEF SameRoute
  <1> QED
    BY <1>2, <1>3, <1>4, <1>5, <1>6, <1>7

\* The same message comes to another place.
LEMMA SameComes ==
    ASSUME NEW a, NEW j, NEW b, NEW i, Moving(a, j)', Cargo(a, j)' = Cargo(b, i)
    PROVE  Comes(a, j, b, i)
  BY DEF Comes, Moving

\* Bridge::writer.
LEMMA WriterGlides ==
    ASSUME Shape, OrderInv, writerTake(0) \/ writerSend(0) \/ writerLogout(0)
    PROVE  Glides
  <1>0. 0 \in Clients
    BY Owners
  <1>1. CASE writerTake(0)
    <2>1. /\ SameRoute /\ UNCHANGED <<toRouter, toClient, rr, rw>>
          /\ q[0].items # <<>> /\ Head(q[0].items) \in GoodEntry
          /\ q'[0].items = Tail(q[0].items) /\ bridge'[0].txn = Head(q[0].items)
          /\ bridge'[0].writer = IF IsRequest(Head(q[0].items).msg) THEN "register" ELSE "send"
      BY <1>0, <1>1, TakeEffect
    <2>2. /\ Advances("queue")
          /\ Cargo("queue", 1) = IF IsResponse(Head(q[0].items).msg) THEN Head(q[0].items).msg ELSE NoMsg
      BY <2>1, QueueAdvances
    <2>3. Stays("toRouter") /\ Stays("toClient") /\ Stays("rr") /\ Stays("rw") /\ Stays("rt")
      BY <2>1, FirstStays DEF SameRoute
    <2>4. \A kind \in Kinds \ {"queue", "writer"} : Stays(kind)
      BY <2>3 DEF Kinds
    <2>5. ASSUME Moving("writer", 0)' PROVE Cargo("writer", 0)' = Cargo("queue", 1)
      <3>1. Cargo("writer", 0)' = IF bridge'[0].writer = "send" THEN Head(q[0].items).msg ELSE NoMsg
        BY <2>1, HandCargo DEF Sending
      <3>2. Head(q[0].items).msg.type = "TRANSACTION" /\ ~IsRequest(Head(q[0].items).msg)
        BY <2>1, <2>5, <3>1 DEF Moving, NoMsg
      <3>3. IsResponse(Head(q[0].items).msg)
        BY <2>1, <3>2, EntryFacts, GoodMsgFacts, TxnFields DEF IsRequest, IsResponse
      <3> QED
        BY <2>1, <2>2, <3>1, <3>2, <3>3
    <2>6. Rank["queue"] = Rank["writer"] + 1 /\ "queue" \in Kinds /\ "writer" \in Kinds
      BY Ranks DEF Kinds
    <2>7. Moving("writer", 0)' => Comes("writer", 0, "queue", 1)
      BY <2>5, SameComes
    <2>8. Moves("queue", 1, "writer", 0)
      BY <2>2, <2>4, <2>6, <2>7, ToHand
    <2> QED
      BY <2>5, <2>6, <2>8, MoveKeepsOrder, MoveCarries DEF Glides
  <1>2. CASE writerSend(0) \/ writerLogout(0)
    <2>1. /\ SameRoute /\ UNCHANGED <<q, toClient, rr, rw>> /\ toRouter[0] \in Seq(GoodMsg)
          /\ \/ /\ bridge[0].writer = "send" /\ bridge'[0].writer = "pop" /\ bridge[0].txn.msg \in GoodMsg
                /\ toRouter'[0] = Append(toRouter[0], bridge[0].txn.msg)
             \/ /\ bridge[0].writer = "logout" /\ bridge'[0].writer = "exited"
                /\ toRouter'[0] = Append(toRouter[0], DoneMsg)
      BY <1>0, <1>2, SendEffect
    <2>2. Stays("queue") /\ Stays("toClient") /\ Stays("rr") /\ Stays("rw") /\ Stays("rt") /\ Stays("writer")
      BY <2>1, FirstStays DEF SameRoute
    <2>3. CASE toRouter'[0] = Append(toRouter[0], DoneMsg)
      <3>1. DoneMsg \in GoodMsg /\ DoneMsg.type # "TRANSACTION"
        BY GoodMsgFacts DEF DoneMsg
      <3>2. Stays("toRouter")
        BY <2>3, <3>1, SocketGrows
      <3> QED
        BY <2>2, <3>2, AllStay
    <2>4. CASE /\ bridge[0].writer = "send" /\ bridge'[0].writer = "pop" /\ bridge[0].txn.msg \in GoodMsg
               /\ toRouter'[0] = Append(toRouter[0], bridge[0].txn.msg)
      <3>1. Cargo("writer", 0) = bridge[0].txn.msg /\ Cargo("writer", 0)' = NoMsg
        BY <2>4, HandCargo DEF Sending
      <3>2. PICK n \in Nat : \A k \in Nat :
              Moving("toRouter", k)' => \/ k < n /\ Cargo("toRouter", k)' = Cargo("toRouter", k)
                                        \/ k = n /\ Cargo("toRouter", k)' = Cargo("writer", 0)
        BY <2>4, <3>1, SocketGrows
      <3>3. \A k \in Nat : ~Moving("writer", k)'
        BY <3>1, HandCargo DEF Moving, NoMsg
      <3>4. \A kind \in Kinds \ {"writer", "toRouter"} : Stays(kind)
        BY <2>2 DEF Kinds
      <3>5. Rank["writer"] = Rank["toRouter"] + 1 /\ "toRouter" \in Kinds /\ "writer" \in Kinds
        BY Ranks DEF Kinds
      <3>6. \A k \in Nat : Moving("toRouter", k)' /\ Cargo("toRouter", k)' = Cargo("writer", 0)
              => Comes("toRouter", k, "writer", 0)
        BY SameComes
      <3>7. Moves("writer", 0, "toRouter", n)
        BY <3>2, <3>3, <3>4, <3>5, <3>6, Zenon DEF Moves
      <3> QED
        BY <3>2, <3>5, <3>7, MoveKeepsOrder, MoveCarries DEF Glides
    <2> QED
      BY <2>1, <2>3, <2>4
  <1> QED
    BY <1>1, <1>2

\* The goroutines of the router for the first client, and the end of its reader.
LEMMA GoroutinesGlide ==
    ASSUME Shape, OrderInv, clientRead(0) \/ clientWrite(0) \/ receiveDone(0)
    PROVE  Glides
  <1>0. 0 \in Clients /\ NoMsg.type # "TRANSACTION"
    BY Owners DEF NoMsg
  <1>1. CASE clientRead(0)
    <2>1. /\ SameRoute /\ UNCHANGED <<q, bridge, toClient, rw>>
          /\ toRouter[0] # <<>> /\ toRouter'[0] = Tail(toRouter[0])
          /\ Head(toRouter[0]).type = "DONE" => rr'[0].msg = NoMsg
          /\ Head(toRouter[0]).type # "DONE" => rr'[0].msg = Head(toRouter[0])
      BY <1>0, <1>1, ReadEffect
    <2>2. Advances("toRouter") /\ Cargo("toRouter", 1) = Head(toRouter[0])
      BY <2>1, SocketAdvances
    <2>3. Stays("queue") /\ Stays("writer") /\ Stays("toClient") /\ Stays("rw") /\ Stays("rt")
      BY <2>1, FirstStays DEF SameRoute
    <2>4. \A kind \in Kinds \ {"toRouter", "rr"} : Stays(kind)
      BY <2>3 DEF Kinds
    <2>5. Moving("rr", 0)' => Cargo("rr", 0)' = Cargo("toRouter", 1)
      BY <1>0, <2>1, <2>2, HandCargo DEF Moving
    <2>6. Rank["toRouter"] = Rank["rr"] + 1 /\ "toRouter" \in Kinds /\ "rr" \in Kinds
      BY Ranks DEF Kinds
    <2>7. Moving("rr", 0)' => Comes("rr", 0, "toRouter", 1)
      BY <2>5, SameComes
    <2>8. Moves("toRouter", 1, "rr", 0)
      BY <2>2, <2>4, <2>6, <2>7, ToHand
    <2> QED
      BY <2>5, <2>6, <2>8, MoveKeepsOrder, MoveCarries DEF Glides
  <1>2. CASE clientWrite(0)
    <2>1. /\ SameRoute /\ UNCHANGED <<q, bridge, toRouter, rr>> /\ rw[0].msg \in GoodMsg
          /\ toClient'[0] = Append(toClient[0], rw[0].msg) /\ rw'[0].msg = NoMsg
      BY <1>0, <1>2, WriteEffect
    <2>2. Stays("queue") /\ Stays("writer") /\ Stays("toRouter") /\ Stays("rr") /\ Stays("rt")
      BY <2>1, FirstStays DEF SameRoute
    <2>3. Cargo("rw", 0) = rw[0].msg /\ Cargo("rw", 0)' = NoMsg
      BY <2>1, HandCargo
    <2>4. PICK n \in Nat : \A k \in Nat :
            Moving("toClient", k)' => \/ k < n /\ Cargo("toClient", k)' = Cargo("toClient", k)
                                      \/ k = n /\ Cargo("toClient", k)' = Cargo("rw", 0)
      BY <2>1, <2>3, SocketGrows
    <2>5. \A k \in Nat : ~Moving("rw", k)'
      BY <1>0, <2>3, HandCargo DEF Moving
    <2>6. \A kind \in Kinds \ {"rw", "toClient"} : Stays(kind)
      BY <2>2 DEF Kinds
    <2>7. Rank["rw"] = Rank["toClient"] + 1 /\ "toClient" \in Kinds /\ "rw" \in Kinds
      BY Ranks DEF Kinds
    <2>8. \A k \in Nat : Moving("toClient", k)' /\ Cargo("toClient", k)' = Cargo("rw", 0)
            => Comes("toClient", k, "rw", 0)
      BY SameComes
    <2>9. Moves("rw", 0, "toClient", n)
      BY <2>4, <2>5, <2>6, <2>7, <2>8, Zenon DEF Moves
    <2> QED
      BY <2>4, <2>7, <2>9, MoveKeepsOrder, MoveCarries DEF Glides
  <1>3. CASE receiveDone(0)
    <2>1. /\ SameRoute /\ UNCHANGED <<toRouter, rr, rw>> /\ q'[0].items = q[0].items
          /\ toClient[0] # <<>> /\ toClient'[0] = Tail(toClient[0])
          /\ bridge'[0].writer = bridge[0].writer /\ bridge'[0].txn = bridge[0].txn
      BY <1>0, <1>3, EndEffect
    <2>2. Advances("toClient")
      BY <2>1, SocketAdvances
    <2>3. Stays("queue") /\ Stays("writer") /\ Stays("toRouter") /\ Stays("rr") /\ Stays("rw") /\ Stays("rt")
      BY <2>1, FirstStays DEF SameRoute
    <2>4. \A kind \in Kinds : Stays(kind) \/ Advances(kind)
      BY <2>2, <2>3 DEF Kinds
    <2> QED
      BY <2>4, ShrinkCarries DEF Glides
  <1> QED
    BY <1>1, <1>2, <1>3

\* The goroutine route takes a message: what it keeps is that one or its error.
LEMMA RouteMoves ==
    ASSUME Shape, routeLastTerminate(0) \/ routeResponse(0) \/ routeRequest(0)
    PROVE  /\ Stays("queue") /\ Stays("writer") /\ Stays("toRouter") /\ Stays("toClient") /\ Stays("rw")
           /\ Cargo("rr", 0) = rr[0].msg /\ Cargo("rt", 0)' = rt'.msg
           /\ \A k \in Nat : ~Moving("rr", k)'
           /\ (Moving("rt", 0)' => Comes("rt", 0, "rr", 0)) => Moves("rr", 0, "rt", 0)
  <1>0. 0 \in Clients /\ NoMsg.type # "TRANSACTION"
    BY Owners DEF NoMsg
  <1>1. UNCHANGED <<q, bridge, toRouter, toClient, rw>> /\ rr'[0].msg = NoMsg
    BY <1>0, RouteEffect
  <1>2. Stays("queue") /\ Stays("writer") /\ Stays("toRouter") /\ Stays("toClient") /\ Stays("rw")
    BY <1>1, FirstStays
  <1>3. \A kind \in Kinds \ {"rr", "rt"} : Stays(kind)
    BY <1>2 DEF Kinds
  <1>4. Cargo("rr", 0) = rr[0].msg /\ Cargo("rt", 0)' = rt'.msg /\ Cargo("rr", 0)' = NoMsg
    BY <1>1, HandCargo
  <1>5. \A k \in Nat : ~Moving("rr", k)'
    BY <1>0, <1>4, HandCargo DEF Moving
  <1>6. Rank["rr"] = Rank["rt"] + 1 /\ "rt" \in Kinds /\ "rr" \in Kinds
    BY Ranks DEF Kinds
  <1>7. (Moving("rt", 0)' => Comes("rt", 0, "rr", 0)) => Moves("rr", 0, "rt", 0)
    BY <1>3, <1>5, <1>6, ToHand
  <1> QED
    BY <1>2, <1>4, <1>5, <1>7

\* Router.route, but for requests.
LEMMA RouteGlides ==
    ASSUME Shape, OrderInv, routeLastTerminate(0) \/ routeResponse(0)
    PROVE  Glides
  <1>1. /\ Cargo("rr", 0) = rr[0].msg /\ Cargo("rt", 0)' = rt'.msg
        /\ (Moving("rt", 0)' => Comes("rt", 0, "rr", 0)) => Moves("rr", 0, "rt", 0)
    BY RouteMoves
  <1>2. Moving("rt", 0)' => Cargo("rt", 0)' = Cargo("rr", 0) /\ Cargo("rr", 0).txn.type \in RespTypes
    <2>1. CASE routeLastTerminate(0)
      <3>1. rt'.msg = DoneMsg
        BY <2>1 DEF routeLastTerminate
      <3> QED
        BY <1>1, <3>1 DEF Moving, DoneMsg
    <2>2. CASE routeResponse(0)
      <3>1. rt'.msg = rr[0].msg /\ IsResponse(rr[0].msg)
        BY <2>2 DEF routeResponse, Outgoing
      <3> QED
        BY <1>1, <3>1 DEF IsResponse
    <2> QED
      BY <2>1, <2>2
  <1>3. Moving("rt", 0)' => Comes("rt", 0, "rr", 0)
    BY <1>2, SameComes
  <1>4. "rr" \in Kinds /\ "rt" \in Kinds
    BY DEF Kinds
  <1> QED
    BY <1>1, <1>2, <1>3, <1>4, MoveKeepsOrder, MoveCarries DEF Glides

\* The goroutine route hands a message over, or the router ends.
LEMMA HandOverGlides ==
    ASSUME CalmInv, OrderInv, RouterStep
    PROVE  Glides
  <1>0. 0 \in Clients /\ NoMsg.type # "TRANSACTION" /\ Shape
    BY Owners DEF NoMsg, CalmInv
  <1>1. UNCHANGED <<ops, txns, mem, q, bridge, toRouter, toClient, rr>>
    BY RouterLeaves
  <1>2. Stays("queue") /\ Stays("writer") /\ Stays("toRouter") /\ Stays("toClient") /\ Stays("rr")
    BY <1>1, FirstStays
  <1>3. CASE routeSend
    <2>1. rt.client = 0
      BY <1>3 DEF CalmInv, IdleInv, routeSend
    <2>2. rw'[0].msg = rt.msg /\ rt'.msg = NoMsg
      BY <1>0, <1>3, <2>1 DEF routeSend, Shape, RouterInv
    <2>3. Cargo("rw", 0)' = Cargo("rt", 0) /\ Cargo("rt", 0)' = NoMsg
      BY <2>2, HandCargo
    <2>4. \A k \in Nat : ~Moving("rt", k)'
      BY <1>0, <2>3, HandCargo DEF Moving
    <2>5. \A kind \in Kinds \ {"rt", "rw"} : Stays(kind)
      BY <1>2 DEF Kinds
    <2>6. Rank["rt"] = Rank["rw"] + 1 /\ "rt" \in Kinds /\ "rw" \in Kinds
      BY Ranks DEF Kinds
    <2>7. Moving("rw", 0)' => Comes("rw", 0, "rt", 0)
      BY <2>3, SameComes
    <2>8. Moves("rt", 0, "rw", 0)
      BY <2>4, <2>5, <2>6, <2>7, ToHand
    <2> QED
      BY <2>3, <2>6, <2>8, MoveKeepsOrder, MoveCarries DEF Glides
  <1>4. CASE sendDone
    <2>1. rw'[0].msg \in {rw[0].msg, DoneMsg} /\ rt'.msg \in {rt.msg, NoMsg}
      BY <1>0, <1>4 DEF sendDone, Shape, RouterInv
    <2> QED
      BY <1>2, <2>1, AllStay, FirstStays
  <1>5. CASE routerExit \/ UNCHANGED vars
    <2>1. UNCHANGED <<rw, rt>>
      BY <1>5, RestEffect
    <2> QED
      BY <1>2, <2>1, AllStay, FirstStays
  <1> QED
    BY <1>3, <1>4, <1>5 DEF RouterStep

\* Every step but four moves the line without changing a message.
LEMMA MostGlide ==
    ASSUME OneMaster, CalmInv, OrderInv, (\E c \in Clients : ClientStep(c)) \/ RouterStep
    PROVE  Glides \/ writerRegister(0) \/ receiveRequest(0) \/ receiveResponse(0) \/ routeRequest(0)
  <1>0. Shape
    BY DEF CalmInv
  <1>1. CASE RouterStep
    BY <1>1, HandOverGlides
  <1>2. CASE \E c \in Clients \ {0} : ClientStep(c)
    <2>1. PICK c \in Clients \ {0} : ClientStep(c)
      BY <1>2
    <2>2. /\ UNCHANGED <<ops, txns, mem, rt>>
          /\ q'[0].items = q[0].items /\ bridge'[0] = bridge[0] /\ toRouter'[0] = toRouter[0]
          /\ toClient'[0] = toClient[0] /\ rr'[0] = rr[0] /\ rw'[0] = rw[0]
      BY <2>1, OthersLeave
    <2> QED
      BY <2>2, AllStay, FirstStays
  <1>3. CASE ClientStep(0)
    BY <1>0, <1>3, QuietGlides, WriterGlides, GoroutinesGlide, RouteGlides, Zenon DEF ClientStep
  <1> QED
    BY <1>1, <1>2, <1>3
-----------------------------------------------------------------------------
(* What the messages mean *)

\* The promises of a state: two are different in operation and id, and their
\* operations have been issued.
LEMMA Promises ==
    OneMaster /\ CalmInv =>
      /\ \A m \in Masters : \A e, f \in txns[m] : e.op = f.op \/ e.id = f.id => e = f
      /\ \A m \in Masters : \A e \in txns[m] :
           /\ e.op \in DOMAIN ops[0] /\ ops[0][e.op].status = "pending"
           /\ e.id \in Nat /\ e.op \in Nat /\ e.id < lastTxnId[m] /\ lastTxnId[m] \in Nat
      /\ \A m \in Masters : \A kind \in Kinds, k \in Nat :
           Moving(kind, k) => Cargo(kind, k).txn.id < lastTxnId[m]
  <1> SUFFICES ASSUME OneMaster, CalmInv, NEW m \in Masters
               PROVE  /\ \A e, f \in txns[m] : e.op = f.op \/ e.id = f.id => e = f
                      /\ \A e \in txns[m] :
                           /\ e.op \in DOMAIN ops[0] /\ ops[0][e.op].status = "pending"
                           /\ e.id \in Nat /\ e.op \in Nat /\ e.id < lastTxnId[m] /\ lastTxnId[m] \in Nat
                      /\ \A kind \in Kinds, k \in Nat :
                           Moving(kind, k) => Cargo(kind, k).txn.id < lastTxnId[m]
    BY Zenon
  <1>1. m \in masterMap(0) /\ 0 \in Clients
    BY TheMaster, Owners
  <1>2. TxnWaits(m, 0)
    BY <1>1 DEF CalmInv, PendingInv
  <1>3. \A e, f \in txns[m] : e.op = f.op \/ e.id = f.id => e = f
    BY <1>2 DEF TxnWaits
  <1>4. ASSUME NEW e \in txns[m]
        PROVE  /\ e.op \in DOMAIN ops[0] /\ ops[0][e.op].status = "pending"
               /\ e.id \in Nat /\ e.op \in Nat /\ e.id < lastTxnId[m] /\ lastTxnId[m] \in Nat
    <2>1. Waits(ops[0], m, e.op)
      BY <1>2 DEF TxnWaits
    <2>2. e \in [id : Nat, op : 1 .. MaxOps] /\ lastTxnId[m] \in Nat
      BY DEF CalmInv, Shape, TablesInv
    <2>3. e.id \in Ids(m)
      BY DEF Ids
    <2>4. e.id < lastTxnId[m]
      BY <2>3 DEF CalmInv, PlacesInv, FreshIds
    <2> QED
      BY <2>1, <2>2, <2>4, BoundsAssumption DEF Waits
  <1>5. ASSUME NEW kind \in Kinds, NEW k \in Nat, Moving(kind, k)
        PROVE  Cargo(kind, k).txn.id < lastTxnId[m]
    <2>1. PICK e \in txns[m] : e.id = Cargo(kind, k).txn.id
      BY <1>5, LineApart DEF CalmInv, PlacesInv
    <2> QED
      BY <1>4, <2>1
  <1> QED
    BY <1>3, <1>4, <1>5

\* A message that is brought to another place means what it meant.
LEMMA BroughtMeans ==
    ASSUME MeansInv, NEW a \in Kinds, NEW j \in Nat, NEW b \in Kinds, NEW i \in Nat, Brings(a, j, b, i),
           NEW m \in Masters, NEW e \in txns[m], e.id = Cargo(a, j)'.txn.id
    PROVE  Means(a, Cargo(a, j)'.txn, ops[0][e.op])
  <1>1. Cargo(a, j)' = Cargo(b, i) /\ Moving(b, i)
    BY DEF Brings
  <1>2. Means(b, Cargo(b, i).txn, ops[0][e.op])
    BY <1>1 DEF MeansInv
  <1>3. PICK t, op : t = Cargo(b, i).txn /\ op = ops[0][e.op]
    OBVIOUS
  <1>4. /\ Means(b, t, op) /\ (a = "queue" => b = "queue")
        /\ Rank[a] <= 3 => Rank[b] <= 3 \/ t.type \in RespTypes
    BY <1>2, <1>3 DEF Brings
  <1>5. Means(a, t, op)
    BY <1>4 DEF Means, ReqTypes, RespTypes
  <1> QED
    BY <1>1, <1>3, <1>5

\* What is only carried means what it meant.
LEMMA CarriedMeans ==
    ASSUME MeansInv, Carried,
           \A m \in Masters : \A e \in txns'[m] : e \in txns[m] /\ ops'[0][e.op] = ops[0][e.op]
    PROVE  MeansInv'
  <1> SUFFICES ASSUME NEW a \in Kinds, NEW j \in Nat, Moving(a, j)', NEW m \in Masters,
                      NEW e \in txns'[m], e.id = Cargo(a, j)'.txn.id
               PROVE  Means(a, Cargo(a, j)'.txn, ops'[0][e.op])
    BY Zenon DEF MeansInv
  <1>1. PICK b \in Kinds, i \in Nat : Brings(a, j, b, i)
    BY DEF Carried
  <1>2. e \in txns[m] /\ ops'[0][e.op] = ops[0][e.op]
    OBVIOUS
  <1>3. Means(a, Cargo(a, j)'.txn, ops[0][e.op])
    BY <1>1, <1>2, BroughtMeans
  <1> QED
    BY <1>2, <1>3

\* One message is new at its place, and the others are brought to theirs.
LEMMA NewMeans ==
    ASSUME MeansInv, txns' = txns, ops' = ops, NEW to \in Kinds, NEW n \in Nat,
           \A a \in Kinds, j \in Nat :
             Moving(a, j)' /\ (a # to \/ j # n) => \E b \in Kinds, i \in Nat : Brings(a, j, b, i),
           \A m \in Masters : \A e \in txns[m] :
             e.id = Cargo(to, n)'.txn.id => Means(to, Cargo(to, n)'.txn, ops[0][e.op])
    PROVE  MeansInv'
  <1> SUFFICES ASSUME NEW a \in Kinds, NEW j \in Nat, Moving(a, j)', NEW m \in Masters,
                      NEW e \in txns[m], e.id = Cargo(a, j)'.txn.id
               PROVE  Means(a, Cargo(a, j)'.txn, ops[0][e.op])
    BY Zenon DEF MeansInv
  <1>1. CASE a = to /\ j = n
    BY <1>1
  <1>2. CASE a # to \/ j # n
    <2>1. PICK b \in Kinds, i \in Nat : Brings(a, j, b, i)
      BY <1>2, Zenon
    <2> QED
      BY <2>1, BroughtMeans
  <1> QED
    BY <1>1, <1>2

\* Places that are left alone, or move up, bring what they hold.
LEMMA StaysBrings ==
    ASSUME NEW a \in Kinds, NEW j \in Nat, Moving(a, j)', Stays(a) \/ Advances(a)
    PROVE  \E b \in Kinds, i \in Nat : Brings(a, j, b, i)
  <1>1. PICK i \in Nat : Cargo(a, j)' = Cargo(a, i)
    BY DEF Stays, Advances
  <1>2. Brings(a, j, a, i)
    BY <1>1 DEF Brings, Moving
  <1> QED
    BY <1>2

\* Everything that is at place (a, j) after a step was somewhere before.
Kept1(a, j) == \E b \in Kinds, i \in Nat : Moving(b, i) /\ Cargo(a, j)' = Cargo(b, i)

\* A response that was there and still has its promise is still there.
LEMMA StillTold ==
    ASSUME OneMaster, CalmInv, CalmInv', NotLost', NEW m \in Masters, NEW e \in txns[m], e \in txns'[m],
           NEW b \in Kinds, NEW i \in Nat, Replies(b, i, e),
           \A a \in Kinds, j \in Nat : Moving(a, j)' /\ Cargo(a, j)'.txn.id = e.id => Kept1(a, j)
    PROVE  \E a \in Kinds, j \in Nat : Replies(a, j, e)' /\ Cargo(a, j)' = Cargo(b, i)
  <1>1. PICK a \in Kinds, j \in Nat : Moving(a, j)' /\ Cargo(a, j)'.txn.id = e.id
    <2>1. \E kind \in Kinds, k \in Nat : Moving(kind, k)' /\ Cargo(kind, k)'.txn.id = e.id
      BY InNextLine, Zenon
    <2> QED
      BY <2>1, Zenon
  <1>2. PICK c \in Kinds, l \in Nat : Moving(c, l) /\ Cargo(a, j)' = Cargo(c, l)
    BY <1>1 DEF Kept1
  <1>3. Moving(b, i) /\ Cargo(b, i).txn.id = e.id /\ IsResponse(Cargo(b, i))
    BY DEF Replies, Moving, IsResponse
  <1>4. c = b /\ l = i
    BY <1>1, <1>2, <1>3, LineApart DEF CalmInv, PlacesInv
  <1> QED
    BY <1>1, <1>2, <1>3, <1>4 DEF Replies

\* What is only carried tells the same.
LEMMA ToldKept ==
    ASSUME OneMaster, CalmInv, CalmInv', NotLost', txns' = txns,
           \A a \in Kinds, j \in Nat : Moving(a, j)' => Kept1(a, j)
    PROVE  \A x : Told(x)' <=> Told(x)
  <1>1. ASSUME NEW x, Told(x)' PROVE Told(x)
    <2>0. PICK m \in Masters : \E e \in txns'[m] : \E a \in Kinds, j \in Nat :
            Replies(a, j, e)' /\ x = Result(e, Cargo(a, j)'.txn)
      BY <1>1 DEF Told
    <2>1. PICK e \in txns'[m], a \in Kinds, j \in Nat :
            Replies(a, j, e)' /\ x = Result(e, Cargo(a, j)'.txn)
      BY <2>0
    <2>2. Moving(a, j)'
      BY <2>1 DEF Replies, Moving, IsResponse
    <2>3. PICK b \in Kinds, i \in Nat : Moving(b, i) /\ Cargo(a, j)' = Cargo(b, i)
      BY <2>2 DEF Kept1
    <2>4. Replies(b, i, e) /\ x = Result(e, Cargo(b, i).txn) /\ e \in txns[m]
      BY <2>1, <2>3 DEF Replies
    <2> QED
      BY <2>4 DEF Told
  <1>2. ASSUME NEW x, Told(x) PROVE Told(x)'
    <2>0. PICK m \in Masters : \E e \in txns[m] : \E b \in Kinds, i \in Nat :
            Replies(b, i, e) /\ x = Result(e, Cargo(b, i).txn)
      BY <1>2 DEF Told
    <2>1. PICK e \in txns[m], b \in Kinds, i \in Nat :
            Replies(b, i, e) /\ x = Result(e, Cargo(b, i).txn)
      BY <2>0
    <2>2. PICK a \in Kinds, j \in Nat : Replies(a, j, e)' /\ Cargo(a, j)' = Cargo(b, i)
      BY <2>1, StillTold
    <2>3. e \in txns'[m] /\ x = Result(e, Cargo(a, j)'.txn)
      BY <2>1, <2>2
    <2> QED
      BY <2>2, <2>3 DEF Told
  <1> QED
    BY <1>1, <1>2

\* A request becomes a response, and the others are only carried.
LEMMA ToldGrows ==
    ASSUME OneMaster, CalmInv, CalmInv', NotLost', txns' = txns,
           NEW m \in Masters, NEW e \in txns[m],
           NEW from \in Kinds, NEW i \in Nat, IsRequest(Cargo(from, i)), Cargo(from, i).txn.id = e.id,
           NEW to \in Kinds, NEW n \in Nat, Replies(to, n, e)',
           \A a \in Kinds, j \in Nat : Moving(a, j)' /\ (a # to \/ j # n) => Kept1(a, j)
    PROVE  /\ \A x : Told(x)' <=> Told(x) \/ x = Result(e, Cargo(to, n)'.txn)
           /\ \A x : Told(x) => x.op # e.op
  <1>1. Moving(from, i) /\ ~IsResponse(Cargo(from, i))
    BY DEF IsRequest, IsResponse, Moving, ReqTypes, RespTypes
  <1>2. ASSUME NEW f \in txns[m], NEW b \in Kinds, NEW l \in Nat, Replies(b, l, f) PROVE f.id # e.id
    <2>1. Moving(b, l) /\ IsResponse(Cargo(b, l)) /\ Cargo(b, l).txn.id = f.id
      BY <1>2 DEF Replies, Moving, IsResponse
    <2> QED
      BY <1>1, <2>1, LineApart DEF CalmInv, PlacesInv
  <1>3. \A i1 \in Masters : i1 = m
    BY TheMaster
  <1>4. ASSUME NEW x, Told(x)' PROVE Told(x) \/ x = Result(e, Cargo(to, n)'.txn)
    <2>1. PICK f \in txns'[m], a \in Kinds, j \in Nat :
            Replies(a, j, f)' /\ x = Result(f, Cargo(a, j)'.txn)
      BY <1>3, <1>4 DEF Told
    <2>2. CASE a = to /\ j = n
      <3>1. f.id = e.id
        BY <2>1, <2>2 DEF Replies
      <3>2. f = e
        BY <3>1, Promises
      <3> QED
        BY <2>1, <2>2, <3>2
    <2>3. CASE a # to \/ j # n
      <3>1. Moving(a, j)'
        BY <2>1 DEF Replies, Moving, IsResponse
      <3>2. PICK b \in Kinds, l \in Nat : Moving(b, l) /\ Cargo(a, j)' = Cargo(b, l)
        BY <2>3, <3>1 DEF Kept1
      <3>3. Replies(b, l, f) /\ x = Result(f, Cargo(b, l).txn) /\ f \in txns[m]
        BY <2>1, <3>2 DEF Replies
      <3> QED
        BY <3>3 DEF Told
    <2> QED
      BY <2>2, <2>3
  <1>5. ASSUME NEW x, Told(x) PROVE Told(x)' /\ x.op # e.op
    <2>1. PICK f \in txns[m], b \in Kinds, l \in Nat :
            Replies(b, l, f) /\ x = Result(f, Cargo(b, l).txn)
      BY <1>3, <1>5 DEF Told
    <2>2. f.id # e.id /\ f.op # e.op
      BY <1>2, <2>1, Promises
    <2>3. \A a \in Kinds, j \in Nat : Moving(a, j)' /\ Cargo(a, j)'.txn.id = f.id => Kept1(a, j)
      BY <2>2 DEF Replies
    <2>4. PICK a \in Kinds, j \in Nat : Replies(a, j, f)' /\ Cargo(a, j)' = Cargo(b, l)
      BY <2>1, <2>3, StillTold
    <2>5. f \in txns'[m] /\ x = Result(f, Cargo(a, j)'.txn)
      BY <2>1, <2>4
    <2>6. Told(x)'
      BY <2>4, <2>5 DEF Told
    <2> QED
      BY <2>1, <2>2, <2>6 DEF Result
  <1>6. ASSUME NEW x, x = Result(e, Cargo(to, n)'.txn) PROVE Told(x)'
    <2>1. e \in txns'[m]
      OBVIOUS
    <2> QED
      BY <1>6, <2>1 DEF Told
  <1> QED
    BY <1>4, <1>5, <1>6

\* The first message of the socket to the first client is ahead of all others.
LEMMA FrontIsAhead ==
    ASSUME Shape, NEW b \in Kinds, NEW l \in Nat, Moving(b, l), b # "toClient" \/ l # 1
    PROVE  Ahead("toClient", 1, b, l)
  <1>1. CASE b = "toClient"
    <2>1. 0 \in Clients /\ toClient[0] \in Seq(GoodMsg)
      BY Owners DEF Shape, SocketsInv
    <2>2. Cargo("toClient", 0) = At(toClient[0], 0)
      BY <2>1, Loads DEF Cargo
    <2>3. Cargo("toClient", 0) = NoMsg
      BY <2>1, <2>2 DEF At
    <2>4. l # 0
      BY <1>1, <2>3 DEF Moving, NoMsg
    <2> QED
      BY <1>1, <2>4 DEF Ahead
  <1>2. CASE b # "toClient"
    BY <1>2, Ranks DEF Ahead, Kinds
  <1> QED
    BY <1>1, <1>2

\* The sizes of the operations.
LEMMA OpSizes ==
    ASSUME PlainBlocks, SizesInv, NEW n \in DOMAIN ops[0]
    PROVE  /\ ops[0][n].address \in Addr /\ ops[0][n].size \in Addr
           /\ ops[0][n].size > 0 /\ ops[0][n].address + ops[0][n].size < AddrSpace
  <1>1. PICK b \in Buffers : ops[0][n].address = b.address /\ ops[0][n].size = b.size
    BY Owners DEF SizesInv
  <1>2. b.address \in Addr /\ b.size \in Addr
    BY BuffersAssumption
  <1> QED
    BY <1>1, <1>2 DEF PlainBlocks

\* The promise of a message in the line, and what the message means.
LEMMA ItsPromise ==
    ASSUME OneMaster, CalmInv, MeansInv, NEW a \in Kinds, NEW j \in Nat, Moving(a, j)
    PROVE  \E m \in Masters : \E e \in txns[m] :
             /\ e.id = Cargo(a, j).txn.id /\ e.op \in DOMAIN ops[0] /\ ops[0][e.op].status = "pending"
             /\ Means(a, Cargo(a, j).txn, ops[0][e.op])
  <1>1. PICK m \in Masters : TRUE
    BY DEF OneMaster, masterMap
  <1>2. PICK e \in txns[m] : e.id = Cargo(a, j).txn.id
    BY LineApart DEF CalmInv, PlacesInv
  <1>3. e.op \in DOMAIN ops[0] /\ ops[0][e.op].status = "pending"
    BY Promises
  <1>4. Means(a, Cargo(a, j).txn, ops[0][e.op])
    BY <1>2 DEF MeansInv
  <1> QED
    BY <1>2, <1>3, <1>4

\* Router.route finds the slave of a request, or answers it with an error.
LEMMA RoutedMeans ==
    ASSUME OneMaster, PlainBlocks, CalmInv, SizesInv, MeansInv, routeRequest(0)
    PROVE  \E m \in Masters : \E e \in txns[m] : \E t \in Transaction :
             /\ rr[0].msg = TxnMsg(t) /\ t.type \in ReqTypes /\ t.id = e.id
             /\ e.op \in DOMAIN ops[0] /\ ops[0][e.op].status = "pending" /\ Asks(t, ops[0][e.op])
             /\ \/ rt'.msg = rr[0].msg /\ Fits(ops[0][e.op])
                \/ rt'.msg = TxnMsg(createErrorTxn(t)) /\ ~Fits(ops[0][e.op])
  <1>1. Shape /\ rr[0].msg \in GoodMsg /\ IsRequest(rr[0].msg)
    BY RouteEffect, Owners DEF CalmInv, routeRequest
  <1>2. PICK t \in Transaction : t = rr[0].msg.txn /\ rr[0].msg = TxnMsg(t) /\ t.type \in ReqTypes /\ t.target = 0
    BY <1>1, GoodMsgFacts, MessageFacts DEF IsRequest
  <1>3. PICK p \in findTarget(Ips, ipMMap, t.address, t.size) :
          IF p = 0 THEN Outgoing(ClientId(t.initiator), TxnMsg(createErrorTxn(t)))
                   ELSE Outgoing(ClientId(p), TxnMsg(MutateTarget(t, Id(p))))
    BY <1>2 DEF routeRequest
  <1>4. Cargo("rr", 0) = TxnMsg(t) /\ Moving("rr", 0) /\ "rr" \in Kinds /\ Cargo("rr", 0).txn = t
    BY <1>2, HandCargo, MessageFacts DEF Moving, Kinds
  <1>5. PICK m \in Masters : \E e \in txns[m] :
          /\ e.id = t.id /\ e.op \in DOMAIN ops[0] /\ ops[0][e.op].status = "pending"
          /\ Means("rr", t, ops[0][e.op])
    BY <1>4, ItsPromise
  <1>6. PICK e \in txns[m] :
          /\ e.id = t.id /\ e.op \in DOMAIN ops[0] /\ ops[0][e.op].status = "pending"
          /\ Means("rr", t, ops[0][e.op])
    BY <1>5
  <1>7. Asks(t, ops[0][e.op])
    BY <1>2, <1>6 DEF Means
  <1>8. t.address \in Addr /\ t.size \in Addr /\ t.size > 0 /\ t.address + t.size < AddrSpace
    BY <1>6, <1>7, OpSizes DEF Asks
  <1>9. (p = 0 => ~Fits(ops[0][e.op])) /\ (p # 0 => Fits(ops[0][e.op]))
    <2>1. /\ p = 0 => ~(t.address >= Ips[1].address /\ t.address + t.size <= Ips[1].address + Ips[1].size)
          /\ p # 0 => t.address >= Ips[1].address /\ t.address + t.size <= Ips[1].address + Ips[1].size
      BY <1>3, <1>8, FoundTargets
    <2> QED
      BY <1>7, <2>1 DEF Asks, Fits
  <1>10. CASE p = 0
    <2>1. rt'.msg = TxnMsg(createErrorTxn(t))
      BY <1>3, <1>10 DEF Outgoing
    <2> QED
      BY <1>2, <1>6, <1>7, <1>9, <1>10, <2>1
  <1>11. CASE p # 0
    <2>1. rt'.msg = TxnMsg(MutateTarget(t, Id(p)))
      BY <1>3, <1>11 DEF Outgoing
    <2>2. rt'.msg = rr[0].msg
      BY <1>2, <2>1 DEF MutateTarget
    <2> QED
      BY <1>2, <1>6, <1>7, <1>9, <1>11, <2>2
  <1> QED
    BY <1>10, <1>11

\* What a step does to the results that the application has not heard of yet.
ToldSame     == \A x : Told(x)' <=> Told(x)
ToldMore(e, y) ==
    /\ \A x : Told(x)' <=> Told(x) \/ x = y
    /\ \A x : Told(x) => x.op # e.op

\* The router's route and a request.
LEMMA RouteRequestBus ==
    ASSUME OneMaster, PlainBlocks, CalmInv, CalmInv', NotLost', SizesInv, MeansInv, OrderInv, routeRequest(0)
    PROVE  /\ OrderInv' /\ MeansInv'
           /\ \/ ToldSame
              \/ \E m \in Masters : \E e \in txns[m] :
                   /\ e.op \in DOMAIN ops[0] /\ ops[0][e.op].status = "pending" /\ ~Fits(ops[0][e.op])
                   /\ ToldMore(e, [op |-> e.op, ok |-> FALSE, data |-> <<>>])
  <1>1. PICK m \in Masters : \E e \in txns[m] : \E t \in Transaction :
             /\ rr[0].msg = TxnMsg(t) /\ t.type \in ReqTypes /\ t.id = e.id
             /\ e.op \in DOMAIN ops[0] /\ ops[0][e.op].status = "pending" /\ Asks(t, ops[0][e.op])
             /\ \/ rt'.msg = rr[0].msg /\ Fits(ops[0][e.op])
                \/ rt'.msg = TxnMsg(createErrorTxn(t)) /\ ~Fits(ops[0][e.op])
    BY RoutedMeans, Zenon
  <1>2. PICK e \in txns[m], t \in Transaction :
             /\ rr[0].msg = TxnMsg(t) /\ t.type \in ReqTypes /\ t.id = e.id
             /\ e.op \in DOMAIN ops[0] /\ ops[0][e.op].status = "pending" /\ Asks(t, ops[0][e.op])
             /\ \/ rt'.msg = rr[0].msg /\ Fits(ops[0][e.op])
                \/ rt'.msg = TxnMsg(createErrorTxn(t)) /\ ~Fits(ops[0][e.op])
    BY <1>1
  <1>3. Shape /\ txns' = txns /\ ops' = ops
    BY RouteEffect, Owners DEF CalmInv
  <1>4. /\ Stays("queue") /\ Stays("writer") /\ Stays("toRouter") /\ Stays("toClient") /\ Stays("rw")
        /\ Cargo("rr", 0) = rr[0].msg /\ Cargo("rt", 0)' = rt'.msg
        /\ \A k \in Nat : ~Moving("rr", k)'
        /\ (Moving("rt", 0)' => Comes("rt", 0, "rr", 0)) => Moves("rr", 0, "rt", 0)
    BY <1>3, RouteMoves
  <1>5. "rr" \in Kinds /\ "rt" \in Kinds /\ Rank["rt"] = 3 /\ 0 \in Nat
    BY Ranks DEF Kinds
  <1>6. Cargo("rr", 0).txn = t /\ Moving("rr", 0) /\ IsRequest(Cargo("rr", 0)) /\ First(t)
    BY <1>2, <1>4, MessageFacts DEF Moving, IsRequest, First
  <1>7. PICK u : /\ u = Cargo("rt", 0)'.txn /\ Cargo("rt", 0)' = TxnMsg(u)
                 /\ \/ u = t /\ Fits(ops[0][e.op])
                    \/ u = createErrorTxn(t) /\ ~Fits(ops[0][e.op])
    BY <1>2, <1>4, MessageFacts
  <1>8. u.id = t.id /\ First(u) /\ Moving("rt", 0)'
    BY <1>6, <1>7, MessageFacts DEF createErrorTxn, First, Moving
  <1>9. Comes("rt", 0, "rr", 0)
    BY <1>6, <1>7, <1>8 DEF Comes
  <1>10. OrderInv'
    BY <1>4, <1>5, <1>9, MoveKeepsOrder
  <1>11. \A a \in Kinds, j \in Nat : Moving(a, j)' /\ (a # "rt" \/ j # 0) =>
           \E b \in Kinds, i \in Nat : Brings(a, j, b, i)
    <2> SUFFICES ASSUME NEW a \in Kinds, NEW j \in Nat, Moving(a, j)', a # "rt" \/ j # 0
                 PROVE  \E b \in Kinds, i \in Nat : Brings(a, j, b, i)
      OBVIOUS
    <2>1. a # "rt" /\ a # "rr"
      BY <1>4, HandCargo
    <2>2. Stays(a)
      BY <1>4, <2>1 DEF Kinds
    <2> QED
      BY <2>2, StaysBrings
  <1>12. Means("rt", u, ops[0][e.op])
    <2>1. CASE u = t /\ Fits(ops[0][e.op])
      BY <1>2, <2>1 DEF Means, ReqTypes, RespTypes
    <2>2. CASE u = createErrorTxn(t) /\ ~Fits(ops[0][e.op])
      <3>1. u.type = RespOf(ops[0][e.op].type) /\ u.size = 0 /\ u.ok = FALSE /\ u.data = <<>>
        BY <1>2, <2>2 DEF createErrorTxn, Asks
      <3>2. u.type \notin ReqTypes
        BY <3>1 DEF RespOf, ReqTypes
      <3> QED
        BY <2>2, <3>1, <3>2 DEF Means, Tells
    <2> QED
      BY <1>7, <2>1, <2>2
  <1>13. \A i \in Masters : \A f \in txns[i] : f.id = u.id => i = m /\ f = e
    BY <1>2, <1>8, TheMaster, Promises
  <1>14. MeansInv'
    BY <1>3, <1>5, <1>7, <1>11, <1>12, <1>13, NewMeans
  <1>15. \A a \in Kinds, j \in Nat : Moving(a, j)' /\ (a # "rt" \/ j # 0) => Kept1(a, j)
    BY <1>11 DEF Kept1, Brings
  <1>16. CASE u = t
    <2>1. Cargo("rt", 0)' = Cargo("rr", 0)
      BY <1>2, <1>4, <1>7, <1>16
    <2>2. \A a \in Kinds, j \in Nat : Moving(a, j)' => Kept1(a, j)
      BY <1>5, <1>6, <1>15, <2>1 DEF Kept1
    <2>3. \A x : Told(x)' <=> Told(x)
      BY <1>3, <2>2, ToldKept
    <2> QED
      BY <1>10, <1>14, <2>3 DEF ToldSame
  <1>17. CASE u = createErrorTxn(t) /\ ~Fits(ops[0][e.op])
    <2>1. IsResponse(Cargo("rt", 0)')
      BY <1>2, <1>7, <1>17, MessageFacts DEF createErrorTxn, RespOf, RespTypes, IsResponse
    <2>2. Replies("rt", 0, e)'
      BY <1>2, <1>7, <1>8, <2>1 DEF Replies
    <2>3. Cargo("rr", 0).txn.id = e.id
      BY <1>2, <1>6
    <2>4. /\ \A x : Told(x)' <=> Told(x) \/ x = Result(e, Cargo("rt", 0)'.txn)
          /\ \A x : Told(x) => x.op # e.op
      BY <1>3, <1>5, <1>6, <1>15, <2>2, <2>3, ToldGrows
    <2>5. Result(e, Cargo("rt", 0)'.txn) = [op |-> e.op, ok |-> FALSE, data |-> <<>>]
      <3>1. u.ok = FALSE /\ u.data = <<>>
        BY <1>17 DEF createErrorTxn
      <3>2. Result(e, u) = [op |-> e.op, ok |-> FALSE, data |-> <<>>]
        BY <3>1 DEF Result
      <3> QED
        BY <1>7, <3>2
    <2>6. ToldMore(e, [op |-> e.op, ok |-> FALSE, data |-> <<>>])
      BY <2>4, <2>5 DEF ToldMore
    <2> QED
      BY <1>2, <1>10, <1>14, <1>17, <2>6
  <1> QED
    BY <1>7, <1>16, <1>17

\* The slave of the first client performs a request: what is asked for, what it
\* does, and the response that joins the queue.
LEMMA PerformEffect ==
    ASSUME OneMaster, CalmInv, receiveRequest(0)
    PROVE  \E t \in Transaction, n \in Nat :
             /\ Cargo("toClient", 1) = TxnMsg(t) /\ t.type \in ReqTypes /\ t.target = 0
             /\ t.type = "WRITE_REQ" => Len(t.data) = t.size
             /\ Advances("toClient") /\ n = Len(q[0].items) + 1
             /\ Cargo("queue", n)' = TxnMsg(ResponseTxn(mem[1], t))
             /\ \A k \in Nat : Moving("queue", k)' => k = n \/ (k < n /\ Cargo("queue", k)' = Cargo("queue", k))
             /\ mem' = IF t.type = "WRITE_REQ" THEN [mem EXCEPT ![1] = handleWrite(@, t)] ELSE mem
             /\ Stays("writer") /\ Stays("toRouter") /\ Stays("rr") /\ Stays("rw") /\ Stays("rt")
             /\ \E e \in GoodEntry : Push(0, e) /\ ~IsRequest(e.msg)
             /\ UNCHANGED <<ops, txns, bridge>>
  <1>0. Shape /\ 0 \in Clients
    BY Owners DEF CalmInv
  <1>1. PICK h \in GoodMsg : h = Head(toClient[0]) /\ IsRequest(h)
    <2>1. toClient[0] # <<>> /\ toClient[0] \in Seq(GoodMsg)
      BY <1>0 DEF receiveRequest, Receiving, Shape, SocketsInv
    <2> QED
      BY <2>1 DEF receiveRequest
  <1>2. PICK t \in Transaction :
          /\ t = h.txn /\ h = TxnMsg(t) /\ t.type \in ReqTypes /\ t.target = 0
          /\ t.type = "WRITE_REQ" => Len(t.data) = t.size
    BY <1>1, GoodMsgFacts, MessageFacts DEF IsRequest
  <1>3. /\ Receiving(0) /\ Consume(0)
        /\ mem' = IF t.type = "WRITE_REQ" THEN [mem EXCEPT ![1] = handleWrite(@, t)] ELSE mem
        /\ Push(0, Entry("TRANSACTION", TxnMsg(ResponseTxn(mem[1], t)), 0))
        /\ UNCHANGED <<ops, txns, bridge, toRouter, rr, rw, rt>>
    <2>1. Head(toClient[0]).txn = t /\ t.target + 1 = 1
      BY <1>1, <1>2
    <2> QED
      BY <2>1 DEF receiveRequest, appVars, routerVars
  <1>4. PICK e : e = Entry("TRANSACTION", TxnMsg(ResponseTxn(mem[1], t)), 0)
    OBVIOUS
  <1>5. e \in GoodEntry /\ IsResponse(e.msg) /\ e.msg = TxnMsg(ResponseTxn(mem[1], t)) /\ ~IsRequest(e.msg)
    <2>1. mem[1] \in [Addr -> 0 .. MaxOps]
      BY <1>0, Owners DEF OneMaster, Shape, TablesInv
    <2>2. TxnMsg(ResponseTxn(mem[1], t)) \in GoodMsg /\ IsResponse(TxnMsg(ResponseTxn(mem[1], t)))
      BY <1>2, <2>1, ResponseIsGood
    <2>3. ~IsRequest(TxnMsg(ResponseTxn(mem[1], t)))
      BY <2>2 DEF IsRequest, IsResponse, ReqTypes, RespTypes
    <2>4. 0 \in 0 .. MaxOps
      BY BoundsAssumption
    <2> QED
      BY <1>4, <2>2, <2>3, <2>4, EntryFacts
  <1>6. Push(0, e)
    BY <1>3, <1>4
  <1>7. PICK s \in Seq(GoodEntry) : s = q[0].items /\ q'[0].items = Append(s, e)
    BY <1>0, <1>5, <1>6, PushEffect
  <1>8. PICK n \in Nat : n = Len(s) + 1 /\ DOMAIN s = 1 .. Len(s)
    OBVIOUS
  <1>9. \A k \in Nat : ResponseAt(Append(s, e), k) = IF k = n THEN e.msg ELSE ResponseAt(s, k)
    BY <1>5, <1>8, AppendAt
  <1>10. \A k \in Nat : Cargo("queue", k)' = ResponseAt(Append(s, e), k)
    BY <1>0, <1>7, Loads DEF Cargo
  <1>11. \A k \in Nat : Cargo("queue", k) = ResponseAt(s, k)
    BY <1>0, <1>7, Loads DEF Cargo
  <1>12. \A k \in Nat : Moving("queue", k)' => k = n \/ (k < n /\ Cargo("queue", k)' = Cargo("queue", k))
    <2> SUFFICES ASSUME NEW k \in Nat, Moving("queue", k)', k # n
                 PROVE  k < n /\ Cargo("queue", k)' = Cargo("queue", k)
      OBVIOUS
    <2>1. Cargo("queue", k)' = ResponseAt(s, k) /\ Cargo("queue", k)' = Cargo("queue", k)
      BY <1>9, <1>10, <1>11
    <2>2. k \in DOMAIN s
      BY <2>1 DEF Moving, ResponseAt, NoMsg
    <2> QED
      BY <1>8, <2>1, <2>2
  <1>13. toClient[0] # <<>> /\ toClient'[0] = Tail(toClient[0])
    BY <1>0, <1>3, ConsumeEffect
  <1>14. Advances("toClient") /\ Cargo("toClient", 1) = h
    BY <1>0, <1>1, <1>13, SocketAdvances
  <1>15. Stays("writer") /\ Stays("toRouter") /\ Stays("rr") /\ Stays("rw") /\ Stays("rt")
    BY <1>3, FirstStays
  <1>16. Cargo("queue", n)' = TxnMsg(ResponseTxn(mem[1], t))
    BY <1>5, <1>9, <1>10
  <1>17. n = Len(q[0].items) + 1 /\ Cargo("toClient", 1) = TxnMsg(t)
    BY <1>2, <1>7, <1>8, <1>14
  <1>18. \E f \in GoodEntry : Push(0, f) /\ ~IsRequest(f.msg)
    BY <1>5, <1>6
  <1> QED
    BY <1>2, <1>3, <1>12, <1>14, <1>15, <1>16, <1>17, <1>18

\* The first message of the line has been at the slave, and joins the end of the
\* line.
LEMMA RejoinOrder ==
    ASSUME Shape, OrderInv, Advances("toClient"), NEW n \in Nat,
           \A kind \in Kinds \ {"toClient", "queue"} : Stays(kind),
           \A k \in Nat : Moving("queue", k)' => k = n \/ (k < n /\ Cargo("queue", k)' = Cargo("queue", k)),
           Moving("toClient", 1), First(Cargo("toClient", 1).txn),
           Cargo("queue", n)'.txn.id = Cargo("toClient", 1).txn.id, ~First(Cargo("queue", n)'.txn)
    PROVE  OrderInv'
  <1>0. {"toClient", "queue"} \subseteq Kinds /\ Rank["queue"] = 7 /\ \A a \in Kinds : Rank[a] \in Nat /\ Rank[a] <= 7
    BY Ranks DEF Kinds
  <1>1. \A a \in Kinds, j \in Nat : Cargo(a, j).txn.id \in Nat \/ ~Moving(a, j)
    BY CargoIsGood
  <1> DEFINE Old(a, j) == a # "queue" \/ j # n
             Place(j, a, i) == i = IF a = "toClient" THEN j + 1 ELSE j
  <1>2. ASSUME NEW a \in Kinds, NEW j \in Nat, Moving(a, j)', Old(a, j)
        PROVE  \E i \in Nat : Comes(a, j, a, i) /\ Place(j, a, i) /\ (a # "toClient" \/ i # 1)
    <2>1. CASE a = "toClient"
      <3>1. j # 0 /\ Cargo(a, j)' = Cargo(a, j + 1) /\ j + 1 \in Nat
        BY <1>2, <2>1 DEF Advances
      <3>2. Comes(a, j, a, j + 1) /\ j + 1 # 1
        BY <1>2, <3>1, SameComes
      <3> QED
        BY <2>1, <3>1, <3>2
    <2>2. CASE a = "queue"
      <3>1. Cargo(a, j)' = Cargo(a, j)
        BY <1>2, <2>2
      <3>2. Comes(a, j, a, j)
        BY <1>2, <3>1, SameComes
      <3> QED
        BY <2>2, <3>2
    <2>3. CASE a \notin {"toClient", "queue"}
      <3>1. Cargo(a, j)' = Cargo(a, j)
        BY <1>2, <2>3 DEF Stays
      <3>2. Comes(a, j, a, j)
        BY <1>2, <3>1, SameComes
      <3> QED
        BY <2>3, <3>2
    <2> QED
      BY <2>1, <2>2, <2>3
  <1> HIDE DEF Old
  <1>3. PICK t, u : t = Cargo("toClient", 1).txn /\ u = Cargo("queue", n)'.txn
    OBVIOUS
  <1>4. t.id \in Nat /\ u.id = t.id /\ First(t) /\ ~First(u)
    BY <1>0, <1>1, <1>3
  <1>5. ASSUME NEW a \in Kinds, NEW j \in Nat, Moving(a, j)', Old(a, j)
        PROVE  /\ InOrder(Cargo(a, j)'.txn, u, Ahead(a, j, "queue", n))
               /\ InOrder(u, Cargo(a, j)'.txn, Ahead("queue", n, a, j))
    <2>1. PICK i \in Nat : Comes(a, j, a, i) /\ (a # "toClient" \/ i # 1)
      BY <1>2, <1>5, Zenon
    <2>2. PICK w, v : w = Cargo(a, i).txn /\ v = Cargo(a, j)'.txn
      OBVIOUS
    <2>3. v.id = w.id /\ w.id \in Nat /\ (First(v) <=> First(w)) /\ Moving(a, i)
      BY <1>1, <2>1, <2>2 DEF Comes
    <2>4. Ahead("toClient", 1, a, i)
      BY <2>1, <2>3, FrontIsAhead
    <2>5. InOrder(t, w, TRUE)
      <3>1. InOrder(t, w, Ahead("toClient", 1, a, i))
        BY <1>0, <1>3, <2>2, <2>3 DEF OrderInv
      <3> QED
        BY <2>4, <3>1
    <2>6. (First(w) => t.id < w.id) /\ (~First(w) => w.id < t.id)
      BY <1>4, <2>5 DEF InOrder
    <2>7. ~Ahead("queue", n, a, j)
      <3>1. CASE a = "queue"
        <4>1. j = n \/ j < n
          BY <1>5, <3>1
        <4>2. ~(Rank["queue"] < Rank[a])
          BY <1>0, <3>1
        <4> QED
          BY <4>1, <4>2 DEF Ahead
      <3>2. CASE a # "queue"
        BY <1>0, <3>2 DEF Ahead
      <3> QED
        BY <3>1, <3>2
    <2>8. InOrder(v, u, Ahead(a, j, "queue", n))
      BY <1>4, <2>3, <2>6 DEF InOrder
    <2>9. InOrder(u, v, Ahead("queue", n, a, j))
      BY <1>4, <2>3, <2>6, <2>7 DEF InOrder
    <2> QED
      BY <2>2, <2>8, <2>9
  <1>6. ASSUME NEW a \in Kinds, NEW j \in Nat, Moving(a, j)', Old(a, j),
               NEW b \in Kinds, NEW k \in Nat, Moving(b, k)', Old(b, k)
        PROVE  InOrder(Cargo(a, j)'.txn, Cargo(b, k)'.txn, Ahead(a, j, b, k))
    <2>1. PICK i \in Nat : Comes(a, j, a, i) /\ Place(j, a, i)
      BY <1>2, <1>6, Zenon
    <2>2. PICK l \in Nat : Comes(b, k, b, l) /\ Place(k, b, l)
      BY <1>2, <1>6, Zenon
    <2>3. Ahead(a, j, b, k) => Ahead(a, i, b, l)
      BY <2>1, <2>2 DEF Ahead
    <2>4. InOrder(Cargo(a, i).txn, Cargo(b, l).txn, Ahead(a, i, b, l))
      BY <2>1, <2>2 DEF OrderInv, Comes
    <2> QED
      BY <2>1, <2>2, <2>3, <2>4 DEF Comes, InOrder
  <1>7. InOrder(u, u, Ahead("queue", n, "queue", n))
    <2>1. ~Ahead("queue", n, "queue", n)
      BY <1>0 DEF Ahead
    <2> QED
      BY <2>1 DEF InOrder
  <1> SUFFICES ASSUME NEW a \in Kinds, NEW b \in Kinds, NEW j \in Nat, NEW k \in Nat,
                      Moving(a, j)', Moving(b, k)'
               PROVE  InOrder(Cargo(a, j)'.txn, Cargo(b, k)'.txn, Ahead(a, j, b, k))
    BY Zenon DEF OrderInv
  <1>8. CASE Old(a, j) /\ Old(b, k)
    BY <1>6, <1>8, Zenon
  <1>9. CASE Old(a, j) /\ ~Old(b, k)
    BY <1>3, <1>5, <1>9 DEF Old
  <1>10. CASE ~Old(a, j) /\ Old(b, k)
    BY <1>3, <1>5, <1>10 DEF Old
  <1>11. CASE ~Old(a, j) /\ ~Old(b, k)
    BY <1>3, <1>7, <1>11 DEF Old
  <1> QED
    BY <1>8, <1>9, <1>10, <1>11

\* Bridge::reader of the first client and a request: it falls into the slave's
\* block, and its response is in the line instead.
LEMMA ReceiveRequestBus ==
    ASSUME OneMaster, PlainBlocks, CalmInv, CalmInv', NotLost', SizesInv, MeansInv, OrderInv, receiveRequest(0)
    PROVE  /\ OrderInv' /\ MeansInv'
           /\ \E m \in Masters : \E e \in txns[m] : \E t \in Transaction :
                /\ Cargo("toClient", 1) = TxnMsg(t) /\ t.type \in ReqTypes /\ t.id = e.id
                /\ t.type = "WRITE_REQ" => Len(t.data) = t.size
                /\ e.op \in DOMAIN ops[0] /\ ops[0][e.op].status = "pending"
                /\ Asks(t, ops[0][e.op]) /\ Fits(ops[0][e.op])
                /\ mem' = IF t.type = "WRITE_REQ" THEN [mem EXCEPT ![1] = handleWrite(@, t)] ELSE mem
                /\ ToldMore(e, Result(e, ResponseTxn(mem[1], t)))
  <1>1. PICK t \in Transaction, n \in Nat :
             /\ Cargo("toClient", 1) = TxnMsg(t) /\ t.type \in ReqTypes /\ t.target = 0
             /\ t.type = "WRITE_REQ" => Len(t.data) = t.size
             /\ Advances("toClient") /\ n = Len(q[0].items) + 1
             /\ Cargo("queue", n)' = TxnMsg(ResponseTxn(mem[1], t))
             /\ \A k \in Nat : Moving("queue", k)' => k = n \/ (k < n /\ Cargo("queue", k)' = Cargo("queue", k))
             /\ mem' = IF t.type = "WRITE_REQ" THEN [mem EXCEPT ![1] = handleWrite(@, t)] ELSE mem
             /\ Stays("writer") /\ Stays("toRouter") /\ Stays("rr") /\ Stays("rw") /\ Stays("rt")
             /\ \E e \in GoodEntry : Push(0, e) /\ ~IsRequest(e.msg)
             /\ UNCHANGED <<ops, txns, bridge>>
    BY PerformEffect, Zenon
  <1>2. Shape /\ {"toClient", "queue"} \subseteq Kinds /\ Rank["toClient"] = 1 /\ 1 \in Nat
    BY Ranks DEF CalmInv, Kinds
  <1>3. Cargo("toClient", 1).txn = t /\ Moving("toClient", 1) /\ First(t) /\ IsRequest(Cargo("toClient", 1))
    BY <1>1, MessageFacts DEF Moving, First, IsRequest
  <1>4. PICK m \in Masters : \E e \in txns[m] :
          /\ e.id = t.id /\ e.op \in DOMAIN ops[0] /\ ops[0][e.op].status = "pending"
          /\ Means("toClient", t, ops[0][e.op])
    BY <1>2, <1>3, ItsPromise
  <1>5. PICK e \in txns[m] :
          /\ e.id = t.id /\ e.op \in DOMAIN ops[0] /\ ops[0][e.op].status = "pending"
          /\ Means("toClient", t, ops[0][e.op])
    BY <1>4
  <1>6. Asks(t, ops[0][e.op]) /\ Fits(ops[0][e.op])
    BY <1>1, <1>2, <1>5 DEF Means
  <1>7. PICK u : /\ u = ResponseTxn(mem[1], t) /\ u = Cargo("queue", n)'.txn /\ Cargo("queue", n)' = TxnMsg(u)
    BY <1>1, MessageFacts
  <1>8. u.id = t.id /\ u.type = RespOf(t.type) /\ u.size = t.size
    BY <1>7 DEF ResponseTxn
  <1>9. u.size # 0 /\ u.type \in RespTypes /\ u.type \notin ReqTypes /\ ~First(u)
    <2>1. t.size # 0
      BY <1>5, <1>6, OpSizes DEF Asks
    <2> QED
      BY <1>8, <2>1 DEF RespOf, RespTypes, ReqTypes, First
  <1>10. \A kind \in Kinds \ {"toClient", "queue"} : Stays(kind)
    BY <1>1 DEF Kinds
  <1>11. OrderInv'
    BY <1>1, <1>2, <1>3, <1>7, <1>8, <1>9, <1>10, RejoinOrder
  <1>12. \A a \in Kinds, j \in Nat : Moving(a, j)' /\ (a # "queue" \/ j # n) =>
           \E b \in Kinds, i \in Nat : Brings(a, j, b, i)
    <2> SUFFICES ASSUME NEW a \in Kinds, NEW j \in Nat, Moving(a, j)', a # "queue" \/ j # n
                 PROVE  \E b \in Kinds, i \in Nat : Brings(a, j, b, i)
      OBVIOUS
    <2>1. CASE a = "queue"
      <3>1. Cargo(a, j)' = Cargo(a, j)
        BY <1>1, <2>1
      <3>2. Brings(a, j, a, j)
        BY <3>1 DEF Brings, Moving
      <3> QED
        BY <3>2
    <2>2. CASE a # "queue"
      <3>1. Stays(a) \/ Advances(a)
        BY <1>1, <1>10, <2>2
      <3> QED
        BY <3>1, StaysBrings
    <2> QED
      BY <2>1, <2>2
  <1>13. Means("queue", u, ops[0][e.op])
    <2>1. u.type = RespOf(ops[0][e.op].type)
      BY <1>6, <1>8 DEF Asks
    <2> QED
      BY <1>6, <1>9, <2>1 DEF Means, Tells
  <1>14. \A i \in Masters : \A f \in txns[i] : f.id = u.id => i = m /\ f = e
    BY <1>5, <1>8, TheMaster, Promises
  <1>15. MeansInv'
    BY <1>1, <1>2, <1>7, <1>12, <1>13, <1>14, NewMeans
  <1>16. \A a \in Kinds, j \in Nat : Moving(a, j)' /\ (a # "queue" \/ j # n) => Kept1(a, j)
    BY <1>12 DEF Kept1, Brings
  <1>17. Replies("queue", n, e)'
    <2>1. IsResponse(Cargo("queue", n)')
      BY <1>7, <1>9, MessageFacts DEF IsResponse
    <2> QED
      BY <1>5, <1>7, <1>8, <2>1 DEF Replies
  <1>18. Cargo("toClient", 1).txn.id = e.id
    BY <1>3, <1>5
  <1>19. /\ \A x : Told(x)' <=> Told(x) \/ x = Result(e, Cargo("queue", n)'.txn)
         /\ \A x : Told(x) => x.op # e.op
    BY <1>1, <1>2, <1>3, <1>16, <1>17, <1>18, ToldGrows
  <1>20. ToldMore(e, Result(e, ResponseTxn(mem[1], t)))
    BY <1>7, <1>19 DEF ToldMore
  <1> QED
    BY <1>1, <1>5, <1>6, <1>11, <1>15, <1>20

\* The application hears of a result.
ToldLess(y) ==
    /\ Told(y)
    /\ \A x : Told(x)' <=> Told(x) /\ x # y

\* Operation n of the first client is answered, and the others are not touched.
Closes(n) ==
    /\ DOMAIN ops'[0] = DOMAIN ops[0] /\ \A i \in Clients \ {0} : ops'[i] = ops[i]
    /\ \A k \in DOMAIN ops[0] : k # n => ops'[0][k] = ops[0][k]
    /\ ops'[0][n].status # "pending"
    /\ ops'[0][n].address = ops[0][n].address /\ ops'[0][n].size = ops[0][n].size

\* An operation is answered.
LEMMA AnsweredOps ==
    ASSUME Shape, NEW c \in Clients, NEW n \in DOMAIN ops[c], NEW status \in {"ok", "error"},
           NEW taken \in BOOLEAN, NEW d,
           ops' = [ops EXCEPT ![c][n].status = status, ![c][n].buffer = IF taken THEN d ELSE @]
    PROVE  /\ DOMAIN ops'[c] = DOMAIN ops[c] /\ \A i \in Clients \ {c} : ops'[i] = ops[i]
           /\ \A k \in DOMAIN ops[c] : k # n => ops'[c][k] = ops[c][k]
           /\ ops'[c][n].status # "pending"
           /\ ops'[c][n].address = ops[c][n].address /\ ops'[c][n].size = ops[c][n].size
  <1>1. ops \in [Clients -> Seq(Op)] /\ ops[c] \in Seq(Op) /\ ops[c][n] \in Op
    BY DEF Shape, OpsInv
  <1>2. /\ DOMAIN ops'[c] = DOMAIN ops[c] /\ \A i \in Clients \ {c} : ops'[i] = ops[i]
        /\ \A k \in DOMAIN ops[c] : k # n => ops'[c][k] = ops[c][k]
    BY <1>1
  <1>3. ops'[c][n] = [ops[c][n] EXCEPT !.status = status, !.buffer = IF taken THEN d ELSE @]
    BY <1>1
  <1> QED
    BY <1>1, <1>2, <1>3 DEF Op

\* Bridge::reader of the first client and a response.
LEMMA AnswerExact ==
    ASSUME OneMaster, CalmInv, receiveResponse(0)
    PROVE  \E m \in Masters : \E e \in txns[m] : \E t \in Transaction :
             /\ Cargo("toClient", 1) = TxnMsg(t) /\ t.type \in RespTypes /\ t.id = e.id
             /\ txns'[m] = txns[m] \ {e}
             /\ ops' = [ops EXCEPT ![0][e.op].status = IF t.ok THEN "ok" ELSE "error",
                                   ![0][e.op].buffer = IF t.type = "READ_RESP" /\ t.ok
                                                       THEN t.data ELSE @]
             /\ Advances("toClient") /\ \A kind \in Kinds \ {"toClient"} : Stays(kind)
             /\ UNCHANGED <<mem, q, bridge>>
  <1>0. Shape /\ 0 \in Clients
    BY Owners DEF CalmInv
  <1>1. PICK h \in GoodMsg : h = Head(toClient[0]) /\ IsResponse(h)
    <2>1. toClient[0] # <<>> /\ toClient[0] \in Seq(GoodMsg)
      BY <1>0 DEF receiveResponse, Receiving, Shape, SocketsInv
    <2> QED
      BY <2>1 DEF receiveResponse
  <1>2. PICK t \in Transaction : t = h.txn /\ h = TxnMsg(t) /\ t.type \in RespTypes
    BY <1>1, GoodMsgFacts, MessageFacts DEF IsResponse
  <1>3. PICK m : m = t.initiator /\ m \in Masters
    BY <1>2, TxnFields
  <1>4. /\ Receiving(0) /\ Consume(0) /\ UNCHANGED <<mem, q, bridge, toRouter, rr, rw, rt>>
        /\ \E e \in txns[m] :
             /\ e.id = t.id
             /\ txns' = [txns EXCEPT ![m] = @ \ {e}]
             /\ ops' = [ops EXCEPT ![0][e.op].status = IF t.ok THEN "ok" ELSE "error",
                                   ![0][e.op].buffer = IF t.type = "READ_RESP" /\ t.ok
                                                       THEN t.data ELSE @]
    <2>1. Head(toClient[0]).txn = t
      BY <1>1, <1>2
    <2> QED
      BY <1>3, <2>1 DEF receiveResponse, routerVars
  <1>5. PICK e \in txns[m] :
             /\ e.id = t.id
             /\ txns' = [txns EXCEPT ![m] = @ \ {e}]
             /\ ops' = [ops EXCEPT ![0][e.op].status = IF t.ok THEN "ok" ELSE "error",
                                   ![0][e.op].buffer = IF t.type = "READ_RESP" /\ t.ok
                                                       THEN t.data ELSE @]
    BY <1>4
  <1>6. txns'[m] = txns[m] \ {e}
    BY <1>0, <1>3, <1>5 DEF Shape, TablesInv
  <1>7. toClient[0] # <<>> /\ toClient'[0] = Tail(toClient[0])
    BY <1>0, <1>4, ConsumeEffect
  <1>8. Advances("toClient") /\ Cargo("toClient", 1) = h
    BY <1>0, <1>1, <1>7, SocketAdvances
  <1>9. Stays("queue") /\ Stays("writer") /\ Stays("toRouter") /\ Stays("rr") /\ Stays("rw") /\ Stays("rt")
    BY <1>4, FirstStays
  <1>10. \A kind \in Kinds \ {"toClient"} : Stays(kind)
    BY <1>9 DEF Kinds
  <1>11. Cargo("toClient", 1) = TxnMsg(t)
    BY <1>2, <1>8
  <1> QED
    BY <1>2, <1>3, <1>4, <1>5, <1>6, <1>8, <1>10, <1>11, Zenon

\* The promise of a response is fulfilled, and the others stay as they are.
LEMMA ReceiveResponseBus ==
    ASSUME OneMaster, CalmInv, CalmInv', NotLost', MeansInv, OrderInv, receiveResponse(0)
    PROVE  /\ OrderInv' /\ MeansInv'
           /\ \E m \in Masters : \E e \in txns[m] : \E t \in Transaction :
                /\ Cargo("toClient", 1) = TxnMsg(t) /\ t.type \in RespTypes /\ t.id = e.id
                /\ e.op \in DOMAIN ops[0] /\ ops[0][e.op].status = "pending" /\ Tells(t, ops[0][e.op])
                /\ ops' = [ops EXCEPT ![0][e.op].status = IF t.ok THEN "ok" ELSE "error",
                                      ![0][e.op].buffer = IF t.type = "READ_RESP" /\ t.ok
                                                          THEN t.data ELSE @]
                /\ txns'[m] = txns[m] \ {e} /\ Closes(e.op)
                /\ ToldLess(Result(e, t)) /\ UNCHANGED <<mem, q, bridge>>
  <1>1. PICK m \in Masters : \E e \in txns[m] : \E t \in Transaction :
             /\ Cargo("toClient", 1) = TxnMsg(t) /\ t.type \in RespTypes /\ t.id = e.id
             /\ txns'[m] = txns[m] \ {e}
             /\ ops' = [ops EXCEPT ![0][e.op].status = IF t.ok THEN "ok" ELSE "error",
                                   ![0][e.op].buffer = IF t.type = "READ_RESP" /\ t.ok
                                                       THEN t.data ELSE @]
             /\ Advances("toClient") /\ \A kind \in Kinds \ {"toClient"} : Stays(kind)
             /\ UNCHANGED <<mem, q, bridge>>
    BY AnswerExact, Zenon
  <1>2. PICK e \in txns[m], t \in Transaction :
             /\ Cargo("toClient", 1) = TxnMsg(t) /\ t.type \in RespTypes /\ t.id = e.id
             /\ txns'[m] = txns[m] \ {e}
             /\ ops' = [ops EXCEPT ![0][e.op].status = IF t.ok THEN "ok" ELSE "error",
                                   ![0][e.op].buffer = IF t.type = "READ_RESP" /\ t.ok
                                                       THEN t.data ELSE @]
             /\ Advances("toClient") /\ \A kind \in Kinds \ {"toClient"} : Stays(kind)
             /\ UNCHANGED <<mem, q, bridge>>
    BY <1>1, Zenon
  <1>3. Shape /\ "toClient" \in Kinds /\ 1 \in Nat /\ 0 \in Clients
    BY Owners DEF CalmInv, Kinds
  <1>4. Cargo("toClient", 1).txn = t /\ Moving("toClient", 1) /\ IsResponse(Cargo("toClient", 1))
    BY <1>2, MessageFacts DEF Moving, IsResponse
  <1>5. OrderInv' /\ Carried
    BY <1>2, ShrinkCarries
  <1>6. \A i \in Masters : i = m
    BY TheMaster
  <1>7. e.op \in DOMAIN ops[0] /\ ops[0][e.op].status = "pending"
    BY Promises
  <1>8. \A f \in txns[m] : f # e => f.op # e.op /\ f.op \in DOMAIN ops[0]
    BY Promises
  <1>9. Closes(e.op)
    <2> DEFINE status == IF t.ok THEN "ok" ELSE "error"
               taken == t.type = "READ_RESP" /\ t.ok
    <2>1. ops' = [ops EXCEPT ![0][e.op].status = status, ![0][e.op].buffer = IF taken THEN t.data ELSE @]
      BY <1>2
    <2>2. status \in {"ok", "error"} /\ taken \in BOOLEAN
      BY TxnFields
    <2> HIDE DEF status, taken
    <2> QED
      BY <1>3, <1>7, <2>1, <2>2, AnsweredOps DEF Closes
  <1>10. \A i \in Masters : \A f \in txns'[i] : f \in txns[i] /\ ops'[0][f.op] = ops[0][f.op]
    BY <1>2, <1>6, <1>8, <1>9 DEF Closes
  <1>11. MeansInv'
    BY <1>5, <1>10, CarriedMeans
  <1>12. Tells(t, ops[0][e.op])
    <2>1. Means("toClient", t, ops[0][e.op])
      BY <1>2, <1>3, <1>4 DEF MeansInv
    <2> QED
      BY <1>2, <2>1 DEF Means
  <1>13. PICK y : y = Result(e, t)
    OBVIOUS
  <1>14. Told(y)
    <2>1. Replies("toClient", 1, e)
      BY <1>2, <1>4 DEF Replies
    <2> QED
      BY <1>3, <1>4, <1>13, <2>1 DEF Told
  <1>15. ASSUME NEW x, Told(x)' PROVE Told(x) /\ x # y
    <2>1. PICK f \in txns'[m], a \in Kinds, j \in Nat :
            Replies(a, j, f)' /\ x = Result(f, Cargo(a, j)'.txn)
      BY <1>6, <1>15 DEF Told
    <2>2. Moving(a, j)' /\ f \in txns[m] /\ f # e
      BY <1>2, <2>1 DEF Replies, Moving, IsResponse
    <2>3. PICK b \in Kinds, i \in Nat : Moving(b, i) /\ Cargo(a, j)' = Cargo(b, i)
      BY <1>5, <2>2 DEF Carried, Brings
    <2>4. Replies(b, i, f) /\ x = Result(f, Cargo(b, i).txn)
      BY <2>1, <2>3 DEF Replies
    <2>5. Told(x)
      BY <2>2, <2>4 DEF Told
    <2>6. x.op # y.op
      BY <1>8, <1>13, <2>2, <2>4 DEF Result
    <2> QED
      BY <2>5, <2>6
  <1>16. ASSUME NEW x, Told(x), x # y PROVE Told(x)'
    <2>1. PICK f \in txns[m], b \in Kinds, i \in Nat :
            Replies(b, i, f) /\ x = Result(f, Cargo(b, i).txn)
      BY <1>6, <1>16 DEF Told
    <2>2. f # e
      <3> SUFFICES ASSUME f = e PROVE FALSE
        OBVIOUS
      <3>1. Moving(b, i) /\ Cargo(b, i).txn.id = Cargo("toClient", 1).txn.id
        BY <1>2, <1>4, <2>1 DEF Replies, Moving, IsResponse
      <3>2. b = "toClient" /\ i = 1
        BY <1>3, <1>4, <3>1, LineApart DEF CalmInv, PlacesInv
      <3> QED
        BY <1>4, <1>13, <1>16, <2>1, <3>2
    <2>3. f \in txns'[m]
      BY <1>2, <2>2
    <2>4. \A a \in Kinds, j \in Nat : Moving(a, j)' /\ Cargo(a, j)'.txn.id = f.id => Kept1(a, j)
      BY <1>5 DEF Carried, Brings, Kept1
    <2>5. PICK a \in Kinds, j \in Nat : Replies(a, j, f)' /\ Cargo(a, j)' = Cargo(b, i)
      BY <2>1, <2>3, <2>4, StillTold
    <2>6. x = Result(f, Cargo(a, j)'.txn)
      BY <2>1, <2>5
    <2> QED
      BY <2>3, <2>5, <2>6 DEF Told
  <1>17. ToldLess(Result(e, t))
    BY <1>13, <1>14, <1>15, <1>16 DEF ToldLess
  <1> QED
    BY <1>2, <1>5, <1>7, <1>9, <1>11, <1>12, <1>17, Zenon

\* Bridge::writer of the first client registers a request, which joins the line
\* behind all that have not been at the slave.
LEMMA RegisterBus ==
    ASSUME OneMaster, CalmInv, CalmInv', NotLost', MeansInv, OrderInv, AsksInv, writerRegister(0)
    PROVE  OrderInv' /\ MeansInv' /\ ToldSame
  <1>0. Shape /\ 0 \in Clients /\ Registers
    BY Owners DEF CalmInv, writerRegister, Registers
  <1>1. PICK t \in Transaction, m \in Masters, new \in Nat :
             /\ bridge[0].txn \in GoodEntry /\ IsRequest(bridge[0].txn.msg)
             /\ t = bridge[0].txn.msg.txn /\ m = t.initiator /\ new = lastTxnId[m]
             /\ bridge[0].writer = "register" /\ bridge'[0].writer = "send"
             /\ bridge'[0].txn.msg = TxnMsg([t EXCEPT !.id = new])
             /\ \A i \in Masters \ {m} : txns'[i] = txns[i]
             /\ txns'[m] = txns[m] \cup {[id |-> new, op |-> bridge[0].txn.op]}
             /\ \A d \in Clients \ {0} : Same(d)
             /\ SameRoute /\ UNCHANGED <<ops, terminated, q, toRouter, toClient, rr, rw>>
             /\ bridge'[0].reader = bridge[0].reader /\ bridge'[0].readerStatus = bridge[0].readerStatus
             /\ bridge'[0].state = bridge[0].state /\ bridge'[0].writerStatus = bridge[0].writerStatus
             /\ bridge'[0].app = bridge[0].app
    BY <1>0, RegisterEffect, Zenon
  <1>2. PICK u : u = [t EXCEPT !.id = new]
    OBVIOUS
  <1>3. u.id = new /\ u.type = t.type /\ u.address = t.address /\ u.size = t.size /\ u.data = t.data
    BY <1>1, <1>2 DEF Transaction
  <1>4. t.type \in ReqTypes /\ First(u)
    BY <1>1, <1>3 DEF IsRequest, First
  <1>5. Cargo("writer", 0)' = TxnMsg(u) /\ Cargo("writer", 0)'.txn = u /\ Moving("writer", 0)'
    BY <1>1, <1>2, HandCargo, MessageFacts DEF Sending, Moving
  <1>6. Stays("queue") /\ Stays("toRouter") /\ Stays("toClient") /\ Stays("rr") /\ Stays("rw") /\ Stays("rt")
    BY <1>1, FirstStays DEF SameRoute
  <1>7. {"writer", "queue"} \subseteq Kinds /\ Rank["writer"] = 6 /\ Rank["queue"] = 7
    BY Ranks DEF Kinds
  <1>8. ASSUME NEW a \in Kinds, NEW j \in Nat, Moving(a, j)', a # "writer" \/ j # 0
        PROVE  /\ Cargo(a, j)' = Cargo(a, j) /\ Moving(a, j) /\ Brings(a, j, a, j)
               /\ Cargo(a, j).txn.id < new /\ Cargo(a, j).txn.id \in Nat
    <2>1. a # "writer"
      BY <1>8, HandCargo
    <2>2. Stays(a)
      BY <1>6, <2>1 DEF Kinds
    <2>3. Cargo(a, j)' = Cargo(a, j) /\ Moving(a, j)
      BY <1>8, <2>2 DEF Stays, Moving
    <2> QED
      BY <1>1, <2>3, Promises, CargoIsGood, <1>0 DEF Brings
  <1>9. ASSUME NEW f \in txns'[m]
         PROVE  (f.id = new => f.op = bridge[0].txn.op) /\ (f.id < new => f \in txns[m])
    <2>1. \A g \in txns[m] : g.id < new /\ g.id \in Nat
      BY <1>1, Promises
    <2>2. PICK o : o = bridge[0].txn.op
      OBVIOUS
    <2>3. txns'[m] = txns[m] \cup {[id |-> new, op |-> o]}
      BY <1>1, <2>2
    <2>4. f \in txns[m] \/ f = [id |-> new, op |-> o]
      BY <2>3
    <2>5. f \in txns[m] \/ (f.id = new /\ f.op = o)
      BY <2>4
    <2> QED
      BY <2>1, <2>2, <2>5
  <1>10. ASSUME NEW j \in Nat, Moving("queue", j)' PROVE ~First(Cargo("queue", j)'.txn)
    <2>1. Moving("queue", j) /\ Cargo("queue", j)' = Cargo("queue", j)
      BY <1>7, <1>8, <1>10
    <2>2. PICK i \in Masters : \E e \in txns[i] : Means("queue", Cargo("queue", j).txn, ops[0][e.op])
      BY <1>7, <2>1, ItsPromise
    <2>3. PICK e \in txns[i] : Means("queue", Cargo("queue", j).txn, ops[0][e.op])
      BY <2>2
    <2>4. Cargo("queue", j).txn.type \in RespTypes
      <3>1. Cargo("queue", j) = ResponseAt(q[0].items, j)
        BY <1>0, Loads DEF Cargo
      <3> QED
        BY <2>1, <3>1 DEF ResponseAt, IsResponse, Moving, NoMsg
    <2> QED
      BY <2>1, <2>3, <2>4 DEF Means, First, ReqTypes, RespTypes
  <1>11. OrderInv'
    <2>1. ASSUME NEW b \in Kinds, NEW k \in Nat, Moving(b, k)', b # "writer" \/ k # 0
          PROVE  /\ InOrder(u, Cargo(b, k)'.txn, Ahead("writer", 0, b, k))
                 /\ InOrder(Cargo(b, k)'.txn, u, Ahead(b, k, "writer", 0))
      <3>1. PICK w : w = Cargo(b, k)'.txn /\ w.id < new /\ w.id \in Nat
        BY <1>8, <2>1
      <3>2. ASSUME Ahead("writer", 0, b, k) PROVE ~First(w)
        <4>1. b # "writer"
          BY <2>1, HandCargo
        <4>2. Rank[b] > 6
          BY <1>7, <3>2, <4>1 DEF Ahead
        <4>3. b = "queue"
          BY <1>7, <4>2, Ranks
        <4> QED
          BY <1>10, <2>1, <3>1, <4>3
      <3>3. InOrder(u, w, Ahead("writer", 0, b, k))
        BY <1>3, <1>4, <3>1, <3>2 DEF InOrder
      <3>4. InOrder(w, u, Ahead(b, k, "writer", 0))
        BY <1>3, <1>4, <3>1 DEF InOrder
      <3> QED
        BY <3>1, <3>3, <3>4
    <2>2. InOrder(u, u, Ahead("writer", 0, "writer", 0))
      <3>1. ~Ahead("writer", 0, "writer", 0)
        BY <1>7 DEF Ahead
      <3> QED
        BY <3>1 DEF InOrder
    <2> SUFFICES ASSUME NEW a \in Kinds, NEW b \in Kinds, NEW j \in Nat, NEW k \in Nat,
                        Moving(a, j)', Moving(b, k)'
                 PROVE  InOrder(Cargo(a, j)'.txn, Cargo(b, k)'.txn, Ahead(a, j, b, k))
      BY Zenon DEF OrderInv
    <2>3. CASE (a # "writer" \/ j # 0) /\ (b # "writer" \/ k # 0)
      <3>1. Cargo(a, j)' = Cargo(a, j) /\ Moving(a, j) /\ Cargo(b, k)' = Cargo(b, k) /\ Moving(b, k)
        BY <1>8, <2>3
      <3> QED
        BY <3>1 DEF OrderInv
    <2>4. CASE a = "writer" /\ j = 0
      BY <1>5, <2>1, <2>2, <2>4
    <2>5. CASE b = "writer" /\ k = 0
      BY <1>5, <2>1, <2>2, <2>5
    <2> QED
      BY <2>3, <2>4, <2>5
  <1>12. MeansInv'
    <2> SUFFICES ASSUME NEW a \in Kinds, NEW j \in Nat, Moving(a, j)', NEW i \in Masters,
                        NEW e \in txns'[i], e.id = Cargo(a, j)'.txn.id
                 PROVE  Means(a, Cargo(a, j)'.txn, ops'[0][e.op])
      BY Zenon DEF MeansInv
    <2>1. i = m /\ ops' = ops
      BY <1>1, TheMaster
    <2>2. \A f \in txns[m] : f.id < new /\ f.id \in Nat
      BY <1>1, Promises
    <2>3. CASE a = "writer" /\ j = 0
      <3>0. e.id = new
        BY <1>3, <1>5, <2>3
      <3>1. e.op = bridge[0].txn.op
        BY <1>9, <2>1, <3>0
      <3>2. Asks(t, ops[0][e.op])
        BY <1>0, <1>1, <3>1 DEF AsksInv
      <3>3. Asks(u, ops[0][e.op])
        BY <1>3, <3>2 DEF Asks
      <3>4. Means("writer", u, ops[0][e.op])
        BY <1>3, <1>4, <1>7, <3>3 DEF Means, ReqTypes, RespTypes
      <3> QED
        BY <1>5, <2>1, <2>3, <3>4
    <2>4. CASE a # "writer" \/ j # 0
      <3>1. Cargo(a, j)' = Cargo(a, j) /\ Brings(a, j, a, j) /\ Cargo(a, j).txn.id < new /\ Cargo(a, j).txn.id \in Nat
        BY <1>8, <2>4
      <3>2. e \in txns[m]
        BY <1>1, <2>1, <3>1
      <3> QED
        BY <2>1, <3>1, <3>2, BroughtMeans
    <2> QED
      BY <2>3, <2>4
  <1>13. \A i \in Masters : i = m
    BY TheMaster
  <1>14. ASSUME NEW x, Told(x)' PROVE Told(x)
    <2>1. PICK f \in txns'[m], a \in Kinds, j \in Nat :
            Replies(a, j, f)' /\ x = Result(f, Cargo(a, j)'.txn)
      BY <1>13, <1>14 DEF Told
    <2>2. Moving(a, j)' /\ (a # "writer" \/ j # 0)
      BY <1>3, <1>4, <1>5, <2>1 DEF Replies, Moving, IsResponse, ReqTypes, RespTypes
    <2>3. Cargo(a, j)' = Cargo(a, j) /\ Cargo(a, j).txn.id < new /\ Cargo(a, j).txn.id \in Nat
      BY <1>8, <2>2
    <2>4. Replies(a, j, f) /\ x = Result(f, Cargo(a, j).txn)
      BY <2>1, <2>3 DEF Replies
    <2>5. f.id < new /\ f.id \in Nat
      BY <2>3, <2>4 DEF Replies
    <2>6. f \in txns[m]
      BY <1>9, <2>5
    <2> QED
      BY <2>4, <2>6 DEF Told
  <1>15. ASSUME NEW x, Told(x) PROVE Told(x)'
    <2>1. PICK f \in txns[m], b \in Kinds, i \in Nat :
            Replies(b, i, f) /\ x = Result(f, Cargo(b, i).txn)
      BY <1>13, <1>15 DEF Told
    <2>2. f \in txns'[m] /\ f.id < new /\ f.id \in Nat
      BY <1>1, Promises
    <2>3. \A a \in Kinds, j \in Nat : Moving(a, j)' /\ Cargo(a, j)'.txn.id = f.id => Kept1(a, j)
      BY <1>3, <1>5, <1>8, <2>2 DEF Kept1
    <2>4. PICK a \in Kinds, j \in Nat : Replies(a, j, f)' /\ Cargo(a, j)' = Cargo(b, i)
      BY <2>1, <2>2, <2>3, StillTold
    <2>5. x = Result(f, Cargo(a, j)'.txn)
      BY <2>1, <2>4
    <2> QED
      BY <2>2, <2>4, <2>5 DEF Told
  <1>16. ToldSame
    BY <1>14, <1>15 DEF ToldSame
  <1> QED
    BY <1>11, <1>12, <1>16
-----------------------------------------------------------------------------
(* The operations and the line *)

\* The steps that the bus sees, and those that it does not.
LEMMA BusFrames ==
    ASSUME OneMaster, CalmInv, (\E c \in Clients : ClientStep(c)) \/ RouterStep
    PROVE  \/ UNCHANGED <<ops, txns, mem>>
           \/ \E m \in masterMap(0), type \in ReqTypes, b \in Buffers : issue(m, type, b)
           \/ writerRegister(0) \/ receiveRequest(0) \/ receiveResponse(0)
  <1>1. CASE RouterStep
    BY <1>1, RouterLeaves
  <1>2. CASE \E c \in Clients \ {0} : ClientStep(c)
    BY <1>2, OthersLeave
  <1>3. CASE ClientStep(0)
    BY <1>3, StepFrames, Owners
  <1> QED
    BY <1>1, <1>2, <1>3

\* Master::read and Master::write of the first client.
LEMMA IssueExact ==
    ASSUME Shape, NEW m \in masterMap(0), NEW type \in ReqTypes, NEW b \in Buffers, issue(m, type, b)
    PROVE  \E n \in Nat, o \in Op, e \in GoodEntry :
             /\ n = Len(ops[0]) + 1 /\ DOMAIN ops[0] = 1 .. n - 1 /\ DOMAIN ops'[0] = 1 .. n
             /\ ops' = [ops EXCEPT ![0] = Append(@, o)] /\ ops'[0] = Append(ops[0], o)
             /\ o.status = "pending" /\ o.address = b.address /\ o.size = b.size
             /\ \A k \in DOMAIN ops[0] : ops'[0][k] = ops[0][k]
             /\ ops'[0][n] = o /\ \A c \in Clients \ {0} : ops'[c] = ops[c]
             /\ Push(0, e) /\ IsRequest(e.msg) /\ e.op = n /\ Asks(e.msg.txn, o)
             /\ UNCHANGED <<bridge, txns, mem>>
  <1>0. 0 \in Clients /\ Ips[m].owner = 0 /\ m \in Masters
    BY Owners
  <1>1. ops \in [Clients -> Seq(Op)] /\ ops[0] \in Seq(Op)
    BY <1>0 DEF Shape, OpsInv
  <1>2. PICK n \in Nat : n = Len(ops[0]) + 1 /\ DOMAIN ops[0] = 1 .. n - 1
    BY <1>1
  <1>3. PICK t : t = RequestTxn(m, type, b, n)
    OBVIOUS
  <1>4. PICK o : o = [master |-> m, type |-> type, address |-> b.address, size |-> b.size,
                      status |-> "pending", buffer |-> t.data]
    OBVIOUS
  <1>5. /\ n <= MaxOps /\ ops' = [ops EXCEPT ![0] = Append(@, o)]
        /\ Push(0, Entry("TRANSACTION", TxnMsg(t), n)) /\ UNCHANGED <<bridge, txns, mem>>
    BY <1>0, <1>2, <1>3, <1>4 DEF issue
  <1>6. PICK e : e = Entry("TRANSACTION", TxnMsg(t), n)
    OBVIOUS
  <1>7. n \in 1 .. MaxOps
    BY <1>2, <1>5, BoundsAssumption
  <1>8. e \in GoodEntry /\ IsRequest(e.msg) /\ e.op = n /\ e.msg = TxnMsg(t) /\ t.data \in Bytes
    BY <1>0, <1>3, <1>6, <1>7, RequestIsGood, EntryFacts
  <1>9. o \in Op
    BY <1>0, <1>4, <1>8, BuffersAssumption DEF Op
  <1>10. ops'[0] = Append(ops[0], o) /\ \A c \in Clients \ {0} : ops'[c] = ops[c]
    BY <1>0, <1>1, <1>5
  <1>11. DOMAIN ops'[0] = 1 .. n /\ ops'[0][n] = o /\ \A k \in DOMAIN ops[0] : ops'[0][k] = ops[0][k]
    <2>1. /\ DOMAIN Append(ops[0], o) = 1 .. (Len(ops[0]) + 1) /\ Append(ops[0], o)[Len(ops[0]) + 1] = o
          /\ \A k \in DOMAIN ops[0] : Append(ops[0], o)[k] = ops[0][k]
      BY <1>1, <1>9, Grown
    <2> QED
      BY <1>2, <1>10, <2>1
  <1>12. Asks(e.msg.txn, o)
    <2>1. e.msg.txn = t
      BY <1>8, MessageFacts
    <2>2. t.type = o.type /\ t.address = o.address /\ t.size = o.size /\ t.data = o.buffer
      BY <1>3, <1>4 DEF RequestTxn
    <2> QED
      BY <2>1, <2>2 DEF Asks
  <1>13. o.status = "pending" /\ o.address = b.address /\ o.size = b.size
    BY <1>4
  <1> QED
    BY <1>2, <1>5, <1>6, <1>8, <1>9, <1>10, <1>11, <1>12, <1>13, Zenon

\* The order of the line, what the messages in it mean, and what they tell.
LEMMA NextLine ==
    ASSUME OneMaster, PlainBlocks, CalmInv, CalmInv', NotLost', BusInv,
           (\E c \in Clients : ClientStep(c)) \/ RouterStep
    PROVE  /\ OrderInv' /\ MeansInv'
           /\ ToldSame \/ receiveRequest(0) \/ receiveResponse(0) \/ routeRequest(0)
  <1>0. SizesInv /\ MeansInv /\ OrderInv /\ AsksInv
    BY DEF BusInv
  <1>1. CASE writerRegister(0)
    BY <1>0, <1>1, RegisterBus
  <1>2. CASE receiveRequest(0)
    BY <1>0, <1>2, ReceiveRequestBus
  <1>3. CASE receiveResponse(0)
    BY <1>0, <1>3, ReceiveResponseBus
  <1>4. CASE routeRequest(0)
    BY <1>0, <1>4, RouteRequestBus
  <1>5. CASE ~writerRegister(0) /\ ~receiveRequest(0) /\ ~receiveResponse(0) /\ ~routeRequest(0)
    <2>1. OrderInv' /\ Carried
      BY <1>0, <1>5, MostGlide DEF Glides
    <2>2. /\ txns' = txns
          /\ \A m \in Masters : \A e \in txns[m] : ops'[0][e.op] = ops[0][e.op]
      <3>1. CASE UNCHANGED <<ops, txns, mem>>
        BY <3>1
      <3>2. CASE \E m \in masterMap(0), type \in ReqTypes, b \in Buffers : issue(m, type, b)
        <4>1. PICK m \in masterMap(0), type \in ReqTypes, b \in Buffers : issue(m, type, b)
          BY <3>2
        <4>2. Shape
          BY DEF CalmInv
        <4>3. UNCHANGED txns /\ \A k \in DOMAIN ops[0] : ops'[0][k] = ops[0][k]
          BY <4>1, <4>2, IssueExact
        <4>4. \A i \in Masters : \A e \in txns[i] : e.op \in DOMAIN ops[0]
          BY Promises
        <4> QED
          BY <4>3, <4>4
      <3> QED
        BY <1>5, <3>1, <3>2, BusFrames
    <2>3. MeansInv'
      BY <1>0, <2>1, <2>2, CarriedMeans
    <2>4. \A a \in Kinds, j \in Nat : Moving(a, j)' => Kept1(a, j)
      BY <2>1 DEF Carried, Brings, Kept1
    <2>5. ToldSame
      BY <2>2, <2>4, ToldKept DEF ToldSame
    <2> QED
      BY <2>1, <2>3, <2>5
  <1> QED
    BY <1>1, <1>2, <1>3, <1>4, <1>5

\* The operations keep their addresses and sizes.
LEMMA NextSizes ==
    ASSUME OneMaster, CalmInv, CalmInv', NotLost', MeansInv, OrderInv, SizesInv,
           (\E c \in Clients : ClientStep(c)) \/ RouterStep
    PROVE  SizesInv'
  <1>0. Shape /\ 0 \in Clients
    BY Owners DEF CalmInv
  <1>1. CASE ops' = ops
    BY <1>1 DEF SizesInv
  <1>2. CASE \E m \in masterMap(0), type \in ReqTypes, b \in Buffers : issue(m, type, b)
    <2>1. PICK m \in masterMap(0), type \in ReqTypes, b \in Buffers : issue(m, type, b)
      BY <1>2
    <2>2. \E n \in Nat, o \in Op, e \in GoodEntry :
             /\ n = Len(ops[0]) + 1 /\ DOMAIN ops[0] = 1 .. n - 1 /\ DOMAIN ops'[0] = 1 .. n
             /\ ops' = [ops EXCEPT ![0] = Append(@, o)] /\ ops'[0] = Append(ops[0], o)
             /\ o.status = "pending" /\ o.address = b.address /\ o.size = b.size
             /\ \A k \in DOMAIN ops[0] : ops'[0][k] = ops[0][k]
             /\ ops'[0][n] = o /\ \A c \in Clients \ {0} : ops'[c] = ops[c]
             /\ Push(0, e) /\ IsRequest(e.msg) /\ e.op = n /\ Asks(e.msg.txn, o)
             /\ UNCHANGED <<bridge, txns, mem>>
      BY <1>0, <2>1, IssueExact, Zenon
    <2>3. PICK n \in Nat, o \in Op :
             /\ DOMAIN ops[0] = 1 .. n - 1 /\ DOMAIN ops'[0] = 1 .. n
             /\ o.address = b.address /\ o.size = b.size
             /\ \A k \in DOMAIN ops[0] : ops'[0][k] = ops[0][k]
             /\ ops'[0][n] = o /\ \A c \in Clients \ {0} : ops'[c] = ops[c]
      BY <2>2, Zenon
    <2> SUFFICES ASSUME NEW c \in Clients, NEW k \in DOMAIN ops'[c]
                 PROVE  \E i \in Buffers : ops'[c][k].address = i.address /\ ops'[c][k].size = i.size
      BY Zenon DEF SizesInv
    <2>4. CASE c # 0
      BY <2>3, <2>4 DEF SizesInv
    <2>5. CASE c = 0 /\ k = n
      BY <2>3, <2>5
    <2>6. CASE c = 0 /\ k # n
      <3>1. k \in DOMAIN ops[0]
        BY <2>3, <2>6
      <3>2. PICK i \in Buffers : ops[0][k].address = i.address /\ ops[0][k].size = i.size
        BY <1>0, <3>1 DEF SizesInv
      <3> QED
        BY <2>3, <2>6, <3>1, <3>2
    <2> QED
      BY <2>4, <2>5, <2>6
  <1>3. CASE receiveResponse(0)
    <2>1. PICK m \in Masters : \E e \in txns[m] : Closes(e.op) /\ e.op \in DOMAIN ops[0]
      BY <1>3, ReceiveResponseBus
    <2>2. PICK e \in txns[m] : Closes(e.op) /\ e.op \in DOMAIN ops[0]
      BY <2>1
    <2> SUFFICES ASSUME NEW c \in Clients, NEW k \in DOMAIN ops'[c]
                 PROVE  \E i \in Buffers : ops'[c][k].address = i.address /\ ops'[c][k].size = i.size
      BY Zenon DEF SizesInv
    <2>3. k \in DOMAIN ops[c] /\ ops'[c][k].address = ops[c][k].address /\ ops'[c][k].size = ops[c][k].size
      <3>1. CASE c # 0
        BY <2>2, <3>1 DEF Closes
      <3>2. CASE c = 0 /\ k = e.op
        BY <2>2, <3>2 DEF Closes
      <3>3. CASE c = 0 /\ k # e.op
        BY <2>2, <3>3 DEF Closes
      <3> QED
        BY <3>1, <3>2, <3>3
    <2> QED
      BY <2>3 DEF SizesInv
  <1>4. CASE writerRegister(0) \/ receiveRequest(0)
    <2>1. ops' = ops
      BY <1>4 DEF writerRegister, receiveRequest, appVars
    <2> QED
      BY <1>1, <2>1
  <1> QED
    BY <1>1, <1>2, <1>3, <1>4, BusFrames

\* The writers put down what they have sent.
LEMMA NextEmptyHand ==
    ASSUME Shape, EmptyHandInv, (\E c \in Clients : ClientStep(c)) \/ RouterStep
    PROVE  EmptyHandInv'
  <1>1. CASE bridge' = bridge
    BY <1>1 DEF EmptyHandInv
  <1>2. ASSUME NEW c \in Clients, ClientStep(c),
               bridge'[c].writer \notin {"register", "send"} =>
                 bridge'[c].txn = NoEntry \/ (/\ bridge[c].writer \notin {"register", "send"}
                                              /\ bridge'[c].txn = bridge[c].txn)
        PROVE  EmptyHandInv'
    <2>1. \A d \in Clients \ {c} : bridge'[d] = bridge[d]
      BY <1>2, OthersSame
    <2> QED
      BY <1>2, <2>1 DEF EmptyHandInv
  <1>3. CASE RouterStep
    BY <1>1, <1>3, RouterLeaves
  <1>4. ASSUME NEW c \in Clients, ClientStep(c) PROVE EmptyHandInv'
    <2>1. CASE \E m \in masterMap(c) : \E type \in ReqTypes, b \in Buffers : issue(m, type, b)
      BY <1>1, <2>1 DEF issue
    <2>2. CASE \E m \in masterMap(c) : terminate(m)
      BY <1>1, <2>2 DEF terminate
    <2>3. CASE waitForCompletion(c) \/ disconnect(c)
      <3>1. bridge'[c].writer = bridge[c].writer /\ bridge'[c].txn = bridge[c].txn
        BY <2>3, JoinEffect
      <3> QED
        BY <1>2, <1>4, <3>1
    <2>4. CASE writerTake(c)
      <3>1. bridge'[c].writer \in {"register", "send"}
        BY <2>4, TakeEffect
      <3> QED
        BY <1>2, <1>4, <3>1
    <2>5. CASE writerWait(c) \/ spuriousWakeup(c)
      BY <1>1, <2>5, WaitEffect
    <2>6. CASE writerStop(c)
      <3>1. bridge[c].writer = "pop" /\ bridge'[c].txn = bridge[c].txn
        BY <2>6, StopEffect
      <3> QED
        BY <1>2, <1>4, <3>1
    <2>7. CASE writerRegister(c)
      <3>1. bridge'[c].writer = "send"
        BY <2>7, RegisterEffect
      <3> QED
        BY <1>2, <1>4, <3>1
    <2>8. CASE writerSend(c) \/ writerLogout(c)
      <3>1. \/ bridge'[c].txn = NoEntry
            \/ bridge[c].writer = "logout" /\ bridge'[c].txn = bridge[c].txn
        BY <2>8, SendEffect
      <3> QED
        BY <1>2, <1>4, <3>1
    <2>9. CASE receiveDone(c)
      <3>1. bridge'[c].writer = bridge[c].writer /\ bridge'[c].txn = bridge[c].txn
        BY <2>9, EndEffect
      <3> QED
        BY <1>2, <1>4, <3>1
    <2>10. CASE receiveResponse(c) \/ receiveRequest(c)
      BY <1>1, <2>10 DEF receiveResponse, receiveRequest
    <2>11. CASE readerNotify(c)
      <3>1. bridge'[c].writer = bridge[c].writer /\ bridge'[c].txn = bridge[c].txn
        BY <2>11, NotifyEffect
      <3> QED
        BY <1>2, <1>4, <3>1
    <2>12. CASE clientRead(c) \/ clientWrite(c)
      BY <1>1, <2>12 DEF clientRead, clientWrite, bridgeVars
    <2>13. CASE routeLastTerminate(c) \/ routeResponse(c) \/ routeRequest(c)
      BY <1>1, <2>13 DEF routeLastTerminate, routeResponse, routeRequest, bridgeVars
    <2> QED
      BY <1>4, <2>1, <2>2, <2>3, <2>4, <2>5, <2>6, <2>7, <2>8, <2>9, <2>10, <2>11, <2>12, <2>13 DEF ClientStep
  <1> QED
    BY <1>3, <1>4
-----------------------------------------------------------------------------
(* The requests before the line *)

\* A step that leaves the requests in the queue and at the writer alone.
LEMMA TicketsKept ==
    ASSUME TicketsInv, AsksInv, txns' = txns, ops' = ops,
           \A k \in Nat : /\ Queued(0, k)' <=> Queued(0, k)
                          /\ Queued(0, k) => q'[0].items[k] = q[0].items[k],
           Registers' <=> Registers, Registers => bridge'[0].txn = bridge[0].txn
    PROVE  TicketsInv' /\ AsksInv'
  <1>1. \A n \in DOMAIN ops'[0] : ops'[0][n].status = "pending" => Ticket(n)'
    <2> SUFFICES ASSUME NEW n \in DOMAIN ops[0], ops[0][n].status = "pending" PROVE Ticket(n)'
      OBVIOUS
    <2>1. Ticket(n)
      BY DEF TicketsInv
    <2>2. CASE \E k \in Nat : Queued(0, k) /\ q[0].items[k].op = n
      <3>1. \E k \in Nat : Queued(0, k)' /\ q'[0].items[k].op = n
        BY <2>2
      <3> QED
        BY <3>1 DEF Ticket
    <2>3. CASE Registers /\ bridge[0].txn.op = n
      BY <2>3 DEF Ticket
    <2>4. CASE \E m \in Masters : \E e \in txns[m] : e.op = n
      <3>1. \E m \in Masters : \E e \in txns'[m] : e.op = n
        BY <2>4
      <3> QED
        BY <3>1 DEF Ticket
    <2> QED
      BY <2>1, <2>2, <2>3, <2>4 DEF Ticket
  <1>2. \A j, k \in Nat : Queued(0, j)' /\ Queued(0, k)' /\ j < k => q'[0].items[j].op < q'[0].items[k].op
    BY DEF TicketsInv
  <1>3. Registers' => \A k \in Nat : Queued(0, k)' => bridge'[0].txn.op < q'[0].items[k].op
    BY DEF TicketsInv
  <1>4. \A m \in Masters : \A e \in txns'[m] :
         /\ \A k \in Nat : Queued(0, k)' => e.op < q'[0].items[k].op
         /\ Registers' => e.op < bridge'[0].txn.op
         /\ \A f \in txns'[m] : e.id < f.id => e.op < f.op
    BY DEF TicketsInv
  <1>5. TicketsInv'
    BY <1>1, <1>2, <1>3, <1>4 DEF TicketsInv
  <1>6. /\ \A k \in Nat : Queued(0, k)' => Asks(q'[0].items[k].msg.txn, ops'[0][q'[0].items[k].op])
        /\ Registers' => Asks(bridge'[0].txn.msg.txn, ops'[0][bridge'[0].txn.op])
    BY DEF AsksInv
  <1>7. AsksInv'
    BY <1>6 DEF AsksInv, Asks
  <1> QED
    BY <1>5, <1>7

\* The requests in the first queue after a push, in both directions.
LEMMA PushedRequests ==
    ASSUME Shape, NEW e \in GoodEntry, Push(0, e)
    PROVE  \E n \in Nat :
             /\ \A k \in Nat : Queued(0, k) => Queued(0, k)' /\ q'[0].items[k] = q[0].items[k] /\ k < n
             /\ IsRequest(e.msg) => Queued(0, n)' /\ q'[0].items[n] = e
             /\ \A k \in Nat : Queued(0, k)' =>
                  \/ Queued(0, k) /\ q'[0].items[k] = q[0].items[k]
                  \/ k = n /\ IsRequest(e.msg) /\ q'[0].items[k] = e
  <1>0. 0 \in Clients
    BY Owners
  <1>1. q'[0].items = Append(q[0].items, e) /\ q[0].items \in Seq(GoodEntry)
    BY <1>0, PushEffect
  <1>2. PICK s \in Seq(GoodEntry) : s = q[0].items
    BY <1>1
  <1>3. /\ Len(s) \in Nat /\ DOMAIN s = 1 .. Len(s) /\ DOMAIN Append(s, e) = 1 .. (Len(s) + 1)
        /\ Append(s, e)[Len(s) + 1] = e
        /\ \A k \in DOMAIN s : Append(s, e)[k] = s[k]
    BY Grown
  <1>4. PICK n \in Nat : n = Len(s) + 1
    BY <1>3
  <1>5. \A k \in Nat : Queued(0, k) => Queued(0, k)' /\ q'[0].items[k] = q[0].items[k] /\ k < n
    BY <1>1, <1>2, <1>3, <1>4 DEF Queued
  <1>6. IsRequest(e.msg) => Queued(0, n)' /\ q'[0].items[n] = e
    BY <1>1, <1>2, <1>3, <1>4 DEF Queued
  <1>7. \A k \in Nat : Queued(0, k)' =>
          \/ Queued(0, k) /\ q'[0].items[k] = q[0].items[k]
          \/ k = n /\ IsRequest(e.msg) /\ q'[0].items[k] = e
    BY <1>0, <1>2, <1>4, QueuedPush
  <1> WITNESS n \in Nat
  <1> QED
    BY <1>5, <1>6, <1>7

\* The operations of the requests before the line.
LEMMA WaitingOps ==
    OneMaster /\ CalmInv =>
      /\ \A k \in Nat : Queued(0, k) => q[0].items[k].op \in DOMAIN ops[0] /\ q[0].items[k].op \in Nat
      /\ Registers => bridge[0].txn.op \in DOMAIN ops[0] /\ bridge[0].txn.op \in Nat
      /\ DOMAIN ops[0] \subseteq Nat
  <1> SUFFICES ASSUME OneMaster, CalmInv
               PROVE  /\ \A k \in Nat : Queued(0, k) => q[0].items[k].op \in DOMAIN ops[0]
                      /\ Registers => bridge[0].txn.op \in DOMAIN ops[0]
                      /\ DOMAIN ops[0] \subseteq Nat
    OBVIOUS
  <1>1. Shape /\ PendingInv /\ 0 \in Clients
    BY Owners DEF CalmInv
  <1>2. QueueWaits(0) /\ WriterWaits(0)
    BY <1>1 DEF PendingInv
  <1>3. DOMAIN ops[0] \subseteq Nat
    <2>1. ops[0] \in Seq(Op)
      BY <1>1 DEF Shape, OpsInv
    <2> QED
      BY <2>1
  <1> QED
    BY <1>2, <1>3 DEF QueueWaits, WriterWaits, Waits, Registers

\* A new operation comes after all the others, and its request after theirs.
LEMMA IssueTickets ==
    ASSUME OneMaster, CalmInv, TicketsInv, AsksInv,
           NEW m \in masterMap(0), NEW type \in ReqTypes, NEW b \in Buffers, issue(m, type, b)
    PROVE  TicketsInv' /\ AsksInv'
  <1>0. Shape
    BY DEF CalmInv
  <1>1. \E n \in Nat, o \in Op, e \in GoodEntry :
             /\ n = Len(ops[0]) + 1 /\ DOMAIN ops[0] = 1 .. n - 1 /\ DOMAIN ops'[0] = 1 .. n
             /\ ops' = [ops EXCEPT ![0] = Append(@, o)] /\ ops'[0] = Append(ops[0], o)
             /\ o.status = "pending" /\ o.address = b.address /\ o.size = b.size
             /\ \A k \in DOMAIN ops[0] : ops'[0][k] = ops[0][k]
             /\ ops'[0][n] = o /\ \A c \in Clients \ {0} : ops'[c] = ops[c]
             /\ Push(0, e) /\ IsRequest(e.msg) /\ e.op = n /\ Asks(e.msg.txn, o)
             /\ UNCHANGED <<bridge, txns, mem>>
    BY <1>0, IssueExact, Zenon
  <1>2. PICK n \in Nat, o \in Op, e \in GoodEntry :
             /\ DOMAIN ops[0] = 1 .. n - 1 /\ DOMAIN ops'[0] = 1 .. n
             /\ \A k \in DOMAIN ops[0] : ops'[0][k] = ops[0][k]
             /\ ops'[0][n] = o
             /\ Push(0, e) /\ IsRequest(e.msg) /\ e.op = n /\ Asks(e.msg.txn, o)
             /\ UNCHANGED <<bridge, txns, mem>>
    BY <1>1, Zenon
  <1>3. PICK l \in Nat :
             /\ \A k \in Nat : Queued(0, k) => Queued(0, k)' /\ q'[0].items[k] = q[0].items[k] /\ k < l
             /\ IsRequest(e.msg) => Queued(0, l)' /\ q'[0].items[l] = e
             /\ \A k \in Nat : Queued(0, k)' =>
                  \/ Queued(0, k) /\ q'[0].items[k] = q[0].items[k]
                  \/ k = l /\ IsRequest(e.msg) /\ q'[0].items[k] = e
    BY <1>0, <1>2, PushedRequests
  <1>4. /\ \A k \in Nat : Queued(0, k) => q[0].items[k].op \in DOMAIN ops[0] /\ q[0].items[k].op \in Nat
        /\ Registers => bridge[0].txn.op \in DOMAIN ops[0] /\ bridge[0].txn.op \in Nat
    BY WaitingOps
  <1>5. \A i \in Masters : \A x \in txns[i] : x.op \in DOMAIN ops[0] /\ x.op \in Nat
    BY Promises
  <1>6. \A x \in DOMAIN ops[0] : x < n
    BY <1>2
  <1>7. (Registers' <=> Registers) /\ bridge'[0].txn = bridge[0].txn /\ txns' = txns
    BY <1>2 DEF Registers
  <1>8. \A x \in DOMAIN ops'[0] : ops'[0][x].status = "pending" => Ticket(x)'
    <2> SUFFICES ASSUME NEW x \in DOMAIN ops'[0], ops'[0][x].status = "pending" PROVE Ticket(x)'
      OBVIOUS
    <2>1. CASE x = n
      <3>1. \E k \in Nat : Queued(0, k)' /\ q'[0].items[k].op = x
        BY <1>2, <1>3, <2>1
      <3> QED
        BY <3>1 DEF Ticket
    <2>2. CASE x # n
      <3>1. x \in DOMAIN ops[0]
        BY <1>2, <2>2
      <3>2. Ticket(x)
        BY <1>2, <3>1 DEF TicketsInv
      <3>3. CASE \E k \in Nat : Queued(0, k) /\ q[0].items[k].op = x
        <4>1. \E k \in Nat : Queued(0, k)' /\ q'[0].items[k].op = x
          BY <1>3, <3>3
        <4> QED
          BY <4>1 DEF Ticket
      <3>4. CASE Registers /\ bridge[0].txn.op = x
        BY <1>7, <3>4 DEF Ticket
      <3>5. CASE \E i \in Masters : \E f \in txns[i] : f.op = x
        <4>1. \E i \in Masters : \E f \in txns'[i] : f.op = x
          BY <1>7, <3>5
        <4> QED
          BY <4>1 DEF Ticket
      <3> QED
        BY <3>2, <3>3, <3>4, <3>5 DEF Ticket
    <2> QED
      BY <2>1, <2>2
  <1>9. ASSUME NEW j \in Nat, NEW k \in Nat, Queued(0, j)', Queued(0, k)', j < k
        PROVE  q'[0].items[j].op < q'[0].items[k].op
    <2>1. CASE Queued(0, j) /\ Queued(0, k)
      BY <1>3, <1>9, <2>1 DEF TicketsInv
    <2>2. CASE Queued(0, j) /\ ~Queued(0, k)
      BY <1>2, <1>3, <1>4, <1>6, <1>9, <2>2
    <2>3. CASE ~Queued(0, j)
      <3>1. j = l
        BY <1>3, <1>9, <2>3
      <3>2. k < l \/ k = l
        BY <1>3, <1>9
      <3> QED
        BY <1>9, <3>1, <3>2
    <2> QED
      BY <2>1, <2>2, <2>3
  <1>10. ASSUME Registers', NEW k \in Nat, Queued(0, k)' PROVE bridge'[0].txn.op < q'[0].items[k].op
    <2>1. CASE Queued(0, k)
      BY <1>3, <1>7, <1>10, <2>1 DEF TicketsInv
    <2>2. CASE ~Queued(0, k)
      BY <1>2, <1>3, <1>4, <1>6, <1>7, <1>10, <2>2
    <2> QED
      BY <2>1, <2>2
  <1>11. ASSUME NEW i \in Masters, NEW x \in txns'[i]
         PROVE  /\ \A k \in Nat : Queued(0, k)' => x.op < q'[0].items[k].op
                /\ Registers' => x.op < bridge'[0].txn.op
                /\ \A f \in txns'[i] : x.id < f.id => x.op < f.op
    <2>0. x \in txns[i]
      BY <1>7, <1>11
    <2>1. ASSUME NEW k \in Nat, Queued(0, k)' PROVE x.op < q'[0].items[k].op
      <3>1. CASE Queued(0, k)
        BY <1>3, <2>0, <2>1, <3>1 DEF TicketsInv
      <3>2. CASE ~Queued(0, k)
        BY <1>2, <1>3, <1>5, <1>6, <2>0, <2>1, <3>2
      <3> QED
        BY <3>1, <3>2
    <2>2. /\ Registers' => x.op < bridge'[0].txn.op
          /\ \A f \in txns'[i] : x.id < f.id => x.op < f.op
      BY <1>7, <2>0 DEF TicketsInv
    <2> QED
      BY <2>1, <2>2
  <1>12. TicketsInv'
    BY <1>8, <1>9, <1>10, <1>11 DEF TicketsInv
  <1>13. ASSUME NEW k \in Nat, Queued(0, k)' PROVE Asks(q'[0].items[k].msg.txn, ops'[0][q'[0].items[k].op])
    <2>1. CASE Queued(0, k)
      BY <1>2, <1>3, <1>4, <2>1 DEF AsksInv
    <2>2. CASE ~Queued(0, k)
      BY <1>2, <1>3, <1>13, <2>2
    <2> QED
      BY <2>1, <2>2
  <1>14. Registers' => Asks(bridge'[0].txn.msg.txn, ops'[0][bridge'[0].txn.op])
    BY <1>2, <1>4, <1>7 DEF AsksInv
  <1>15. AsksInv'
    BY <1>13, <1>14 DEF AsksInv, Asks
  <1> QED
    BY <1>12, <1>15

\* The writer takes the oldest entry.
LEMMA TakeTickets ==
    ASSUME OneMaster, CalmInv, TicketsInv, AsksInv, writerTake(0)
    PROVE  TicketsInv' /\ AsksInv'
  <1>0. Shape /\ 0 \in Clients
    BY Owners DEF CalmInv
  <1>1. /\ ops' = ops /\ txns' = txns
        /\ q[0].items # <<>> /\ q[0].items \in Seq(GoodEntry)
        /\ q'[0].items = Tail(q[0].items) /\ bridge[0].writer = "pop"
        /\ bridge'[0].txn = Head(q[0].items)
        /\ bridge'[0].writer = IF IsRequest(Head(q[0].items).msg) THEN "register" ELSE "send"
    BY <1>0, TakeEffect
  <1>2. PICK s \in Seq(GoodEntry) : s = q[0].items
    BY <1>1
  <1>3. /\ Len(s) \in Nat \ {0} /\ DOMAIN s = 1 .. Len(s) /\ Head(s) = s[1]
        /\ DOMAIN Tail(s) = 1 .. (Len(s) - 1)
        /\ \A k \in DOMAIN Tail(s) : k + 1 \in DOMAIN s /\ Tail(s)[k] = s[k + 1]
    BY <1>1, <1>2, Shrunk
  <1>4. ASSUME NEW k \in Nat, Queued(0, k)'
        PROVE  Queued(0, k + 1) /\ q'[0].items[k] = q[0].items[k + 1] /\ 1 < k + 1 /\ k + 1 \in Nat
    <2>1. k \in DOMAIN Tail(s) /\ IsRequest(Tail(s)[k].msg) /\ q'[0].items[k] = Tail(s)[k]
      BY <1>1, <1>2, <1>4 DEF Queued
    <2>2. k + 1 \in DOMAIN s /\ Tail(s)[k] = s[k + 1] /\ 1 < k + 1 /\ k + 1 \in Nat
      BY <1>3, <2>1
    <2> QED
      BY <1>2, <2>1, <2>2 DEF Queued
  <1>5. ASSUME NEW k \in Nat, Queued(0, k), k # 1
        PROVE  \E l \in Nat : Queued(0, l)' /\ q'[0].items[l] = q[0].items[k]
    <2>1. PICK l \in Nat : l = k - 1 /\ l \in 1 .. (Len(s) - 1) /\ k = l + 1
      BY <1>2, <1>3, <1>5 DEF Queued
    <2>2. q'[0].items[l] = q[0].items[k] /\ l \in DOMAIN q'[0].items
      BY <1>1, <1>2, <1>3, <2>1
    <2> QED
      BY <1>5, <2>1, <2>2 DEF Queued
  <1>6. /\ Registers' <=> Queued(0, 1)
        /\ bridge'[0].txn = q[0].items[1] /\ ~Registers
    BY <1>1, <1>2, <1>3 DEF Queued, Registers
  <1>7. \A n \in DOMAIN ops'[0] : ops'[0][n].status = "pending" => Ticket(n)'
    <2> SUFFICES ASSUME NEW n \in DOMAIN ops[0], ops[0][n].status = "pending" PROVE Ticket(n)'
      BY <1>1
    <2>1. Ticket(n)
      BY DEF TicketsInv
    <2>2. CASE \E k \in Nat : Queued(0, k) /\ q[0].items[k].op = n
      <3>1. PICK k \in Nat : Queued(0, k) /\ q[0].items[k].op = n
        BY <2>2
      <3>2. CASE k = 1
        BY <1>6, <3>1, <3>2 DEF Ticket
      <3>3. CASE k # 1
        <4>1. \E l \in Nat : Queued(0, l)' /\ q'[0].items[l].op = n
          BY <1>5, <3>1, <3>3
        <4> QED
          BY <4>1 DEF Ticket
      <3> QED
        BY <3>2, <3>3
    <2>3. CASE \E m \in Masters : \E e \in txns[m] : e.op = n
      <3>1. \E m \in Masters : \E e \in txns'[m] : e.op = n
        BY <1>1, <2>3
      <3> QED
        BY <3>1 DEF Ticket
    <2> QED
      BY <1>6, <2>1, <2>2, <2>3 DEF Ticket
  <1>8. ASSUME NEW j \in Nat, NEW k \in Nat, Queued(0, j)', Queued(0, k)', j < k
        PROVE  q'[0].items[j].op < q'[0].items[k].op
    <2>1. j + 1 < k + 1
      BY <1>8
    <2> QED
      BY <1>4, <1>8, <2>1 DEF TicketsInv
  <1>9. ASSUME Registers', NEW k \in Nat, Queued(0, k)' PROVE bridge'[0].txn.op < q'[0].items[k].op
    BY <1>4, <1>6, <1>9 DEF TicketsInv
  <1>10. ASSUME NEW m \in Masters, NEW e \in txns'[m]
         PROVE  /\ \A k \in Nat : Queued(0, k)' => e.op < q'[0].items[k].op
                /\ Registers' => e.op < bridge'[0].txn.op
                /\ \A f \in txns'[m] : e.id < f.id => e.op < f.op
    BY <1>1, <1>4, <1>6, <1>10 DEF TicketsInv
  <1>11. TicketsInv'
    BY <1>7, <1>8, <1>9, <1>10 DEF TicketsInv
  <1>12. ASSUME NEW k \in Nat, Queued(0, k)' PROVE Asks(q'[0].items[k].msg.txn, ops'[0][q'[0].items[k].op])
    BY <1>1, <1>4, <1>12 DEF AsksInv
  <1>13. Registers' => Asks(bridge'[0].txn.msg.txn, ops'[0][bridge'[0].txn.op])
    BY <1>1, <1>6 DEF AsksInv
  <1>14. AsksInv'
    BY <1>12, <1>13 DEF AsksInv, Asks
  <1> QED
    BY <1>11, <1>14

\* The new promise is the newest one.
LEMMA RegisterTickets ==
    ASSUME OneMaster, CalmInv, TicketsInv, AsksInv, writerRegister(0)
    PROVE  TicketsInv' /\ AsksInv'
  <1>0. Shape /\ 0 \in Clients
    BY Owners DEF CalmInv
  <1>1. PICK m \in Masters, new \in Nat :
             /\ new = lastTxnId[m]
             /\ bridge[0].writer = "register" /\ bridge'[0].writer = "send"
             /\ txns'[m] = txns[m] \cup {[id |-> new, op |-> bridge[0].txn.op]}
             /\ UNCHANGED <<ops, q>>
    <2>1. \E t \in Transaction, m \in Masters, new \in Nat :
               /\ bridge[0].txn \in GoodEntry /\ IsRequest(bridge[0].txn.msg)
               /\ t = bridge[0].txn.msg.txn /\ m = t.initiator /\ new = lastTxnId[m]
               /\ bridge[0].writer = "register" /\ bridge'[0].writer = "send"
               /\ bridge'[0].txn.msg = TxnMsg([t EXCEPT !.id = new])
               /\ \A i \in Masters \ {m} : txns'[i] = txns[i]
               /\ txns'[m] = txns[m] \cup {[id |-> new, op |-> bridge[0].txn.op]}
               /\ \A d \in Clients \ {0} : Same(d)
               /\ SameRoute /\ UNCHANGED <<ops, terminated, q, toRouter, toClient, rr, rw>>
               /\ bridge'[0].reader = bridge[0].reader /\ bridge'[0].readerStatus = bridge[0].readerStatus
               /\ bridge'[0].state = bridge[0].state /\ bridge'[0].writerStatus = bridge[0].writerStatus
               /\ bridge'[0].app = bridge[0].app
      BY <1>0, RegisterEffect, Zenon
    <2> QED
      BY <2>1
  <1>2. Masters = {m}
    BY DEF OneMaster
  <1>3. PICK x : x = [id |-> new, op |-> bridge[0].txn.op]
    OBVIOUS
  <1>4. x.id = new /\ x.op = bridge[0].txn.op /\ txns'[m] = txns[m] \cup {x}
    BY <1>1, <1>3
  <1>5. /\ Registers /\ ~Registers'
        /\ \A k \in Nat : (Queued(0, k)' <=> Queued(0, k)) /\ q'[0].items[k] = q[0].items[k]
    BY <1>1 DEF Registers, Queued
  <1>6. \A e \in txns[m] : e.id \in Nat /\ e.id < x.id
    BY <1>1, <1>4, Promises
  <1>7. \A n \in DOMAIN ops'[0] : ops'[0][n].status = "pending" => Ticket(n)'
    <2> SUFFICES ASSUME NEW n \in DOMAIN ops[0], ops[0][n].status = "pending" PROVE Ticket(n)'
      BY <1>1
    <2>1. Ticket(n)
      BY DEF TicketsInv
    <2>2. CASE \E k \in Nat : Queued(0, k) /\ q[0].items[k].op = n
      <3>1. \E k \in Nat : Queued(0, k)' /\ q'[0].items[k].op = n
        BY <1>5, <2>2
      <3> QED
        BY <3>1 DEF Ticket
    <2>3. CASE Registers /\ bridge[0].txn.op = n
      <3>1. \E e \in txns'[m] : e.op = n
        BY <1>4, <2>3
      <3> QED
        BY <3>1 DEF Ticket
    <2>4. CASE \E i \in Masters : \E e \in txns[i] : e.op = n
      <3>1. \E e \in txns'[m] : e.op = n
        BY <1>2, <1>4, <2>4
      <3> QED
        BY <3>1 DEF Ticket
    <2> QED
      BY <2>1, <2>2, <2>3, <2>4 DEF Ticket
  <1>8. \A j, k \in Nat : Queued(0, j)' /\ Queued(0, k)' /\ j < k => q'[0].items[j].op < q'[0].items[k].op
    BY <1>5 DEF TicketsInv
  <1>9. ASSUME NEW i \in Masters, NEW e \in txns'[i]
        PROVE  /\ \A k \in Nat : Queued(0, k)' => e.op < q'[0].items[k].op
               /\ \A f \in txns'[i] : e.id < f.id => e.op < f.op
    <2>0. i = m
      BY <1>2
    <2>1. CASE e = x
      <3>1. \A k \in Nat : Queued(0, k)' => e.op < q'[0].items[k].op
        BY <1>4, <1>5, <2>1 DEF TicketsInv
      <3>2. \A f \in txns'[m] : ~(e.id < f.id)
        BY <1>4, <1>6, <2>1
      <3> QED
        BY <2>0, <3>1, <3>2
    <2>2. CASE e \in txns[m]
      <3>1. \A k \in Nat : Queued(0, k)' => e.op < q'[0].items[k].op
        BY <1>5, <2>2 DEF TicketsInv
      <3>2. \A f \in txns[m] : e.id < f.id => e.op < f.op
        BY <2>2 DEF TicketsInv
      <3>3. e.op < x.op
        BY <1>4, <1>5, <2>2 DEF TicketsInv
      <3> QED
        BY <1>4, <2>0, <3>1, <3>2, <3>3
    <2> QED
      BY <1>4, <1>9, <2>0, <2>1, <2>2
  <1>10. TicketsInv'
    BY <1>5, <1>7, <1>8, <1>9 DEF TicketsInv
  <1>11. \A k \in Nat : Queued(0, k)' => Asks(q'[0].items[k].msg.txn, ops'[0][q'[0].items[k].op])
    BY <1>1, <1>5 DEF AsksInv
  <1>12. AsksInv'
    BY <1>5, <1>11 DEF AsksInv, Asks
  <1> QED
    BY <1>10, <1>12

\* An answered operation has left the line, and the others keep their places.
LEMMA AnswerTickets ==
    ASSUME OneMaster, CalmInv, CalmInv', NotLost', MeansInv, OrderInv, TicketsInv, AsksInv,
           receiveResponse(0)
    PROVE  TicketsInv' /\ AsksInv'
  <1>1. PICK m \in Masters : \E e \in txns[m] :
             /\ txns'[m] = txns[m] \ {e} /\ Closes(e.op) /\ UNCHANGED <<mem, q, bridge>>
    BY ReceiveResponseBus
  <1>2. PICK e \in txns[m] : txns'[m] = txns[m] \ {e} /\ Closes(e.op) /\ UNCHANGED <<mem, q, bridge>>
    BY <1>1
  <1>3. Masters = {m}
    BY <1>1 DEF OneMaster
  <1>4. /\ (Registers' <=> Registers) /\ bridge'[0].txn = bridge[0].txn
        /\ \A k \in Nat : (Queued(0, k)' <=> Queued(0, k)) /\ q'[0].items[k] = q[0].items[k]
    BY <1>2 DEF Registers, Queued
  <1>5. /\ DOMAIN ops'[0] = DOMAIN ops[0] /\ ops'[0][e.op].status # "pending"
        /\ \A k \in DOMAIN ops[0] : k # e.op => ops'[0][k] = ops[0][k]
    BY <1>2 DEF Closes
  <1>6. /\ \A k \in Nat : Queued(0, k) => q[0].items[k].op \in DOMAIN ops[0] /\ q[0].items[k].op \in Nat
        /\ Registers => bridge[0].txn.op \in DOMAIN ops[0] /\ bridge[0].txn.op \in Nat
        /\ e.op \in Nat
    BY WaitingOps, Promises
  <1>7. \A n \in DOMAIN ops'[0] : ops'[0][n].status = "pending" => Ticket(n)'
    <2> SUFFICES ASSUME NEW n \in DOMAIN ops'[0], ops'[0][n].status = "pending" PROVE Ticket(n)'
      OBVIOUS
    <2>1. n \in DOMAIN ops[0] /\ ops[0][n].status = "pending" /\ n # e.op
      <3>1. n \in DOMAIN ops[0] /\ n # e.op
        BY <1>5
      <3> QED
        BY <1>5, <3>1
    <2>2. Ticket(n)
      BY <2>1 DEF TicketsInv
    <2>3. CASE \E k \in Nat : Queued(0, k) /\ q[0].items[k].op = n
      <3>1. \E k \in Nat : Queued(0, k)' /\ q'[0].items[k].op = n
        BY <1>4, <2>3
      <3> QED
        BY <3>1 DEF Ticket
    <2>4. CASE Registers /\ bridge[0].txn.op = n
      BY <1>4, <2>4 DEF Ticket
    <2>5. CASE \E i \in Masters : \E f \in txns[i] : f.op = n
      <3>1. \E f \in txns'[m] : f.op = n
        BY <1>2, <1>3, <2>1, <2>5
      <3> QED
        BY <3>1 DEF Ticket
    <2> QED
      BY <2>2, <2>3, <2>4, <2>5 DEF Ticket
  <1>8. /\ \A j, k \in Nat : Queued(0, j)' /\ Queued(0, k)' /\ j < k => q'[0].items[j].op < q'[0].items[k].op
        /\ Registers' => \A k \in Nat : Queued(0, k)' => bridge'[0].txn.op < q'[0].items[k].op
    BY <1>4 DEF TicketsInv
  <1>9. \A i \in Masters : \A x \in txns'[i] :
          /\ \A k \in Nat : Queued(0, k)' => x.op < q'[0].items[k].op
          /\ Registers' => x.op < bridge'[0].txn.op
          /\ \A f \in txns'[i] : x.id < f.id => x.op < f.op
    BY <1>2, <1>3, <1>4 DEF TicketsInv
  <1>10. TicketsInv'
    BY <1>7, <1>8, <1>9 DEF TicketsInv
  <1>11. ASSUME NEW k \in Nat, Queued(0, k)' PROVE Asks(q'[0].items[k].msg.txn, ops'[0][q'[0].items[k].op])
    <2>1. e.op < q[0].items[k].op /\ q[0].items[k].op \in DOMAIN ops[0] /\ q[0].items[k].op \in Nat
      BY <1>4, <1>6, <1>11 DEF TicketsInv
    <2>2. ops'[0][q[0].items[k].op] = ops[0][q[0].items[k].op]
      BY <1>5, <1>6, <2>1
    <2> QED
      BY <1>4, <1>11, <2>2 DEF AsksInv
  <1>12. ASSUME Registers' PROVE Asks(bridge'[0].txn.msg.txn, ops'[0][bridge'[0].txn.op])
    <2>1. e.op < bridge[0].txn.op /\ bridge[0].txn.op \in DOMAIN ops[0] /\ bridge[0].txn.op \in Nat
      BY <1>4, <1>6, <1>12 DEF TicketsInv
    <2>2. ops'[0][bridge[0].txn.op] = ops[0][bridge[0].txn.op]
      BY <1>5, <1>6, <2>1
    <2> QED
      BY <1>4, <1>12, <2>2 DEF AsksInv
  <1>13. AsksInv'
    BY <1>11, <1>12 DEF AsksInv, Asks
  <1> QED
    BY <1>10, <1>13

\* The requests before the line.
LEMMA NextTickets ==
    ASSUME OneMaster, CalmInv, CalmInv', NotLost', BusInv,
           (\E c \in Clients : ClientStep(c)) \/ RouterStep
    PROVE  TicketsInv' /\ AsksInv'
  <1>0. MeansInv /\ OrderInv /\ TicketsInv /\ AsksInv /\ Shape /\ 0 \in Clients
    BY Owners DEF BusInv, CalmInv
  <1>1. ASSUME ops' = ops, txns' = txns, q'[0].items = q[0].items,
               Registers' <=> Registers, Registers => bridge'[0].txn = bridge[0].txn
        PROVE  TicketsInv' /\ AsksInv'
    <2>1. \A k \in Nat : (Queued(0, k)' <=> Queued(0, k)) /\ q'[0].items[k] = q[0].items[k]
      BY <1>0, <1>1, QueuedFrames
    <2> QED
      BY <1>0, <1>1, <2>1, TicketsKept
  <1>2. ASSUME ops' = ops, txns' = txns, bridge' = bridge, NEW e \in GoodEntry, Push(0, e), ~IsRequest(e.msg)
        PROVE  TicketsInv' /\ AsksInv'
    <2>1. \A k \in Nat : /\ Queued(0, k)' <=> Queued(0, k)
                         /\ Queued(0, k) => q'[0].items[k] = q[0].items[k]
      BY <1>0, <1>2, PushedRequests
    <2>2. (Registers' <=> Registers) /\ bridge'[0].txn = bridge[0].txn
      BY <1>2 DEF Registers
    <2> QED
      BY <1>0, <1>2, <2>1, <2>2, TicketsKept
  <1>3. CASE RouterStep
    <2>1. ops' = ops /\ txns' = txns /\ q' = q /\ bridge' = bridge
      BY <1>3, RouterLeaves
    <2> QED
      BY <1>1, <2>1 DEF Registers
  <1>4. CASE \E c \in Clients \ {0} : ClientStep(c)
    <2>1. ops' = ops /\ txns' = txns /\ q'[0].items = q[0].items /\ bridge'[0] = bridge[0]
      BY <1>4, OthersLeave
    <2> QED
      BY <1>1, <2>1 DEF Registers
  <1>5. CASE ClientStep(0)
    <2>0. ASSUME ops' = ops, txns' = txns, q'[0].items = q[0].items,
                 bridge'[0].writer = bridge[0].writer, bridge'[0].txn = bridge[0].txn
          PROVE  TicketsInv' /\ AsksInv'
      BY <1>1, <2>0 DEF Registers
    <2>1. CASE \E m \in masterMap(0) : \E type \in ReqTypes, b \in Buffers : issue(m, type, b)
      BY <1>0, <2>1, IssueTickets
    <2>2. CASE \E m \in masterMap(0) : terminate(m)
      <3>1. PICK m \in masterMap(0) : terminate(m)
        BY <2>2
      <3>2. PICK e \in GoodEntry : Push(0, e) /\ e.msg.type = "TERMINATE"
        BY <1>0, <3>1, TerminateEffect
      <3>3. ops' = ops /\ txns' = txns /\ bridge' = bridge
        BY <1>0, <3>1, TerminateEffect
      <3>4. ~IsRequest(e.msg)
        BY <3>2 DEF IsRequest
      <3> QED
        BY <1>2, <3>2, <3>3, <3>4
    <2>3. CASE waitForCompletion(0) \/ disconnect(0)
      BY <1>0, <2>0, <2>3, JoinEffect
    <2>4. CASE writerTake(0)
      BY <1>0, <2>4, TakeTickets
    <2>5. CASE writerWait(0) \/ spuriousWakeup(0)
      BY <1>0, <2>0, <2>5, WaitEffect
    <2>6. CASE writerStop(0)
      <3>1. /\ ops' = ops /\ txns' = txns /\ q'[0].items = q[0].items
            /\ bridge[0].writer = "pop" /\ bridge'[0].writer = "logout"
        BY <1>0, <2>6, StopEffect
      <3> QED
        BY <1>1, <3>1 DEF Registers
    <2>7. CASE writerRegister(0)
      BY <1>0, <2>7, RegisterTickets
    <2>8. CASE writerSend(0) \/ writerLogout(0)
      <3>1. /\ ops' = ops /\ txns' = txns /\ q' = q
            /\ bridge[0].writer \in {"send", "logout"} /\ bridge'[0].writer \in {"pop", "exited"}
        BY <1>0, <2>8, SendEffect
      <3> QED
        BY <1>1, <3>1 DEF Registers
    <2>9. CASE receiveDone(0)
      BY <1>0, <2>0, <2>9, EndEffect
    <2>10. CASE receiveResponse(0)
      BY <1>0, <2>10, AnswerTickets
    <2>11. CASE receiveRequest(0)
      <3>1. \E e \in GoodEntry : Push(0, e) /\ ~IsRequest(e.msg) /\ ops' = ops /\ txns' = txns /\ bridge' = bridge
        BY <2>11, PerformEffect
      <3> QED
        BY <1>2, <3>1
    <2>12. CASE readerNotify(0)
      BY <1>0, <2>0, <2>12, NotifyEffect
    <2>13. CASE clientRead(0) \/ clientWrite(0)
      <3>1. ops' = ops /\ txns' = txns /\ q' = q /\ bridge' = bridge
        BY <2>13 DEF clientRead, clientWrite, appVars, bridgeVars
      <3> QED
        BY <2>0, <3>1
    <2>14. CASE routeLastTerminate(0) \/ routeResponse(0) \/ routeRequest(0)
      <3>1. ops' = ops /\ txns' = txns /\ q' = q /\ bridge' = bridge
        BY <2>14 DEF routeLastTerminate, routeResponse, routeRequest, appVars, bridgeVars
      <3> QED
        BY <2>0, <3>1
    <2> QED
      BY <1>5, <2>1, <2>2, <2>3, <2>4, <2>5, <2>6, <2>7, <2>8, <2>9, <2>10, <2>11, <2>12, <2>13, <2>14 DEF ClientStep
  <1> QED
    BY <1>3, <1>4, <1>5

\* At the start nothing waits and nothing is on its way.
LEMMA InitBus ==
    ASSUME OneMaster, Init
    PROVE  BusInv
  <1>0. 0 \in Clients
    BY Owners
  <1>1. /\ \A c \in Clients : /\ ops[c] = <<>> /\ q[c].items = <<>>
                              /\ bridge[c].writer = "pop" /\ bridge[c].txn = NoEntry
        /\ \A m \in Masters : txns[m] = {}
    BY DEF Init, NewQueue
  <1>2. (\A k \in Nat : ~Queued(0, k)) /\ ~Registers
    BY <1>0, <1>1 DEF Queued, Registers
  <1>3. SizesInv /\ EmptyHandInv
    BY <1>1 DEF SizesInv, EmptyHandInv
  <1>4. TicketsInv /\ AsksInv
    BY <1>0, <1>1, <1>2 DEF TicketsInv, AsksInv
  <1>5. MeansInv
    BY <1>1 DEF MeansInv
  <1>6. OrderInv
    <2>1. CalmInv
      BY InitCalm
    <2>2. \A kind \in Kinds, k \in Nat : ~Moving(kind, k)
      <3> SUFFICES ASSUME NEW kind \in Kinds, NEW k \in Nat, Moving(kind, k) PROVE FALSE
        OBVIOUS
      <3>1. Shape /\ Apart /\ Known
        BY <2>1 DEF CalmInv, PlacesInv
      <3>2. PICK m : m \in Masters
        BY DEF OneMaster
      <3>3. \E e \in txns[m] : e.id = Cargo(kind, k).txn.id
        BY <3>1, <3>2, LineApart
      <3> QED
        BY <1>1, <3>2, <3>3
    <2> QED
      BY <2>2 DEF OrderInv
  <1> QED
    BY <1>3, <1>4, <1>5, <1>6 DEF BusInv

\* BusInv is inductive.
LEMMA NextBus ==
    ASSUME OneMaster, PlainBlocks, CalmInv, CalmInv', NotLost', BusInv,
           (\E c \in Clients : ClientStep(c)) \/ RouterStep
    PROVE  BusInv'
  <1>0. MeansInv /\ OrderInv /\ SizesInv /\ EmptyHandInv /\ Shape
    BY DEF BusInv, CalmInv
  <1>1. OrderInv' /\ MeansInv'
    BY NextLine
  <1>2. TicketsInv' /\ AsksInv'
    BY NextTickets
  <1>3. SizesInv'
    BY <1>0, NextSizes
  <1>4. EmptyHandInv'
    BY <1>0, NextEmptyHand
  <1> QED
    BY <1>1, <1>2, <1>3, <1>4 DEF BusInv
-----------------------------------------------------------------------------
(* The steps of the bus *)

\* The hypotheses that the outcomes need before and after a step.
TwoStates == OneMaster /\ CalmInv /\ CalmInv' /\ EmptyHandInv /\ EmptyHandInv'

\* What came of the operations follows what the responses tell.
LEMMA OutcomeFollows ==
    ASSUME TwoStates
    PROVE  /\ \A x : x \in Outcomes(0) <=> Told(x)
           /\ \A x : x \in Outcomes(0)' <=> Told(x)'
           /\ \A c \in Clients \ {0} : Outcomes(c)' = Outcomes(c)
           /\ 0 \in Clients
  <1>1. /\ OneMaster /\ EmptyHandInv /\ EmptyHandInv' /\ Shape /\ HandsInv /\ IdleInv
        /\ Shape' /\ HandsInv' /\ IdleInv'
    BY DEF TwoStates, CalmInv
  <1>2. /\ \A x : x \in Outcomes(0) <=> Told(x)
        /\ \A c \in Clients \ {0} : Outcomes(c) = {}
    BY <1>1, OutcomesAre
  <1>3. /\ \A x : x \in Outcomes(0)' <=> Told(x)'
        /\ \A c \in Clients \ {0} : Outcomes(c)' = {}
    BY <1>1, OutcomesWillBe
  <1> QED
    BY <1>2, <1>3, Owners

\* Nothing new is told.
LEMMA OutcomeStays ==
    ASSUME TwoStates, ToldSame
    PROVE  [c \in Clients |-> Outcomes(c)]' = [c \in Clients |-> Outcomes(c)]
  <1>1. Outcomes(0)' = Outcomes(0)
    BY OutcomeFollows DEF ToldSame
  <1>2. \A c \in Clients : Outcomes(c)' = Outcomes(c)
    BY <1>1, OutcomeFollows
  <1> QED
    BY <1>2 DEF Clients

\* A response is made.
LEMMA OutcomeGrows ==
    ASSUME TwoStates, NEW e, NEW y, ToldMore(e, y)
    PROVE  /\ [c \in Clients |-> Outcomes(c)]' =
                [[c \in Clients |-> Outcomes(c)] EXCEPT ![0] = @ \cup {y}]
           /\ ~B!Performed(0, e.op)
  <1>1. Outcomes(0)' = Outcomes(0) \cup {y}
    BY OutcomeFollows DEF ToldMore
  <1>2. /\ \A c \in Clients : Outcomes(c)' = IF c = 0 THEN Outcomes(c) \cup {y} ELSE Outcomes(c)
        /\ 0 \in Clients
    BY <1>1, OutcomeFollows
  <1>3. [c \in Clients |-> Outcomes(c)]' =
          [[c \in Clients |-> Outcomes(c)] EXCEPT ![0] = @ \cup {y}]
    BY <1>2 DEF Clients
  <1>4. \A x \in Outcomes(0) : x.op # e.op
    BY OutcomeFollows DEF ToldMore
  <1>5. ~B!Performed(0, e.op)
    BY <1>2, <1>4 DEF B!Performed
  <1> QED
    BY <1>3, <1>5

\* A response arrives.
LEMMA OutcomeLoses ==
    ASSUME TwoStates, NEW y, ToldLess(y)
    PROVE  /\ [c \in Clients |-> Outcomes(c)]' =
                [[c \in Clients |-> Outcomes(c)] EXCEPT ![0] = @ \ {y}]
           /\ y \in [c \in Clients |-> Outcomes(c)][0]
  <1>1. Outcomes(0)' = Outcomes(0) \ {y} /\ y \in Outcomes(0)
    BY OutcomeFollows DEF ToldLess
  <1>2. /\ \A c \in Clients : Outcomes(c)' = IF c = 0 THEN Outcomes(c) \ {y} ELSE Outcomes(c)
        /\ 0 \in Clients
    BY <1>1, OutcomeFollows
  <1>3. [c \in Clients |-> Outcomes(c)]' =
          [[c \in Clients |-> Outcomes(c)] EXCEPT ![0] = @ \ {y}]
    BY <1>2 DEF Clients
  <1> QED
    BY <1>1, <1>2, <1>3

\* The operations that were issued before the one whose transaction the reader
\* takes next, and that wait, have been at the slave, and this one has not.
LEMMA EarlierAreBack ==
    ASSUME OneMaster, CalmInv, NotLost, BusInv, NEW m \in Masters, NEW e \in txns[m], NEW t,
           Cargo("toClient", 1) = TxnMsg(t), t.id = e.id,
           NEW j \in DOMAIN ops[0], ops[0][j].status = "pending", j < e.op
    PROVE  /\ First(t)
           /\ \E f \in txns[m], kind \in Kinds, k \in Nat :
                f.op = j /\ Moving(kind, k) /\ Cargo(kind, k).txn.id = f.id /\ ~First(Cargo(kind, k).txn)
  <1>0. Shape /\ TicketsInv /\ OrderInv /\ "toClient" \in Kinds
    BY DEF CalmInv, BusInv, Kinds
  <1>1. Masters = {m}
    BY DEF OneMaster
  <1>2. /\ \A f, g \in txns[m] : f.op = g.op \/ f.id = g.id => f = g
        /\ \A f \in txns[m] : f.id \in Nat /\ f.op \in Nat
    BY Promises
  <1>3. /\ \A k \in Nat : Queued(0, k) => q[0].items[k].op \in Nat
        /\ Registers => bridge[0].txn.op \in Nat
        /\ j \in Nat
    BY WaitingOps
  <1>4. PICK f \in txns[m] : f.op = j
    <2>1. Ticket(j)
      BY <1>0 DEF TicketsInv
    <2>2. \A k \in Nat : Queued(0, k) => q[0].items[k].op # j
      <3> SUFFICES ASSUME NEW k \in Nat, Queued(0, k) PROVE q[0].items[k].op # j
        OBVIOUS
      <3>1. e.op < q[0].items[k].op
        BY <1>0 DEF TicketsInv
      <3> QED
        BY <1>2, <1>3, <3>1
    <2>3. Registers => bridge[0].txn.op # j
      <3> SUFFICES ASSUME Registers PROVE bridge[0].txn.op # j
        OBVIOUS
      <3>1. e.op < bridge[0].txn.op
        BY <1>0 DEF TicketsInv
      <3> QED
        BY <1>2, <1>3, <3>1
    <2> QED
      BY <1>1, <2>1, <2>2, <2>3 DEF Ticket
  <1>5. f.id < e.id /\ f.id \in Nat /\ e.id \in Nat
    <2>1. f.id # e.id
      BY <1>2, <1>3, <1>4
    <2>2. ~(e.id < f.id)
      <3>1. e.id < f.id => e.op < f.op
        BY <1>0 DEF TicketsInv
      <3> QED
        BY <1>2, <1>3, <1>4, <3>1
    <2> QED
      BY <1>2, <2>1, <2>2
  <1>6. PICK kind \in Kinds, k \in Nat : Moving(kind, k) /\ Cargo(kind, k).txn.id = f.id
    BY InLine
  <1>7. Cargo("toClient", 1).txn = t /\ Moving("toClient", 1)
    BY MessageFacts DEF Moving, TxnMsg
  <1>8. kind # "toClient" \/ k # 1
    BY <1>5, <1>6, <1>7
  <1>9. Ahead("toClient", 1, kind, k)
    BY <1>0, <1>6, <1>8, FrontIsAhead
  <1>10. PICK u : u = Cargo(kind, k).txn
    OBVIOUS
  <1>11. InOrder(t, u, TRUE)
    <2>1. InOrder(t, u, Ahead("toClient", 1, kind, k))
      BY <1>0, <1>6, <1>7, <1>10 DEF OrderInv
    <2> QED
      BY <1>9, <2>1 DEF InOrder
  <1>12. InOrder(u, t, Ahead(kind, k, "toClient", 1))
    BY <1>0, <1>6, <1>7, <1>10 DEF OrderInv
  <1>13. u.id < t.id /\ ~(t.id < u.id)
    BY <1>5, <1>6, <1>10
  <1>14. First(t) /\ ~First(u)
    <2>1. (First(t) <=> First(u)) => t.id < u.id
      BY <1>11 DEF InOrder
    <2>2. First(u) /\ ~First(t) => t.id < u.id
      BY <1>12 DEF InOrder
    <2> QED
      BY <1>13, <2>1, <2>2
  <1> QED
    BY <1>4, <1>6, <1>10, <1>14

\* Master::read and Master::write.
LEMMA IssueIsIssue ==
    ASSUME TwoStates, ToldSame, NEW m \in masterMap(0), NEW type \in ReqTypes, NEW b \in Buffers,
           issue(m, type, b)
    PROVE  B!Issue(0)
  <1>0. Shape
    BY DEF TwoStates, CalmInv
  <1>1. \E n \in Nat, o \in Op, e \in GoodEntry :
             /\ n = Len(ops[0]) + 1 /\ DOMAIN ops[0] = 1 .. n - 1 /\ DOMAIN ops'[0] = 1 .. n
             /\ ops' = [ops EXCEPT ![0] = Append(@, o)] /\ ops'[0] = Append(ops[0], o)
             /\ o.status = "pending" /\ o.address = b.address /\ o.size = b.size
             /\ \A k \in DOMAIN ops[0] : ops'[0][k] = ops[0][k]
             /\ ops'[0][n] = o /\ \A c \in Clients \ {0} : ops'[c] = ops[c]
             /\ Push(0, e) /\ IsRequest(e.msg) /\ e.op = n /\ Asks(e.msg.txn, o)
             /\ UNCHANGED <<bridge, txns, mem>>
    BY <1>0, IssueExact, Zenon
  <1>2. PICK n \in Nat, o \in Op :
             /\ n = Len(ops[0]) + 1 /\ ops' = [ops EXCEPT ![0] = Append(@, o)]
             /\ ops'[0] = Append(ops[0], o) /\ ops'[0][n] = o /\ o.status = "pending" /\ mem' = mem
    BY <1>1, Zenon
  <1>3. ops[0] \in Seq(Op)
    BY <1>0, Owners DEF Shape, OpsInv
  <1>4. Len(ops'[0]) = n
    BY <1>2, <1>3
  <1>5. [o EXCEPT !.status = "pending"] = o
    BY <1>2 DEF Op
  <1>6. [c \in Clients |-> Outcomes(c)]' = [c \in Clients |-> Outcomes(c)]
    BY OutcomeStays
  <1>7. ops'[0][Len(ops'[0])] = o
    BY <1>2, <1>4
  <1>8. ops' = [ops EXCEPT ![0] = Append(@, [ops'[0][Len(ops'[0])] EXCEPT !.status = "pending"])]
    BY <1>2, <1>5, <1>7
  <1> QED
    BY <1>2, <1>4, <1>6, <1>8 DEF B!Issue

\* The router rejects what falls into no block.
LEMMA RouteIsReject ==
    ASSUME TwoStates, PlainBlocks, NotLost', SizesInv, MeansInv, OrderInv, routeRequest(0), ~ToldSame
    PROVE  \E k \in DOMAIN ops[0] : B!Reject(0, k)
  <1>0. OneMaster /\ CalmInv /\ CalmInv'
    BY DEF TwoStates
  <1>1. PICK m \in Masters : \E e \in txns[m] :
                   /\ e.op \in DOMAIN ops[0] /\ ops[0][e.op].status = "pending" /\ ~Fits(ops[0][e.op])
                   /\ ToldMore(e, [op |-> e.op, ok |-> FALSE, data |-> <<>>])
    BY <1>0, RouteRequestBus
  <1>2. PICK e \in txns[m] :
                   /\ e.op \in DOMAIN ops[0] /\ ops[0][e.op].status = "pending" /\ ~Fits(ops[0][e.op])
                   /\ ToldMore(e, [op |-> e.op, ok |-> FALSE, data |-> <<>>])
    BY <1>1
  <1>3. ops' = ops /\ mem' = mem
    BY DEF routeRequest, appVars, bridgeVars
  <1>4. /\ [c \in Clients |-> Outcomes(c)]' =
             [[c \in Clients |-> Outcomes(c)] EXCEPT ![0] = @ \cup {[op |-> e.op, ok |-> FALSE, data |-> <<>>]}]
        /\ ~B!Performed(0, e.op)
    BY <1>2, OutcomeGrows
  <1>5. B!Targets(ops[0][e.op]) = {}
    BY <1>2, BusTargets
  <1>6. B!Pending(0, e.op)
    BY <1>2 DEF B!Pending
  <1>7. B!Reject(0, e.op)
    BY <1>3, <1>4, <1>5, <1>6 DEF B!Reject, B!Outcome
  <1> QED
    BY <1>2, <1>7

\* What the handlers do is what a memory of the bus does.
LEMMA HandlersPerform ==
    ASSUME Shape, PlainBlocks, NEW t \in Transaction, NEW op, Asks(t, op), op.address + op.size < AddrSpace
    PROVE  /\ Fails(t) <=> op.address \in FaultyAddrs
           /\ Fails(t) => [mem EXCEPT ![1] = handleWrite(@, t)] = mem
           /\ ~Fails(t) /\ t.type = "WRITE_REQ" =>
                [mem EXCEPT ![1] = handleWrite(@, t)] =
                  [mem EXCEPT ![1] =
                           [x \in Addr |-> IF x \in B!Range(op)
                                           THEN op.buffer[x - op.address + 1] ELSE @[x]]]
           /\ handleRead(mem[1], t) = [i \in 1 .. op.size |-> mem[1][op.address + i - 1]]
  <1>1. /\ t.type = op.type /\ t.address = op.address /\ t.size = op.size
        /\ op.type = "WRITE_REQ" => t.data = op.buffer
    BY DEF Asks
  <1>2. op.address \in Addr /\ op.size \in Addr
    BY <1>1 DEF Transaction
  <1>3. mem \in [Slaves -> [Addr -> 0 .. MaxOps]] /\ 1 \in Slaves
    BY DEF Shape, TablesInv, PlainBlocks
  <1>4. Addr = 0 .. AddrSpace - 1 /\ AddrSpace \in Nat \ {0}
    BY AddrSpaceAssumption DEF Addr
  <1>5. Fails(t) <=> op.address \in FaultyAddrs
    BY <1>1 DEF Fails
  <1>6. Fails(t) => [mem EXCEPT ![1] = handleWrite(@, t)] = mem
    <2>1. Fails(t) => handleWrite(mem[1], t) = mem[1]
      BY DEF handleWrite
    <2> QED
      BY <1>3, <2>1
  <1>7. ASSUME ~Fails(t), t.type = "WRITE_REQ"
        PROVE  [mem EXCEPT ![1] = handleWrite(@, t)] =
                  [mem EXCEPT ![1] =
                           [x \in Addr |-> IF x \in B!Range(op)
                                           THEN op.buffer[x - op.address + 1] ELSE @[x]]]
    <2>1. handleWrite(mem[1], t) =
            [x \in Addr |-> IF x \in t.address .. (t.address + t.size - 1)
                            THEN t.data[x - t.address + 1] ELSE mem[1][x]]
      BY <1>7 DEF handleWrite
    <2>2. B!Range(op) = t.address .. (t.address + t.size - 1)
      BY <1>1 DEF B!Range
    <2>3. t.data = op.buffer
      BY <1>1, <1>7
    <2>4. handleWrite(mem[1], t) =
            [x \in Addr |-> IF x \in B!Range(op) THEN op.buffer[x - op.address + 1] ELSE mem[1][x]]
      BY <1>1, <2>1, <2>2, <2>3
    <2> QED
      BY <2>4
  <1>8. handleRead(mem[1], t) = [i \in 1 .. op.size |-> mem[1][op.address + i - 1]]
    <2>1. \A i \in 1 .. op.size : Plus(op.address, i - 1) = op.address + i - 1
      BY <1>2, <1>4 DEF Plus
    <2> QED
      BY <1>1, <2>1 DEF handleRead
  <1> QED
    BY <1>5, <1>6, <1>7, <1>8

\* The reader that calls a handler of the slave performs the operation.
LEMMA ReceiveIsPerform ==
    ASSUME TwoStates, PlainBlocks, NotLost, NotLost', BusInv, receiveRequest(0)
    PROVE  \E k \in DOMAIN ops[0] : \E s \in Slaves : B!Perform(0, k, s)
  <1>0. /\ OneMaster /\ CalmInv /\ CalmInv' /\ SizesInv /\ MeansInv /\ OrderInv /\ Shape
        /\ 1 \in Slaves /\ 0 \in Clients
    BY Owners DEF TwoStates, BusInv, CalmInv, PlainBlocks
  <1>1. PICK m \in Masters : \E e \in txns[m] : \E t \in Transaction :
                 /\ Cargo("toClient", 1) = TxnMsg(t) /\ t.type \in ReqTypes /\ t.id = e.id
                 /\ e.op \in DOMAIN ops[0] /\ ops[0][e.op].status = "pending"
                 /\ Asks(t, ops[0][e.op]) /\ Fits(ops[0][e.op])
                 /\ mem' = IF t.type = "WRITE_REQ" THEN [mem EXCEPT ![1] = handleWrite(@, t)] ELSE mem
                 /\ ToldMore(e, Result(e, ResponseTxn(mem[1], t)))
    <2>1. \E m \in Masters : \E e \in txns[m] : \E t \in Transaction :
                 /\ Cargo("toClient", 1) = TxnMsg(t) /\ t.type \in ReqTypes /\ t.id = e.id
                 /\ t.type = "WRITE_REQ" => Len(t.data) = t.size
                 /\ e.op \in DOMAIN ops[0] /\ ops[0][e.op].status = "pending"
                 /\ Asks(t, ops[0][e.op]) /\ Fits(ops[0][e.op])
                 /\ mem' = IF t.type = "WRITE_REQ" THEN [mem EXCEPT ![1] = handleWrite(@, t)] ELSE mem
                 /\ ToldMore(e, Result(e, ResponseTxn(mem[1], t)))
      BY <1>0, ReceiveRequestBus, Zenon
    <2> QED
      BY <2>1, Zenon
  <1>2. PICK e \in txns[m], t \in Transaction :
                 /\ Cargo("toClient", 1) = TxnMsg(t) /\ t.type \in ReqTypes /\ t.id = e.id
                 /\ e.op \in DOMAIN ops[0] /\ ops[0][e.op].status = "pending"
                 /\ Asks(t, ops[0][e.op]) /\ Fits(ops[0][e.op])
                 /\ mem' = IF t.type = "WRITE_REQ" THEN [mem EXCEPT ![1] = handleWrite(@, t)] ELSE mem
                 /\ ToldMore(e, Result(e, ResponseTxn(mem[1], t)))
    BY <1>1, Zenon
  <1>3. PICK op : op = ops[0][e.op]
    OBVIOUS
  <1>4. op.address + op.size < AddrSpace /\ Asks(t, op) /\ t.type = op.type
    BY <1>0, <1>2, <1>3, OpSizes DEF Asks
  <1>5. PICK y : y = Result(e, ResponseTxn(mem[1], t))
    OBVIOUS
  <1>6. /\ [c \in Clients |-> Outcomes(c)]' = [[c \in Clients |-> Outcomes(c)] EXCEPT ![0] = @ \cup {y}]
        /\ ~B!Performed(0, e.op)
    BY <1>2, <1>5, OutcomeGrows
  <1>7. /\ Fails(t) <=> op.address \in FaultyAddrs
        /\ Fails(t) => [mem EXCEPT ![1] = handleWrite(@, t)] = mem
        /\ ~Fails(t) /\ t.type = "WRITE_REQ" =>
             [mem EXCEPT ![1] = handleWrite(@, t)] =
               [mem EXCEPT ![1] =
                        [x \in Addr |-> IF x \in B!Range(op)
                                        THEN op.buffer[x - op.address + 1] ELSE @[x]]]
        /\ handleRead(mem[1], t) = [i \in 1 .. op.size |-> mem[1][op.address + i - 1]]
    BY <1>0, <1>4, HandlersPerform
  <1>8. \/ Fails(t) /\ y = [op |-> e.op, ok |-> FALSE, data |-> <<>>]
        \/ ~Fails(t) /\ t.type = "WRITE_REQ" /\ y = [op |-> e.op, ok |-> TRUE, data |-> <<>>]
        \/ ~Fails(t) /\ t.type = "READ_REQ" /\ y = [op |-> e.op, ok |-> TRUE, data |-> handleRead(mem[1], t)]
    BY <1>2, <1>5 DEF Result, ResponseTxn, ReqTypes
  <1>9. \/ /\ op.address \in FaultyAddrs
           /\ B!Outcome(0, e.op, FALSE, <<>>)
           /\ UNCHANGED mem
        \/ /\ op.address \notin FaultyAddrs /\ op.type = "WRITE_REQ"
           /\ B!Outcome(0, e.op, TRUE, <<>>)
           /\ mem' = [mem EXCEPT ![1] =
                        [x \in Addr |-> IF x \in B!Range(op)
                                        THEN op.buffer[x - op.address + 1] ELSE @[x]]]
        \/ /\ op.address \notin FaultyAddrs /\ op.type = "READ_REQ"
           /\ B!Outcome(0, e.op, TRUE, [i \in 1 .. op.size |-> mem[1][op.address + i - 1]])
           /\ UNCHANGED mem
    <2>1. CASE Fails(t) /\ y = [op |-> e.op, ok |-> FALSE, data |-> <<>>]
      <3>1. B!Outcome(0, e.op, FALSE, <<>>)
        BY <1>6, <2>1 DEF B!Outcome
      <3>2. mem' = mem
        BY <1>2, <1>7, <2>1
      <3> QED
        BY <1>7, <2>1, <3>1, <3>2
    <2>2. CASE ~Fails(t) /\ t.type = "WRITE_REQ" /\ y = [op |-> e.op, ok |-> TRUE, data |-> <<>>]
      <3>1. B!Outcome(0, e.op, TRUE, <<>>)
        BY <1>6, <2>2 DEF B!Outcome
      <3>2. mem' = [mem EXCEPT ![1] = handleWrite(@, t)]
        BY <1>2, <2>2
      <3>3. mem' = [mem EXCEPT ![1] =
                        [x \in Addr |-> IF x \in B!Range(op)
                                        THEN op.buffer[x - op.address + 1] ELSE @[x]]]
        BY <1>7, <2>2, <3>2, Zenon
      <3> QED
        BY <1>4, <1>7, <2>2, <3>1, <3>3
    <2>3. CASE ~Fails(t) /\ t.type = "READ_REQ" /\ y = [op |-> e.op, ok |-> TRUE, data |-> handleRead(mem[1], t)]
      <3>1. B!Outcome(0, e.op, TRUE, [i \in 1 .. op.size |-> mem[1][op.address + i - 1]])
        BY <1>6, <1>7, <2>3 DEF B!Outcome
      <3>2. mem' = mem
        BY <1>2, <2>3
      <3> QED
        BY <1>4, <1>7, <2>3, <3>1, <3>2
    <2> QED
      BY <1>8, <2>1, <2>2, <2>3
  <1>10. B!Pending(0, e.op) /\ 1 \in B!Targets(op)
    BY <1>2, <1>3, BusTargets DEF B!Pending
  <1>11. ASSUME NEW j \in 1 .. e.op - 1, B!Pending(0, j), B!Targets(ops[0][j]) # {}
         PROVE  B!Performed(0, j)
    <2>1. j \in DOMAIN ops[0] /\ j < e.op
      <3>1. ops[0] \in Seq(Op)
        BY <1>0 DEF Shape, OpsInv
      <3> QED
        BY <1>2, <1>11, <3>1
    <2>2. ops[0][j].status = "pending"
      BY <1>11 DEF B!Pending
    <2>3. PICK f \in txns[m], kind \in Kinds, k \in Nat :
             f.op = j /\ Moving(kind, k) /\ Cargo(kind, k).txn.id = f.id /\ ~First(Cargo(kind, k).txn)
      BY <1>0, <1>2, <2>1, <2>2, EarlierAreBack
    <2>4. Replies(kind, k, f)
      BY <1>0, <2>3, CargoIsGood DEF First, Replies, IsResponse, Moving
    <2>5. Told(Result(f, Cargo(kind, k).txn))
      BY <2>4 DEF Told
    <2>6. Result(f, Cargo(kind, k).txn) \in Outcomes(0) /\ Result(f, Cargo(kind, k).txn).op = j
      BY <2>3, <2>5, OutcomeFollows DEF Result
    <2> QED
      BY <1>0, <2>6 DEF B!Performed
  <1>12. ops' = ops
    BY DEF receiveRequest, appVars
  <1>13. B!Perform(0, e.op, 1)
    BY <1>3, <1>6, <1>9, <1>10, <1>11, <1>12 DEF B!Perform
  <1> QED
    BY <1>0, <1>2, <1>13

\* The reader that fulfils a promise answers the operation.
LEMMA ReceiveIsAnswer ==
    ASSUME TwoStates, PlainBlocks, NotLost, NotLost', BusInv, receiveResponse(0)
    PROVE  \E k \in DOMAIN ops[0] : B!Answer(0, k)
  <1>0. OneMaster /\ CalmInv /\ CalmInv' /\ MeansInv /\ OrderInv /\ Shape /\ 0 \in Clients
    BY Owners DEF TwoStates, BusInv, CalmInv
  <1>1. \E m \in Masters : \E e \in txns[m] : \E t \in Transaction :
                 /\ Cargo("toClient", 1) = TxnMsg(t) /\ t.type \in RespTypes /\ t.id = e.id
                 /\ e.op \in DOMAIN ops[0] /\ ops[0][e.op].status = "pending" /\ Tells(t, ops[0][e.op])
                 /\ ops' = [ops EXCEPT ![0][e.op].status = IF t.ok THEN "ok" ELSE "error",
                                       ![0][e.op].buffer = IF t.type = "READ_RESP" /\ t.ok
                                                           THEN t.data ELSE @]
                 /\ txns'[m] = txns[m] \ {e} /\ Closes(e.op)
                 /\ ToldLess(Result(e, t)) /\ UNCHANGED <<mem, q, bridge>>
    BY <1>0, ReceiveResponseBus, Zenon
  <1>2. PICK m \in Masters : \E e \in txns[m] : \E t \in Transaction :
                 /\ Cargo("toClient", 1) = TxnMsg(t) /\ t.type \in RespTypes /\ t.id = e.id
                 /\ e.op \in DOMAIN ops[0] /\ ops[0][e.op].status = "pending" /\ Tells(t, ops[0][e.op])
                 /\ ops' = [ops EXCEPT ![0][e.op].status = IF t.ok THEN "ok" ELSE "error",
                                       ![0][e.op].buffer = IF t.type = "READ_RESP" /\ t.ok
                                                           THEN t.data ELSE @]
                 /\ ToldLess(Result(e, t)) /\ UNCHANGED <<mem, q, bridge>>
    BY <1>1, Zenon
  <1>3. PICK e \in txns[m], t \in Transaction :
                 /\ Cargo("toClient", 1) = TxnMsg(t) /\ t.type \in RespTypes /\ t.id = e.id
                 /\ e.op \in DOMAIN ops[0] /\ ops[0][e.op].status = "pending" /\ Tells(t, ops[0][e.op])
                 /\ ops' = [ops EXCEPT ![0][e.op].status = IF t.ok THEN "ok" ELSE "error",
                                       ![0][e.op].buffer = IF t.type = "READ_RESP" /\ t.ok
                                                           THEN t.data ELSE @]
                 /\ ToldLess(Result(e, t)) /\ UNCHANGED <<mem, q, bridge>>
    BY <1>2, Zenon
  <1>4. PICK y : y = Result(e, t)
    OBVIOUS
  <1>5. y.op = e.op /\ y.ok = t.ok /\ y.data = t.data /\ t.ok \in BOOLEAN
    BY <1>4 DEF Result, Transaction
  <1>6. /\ [c \in Clients |-> Outcomes(c)]' = [[c \in Clients |-> Outcomes(c)] EXCEPT ![0] = @ \ {y}]
        /\ y \in [c \in Clients |-> Outcomes(c)][0]
    BY <1>3, <1>4, OutcomeLoses
  <1>7. B!Pending(0, e.op)
    BY <1>3 DEF B!Pending
  <1>8. ASSUME B!Targets(ops[0][e.op]) # {}, NEW j \in 1 .. e.op - 1 PROVE ~B!Pending(0, j)
    <2> SUFFICES ASSUME B!Pending(0, j) PROVE FALSE
      OBVIOUS
    <2>1. j \in DOMAIN ops[0] /\ j < e.op
      <3>1. ops[0] \in Seq(Op)
        BY <1>0 DEF Shape, OpsInv
      <3> QED
        BY <1>3, <1>8, <3>1
    <2>2. ops[0][j].status = "pending"
      BY DEF B!Pending
    <2>3. First(t)
      BY <1>0, <1>3, <2>1, <2>2, EarlierAreBack
    <2>4. Fits(ops[0][e.op])
      BY <1>8, BusTargets
    <2>5. t.size # 0
      BY <1>3, <2>4 DEF Tells
    <2> QED
      BY <1>3, <2>3, <2>5 DEF First, ReqTypes, RespTypes
  <1>9. t.type = "READ_RESP" <=> ops[0][e.op].type = "READ_REQ"
    BY <1>3 DEF Tells, RespOf
  <1>10. ops' = [ops EXCEPT ![0][e.op].status = IF y.ok THEN "ok" ELSE "error",
                            ![0][e.op].buffer = IF y.ok /\ ops[0][e.op].type = "READ_REQ"
                                                THEN y.data ELSE @]
    <2>1. t.type = "READ_RESP" /\ t.ok <=> y.ok /\ ops[0][e.op].type = "READ_REQ"
      BY <1>5, <1>9
    <2>2. PICK taken, d, status :
            /\ taken = (t.type = "READ_RESP" /\ t.ok) /\ d = t.data
            /\ status = IF t.ok THEN "ok" ELSE "error"
      BY <1>5
    <2>3. ops' = [ops EXCEPT ![0][e.op].status = status, ![0][e.op].buffer = IF taken THEN d ELSE @]
      BY <1>3, <2>2
    <2> QED
      BY <1>5, <2>1, <2>2, <2>3
  <1>11. B!Answer(0, e.op)
    BY <1>3, <1>5, <1>6, <1>7, <1>8, <1>10 DEF B!Answer
  <1> QED
    BY <1>3, <1>11

\* Every step is one of the bus, or one that the bus does not see.
LEMMA BusStep ==
    ASSUME TwoStates, PlainBlocks, NotLost, NotLost', BusInv,
           (\E c \in Clients : ClientStep(c)) \/ RouterStep
    PROVE  [B!Next]_(B!vars)
  <1>0. /\ OneMaster /\ CalmInv /\ CalmInv' /\ SizesInv /\ MeansInv /\ OrderInv /\ 0 \in Clients
    BY Owners DEF TwoStates, BusInv
  <1>1. ASSUME ToldSame, ops' = ops, mem' = mem PROVE [B!Next]_(B!vars)
    BY <1>1, OutcomeStays DEF B!vars
  <1>2. CASE receiveRequest(0)
    BY <1>0, <1>2, ReceiveIsPerform DEF B!Next
  <1>3. CASE receiveResponse(0)
    BY <1>0, <1>3, ReceiveIsAnswer DEF B!Next
  <1>4. CASE routeRequest(0)
    <2>1. ops' = ops /\ mem' = mem
      BY <1>4 DEF routeRequest, appVars, bridgeVars
    <2>2. CASE ToldSame
      BY <1>1, <2>1, <2>2
    <2>3. CASE ~ToldSame
      <3>1. \E k \in DOMAIN ops[0] : B!Reject(0, k)
        BY <1>0, <1>4, <2>3, RouteIsReject
      <3> QED
        BY <1>0, <3>1 DEF B!Next
    <2> QED
      BY <2>2, <2>3
  <1>5. CASE ToldSame /\ ~receiveRequest(0) /\ ~receiveResponse(0)
    <2>1. CASE UNCHANGED <<ops, txns, mem>>
      BY <1>1, <1>5, <2>1
    <2>2. CASE writerRegister(0)
      <3>1. ops' = ops /\ mem' = mem
        BY <2>2 DEF writerRegister, appVars
      <3> QED
        BY <1>1, <1>5, <3>1
    <2>3. CASE \E m \in masterMap(0), type \in ReqTypes, b \in Buffers : issue(m, type, b)
      <3>1. B!Issue(0)
        BY <1>5, <2>3, IssueIsIssue
      <3> QED
        BY <1>0, <3>1 DEF B!Next
    <2> QED
      BY <1>0, <1>5, <2>1, <2>2, <2>3, BusFrames
  <1> QED
    BY <1>0, <1>2, <1>3, <1>4, <1>5, NextLine

\* The system of test 02 is a bus (BusSpec).  With one master and one slave,
\* both of the first client, the queue of its bridge, the sockets, and the
\* threads and goroutines between them perform every operation that falls into
\* the slave's block once, in one step and in the order of issue, reject the
\* others, and answer each with what came of it, those performed in their order.
THEOREM SystemIsBus ==
    ASSUME OneMaster, PlainBlocks
    PROVE  Spec => BusSpec
  <1> DEFINE Inv == CalmInv /\ NotLost /\ BusInv
  <1>1. Init => Inv
    <2>1. Init => NotLost
      BY DEF Init, NotLost, Ids
    <2> QED
      BY <2>1, InitCalm, InitBus
  <1>2. ASSUME Inv, [Next]_vars PROVE Inv' /\ [B!Next]_(B!vars)
    <2>1. CalmInv' /\ ((\E c \in Clients : ClientStep(c)) \/ RouterStep)
      BY <1>2, NextCalm
    <2>2. Shape /\ PendingInv /\ HandsInv
      BY <1>2 DEF CalmInv
    <2>3. NotLost'
      BY <1>2, <2>1, <2>2, NextNotLost
    <2>4. BusInv'
      BY <1>2, <2>1, <2>3, NextBus
    <2>5. TwoStates
      BY <1>2, <2>1, <2>4 DEF TwoStates, BusInv
    <2>6. [B!Next]_(B!vars)
      BY <1>2, <2>1, <2>3, <2>5, BusStep
    <2> QED
      BY <2>1, <2>3, <2>4, <2>6
  <1>3. Init => B!Init
    <2> SUFFICES ASSUME Init PROVE B!Init
      OBVIOUS
    <2>1. \A m \in Masters : txns[m] = {}
      BY DEF Init
    <2>2. \A c \in Clients : Outcomes(c) = {}
      BY <2>1 DEF Outcomes, masterMap
    <2>3. ops = [c \in Clients |-> <<>>] /\ mem = [s \in Slaves |-> [x \in Addr |-> 0]]
      BY DEF Init
    <2> QED
      BY <2>2, <2>3 DEF B!Init
  <1> HIDE DEF Inv
  <1> QED
    BY <1>1, <1>2, <1>3, PTL DEF Spec, BusSpec, B!Spec
=============================================================================
