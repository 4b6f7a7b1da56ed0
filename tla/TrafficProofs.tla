---------------------------- MODULE TrafficProofs ----------------------------
(***************************************************************************)
(* Proofs about the started system for any number of clients, any blocks,  *)
(* owners and buffers, any failing addresses and any crashes.              *)
(***************************************************************************)
EXTENDS Traffic, FiniteSetTheorems, SequenceTheorems, TLAPS

(* Types *)

\* A transaction has target 0, with which the request is built and which the
\* router's MutateTarget leaves.  A write has as many bytes as it says.
GoodMsg ==
    {msg \in Message :
        msg.type = "TRANSACTION" =>
            /\ msg.txn.target = 0
            /\ msg.txn.type = "WRITE_REQ" => Len(msg.txn.data) = msg.txn.size}

\* The elements of a queue: only a request has an operation.
GoodEntry ==
    {e \in [type : {"TRANSACTION", "TERMINATION"}, msg : GoodMsg, op : 0 .. MaxOps] :
        IsRequest(e.msg) => e.op # 0}

Op == [master : Masters, type : ReqTypes, address : Addr, size : Addr,
       status : {"pending", "ok", "error"}, buffer : Bytes]

OpsInv == ops \in [Clients -> Seq(Op)] /\ terminated \subseteq Masters

IsQueue(r) ==
    /\ DOMAIN r = {"items", "done", "consumer"}
    /\ r.items \in Seq(GoodEntry)
    /\ r.consumer \in {"out", "waiting", "woken"}

QueuesInv == DOMAIN q = Clients /\ \A c \in Clients : IsQueue(q[c])

\* The writer has an element of the queue when it is about to send one.
IsBridge(r) ==
    /\ r \in [state : {"STARTED", "LOGGED_OUT", "DISCONNECTED"},
             reader : {"receive", "spinning", "notify", "exited"}, readerStatus : {"ok", "error"},
             writer : {"pop", "register", "send", "logout", "exited"},
             writerStatus : {"ok", "error"}, txn : GoodEntry \cup {NoEntry},
             app : {"running", "completed", "disconnected", "killed"}]
    /\ r.writer \in {"register", "send"} => r.txn \in GoodEntry
    /\ r.writer = "register" => IsRequest(r.txn.msg)

BridgesInv == DOMAIN bridge = Clients /\ \A c \in Clients : IsBridge(bridge[c])

TablesInv ==
    /\ txns \in [Masters -> SUBSET [id : Nat, op : 1 .. MaxOps]]
    /\ lastTxnId \in [Masters -> Nat]
    /\ mem \in [Slaves -> [Addr -> 0 .. MaxOps]]

SocketsInv ==
    /\ toRouter \in [Clients -> Seq(GoodMsg)]
    /\ toClient \in [Clients -> Seq(GoodMsg)]

\* A goroutine has a message when it is about to pass it on.
RouterInv ==
    /\ rr \in [Clients -> [pc : {"read", "push", "exited"}, msg : GoodMsg \cup {NoMsg}]]
    /\ rw \in [Clients -> [pc : {"receive", "write", "exited"}, msg : GoodMsg \cup {NoMsg}]]
    /\ rt \in [pc : {"receive", "send", "sendDone", "exited"},
               msg : GoodMsg \cup {NoMsg}, client : Clients]
    /\ \A c \in Clients : /\ rr[c].pc = "push" => rr[c].msg \in GoodMsg
                          /\ rw[c].pc = "write" => rw[c].msg \in GoodMsg
    /\ rt.pc = "send" => rt.msg \in GoodMsg
    /\ up \in {"running", "fatal", "exited"}

\* The router counts one master down at most before it ends.
CountInv ==
    /\ masterCount \in Nat
    /\ up = "running" /\ rt.pc \in {"receive", "send"} => masterCount = Cardinality(Masters)

Shape ==
    /\ OpsInv /\ QueuesInv /\ BridgesInv /\ TablesInv /\ SocketsInv
    /\ RouterInv /\ CountInv
-----------------------------------------------------------------------------
(* The transactions on their way *)

Kinds == {"queue", "toRouter", "toClient", "writer", "rr", "rw", "rt"}

\* A spot is a kind of place, a client and a position.
Spots == Kinds \X Clients \X Nat

\* Element k of a sequence of messages, NoMsg if there is none.
At(s, k) == IF k \in DOMAIN s THEN s[k] ELSE NoMsg

\* The response that is element k of a queue: a request has no id yet.
ResponseAt(s, k) == IF k \in DOMAIN s /\ IsResponse(s[k].msg) THEN s[k].msg ELSE NoMsg

\* What a bridge is about to send.
Sending(r) == IF r.writer = "send" THEN r.txn.msg ELSE NoMsg

Load(w) ==
    LET kind == w[1]
        c == w[2]
        k == w[3]
    IN  CASE kind = "queue"    -> ResponseAt(q[c].items, k)
          [] kind = "toRouter" -> At(toRouter[c], k)
          [] kind = "toClient" -> At(toClient[c], k)
          [] kind = "writer"   -> IF k = 0 THEN Sending(bridge[c]) ELSE NoMsg
          [] kind = "rr"       -> IF k = 0 THEN rr[c].msg ELSE NoMsg
          [] kind = "rw"       -> IF k = 0 THEN rw[c].msg ELSE NoMsg
          [] kind = "rt"       -> IF k = 0 /\ c = 0 THEN rt.msg ELSE NoMsg

\* A transaction is in one spot.
Apart ==
    \A m \in Masters, id \in Nat, v, w \in Spots :
        Carries(Load(v), m, id) /\ Carries(Load(w), m, id) => v = w

\* A transaction on its way waits in txns.
Known == \A m \in Masters, id \in Nat, w \in Spots : Carries(Load(w), m, id) => id \in Ids(m)

\* The next id is new.
FreshIds == \A m \in Masters : \A id \in Ids(m) : id < lastTxnId[m]

PlacesInv == Apart /\ Known /\ FreshIds
-----------------------------------------------------------------------------
(* Termination *)

\* An operation belongs to a master of its client.
OwnOps == \A c \in Clients : \A k \in DOMAIN ops[c] : ops[c][k].master \in masterMap(c)

\* Test 02 terminates a master when it has an answer to all its operations.
Answered == \A m \in terminated : ~Outstanding(m)

\* A termination on its way is that of a terminated master.
Ended(msg) == msg.type = "TERMINATE" => msg.ip \in terminated

EndedQueue(c)  == \A k \in DOMAIN q[c].items : Ended(q[c].items[k].msg)
EndedSocket(c) == \A k \in DOMAIN toRouter[c] : Ended(toRouter[c][k])
EndedWriter(c) == Ended(bridge[c].txn.msg)
EndedReader(c) == Ended(rr[c].msg)

TerminationsInv ==
    \A c \in Clients : EndedQueue(c) /\ EndedSocket(c) /\ EndedWriter(c) /\ EndedReader(c)

\* No DONE is on its way to client c, and its reader has not seen one.
NoDone(c) ==
    /\ rw[c].msg.type # "DONE"
    /\ \A k \in DOMAIN toClient[c] : toClient[c][k].type # "DONE"
    /\ \/ bridge[c].reader \in {"receive", "spinning"} \/ bridge[c].readerStatus = "error"
       \/ bridge[c].app = "killed"

NoDoneAtRoute == rt.pc \in {"receive", "send"} /\ rt.msg.type # "DONE"

\* The router says DONE only when all masters are terminated.
DoneInv == Masters \subseteq terminated \/ (NoDoneAtRoute /\ \A c \in Clients : NoDone(c))

\* waitForCompletion has joined the reader.
JoinedInv == \A c \in Clients : bridge[c].app = "completed" => bridge[c].reader = "exited"

HonestInv == OwnOps /\ Answered /\ TerminationsInv /\ DoneInv /\ JoinedInv
-----------------------------------------------------------------------------
(* Messages *)

\* The members of Transaction.
LEMMA TxnFields ==
    /\ \A t \in Transaction :
         /\ t.type \in ReqTypes \cup RespTypes /\ t.initiator \in Masters /\ t.target \in Nat
         /\ t.id \in Nat /\ t.address \in Addr /\ t.size \in Addr /\ t.data \in Bytes
         /\ t.ok \in BOOLEAN
    /\ \A ty \in ReqTypes \cup RespTypes, m \in Masters, i \in Nat,
          a, s \in Addr, d \in Bytes, k \in BOOLEAN :
         [type |-> ty, initiator |-> m, target |-> 0, id |-> i, address |-> a,
          size |-> s, data |-> d, ok |-> k] \in Transaction
  BY DEF Transaction

\* What a message is depends on its type.
LEMMA MessageFacts ==
    /\ DoneMsg.type = "DONE" /\ NoMsg.type = "NONE"
    /\ \A m : TerminateMsg(m).type = "TERMINATE" /\ TerminateMsg(m).ip = m
    /\ \A t : TxnMsg(t).type = "TRANSACTION" /\ TxnMsg(t).txn = t
    /\ \A t \in Transaction : TxnMsg(t) \in Message
    /\ \A msg \in Message :
         /\ msg.type \in {"DONE", "TERMINATE", "TRANSACTION"}
         /\ msg.type = "DONE" => msg = DoneMsg
         /\ msg.type = "TERMINATE" => msg.ip \in Masters
         /\ msg.type = "TRANSACTION" => msg.txn \in Transaction /\ msg = TxnMsg(msg.txn)
  BY DEF Message, DoneMsg, NoMsg, TerminateMsg, TxnMsg

\* The messages of the system: which there are, and what a transaction among
\* them is.
LEMMA GoodMsgFacts ==
    /\ GoodMsg \subseteq Message /\ NoMsg \notin GoodMsg
    /\ DoneMsg \in GoodMsg
    /\ \A m \in Masters : TerminateMsg(m) \in GoodMsg
    /\ \A t \in Transaction :
         t.target = 0 /\ (t.type = "WRITE_REQ" => Len(t.data) = t.size) => TxnMsg(t) \in GoodMsg
    /\ \A msg \in GoodMsg :
         msg.type = "TRANSACTION" =>
           /\ msg.txn \in Transaction /\ msg.txn.target = 0
           /\ msg.txn.type = "WRITE_REQ" => Len(msg.txn.data) = msg.txn.size
  <1>1. \A m \in Masters : TerminateMsg(m) \in Message
    BY DEF Message
  <1>2. DoneMsg \in Message
    BY DEF Message
  <1> QED
    BY <1>1, <1>2, MessageFacts DEF GoodMsg

\* The elements of a queue.
LEMMA EntryFacts ==
    /\ \A e \in GoodEntry : /\ e.msg \in GoodMsg /\ e.op \in 0 .. MaxOps
                            /\ IsRequest(e.msg) => e.op \in 1 .. MaxOps
    /\ \A e : Entry("NONE", NoMsg, 0).msg = NoMsg
    /\ \A ty, msg, n : Entry(ty, msg, n).msg = msg /\ Entry(ty, msg, n).op = n
    /\ \A ty \in {"TRANSACTION", "TERMINATION"}, msg \in GoodMsg, n \in 0 .. MaxOps :
         (IsRequest(msg) => n # 0) => Entry(ty, msg, n) \in GoodEntry
    /\ NoEntry.msg = NoMsg
  BY BoundsAssumption DEF GoodEntry, Entry, NoEntry

\* A function on an interval is a sequence.
LEMMA FunctionIsSeq ==
    ASSUME NEW S, NEW n \in Nat, NEW f \in [1 .. n -> S]
    PROVE  f \in Seq(S) /\ Len(f) = n
  <1>1. f \in Seq(S)
    BY SeqDef
  <1>2. 1 .. Len(f) = 1 .. n /\ Len(f) \in Nat
    BY <1>1, LenProperties
  <1>3. Len(f) = n
    BY <1>2
  <1> QED
    BY <1>1, <1>3

\* What an application issues.
LEMMA RequestIsGood ==
    ASSUME NEW m \in Masters, NEW type \in ReqTypes, NEW b \in Buffers, NEW n \in 1 .. MaxOps
    PROVE  /\ RequestTxn(m, type, b, n).data \in Bytes
           /\ RequestTxn(m, type, b, n).initiator = m
           /\ Entry("TRANSACTION", TxnMsg(RequestTxn(m, type, b, n)), n) \in GoodEntry
           /\ IsRequest(TxnMsg(RequestTxn(m, type, b, n)))
  <1> DEFINE data == IF type = "WRITE_REQ" THEN Payload(b, n) ELSE <<>>
             t == RequestTxn(m, type, b, n)
  <1>1. b.address \in Addr /\ b.size \in Addr /\ b.size \in Nat
    BY BuffersAssumption, AddrSpaceAssumption DEF Addr
  <1>2. n \in 0 .. MaxOps
    BY BoundsAssumption
  <1>3. Payload(b, n) \in Bytes /\ Len(Payload(b, n)) = b.size
    <2>1. Payload(b, n) \in [1 .. b.size -> 0 .. MaxOps]
      BY <1>2 DEF Payload
    <2> QED
      BY <1>1, <2>1, FunctionIsSeq DEF Bytes
  <1>4. data \in Bytes /\ (type = "WRITE_REQ" => Len(data) = b.size)
    <2>1. <<>> \in Bytes
      BY DEF Bytes
    <2>2. CASE type = "WRITE_REQ"
      BY <1>3, <2>2
    <2>3. CASE type # "WRITE_REQ"
      BY <2>1, <2>3
    <2> QED
      BY <2>2, <2>3
  <1> HIDE DEF data
  <1>5. \A k \in BOOLEAN :
          [type |-> type, initiator |-> m, target |-> 0, id |-> 0, address |-> b.address,
           size |-> b.size, data |-> data, ok |-> k] \in Transaction
    BY <1>1, <1>4, TxnFields
  <1>6. t = [type |-> type, initiator |-> m, target |-> 0, id |-> 0, address |-> b.address,
             size |-> b.size, data |-> data, ok |-> TRUE]
    BY DEF RequestTxn, data
  <1>7. t \in Transaction
    BY <1>5, <1>6, Zenon
  <1>8. /\ t.type = type /\ t.data = data /\ t.size = b.size /\ t.target = 0 /\ t.initiator = m
    BY <1>6
  <1> HIDE DEF t
  <1>9. TxnMsg(t) \in GoodMsg /\ IsRequest(TxnMsg(t))
    BY <1>4, <1>7, <1>8, GoodMsgFacts, MessageFacts DEF IsRequest
  <1>10. Entry("TRANSACTION", TxnMsg(t), n) \in GoodEntry
    BY <1>2, <1>9, EntryFacts
  <1> QED
    BY <1>4, <1>8, <1>9, <1>10 DEF t

\* The sum of two addresses is an address.
LEMMA PlusIsAddr == \A a, b \in Addr : Plus(a, b) \in Addr
  BY AddrSpaceAssumption DEF Addr, Plus

\* What a slave answers.
LEMMA ResponseIsGood ==
    ASSUME NEW cells \in [Addr -> 0 .. MaxOps], NEW t \in Transaction,
           t.type \in ReqTypes, t.target = 0
    PROVE  /\ TxnMsg(ResponseTxn(cells, t)) \in GoodMsg
           /\ IsResponse(TxnMsg(ResponseTxn(cells, t)))
           /\ ResponseTxn(cells, t).initiator = t.initiator /\ ResponseTxn(cells, t).id = t.id
  <1> DEFINE data == IF t.type = "READ_REQ" /\ ~Fails(t) THEN handleRead(cells, t) ELSE <<>>
             ok == ~Fails(t)
             type == RespOf(t.type)
             r == ResponseTxn(cells, t)
  <1>1. t.address \in Addr /\ t.size \in Addr /\ t.id \in Nat /\ t.initiator \in Masters
    BY TxnFields
  <1>2. t.size \in Nat /\ \A i \in 1 .. t.size : i - 1 \in Addr
    BY <1>1, AddrSpaceAssumption DEF Addr
  <1>3. handleRead(cells, t) \in [1 .. t.size -> 0 .. MaxOps]
    BY <1>1, <1>2, PlusIsAddr DEF handleRead
  <1>4. handleRead(cells, t) \in Bytes
    BY <1>2, <1>3, FunctionIsSeq DEF Bytes
  <1>5. data \in Bytes
    <2>1. <<>> \in Bytes
      BY DEF Bytes
    <2>2. CASE t.type = "READ_REQ" /\ ~Fails(t)
      BY <1>4, <2>2
    <2>3. CASE ~(t.type = "READ_REQ" /\ ~Fails(t))
      BY <2>1, <2>3
    <2> QED
      BY <2>2, <2>3
  <1>6. type \in RespTypes
    BY DEF RespOf, ReqTypes, RespTypes
  <1>7. ok \in BOOLEAN
    BY DEF Fails
  <1>8. r = [type |-> type, initiator |-> t.initiator, target |-> 0, id |-> t.id,
             address |-> t.address, size |-> t.size, data |-> data, ok |-> ok]
    BY DEF ResponseTxn
  <1> HIDE DEF data, ok, type
  <1>9. r \in Transaction
    <2>1. type \in ReqTypes \cup RespTypes
      BY <1>6
    <2>2. \A k \in BOOLEAN :
            [type |-> type, initiator |-> t.initiator, target |-> 0, id |-> t.id,
             address |-> t.address, size |-> t.size, data |-> data, ok |-> k] \in Transaction
      BY <1>1, <1>5, <2>1, TxnFields
    <2> QED
      BY <1>7, <1>8, <2>2, Zenon
  <1>10. r.type = type /\ r.target = 0 /\ r.initiator = t.initiator /\ r.id = t.id
    <2>1. \A k : LET s == [type |-> type, initiator |-> t.initiator, target |-> 0, id |-> t.id,
                           address |-> t.address, size |-> t.size, data |-> data, ok |-> k]
                 IN  s.type = type /\ s.target = 0 /\ s.initiator = t.initiator /\ s.id = t.id
      OBVIOUS
    <2> QED
      BY <1>8, <2>1, Zenon
  <1> HIDE DEF r
  <1>11. r.type # "WRITE_REQ"
    BY <1>6, <1>10 DEF RespTypes
  <1>12. TxnMsg(r) \in GoodMsg /\ IsResponse(TxnMsg(r))
    BY <1>6, <1>9, <1>10, <1>11, GoodMsgFacts, MessageFacts DEF IsResponse
  <1> QED
    BY <1>10, <1>12 DEF r

\* What the router answers for nobody.
LEMMA ErrorIsGood ==
    ASSUME NEW t \in Transaction, t.type \in ReqTypes
    PROVE  /\ TxnMsg(createErrorTxn(t)) \in GoodMsg
           /\ createErrorTxn(t).initiator = t.initiator /\ createErrorTxn(t).id = t.id
  <1> DEFINE type == RespOf(t.type)
             r == createErrorTxn(t)
  <1>1. t.id \in Nat /\ t.initiator \in Masters /\ 0 \in Addr
    BY TxnFields, AddrSpaceAssumption DEF Addr
  <1>2. type \in RespTypes
    BY DEF RespOf, ReqTypes, RespTypes
  <1>3. type \in ReqTypes \cup RespTypes /\ <<>> \in Bytes
    BY <1>2 DEF Bytes
  <1>4. r = [type |-> type, initiator |-> t.initiator, target |-> 0, id |-> t.id,
             address |-> 0, size |-> 0, data |-> <<>>, ok |-> FALSE]
    BY DEF createErrorTxn
  <1> HIDE DEF type
  <1>5. \A k \in BOOLEAN :
          [type |-> type, initiator |-> t.initiator, target |-> 0, id |-> t.id,
           address |-> 0, size |-> 0, data |-> <<>>, ok |-> k] \in Transaction
    BY <1>1, <1>3, TxnFields
  <1>6. r \in Transaction
    BY <1>4, <1>5, Zenon
  <1>7. r.type = type /\ r.target = 0 /\ r.initiator = t.initiator /\ r.id = t.id
    BY <1>4
  <1> HIDE DEF r
  <1>8. r.type # "WRITE_REQ"
    BY <1>2, <1>7 DEF RespTypes
  <1>9. TxnMsg(r) \in GoodMsg
    BY <1>6, <1>7, <1>8, GoodMsgFacts
  <1> QED
    BY <1>7, <1>9 DEF r

\* A write leaves bytes in the memory.
LEMMA WriteKeepsType ==
    ASSUME NEW cells \in [Addr -> 0 .. MaxOps], NEW t \in Transaction,
           Len(t.data) = t.size
    PROVE  handleWrite(cells, t) \in [Addr -> 0 .. MaxOps]
  <1>1. t.address \in Nat /\ t.size \in Nat /\ t.data \in Bytes
    BY TxnFields, AddrSpaceAssumption DEF Addr
  <1>2. t.data \in [1 .. t.size -> 0 .. MaxOps]
    BY <1>1, LenProperties DEF Bytes
  <1>3. \A x, n \in Nat : \A a \in x .. (x + n - 1) : a - x + 1 \in 1 .. n
    OBVIOUS
  <1>4. \A a \in t.address .. (t.address + t.size - 1) : t.data[a - t.address + 1] \in 0 .. MaxOps
    BY <1>1, <1>2, <1>3
  <1> QED
    BY <1>4 DEF handleWrite
-----------------------------------------------------------------------------
(* The queue of a bridge *)

\* What an operation of the queue makes of its elements.
LEMMA QueueFields ==
    ASSUME NEW r, IsQueue(r)
    PROVE  /\ \A s \in {Wait(r), SetDone(r), NotifyOne(r), Leave(r)} :
                IsQueue(s) /\ s.items = r.items
           /\ \A e \in GoodEntry : /\ IsQueue(NotifyOne(Enqueue(r, e)))
                                   /\ NotifyOne(Enqueue(r, e)).items = Append(r.items, e)
           /\ r.items # <<>> => /\ IsQueue(Take(r)) /\ Take(r).items = Tail(r.items)
                                /\ Head(r.items) \in GoodEntry
  <1>1. \A k : LET s == [r EXCEPT !.done = k]
               IN  /\ DOMAIN s = {"items", "done", "consumer"}
                   /\ s.items = r.items /\ s.consumer = r.consumer
    BY DEF IsQueue
  <1>2. /\ DOMAIN SetDone(r) = {"items", "done", "consumer"}
        /\ SetDone(r).items = r.items /\ SetDone(r).consumer = r.consumer
    BY <1>1, Zenon DEF SetDone
  <1>3. IsQueue(SetDone(r)) /\ SetDone(r).items = r.items
    BY <1>2 DEF IsQueue
  <1>4. IsQueue(Wait(r)) /\ Wait(r).items = r.items
    BY DEF Wait, IsQueue
  <1>5. IsQueue(Leave(r)) /\ Leave(r).items = r.items
    BY DEF Leave, IsQueue
  <1>6. IsQueue(NotifyOne(r)) /\ NotifyOne(r).items = r.items
    BY DEF NotifyOne, IsQueue
  <1>7. ASSUME NEW e \in GoodEntry
        PROVE  /\ IsQueue(NotifyOne(Enqueue(r, e)))
               /\ NotifyOne(Enqueue(r, e)).items = Append(r.items, e)
    <2>1. Append(r.items, e) \in Seq(GoodEntry)
      BY AppendProperties DEF IsQueue
    <2> QED
      BY <2>1 DEF NotifyOne, Enqueue, IsQueue
  <1>8. ASSUME r.items # <<>>
        PROVE  /\ IsQueue(Take(r)) /\ Take(r).items = Tail(r.items)
               /\ Head(r.items) \in GoodEntry
    <2>1. Tail(r.items) \in Seq(GoodEntry) /\ Head(r.items) \in GoodEntry
      BY <1>8, HeadTailProperties DEF IsQueue
    <2> QED
      BY <2>1 DEF Take, IsQueue
  <1> QED
    BY <1>3, <1>4, <1>5, <1>6, <1>7, <1>8

\* A push puts the entry at the end of one queue.
LEMMA PushStep ==
    ASSUME QueuesInv, NEW c \in Clients, NEW e \in GoodEntry, Push(c, e)
    PROVE  /\ QueuesInv'
           /\ q'[c].items = Append(q[c].items, e)
           /\ \A d \in Clients \ {c} : q'[d] = q[d]
  <1>1. IsQueue(q[c])
    BY DEF QueuesInv
  <1>2. /\ IsQueue(NotifyOne(Enqueue(q[c], e)))
        /\ NotifyOne(Enqueue(q[c], e)).items = Append(q[c].items, e)
    BY <1>1, QueueFields
  <1>3. /\ DOMAIN q' = Clients /\ q'[c] = NotifyOne(Enqueue(q[c], e))
        /\ \A d \in Clients \ {c} : q'[d] = q[d]
    BY DEF QueuesInv, Push
  <1> QED
    BY <1>2, <1>3 DEF QueuesInv

\* The other operations leave the elements alone.
LEMMA SameItemsStep ==
    ASSUME QueuesInv, NEW c \in Clients,
           NEW r \in {Wait(q[c]), SetDone(q[c]), NotifyOne(q[c]), Leave(q[c])},
           q' = [q EXCEPT ![c] = r]
    PROVE  QueuesInv' /\ \A d \in Clients : q'[d].items = q[d].items
  <1>1. IsQueue(q[c])
    BY DEF QueuesInv
  <1>2. IsQueue(r) /\ r.items = q[c].items
    BY <1>1, QueueFields
  <1>3. DOMAIN q' = Clients /\ q'[c] = r /\ \A d \in Clients \ {c} : q'[d] = q[d]
    BY DEF QueuesInv
  <1> QED
    BY <1>2, <1>3 DEF QueuesInv

\* A pop takes the first element.
LEMMA TakeStep ==
    ASSUME QueuesInv, NEW c \in Clients, q[c].items # <<>>, q' = [q EXCEPT ![c] = Take(@)]
    PROVE  /\ QueuesInv'
           /\ q'[c].items = Tail(q[c].items) /\ Head(q[c].items) \in GoodEntry
           /\ \A d \in Clients \ {c} : q'[d] = q[d]
  <1>1. IsQueue(q[c])
    BY DEF QueuesInv
  <1>2. /\ IsQueue(Take(q[c])) /\ Take(q[c]).items = Tail(q[c].items)
        /\ Head(q[c].items) \in GoodEntry
    BY <1>1, QueueFields
  <1>3. DOMAIN q' = Clients /\ q'[c] = Take(q[c]) /\ \A d \in Clients \ {c} : q'[d] = q[d]
    BY DEF QueuesInv
  <1> QED
    BY <1>2, <1>3 DEF QueuesInv
-----------------------------------------------------------------------------
(* Type correctness *)

\* A step that does not touch a part of the state keeps what is said of it.
LEMMA ShapeFrames ==
    /\ OpsInv /\ UNCHANGED appVars => OpsInv'
    /\ QueuesInv /\ UNCHANGED q => QueuesInv'
    /\ BridgesInv /\ UNCHANGED bridge => BridgesInv'
    /\ TablesInv /\ UNCHANGED <<txns, lastTxnId, mem>> => TablesInv'
    /\ SocketsInv /\ UNCHANGED <<toRouter, toClient>> => SocketsInv'
    /\ RouterInv /\ UNCHANGED routerVars => RouterInv'
    /\ CountInv /\ UNCHANGED routerVars => CountInv'
  <1>1. OpsInv /\ UNCHANGED appVars => OpsInv'
    BY DEF OpsInv, appVars
  <1>2. QueuesInv /\ UNCHANGED q => QueuesInv'
    BY DEF QueuesInv
  <1>3. BridgesInv /\ UNCHANGED bridge => BridgesInv'
    BY DEF BridgesInv
  <1>4. TablesInv /\ UNCHANGED <<txns, lastTxnId, mem>> => TablesInv'
    BY DEF TablesInv
  <1>5. SocketsInv /\ UNCHANGED <<toRouter, toClient>> => SocketsInv'
    BY DEF SocketsInv
  <1>6. RouterInv /\ UNCHANGED routerVars => RouterInv'
    BY DEF RouterInv, routerVars
  <1>7. CountInv /\ UNCHANGED routerVars => CountInv'
    BY DEF CountInv, routerVars
  <1> QED
    BY <1>1, <1>2, <1>3, <1>4, <1>5, <1>6, <1>7

\* A bridge that becomes r stays well typed.
LEMMA BridgeStep ==
    ASSUME BridgesInv, NEW c \in Clients, NEW r, IsBridge(r),
           bridge' = [bridge EXCEPT ![c] = r]
    PROVE  BridgesInv' /\ bridge'[c] = r /\ \A d \in Clients \ {c} : bridge'[d] = bridge[d]
  BY DEF BridgesInv

\* The owner of a block is a client.
LEMMA Owners ==
    /\ \A p \in DOMAIN Ips : Ips[p].owner \in Clients
    /\ \A c \in Clients : masterMap(c) \subseteq Masters /\ slaveMap(c) \subseteq Slaves
    /\ \A c \in Clients : \A m \in masterMap(c) : Ips[m].owner = c
    /\ Masters \subseteq DOMAIN Ips
    /\ 0 \in Clients
  <1>1. \A p \in DOMAIN Ips : Ips[p].owner \in Clients
    <2> DEFINE Block == [address : Addr, size : Addr, type : IpTypes, owner : Clients]
    <2>1. \A r \in Block : r.owner \in Clients
      OBVIOUS
    <2> HIDE DEF Block
    <2>2. Ips \in Seq(Block)
      BY IpsAssumption DEF Block
    <2> QED
      BY <2>1, <2>2
  <1>2. 0 \in Clients
    BY NumClientsAssumption DEF Clients
  <1> QED
    BY <1>1, <1>2 DEF Masters, masterMap, slaveMap

\* The masters are finitely many.
LEMMA MastersAreFinite == IsFiniteSet(Masters) /\ Cardinality(Masters) \in Nat
  <1>1. IsFiniteSet(DOMAIN Ips)
    BY IpsAssumption, FS_Interval
  <1>2. IsFiniteSet(Masters)
    BY <1>1, Owners, FS_Subset
  <1> QED
    BY <1>2, FS_CardinalityType

\* At first there is nothing in the queues and on the sockets.
LEMMA InitShape == Init => Shape
  <1> SUFFICES ASSUME Init PROVE Shape
    OBVIOUS
  <1>1. OpsInv
    BY DEF Init, OpsInv
  <1>2. QueuesInv
    <2>1. IsQueue(NewQueue)
      <3>1. /\ NewQueue.items = <<>> /\ NewQueue.consumer = "out"
            /\ DOMAIN NewQueue = {"items", "done", "consumer"}
        BY DEF NewQueue
      <3> QED
        BY <3>1 DEF IsQueue
    <2> QED
      BY <2>1 DEF Init, QueuesInv
  <1>3. BridgesInv
    BY DEF Init, BridgesInv, IsBridge
  <1>4. TablesInv
    BY BoundsAssumption DEF Init, TablesInv
  <1>5. SocketsInv
    BY DEF Init, SocketsInv
  <1>6. RouterInv
    BY Owners DEF Init, RouterInv
  <1>7. CountInv
    BY MastersAreFinite DEF Init, CountInv
  <1> QED
    BY <1>1, <1>2, <1>3, <1>4, <1>5, <1>6, <1>7 DEF Shape

\* The death of a client keeps the types.
LEMMA DieShape ==
    ASSUME Shape, NEW c \in Clients, Die(c)
    PROVE  Shape'
  <1>1. IsBridge(bridge[c])
    BY DEF Shape, BridgesInv
  <1>2. IsBridge([bridge[c] EXCEPT !.writer = "exited", !.reader = "exited",
                                   !.state = "DISCONNECTED", !.app = "killed", !.txn = NoEntry])
    BY <1>1 DEF IsBridge
  <1>3. bridge' = [bridge EXCEPT ![c] = [bridge[c] EXCEPT !.writer = "exited", !.reader = "exited",
                                         !.state = "DISCONNECTED", !.app = "killed", !.txn = NoEntry]]
    BY DEF Die
  <1>4. BridgesInv'
    BY <1>2, <1>3, BridgeStep DEF Shape
  <1>5. UNCHANGED <<appVars, q, txns, lastTxnId, mem, toRouter, toClient, routerVars>>
    BY DEF Die
  <1> QED
    BY <1>4, <1>5, ShapeFrames DEF Shape, appVars, routerVars

\* The steps of the applications keep the types.
LEMMA ApplicationShape ==
    ASSUME Shape, NEW c \in Clients, Application(c)
    PROVE  Shape'
  <1>1. ASSUME NEW m \in masterMap(c), NEW type \in ReqTypes, NEW b \in Buffers, issue(m, type, b)
        PROVE  Shape'
    <2> DEFINE n == Len(ops[c]) + 1
               data == RequestTxn(m, type, b, n).data
               e == Entry("TRANSACTION", TxnMsg(RequestTxn(m, type, b, n)), n)
               op == [master |-> m, type |-> type, address |-> b.address, size |-> b.size,
                      status |-> "pending", buffer |-> data]
    <2>1. Ips[m].owner = c /\ m \in Masters
      BY Owners
    <2>2. n \in 1 .. MaxOps
      <3>1. ops[c] \in Seq(Op) /\ n <= MaxOps
        BY <1>1, <2>1 DEF Shape, OpsInv, issue
      <3> QED
        BY <3>1, BoundsAssumption
    <2>3. /\ data \in Bytes /\ e \in GoodEntry
      BY <2>1, <2>2, RequestIsGood
    <2>4. /\ ops' = [ops EXCEPT ![c] = Append(@, op)] /\ Push(c, e)
          /\ UNCHANGED <<terminated, bridge, txns, lastTxnId, mem, toRouter, toClient, routerVars>>
      BY <1>1, <2>1 DEF issue
    <2> HIDE DEF n, data, e
    <2>5. op \in Op
      BY <2>1, <2>3, BuffersAssumption DEF Op
    <2> HIDE DEF op
    <2>6. OpsInv'
      BY <2>4, <2>5 DEF Shape, OpsInv
    <2>7. QueuesInv'
      BY <2>3, <2>4, PushStep DEF Shape
    <2> QED
      BY <2>4, <2>6, <2>7, ShapeFrames DEF Shape
  <1>2. ASSUME NEW m \in masterMap(c), terminate(m)
        PROVE  Shape'
    <2>1. Ips[m].owner = c /\ m \in Masters
      BY Owners
    <2>2. ~IsRequest(TerminateMsg(m)) /\ 0 \in 0 .. MaxOps
      BY MessageFacts, BoundsAssumption DEF IsRequest
    <2>3. Entry("TERMINATION", TerminateMsg(m), 0) \in GoodEntry
      BY <2>1, <2>2, EntryFacts, GoodMsgFacts
    <2>4. OpsInv'
      BY <1>2, <2>1 DEF Shape, OpsInv, terminate
    <2>5. QueuesInv'
      BY <1>2, <2>1, <2>3, PushStep DEF Shape, terminate
    <2> QED
      BY <1>2, <2>4, <2>5, ShapeFrames DEF Shape, terminate
  <1>3. CASE waitForCompletion(c)
    <2>1. IsBridge(bridge[c])
      BY DEF Shape, BridgesInv
    <2>2. IsBridge([bridge[c] EXCEPT !.app = "completed"])
      BY <2>1 DEF IsBridge
    <2>3. BridgesInv'
      BY <1>3, <2>2, BridgeStep DEF Shape, waitForCompletion
    <2> QED
      BY <1>3, <2>3, ShapeFrames DEF Shape, waitForCompletion
  <1>4. CASE disconnect(c)
    <2>1. IsBridge(bridge[c])
      BY DEF Shape, BridgesInv
    <2>2. IsBridge([bridge[c] EXCEPT !.app = "disconnected", !.state = "DISCONNECTED"])
      BY <2>1 DEF IsBridge
    <2>3. BridgesInv'
      BY <1>4, <2>2, BridgeStep DEF Shape, disconnect
    <2> QED
      BY <1>4, <2>3, ShapeFrames DEF Shape, disconnect
  <1>5. CASE crash(c)
    BY <1>5, DieShape DEF crash
  <1> QED
    BY <1>1, <1>2, <1>3, <1>4, <1>5 DEF Application, read, write, ReqTypes

\* The id that a request gets.
LEMMA NumberedIsGood ==
    ASSUME NEW e \in GoodEntry, IsRequest(e.msg), NEW i \in Nat
    PROVE  /\ [e EXCEPT !.msg.txn.id = i] \in GoodEntry
           /\ [e EXCEPT !.msg.txn.id = i].msg = TxnMsg([e.msg.txn EXCEPT !.id = i])
           /\ e.msg.txn \in Transaction
  <1> DEFINE t == e.msg.txn
             u == [t EXCEPT !.id = i]
  <1>1. /\ e = [type |-> e.type, msg |-> e.msg, op |-> e.op]
        /\ e.type \in {"TRANSACTION", "TERMINATION"} /\ e.op \in 0 .. MaxOps /\ e.op # 0
        /\ e.msg \in GoodMsg
    BY DEF GoodEntry
  <1>2. /\ t \in Transaction /\ e.msg = TxnMsg(t) /\ t.target = 0 /\ t.type \in ReqTypes
        /\ t.type = "WRITE_REQ" => Len(t.data) = t.size
    BY <1>1, GoodMsgFacts, MessageFacts DEF IsRequest
  <1> HIDE DEF t
  <1>3. u \in Transaction
    BY <1>2 DEF Transaction
  <1>4. u.target = 0 /\ u.type = t.type /\ u.data = t.data /\ u.size = t.size
    BY <1>2 DEF Transaction
  <1> HIDE DEF u
  <1>5. TxnMsg(u) \in GoodMsg
    BY <1>2, <1>3, <1>4, GoodMsgFacts
  <1>6. \A x, y : [[type |-> "TRANSACTION", txn |-> x] EXCEPT !.txn = y] = [type |-> "TRANSACTION", txn |-> y]
    OBVIOUS
  <1>7. [e.msg EXCEPT !.txn = u] = TxnMsg(u)
    BY <1>2, <1>6 DEF TxnMsg
  <1>8. [e EXCEPT !.msg.txn.id = i] = [e EXCEPT !.msg = TxnMsg(u)]
    BY <1>1, <1>7 DEF u, t
  <1>9. [e EXCEPT !.msg = TxnMsg(u)] = Entry(e.type, TxnMsg(u), e.op)
    BY <1>1 DEF Entry
  <1> QED
    BY <1>1, <1>2, <1>5, <1>8, <1>9, EntryFacts DEF u, t

\* The steps of a writer keep the types.
LEMMA WriterShape ==
    ASSUME Shape, NEW c \in Clients, Writer(c)
    PROVE  Shape'
  <1>1. IsBridge(bridge[c])
    BY DEF Shape, BridgesInv
  <1>2. CASE writerTake(c)
    <2> DEFINE h == Head(q[c].items)
    <2>1. q[c].items # <<>> /\ q' = [q EXCEPT ![c] = Take(@)]
      BY <1>2 DEF writerTake, CanTake
    <2>2. QueuesInv' /\ h \in GoodEntry
      BY <2>1, TakeStep DEF Shape
    <2>3. bridge' = [bridge EXCEPT ![c] = [@ EXCEPT !.txn = h,
                       !.writer = IF IsRequest(h.msg) THEN "register" ELSE "send"]]
      BY <1>2 DEF writerTake
    <2> HIDE DEF h
    <2>4. IsBridge([bridge[c] EXCEPT !.txn = h,
                      !.writer = IF IsRequest(h.msg) THEN "register" ELSE "send"])
      BY <1>1, <2>2 DEF IsBridge
    <2>5. BridgesInv'
      BY <2>3, <2>4, BridgeStep DEF Shape
    <2> QED
      BY <1>2, <2>2, <2>5, ShapeFrames DEF Shape, writerTake
  <1>3. CASE writerWait(c)
    <2>1. QueuesInv'
      BY <1>3, SameItemsStep DEF Shape, writerWait
    <2> QED
      BY <1>3, <2>1, ShapeFrames DEF Shape, writerWait
  <1>4. CASE writerStop(c)
    <2>1. QueuesInv'
      BY <1>4, SameItemsStep DEF Shape, writerStop
    <2>2. IsBridge([bridge[c] EXCEPT !.writer = "logout"])
      BY <1>1 DEF IsBridge
    <2>3. BridgesInv'
      BY <1>4, <2>2, BridgeStep DEF Shape, writerStop
    <2> QED
      BY <1>4, <2>1, <2>3, ShapeFrames DEF Shape, writerStop
  <1>5. CASE writerRegister(c)
    <2> DEFINE e == bridge[c].txn
               m == e.msg.txn.initiator
    <2>1. e \in GoodEntry /\ IsRequest(e.msg) /\ e.op \in 1 .. MaxOps
      BY <1>1, <1>5, EntryFacts DEF writerRegister, IsBridge
    <2>2. m \in Masters /\ e.msg.txn \in Transaction
      BY <2>1, NumberedIsGood, TxnFields
    <2>3. lastTxnId[m] \in Nat
      BY <2>2 DEF Shape, TablesInv
    <2>4. [e EXCEPT !.msg.txn.id = lastTxnId[m]] \in GoodEntry
      BY <2>1, <2>3, NumberedIsGood
    <2>5. IsBridge([bridge[c] EXCEPT !.writer = "send",
                                     !.txn = [e EXCEPT !.msg.txn.id = lastTxnId[m]]])
      BY <1>1, <2>4 DEF IsBridge
    <2>6. bridge' = [bridge EXCEPT ![c] = [@ EXCEPT !.writer = "send",
                       !.txn = [e EXCEPT !.msg.txn.id = lastTxnId[m]]]]
      BY <1>1, <1>5 DEF writerRegister, IsBridge
    <2>7. BridgesInv'
      BY <2>5, <2>6, BridgeStep DEF Shape
    <2>8. /\ txns' = [txns EXCEPT ![m] = @ \cup {[id |-> lastTxnId[m], op |-> e.op]}]
          /\ lastTxnId' = [lastTxnId EXCEPT ![m] = @ + 1] /\ mem' = mem
      BY <1>5 DEF writerRegister
    <2> HIDE DEF e, m
    <2>9. TablesInv'
      BY <2>1, <2>2, <2>3, <2>8 DEF Shape, TablesInv
    <2> QED
      BY <1>5, <2>7, <2>9, ShapeFrames DEF Shape, writerRegister
  <1>6. CASE writerSend(c)
    <2>1. IsBridge([bridge[c] EXCEPT !.writer = "pop", !.txn = NoEntry])
      BY <1>1 DEF IsBridge
    <2>2. BridgesInv'
      BY <1>6, <2>1, BridgeStep DEF Shape, writerSend
    <2>3. bridge[c].txn.msg \in GoodMsg
      BY <1>1, <1>6, EntryFacts DEF IsBridge, writerSend
    <2>4. SocketsInv'
      BY <1>6, <2>3 DEF Shape, SocketsInv, writerSend
    <2> QED
      BY <1>6, <2>2, <2>4, ShapeFrames DEF Shape, writerSend
  <1>7. CASE writerLogout(c)
    <2>1. IsBridge([bridge[c] EXCEPT !.writer = "exited", !.state = "LOGGED_OUT"])
      BY <1>1 DEF IsBridge
    <2>2. BridgesInv'
      BY <1>7, <2>1, BridgeStep DEF Shape, writerLogout
    <2>3. SocketsInv'
      BY <1>7, GoodMsgFacts DEF Shape, SocketsInv, writerLogout
    <2> QED
      BY <1>7, <2>2, <2>3, ShapeFrames DEF Shape, writerLogout
  <1>8. CASE writerFail(c)
    <2>1. IsBridge([bridge[c] EXCEPT !.writer = "exited", !.writerStatus = "error",
                                     !.state = "DISCONNECTED", !.txn = NoEntry])
      BY <1>1 DEF IsBridge
    <2>2. bridge' = [bridge EXCEPT ![c] = [bridge[c] EXCEPT !.writer = "exited",
                                           !.writerStatus = "error", !.state = "DISCONNECTED",
                                           !.txn = NoEntry]]
      BY <1>8 DEF writerFail
    <2>3. BridgesInv'
      BY <2>1, <2>2, BridgeStep DEF Shape
    <2> QED
      BY <1>8, <2>3, ShapeFrames DEF Shape, writerFail
  <1>9. CASE writerKilled(c)
    BY <1>9, DieShape DEF writerKilled
  <1> QED
    BY <1>2, <1>3, <1>4, <1>5, <1>6, <1>7, <1>8, <1>9 DEF Writer

\* The message that a reader has received.
LEMMA ReceivedIsGood ==
    ASSUME Shape, NEW c \in Clients, toClient[c] # <<>>, Consume(c)
    PROVE  /\ Head(toClient[c]) \in GoodMsg
           /\ toRouter' = toRouter => SocketsInv'
  <1>1. toClient \in [Clients -> Seq(GoodMsg)]
    BY DEF Shape, SocketsInv
  <1>2. Head(toClient[c]) \in GoodMsg /\ Tail(toClient[c]) \in Seq(GoodMsg)
    BY <1>1, HeadTailProperties
  <1>3. toClient' \in [Clients -> Seq(GoodMsg)]
    BY <1>1, <1>2 DEF Consume
  <1> QED
    BY <1>2, <1>3 DEF Shape, SocketsInv

\* A reader that stops keeps the types.
LEMMA StopReaderShape ==
    ASSUME Shape, NEW c \in Clients, NEW status \in {"ok", "error"}, StopReader(c, status)
    PROVE  QueuesInv' /\ BridgesInv'
  <1>1. IsBridge(bridge[c])
    BY DEF Shape, BridgesInv
  <1>2. IsBridge([bridge[c] EXCEPT !.reader = "notify", !.readerStatus = status])
    BY <1>1 DEF IsBridge
  <1>3. BridgesInv'
    BY <1>2, BridgeStep DEF Shape, StopReader
  <1>4. QueuesInv'
    BY SameItemsStep DEF Shape, StopReader
  <1> QED
    BY <1>3, <1>4

\* The answer to an operation.
LEMMA AnswerStep ==
    ASSUME Shape, NEW c \in Clients, receiveResponse(c)
    PROVE  /\ OpsInv' /\ \A d \in Clients \ {c} : ops'[d] = ops[d]
           /\ DOMAIN ops'[c] = DOMAIN ops[c]
           /\ \A i \in DOMAIN ops[c] :
                /\ ops'[c][i].master = ops[c][i].master
                /\ ops'[c][i].status = "pending" => ops[c][i].status = "pending"
  <1> DEFINE t == Head(toClient[c]).txn
             status == IF t.ok THEN "ok" ELSE "error"
             taken == t.type = "READ_RESP" /\ t.ok
             n == Len(ops[c])
  <1>1. Head(toClient[c]) \in GoodMsg
    BY ReceivedIsGood DEF receiveResponse, Receiving
  <1>2. t.data \in Bytes
    BY <1>1, GoodMsgFacts, TxnFields DEF receiveResponse, IsResponse
  <1>3. PICK e \in txns[t.initiator] :
          ops' = [ops EXCEPT ![c][e.op].status = status,
                             ![c][e.op].buffer = IF taken THEN t.data ELSE @]
    BY DEF receiveResponse
  <1>4. status \in {"ok", "error"}
    OBVIOUS
  <1>5. ops \in [Clients -> Seq(Op)] /\ ops[c] \in Seq(Op)
    BY DEF Shape, OpsInv
  <1>6. n \in Nat /\ DOMAIN ops[c] = 1 .. n /\ \A i \in 1 .. n : ops[c][i] \in Op
    BY <1>5, LenProperties
  <1> HIDE DEF t, status, taken, n
  <1>7. /\ DOMAIN ops' = Clients /\ \A d \in Clients \ {c} : ops'[d] = ops[d]
        /\ ops'[c] = [i \in 1 .. n |-> ops'[c][i]]
    BY <1>3, <1>5, <1>6
  <1>8. ASSUME NEW i \in 1 .. n
        PROVE  /\ ops'[c][i] \in Op
               /\ ops'[c][i].master = ops[c][i].master
               /\ ops'[c][i].status = "pending" => ops[c][i].status = "pending"
    <2>1. ops[c][i] \in Op
      BY <1>6
    <2>2. CASE i = e.op
      <3>1. ops'[c][i] = [ops[c][i] EXCEPT !.status = status,
                                           !.buffer = IF taken THEN t.data ELSE @]
        BY <1>3, <1>5, <1>6, <2>2
      <3> QED
        BY <1>2, <1>4, <2>1, <3>1 DEF Op
    <2>3. CASE i # e.op
      <3>1. ops'[c][i] = ops[c][i]
        BY <1>3, <1>5, <1>6, <2>3
      <3> QED
        BY <2>1, <3>1
    <2> QED
      BY <2>2, <2>3
  <1>9. ops'[c] \in Seq(Op)
    <2>1. ops'[c] \in [1 .. n -> Op]
      BY <1>7, <1>8
    <2> QED
      BY <1>6, <2>1, FunctionIsSeq
  <1>10. ops' \in [Clients -> Seq(Op)]
    <2>1. \A d \in Clients : ops'[d] \in Seq(Op)
      BY <1>5, <1>7, <1>9
    <2>2. ops' = [d \in Clients |-> ops'[d]]
      BY <1>3, <1>5
    <2> QED
      BY <2>1, <2>2
  <1>11. OpsInv'
    BY <1>10 DEF Shape, OpsInv, receiveResponse
  <1> QED
    BY <1>6, <1>7, <1>8, <1>11

\* The steps of a reader keep the types.
LEMMA ReaderShape ==
    ASSUME Shape, NEW c \in Clients, Reader(c)
    PROVE  Shape'
  <1>1. IsBridge(bridge[c])
    BY DEF Shape, BridgesInv
  <1>2. CASE receiveDone(c)
    <2>1. SocketsInv'
      BY <1>2, ReceivedIsGood DEF receiveDone, Receiving
    <2>2. QueuesInv' /\ BridgesInv'
      BY <1>2, StopReaderShape DEF receiveDone
    <2> QED
      BY <1>2, <2>1, <2>2, ShapeFrames DEF Shape, receiveDone
  <1>3. CASE receiveResponse(c)
    <2> DEFINE t == Head(toClient[c]).txn
               m == t.initiator
    <2>1. SocketsInv' /\ Head(toClient[c]) \in GoodMsg
      BY <1>3, ReceivedIsGood DEF receiveResponse, Receiving
    <2>2. t \in Transaction /\ m \in Masters /\ t.data \in Bytes
      BY <1>3, <2>1, GoodMsgFacts, TxnFields DEF receiveResponse, IsResponse
    <2>3. PICK e \in txns[m] : txns' = [txns EXCEPT ![m] = @ \ {e}]
      BY <1>3 DEF receiveResponse
    <2> HIDE DEF t, m
    <2>4. TablesInv'
      BY <1>3, <2>2, <2>3 DEF Shape, TablesInv, receiveResponse
    <2>5. OpsInv'
      BY <1>3, AnswerStep
    <2> QED
      BY <1>3, <2>1, <2>4, <2>5, ShapeFrames DEF Shape, receiveResponse
  <1>4. CASE receiveUnknownResponse(c)
    <2>1. SocketsInv'
      BY <1>4, ReceivedIsGood DEF receiveUnknownResponse, Receiving
    <2>2. QueuesInv' /\ BridgesInv'
      BY <1>4, StopReaderShape DEF receiveUnknownResponse
    <2> QED
      BY <1>4, <2>1, <2>2, ShapeFrames DEF Shape, receiveUnknownResponse
  <1>5. CASE receiveRequest(c)
    <2> DEFINE t == Head(toClient[c]).txn
               s == t.target + 1
               e == Entry("TRANSACTION", TxnMsg(ResponseTxn(mem[s], t)), 0)
    <2>1. SocketsInv' /\ Head(toClient[c]) \in GoodMsg
      BY <1>5, ReceivedIsGood DEF receiveRequest, Receiving
    <2>2. /\ t \in Transaction /\ t.type \in ReqTypes /\ t.target = 0
          /\ t.type = "WRITE_REQ" => Len(t.data) = t.size
      BY <1>5, <2>1, GoodMsgFacts DEF receiveRequest, IsRequest
    <2>3. s \in Slaves /\ mem[s] \in [Addr -> 0 .. MaxOps]
      BY <1>5, Owners DEF receiveRequest, Shape, TablesInv
    <2>4. /\ mem' = IF t.type = "WRITE_REQ" THEN [mem EXCEPT ![s] = handleWrite(@, t)] ELSE mem
          /\ Push(c, e)
          /\ UNCHANGED <<appVars, bridge, txns, lastTxnId, toRouter, routerVars>>
      BY <1>5 DEF receiveRequest
    <2> HIDE DEF s, t
    <2>5. TablesInv'
      <3>1. t.type = "WRITE_REQ" => handleWrite(mem[s], t) \in [Addr -> 0 .. MaxOps]
        BY <2>2, <2>3, WriteKeepsType
      <3> QED
        BY <2>3, <2>4, <3>1 DEF Shape, TablesInv
    <2>6. e \in GoodEntry
      <3>1. TxnMsg(ResponseTxn(mem[s], t)) \in GoodMsg /\ IsResponse(TxnMsg(ResponseTxn(mem[s], t)))
        BY <2>2, <2>3, ResponseIsGood
      <3>2. ~IsRequest(TxnMsg(ResponseTxn(mem[s], t)))
        BY <3>1 DEF IsRequest, IsResponse, ReqTypes, RespTypes
      <3>3. 0 \in 0 .. MaxOps
        BY BoundsAssumption
      <3> QED
        BY <3>1, <3>2, <3>3, EntryFacts
    <2>7. QueuesInv'
      BY <2>4, <2>6, PushStep DEF Shape
    <2> QED
      BY <2>1, <2>4, <2>5, <2>7, ShapeFrames DEF Shape
  <1>6. CASE receiveUnknownRequest(c)
    <2>1. SocketsInv'
      BY <1>6, ReceivedIsGood DEF receiveUnknownRequest, Receiving
    <2>2. QueuesInv' /\ BridgesInv'
      BY <1>6, StopReaderShape DEF receiveUnknownRequest
    <2> QED
      BY <1>6, <2>1, <2>2, ShapeFrames DEF Shape, receiveUnknownRequest
  <1>7. CASE receiveFail(c)
    <2>1. IsBridge([bridge[c] EXCEPT !.reader = "notify", !.readerStatus = "error",
                                     !.state = "DISCONNECTED"])
      BY <1>1 DEF IsBridge
    <2>2. BridgesInv'
      BY <1>7, <2>1, BridgeStep DEF Shape, receiveFail
    <2>3. QueuesInv'
      BY <1>7, SameItemsStep DEF Shape, receiveFail
    <2> QED
      BY <1>7, <2>2, <2>3, ShapeFrames DEF Shape, receiveFail
  <1>8. CASE readerNotify(c)
    <2>1. IsBridge([bridge[c] EXCEPT !.reader = "exited"])
      BY <1>1 DEF IsBridge
    <2>2. BridgesInv'
      BY <1>8, <2>1, BridgeStep DEF Shape, readerNotify
    <2>3. QueuesInv'
      BY <1>8, SameItemsStep DEF Shape, readerNotify
    <2> QED
      BY <1>8, <2>2, <2>3, ShapeFrames DEF Shape, readerNotify
  <1>9. CASE receiveSpin(c)
    <2>1. IsBridge([bridge[c] EXCEPT !.reader = "spinning"])
      BY <1>1 DEF IsBridge
    <2>2. BridgesInv'
      BY <1>9, <2>1, BridgeStep DEF Shape, receiveSpin
    <2> QED
      BY <1>9, <2>2, ShapeFrames DEF Shape, QueuesInv, receiveSpin
  <1> QED
    BY <1>2, <1>3, <1>4, <1>5, <1>6, <1>7, <1>8, <1>9 DEF Reader

\* The steps of the router's readers and writers keep the types.
LEMMA ClientGoroutinesShape ==
    ASSUME Shape, NEW c \in Clients, RouterReader(c) \/ RouterWriter(c)
    PROVE  Shape'
  <1>1. CASE clientRead(c)
    <2> DEFINE h == Head(toRouter[c])
    <2>1. toRouter[c] \in Seq(GoodMsg) /\ toRouter[c] # <<>>
      BY <1>1 DEF Shape, SocketsInv, clientRead
    <2>2. h \in GoodMsg /\ Tail(toRouter[c]) \in Seq(GoodMsg)
      BY <2>1, HeadTailProperties
    <2>3. SocketsInv'
      BY <1>1, <2>2 DEF Shape, SocketsInv, clientRead
    <2>4. rr' = [rr EXCEPT ![c] = IF h.type = "DONE" THEN [pc |-> "exited", msg |-> NoMsg]
                                  ELSE [pc |-> "push", msg |-> h]]
      BY <1>1 DEF clientRead
    <2> HIDE DEF h
    <2>5. RouterInv'
      BY <1>1, <2>2, <2>4 DEF Shape, RouterInv, clientRead
    <2>6. CountInv'
      BY <1>1 DEF Shape, CountInv, clientRead
    <2> QED
      BY <1>1, <2>3, <2>5, <2>6, ShapeFrames DEF Shape, clientRead, bridgeVars
  <1>2. CASE clientReadFatal(c)
    <2>1. RouterInv' /\ CountInv'
      BY <1>2 DEF Shape, RouterInv, CountInv, clientReadFatal, Fatal
    <2> QED
      BY <1>2, <2>1, ShapeFrames DEF Shape, clientReadFatal, bridgeVars
  <1>3. CASE clientWrite(c)
    <2>1. rw[c].msg \in GoodMsg
      BY <1>3 DEF Shape, RouterInv, clientWrite
    <2>2. SocketsInv'
      BY <1>3, <2>1 DEF Shape, SocketsInv, clientWrite
    <2>3. RouterInv'
      BY <1>3, <2>1 DEF Shape, RouterInv, clientWrite
    <2>4. CountInv'
      BY <1>3 DEF Shape, CountInv, clientWrite
    <2> QED
      BY <1>3, <2>2, <2>3, <2>4, ShapeFrames DEF Shape, clientWrite, bridgeVars
  <1>4. CASE clientWriteFatal(c)
    <2>1. RouterInv' /\ CountInv'
      BY <1>4 DEF Shape, RouterInv, CountInv, clientWriteFatal, Fatal
    <2> QED
      BY <1>4, <2>1, ShapeFrames DEF Shape, clientWriteFatal, bridgeVars
  <1> QED
    BY <1>1, <1>2, <1>3, <1>4 DEF RouterReader, RouterWriter

\* The message that route has received: what it sends on.
LEMMA RouteRequestFacts ==
    ASSUME Shape, NEW c \in Clients, routeRequest(c)
    PROVE  \E msg \in GoodMsg :
             /\ rt' = [pc |-> "send", msg |-> msg, client |-> 0]
             /\ msg.type = "TRANSACTION" /\ rr[c].msg.type = "TRANSACTION"
             /\ msg.txn.initiator = rr[c].msg.txn.initiator
             /\ msg.txn.id = rr[c].msg.txn.id
  <1> DEFINE t == rr[c].msg.txn
  <1>1. rr[c].msg \in GoodMsg /\ rr[c].msg.type = "TRANSACTION" /\ t.type \in ReqTypes
    BY DEF routeRequest, Incoming, IsRequest, Shape, RouterInv
  <1>2. t \in Transaction /\ t.target = 0 /\ rr[c].msg = TxnMsg(t)
    BY <1>1, GoodMsgFacts, MessageFacts
  <1>3. PICK p : IF p = 0 THEN Outgoing(ClientId(t.initiator), TxnMsg(createErrorTxn(t)))
                          ELSE Outgoing(ClientId(p), TxnMsg(MutateTarget(t, Id(p))))
    BY DEF routeRequest
  <1> HIDE DEF t
  <1>4. CASE p = 0
    <2>1. rt' = [pc |-> "send", msg |-> TxnMsg(createErrorTxn(t)), client |-> 0]
      BY <1>3, <1>4 DEF Outgoing, ClientId
    <2>2. /\ TxnMsg(createErrorTxn(t)) \in GoodMsg
          /\ createErrorTxn(t).initiator = t.initiator /\ createErrorTxn(t).id = t.id
      BY <1>1, <1>2, ErrorIsGood
    <2> QED
      BY <1>1, <2>1, <2>2, MessageFacts DEF t
  <1>5. CASE p # 0
    <2>1. MutateTarget(t, Id(p)) = t
      BY <1>2 DEF MutateTarget
    <2>2. rt' = [pc |-> "send", msg |-> TxnMsg(t), client |-> 0]
      BY <1>3, <1>5, <2>1 DEF Outgoing, ClientId
    <2> QED
      BY <1>1, <1>2, <2>2, MessageFacts DEF t
  <1> QED
    BY <1>4, <1>5

\* The steps of route keep the types.
LEMMA RouteShape ==
    ASSUME Shape, Route
    PROVE  Shape'
  <1>1. ASSUME NEW c \in Clients, routeLastTerminate(c)
        PROVE  Shape'
    <2>1. RouterInv'
      BY <1>1, GoodMsgFacts, Owners DEF Shape, RouterInv, routeLastTerminate, TakeIncoming
    <2>2. CountInv'
      BY <1>1 DEF CountInv, routeLastTerminate
    <2> QED
      BY <1>1, <2>1, <2>2, ShapeFrames DEF Shape, routeLastTerminate, bridgeVars
  <1>2. ASSUME NEW c \in Clients, routeTerminate(c)
        PROVE  Shape'
    <2>1. RouterInv'
      BY <1>2 DEF Shape, RouterInv, routeTerminate, TakeIncoming
    <2>2. rr[c].msg \in GoodMsg /\ rr[c].msg.type = "TERMINATE"
      BY <1>2 DEF Shape, RouterInv, routeTerminate, Incoming
    <2>3. rr[c].msg.ip \in Masters
      BY <2>2, GoodMsgFacts, MessageFacts
    <2>4. Cardinality(Masters) # 0
      BY <2>3, MastersAreFinite, FS_EmptySet
    <2>5. masterCount = Cardinality(Masters)
      BY <1>2 DEF Shape, CountInv, routeTerminate, Incoming
    <2>6. CountInv'
      BY <1>2, <2>4, <2>5, MastersAreFinite DEF CountInv, routeTerminate
    <2> QED
      BY <1>2, <2>1, <2>6, ShapeFrames DEF Shape, routeTerminate, bridgeVars
  <1>3. ASSUME NEW c \in Clients, routeResponse(c)
        PROVE  Shape'
    <2>1. rr[c].msg \in GoodMsg
      BY <1>3 DEF Shape, RouterInv, routeResponse, Incoming
    <2>2. RouterInv'
      BY <1>3, <2>1, Owners DEF Shape, RouterInv, routeResponse, Outgoing, ClientId, TakeIncoming
    <2>3. CountInv'
      BY <1>3 DEF Shape, CountInv, routeResponse, Outgoing, Incoming
    <2> QED
      BY <1>3, <2>2, <2>3, ShapeFrames DEF Shape, routeResponse, bridgeVars
  <1>4. ASSUME NEW c \in Clients, routeRequest(c)
        PROVE  Shape'
    <2>1. PICK msg \in GoodMsg : rt' = [pc |-> "send", msg |-> msg, client |-> 0]
      BY <1>4, RouteRequestFacts
    <2>2. RouterInv'
      BY <1>4, <2>1, Owners DEF Shape, RouterInv, routeRequest, TakeIncoming
    <2>3. CountInv'
      BY <1>4, <2>1 DEF Shape, CountInv, routeRequest, Incoming
    <2> QED
      BY <1>4, <2>2, <2>3, ShapeFrames DEF Shape, routeRequest, bridgeVars
  <1>5. CASE routeSend
    <2>1. RouterInv'
      BY <1>5, Owners DEF Shape, RouterInv, routeSend
    <2>2. CountInv'
      BY <1>5 DEF Shape, CountInv, routeSend
    <2> QED
      BY <1>5, <2>1, <2>2, ShapeFrames DEF Shape, routeSend, bridgeVars
  <1>6. CASE sendDone
    <2>1. rw[rt.client].pc = "receive" /\ rt.client \in Clients
      BY <1>6 DEF Shape, RouterInv, sendDone
    <2>2. rt' \in [pc : {"sendDone", "exited"}, msg : GoodMsg \cup {NoMsg}, client : Clients]
      BY <1>6, Owners DEF Shape, RouterInv, sendDone
    <2>3. RouterInv'
      BY <1>6, <2>1, <2>2, GoodMsgFacts DEF Shape, RouterInv, sendDone
    <2>4. CountInv'
      BY <1>6, <2>2 DEF Shape, CountInv, sendDone
    <2> QED
      BY <1>6, <2>3, <2>4, ShapeFrames DEF Shape, sendDone, bridgeVars
  <1> QED
    BY <1>1, <1>2, <1>3, <1>4, <1>5, <1>6 DEF Route

\* Every step keeps the types.
LEMMA NextShape ==
    ASSUME Shape, [Next]_vars
    PROVE  Shape'
  <1>1. ASSUME NEW c \in Clients, spuriousWakeup(c)
        PROVE  Shape'
    <2>1. QueuesInv'
      BY <1>1, SameItemsStep DEF Shape, spuriousWakeup
    <2> QED
      BY <1>1, <2>1, ShapeFrames DEF Shape, spuriousWakeup
  <1>2. CASE routerExit
    <2>1. RouterInv' /\ CountInv'
      BY <1>2 DEF Shape, RouterInv, CountInv, routerExit
    <2> QED
      BY <1>2, <2>1, ShapeFrames DEF Shape, routerExit, bridgeVars
  <1>3. CASE UNCHANGED vars
    BY <1>3, ShapeFrames DEF Shape, vars, bridgeVars
  <1> QED
    BY <1>1, <1>2, <1>3, ApplicationShape, WriterShape, ReaderShape,
       ClientGoroutinesShape, RouteShape DEF Next

\* The variables of the started system always have their types, whatever the
\* blocks and buffers are and whoever dies.
THEOREM TypeCorrect == Spec => []TypeOK
  <1>1. Shape => TypeOK
    <2> SUFFICES ASSUME Shape PROVE TypeOK
      OBVIOUS
    <2>1. \A c \in Clients : q[c].items \in
            Seq([type : {"TRANSACTION", "TERMINATION"}, msg : Message, op : 0 .. MaxOps])
      <3> DEFINE Item == [type : {"TRANSACTION", "TERMINATION"}, msg : Message, op : 0 .. MaxOps]
      <3>1. GoodEntry \subseteq Item
        BY GoodMsgFacts DEF GoodEntry
      <3>2. \A c \in Clients : q[c].items \in Seq(GoodEntry)
        BY DEF Shape, QueuesInv, IsQueue
      <3> HIDE DEF Item
      <3>3. \A c \in Clients : q[c].items \in Seq(Item)
        BY <3>1, <3>2, SeqMonotonic
      <3> QED
        BY <3>3 DEF Item
    <2>2. \A c \in Clients :
            /\ bridge[c].state \in {"STARTED", "LOGGED_OUT", "DISCONNECTED"}
            /\ bridge[c].reader \in {"receive", "spinning", "notify", "exited"}
            /\ bridge[c].writer \in {"pop", "register", "send", "logout", "exited"}
            /\ bridge[c].app \in {"running", "completed", "disconnected", "killed"}
            /\ bridge[c].txn.msg \in Message \cup {NoMsg}
      BY EntryFacts, GoodMsgFacts DEF Shape, BridgesInv, IsBridge
    <2>3. toRouter \in [Clients -> Seq(Message)] /\ toClient \in [Clients -> Seq(Message)]
      BY GoodMsgFacts, SeqMonotonic DEF Shape, SocketsInv
    <2>4. /\ rr \in [Clients -> [pc : {"read", "push", "exited"}, msg : Message \cup {NoMsg}]]
          /\ rw \in [Clients -> [pc : {"receive", "write", "exited"}, msg : Message \cup {NoMsg}]]
          /\ rt \in [pc : {"receive", "send", "sendDone", "exited"},
                     msg : Message \cup {NoMsg}, client : Clients]
      BY GoodMsgFacts DEF Shape, RouterInv
    <2>5. \A c \in Clients : ops[c] \in
            Seq([master : Masters, type : ReqTypes, address : Addr, size : Addr,
                 status : {"pending", "ok", "error"}, buffer : Bytes])
      BY DEF Shape, OpsInv, Op
    <2>6. \A m \in Masters : txns[m] \subseteq [id : Nat, op : 1 .. MaxOps]
      BY DEF Shape, TablesInv
    <2> QED
      BY <2>1, <2>2, <2>3, <2>4, <2>5, <2>6
      DEF Shape, OpsInv, TablesInv, RouterInv, CountInv, TypeOK
  <1>2. Spec => []Shape
    BY InitShape, NextShape, PTL DEF Spec
  <1> QED
    BY <1>1, <1>2, PTL
-----------------------------------------------------------------------------
(* At most one copy of a transaction *)

\* A message that is at the end of a sequence.
LEMMA AppendAt ==
    ASSUME NEW S, NEW s \in Seq(S), NEW e \in S, NEW k \in Nat
    PROVE  /\ At(Append(s, e), k) = IF k = Len(s) + 1 THEN e ELSE At(s, k)
           /\ ResponseAt(Append(s, e), k) =
                IF k = Len(s) + 1 THEN (IF IsResponse(e.msg) THEN e.msg ELSE NoMsg)
                ELSE ResponseAt(s, k)
  <1> DEFINE n == Len(s)
             r == Append(s, e)
  <1>1. n \in Nat /\ DOMAIN s = 1 .. n /\ r \in Seq(S) /\ Len(r) = n + 1
    BY AppendProperties, LenProperties
  <1>2. DOMAIN r = 1 .. (n + 1)
    BY <1>1, LenProperties
  <1>3. r[n + 1] = e /\ \A i \in 1 .. n : r[i] = s[i]
    BY AppendProperties
  <1> HIDE DEF n, r
  <1>4. CASE k = n + 1
    BY <1>1, <1>2, <1>3, <1>4 DEF At, ResponseAt, n, r
  <1>5. CASE k # n + 1
    <2>1. k \in DOMAIN r <=> k \in DOMAIN s
      BY <1>1, <1>2, <1>5
    <2>2. k \in DOMAIN s => r[k] = s[k]
      BY <1>1, <1>3
    <2>3. At(r, k) = At(s, k) /\ ResponseAt(r, k) = ResponseAt(s, k)
      BY <2>1, <2>2 DEF At, ResponseAt
    <2> QED
      BY <1>5, <2>3 DEF n, r
  <1> QED
    BY <1>4, <1>5

\* The messages of a sequence move up when the first one is taken.
LEMMA TailAt ==
    ASSUME NEW S, NEW s \in Seq(S), s # <<>>
    PROVE  /\ At(s, 1) = Head(s) /\ At(Tail(s), 0) = NoMsg /\ ResponseAt(Tail(s), 0) = NoMsg
           /\ ResponseAt(s, 1) = IF IsResponse(Head(s).msg) THEN Head(s).msg ELSE NoMsg
           /\ \A k \in Nat \ {0} : /\ At(Tail(s), k) = At(s, k + 1)
                                   /\ ResponseAt(Tail(s), k) = ResponseAt(s, k + 1)
  <1> DEFINE n == Len(s)
             r == Tail(s)
  <1>1. /\ n \in Nat \ {0} /\ DOMAIN s = 1 .. n /\ r \in Seq(S) /\ Head(s) = s[1]
        /\ DOMAIN r = 1 .. (n - 1)
    OBVIOUS
  <1>2. \A i \in 1 .. (n - 1) : r[i] = s[i + 1]
    OBVIOUS
  <1> HIDE DEF n, r
  <1>3. 1 \in DOMAIN s /\ 0 \notin DOMAIN r
    BY <1>1
  <1>4. ASSUME NEW k \in Nat \ {0}
        PROVE  At(r, k) = At(s, k + 1) /\ ResponseAt(r, k) = ResponseAt(s, k + 1)
    <2>1. k \in DOMAIN r <=> k + 1 \in DOMAIN s
      BY <1>1
    <2>2. k \in DOMAIN r => r[k] = s[k + 1]
      BY <1>1, <1>2
    <2> QED
      BY <2>1, <2>2 DEF At, ResponseAt
  <1> QED
    BY <1>1, <1>3, <1>4 DEF At, ResponseAt, r

\* What is at a spot, before and after a step.
LEMMA Loads ==
    ASSUME NEW c \in Clients, NEW k \in Nat
    PROVE  /\ Load(<<"queue", c, k>>) = ResponseAt(q[c].items, k)
           /\ Load(<<"toRouter", c, k>>) = At(toRouter[c], k)
           /\ Load(<<"toClient", c, k>>) = At(toClient[c], k)
           /\ Load(<<"writer", c, k>>) = IF k = 0 THEN Sending(bridge[c]) ELSE NoMsg
           /\ Load(<<"rr", c, k>>) = IF k = 0 THEN rr[c].msg ELSE NoMsg
           /\ Load(<<"rw", c, k>>) = IF k = 0 THEN rw[c].msg ELSE NoMsg
           /\ Load(<<"rt", c, k>>) = IF k = 0 /\ c = 0 THEN rt.msg ELSE NoMsg
           /\ Load(<<"queue", c, k>>)' = ResponseAt(q'[c].items, k)
           /\ Load(<<"toRouter", c, k>>)' = At(toRouter'[c], k)
           /\ Load(<<"toClient", c, k>>)' = At(toClient'[c], k)
           /\ Load(<<"writer", c, k>>)' = IF k = 0 THEN Sending(bridge'[c]) ELSE NoMsg
           /\ Load(<<"rr", c, k>>)' = IF k = 0 THEN rr'[c].msg ELSE NoMsg
           /\ Load(<<"rw", c, k>>)' = IF k = 0 THEN rw'[c].msg ELSE NoMsg
           /\ Load(<<"rt", c, k>>)' = IF k = 0 /\ c = 0 THEN rt'.msg ELSE NoMsg
  BY DEF Load

\* The form of a spot.
LEMMA SpotFacts ==
    /\ \A w \in Spots : \E kind \in Kinds, c \in Clients, k \in Nat : w = <<kind, c, k>>
    /\ \A kind \in Kinds, c \in Clients, k \in Nat : <<kind, c, k>> \in Spots
  BY DEF Spots

\* The step leaves the places of this kind and client alone, or empties them.
Still(kind, c) ==
    /\ kind = "queue"    => \A j \in Nat : ResponseAt(q'[c].items, j)
                                           \in {ResponseAt(q[c].items, j), NoMsg}
    /\ kind = "toRouter" => toRouter'[c] = toRouter[c]
    /\ kind = "toClient" => toClient'[c] = toClient[c]
    /\ kind = "writer"   => Sending(bridge'[c]) \in {Sending(bridge[c]), NoMsg}
    /\ kind = "rr"       => rr'[c].msg \in {rr[c].msg, NoMsg}
    /\ kind = "rw"       => rw'[c].msg \in {rw[c].msg, NoMsg}
    /\ kind = "rt" /\ c = 0 => rt'.msg \in {rt.msg, NoMsg}

\* What is at a spot that a step leaves alone.
LEMMA StillLoads ==
    ASSUME NEW kind \in Kinds, NEW c \in Clients, NEW k \in Nat, Still(kind, c)
    PROVE  Load(<<kind, c, k>>)' = Load(<<kind, c, k>>) \/ Load(<<kind, c, k>>)' = NoMsg
  <1>1. CASE kind = "queue"
    <2>1. ResponseAt(q'[c].items, k) \in {ResponseAt(q[c].items, k), NoMsg}
      BY <1>1 DEF Still
    <2>2. Load(<<"queue", c, k>>) = ResponseAt(q[c].items, k)
      BY Loads
    <2>3. Load(<<"queue", c, k>>)' = ResponseAt(q'[c].items, k)
      BY Loads
    <2> QED
      BY <1>1, <2>1, <2>2, <2>3
  <1>2. CASE kind = "toRouter"
    <2>1. toRouter'[c] = toRouter[c]
      BY <1>2 DEF Still
    <2>2. Load(<<"toRouter", c, k>>)' = Load(<<"toRouter", c, k>>)
      <3>1. Load(<<"toRouter", c, k>>) = At(toRouter[c], k)
        BY Loads
      <3>2. Load(<<"toRouter", c, k>>)' = At(toRouter'[c], k)
        BY Loads
      <3>3. At(toRouter'[c], k) = At(toRouter[c], k)
        BY <2>1
      <3> QED
        BY <3>1, <3>2, <3>3
    <2> QED
      BY <1>2, <2>2
  <1>3. CASE kind = "toClient"
    <2>1. toClient'[c] = toClient[c]
      BY <1>3 DEF Still
    <2>2. Load(<<"toClient", c, k>>)' = Load(<<"toClient", c, k>>)
      <3>1. Load(<<"toClient", c, k>>) = At(toClient[c], k)
        BY Loads
      <3>2. Load(<<"toClient", c, k>>)' = At(toClient'[c], k)
        BY Loads
      <3>3. At(toClient'[c], k) = At(toClient[c], k)
        BY <2>1
      <3> QED
        BY <3>1, <3>2, <3>3
    <2> QED
      BY <1>3, <2>2
  <1>4. CASE kind = "writer"
    <2>1. Sending(bridge'[c]) \in {Sending(bridge[c]), NoMsg}
      BY <1>4 DEF Still
    <2>2. \/ Load(<<"writer", c, k>>)' = Load(<<"writer", c, k>>)
          \/ Load(<<"writer", c, k>>)' = NoMsg
      <3>1. Load(<<"writer", c, k>>) = IF k = 0 THEN Sending(bridge[c]) ELSE NoMsg
        BY Loads
      <3>2. Load(<<"writer", c, k>>)' = IF k = 0 THEN Sending(bridge'[c]) ELSE NoMsg
        BY Loads
      <3> QED
        BY <2>1, <3>1, <3>2
    <2> QED
      BY <1>4, <2>2
  <1>5. CASE kind = "rr"
    <2>1. Load(<<"rr", c, k>>) = IF k = 0 THEN rr[c].msg ELSE NoMsg
      BY Loads
    <2>2. Load(<<"rr", c, k>>)' = IF k = 0 THEN rr'[c].msg ELSE NoMsg
      BY Loads
    <2> QED
      BY <1>5, <2>1, <2>2 DEF Still
  <1>6. CASE kind = "rw"
    <2>1. Load(<<"rw", c, k>>) = IF k = 0 THEN rw[c].msg ELSE NoMsg
      BY Loads
    <2>2. Load(<<"rw", c, k>>)' = IF k = 0 THEN rw'[c].msg ELSE NoMsg
      BY Loads
    <2> QED
      BY <1>6, <2>1, <2>2 DEF Still
  <1>7. CASE kind = "rt"
    <2>1. Load(<<"rt", c, k>>) = IF k = 0 /\ c = 0 THEN rt.msg ELSE NoMsg
      BY Loads
    <2>2. Load(<<"rt", c, k>>)' = IF k = 0 /\ c = 0 THEN rt'.msg ELSE NoMsg
      BY Loads
    <2> QED
      BY <1>7, <2>1, <2>2 DEF Still
  <1> QED
    BY <1>1, <1>2, <1>3, <1>4, <1>5, <1>6, <1>7 DEF Kinds

\* NoMsg carries no transaction.
LEMMA NoMsgIsNone == \A m, id : ~Carries(NoMsg, m, id)
  BY MessageFacts DEF Carries

\* A step that moves nothing, or drops something.
LEMMA DropStep ==
    ASSUME Apart, Known, \A w \in Spots : Load(w)' = Load(w) \/ Load(w)' = NoMsg, txns' = txns
    PROVE  Apart' /\ Known'
  <1>1. ASSUME NEW m \in Masters, NEW id \in Nat, NEW w \in Spots, Carries(Load(w)', m, id)
        PROVE  Carries(Load(w), m, id)
    BY <1>1, NoMsgIsNone
  <1>2. Apart'
    BY <1>1 DEF Apart
  <1>3. Known'
    BY <1>1 DEF Known, Ids
  <1> QED
    BY <1>2, <1>3

\* A step that moves a message from one spot to another.
LEMMA MoveStep ==
    ASSUME Apart, Known, NEW from \in Spots, NEW to \in Spots, from # to,
           Load(from)' = NoMsg,
           \A m \in Masters, id \in Nat : Carries(Load(to)', m, id) => Carries(Load(from), m, id),
           \A w \in Spots \ {from, to} : Load(w)' = Load(w) \/ Load(w)' = NoMsg,
           txns' = txns
    PROVE  Apart' /\ Known'
  <1> DEFINE before(w) == IF w = to THEN from ELSE w
  <1>1. ASSUME NEW m \in Masters, NEW id \in Nat, NEW w \in Spots, Carries(Load(w)', m, id)
        PROVE  w # from /\ Carries(Load(before(w)), m, id)
    BY <1>1, NoMsgIsNone
  <1>2. Apart'
    <2> SUFFICES ASSUME NEW m \in Masters, NEW id \in Nat, NEW v \in Spots, NEW w \in Spots,
                        Carries(Load(v)', m, id), Carries(Load(w)', m, id)
                 PROVE  v = w
      BY DEF Apart
    <2>1. before(v) = before(w)
      <3>1. Carries(Load(before(v)), m, id) /\ Carries(Load(before(w)), m, id)
        BY <1>1
      <3>2. before(v) \in Spots /\ before(w) \in Spots
        OBVIOUS
      <3> HIDE DEF before
      <3> QED
        BY <3>1, <3>2 DEF Apart
    <2>2. v # from /\ w # from
      BY <1>1
    <2> QED
      BY <2>1, <2>2
  <1>3. Known'
    <2> SUFFICES ASSUME NEW m \in Masters, NEW id \in Nat, NEW w \in Spots, Carries(Load(w)', m, id)
                 PROVE  (id \in Ids(m))'
      BY DEF Known
    <2>1. Carries(Load(before(w)), m, id) /\ before(w) \in Spots
      BY <1>1
    <2> HIDE DEF before
    <2>2. id \in Ids(m)
      BY <2>1 DEF Known
    <2> QED
      BY <2>2 DEF Ids
  <1> QED
    BY <1>2, <1>3

\* A step that takes the first message out of a sequence and puts it, or
\* nothing, to another spot.
LEMMA ShiftStep ==
    ASSUME Apart, NEW kind \in {"queue", "toRouter", "toClient"}, NEW c \in Clients,
           NEW to \in Spots, \A k \in Nat : to # <<kind, c, k>>,
           Load(<<kind, c, 0>>)' = NoMsg,
           \A k \in Nat \ {0} : Load(<<kind, c, k>>)' = Load(<<kind, c, k + 1>>),
           \A m \in Masters, id \in Nat :
             Carries(Load(to)', m, id) => Carries(Load(<<kind, c, 1>>), m, id),
           \A w \in Spots :
             w # to /\ (\A k \in Nat : w # <<kind, c, k>>) => Load(w)' = Load(w) \/ Load(w)' = NoMsg
    PROVE  /\ Apart'
           /\ \A m \in Masters, id \in Nat, w \in Spots :
                Carries(Load(w)', m, id) =>
                  \E v \in Spots : Carries(Load(v), m, id) /\ (w # to => v # <<kind, c, 1>>)
           /\ Known /\ txns' = txns => Known'
  <1> DEFINE InSeq(w) == \E k \in Nat : w = <<kind, c, k>>
             From(v, w) == \/ w = to /\ v = <<kind, c, 1>>
                           \/ \E k \in Nat \ {0} : w = <<kind, c, k>> /\ v = <<kind, c, k + 1>>
                           \/ w # to /\ ~InSeq(w) /\ v = w
  <1>1. ASSUME NEW m \in Masters, NEW id \in Nat, NEW w \in Spots, Carries(Load(w)', m, id)
        PROVE  \E v \in Spots : From(v, w) /\ Carries(Load(v), m, id)
    <2>1. CASE w = to
      <3>1. <<kind, c, 1>> \in Spots
        BY SpotFacts DEF Kinds
      <3> QED
        BY <1>1, <2>1, <3>1
    <2>2. CASE w # to /\ ~InSeq(w)
      BY <1>1, <2>2, NoMsgIsNone
    <2>3. ASSUME NEW k \in Nat, w = <<kind, c, k>>
          PROVE  \E v \in Spots : From(v, w) /\ Carries(Load(v), m, id)
      <3>1. k # 0
        BY <1>1, <2>3, NoMsgIsNone
      <3>2. <<kind, c, k + 1>> \in Spots
        <4>1. k + 1 \in Nat
          OBVIOUS
        <4>2. kind \in Kinds
          BY DEF Kinds
        <4> QED
          BY <4>1, <4>2, SpotFacts
      <3>3. Carries(Load(<<kind, c, k + 1>>), m, id)
        BY <1>1, <2>3, <3>1
      <3>4. From(<<kind, c, k + 1>>, w)
        BY <2>3, <3>1
      <3> QED
        BY <3>2, <3>3, <3>4
    <2> QED
      BY <2>1, <2>2, <2>3
  <1>2. ASSUME NEW v \in Spots, NEW w \in Spots, NEW x, From(x, v), From(x, w)
        PROVE  v = w
    <2>1. \A j, k \in Nat \ {0} : <<kind, c, j + 1>> = <<kind, c, k + 1>> => j = k
      OBVIOUS
    <2>2. \A k \in Nat \ {0} : <<kind, c, k + 1>> # <<kind, c, 1>> /\ InSeq(<<kind, c, k + 1>>)
      OBVIOUS
    <2>3. InSeq(<<kind, c, 1>>)
      OBVIOUS
    <2> HIDE DEF InSeq
    <2> QED
      BY <1>2, <2>1, <2>2, <2>3
  <1>3. Apart'
    <2> SUFFICES ASSUME NEW m \in Masters, NEW id \in Nat, NEW v \in Spots, NEW w \in Spots,
                        Carries(Load(v)', m, id), Carries(Load(w)', m, id)
                 PROVE  v = w
      BY DEF Apart
    <2>1. PICK x \in Spots : From(x, v) /\ Carries(Load(x), m, id)
      BY <1>1
    <2>2. PICK y \in Spots : From(y, w) /\ Carries(Load(y), m, id)
      BY <1>1
    <2> HIDE DEF From
    <2>3. x = y
      BY <2>1, <2>2 DEF Apart
    <2> QED
      BY <1>2, <2>1, <2>2, <2>3
  <1>4. ASSUME NEW m \in Masters, NEW id \in Nat, NEW w \in Spots, Carries(Load(w)', m, id)
        PROVE  \E v \in Spots : Carries(Load(v), m, id) /\ (w # to => v # <<kind, c, 1>>)
    <2>1. PICK v \in Spots : From(v, w) /\ Carries(Load(v), m, id)
      BY <1>1, <1>4
    <2>2. w # to => v # <<kind, c, 1>>
      BY <2>1
    <2> QED
      BY <2>1, <2>2
  <1>5. ASSUME Known, txns' = txns
        PROVE  Known'
    BY <1>4, <1>5 DEF Known, Ids
  <1> QED
    BY <1>3, <1>4, <1>5

\* A step that moves nothing, in terms of the places it touches.
LEMMA QuietPlaces ==
    ASSUME PlacesInv, \A kind \in Kinds, d \in Clients : Still(kind, d),
           txns' = txns, lastTxnId' = lastTxnId
    PROVE  PlacesInv'
  <1>1. \A w \in Spots : Load(w)' = Load(w) \/ Load(w)' = NoMsg
    BY SpotFacts, StillLoads
  <1>2. Apart' /\ Known'
    BY <1>1, DropStep DEF PlacesInv
  <1> QED
    BY <1>2 DEF PlacesInv, FreshIds, Ids

\* A step that moves a message to a spot.
LEMMA MovePlaces ==
    ASSUME PlacesInv, NEW from \in Spots, NEW kind \in Kinds, NEW c \in Clients, NEW k \in Nat,
           from # <<kind, c, k>>, Load(from)' = NoMsg,
           \A m \in Masters, id \in Nat :
             Carries(Load(<<kind, c, k>>)', m, id) => Carries(Load(from), m, id),
           \A d \in Clients, kd \in Kinds : Still(kd, d) \/ (kd = kind /\ d = c),
           \A j \in Nat \ {k} : \/ Load(<<kind, c, j>>)' = Load(<<kind, c, j>>)
                                \/ Load(<<kind, c, j>>)' = NoMsg,
           txns' = txns, lastTxnId' = lastTxnId
    PROVE  PlacesInv'
  <1> DEFINE to == <<kind, c, k>>
  <1>1. ASSUME NEW w \in Spots \ {from, to}
        PROVE  Load(w)' = Load(w) \/ Load(w)' = NoMsg
    <2>1. PICK kd \in Kinds, d \in Clients, j \in Nat : w = <<kd, d, j>>
      BY SpotFacts
    <2>2. CASE kd = kind /\ d = c
      BY <2>1, <2>2
    <2>3. CASE Still(kd, d)
      BY <2>1, <2>3, StillLoads
    <2> QED
      BY <2>2, <2>3
  <1>2. to \in Spots
    BY SpotFacts
  <1> HIDE DEF to
  <1>3. Apart' /\ Known'
    BY <1>1, <1>2, MoveStep DEF PlacesInv, to
  <1> QED
    BY <1>3 DEF PlacesInv, FreshIds, Ids

\* A step that takes the first message of a sequence to a spot.
LEMMA ShiftPlaces ==
    ASSUME PlacesInv, NEW kind \in {"queue", "toRouter", "toClient"}, NEW c \in Clients,
           NEW kt \in Kinds \ {kind}, NEW d \in Clients, NEW k \in Nat,
           Load(<<kind, c, 0>>)' = NoMsg,
           \A j \in Nat \ {0} : Load(<<kind, c, j>>)' = Load(<<kind, c, j + 1>>),
           \A m \in Masters, id \in Nat :
             Carries(Load(<<kt, d, k>>)', m, id) => Carries(Load(<<kind, c, 1>>), m, id),
           \A j \in Nat \ {k} : \/ Load(<<kt, d, j>>)' = Load(<<kt, d, j>>)
                                \/ Load(<<kt, d, j>>)' = NoMsg,
           \A b \in Clients, kd \in Kinds :
             Still(kd, b) \/ (kd = kind /\ b = c) \/ (kd = kt /\ b = d)
    PROVE  /\ Apart'
           /\ \A m \in Masters, id \in Nat, w \in Spots :
                Carries(Load(w)', m, id) =>
                  \E v \in Spots : /\ Carries(Load(v), m, id)
                                   /\ w # <<kt, d, k>> => v # <<kind, c, 1>>
           /\ txns' = txns /\ lastTxnId' = lastTxnId => PlacesInv'
  <1> DEFINE to == <<kt, d, k>>
  <1>1. to \in Spots /\ \A j \in Nat : to # <<kind, c, j>>
    BY SpotFacts
  <1>2. ASSUME NEW w \in Spots, w # to, \A j \in Nat : w # <<kind, c, j>>
        PROVE  Load(w)' = Load(w) \/ Load(w)' = NoMsg
    <2>1. PICK kd \in Kinds, b \in Clients, j \in Nat : w = <<kd, b, j>>
      BY SpotFacts
    <2>2. CASE kd = kind /\ b = c
      BY <1>2, <2>1, <2>2
    <2>3. CASE kd = kt /\ b = d
      BY <1>2, <2>1, <2>3
    <2>4. CASE Still(kd, b)
      BY <2>1, <2>4, StillLoads
    <2> QED
      BY <2>2, <2>3, <2>4
  <1>3. \A m \in Masters, id \in Nat : Carries(Load(to)', m, id) => Carries(Load(<<kind, c, 1>>), m, id)
    OBVIOUS
  <1> HIDE DEF to
  <1>4. /\ Apart'
        /\ \A m \in Masters, id \in Nat, w \in Spots :
             Carries(Load(w)', m, id) =>
               \E v \in Spots : Carries(Load(v), m, id) /\ (w # to => v # <<kind, c, 1>>)
        /\ Known /\ txns' = txns => Known'
    BY <1>1, <1>2, <1>3, ShiftStep DEF PlacesInv
  <1>5. txns' = txns /\ lastTxnId' = lastTxnId => PlacesInv'
    BY <1>4 DEF PlacesInv, FreshIds, Ids
  <1> QED
    BY <1>4, <1>5 DEF to

\* The places that a step does not touch.
LEMMA StillFrames ==
    ASSUME NEW d \in Clients
    PROVE  /\ q'[d].items = q[d].items => Still("queue", d)
           /\ toRouter' = toRouter => Still("toRouter", d)
           /\ toClient' = toClient => Still("toClient", d)
           /\ bridge'[d].writer = bridge[d].writer /\ bridge'[d].txn = bridge[d].txn
                => Still("writer", d)
           /\ bridge'[d].writer # "send" => Still("writer", d)
           /\ rr' = rr => Still("rr", d)
           /\ rw' = rw => Still("rw", d)
           /\ rt' = rt => Still("rt", d)
  <1>1. q'[d].items = q[d].items => Still("queue", d)
    BY DEF Still
  <1>2. bridge'[d].writer = bridge[d].writer /\ bridge'[d].txn = bridge[d].txn
          => Sending(bridge'[d]) = Sending(bridge[d])
    BY DEF Sending
  <1>3. bridge'[d].writer # "send" => Sending(bridge'[d]) = NoMsg
    BY DEF Sending
  <1>4. Still("writer", d) <=> Sending(bridge'[d]) \in {Sending(bridge[d]), NoMsg}
    BY DEF Still
  <1>5. /\ toRouter' = toRouter => Still("toRouter", d)
        /\ toClient' = toClient => Still("toClient", d)
        /\ rr' = rr => Still("rr", d)
        /\ rw' = rw => Still("rw", d)
        /\ rt' = rt => Still("rt", d)
    BY DEF Still
  <1> QED
    BY <1>1, <1>2, <1>3, <1>4, <1>5

\* A push moves nothing unless a response is pushed.
LEMMA PushStill ==
    ASSUME Shape, NEW c \in Clients, NEW e \in GoodEntry, Push(c, e), ~IsResponse(e.msg)
    PROVE  \A d \in Clients : Still("queue", d)
  <1>1. /\ q'[c].items = Append(q[c].items, e) /\ q[c].items \in Seq(GoodEntry)
        /\ \A d \in Clients \ {c} : q'[d] = q[d]
    BY PushStep DEF Shape, QueuesInv, IsQueue
  <1>2. \A j \in Nat : ResponseAt(Append(q[c].items, e), j) \in {ResponseAt(q[c].items, j), NoMsg}
    BY <1>1, AppendAt
  <1>3. Still("queue", c)
    BY <1>1, <1>2 DEF Still
  <1> QED
    BY <1>1, <1>3, StillFrames

\* The death of a client drops what its writer had.
LEMMA DiePlaces ==
    ASSUME Shape, PlacesInv, NEW c \in Clients, Die(c)
    PROVE  PlacesInv'
  <1>1. \A d \in Clients :
          \/ bridge'[d].writer = bridge[d].writer /\ bridge'[d].txn = bridge[d].txn
          \/ bridge'[d].writer # "send"
    BY DEF Die, Shape, BridgesInv, IsBridge
  <1>2. /\ q' = q /\ toRouter' = toRouter /\ toClient' = toClient /\ rr' = rr /\ rw' = rw /\ rt' = rt
        /\ txns' = txns /\ lastTxnId' = lastTxnId
    BY DEF Die, routerVars
  <1>3. \A kind \in Kinds, d \in Clients : Still(kind, d)
    BY <1>1, <1>2, StillFrames DEF Kinds
  <1> QED
    BY <1>2, <1>3, QuietPlaces

\* The applications move nothing.
LEMMA ApplicationPlaces ==
    ASSUME Shape, PlacesInv, NEW c \in Clients, Application(c)
    PROVE  PlacesInv'
  <1>1. ASSUME NEW m \in masterMap(c), NEW type \in ReqTypes, NEW b \in Buffers, issue(m, type, b)
        PROVE  PlacesInv'
    <2> DEFINE n == Len(ops[c]) + 1
               e == Entry("TRANSACTION", TxnMsg(RequestTxn(m, type, b, n)), n)
    <2>1. Ips[m].owner = c /\ m \in Masters
      BY Owners
    <2>2. n \in 1 .. MaxOps
      <3>1. ops[c] \in Seq(Op) /\ n <= MaxOps
        BY <1>1, <2>1 DEF Shape, OpsInv, issue
      <3> QED
        BY <3>1, BoundsAssumption
    <2>3. e \in GoodEntry /\ IsRequest(TxnMsg(RequestTxn(m, type, b, n)))
      BY <2>1, <2>2, RequestIsGood
    <2>4. Push(c, e) /\ UNCHANGED <<bridge, txns, lastTxnId, toRouter, toClient, routerVars>>
      BY <1>1, <2>1 DEF issue
    <2>5. ~IsResponse(e.msg)
      BY <2>3, EntryFacts DEF IsRequest, IsResponse, ReqTypes, RespTypes
    <2> HIDE DEF e
    <2>6. \A d \in Clients : Still("queue", d)
      BY <2>3, <2>4, <2>5, PushStill
    <2>7. \A kind \in Kinds, d \in Clients : Still(kind, d)
      BY <2>4, <2>6, StillFrames DEF Kinds, routerVars
    <2> QED
      BY <2>4, <2>7, QuietPlaces
  <1>2. ASSUME NEW m \in masterMap(c), terminate(m)
        PROVE  PlacesInv'
    <2> DEFINE e == Entry("TERMINATION", TerminateMsg(m), 0)
    <2>1. Ips[m].owner = c /\ m \in Masters
      BY Owners
    <2>2. ~IsRequest(TerminateMsg(m)) /\ 0 \in 0 .. MaxOps /\ ~IsResponse(e.msg)
      BY MessageFacts, EntryFacts, BoundsAssumption DEF IsRequest, IsResponse
    <2>3. e \in GoodEntry
      BY <2>1, <2>2, EntryFacts, GoodMsgFacts
    <2>4. Push(c, e) /\ UNCHANGED <<bridge, txns, lastTxnId, toRouter, toClient, routerVars>>
      BY <1>2, <2>1 DEF terminate
    <2> HIDE DEF e
    <2>5. \A d \in Clients : Still("queue", d)
      BY <2>2, <2>3, <2>4, PushStill
    <2>6. \A kind \in Kinds, d \in Clients : Still(kind, d)
      BY <2>4, <2>5, StillFrames DEF Kinds, routerVars
    <2> QED
      BY <2>4, <2>6, QuietPlaces
  <1>3. CASE waitForCompletion(c) \/ disconnect(c)
    <2>1. \A d \in Clients :
            bridge'[d].writer = bridge[d].writer /\ bridge'[d].txn = bridge[d].txn
      BY <1>3 DEF waitForCompletion, disconnect, Shape, BridgesInv, IsBridge
    <2>2. UNCHANGED <<q, txns, lastTxnId, toRouter, toClient, routerVars>>
      BY <1>3 DEF waitForCompletion, disconnect
    <2>3. \A kind \in Kinds, d \in Clients : Still(kind, d)
      BY <2>1, <2>2, StillFrames DEF Kinds, routerVars
    <2> QED
      BY <2>2, <2>3, QuietPlaces
  <1>4. CASE crash(c)
    BY <1>4, DiePlaces DEF crash
  <1> QED
    BY <1>1, <1>2, <1>3, <1>4 DEF Application, read, write, ReqTypes

\* A request gets a new id.
LEMMA RegisterPlaces ==
    ASSUME Shape, PlacesInv, NEW c \in Clients, writerRegister(c)
    PROVE  PlacesInv'
  <1> DEFINE e == bridge[c].txn
             to == <<"writer", c, 0>>
  <1>1. IsBridge(bridge[c]) /\ DOMAIN bridge = Clients
    BY DEF Shape, BridgesInv
  <1>2. e \in GoodEntry /\ IsRequest(e.msg)
    BY <1>1 DEF writerRegister, IsBridge
  <1>3. PICK t \in Transaction : t = e.msg.txn
    BY <1>2, NumberedIsGood
  <1>4. PICK m \in Masters : m = t.initiator
    BY TxnFields
  <1>5. PICK new \in Nat : new = lastTxnId[m]
    BY DEF Shape, TablesInv
  <1>6. PICK entry : entry = [id |-> new, op |-> e.op]
    OBVIOUS
  <1>7. /\ bridge'[c].writer = "send"
        /\ bridge'[c].txn = [e EXCEPT !.msg.txn.id = new]
        /\ \A d \in Clients \ {c} : bridge'[d] = bridge[d]
    BY <1>1, <1>3, <1>4, <1>5 DEF writerRegister, IsBridge
  <1>8. /\ txns' = [txns EXCEPT ![m] = @ \cup {entry}]
        /\ lastTxnId' = [lastTxnId EXCEPT ![m] = @ + 1]
        /\ UNCHANGED <<q, toRouter, toClient, routerVars>>
    BY <1>3, <1>4, <1>5, <1>6 DEF writerRegister
  <1>9. Sending(bridge'[c]) = TxnMsg([t EXCEPT !.id = new])
    <2>1. [e EXCEPT !.msg.txn.id = new].msg = TxnMsg([t EXCEPT !.id = new])
      BY <1>2, <1>3, NumberedIsGood
    <2> QED
      BY <1>7, <2>1 DEF Sending
  <1>10. entry.id = new
    BY <1>6
  <1> HIDE DEF e, to
  <1>11. ASSUME NEW i \in Masters, NEW id \in Nat, Carries(Load(to)', i, id)
         PROVE  i = m /\ id = new
    <2>1. PICK u : u = [t EXCEPT !.id = new]
      OBVIOUS
    <2>2. u.id = new /\ u.initiator = m
      BY <1>4, <2>1 DEF Transaction
    <2>3. Load(to)' = TxnMsg(u)
      BY <1>9, <2>1, Loads DEF to
    <2>4. TxnMsg(u).txn = u
      BY MessageFacts
    <2>5. Carries(TxnMsg(u), i, id)
      BY <1>11, <2>3
    <2> QED
      BY <2>2, <2>4, <2>5 DEF Carries
  <1>12. ASSUME NEW w \in Spots, w # to
         PROVE  Load(w)' = Load(w) \/ Load(w)' = NoMsg
    <2>1. PICK kind \in Kinds, d \in Clients, k \in Nat : w = <<kind, d, k>>
      BY SpotFacts
    <2>2. CASE kind = "writer" /\ d = c
      <3>1. k # 0
        BY <1>12, <2>1, <2>2 DEF to
      <3>2. Load(<<"writer", c, k>>)' = NoMsg
        BY <3>1, Loads
      <3> QED
        BY <2>1, <2>2, <3>2
    <2>3. CASE ~(kind = "writer" /\ d = c)
      <3>1. Still(kind, d)
        BY <1>7, <1>8, <2>3, StillFrames DEF Kinds, routerVars
      <3> QED
        BY <2>1, <3>1, StillLoads
    <2> QED
      BY <2>2, <2>3
  <1>13. \A i \in Masters : /\ txns[i] \subseteq txns'[i]
                            /\ lastTxnId'[i] = IF i = m THEN lastTxnId[i] + 1 ELSE lastTxnId[i]
                            /\ txns'[i] = IF i = m THEN txns[i] \cup {entry} ELSE txns[i]
    BY <1>8 DEF Shape, TablesInv
  <1>14. \A i \in Masters, id \in Nat, w \in Spots :
           w # to /\ Carries(Load(w)', i, id) => Carries(Load(w), i, id) /\ id \in Ids(i)
    BY <1>12, NoMsgIsNone DEF PlacesInv, Known
  <1>15. ~Carries(NoMsg, m, new) /\ new \notin Ids(m)
    <2>1. \A i \in Nat : ~(i < i)
      OBVIOUS
    <2>2. \A id \in Ids(m) : id < new
      BY <1>5 DEF PlacesInv, FreshIds
    <2> QED
      BY <2>1, <2>2, NoMsgIsNone
  <1>16. Apart'
    <2> SUFFICES ASSUME NEW i \in Masters, NEW id \in Nat, NEW v \in Spots, NEW w \in Spots,
                        Carries(Load(v)', i, id), Carries(Load(w)', i, id)
                 PROVE  v = w
      BY DEF Apart
    <2>1. CASE v # to /\ w # to
      BY <1>14, <2>1 DEF PlacesInv, Apart
    <2>2. CASE v = to /\ w # to
      BY <1>11, <1>14, <1>15, <2>2
    <2>3. CASE w = to /\ v # to
      BY <1>11, <1>14, <1>15, <2>3
    <2> QED
      BY <2>1, <2>2, <2>3
  <1>17. Known'
    <2> SUFFICES ASSUME NEW i \in Masters, NEW id \in Nat, NEW w \in Spots, Carries(Load(w)', i, id)
                 PROVE  \E x \in txns'[i] : id = x.id
      BY DEF Known, Ids
    <2>1. CASE w = to
      <3>1. i = m /\ id = new
        BY <1>11, <2>1
      <3>2. entry \in txns'[i]
        BY <1>13, <3>1
      <3> QED
        BY <1>10, <3>1, <3>2
    <2>2. CASE w # to
      <3>1. id \in Ids(i)
        BY <1>14, <2>2
      <3> QED
        BY <1>13, <3>1 DEF Ids
    <2> QED
      BY <2>1, <2>2
  <1>18. FreshIds'
    <2> SUFFICES ASSUME NEW i \in Masters, NEW x \in txns'[i]
                 PROVE  x.id < lastTxnId'[i]
      BY DEF FreshIds, Ids
    <2>1. lastTxnId[i] \in Nat /\ txns[i] \subseteq [id : Nat, op : 1 .. MaxOps]
      BY DEF Shape, TablesInv
    <2>2. lastTxnId'[i] = lastTxnId[i] \/ lastTxnId'[i] = lastTxnId[i] + 1
      BY <1>13
    <2>3. CASE x \in txns[i]
      <3>1. x.id \in Ids(i)
        BY <2>3 DEF Ids
      <3>2. x.id < lastTxnId[i]
        BY <3>1 DEF PlacesInv, FreshIds
      <3>3. x.id \in Nat
        BY <2>1, <2>3
      <3>4. \A a, b \in Nat : a < b => a < b + 1
        OBVIOUS
      <3> QED
        BY <2>1, <2>2, <3>2, <3>3, <3>4
    <2>4. CASE i = m /\ x = entry
      <3>1. x.id = new /\ lastTxnId'[i] = new + 1
        BY <1>5, <1>10, <1>13, <2>4
      <3> QED
        BY <3>1
    <2> QED
      BY <1>13, <2>3, <2>4
  <1> QED
    BY <1>16, <1>17, <1>18 DEF PlacesInv

\* A step that writes a message to a socket.
LEMMA AppendPlaces ==
    ASSUME Shape, PlacesInv, NEW kind \in {"toRouter", "toClient"}, NEW c \in Clients,
           NEW from \in Spots, \A k \in Nat : from # <<kind, c, k>>, Load(from)' = NoMsg,
           NEW msg \in GoodMsg,
           \A m \in Masters, id \in Nat : Carries(msg, m, id) => Carries(Load(from), m, id),
           kind = "toRouter" => toRouter'[c] = Append(toRouter[c], msg),
           kind = "toClient" => toClient'[c] = Append(toClient[c], msg),
           \A d \in Clients, kd \in Kinds : Still(kd, d) \/ (kd = kind /\ d = c),
           txns' = txns, lastTxnId' = lastTxnId
    PROVE  PlacesInv'
  <1>1. PICK s \in Seq(GoodMsg) : \A k \in Nat : /\ Load(<<kind, c, k>>) = At(s, k)
                                                 /\ Load(<<kind, c, k>>)' = At(Append(s, msg), k)
    <2>1. CASE kind = "toRouter"
      <3>1. toRouter[c] \in Seq(GoodMsg)
        BY DEF Shape, SocketsInv
      <3>2. \A k \in Nat : Load(<<"toRouter", c, k>>) = At(toRouter[c], k)
        BY Loads
      <3>3. \A k \in Nat : Load(<<"toRouter", c, k>>)' = At(toRouter'[c], k)
        BY Loads
      <3> QED
        BY <2>1, <3>1, <3>2, <3>3
    <2>2. CASE kind = "toClient"
      <3>1. toClient[c] \in Seq(GoodMsg)
        BY DEF Shape, SocketsInv
      <3>2. \A k \in Nat : Load(<<"toClient", c, k>>) = At(toClient[c], k)
        BY Loads
      <3>3. \A k \in Nat : Load(<<"toClient", c, k>>)' = At(toClient'[c], k)
        BY Loads
      <3> QED
        BY <2>2, <3>1, <3>2, <3>3
    <2> QED
      BY <2>1, <2>2
  <1>2. PICK k \in Nat : k = Len(s) + 1
    BY LenProperties
  <1>3. Load(<<kind, c, k>>)' = msg
    BY <1>1, <1>2, AppendAt
  <1>4. \A j \in Nat \ {k} : Load(<<kind, c, j>>)' = Load(<<kind, c, j>>)
    BY <1>1, <1>2, AppendAt
  <1>5. kind \in Kinds /\ from # <<kind, c, k>>
    BY DEF Kinds
  <1> QED
    BY <1>3, <1>4, <1>5, MovePlaces

\* What a step that reads a message from a socket does to its places.
LEMMA ReadLoads ==
    ASSUME Shape, NEW kind \in {"toRouter", "toClient"}, NEW c \in Clients,
           kind = "toRouter" => toRouter[c] # <<>> /\ toRouter'[c] = Tail(toRouter[c]),
           kind = "toClient" => toClient[c] # <<>> /\ toClient'[c] = Tail(toClient[c])
    PROVE  /\ Load(<<kind, c, 0>>)' = NoMsg
           /\ \A j \in Nat \ {0} : Load(<<kind, c, j>>)' = Load(<<kind, c, j + 1>>)
           /\ kind = "toRouter" => Load(<<kind, c, 1>>) = Head(toRouter[c])
           /\ kind = "toClient" => Load(<<kind, c, 1>>) = Head(toClient[c])
  <1>1. PICK s \in Seq(GoodMsg) : /\ s # <<>>
                                  /\ \A k \in Nat : /\ Load(<<kind, c, k>>) = At(s, k)
                                                    /\ Load(<<kind, c, k>>)' = At(Tail(s), k)
                                  /\ kind = "toRouter" => s = toRouter[c]
                                  /\ kind = "toClient" => s = toClient[c]
    <2>1. CASE kind = "toRouter"
      <3>1. toRouter[c] \in Seq(GoodMsg)
        BY DEF Shape, SocketsInv
      <3>2. \A k \in Nat : Load(<<"toRouter", c, k>>) = At(toRouter[c], k)
        BY Loads
      <3>3. \A k \in Nat : Load(<<"toRouter", c, k>>)' = At(toRouter'[c], k)
        BY Loads
      <3> QED
        BY <2>1, <3>1, <3>2, <3>3
    <2>2. CASE kind = "toClient"
      <3>1. toClient[c] \in Seq(GoodMsg)
        BY DEF Shape, SocketsInv
      <3>2. \A k \in Nat : Load(<<"toClient", c, k>>) = At(toClient[c], k)
        BY Loads
      <3>3. \A k \in Nat : Load(<<"toClient", c, k>>)' = At(toClient'[c], k)
        BY Loads
      <3> QED
        BY <2>2, <3>1, <3>2, <3>3
    <2> QED
      BY <2>1, <2>2
  <1>2. /\ At(s, 1) = Head(s) /\ At(Tail(s), 0) = NoMsg
        /\ \A k \in Nat \ {0} : At(Tail(s), k) = At(s, k + 1)
    BY <1>1, TailAt
  <1>3. ASSUME NEW j \in Nat \ {0}
        PROVE  Load(<<kind, c, j>>)' = Load(<<kind, c, j + 1>>)
    <2>1. j + 1 \in Nat
      OBVIOUS
    <2> QED
      BY <1>1, <1>2, <2>1
  <1> QED
    BY <1>1, <1>2, <1>3

\* The writer moves a response from the queue to its hands, and what it has in
\* its hands to the socket.
LEMMA WriterPlaces ==
    ASSUME Shape, PlacesInv, NEW c \in Clients, Writer(c)
    PROVE  PlacesInv'
  <1>1. CASE writerTake(c)
    <2> DEFINE s == q[c].items
               h == Head(s)
    <2>1. /\ s # <<>> /\ s \in Seq(GoodEntry) /\ q'[c].items = Tail(s)
          /\ \A d \in Clients \ {c} : q'[d] = q[d]
      BY <1>1, TakeStep DEF writerTake, CanTake, Shape, QueuesInv, IsQueue
    <2>2. /\ bridge'[c].txn = h /\ bridge'[c].writer = IF IsRequest(h.msg) THEN "register" ELSE "send"
          /\ \A d \in Clients \ {c} : bridge'[d] = bridge[d]
      BY <1>1 DEF writerTake, Shape, BridgesInv, IsBridge
    <2>3. UNCHANGED <<txns, lastTxnId, toRouter, toClient, routerVars>>
      BY <1>1 DEF writerTake
    <2>4. Load(<<"queue", c, 0>>)' = NoMsg
      <3>1. Load(<<"queue", c, 0>>)' = ResponseAt(Tail(s), 0)
        BY <2>1, Loads
      <3> QED
        BY <2>1, <3>1, TailAt
    <2>5. ASSUME NEW j \in Nat \ {0}
          PROVE  Load(<<"queue", c, j>>)' = Load(<<"queue", c, j + 1>>)
      <3>1. Load(<<"queue", c, j>>)' = ResponseAt(q'[c].items, j)
        BY Loads
      <3>2. Load(<<"queue", c, j + 1>>) = ResponseAt(s, j + 1)
        <4>1. j + 1 \in Nat
          OBVIOUS
        <4> QED
          BY <4>1, Loads
      <3>3. ResponseAt(Tail(s), j) = ResponseAt(s, j + 1)
        BY <2>1, TailAt
      <3> QED
        BY <2>1, <3>1, <3>2, <3>3
    <2>6. ASSUME NEW m \in Masters, NEW id \in Nat, Carries(Load(<<"writer", c, 0>>)', m, id)
          PROVE  Carries(Load(<<"queue", c, 1>>), m, id)
      <3>1. Load(<<"writer", c, 0>>)' = Sending(bridge'[c])
        BY Loads
      <3>2. Load(<<"queue", c, 1>>) = ResponseAt(s, 1)
        BY Loads
      <3>3. ResponseAt(s, 1) = IF IsResponse(h.msg) THEN h.msg ELSE NoMsg
        BY <2>1, TailAt
      <3>4. Sending(bridge'[c]) = IF IsRequest(h.msg) THEN NoMsg ELSE h.msg
        BY <2>2 DEF Sending
      <3>5. ~IsRequest(h.msg) /\ Carries(h.msg, m, id)
        BY <2>6, <3>1, <3>4, NoMsgIsNone
      <3>6. h.msg \in GoodMsg
        BY <2>1, HeadTailProperties, EntryFacts
      <3>7. IsResponse(h.msg)
        BY <3>5, <3>6, GoodMsgFacts, TxnFields DEF Carries, IsRequest, IsResponse
      <3> QED
        BY <3>2, <3>3, <3>5, <3>7
    <2>7. \A j \in Nat \ {0} : Load(<<"writer", c, j>>)' = NoMsg
      BY Loads
    <2>8. \A b \in Clients, kd \in Kinds :
            Still(kd, b) \/ (kd = "queue" /\ b = c) \/ (kd = "writer" /\ b = c)
      BY <2>1, <2>2, <2>3, StillFrames DEF Kinds, routerVars
    <2>9. "writer" \in Kinds \ {"queue"}
      BY DEF Kinds
    <2> HIDE DEF s, h
    <2> QED
      BY <2>3, <2>4, <2>5, <2>6, <2>7, <2>8, <2>9, ShiftPlaces
  <1>2. CASE writerWait(c)
    <2>1. \A d \in Clients : q'[d].items = q[d].items
      BY <1>2, SameItemsStep DEF writerWait, Shape
    <2>2. UNCHANGED <<bridge, txns, lastTxnId, toRouter, toClient, routerVars>>
      BY <1>2 DEF writerWait
    <2>3. \A kind \in Kinds, d \in Clients : Still(kind, d)
      BY <2>1, <2>2, StillFrames DEF Kinds, routerVars
    <2> QED
      BY <2>2, <2>3, QuietPlaces
  <1>3. CASE writerStop(c)
    <2>1. \A d \in Clients : q'[d].items = q[d].items
      BY <1>3, SameItemsStep DEF writerStop, Shape
    <2>2. UNCHANGED <<txns, lastTxnId, toRouter, toClient, routerVars>>
      BY <1>3 DEF writerStop
    <2>3. bridge'[c].writer # "send" /\ \A d \in Clients \ {c} : bridge'[d] = bridge[d]
      BY <1>3 DEF writerStop, Shape, BridgesInv, IsBridge
    <2>4. \A kind \in Kinds, d \in Clients : Still(kind, d)
      BY <2>1, <2>2, <2>3, StillFrames DEF Kinds, routerVars
    <2> QED
      BY <2>2, <2>4, QuietPlaces
  <1>4. CASE writerRegister(c)
    BY <1>4, RegisterPlaces
  <1>5. CASE writerSend(c)
    <2>1. PICK msg \in GoodMsg : msg = bridge[c].txn.msg
      BY <1>5, EntryFacts DEF writerSend, Shape, BridgesInv, IsBridge
    <2>2. /\ toRouter'[c] = Append(toRouter[c], msg)
          /\ \A d \in Clients \ {c} : toRouter'[d] = toRouter[d]
          /\ bridge'[c].writer # "send" /\ \A d \in Clients \ {c} : bridge'[d] = bridge[d]
          /\ bridge[c].writer = "send"
          /\ UNCHANGED <<q, txns, lastTxnId, toClient, routerVars>>
      BY <1>5, <2>1 DEF writerSend, Shape, SocketsInv, BridgesInv, IsBridge
    <2>3. PICK from \in Spots : from = <<"writer", c, 0>>
      BY SpotFacts DEF Kinds
    <2>4. Load(from)' = NoMsg /\ Load(from) = msg
      BY <2>1, <2>2, <2>3, Loads DEF Sending
    <2>5. \A d \in Clients, kd \in Kinds : Still(kd, d) \/ (kd = "toRouter" /\ d = c)
      <3>1. \A d \in Clients \ {c} : Still("toRouter", d)
        BY <2>2 DEF Still
      <3> QED
        BY <2>2, <3>1, StillFrames DEF Kinds, routerVars
    <2>6. \A k \in Nat : from # <<"toRouter", c, k>>
      BY <2>3
    <2> QED
      BY <2>2, <2>4, <2>5, <2>6, AppendPlaces
  <1>6. CASE writerLogout(c)
    <2>1. /\ toRouter'[c] = Append(toRouter[c], DoneMsg)
          /\ \A d \in Clients \ {c} : toRouter'[d] = toRouter[d]
          /\ bridge'[c].writer # "send" /\ \A d \in Clients \ {c} : bridge'[d] = bridge[d]
          /\ UNCHANGED <<q, txns, lastTxnId, toClient, routerVars>>
      BY <1>6 DEF writerLogout, Shape, SocketsInv, BridgesInv, IsBridge
    <2>2. PICK from \in Spots : from = <<"writer", c, 0>>
      BY SpotFacts DEF Kinds
    <2>3. Load(from)' = NoMsg
      BY <2>1, <2>2, Loads DEF Sending
    <2>4. \A d \in Clients, kd \in Kinds : Still(kd, d) \/ (kd = "toRouter" /\ d = c)
      <3>1. \A d \in Clients \ {c} : Still("toRouter", d)
        BY <2>1 DEF Still
      <3> QED
        BY <2>1, <3>1, StillFrames DEF Kinds, routerVars
    <2>5. \A k \in Nat : from # <<"toRouter", c, k>>
      BY <2>2
    <2>6. DoneMsg \in GoodMsg /\ \A m, id : ~Carries(DoneMsg, m, id)
      BY GoodMsgFacts, MessageFacts DEF Carries
    <2> QED
      BY <2>1, <2>3, <2>4, <2>5, <2>6, AppendPlaces
  <1>7. CASE writerFail(c)
    <2>1. bridge'[c].writer # "send" /\ \A d \in Clients \ {c} : bridge'[d] = bridge[d]
      BY <1>7 DEF writerFail, Shape, BridgesInv, IsBridge
    <2>2. UNCHANGED <<q, txns, lastTxnId, toRouter, toClient, routerVars>>
      BY <1>7 DEF writerFail
    <2>3. \A kind \in Kinds, d \in Clients : Still(kind, d)
      BY <2>1, <2>2, StillFrames DEF Kinds, routerVars
    <2> QED
      BY <2>2, <2>3, QuietPlaces
  <1>8. CASE writerKilled(c)
    BY <1>8, DiePlaces DEF writerKilled
  <1> QED
    BY <1>1, <1>2, <1>3, <1>4, <1>5, <1>6, <1>7, <1>8 DEF Writer

\* A step that reads a message from the router and puts it nowhere.
LEMMA ConsumePlaces ==
    ASSUME Shape, PlacesInv, NEW c \in Clients, toClient[c] # <<>>, Consume(c),
           \A d \in Clients, kd \in Kinds : Still(kd, d) \/ (kd = "toClient" /\ d = c)
    PROVE  /\ Apart'
           /\ \A m \in Masters, id \in Nat, w \in Spots :
                Carries(Load(w)', m, id) =>
                  \E v \in Spots : Carries(Load(v), m, id) /\ v # <<"toClient", c, 1>>
           /\ txns' = txns /\ lastTxnId' = lastTxnId => PlacesInv'
  <1>1. toClient'[c] = Tail(toClient[c])
    BY DEF Consume, Shape, SocketsInv
  <1>2. /\ Load(<<"toClient", c, 0>>)' = NoMsg
        /\ \A j \in Nat \ {0} : Load(<<"toClient", c, j>>)' = Load(<<"toClient", c, j + 1>>)
    BY <1>1, ReadLoads
  <1>3. "rt" \in Kinds \ {"toClient"}
    BY DEF Kinds
  <1>4. PICK k \in Nat : k # 0
    OBVIOUS
  <1>5. Load(<<"rt", c, k>>)' = NoMsg
    BY <1>4, Loads
  <1>6. \A m \in Masters, id \in Nat : ~Carries(Load(<<"rt", c, k>>)', m, id)
    BY <1>5, NoMsgIsNone
  <1>7. \A j \in Nat : \/ Load(<<"rt", c, j>>)' = Load(<<"rt", c, j>>)
                       \/ Load(<<"rt", c, j>>)' = NoMsg
    BY <1>3, StillLoads
  <1>8. /\ Apart'
        /\ \A m \in Masters, id \in Nat, w \in Spots :
             Carries(Load(w)', m, id) =>
               \E v \in Spots : /\ Carries(Load(v), m, id)
                                /\ w # <<"rt", c, k>> => v # <<"toClient", c, 1>>
        /\ txns' = txns /\ lastTxnId' = lastTxnId => PlacesInv'
    <2>1. \A m \in Masters, id \in Nat :
            Carries(Load(<<"rt", c, k>>)', m, id) => Carries(Load(<<"toClient", c, 1>>), m, id)
      BY <1>6
    <2>2. \A d \in Clients, kd \in Kinds :
            Still(kd, d) \/ (kd = "toClient" /\ d = c) \/ (kd = "rt" /\ d = c)
      OBVIOUS
    <2>3. \A j \in Nat \ {k} : \/ Load(<<"rt", c, j>>)' = Load(<<"rt", c, j>>)
                               \/ Load(<<"rt", c, j>>)' = NoMsg
      BY <1>7
    <2> QED
      BY <1>2, <1>3, <2>1, <2>2, <2>3, ShiftPlaces
  <1> QED
    BY <1>6, <1>8

\* What the reader leaves alone when it stops.
LEMMA StopReaderStill ==
    ASSUME Shape, NEW c \in Clients, NEW status \in {"ok", "error"}, StopReader(c, status)
    PROVE  \A d \in Clients : Still("queue", d) /\ Still("writer", d)
  <1>1. \A d \in Clients : q'[d].items = q[d].items
    BY SameItemsStep DEF Shape, StopReader
  <1>2. \A d \in Clients : bridge'[d].writer = bridge[d].writer /\ bridge'[d].txn = bridge[d].txn
    BY DEF StopReader, Shape, BridgesInv, IsBridge
  <1> QED
    BY <1>1, <1>2, StillFrames

\* The answer that is taken out of txns was the only one.
LEMMA AnswerPlaces ==
    ASSUME Shape, PlacesInv, NEW c \in Clients, receiveResponse(c)
    PROVE  PlacesInv'
  <1>1. toClient[c] # <<>> /\ Consume(c) /\ UNCHANGED <<q, bridge, lastTxnId, toRouter, routerVars>>
    BY DEF receiveResponse, Receiving
  <1>2. PICK h \in GoodMsg : h = Head(toClient[c])
    BY <1>1, ReceivedIsGood
  <1>3. h.type = "TRANSACTION" /\ h.txn \in Transaction
    BY <1>2, GoodMsgFacts DEF receiveResponse, IsResponse
  <1>4. PICK m \in Masters : m = h.txn.initiator
    BY <1>3, TxnFields
  <1>5. PICK e \in txns[m] : e.id = h.txn.id /\ txns' = [txns EXCEPT ![m] = @ \ {e}]
    BY <1>2, <1>4 DEF receiveResponse
  <1>6. \A d \in Clients, kd \in Kinds : Still(kd, d) \/ (kd = "toClient" /\ d = c)
    <2>1. \A d \in Clients \ {c} : Still("toClient", d)
      BY <1>1 DEF Still, Consume, Shape, SocketsInv
    <2> QED
      BY <1>1, <2>1, StillFrames DEF Kinds, routerVars
  <1>7. /\ Apart'
        /\ \A i \in Masters, id \in Nat, w \in Spots :
             Carries(Load(w)', i, id) =>
               \E v \in Spots : Carries(Load(v), i, id) /\ v # <<"toClient", c, 1>>
    BY <1>1, <1>6, ConsumePlaces
  <1>8. \A i \in Masters : /\ txns'[i] \subseteq txns[i]
                           /\ txns[i] \subseteq txns'[i] \cup (IF i = m THEN {e} ELSE {})
    BY <1>5 DEF Shape, TablesInv
  <1>9. Carries(Load(<<"toClient", c, 1>>), m, e.id)
    <2>1. toClient'[c] = Tail(toClient[c])
      BY <1>1 DEF Consume, Shape, SocketsInv
    <2>2. Load(<<"toClient", c, 1>>) = h
      BY <1>1, <1>2, <2>1, ReadLoads
    <2> QED
      BY <1>3, <1>4, <1>5, <2>2 DEF Carries
  <1>10. Known'
    <2> SUFFICES ASSUME NEW i \in Masters, NEW id \in Nat, NEW w \in Spots, Carries(Load(w)', i, id)
                 PROVE  \E x \in txns'[i] : id = x.id
      BY DEF Known, Ids
    <2>1. PICK v \in Spots : Carries(Load(v), i, id) /\ v # <<"toClient", c, 1>>
      BY <1>7
    <2>2. PICK x \in txns[i] : id = x.id
      BY <2>1 DEF PlacesInv, Known, Ids
    <2>3. CASE i = m /\ x = e
      <3>1. Carries(Load(<<"toClient", c, 1>>), i, id)
        BY <1>9, <2>2, <2>3
      <3>2. <<"toClient", c, 1>> \in Spots
        BY SpotFacts DEF Kinds
      <3> QED
        BY <2>1, <3>1, <3>2 DEF PlacesInv, Apart
    <2>4. CASE ~(i = m /\ x = e)
      BY <1>8, <2>2, <2>4
    <2> QED
      BY <2>3, <2>4
  <1>11. FreshIds'
    BY <1>1, <1>8 DEF PlacesInv, FreshIds, Ids
  <1> QED
    BY <1>7, <1>10, <1>11 DEF PlacesInv

\* The reader takes a request to the queue as a response.
LEMMA RequestPlaces ==
    ASSUME Shape, PlacesInv, NEW c \in Clients, receiveRequest(c)
    PROVE  PlacesInv'
  <1>1. /\ toClient[c] # <<>> /\ Consume(c)
        /\ UNCHANGED <<bridge, txns, lastTxnId, toRouter, routerVars>>
    BY DEF receiveRequest, Receiving
  <1>2. PICK h \in GoodMsg : h = Head(toClient[c])
    BY <1>1, ReceivedIsGood
  <1>3. PICK t \in Transaction : t = h.txn
    BY <1>2, GoodMsgFacts DEF receiveRequest, IsRequest
  <1>4. h.type = "TRANSACTION" /\ t.type \in ReqTypes /\ t.target = 0
    BY <1>2, <1>3, GoodMsgFacts DEF receiveRequest, IsRequest
  <1>5. PICK cells \in [Addr -> 0 .. MaxOps] :
          Push(c, Entry("TRANSACTION", TxnMsg(ResponseTxn(cells, t)), 0))
    <2>1. mem[t.target + 1] \in [Addr -> 0 .. MaxOps]
      <3>1. t.target + 1 \in Slaves
        BY <1>2, <1>3, Owners DEF receiveRequest
      <3> QED
        BY <3>1 DEF Shape, TablesInv
    <2> QED
      BY <1>2, <1>3, <2>1 DEF receiveRequest
  <1>6. PICK msg \in GoodMsg : /\ msg = TxnMsg(ResponseTxn(cells, t)) /\ IsResponse(msg)
                               /\ msg.txn.initiator = t.initiator /\ msg.txn.id = t.id
    BY <1>4, ResponseIsGood, MessageFacts
  <1>7. PICK e \in GoodEntry : Push(c, e) /\ e.msg = msg
    <2>1. ~IsRequest(msg) /\ 0 \in 0 .. MaxOps
      BY <1>6, BoundsAssumption DEF IsRequest, IsResponse, ReqTypes, RespTypes
    <2> QED
      BY <1>5, <1>6, <2>1, EntryFacts
  <1>8. /\ q'[c].items = Append(q[c].items, e) /\ q[c].items \in Seq(GoodEntry)
        /\ \A d \in Clients \ {c} : q'[d] = q[d]
    BY <1>7, PushStep DEF Shape, QueuesInv, IsQueue
  <1>9. PICK k \in Nat : k = Len(q[c].items) + 1
    BY <1>8, LenProperties
  <1>10. Load(<<"queue", c, k>>)' = msg
    <2>1. Load(<<"queue", c, k>>)' = ResponseAt(q'[c].items, k)
      BY Loads
    <2>2. ResponseAt(Append(q[c].items, e), k) = msg
      BY <1>6, <1>7, <1>8, <1>9, AppendAt
    <2> QED
      BY <1>8, <2>1, <2>2
  <1>11. \A j \in Nat \ {k} : Load(<<"queue", c, j>>)' = Load(<<"queue", c, j>>)
    <2> SUFFICES ASSUME NEW j \in Nat \ {k}
                 PROVE  Load(<<"queue", c, j>>)' = Load(<<"queue", c, j>>)
      OBVIOUS
    <2>1. Load(<<"queue", c, j>>)' = ResponseAt(q'[c].items, j)
      BY Loads
    <2>2. Load(<<"queue", c, j>>) = ResponseAt(q[c].items, j)
      BY Loads
    <2>3. ResponseAt(Append(q[c].items, e), j) = ResponseAt(q[c].items, j)
      BY <1>8, <1>9, AppendAt
    <2> QED
      BY <1>8, <2>1, <2>2, <2>3
  <1>12. toClient'[c] = Tail(toClient[c])
    BY <1>1 DEF Consume, Shape, SocketsInv
  <1>13. /\ Load(<<"toClient", c, 0>>)' = NoMsg
         /\ \A j \in Nat \ {0} : Load(<<"toClient", c, j>>)' = Load(<<"toClient", c, j + 1>>)
         /\ Load(<<"toClient", c, 1>>) = h
    BY <1>1, <1>2, <1>12, ReadLoads
  <1>14. \A m \in Masters, id \in Nat :
           Carries(Load(<<"queue", c, k>>)', m, id) => Carries(Load(<<"toClient", c, 1>>), m, id)
    BY <1>3, <1>4, <1>6, <1>10, <1>13 DEF Carries
  <1>15. \A d \in Clients, kd \in Kinds :
           Still(kd, d) \/ (kd = "toClient" /\ d = c) \/ (kd = "queue" /\ d = c)
    <2>1. \A d \in Clients \ {c} : Still("toClient", d)
      BY <1>1 DEF Still, Consume, Shape, SocketsInv
    <2> QED
      BY <1>1, <1>8, <2>1, StillFrames DEF Kinds, routerVars
  <1>16. "queue" \in Kinds \ {"toClient"}
    BY DEF Kinds
  <1> QED
    BY <1>1, <1>11, <1>13, <1>14, <1>15, <1>16, ShiftPlaces

\* The steps of the reader.
LEMMA ReaderPlaces ==
    ASSUME Shape, PlacesInv, NEW c \in Clients, Reader(c)
    PROVE  PlacesInv'
  <1>1. CASE receiveDone(c) \/ receiveUnknownResponse(c) \/ receiveUnknownRequest(c)
    <2>1. PICK status \in {"ok", "error"} : StopReader(c, status)
      BY <1>1 DEF receiveDone, receiveUnknownResponse, receiveUnknownRequest
    <2>2. toClient[c] # <<>> /\ Consume(c) /\ UNCHANGED <<txns, lastTxnId, toRouter, routerVars>>
      BY <1>1 DEF receiveDone, receiveUnknownResponse, receiveUnknownRequest, Receiving
    <2>3. \A d \in Clients, kd \in Kinds : Still(kd, d) \/ (kd = "toClient" /\ d = c)
      <3>1. \A d \in Clients \ {c} : Still("toClient", d)
        BY <2>2 DEF Still, Consume, Shape, SocketsInv
      <3>2. \A d \in Clients : Still("queue", d) /\ Still("writer", d)
        BY <2>1, StopReaderStill
      <3> QED
        BY <2>2, <3>1, <3>2, StillFrames DEF Kinds, routerVars
    <2> QED
      BY <2>2, <2>3, ConsumePlaces
  <1>2. CASE receiveFail(c) \/ receiveSpin(c) \/ readerNotify(c)
    <2>1. \A d \in Clients : q'[d].items = q[d].items
      BY <1>2, SameItemsStep DEF receiveFail, receiveSpin, readerNotify, Shape
    <2>2. \A d \in Clients : bridge'[d].writer = bridge[d].writer /\ bridge'[d].txn = bridge[d].txn
      BY <1>2 DEF receiveFail, receiveSpin, readerNotify, Shape, BridgesInv, IsBridge
    <2>3. UNCHANGED <<txns, lastTxnId, toRouter, toClient, routerVars>>
      BY <1>2 DEF receiveFail, receiveSpin, readerNotify
    <2>4. \A kind \in Kinds, d \in Clients : Still(kind, d)
      BY <2>1, <2>2, <2>3, StillFrames DEF Kinds, routerVars
    <2> QED
      BY <2>3, <2>4, QuietPlaces
  <1> QED
    BY <1>1, <1>2, AnswerPlaces, RequestPlaces DEF Reader

\* The steps of the router's readers and writers.
LEMMA ClientGoroutinesPlaces ==
    ASSUME Shape, PlacesInv, NEW c \in Clients, RouterReader(c) \/ RouterWriter(c)
    PROVE  PlacesInv'
  <1>1. CASE clientRead(c)
    <2>1. /\ toRouter[c] # <<>> /\ toRouter'[c] = Tail(toRouter[c])
          /\ \A d \in Clients \ {c} : toRouter'[d] = toRouter[d] /\ rr'[d] = rr[d]
          /\ rr'[c].msg = Head(toRouter[c]) \/ rr'[c].msg = NoMsg
          /\ UNCHANGED <<q, bridge, txns, lastTxnId, toClient, rw, rt>>
      BY <1>1 DEF clientRead, bridgeVars, Shape, SocketsInv, RouterInv
    <2>2. /\ Load(<<"toRouter", c, 0>>)' = NoMsg
          /\ \A j \in Nat \ {0} : Load(<<"toRouter", c, j>>)' = Load(<<"toRouter", c, j + 1>>)
          /\ Load(<<"toRouter", c, 1>>) = Head(toRouter[c])
      BY <2>1, ReadLoads
    <2>3. \A j \in Nat : Load(<<"rr", c, j>>)' = IF j = 0 THEN rr'[c].msg ELSE NoMsg
      BY Loads
    <2>4. \A m \in Masters, id \in Nat :
            Carries(Load(<<"rr", c, 0>>)', m, id) => Carries(Load(<<"toRouter", c, 1>>), m, id)
      BY <2>1, <2>2, <2>3, NoMsgIsNone
    <2>5. \A j \in Nat \ {0} : \/ Load(<<"rr", c, j>>)' = Load(<<"rr", c, j>>)
                               \/ Load(<<"rr", c, j>>)' = NoMsg
      BY <2>3
    <2>6. \A d \in Clients, kd \in Kinds :
            Still(kd, d) \/ (kd = "toRouter" /\ d = c) \/ (kd = "rr" /\ d = c)
      <3>1. \A d \in Clients \ {c} : Still("toRouter", d) /\ Still("rr", d)
        BY <2>1 DEF Still
      <3> QED
        BY <2>1, <3>1, StillFrames DEF Kinds
    <2>7. "rr" \in Kinds \ {"toRouter"}
      BY DEF Kinds
    <2> QED
      BY <2>1, <2>2, <2>4, <2>5, <2>6, <2>7, ShiftPlaces
  <1>2. CASE clientWrite(c)
    <2>1. PICK msg \in GoodMsg : msg = rw[c].msg
      BY <1>2 DEF clientWrite, Shape, RouterInv
    <2>2. /\ toClient'[c] = Append(toClient[c], msg) /\ rw'[c].msg = NoMsg
          /\ \A d \in Clients \ {c} : toClient'[d] = toClient[d] /\ rw'[d] = rw[d]
          /\ UNCHANGED <<q, bridge, txns, lastTxnId, toRouter, rr, rt>>
      BY <1>2, <2>1 DEF clientWrite, bridgeVars, Shape, SocketsInv, RouterInv
    <2>3. PICK from \in Spots : from = <<"rw", c, 0>>
      BY SpotFacts DEF Kinds
    <2>4. Load(from)' = NoMsg /\ Load(from) = msg
      BY <2>1, <2>2, <2>3, Loads
    <2>5. \A d \in Clients, kd \in Kinds : Still(kd, d) \/ (kd = "toClient" /\ d = c)
      <3>1. \A d \in Clients : Still("rw", d) /\ (d # c => Still("toClient", d))
        BY <2>2 DEF Still
      <3> QED
        BY <2>2, <3>1, StillFrames DEF Kinds
    <2>6. \A k \in Nat : from # <<"toClient", c, k>>
      BY <2>3
    <2> QED
      BY <2>2, <2>4, <2>5, <2>6, AppendPlaces
  <1>3. CASE clientReadFatal(c) \/ clientWriteFatal(c)
    <2>1. UNCHANGED <<q, bridge, txns, lastTxnId, toRouter, toClient, rr, rw, rt>>
      BY <1>3 DEF clientReadFatal, clientWriteFatal, Fatal, bridgeVars
    <2>2. \A kind \in Kinds, d \in Clients : Still(kind, d)
      BY <2>1, StillFrames DEF Kinds
    <2> QED
      BY <2>1, <2>2, QuietPlaces
  <1> QED
    BY <1>1, <1>2, <1>3 DEF RouterReader, RouterWriter

\* What route has received from a reader it is about to send.
LEMMA TakeIncomingPlaces ==
    ASSUME Shape, PlacesInv, NEW c \in Clients, TakeIncoming(c), NEW msg, rt'.msg = msg,
           \A m \in Masters, id \in Nat : Carries(msg, m, id) => Carries(rr[c].msg, m, id),
           UNCHANGED <<q, bridge, txns, lastTxnId, toRouter, toClient, rw>>
    PROVE  PlacesInv'
  <1>1. rr'[c].msg = NoMsg /\ \A d \in Clients \ {c} : rr'[d] = rr[d]
    BY DEF TakeIncoming, Shape, RouterInv
  <1>2. PICK from \in Spots : from = <<"rr", c, 0>>
    BY SpotFacts DEF Kinds
  <1>3. Load(from)' = NoMsg /\ Load(from) = rr[c].msg
    BY <1>1, <1>2, Loads
  <1>4. PICK z \in Clients : z = 0
    BY Owners
  <1>5. \A j \in Nat : Load(<<"rt", z, j>>)' = IF j = 0 THEN msg ELSE NoMsg
    BY <1>4, Loads
  <1>6. \A m \in Masters, id \in Nat : Carries(Load(<<"rt", z, 0>>)', m, id) => Carries(Load(from), m, id)
    BY <1>3, <1>5
  <1>7. \A j \in Nat \ {0} : Load(<<"rt", z, j>>)' = NoMsg
    BY <1>5
  <1>8. \A d \in Clients, kd \in Kinds : Still(kd, d) \/ (kd = "rt" /\ d = z)
    <2>1. \A d \in Clients : Still("rr", d) /\ (d # z => Still("rt", d))
      BY <1>1, <1>4 DEF Still
    <2> QED
      BY <2>1, StillFrames DEF Kinds
  <1>9. from # <<"rt", z, 0>> /\ "rt" \in Kinds
    BY <1>2 DEF Kinds
  <1> QED
    BY <1>3, <1>6, <1>7, <1>8, <1>9, MovePlaces

\* The steps of route.
LEMMA RoutePlaces ==
    ASSUME Shape, PlacesInv, Route
    PROVE  PlacesInv'
  <1>1. ASSUME NEW c \in Clients, routeLastTerminate(c)
        PROVE  PlacesInv'
    <2>1. /\ TakeIncoming(c) /\ rt'.msg = DoneMsg
          /\ UNCHANGED <<q, bridge, txns, lastTxnId, toRouter, toClient, rw>>
      BY <1>1 DEF routeLastTerminate, bridgeVars
    <2>2. \A m, id : ~Carries(DoneMsg, m, id)
      BY MessageFacts DEF Carries
    <2> QED
      BY <2>1, <2>2, TakeIncomingPlaces
  <1>2. ASSUME NEW c \in Clients, routeTerminate(c)
        PROVE  PlacesInv'
    <2>1. /\ rr'[c].msg = NoMsg /\ \A d \in Clients \ {c} : rr'[d] = rr[d]
          /\ UNCHANGED <<q, bridge, txns, lastTxnId, toRouter, toClient, rw, rt>>
      BY <1>2 DEF routeTerminate, TakeIncoming, bridgeVars, Shape, RouterInv
    <2>2. \A d \in Clients : Still("rr", d)
      BY <2>1 DEF Still
    <2>3. \A kind \in Kinds, d \in Clients : Still(kind, d)
      BY <2>1, <2>2, StillFrames DEF Kinds
    <2> QED
      BY <2>1, <2>3, QuietPlaces
  <1>3. ASSUME NEW c \in Clients, routeResponse(c)
        PROVE  PlacesInv'
    <2>1. /\ TakeIncoming(c) /\ rt'.msg = rr[c].msg
          /\ UNCHANGED <<q, bridge, txns, lastTxnId, toRouter, toClient, rw>>
      BY <1>3 DEF routeResponse, Outgoing, bridgeVars
    <2> QED
      BY <2>1, TakeIncomingPlaces
  <1>4. ASSUME NEW c \in Clients, routeRequest(c)
        PROVE  PlacesInv'
    <2>1. /\ TakeIncoming(c)
          /\ UNCHANGED <<q, bridge, txns, lastTxnId, toRouter, toClient, rw>>
      BY <1>4 DEF routeRequest, bridgeVars
    <2>2. PICK msg \in GoodMsg : /\ rt'.msg = msg /\ rr[c].msg.type = "TRANSACTION"
                                 /\ msg.txn.initiator = rr[c].msg.txn.initiator
                                 /\ msg.txn.id = rr[c].msg.txn.id
      BY <1>4, RouteRequestFacts
    <2>3. \A m \in Masters, id \in Nat : Carries(msg, m, id) => Carries(rr[c].msg, m, id)
      BY <2>2 DEF Carries
    <2> QED
      BY <2>1, <2>2, <2>3, TakeIncomingPlaces
  <1>5. CASE routeSend \/ sendDone
    <2>1. PICK c \in Clients : c = rt.client
      BY DEF Shape, RouterInv
    <2>2. PICK z \in Clients : z = 0
      BY Owners
    <2>3. /\ \A d \in Clients \ {c} : rw'[d] = rw[d]
          /\ UNCHANGED <<q, bridge, txns, lastTxnId, toRouter, toClient, rr>>
      BY <1>5, <2>1 DEF routeSend, sendDone, bridgeVars, Shape, RouterInv
    <2>4. rt'.msg = rt.msg \/ rt'.msg = NoMsg
      BY <1>5 DEF routeSend, sendDone, Shape, RouterInv
    <2>5. \A d \in Clients, kd \in Kinds : Still(kd, d) \/ (kd = "rw" /\ d = c)
      <3>1. \A d \in Clients : Still("rt", d) /\ (d # c => Still("rw", d))
        BY <2>3, <2>4 DEF Still
      <3> QED
        BY <2>3, <3>1, StillFrames DEF Kinds
    <2>6. \A j \in Nat : Load(<<"rw", c, j>>)' = IF j = 0 THEN rw'[c].msg ELSE NoMsg
      BY Loads
    <2>7. \A j \in Nat \ {0} : Load(<<"rw", c, j>>)' = NoMsg
      BY <2>6
    <2>8. CASE routeSend
      <3>1. PICK from \in Spots : from = <<"rt", z, 0>>
        BY SpotFacts DEF Kinds
      <3>2. rt'.msg = NoMsg /\ rw'[c].msg = rt.msg
        BY <2>1, <2>8 DEF routeSend, Shape, RouterInv
      <3>3. Load(from)' = NoMsg /\ Load(from) = rt.msg
        BY <2>2, <3>1, <3>2, Loads
      <3>4. \A m \in Masters, id \in Nat : Carries(Load(<<"rw", c, 0>>)', m, id) => Carries(Load(from), m, id)
        BY <2>6, <3>2, <3>3
      <3>5. from # <<"rw", c, 0>> /\ "rw" \in Kinds
        BY <3>1 DEF Kinds
      <3> QED
        BY <2>3, <2>5, <2>7, <3>3, <3>4, <3>5, MovePlaces
    <2>9. CASE sendDone
      <3>1. PICK k \in Nat : k # 0
        OBVIOUS
      <3>2. PICK from \in Spots : from = <<"rw", c, k>>
        BY SpotFacts DEF Kinds
      <3>3. Load(from)' = NoMsg
        BY <2>7, <3>1, <3>2
      <3>4. rw'[c].msg = DoneMsg
        BY <2>1, <2>9 DEF sendDone, Shape, RouterInv
      <3>5. \A m \in Masters, id \in Nat : ~Carries(Load(<<"rw", c, 0>>)', m, id)
        BY <2>6, <3>4, MessageFacts DEF Carries
      <3>6. from # <<"rw", c, 0>> /\ "rw" \in Kinds
        BY <3>1, <3>2 DEF Kinds
      <3> QED
        BY <2>3, <2>5, <2>7, <3>3, <3>5, <3>6, MovePlaces
    <2> QED
      BY <1>5, <2>8, <2>9
  <1> QED
    BY <1>1, <1>2, <1>3, <1>4, <1>5 DEF Route

\* Every step moves at most one transaction, and a new one has a new id.
LEMMA NextPlaces ==
    ASSUME Shape, PlacesInv, [Next]_vars
    PROVE  PlacesInv'
  <1>1. ASSUME NEW c \in Clients, spuriousWakeup(c)
        PROVE  PlacesInv'
    <2>1. \A d \in Clients : q'[d].items = q[d].items
      BY <1>1, SameItemsStep DEF spuriousWakeup, Shape
    <2>2. UNCHANGED <<bridge, txns, lastTxnId, toRouter, toClient, routerVars>>
      BY <1>1 DEF spuriousWakeup
    <2>3. \A kind \in Kinds, d \in Clients : Still(kind, d)
      BY <2>1, <2>2, StillFrames DEF Kinds, routerVars
    <2> QED
      BY <2>2, <2>3, QuietPlaces
  <1>2. CASE routerExit \/ UNCHANGED vars
    <2>1. UNCHANGED <<q, bridge, txns, lastTxnId, toRouter, toClient, rr, rw, rt>>
      BY <1>2 DEF routerExit, vars, bridgeVars, routerVars
    <2>2. \A kind \in Kinds, d \in Clients : Still(kind, d)
      BY <2>1, StillFrames DEF Kinds
    <2> QED
      BY <2>1, <2>2, QuietPlaces
  <1> QED
    BY <1>1, <1>2, ApplicationPlaces, WriterPlaces, ReaderPlaces,
       ClientGoroutinesPlaces, RoutePlaces DEF Next

\* At the start nothing is on its way.
LEMMA InitPlaces == Init => PlacesInv
  <1> SUFFICES ASSUME Init PROVE PlacesInv
    OBVIOUS
  <1>1. ASSUME NEW w \in Spots
        PROVE  Load(w) = NoMsg
    <2>1. PICK kind \in Kinds, c \in Clients, k \in Nat : w = <<kind, c, k>>
      BY SpotFacts
    <2>2. q[c].items = <<>> /\ toRouter[c] = <<>> /\ toClient[c] = <<>>
      BY DEF Init, NewQueue
    <2>3. At(<<>>, k) = NoMsg /\ ResponseAt(<<>>, k) = NoMsg
      BY DEF At, ResponseAt
    <2>4. Sending(bridge[c]) = NoMsg /\ rr[c].msg = NoMsg /\ rw[c].msg = NoMsg /\ rt.msg = NoMsg
      BY DEF Init, Sending
    <2>5. /\ Load(<<"queue", c, k>>) = NoMsg /\ Load(<<"toRouter", c, k>>) = NoMsg
          /\ Load(<<"toClient", c, k>>) = NoMsg
      BY <2>2, <2>3, Loads
    <2>6. /\ Load(<<"writer", c, k>>) = NoMsg /\ Load(<<"rr", c, k>>) = NoMsg
          /\ Load(<<"rw", c, k>>) = NoMsg /\ Load(<<"rt", c, k>>) = NoMsg
      BY <2>4, Loads
    <2> QED
      BY <2>1, <2>5, <2>6 DEF Kinds
  <1>2. \A m \in Masters : Ids(m) = {}
    BY DEF Init, Ids
  <1> QED
    BY <1>1, <1>2, NoMsgIsNone DEF PlacesInv, Apart, Known, FreshIds

\* The places of a transaction are the spots that carry it.
LEMMA PlacesAreSpots ==
    ASSUME Shape, NEW m \in Masters, NEW id \in Nat, NEW w, w \in Places(m, id)
    PROVE  w \in Spots /\ Carries(Load(w), m, id)
  <1> DEFINE Holds(kind, c, k) ==
               /\ kind = "queue"    => /\ k \in DOMAIN q[c].items /\ IsResponse(q[c].items[k].msg)
                                       /\ Carries(q[c].items[k].msg, m, id)
               /\ kind = "toRouter" => k \in DOMAIN toRouter[c] /\ Carries(toRouter[c][k], m, id)
               /\ kind = "toClient" => k \in DOMAIN toClient[c] /\ Carries(toClient[c][k], m, id)
               /\ kind = "writer"   => /\ k = 0 /\ bridge[c].writer = "send"
                                       /\ Carries(bridge[c].txn.msg, m, id)
               /\ kind = "rr"       => k = 0 /\ Carries(rr[c].msg, m, id)
               /\ kind = "rw"       => k = 0 /\ Carries(rw[c].msg, m, id)
               /\ kind = "rt"       => k = 0 /\ c = 0 /\ Carries(rt.msg, m, id)
  <1>1. PICK kind \in Kinds, c \in Clients, k \in Nat : w = <<kind, c, k>> /\ Holds(kind, c, k)
    <2>1. 0 \in Clients
      BY Owners
    <2>2. \A c \in Clients : /\ DOMAIN q[c].items \subseteq Nat /\ DOMAIN toRouter[c] \subseteq Nat
                             /\ DOMAIN toClient[c] \subseteq Nat
      BY DEF Shape, QueuesInv, IsQueue, SocketsInv
    <2>3. \/ w = <<"rt", 0, 0>> /\ Carries(rt.msg, m, id)
          \/ \E c \in Clients : w \in PlacesAt(c, m, id)
      BY DEF Places
    <2>4. CASE w = <<"rt", 0, 0>> /\ Carries(rt.msg, m, id)
      <3>1. "rt" \in Kinds /\ Holds("rt", 0, 0)
        BY <2>4 DEF Kinds
      <3> HIDE DEF Holds
      <3> QED
        BY <2>1, <2>4, <3>1
    <2>5. ASSUME NEW c \in Clients, w \in PlacesAt(c, m, id)
          PROVE  \E kind \in Kinds, k \in Nat : w = <<kind, c, k>> /\ Holds(kind, c, k)
      <3> DEFINE In(s) == {k \in DOMAIN s : Carries(s[k], m, id)}
                 Queued == {k \in DOMAIN q[c].items : /\ IsResponse(q[c].items[k].msg)
                                                      /\ Carries(q[c].items[k].msg, m, id)}
      <3>1. \/ \E k \in Queued : w = <<"queue", c, k>>
            \/ \E k \in In(toRouter[c]) : w = <<"toRouter", c, k>>
            \/ \E k \in In(toClient[c]) : w = <<"toClient", c, k>>
            \/ w = <<"writer", c, 0>> /\ bridge[c].writer = "send" /\ Carries(bridge[c].txn.msg, m, id)
            \/ w = <<"rr", c, 0>> /\ Carries(rr[c].msg, m, id)
            \/ w = <<"rw", c, 0>> /\ Carries(rw[c].msg, m, id)
        BY <2>5 DEF PlacesAt
      <3>2. Queued \subseteq Nat /\ In(toRouter[c]) \subseteq Nat /\ In(toClient[c]) \subseteq Nat
        BY <2>2
      <3> QED
        BY <3>1, <3>2 DEF Kinds
    <2> HIDE DEF Holds
    <2> QED
      BY <2>3, <2>4, <2>5
  <1>2. w \in Spots
    BY <1>1, SpotFacts
  <1>3. Carries(Load(<<kind, c, k>>), m, id)
    <2>1. CASE kind = "queue"
      <3>1. ResponseAt(q[c].items, k) = q[c].items[k].msg
        BY <1>1, <2>1 DEF ResponseAt
      <3> QED
        BY <1>1, <2>1, <3>1, Loads
    <2>2. CASE kind = "toRouter"
      <3>1. At(toRouter[c], k) = toRouter[c][k]
        BY <1>1, <2>2 DEF At
      <3> QED
        BY <1>1, <2>2, <3>1, Loads
    <2>3. CASE kind = "toClient"
      <3>1. At(toClient[c], k) = toClient[c][k]
        BY <1>1, <2>3 DEF At
      <3> QED
        BY <1>1, <2>3, <3>1, Loads
    <2>4. CASE kind = "writer"
      <3>1. k = 0 /\ Sending(bridge[c]) = bridge[c].txn.msg
        BY <1>1, <2>4 DEF Sending
      <3> QED
        BY <1>1, <2>4, <3>1, Loads
    <2>5. CASE kind \in {"rr", "rw", "rt"}
      <3>1. /\ Load(<<"rr", c, k>>) = IF k = 0 THEN rr[c].msg ELSE NoMsg
            /\ Load(<<"rw", c, k>>) = IF k = 0 THEN rw[c].msg ELSE NoMsg
            /\ Load(<<"rt", c, k>>) = IF k = 0 /\ c = 0 THEN rt.msg ELSE NoMsg
        BY Loads
      <3> QED
        BY <1>1, <2>5, <3>1
    <2> QED
      BY <2>1, <2>2, <2>3, <2>4, <2>5 DEF Kinds
  <1> QED
    BY <1>1, <1>2, <1>3

\* Whatever fails on the way and whoever dies, no copy of a transaction is ever
\* made: a transaction that waits in txns is in one place at most, and one that
\* does not is nowhere.
THEOREM NothingIsDoubled == Spec => []AtMostOnce
  <1>1. Shape /\ PlacesInv => AtMostOnce
    <2> SUFFICES ASSUME Shape, PlacesInv, NEW m \in Masters, NEW id \in 0 .. lastTxnId[m] - 1
                 PROVE  Cardinality(Places(m, id)) <= IF id \in Ids(m) THEN 1 ELSE 0
      BY DEF AtMostOnce
    <2>1. id \in Nat
      BY DEF Shape, TablesInv
    <2>2. \A w \in Places(m, id) : w \in Spots /\ Carries(Load(w), m, id)
      BY <2>1, PlacesAreSpots
    <2>3. \A v, w \in Places(m, id) : v = w
      BY <2>1, <2>2 DEF PlacesInv, Apart
    <2>4. CASE Places(m, id) = {}
      <3>1. Cardinality(Places(m, id)) = 0
        BY <2>4, FS_EmptySet
      <3> QED
        BY <3>1
    <2>5. ASSUME NEW w \in Places(m, id)
          PROVE  Cardinality(Places(m, id)) <= IF id \in Ids(m) THEN 1 ELSE 0
      <3>1. id \in Ids(m)
        BY <2>1, <2>2, <2>5 DEF PlacesInv, Known
      <3>2. Places(m, id) = {w}
        BY <2>3, <2>5
      <3>3. Cardinality(Places(m, id)) = 1
        BY <3>2, FS_Singleton
      <3> QED
        BY <3>1, <3>3
    <2> QED
      BY <2>4, <2>5
  <1>2. Spec => [](Shape /\ PlacesInv)
    <2>1. Init => Shape /\ PlacesInv
      BY InitShape, InitPlaces
    <2>2. Shape /\ PlacesInv /\ [Next]_vars => (Shape /\ PlacesInv)'
      BY NextShape, NextPlaces
    <2> QED
      BY <2>1, <2>2, PTL DEF Spec
  <1> QED
    BY <1>1, <1>2, PTL
-----------------------------------------------------------------------------
(* What waitForCompletion reports *)

\* The elements of a sequence that has grown at its end.
LEMMA AppendElements ==
    ASSUME NEW S, NEW s \in Seq(S), NEW e \in S
    PROVE  \A k \in DOMAIN Append(s, e) :
             Append(s, e)[k] = e \/ (k \in DOMAIN s /\ Append(s, e)[k] = s[k])
  <1> DEFINE n == Len(s)
             r == Append(s, e)
  <1>1. n \in Nat /\ DOMAIN s = 1 .. n /\ r \in Seq(S) /\ Len(r) = n + 1
    BY AppendProperties, LenProperties
  <1>2. DOMAIN r = 1 .. (n + 1)
    BY <1>1, LenProperties
  <1>3. r[n + 1] = e /\ \A i \in 1 .. n : r[i] = s[i]
    BY AppendProperties
  <1> HIDE DEF n, r
  <1>4. \A k \in DOMAIN r : k = n + 1 \/ k \in 1 .. n
    BY <1>1, <1>2
  <1>5. \A k \in DOMAIN r : r[k] = e \/ (k \in DOMAIN s /\ r[k] = s[k])
    BY <1>1, <1>3, <1>4
  <1> QED
    BY <1>5 DEF r

\* The first element of a sequence, and the others.
LEMMA TailElements ==
    ASSUME NEW S, NEW s \in Seq(S), s # <<>>
    PROVE  /\ 1 \in DOMAIN s /\ Head(s) = s[1]
           /\ \A k \in DOMAIN Tail(s) : \E j \in DOMAIN s : Tail(s)[k] = s[j]
  <1> DEFINE n == Len(s)
             r == Tail(s)
  <1>1. /\ n \in Nat \ {0} /\ DOMAIN s = 1 .. n /\ Head(s) = s[1] /\ DOMAIN r = 1 .. (n - 1)
    OBVIOUS
  <1>2. \A i \in 1 .. (n - 1) : r[i] = s[i + 1]
    OBVIOUS
  <1> HIDE DEF n, r
  <1>3. \A k \in DOMAIN r : k + 1 \in DOMAIN s /\ r[k] = s[k + 1]
    BY <1>1, <1>2
  <1>4. 1 \in DOMAIN s
    BY <1>1
  <1> QED
    BY <1>1, <1>3, <1>4 DEF r

\* Only the applications and the reader touch the operations.
LEMMA OpsFrames ==
    ASSUME [Next]_vars
    PROVE  \/ UNCHANGED <<ops, terminated>>
           \/ \E c \in Clients : \/ \E m \in masterMap(c) :
                                      \/ \E type \in ReqTypes, b \in Buffers : issue(m, type, b)
                                      \/ terminate(m)
                                 \/ receiveResponse(c)
  <1>1. ASSUME NEW c \in Clients, Application(c)
        PROVE  \/ UNCHANGED <<ops, terminated>>
               \/ \E m \in masterMap(c) : \/ \E type \in ReqTypes, b \in Buffers : issue(m, type, b)
                                          \/ terminate(m)
    <2>1. waitForCompletion(c) \/ disconnect(c) \/ crash(c) => UNCHANGED <<ops, terminated>>
      BY DEF waitForCompletion, disconnect, crash, Die, appVars
    <2> QED
      BY <1>1, <2>1 DEF Application, read, write, ReqTypes
  <1>2. ASSUME NEW c \in Clients, Writer(c)
        PROVE  UNCHANGED <<ops, terminated>>
    <2>1. UNCHANGED appVars
      BY <1>2 DEF Writer, writerTake, writerWait, writerStop, writerRegister, writerSend,
                  writerLogout, writerFail, writerKilled, Die
    <2> QED
      BY <2>1 DEF appVars
  <1>3. ASSUME NEW c \in Clients, Reader(c), ~receiveResponse(c)
        PROVE  UNCHANGED <<ops, terminated>>
    BY <1>3 DEF Reader, receiveDone, receiveUnknownResponse, receiveRequest,
                receiveUnknownRequest, receiveFail, receiveSpin, readerNotify, appVars
  <1>4. ASSUME NEW c \in Clients, RouterReader(c) \/ RouterWriter(c) \/ spuriousWakeup(c)
        PROVE  UNCHANGED <<ops, terminated>>
    BY <1>4 DEF RouterReader, RouterWriter, clientRead, clientReadFatal, clientWrite,
                clientWriteFatal, spuriousWakeup, appVars
  <1>5. Route \/ routerExit \/ UNCHANGED vars => UNCHANGED <<ops, terminated>>
    BY DEF Route, routeLastTerminate, routeTerminate, routeResponse, routeRequest, routeSend,
           sendDone, routerExit, vars, appVars
  <1> QED
    BY <1>1, <1>2, <1>3, <1>4, <1>5 DEF Next

\* A terminated master has no operation outstanding, and stays terminated.
LEMMA OpsHonest ==
    ASSUME Shape, OwnOps, Answered, ~EarlyTerminate, [Next]_vars
    PROVE  OwnOps' /\ Answered' /\ terminated \subseteq terminated'
  <1> DEFINE Pending(o, m) == \E k \in DOMAIN o[Ips[m].owner] : /\ o[Ips[m].owner][k].master = m
                                                             /\ o[Ips[m].owner][k].status = "pending"
  <1>1. \A m : Outstanding(m) <=> Pending(ops, m)
    BY DEF Outstanding
  <1>2. (\A m \in terminated' : ~Pending(ops', m)) => Answered'
    BY DEF Answered, Outstanding
  <1>3. \A m \in terminated : m \in Masters /\ ~Pending(ops, m) /\ Ips[m].owner \in Clients
    BY <1>1, Owners DEF Answered, Shape, OpsInv
  <1>4. CASE UNCHANGED <<ops, terminated>>
    BY <1>2, <1>3, <1>4 DEF OwnOps
  <1>5. ASSUME NEW c \in Clients, NEW m \in masterMap(c), NEW type \in ReqTypes,
               NEW b \in Buffers, issue(m, type, b)
        PROVE  OwnOps' /\ Answered' /\ terminated \subseteq terminated'
    <2>1. Ips[m].owner = c /\ m \in Masters /\ m \notin terminated
      BY <1>5, Owners DEF issue
    <2>2. PICK op : op.master = m /\ ops' = [ops EXCEPT ![c] = Append(@, op)]
      BY <1>5, <2>1 DEF issue
    <2>3. terminated' = terminated /\ ops' \in [Clients -> Seq(Op)] /\ ops \in [Clients -> Seq(Op)]
      <3>1. Application(c)
        BY <1>5 DEF Application, read, write, ReqTypes
      <3>2. OpsInv'
        BY <3>1, ApplicationShape DEF Shape
      <3> QED
        BY <1>5, <3>2 DEF issue, OpsInv, Shape
    <2>4. ops'[c] = Append(ops[c], op) /\ \A d \in Clients \ {c} : ops'[d] = ops[d]
      BY <2>2, <2>3
    <2>5. \A k \in DOMAIN ops'[c] : ops'[c][k] = op \/ (k \in DOMAIN ops[c] /\ ops'[c][k] = ops[c][k])
      <3>1. PICK S : S = Op \cup {op}
        OBVIOUS
      <3>2. ops[c] \in Seq(S)
        <4>1. ops[c] \in Seq(Op) /\ Op \subseteq S
          BY <2>3, <3>1
        <4> QED
          BY <4>1, SeqMonotonic
      <3>3. op \in S
        BY <3>1
      <3> QED
        BY <2>4, <3>2, <3>3, AppendElements
    <2>6. OwnOps'
      BY <2>2, <2>4, <2>5 DEF OwnOps
    <2>7. \A i \in terminated' : ~Pending(ops', i)
      <3> SUFFICES ASSUME NEW i \in terminated, Pending(ops', i) PROVE FALSE
        BY <2>3
      <3>1. PICK k \in DOMAIN ops'[Ips[i].owner] : /\ ops'[Ips[i].owner][k].master = i
                                                  /\ ops'[Ips[i].owner][k].status = "pending"
        OBVIOUS
      <3>2. CASE Ips[i].owner = c
        BY <1>3, <2>1, <2>2, <2>5, <3>1, <3>2
      <3>3. CASE Ips[i].owner # c
        BY <1>3, <2>4, <3>1, <3>3
      <3> QED
        BY <3>2, <3>3
    <2> QED
      BY <1>2, <2>3, <2>6, <2>7
  <1>6. ASSUME NEW c \in Clients, NEW m \in masterMap(c), terminate(m)
        PROVE  OwnOps' /\ Answered' /\ terminated \subseteq terminated'
    <2>1. terminated' = terminated \cup {m} /\ ops' = ops /\ ~Outstanding(m)
      BY <1>6 DEF terminate
    <2> QED
      BY <1>1, <1>2, <1>3, <2>1 DEF OwnOps
  <1>7. ASSUME NEW c \in Clients, receiveResponse(c)
        PROVE  OwnOps' /\ Answered' /\ terminated \subseteq terminated'
    <2>1. terminated' = terminated
      BY <1>7 DEF receiveResponse
    <2>2. /\ \A d \in Clients \ {c} : ops'[d] = ops[d]
          /\ DOMAIN ops'[c] = DOMAIN ops[c]
          /\ \A i \in DOMAIN ops[c] :
               /\ ops'[c][i].master = ops[c][i].master
               /\ ops'[c][i].status = "pending" => ops[c][i].status = "pending"
      BY <1>7, AnswerStep
    <2>3. OwnOps'
      BY <2>2 DEF OwnOps
    <2>4. \A i \in terminated : ~Pending(ops', i)
      BY <1>3, <2>2
    <2> QED
      BY <1>2, <2>1, <2>3, <2>4
  <1> QED
    BY <1>4, <1>5, <1>6, <1>7, OpsFrames

\* What a step does not touch stays ended.
LEMMA EndedFrames ==
    ASSUME TerminationsInv, terminated \subseteq terminated', NEW c \in Clients
    PROVE  /\ q'[c].items = q[c].items => EndedQueue(c)'
           /\ toRouter'[c] = toRouter[c] => EndedSocket(c)'
           /\ bridge'[c].txn = bridge[c].txn => EndedWriter(c)'
           /\ rr'[c].msg = rr[c].msg => EndedReader(c)'
           /\ bridge'[c].txn = NoEntry => EndedWriter(c)'
           /\ rr'[c].msg = NoMsg => EndedReader(c)'
  <1>1. EndedQueue(c) /\ EndedSocket(c) /\ EndedWriter(c) /\ EndedReader(c)
    BY DEF TerminationsInv
  <1>2. q'[c].items = q[c].items => EndedQueue(c)'
    BY <1>1 DEF EndedQueue, Ended
  <1>3. toRouter'[c] = toRouter[c] => EndedSocket(c)'
    BY <1>1 DEF EndedSocket, Ended
  <1>4. /\ bridge'[c].txn = bridge[c].txn => EndedWriter(c)'
        /\ bridge'[c].txn = NoEntry => EndedWriter(c)'
    BY <1>1, EntryFacts, MessageFacts DEF EndedWriter, Ended
  <1>5. /\ rr'[c].msg = rr[c].msg => EndedReader(c)'
        /\ rr'[c].msg = NoMsg => EndedReader(c)'
    BY <1>1, MessageFacts DEF EndedReader, Ended
  <1> QED
    BY <1>2, <1>3, <1>4, <1>5

\* An element pushed to a queue.
LEMMA EndedPush ==
    ASSUME Shape, TerminationsInv, terminated \subseteq terminated', NEW c \in Clients,
           NEW e \in GoodEntry, Push(c, e), e.msg.type = "TERMINATE" => e.msg.ip \in terminated'
    PROVE  \A d \in Clients : EndedQueue(d)'
  <1>1. /\ q'[c].items = Append(q[c].items, e) /\ q[c].items \in Seq(GoodEntry)
        /\ \A d \in Clients \ {c} : q'[d] = q[d]
    BY PushStep DEF Shape, QueuesInv, IsQueue
  <1>2. \A k \in DOMAIN q'[c].items :
          q'[c].items[k] = e \/ (k \in DOMAIN q[c].items /\ q'[c].items[k] = q[c].items[k])
    BY <1>1, AppendElements
  <1>3. \A k \in DOMAIN q[c].items :
          q[c].items[k].msg.type = "TERMINATE" => q[c].items[k].msg.ip \in terminated
    BY DEF TerminationsInv, EndedQueue, Ended
  <1>4. EndedQueue(c)'
    BY <1>2, <1>3 DEF EndedQueue, Ended
  <1> QED
    BY <1>1, <1>4, EndedFrames

\* A message written to a socket.
LEMMA EndedAppend ==
    ASSUME Shape, TerminationsInv, terminated \subseteq terminated', NEW c \in Clients,
           NEW msg \in GoodMsg, toRouter'[c] = Append(toRouter[c], msg),
           msg.type = "TERMINATE" => msg.ip \in terminated
    PROVE  EndedSocket(c)'
  <1>1. toRouter[c] \in Seq(GoodMsg)
    BY DEF Shape, SocketsInv
  <1>2. \A k \in DOMAIN toRouter'[c] :
          toRouter'[c][k] = msg \/ (k \in DOMAIN toRouter[c] /\ toRouter'[c][k] = toRouter[c][k])
    BY <1>1, AppendElements
  <1>3. \A k \in DOMAIN toRouter[c] :
          toRouter[c][k].type = "TERMINATE" => toRouter[c][k].ip \in terminated
    BY DEF TerminationsInv, EndedSocket, Ended
  <1> QED
    BY <1>2, <1>3 DEF EndedSocket, Ended

\* What a reader does to its bridge.
LEMMA ReaderBridge ==
    ASSUME Shape, NEW c \in Clients, Reader(c)
    PROVE  /\ \A d \in Clients : d # c => bridge'[d] = bridge[d]
           /\ \A d \in Clients : bridge'[d].txn = bridge[d].txn /\ bridge'[d].app = bridge[d].app
           /\ \/ receiveDone(c)
              \/ bridge'[c].reader = bridge[c].reader /\ bridge'[c].readerStatus = bridge[c].readerStatus
              \/ bridge'[c].readerStatus = "error"
              \/ /\ bridge[c].reader = "notify" /\ bridge'[c].reader = "exited"
                 /\ bridge'[c].readerStatus = bridge[c].readerStatus
              \/ /\ bridge[c].reader = "receive" /\ bridge'[c].reader = "spinning"
                 /\ bridge'[c].readerStatus = bridge[c].readerStatus
           /\ bridge'[c].reader = bridge[c].reader \/ bridge[c].reader \in {"receive", "notify"}
  <1>1. /\ DOMAIN bridge = Clients
        /\ DOMAIN bridge[c] = {"state", "reader", "readerStatus", "writer", "writerStatus", "txn", "app"}
    BY DEF Shape, BridgesInv, IsBridge
  <1>2. CASE receiveDone(c) \/ receiveUnknownResponse(c) \/ receiveUnknownRequest(c)
    <2>1. PICK status : StopReader(c, status) /\ (receiveDone(c) \/ status = "error")
      BY <1>2 DEF receiveDone, receiveUnknownResponse, receiveUnknownRequest
    <2>2. bridge[c].reader = "receive"
      BY <1>2 DEF receiveDone, receiveUnknownResponse, receiveUnknownRequest, Receiving
    <2> QED
      BY <1>1, <2>1, <2>2 DEF StopReader
  <1>3. CASE receiveResponse(c) \/ receiveRequest(c)
    <2>1. bridge' = bridge
      BY <1>3 DEF receiveResponse, receiveRequest
    <2> QED
      BY <2>1
  <1>4. CASE receiveFail(c)
    BY <1>1, <1>4 DEF receiveFail
  <1>5. CASE readerNotify(c)
    BY <1>1, <1>5 DEF readerNotify
  <1>6. CASE receiveSpin(c)
    BY <1>1, <1>6 DEF receiveSpin, AtEof
  <1> QED
    BY <1>2, <1>3, <1>4, <1>5, <1>6 DEF Reader

\* The termination of a master is on its way only when it has been called.
LEMMA TerminationsStep ==
    ASSUME Shape, TerminationsInv, terminated \subseteq terminated', [Next]_vars
    PROVE  TerminationsInv'
  <1>1. ASSUME NEW c \in Clients, Application(c)
        PROVE  TerminationsInv'
    <2>1. ASSUME NEW m \in masterMap(c), NEW type \in ReqTypes, NEW b \in Buffers, issue(m, type, b)
          PROVE  TerminationsInv'
      <3>1. Ips[m].owner = c /\ m \in Masters
        BY Owners
      <3>2. PICK n \in Nat : n = Len(ops[c]) + 1
        BY LenProperties DEF Shape, OpsInv
      <3>3. n \in 1 .. MaxOps
        BY <2>1, <3>1, <3>2, BoundsAssumption DEF issue
      <3>4. PICK e \in GoodEntry : Push(c, e) /\ e.msg.type = "TRANSACTION"
        <4>1. Entry("TRANSACTION", TxnMsg(RequestTxn(m, type, b, n)), n) \in GoodEntry
          BY <3>1, <3>3, RequestIsGood
        <4>2. Push(c, Entry("TRANSACTION", TxnMsg(RequestTxn(m, type, b, n)), n))
          BY <2>1, <3>1, <3>2 DEF issue
        <4> QED
          BY <4>1, <4>2, EntryFacts, MessageFacts
      <3>5. UNCHANGED <<bridge, toRouter, rr>>
        BY <2>1 DEF issue, routerVars
      <3>6. \A d \in Clients : EndedQueue(d)'
        BY <3>4, EndedPush
      <3> QED
        BY <3>5, <3>6, EndedFrames DEF TerminationsInv
    <2>2. ASSUME NEW m \in masterMap(c), terminate(m)
          PROVE  TerminationsInv'
      <3>1. Ips[m].owner = c /\ m \in Masters
        BY Owners
      <3>2. PICK e \in GoodEntry : Push(c, e) /\ e.msg = TerminateMsg(m)
        <4>1. ~IsRequest(TerminateMsg(m)) /\ 0 \in 0 .. MaxOps
          BY MessageFacts, BoundsAssumption DEF IsRequest
        <4>2. Entry("TERMINATION", TerminateMsg(m), 0) \in GoodEntry
          BY <3>1, <4>1, EntryFacts, GoodMsgFacts
        <4>3. Push(c, Entry("TERMINATION", TerminateMsg(m), 0))
          BY <2>2, <3>1 DEF terminate
        <4> QED
          BY <4>2, <4>3, EntryFacts
      <3>3. e.msg.ip = m /\ m \in terminated'
        BY <2>2, <3>2, MessageFacts DEF terminate
      <3>4. UNCHANGED <<bridge, toRouter, rr>>
        BY <2>2 DEF terminate, routerVars
      <3>5. \A d \in Clients : EndedQueue(d)'
        BY <3>2, <3>3, EndedPush
      <3> QED
        BY <3>4, <3>5, EndedFrames DEF TerminationsInv
    <2>3. CASE waitForCompletion(c) \/ disconnect(c) \/ crash(c)
      <3>1. \A d \in Clients : bridge'[d].txn = bridge[d].txn \/ bridge'[d].txn = NoEntry
        BY <2>3 DEF waitForCompletion, disconnect, crash, Die, Shape, BridgesInv, IsBridge
      <3>2. UNCHANGED <<q, toRouter, rr>>
        BY <2>3 DEF waitForCompletion, disconnect, crash, Die, routerVars
      <3> QED
        BY <3>1, <3>2, EndedFrames DEF TerminationsInv
    <2> QED
      BY <1>1, <2>1, <2>2, <2>3 DEF Application, read, write, ReqTypes
  <1>2. ASSUME NEW c \in Clients, Writer(c)
        PROVE  TerminationsInv'
    <2>1. CASE writerTake(c)
      <3>1. PICK s \in Seq(GoodEntry) : s # <<>> /\ s = q[c].items
        BY <2>1 DEF writerTake, CanTake, Shape, QueuesInv, IsQueue
      <3>2. q'[c].items = Tail(s) /\ \A d \in Clients \ {c} : q'[d] = q[d]
        BY <2>1, <3>1, TakeStep DEF writerTake, Shape
      <3>3. /\ bridge'[c].txn = Head(s) /\ \A d \in Clients \ {c} : bridge'[d] = bridge[d]
            /\ UNCHANGED <<toRouter, rr>>
        BY <2>1, <3>1 DEF writerTake, Shape, BridgesInv, IsBridge, routerVars
      <3>4. /\ 1 \in DOMAIN s /\ Head(s) = s[1]
            /\ \A k \in DOMAIN Tail(s) : \E j \in DOMAIN s : Tail(s)[k] = s[j]
        BY <3>1, TailElements
      <3>5. \A j \in DOMAIN s : s[j].msg.type = "TERMINATE" => s[j].msg.ip \in terminated
        BY <3>1 DEF TerminationsInv, EndedQueue, Ended
      <3>6. EndedQueue(c)'
        BY <3>2, <3>4, <3>5 DEF EndedQueue, Ended
      <3>7. EndedWriter(c)'
        BY <3>3, <3>4, <3>5 DEF EndedWriter, Ended
      <3> QED
        BY <3>2, <3>3, <3>6, <3>7, EndedFrames DEF TerminationsInv
    <2>2. CASE writerWait(c)
      <3>1. \A d \in Clients : q'[d].items = q[d].items
        BY <2>2, SameItemsStep DEF writerWait, Shape
      <3>2. UNCHANGED <<bridge, toRouter, rr>>
        BY <2>2 DEF writerWait, routerVars
      <3> QED
        BY <3>1, <3>2, EndedFrames DEF TerminationsInv
    <2>3. CASE writerStop(c)
      <3>1. \A d \in Clients : q'[d].items = q[d].items
        BY <2>3, SameItemsStep DEF writerStop, Shape
      <3>2. /\ \A d \in Clients : bridge'[d].txn = bridge[d].txn
            /\ UNCHANGED <<toRouter, rr>>
        BY <2>3 DEF writerStop, routerVars, Shape, BridgesInv, IsBridge
      <3> QED
        BY <3>1, <3>2, EndedFrames DEF TerminationsInv
    <2>4. CASE writerRegister(c)
      <3>1. PICK e \in GoodEntry : e = bridge[c].txn /\ IsRequest(e.msg)
        BY <2>4 DEF writerRegister, Shape, BridgesInv, IsBridge
      <3>2. PICK i \in Nat : i = lastTxnId[e.msg.txn.initiator]
        <4>1. e.msg.txn.initiator \in Masters
          BY <3>1, NumberedIsGood, TxnFields
        <4> QED
          BY <4>1 DEF Shape, TablesInv
      <3>3. /\ bridge'[c].txn = [e EXCEPT !.msg.txn.id = i]
            /\ \A d \in Clients \ {c} : bridge'[d] = bridge[d]
            /\ UNCHANGED <<q, toRouter, rr>>
        BY <2>4, <3>1, <3>2 DEF writerRegister, Shape, BridgesInv, IsBridge, routerVars
      <3>4. bridge'[c].txn.msg.type = "TRANSACTION"
        <4>1. bridge'[c].txn.msg = TxnMsg([e.msg.txn EXCEPT !.id = i])
          BY <3>1, <3>3, NumberedIsGood
        <4> QED
          BY <4>1, MessageFacts
      <3>5. EndedWriter(c)'
        BY <3>4 DEF EndedWriter, Ended
      <3> QED
        BY <3>3, <3>5, EndedFrames DEF TerminationsInv
    <2>5. CASE writerSend(c) \/ writerLogout(c)
      <3>1. PICK msg \in GoodMsg : /\ toRouter'[c] = Append(toRouter[c], msg)
                                   /\ msg.type = "TERMINATE" => msg.ip \in terminated
        <4>1. CASE writerSend(c)
          <5>1. bridge[c].txn.msg \in GoodMsg
            BY <4>1, EntryFacts DEF writerSend, Shape, BridgesInv, IsBridge
          <5>2. bridge[c].txn.msg.type = "TERMINATE" => bridge[c].txn.msg.ip \in terminated
            BY DEF TerminationsInv, EndedWriter, Ended
          <5>3. toRouter'[c] = Append(toRouter[c], bridge[c].txn.msg)
            BY <4>1 DEF writerSend, Shape, SocketsInv
          <5> QED
            BY <5>1, <5>2, <5>3
        <4>2. CASE writerLogout(c)
          <5>1. toRouter'[c] = Append(toRouter[c], DoneMsg)
            BY <4>2 DEF writerLogout, Shape, SocketsInv
          <5> QED
            BY <5>1, GoodMsgFacts, MessageFacts
        <4> QED
          BY <2>5, <4>1, <4>2
      <3>2. EndedSocket(c)'
        BY <3>1, EndedAppend
      <3>3. \A d \in Clients \ {c} : toRouter'[d] = toRouter[d]
        BY <2>5 DEF writerSend, writerLogout, Shape, SocketsInv
      <3>4. \A d \in Clients : bridge'[d].txn = bridge[d].txn \/ bridge'[d].txn = NoEntry
        BY <2>5 DEF writerSend, writerLogout, Shape, BridgesInv, IsBridge
      <3>5. UNCHANGED <<q, rr>>
        BY <2>5 DEF writerSend, writerLogout, routerVars
      <3> QED
        BY <3>2, <3>3, <3>4, <3>5, EndedFrames DEF TerminationsInv
    <2>6. CASE writerFail(c) \/ writerKilled(c)
      <3>1. \A d \in Clients : bridge'[d].txn = bridge[d].txn \/ bridge'[d].txn = NoEntry
        BY <2>6 DEF writerFail, writerKilled, Die, Shape, BridgesInv, IsBridge
      <3>2. UNCHANGED <<q, toRouter, rr>>
        BY <2>6 DEF writerFail, writerKilled, Die, routerVars
      <3> QED
        BY <3>1, <3>2, EndedFrames DEF TerminationsInv
    <2> QED
      BY <1>2, <2>1, <2>2, <2>3, <2>4, <2>5, <2>6 DEF Writer
  <1>3. ASSUME NEW c \in Clients, Reader(c)
        PROVE  TerminationsInv'
    <2>1. UNCHANGED <<toRouter, rr>>
      BY <1>3 DEF Reader, receiveDone, receiveResponse, receiveUnknownResponse, receiveRequest,
                  receiveUnknownRequest, receiveFail, receiveSpin, readerNotify, routerVars
    <2>2. \A d \in Clients : bridge'[d].txn = bridge[d].txn
      BY <1>3, ReaderBridge
    <2>3. CASE receiveRequest(c)
      <3>1. toClient[c] # <<>> /\ Consume(c)
        BY <2>3 DEF receiveRequest, Receiving
      <3>2. PICK t \in Transaction : t = Head(toClient[c]).txn /\ t.type \in ReqTypes /\ t.target = 0
        BY <2>3, <3>1, ReceivedIsGood, GoodMsgFacts DEF receiveRequest, IsRequest
      <3>3. PICK cells \in [Addr -> 0 .. MaxOps] :
              Push(c, Entry("TRANSACTION", TxnMsg(ResponseTxn(cells, t)), 0))
        <4>1. t.target + 1 \in Slaves
          BY <2>3, <3>2, Owners DEF receiveRequest
        <4>2. mem[t.target + 1] \in [Addr -> 0 .. MaxOps]
          BY <4>1 DEF Shape, TablesInv
        <4> QED
          BY <2>3, <3>2, <4>2 DEF receiveRequest
      <3>4. TxnMsg(ResponseTxn(cells, t)) \in GoodMsg /\ IsResponse(TxnMsg(ResponseTxn(cells, t)))
        BY <3>2, ResponseIsGood
      <3>5. ~IsRequest(TxnMsg(ResponseTxn(cells, t))) /\ 0 \in 0 .. MaxOps
        BY <3>4, BoundsAssumption DEF IsRequest, IsResponse, ReqTypes, RespTypes
      <3>6. PICK e \in GoodEntry : Push(c, e) /\ e.msg.type = "TRANSACTION"
        <4>1. Entry("TRANSACTION", TxnMsg(ResponseTxn(cells, t)), 0) \in GoodEntry
          BY <3>4, <3>5, EntryFacts
        <4>2. Entry("TRANSACTION", TxnMsg(ResponseTxn(cells, t)), 0).msg.type = "TRANSACTION"
          BY EntryFacts, MessageFacts
        <4> QED
          BY <3>3, <4>1, <4>2
      <3>7. \A d \in Clients : EndedQueue(d)'
        BY <3>6, EndedPush
      <3> QED
        BY <2>1, <2>2, <3>7, EndedFrames DEF TerminationsInv
    <2>4. CASE ~receiveRequest(c)
      <3>1. q' = q \/ q' = [q EXCEPT ![c] = SetDone(@)] \/ q' = [q EXCEPT ![c] = NotifyOne(@)]
        BY <1>3, <2>4 DEF Reader, receiveDone, receiveResponse, receiveUnknownResponse,
                          receiveUnknownRequest, receiveFail, receiveSpin, readerNotify, StopReader
      <3>2. \A d \in Clients : q'[d].items = q[d].items
        BY <3>1, SameItemsStep DEF Shape
      <3> QED
        BY <2>1, <2>2, <3>2, EndedFrames DEF TerminationsInv
    <2> QED
      BY <2>3, <2>4
  <1>4. ASSUME NEW c \in Clients, RouterReader(c) \/ RouterWriter(c)
        PROVE  TerminationsInv'
    <2>1. CASE clientRead(c)
      <3>1. PICK s \in Seq(GoodMsg) : s # <<>> /\ s = toRouter[c]
        BY <2>1 DEF clientRead, Shape, SocketsInv
      <3>2. /\ toRouter'[c] = Tail(s) /\ rr'[c].msg \in {Head(s), NoMsg}
            /\ \A d \in Clients \ {c} : toRouter'[d] = toRouter[d] /\ rr'[d] = rr[d]
            /\ UNCHANGED <<q, bridge>>
        <4>1. toRouter \in [Clients -> Seq(GoodMsg)] /\ DOMAIN rr = Clients
          BY DEF Shape, SocketsInv, RouterInv
        <4>2. /\ toRouter' = [toRouter EXCEPT ![c] = Tail(@)]
              /\ \/ rr' = [rr EXCEPT ![c] = [pc |-> "exited", msg |-> NoMsg]]
                 \/ rr' = [rr EXCEPT ![c] = [pc |-> "push", msg |-> Head(s)]]
          BY <2>1, <3>1 DEF clientRead
        <4>3. UNCHANGED <<q, bridge>>
          BY <2>1 DEF clientRead, bridgeVars
        <4> QED
          BY <3>1, <4>1, <4>2, <4>3
      <3>3. /\ 1 \in DOMAIN s /\ Head(s) = s[1]
            /\ \A k \in DOMAIN Tail(s) : \E j \in DOMAIN s : Tail(s)[k] = s[j]
        BY <3>1, TailElements
      <3>4. \A j \in DOMAIN s : s[j].type = "TERMINATE" => s[j].ip \in terminated
        BY <3>1 DEF TerminationsInv, EndedSocket, Ended
      <3>5. EndedSocket(c)'
        BY <3>2, <3>3, <3>4 DEF EndedSocket, Ended
      <3>6. EndedReader(c)'
        BY <3>2, <3>3, <3>4, MessageFacts DEF EndedReader, Ended
      <3> QED
        BY <3>2, <3>5, <3>6, EndedFrames DEF TerminationsInv
    <2>2. CASE clientReadFatal(c) \/ clientWrite(c) \/ clientWriteFatal(c)
      <3>1. UNCHANGED <<q, bridge, toRouter, rr>>
        BY <2>2 DEF clientReadFatal, clientWrite, clientWriteFatal, Fatal, bridgeVars
      <3> QED
        BY <3>1, EndedFrames DEF TerminationsInv
    <2> QED
      BY <1>4, <2>1, <2>2 DEF RouterReader, RouterWriter
  <1>5. CASE Route
    <2>1. UNCHANGED <<q, bridge, toRouter>>
      BY <1>5 DEF Route, routeLastTerminate, routeTerminate, routeResponse, routeRequest,
                  routeSend, sendDone, bridgeVars
    <2>2. rr' = rr \/ \E c \in Clients : TakeIncoming(c)
      BY <1>5 DEF Route, routeLastTerminate, routeTerminate, routeResponse, routeRequest,
                  routeSend, sendDone
    <2>3. \A d \in Clients : rr'[d].msg = rr[d].msg \/ rr'[d].msg = NoMsg
      <3>1. DOMAIN rr = Clients
        BY DEF Shape, RouterInv
      <3> QED
        BY <2>2, <3>1 DEF TakeIncoming
    <2> QED
      BY <2>1, <2>3, EndedFrames DEF TerminationsInv
  <1>6. ASSUME NEW c \in Clients, spuriousWakeup(c)
        PROVE  TerminationsInv'
    <2>1. \A d \in Clients : q'[d].items = q[d].items
      BY <1>6, SameItemsStep DEF spuriousWakeup, Shape
    <2>2. UNCHANGED <<bridge, toRouter, rr>>
      BY <1>6 DEF spuriousWakeup, routerVars
    <2> QED
      BY <2>1, <2>2, EndedFrames DEF TerminationsInv
  <1>7. CASE routerExit \/ UNCHANGED vars
    <2>1. UNCHANGED <<q, bridge, toRouter, rr>>
      BY <1>7 DEF routerExit, vars, bridgeVars, routerVars
    <2> QED
      BY <2>1, EndedFrames DEF TerminationsInv
  <1> QED
    BY <1>1, <1>2, <1>3, <1>4, <1>5, <1>6, <1>7 DEF Next

\* What an application and a writer do to their bridge.
LEMMA ClientBridge ==
    ASSUME Shape, NEW c \in Clients, Application(c) \/ Writer(c), NEW d \in Clients
    PROVE  \/ bridge'[d].app = "killed"
           \/ /\ bridge'[d].reader = bridge[d].reader
              /\ bridge'[d].readerStatus = bridge[d].readerStatus
              /\ bridge[d].app = "killed" => bridge'[d].app = "killed"
              /\ \/ bridge'[d].app = bridge[d].app
                 \/ bridge'[d].app = "completed" /\ bridge'[d].reader = "exited"
                 \/ bridge'[d].app = "disconnected"
  <1>1. /\ DOMAIN bridge = Clients
        /\ DOMAIN bridge[c] = {"state", "reader", "readerStatus", "writer", "writerStatus", "txn", "app"}
    BY DEF Shape, BridgesInv, IsBridge
  <1>2. ASSUME Die(c)
        PROVE  bridge'[d] = bridge[d] \/ bridge'[d].app = "killed"
    BY <1>1, <1>2 DEF Die
  <1>3. CASE Application(c)
    <2>1. ASSUME NEW m \in masterMap(c), NEW b \in Buffers, read(m, b) \/ write(m, b)
          PROVE  bridge' = bridge
      BY <2>1 DEF read, write, issue
    <2>2. ASSUME NEW m \in masterMap(c), terminate(m)
          PROVE  bridge' = bridge
      BY <2>2 DEF terminate
    <2>3. CASE waitForCompletion(c)
      BY <1>1, <2>3 DEF waitForCompletion
    <2>4. CASE disconnect(c)
      BY <1>1, <2>4 DEF disconnect
    <2>5. CASE crash(c)
      BY <1>2, <2>5 DEF crash
    <2> QED
      BY <1>3, <2>1, <2>2, <2>3, <2>4, <2>5 DEF Application
  <1>4. CASE Writer(c)
    <2> DEFINE Kept == /\ bridge'[d].reader = bridge[d].reader /\ bridge'[d].app = bridge[d].app
                       /\ bridge'[d].readerStatus = bridge[d].readerStatus
    <2>1. CASE writerTake(c)
      <3>1. Kept
        BY <1>1, <2>1 DEF writerTake
      <3> QED
        BY <3>1
    <2>2. CASE writerWait(c)
      BY <2>2 DEF writerWait
    <2>3. CASE writerStop(c)
      BY <1>1, <2>3 DEF writerStop
    <2>4. CASE writerRegister(c)
      <3>1. Kept
        BY <1>1, <2>4 DEF writerRegister
      <3> QED
        BY <3>1
    <2>5. CASE writerSend(c)
      BY <1>1, <2>5 DEF writerSend
    <2>6. CASE writerLogout(c)
      BY <1>1, <2>6 DEF writerLogout
    <2>7. CASE writerFail(c)
      BY <1>1, <2>7 DEF writerFail
    <2>8. CASE writerKilled(c)
      BY <1>2, <2>8 DEF writerKilled
    <2> QED
      BY <1>4, <2>1, <2>2, <2>3, <2>4, <2>5, <2>6, <2>7, <2>8 DEF Writer
  <1> QED
    BY <1>3, <1>4

\* What a step leaves alone of the way of DONE.
LEMMA DoneFrames ==
    ASSUME DoneInv, terminated \subseteq terminated',
           Masters \subseteq terminated \/ (rt.pc \in {"receive", "send"} /\ rt.msg.type # "DONE"
                                            => rt'.pc \in {"receive", "send"} /\ rt'.msg.type # "DONE"),
           \A c \in Clients : Masters \subseteq terminated \/ (NoDone(c) => NoDone(c)')
    PROVE  DoneInv'
  <1>1. CASE Masters \subseteq terminated
    BY <1>1 DEF DoneInv
  <1>2. CASE ~(Masters \subseteq terminated)
    <2>1. NoDoneAtRoute /\ \A c \in Clients : NoDone(c)
      BY <1>2 DEF DoneInv
    <2>2. NoDoneAtRoute'
      BY <1>2, <2>1 DEF NoDoneAtRoute
    <2>3. \A c \in Clients : NoDone(c)'
      BY <1>2, <2>1
    <2> QED
      BY <2>2, <2>3 DEF DoneInv
  <1> QED
    BY <1>1, <1>2

\* The end of one client's reader, with what is on its way to it unchanged.
LEMMA NoDoneFrames ==
    ASSUME NEW c \in Clients, NoDone(c), rw'[c].msg = rw[c].msg,
           \A k \in DOMAIN toClient'[c] : \E j \in DOMAIN toClient[c] : toClient'[c][k] = toClient[c][j],
           \/ bridge'[c].reader \in {"receive", "spinning"} \/ bridge'[c].readerStatus = "error"
           \/ bridge'[c].app = "killed"
           \/ /\ bridge'[c].reader = bridge[c].reader
              /\ bridge'[c].readerStatus = bridge[c].readerStatus /\ bridge'[c].app = bridge[c].app
    PROVE  NoDone(c)'
  BY DEF NoDone

\* The router says DONE to the clients only after the termination of the last
\* master, and a reader ends without an error only after DONE.
LEMMA DoneStep ==
    ASSUME Shape, TerminationsInv, DoneInv, terminated \subseteq terminated', [Next]_vars
    PROVE  DoneInv'
  <1>1. ASSUME NEW c \in Clients, Application(c) \/ Writer(c)
        PROVE  DoneInv'
    <2>1. UNCHANGED <<toClient, rw, rt>>
      <3>1. Application(c) => toClient' = toClient /\ UNCHANGED routerVars
        <4>1. \A m, type, b : issue(m, type, b) => toClient' = toClient /\ UNCHANGED routerVars
          BY Zenon DEF issue
        <4>2. \A m : terminate(m) => toClient' = toClient /\ UNCHANGED routerVars
          BY Zenon DEF terminate
        <4>3. waitForCompletion(c) \/ disconnect(c) \/ crash(c)
                => toClient' = toClient /\ UNCHANGED routerVars
          BY Zenon DEF waitForCompletion, disconnect, crash, Die
        <4> QED
          BY <4>1, <4>2, <4>3, Zenon DEF Application, read, write
      <3>2. Writer(c) => toClient' = toClient /\ UNCHANGED routerVars
        BY Zenon DEF Writer, writerTake, writerWait, writerStop, writerRegister, writerSend,
                     writerLogout, writerFail, writerKilled, Die
      <3> QED
        BY <1>1, <3>1, <3>2, Zenon DEF routerVars
    <2>2. \A d \in Clients :
            \/ bridge'[d].app = "killed"
            \/ /\ bridge'[d].reader = bridge[d].reader
               /\ bridge'[d].readerStatus = bridge[d].readerStatus
               /\ bridge[d].app = "killed" => bridge'[d].app = "killed"
      BY <1>1, ClientBridge
    <2>3. \A d \in Clients : NoDone(d) => NoDone(d)'
      BY <2>1, <2>2 DEF NoDone
    <2> QED
      BY <2>1, <2>3, DoneFrames
  <1>2. ASSUME NEW c \in Clients, Reader(c)
        PROVE  DoneInv'
    <2>1. UNCHANGED <<rw, rt>>
      BY <1>2 DEF Reader, receiveDone, receiveResponse, receiveUnknownResponse, receiveRequest,
                  receiveUnknownRequest, receiveFail, receiveSpin, readerNotify, routerVars
    <2>2. \A d \in Clients : \A k \in DOMAIN toClient'[d] :
            \E j \in DOMAIN toClient[d] : toClient'[d][k] = toClient[d][j]
      <3>1. toClient' = toClient \/ (toClient[c] # <<>> /\ Consume(c))
        BY <1>2 DEF Reader, receiveDone, receiveResponse, receiveUnknownResponse, receiveRequest,
                    receiveUnknownRequest, receiveFail, receiveSpin, readerNotify, Receiving
      <3>2. CASE toClient[c] # <<>> /\ Consume(c)
        <4>1. toClient[c] \in Seq(GoodMsg) /\ DOMAIN toClient = Clients
          BY DEF Shape, SocketsInv
        <4>2. toClient'[c] = Tail(toClient[c]) /\ \A d \in Clients \ {c} : toClient'[d] = toClient[d]
          BY <3>2, <4>1 DEF Consume
        <4>3. \A k \in DOMAIN Tail(toClient[c]) :
                \E j \in DOMAIN toClient[c] : Tail(toClient[c])[k] = toClient[c][j]
          BY <3>2, <4>1, TailElements
        <4>4. ASSUME NEW d \in Clients, NEW k \in DOMAIN toClient'[d]
              PROVE  \E j \in DOMAIN toClient[d] : toClient'[d][k] = toClient[d][j]
          <5>1. CASE d = c
            BY <4>2, <4>3, <5>1
          <5>2. CASE d # c
            BY <4>2, <5>2
          <5> QED
            BY <5>1, <5>2
        <4> QED
          BY <4>4
      <3> QED
        BY <3>1, <3>2
    <2>3. receiveDone(c) /\ NoDone(c) => FALSE
      <3> SUFFICES ASSUME receiveDone(c), NoDone(c) PROVE FALSE
        OBVIOUS
      <3>1. toClient[c] \in Seq(GoodMsg) /\ toClient[c] # <<>> /\ Head(toClient[c]).type = "DONE"
        BY DEF receiveDone, Receiving, Shape, SocketsInv
      <3>2. 1 \in DOMAIN toClient[c] /\ Head(toClient[c]) = toClient[c][1]
        BY <3>1, TailElements
      <3> QED
        BY <3>1, <3>2 DEF NoDone
    <2>4. ASSUME NEW d \in Clients, NoDone(d), NoDone(c)
          PROVE  NoDone(d)'
      <3>1. CASE d # c
        BY <1>2, <2>1, <2>2, <2>4, <3>1, ReaderBridge, NoDoneFrames
      <3>2. CASE d = c
        <4>1. /\ bridge'[c].app = bridge[c].app
              /\ \/ bridge'[c].reader = bridge[c].reader /\ bridge'[c].readerStatus = bridge[c].readerStatus
                 \/ bridge'[c].readerStatus = "error"
                 \/ /\ bridge[c].reader = "notify" /\ bridge'[c].reader = "exited"
                    /\ bridge'[c].readerStatus = bridge[c].readerStatus
                 \/ bridge'[c].reader = "spinning"
          BY <1>2, <2>3, <2>4, ReaderBridge
        <4>2. \/ bridge[c].reader \in {"receive", "spinning"} \/ bridge[c].readerStatus = "error"
              \/ bridge[c].app = "killed"
          BY <2>4 DEF NoDone
        <4>3. \/ bridge'[c].reader \in {"receive", "spinning"} \/ bridge'[c].readerStatus = "error"
              \/ bridge'[c].app = "killed"
          BY <4>1, <4>2
        <4> QED
          BY <2>1, <2>2, <2>4, <3>2, <4>3, NoDoneFrames
      <3> QED
        BY <3>1, <3>2
    <2>5. Masters \subseteq terminated \/ NoDone(c)
      BY DEF DoneInv
    <2> QED
      BY <2>1, <2>4, <2>5, DoneFrames
  <1>3. ASSUME NEW c \in Clients, RouterReader(c) \/ RouterWriter(c)
        PROVE  DoneInv'
    <2>1. bridge' = bridge /\ rt' = rt
      BY <1>3 DEF RouterReader, RouterWriter, clientRead, clientReadFatal, clientWrite,
                  clientWriteFatal, Fatal, bridgeVars
    <2>2. CASE clientWrite(c)
      <3>1. PICK msg \in GoodMsg : msg = rw[c].msg
        BY <2>2 DEF clientWrite, Shape, RouterInv
      <3>2. toClient[c] \in Seq(GoodMsg) /\ DOMAIN toClient = Clients /\ DOMAIN rw = Clients
        BY DEF Shape, SocketsInv, RouterInv
      <3>3. /\ toClient'[c] = Append(toClient[c], msg) /\ rw'[c].msg = NoMsg
            /\ \A d \in Clients \ {c} : toClient'[d] = toClient[d] /\ rw'[d] = rw[d]
        BY <2>2, <3>1, <3>2 DEF clientWrite
      <3>4. \A k \in DOMAIN toClient'[c] :
              \/ toClient'[c][k] = msg
              \/ k \in DOMAIN toClient[c] /\ toClient'[c][k] = toClient[c][k]
        BY <3>2, <3>3, AppendElements
      <3>5. \A d \in Clients : NoDone(d) => NoDone(d)'
        BY <2>1, <3>1, <3>3, <3>4, MessageFacts DEF NoDone
      <3> QED
        BY <2>1, <3>5, DoneFrames
    <2>3. CASE ~clientWrite(c)
      <3>1. UNCHANGED <<toClient, rw>>
        BY <1>3, <2>3 DEF RouterReader, RouterWriter, clientRead, clientReadFatal,
                          clientWriteFatal, Fatal
      <3>2. \A d \in Clients : NoDone(d) => NoDone(d)'
        BY <2>1, <3>1 DEF NoDone
      <3> QED
        BY <2>1, <3>2, DoneFrames
    <2> QED
      BY <2>2, <2>3
  <1>4. ASSUME NEW c \in Clients, routeLastTerminate(c)
        PROVE  DoneInv'
    <2>1. rr[c].msg \in GoodMsg /\ rr[c].msg.type = "TERMINATE" /\ masterCount = 1
      BY <1>4 DEF routeLastTerminate, Incoming, Shape, RouterInv
    <2>2. rr[c].msg.ip \in terminated
      BY <2>1 DEF TerminationsInv, EndedReader, Ended
    <2>3. Cardinality(Masters) = 1
      BY <1>4, <2>1 DEF routeLastTerminate, Incoming, Shape, CountInv
    <2>4. PICK m : Masters = {m}
      BY <2>3, MastersAreFinite, FS_Singleton
    <2>5. terminated \subseteq Masters
      BY DEF Shape, OpsInv
    <2>6. Masters \subseteq terminated
      BY <2>2, <2>4, <2>5
    <2> QED
      BY <2>6 DEF DoneInv
  <1>5. ASSUME NEW c \in Clients, routeTerminate(c) \/ routeResponse(c) \/ routeRequest(c)
        PROVE  DoneInv'
    <2>1. UNCHANGED <<bridge, toClient, rw>>
      BY <1>5 DEF routeTerminate, routeResponse, routeRequest, bridgeVars
    <2>2. rt' = rt \/ (rt'.pc = "send" /\ rt'.msg.type = "TRANSACTION")
      <3>1. CASE routeTerminate(c)
        BY <3>1 DEF routeTerminate
      <3>2. CASE routeResponse(c)
        BY <3>2 DEF routeResponse, Outgoing, IsResponse
      <3>3. CASE routeRequest(c)
        BY <3>3, RouteRequestFacts
      <3> QED
        BY <1>5, <3>1, <3>2, <3>3
    <2>3. \A d \in Clients : NoDone(d) => NoDone(d)'
      BY <2>1 DEF NoDone
    <2> QED
      BY <2>2, <2>3, DoneFrames
  <1>6. CASE routeSend
    <2>1. PICK c \in Clients : c = rt.client
      BY DEF Shape, RouterInv
    <2>2. /\ rw'[c].msg = rt.msg /\ \A d \in Clients \ {c} : rw'[d] = rw[d]
          /\ rt'.pc = "receive" /\ rt'.msg = NoMsg
      <3>1. DOMAIN rw = Clients
        BY DEF Shape, RouterInv
      <3> QED
        BY <1>6, <2>1, <3>1 DEF routeSend
    <2>3. UNCHANGED <<bridge, toClient>>
      BY <1>6 DEF routeSend, bridgeVars
    <2>4. \A d \in Clients : rt.msg.type # "DONE" /\ NoDone(d) => NoDone(d)'
      BY <2>2, <2>3 DEF NoDone
    <2>5. Masters \subseteq terminated \/ rt.msg.type # "DONE"
      BY DEF DoneInv, NoDoneAtRoute
    <2> QED
      BY <2>2, <2>4, <2>5, MessageFacts, DoneFrames
  <1>7. CASE sendDone
    <2>1. Masters \subseteq terminated
      BY <1>7 DEF DoneInv, NoDoneAtRoute, sendDone
    <2> QED
      BY <2>1 DEF DoneInv
  <1>8. CASE routerExit \/ UNCHANGED vars \/ \E c \in Clients : spuriousWakeup(c)
    <2>1. UNCHANGED <<bridge, toClient, rw, rt>>
      BY <1>8 DEF routerExit, vars, bridgeVars, routerVars, spuriousWakeup
    <2>2. \A d \in Clients : NoDone(d) => NoDone(d)'
      BY <2>1 DEF NoDone
    <2> QED
      BY <2>1, <2>2, DoneFrames
  <1> QED
    BY <1>1, <1>2, <1>3, <1>4, <1>5, <1>6, <1>7, <1>8 DEF Next, Route

\* A reader that has been joined stays ended.
LEMMA JoinedStep ==
    ASSUME Shape, JoinedInv, [Next]_vars
    PROVE  JoinedInv'
  <1>1. ASSUME NEW c \in Clients, Application(c) \/ Writer(c)
        PROVE  JoinedInv'
    <2>1. \A d \in Clients :
            \/ bridge'[d].app # "completed" \/ bridge'[d].reader = "exited"
            \/ bridge'[d].reader = bridge[d].reader /\ bridge'[d].app = bridge[d].app
      BY <1>1, ClientBridge
    <2> QED
      BY <2>1 DEF JoinedInv
  <1>2. ASSUME NEW c \in Clients, Reader(c)
        PROVE  JoinedInv'
    <2>1. /\ \A d \in Clients : d # c => bridge'[d] = bridge[d]
          /\ \A d \in Clients : bridge'[d].app = bridge[d].app
          /\ bridge'[c].reader = bridge[c].reader \/ bridge[c].reader \in {"receive", "notify"}
      BY <1>2, ReaderBridge
    <2> QED
      BY <2>1 DEF JoinedInv
  <1>3. ASSUME NEW c \in Clients, RouterReader(c) \/ RouterWriter(c) \/ spuriousWakeup(c)
        PROVE  bridge' = bridge
    BY <1>3 DEF RouterReader, RouterWriter, clientRead, clientReadFatal, clientWrite,
                clientWriteFatal, spuriousWakeup, bridgeVars
  <1>4. Route \/ routerExit \/ UNCHANGED vars => bridge' = bridge
    BY DEF Route, routeLastTerminate, routeTerminate, routeResponse, routeRequest, routeSend,
           sendDone, routerExit, vars, bridgeVars
  <1>5. bridge' = bridge => JoinedInv'
    BY DEF JoinedInv
  <1> QED
    BY <1>1, <1>2, <1>3, <1>4, <1>5 DEF Next

\* When no master is terminated while it has operations outstanding,
\* waitForCompletion reports success only when the application has an answer to
\* everything it issued, whatever fails and whoever dies.
THEOREM SuccessIsHonest ==
    ASSUME ~EarlyTerminate
    PROVE  Spec => []CompletionIsHonest
  <1> DEFINE Inv == Shape /\ HonestInv
  <1>1. Init => Inv
    <2> SUFFICES ASSUME Init PROVE HonestInv
      BY InitShape
    <2>1. OwnOps /\ Answered
      BY DEF Init, OwnOps, Answered
    <2>2. TerminationsInv
      BY EntryFacts, MessageFacts
      DEF Init, TerminationsInv, EndedQueue, EndedSocket, EndedWriter, EndedReader, Ended, NewQueue
    <2>3. DoneInv
      BY MessageFacts DEF Init, DoneInv, NoDoneAtRoute, NoDone
    <2>4. JoinedInv
      BY DEF Init, JoinedInv
    <2> QED
      BY <2>1, <2>2, <2>3, <2>4 DEF HonestInv
  <1>2. Inv /\ [Next]_vars => Inv'
    <2> SUFFICES ASSUME Shape, HonestInv, [Next]_vars PROVE Shape' /\ HonestInv'
      OBVIOUS
    <2>1. Shape'
      BY NextShape
    <2>2. OwnOps' /\ Answered' /\ terminated \subseteq terminated'
      BY OpsHonest DEF HonestInv
    <2>3. TerminationsInv'
      BY <2>2, TerminationsStep DEF HonestInv
    <2>4. DoneInv'
      BY <2>2, DoneStep DEF HonestInv
    <2>5. JoinedInv'
      BY JoinedStep DEF HonestInv
    <2> QED
      BY <2>1, <2>2, <2>3, <2>4, <2>5 DEF HonestInv
  <1>3. Inv => CompletionIsHonest
    <2> SUFFICES ASSUME Shape, HonestInv, NEW c \in Clients, bridge[c].app = "completed",
                        bridge[c].readerStatus = "ok", NEW k \in DOMAIN ops[c],
                        ops[c][k].status = "pending"
                 PROVE  FALSE
      BY DEF CompletionIsHonest
    <2>1. ~NoDone(c)
      BY DEF HonestInv, JoinedInv, NoDone
    <2>2. Masters \subseteq terminated
      BY <2>1 DEF HonestInv, DoneInv
    <2>3. PICK m \in masterMap(c) : m = ops[c][k].master
      BY DEF HonestInv, OwnOps
    <2>4. Ips[m].owner = c /\ m \in Masters
      BY Owners
    <2>5. Outstanding(m)
      BY <2>3, <2>4 DEF Outstanding
    <2> QED
      BY <2>2, <2>4, <2>5 DEF HonestInv, Answered
  <1> HIDE DEF Inv
  <1> QED
    BY <1>1, <1>2, <1>3, PTL DEF Spec
=============================================================================
