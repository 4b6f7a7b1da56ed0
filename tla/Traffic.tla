------------------------------ MODULE Traffic ------------------------------
(***************************************************************************)
(* The system once every bridge is STARTED: applications issue reads and   *)
(* writes on their masters, each bridge runs a reader and a writer thread  *)
(* (SwAxi.cc), the router runs a reader and a writer goroutine per client  *)
(* and the goroutine route (router.go, client.go), until the last master   *)
(* is terminated and everybody logs out.                                   *)
(*                                                                         *)
(* A message on a socket is one element of a bounded sequence.  A stretch  *)
(* of code between two accesses to state shared with another thread is one *)
(* action.  An IP block is named by its position in Ips, which is its id   *)
(* plus one (IdIsIndex in IpRegistry).                                     *)
(***************************************************************************)
EXTENDS AddressMap, Queue, FiniteSets, FiniteSetsExt

CONSTANTS NumClients,      \* the -n argument of the router
          Ips,             \* the registered blocks in order, with their owners
          Buffers,         \* the buffers (address, size) of the applications
          FaultyAddrs,     \* addresses at which a slave's handlers fail
          EarlyTerminate,  \* whether a master may be terminated while it has
                           \* operations outstanding
          Crashing,        \* the clients whose process may die
          MaxOps,          \* bound: operations issued by one application
          SockCap          \* bound: messages in one direction of a socket

Clients == 0 .. NumClients - 1

ASSUME NumClientsAssumption == NumClients \in Nat \ {0}
ASSUME IpsAssumption ==
    /\ Ips \in Seq([address : Addr, size : Addr, type : IpTypes, owner : Clients])
    /\ \A i, j \in DOMAIN Ips : i < j => ~Conflicts(Ips[j], Ips[i])
ASSUME SwitchesAssumption == EarlyTerminate \in BOOLEAN /\ Crashing \subseteq Clients
ASSUME BuffersAssumption == Buffers \subseteq [address : Addr, size : Addr]
ASSUME BoundsAssumption == MaxOps \in Nat /\ SockCap \in Nat \ {0}

Masters == {p \in DOMAIN Ips : Ips[p].type \in MasterTypes}
Slaves  == DOMAIN Ips \ Masters

masterMap(c) == {p \in Masters : Ips[p].owner = c}
slaveMap(c)  == {p \in Slaves : Ips[p].owner = c}

\* Router.ipMMap after the registrations: the last block at each address.
ipMMap == [a \in Addr |-> Max({0} \cup {p \in DOMAIN Ips : Ips[p].address = a})]

\* IpInfo.ClientId of block p: newClient does not store the id it is given,
\* so c.Id is zero when receiveIpInfo copies it, whoever owns the block.
ClientId(p) == 0

VARIABLES ops,          \* client: the operations its application issued
          terminated,   \* the masters on which terminate was called
          q,            \* client: Bridge.queue
          bridge,       \* client: the state of the bridge and its threads
          txns,         \* master: MasterMd.txns as a set of [id, op]
          lastTxnId,    \* master: MasterMd.lastTxnId
          mem,          \* slave: the memory behind its handlers
          toRouter,     \* client: messages on the socket to the router
          toClient,     \* client: messages on the socket from the router
          rr,           \* client: the router's reader goroutine
          rw,           \* client: the router's writer goroutine
          rt,           \* the router's route goroutine
          masterCount,  \* Router.masterCount
          up            \* the router process: "running", "fatal" or "exited"

appVars    == <<ops, terminated>>
bridgeVars == <<q, bridge, txns, lastTxnId, mem>>
routerVars == <<rr, rw, rt, masterCount, up>>
vars == <<appVars, bridgeVars, toRouter, toClient, routerVars>>
-----------------------------------------------------------------------------
(* Data *)

ReqTypes  == {"READ_REQ", "WRITE_REQ"}
RespTypes == {"READ_RESP", "WRITE_RESP"}

RespOf(type) == IF type = "READ_REQ" THEN "READ_RESP" ELSE "WRITE_RESP"

\* A payload is the sequence of its bytes; a byte is the number of the
\* operation that wrote it, 0 if none did.
Bytes == Seq(0 .. MaxOps)

Transaction == [type : ReqTypes \cup RespTypes, initiator : Masters,
                target : Nat, id : Nat, address : Addr, size : Addr,
                data : Bytes, ok : BOOLEAN]

NoMsg         == [type |-> "NONE"]
DoneMsg       == [type |-> "DONE"]
TerminateMsg(m) == [type |-> "TERMINATE", ip |-> m]
TxnMsg(t)     == [type |-> "TRANSACTION", txn |-> t]

Message == {DoneMsg} \cup {TerminateMsg(m) : m \in Masters}
               \cup [type : {"TRANSACTION"}, txn : Transaction]

IsRequest(msg)  == msg.type = "TRANSACTION" /\ msg.txn.type \in ReqTypes
IsResponse(msg) == msg.type = "TRANSACTION" /\ msg.txn.type \in RespTypes

\* Master::Txn, an element of Bridge.queue; op stands for the promise and
\* the application's buffer, 0 in the entry of a slave's response.
Entry(type, msg, op) == [type |-> type, msg |-> msg, op |-> op]

NoEntry == Entry("NONE", NoMsg, 0)

\* The payload that Master::write copies out of the application's buffer.
Payload(b, n) == [i \in 1 .. b.size |-> n]

\* The transaction that Master::read and Master::write build.
RequestTxn(m, type, b, n) ==
    [type |-> type, initiator |-> m, target |-> 0, id |-> 0,
     address |-> b.address, size |-> b.size,
     data |-> IF type = "WRITE_REQ" THEN Payload(b, n) ELSE <<>>,
     ok |-> TRUE]

\* createErrorTxn: the router's own response to a request without a target.
createErrorTxn(t) ==
    [type |-> RespOf(t.type), initiator |-> t.initiator, target |-> 0,
     id |-> t.id, address |-> 0, size |-> 0, data |-> <<>>, ok |-> FALSE]

\* MutateTarget of the generated wire code: a scalar that has its default
\* value when a message is built takes no space in it, and a mutator changes
\* only what is there.  The request is built with target 0.
MutateTarget(t, target) == IF t.target = 0 THEN t ELSE [t EXCEPT !.target = target]

\* Transaction.target is an id, not a position: 0 is the first block's.
Id(p) == p - 1
-----------------------------------------------------------------------------
(* The slave, a memory as in test 02.  Its handlers return an error, and do
   nothing, at the addresses in FaultyAddrs. *)

Fails(t) == t.address \in FaultyAddrs

handleWrite(cells, t) ==
    IF Fails(t)
    THEN cells
    ELSE [a \in Addr |-> IF a \in t.address .. (t.address + t.size - 1)
                         THEN t.data[a - t.address + 1]
                         ELSE cells[a]]

handleRead(cells, t) == [i \in 1 .. t.size |-> cells[Plus(t.address, i - 1)]]

\* Mistake: the response does not carry the handler's failure.
ResponseTxnOk(cells, t) ==
    [type |-> RespOf(t.type), initiator |-> t.initiator, target |-> t.target,
     id |-> t.id, address |-> t.address, size |-> t.size,
     data |-> IF t.type = "READ_REQ" THEN handleRead(cells, t) ELSE <<>>,
     ok |-> TRUE]

\* The response that Bridge::reader builds after the handler of the slave.
ResponseTxn(cells, t) ==
    [type |-> RespOf(t.type), initiator |-> t.initiator, target |-> t.target,
     id |-> t.id, address |-> t.address, size |-> t.size,
     data |-> IF t.type = "READ_REQ" /\ ~Fails(t) THEN handleRead(cells, t) ELSE <<>>,
     ok |-> ~Fails(t)]
-----------------------------------------------------------------------------
Init ==
    /\ ops = [c \in Clients |-> <<>>]
    /\ terminated = {}
    /\ q = [c \in Clients |-> NewQueue]
    /\ bridge = [c \in Clients |->
                   [state |-> "STARTED", reader |-> "receive", readerStatus |-> "ok",
                    writer |-> "pop", writerStatus |-> "ok", txn |-> NoEntry,
                    app |-> "running"]]
    /\ txns = [m \in Masters |-> {}]
    /\ lastTxnId = [m \in Masters |-> 0]
    /\ mem = [s \in Slaves |-> [a \in Addr |-> 0]]
    /\ toRouter = [c \in Clients |-> <<>>]
    /\ toClient = [c \in Clients |-> <<>>]
    /\ rr = [c \in Clients |-> [pc |-> "read", msg |-> NoMsg]]
    /\ rw = [c \in Clients |-> [pc |-> "receive", msg |-> NoMsg]]
    /\ rt = [pc |-> "receive", msg |-> NoMsg, client |-> 0]
    /\ masterCount = Cardinality(Masters)
    /\ up = "running"
-----------------------------------------------------------------------------
(* The application's threads.  Queue::push and its notification are one
   step: a wake-up that comes later or twice is a spurious one. *)

Push(c, entry) == q' = [q EXCEPT ![c] = NotifyOne(Enqueue(@, entry))]

\* Whether the application still waits for an operation of master m.
Outstanding(m) ==
    \E k \in DOMAIN ops[Ips[m].owner] :
        /\ ops[Ips[m].owner][k].master = m
        /\ ops[Ips[m].owner][k].status = "pending"

\* Master::read and Master::write; the application does not use a master it
\* has terminated.
issue(m, type, b) ==
    LET c == Ips[m].owner
        n == Len(ops[c]) + 1
        t == RequestTxn(m, type, b, n)
    IN  /\ bridge[c].app = "running"
        /\ m \notin terminated
        /\ n <= MaxOps
        /\ ops' = [ops EXCEPT ![c] =
                     Append(@, [master |-> m, type |-> type,
                                address |-> b.address, size |-> b.size,
                                status |-> "pending", buffer |-> t.data])]
        /\ Push(c, Entry("TRANSACTION", TxnMsg(t), n))
        /\ UNCHANGED <<terminated, bridge, txns, lastTxnId, mem,
                       toRouter, toClient, routerVars>>

read(m, b)  == issue(m, "READ_REQ", b)
write(m, b) == issue(m, "WRITE_REQ", b)

\* Master::terminate.  Test 02 waits for its operations before it calls
\* terminate, except after a write that failed.
terminate(m) ==
    /\ bridge[Ips[m].owner].app = "running"
    /\ m \notin terminated
    /\ EarlyTerminate \/ ~Outstanding(m)
    /\ terminated' = terminated \cup {m}
    /\ Push(Ips[m].owner, Entry("TERMINATION", TerminateMsg(m), 0))
    /\ UNCHANGED <<ops, bridge, txns, lastTxnId, mem,
                   toRouter, toClient, routerVars>>

\* Bridge::waitForCompletion joins the reader and the writer.
waitForCompletion(c) ==
    /\ bridge[c].app = "running"
    /\ bridge[c].reader = "exited"
    /\ bridge[c].writer = "exited"
    /\ bridge' = [bridge EXCEPT ![c].app = "completed"]
    /\ UNCHANGED <<appVars, q, txns, lastTxnId, mem,
                   toRouter, toClient, routerVars>>

\* Bridge::disconnect, once the threads that use the masters are through.
disconnect(c) ==
    /\ bridge[c].app = "completed"
    /\ masterMap(c) \subseteq terminated
    /\ bridge' = [bridge EXCEPT ![c].app = "disconnected",
                                ![c].state = "DISCONNECTED"]
    /\ UNCHANGED <<appVars, q, txns, lastTxnId, mem,
                   toRouter, toClient, routerVars>>

\* The client's end of the socket is closed.
Closed(c) == bridge[c].state = "DISCONNECTED"
\* The client's process dies, and its socket with it.
Die(c) ==
    /\ bridge' = [bridge EXCEPT ![c].writer = "exited", ![c].reader = "exited",
                                ![c].state = "DISCONNECTED", ![c].app = "killed",
                                ![c].txn = NoEntry]
    /\ UNCHANGED <<appVars, q, txns, lastTxnId, mem,
                   toRouter, toClient, routerVars>>

crash(c) ==
    /\ c \in Crashing
    /\ bridge[c].app = "running"
    /\ Die(c)

\* The reader is in readFromSocket, the router's end of the socket is closed
\* and all the messages that the router sent are read.
AtEof(c) == bridge[c].reader = "receive" /\ up # "running" /\ toClient[c] = <<>>
-----------------------------------------------------------------------------
(* Bridge::writer *)

writerTake(c) ==
    /\ bridge[c].writer = "pop"
    /\ CanTake(q[c])
    /\ q' = [q EXCEPT ![c] = Take(@)]
    /\ bridge' = [bridge EXCEPT ![c].txn = Head(q[c].items),
                                ![c].writer = IF IsRequest(Head(q[c].items).msg)
                                              THEN "register" ELSE "send"]
    /\ UNCHANGED <<appVars, txns, lastTxnId, mem, toRouter, toClient, routerVars>>

writerWait(c) ==
    /\ bridge[c].writer = "pop"
    /\ CanWait(q[c])
    /\ q' = [q EXCEPT ![c] = Wait(@)]
    /\ UNCHANGED <<appVars, bridge, txns, lastTxnId, mem,
                   toRouter, toClient, routerVars>>

spuriousWakeup(c) ==
    /\ q[c].consumer = "waiting"
    /\ q' = [q EXCEPT ![c] = NotifyOne(@)]
    /\ UNCHANGED <<appVars, bridge, txns, lastTxnId, mem,
                   toRouter, toClient, routerVars>>

\* Mistake: the writer returns without sendLogout.
writerStopSilently(c) ==
    /\ bridge[c].writer = "pop"
    /\ CanStop(q[c])
    /\ q' = [q EXCEPT ![c] = Leave(@)]
    /\ bridge' = [bridge EXCEPT ![c].writer = "exited"]
    /\ UNCHANGED <<appVars, txns, lastTxnId, mem, toRouter, toClient, routerVars>>

\* pop has returned false.
writerStop(c) ==
    /\ bridge[c].writer = "pop"
    /\ CanStop(q[c])
    /\ q' = [q EXCEPT ![c] = Leave(@)]
    /\ bridge' = [bridge EXCEPT ![c].writer = "logout"]
    /\ UNCHANGED <<appVars, txns, lastTxnId, mem, toRouter, toClient, routerVars>>

\* Mistake: the transaction gets the incremented id, the map the old one.
writerRegisterShifted(c) ==
    LET e == bridge[c].txn
        m == e.msg.txn.initiator
    IN  /\ bridge[c].writer = "register"
        /\ bridge' = [bridge EXCEPT ![c].writer = "send",
                                    ![c].txn.msg.txn.id = lastTxnId[m] + 1]
        /\ txns' = [txns EXCEPT ![m] = @ \cup {[id |-> lastTxnId[m], op |-> e.op]}]
        /\ lastTxnId' = [lastTxnId EXCEPT ![m] = @ + 1]
        /\ UNCHANGED <<appVars, q, mem, toRouter, toClient, routerVars>>

\* Under masterMapMutex a request gets its id and is entered in txns.
writerRegister(c) ==
    LET e == bridge[c].txn
        m == e.msg.txn.initiator
    IN  /\ bridge[c].writer = "register"
        /\ bridge' = [bridge EXCEPT ![c].writer = "send",
                                    ![c].txn.msg.txn.id = lastTxnId[m]]
        /\ txns' = [txns EXCEPT ![m] = @ \cup {[id |-> lastTxnId[m], op |-> e.op]}]
        /\ lastTxnId' = [lastTxnId EXCEPT ![m] = @ + 1]
        /\ UNCHANGED <<appVars, q, mem, toRouter, toClient, routerVars>>

\* sendTransaction and sendTermination.
writerSend(c) ==
    /\ bridge[c].writer = "send"
    /\ bridge[c].state = "STARTED"
    /\ up = "running"
    /\ Len(toRouter[c]) < SockCap
    /\ toRouter' = [toRouter EXCEPT ![c] = Append(@, bridge[c].txn.msg)]
    /\ bridge' = [bridge EXCEPT ![c].writer = "pop", ![c].txn = NoEntry]
    /\ UNCHANGED <<appVars, q, txns, lastTxnId, mem, toClient, routerVars>>

\* sendLogout; pop has already reported that there is nothing to send.
writerLogout(c) ==
    /\ bridge[c].writer = "logout"
    /\ bridge[c].state = "STARTED"
    /\ up = "running"
    /\ Len(toRouter[c]) < SockCap
    /\ toRouter' = [toRouter EXCEPT ![c] = Append(@, DoneMsg)]
    /\ bridge' = [bridge EXCEPT ![c].writer = "exited", ![c].state = "LOGGED_OUT"]
    /\ UNCHANGED <<appVars, q, txns, lastTxnId, mem, toClient, routerVars>>

\* A send that is refused because the client is not STARTED, or that finds
\* the socket just closed by the reader, which has seen the router's end go:
\* the writer returns with an error.
writerFail(c) ==
    /\ bridge[c].writer \in {"send", "logout"}
    /\ \/ bridge[c].state # "STARTED"
       \/ AtEof(c)
    /\ bridge' = [bridge EXCEPT ![c].writer = "exited", ![c].writerStatus = "error",
                                ![c].state = "DISCONNECTED", ![c].txn = NoEntry]
    /\ UNCHANGED <<appVars, q, txns, lastTxnId, mem,
                   toRouter, toClient, routerVars>>

\* write to a socket that the peer has closed raises SIGPIPE, which nothing
\* in the client catches: the process ends.
writerKilled(c) ==
    /\ bridge[c].writer \in {"send", "logout"}
    /\ bridge[c].state = "STARTED"
    /\ up # "running"
    /\ Die(c)
-----------------------------------------------------------------------------
(* Bridge::reader.  Receiving a message and the one access to shared state
   that follows it are one step. *)

\* The reader is about to return: queue.finish sets done; its notification
\* is the next step.
StopReader(c, status) ==
    /\ bridge' = [bridge EXCEPT ![c].reader = "notify", ![c].readerStatus = status]
    /\ q' = [q EXCEPT ![c] = SetDone(@)]

readerNotify(c) ==
    /\ bridge[c].reader = "notify"
    /\ q' = [q EXCEPT ![c] = NotifyOne(@)]
    /\ bridge' = [bridge EXCEPT ![c].reader = "exited"]
    /\ UNCHANGED <<appVars, txns, lastTxnId, mem, toRouter, toClient, routerVars>>

\* receiveTransaction has a message.
Receiving(c) ==
    /\ bridge[c].reader = "receive"
    /\ bridge[c].state = "STARTED"
    /\ toClient[c] # <<>>

Consume(c) == toClient' = [toClient EXCEPT ![c] = Tail(@)]

receiveDone(c) ==
    /\ Receiving(c)
    /\ Head(toClient[c]).type = "DONE"
    /\ Consume(c)
    /\ StopReader(c, "ok")
    /\ UNCHANGED <<appVars, txns, lastTxnId, mem, toRouter, routerVars>>

\* Mistake: an error response ends the reader, as an error of the connection
\* does, and readerStatus is not set.
receiveResponseStopping(c) ==
    LET t == Head(toClient[c]).txn
    IN  /\ Receiving(c)
        /\ IsResponse(Head(toClient[c]))
        /\ t.initiator \in masterMap(c)
        /\ \E e \in txns[t.initiator] :
             /\ e.id = t.id
             /\ txns' = [txns EXCEPT ![t.initiator] = @ \ {e}]
             /\ IF t.ok
                THEN /\ ops' = [ops EXCEPT ![c][e.op].status = "ok"]
                     /\ UNCHANGED <<q, bridge>>
                ELSE /\ StopReader(c, "ok")
                     /\ UNCHANGED ops
        /\ Consume(c)
        /\ UNCHANGED <<terminated, lastTxnId, mem, toRouter, routerVars>>

\* The response to a request that waits in txns: its promise is fulfilled.
receiveResponse(c) ==
    LET t == Head(toClient[c]).txn
    IN  /\ Receiving(c)
        /\ IsResponse(Head(toClient[c]))
        /\ t.initiator \in masterMap(c)
        /\ \E e \in txns[t.initiator] :
             /\ e.id = t.id
             /\ txns' = [txns EXCEPT ![t.initiator] = @ \ {e}]
             /\ ops' = [ops EXCEPT ![c][e.op].status = IF t.ok THEN "ok" ELSE "error",
                                    ![c][e.op].buffer = IF t.type = "READ_RESP" /\ t.ok
                                                        THEN t.data ELSE @]
        /\ Consume(c)
        /\ UNCHANGED <<terminated, q, bridge, lastTxnId, mem, toRouter, routerVars>>

\* "Got a response for an unknown master" or "for an unknown request".
receiveUnknownResponse(c) ==
    LET t == Head(toClient[c]).txn
    IN  /\ Receiving(c)
        /\ IsResponse(Head(toClient[c]))
        /\ \/ t.initiator \notin masterMap(c)
           \/ t.id \notin {e.id : e \in txns[t.initiator]}
        /\ Consume(c)
        /\ StopReader(c, "error")
        /\ UNCHANGED <<appVars, txns, lastTxnId, mem, toRouter, routerVars>>

\* Mistake: the reader sends the response by itself.
receiveRequestAnswering(c) ==
    LET t == Head(toClient[c]).txn
        s == t.target + 1
    IN  /\ Receiving(c)
        /\ IsRequest(Head(toClient[c]))
        /\ s \in slaveMap(c)
        /\ Len(toRouter[c]) < SockCap
        /\ mem' = IF t.type = "WRITE_REQ"
                  THEN [mem EXCEPT ![s] = handleWrite(@, t)]
                  ELSE mem
        /\ toRouter' = [toRouter EXCEPT ![c] = Append(@, TxnMsg(ResponseTxn(mem[s], t)))]
        /\ Consume(c)
        /\ UNCHANGED <<appVars, q, bridge, txns, lastTxnId, routerVars>>

\* A request for a slave of this bridge: call its handler, queue the response.
receiveRequest(c) ==
    LET t == Head(toClient[c]).txn
        s == t.target + 1
    IN  /\ Receiving(c)
        /\ IsRequest(Head(toClient[c]))
        /\ s \in slaveMap(c)
        /\ mem' = IF t.type = "WRITE_REQ"
                  THEN [mem EXCEPT ![s] = handleWrite(@, t)]
                  ELSE mem
        /\ Push(c, Entry("TRANSACTION", TxnMsg(ResponseTxn(mem[s], t)), 0))
        /\ Consume(c)
        /\ UNCHANGED <<appVars, bridge, txns, lastTxnId, toRouter, routerVars>>

\* "Got a request meant for an unknown slave".
receiveUnknownRequest(c) ==
    /\ Receiving(c)
    /\ IsRequest(Head(toClient[c]))
    /\ Head(toClient[c]).txn.target + 1 \notin slaveMap(c)
    /\ Consume(c)
    /\ StopReader(c, "error")
    /\ UNCHANGED <<appVars, txns, lastTxnId, mem, toRouter, routerVars>>

\* Mistake: the reader returns without queue.finish.
receiveFailUnfinished(c) ==
    /\ bridge[c].reader = "receive"
    /\ \/ bridge[c].state # "STARTED"
       \/ AtEof(c)
    /\ bridge' = [bridge EXCEPT ![c].reader = "exited", ![c].readerStatus = "error",
                                ![c].state = "DISCONNECTED"]
    /\ UNCHANGED <<appVars, q, txns, lastTxnId, mem, toRouter, toClient, routerVars>>

\* The router is gone and its messages are read, or a failed send of the
\* writer has disconnected the client.
receiveFail(c) ==
    /\ bridge[c].reader = "receive"
    /\ \/ bridge[c].state # "STARTED"
       \/ AtEof(c)
    /\ bridge' = [bridge EXCEPT ![c].reader = "notify", ![c].readerStatus = "error",
                                ![c].state = "DISCONNECTED"]
    /\ q' = [q EXCEPT ![c] = SetDone(@)]
    /\ UNCHANGED <<appVars, txns, lastTxnId, mem, toRouter, toClient, routerVars>>

\* The router's process has ended while its writer for c was between the size
\* and the end of a message: read returns 0, which readFromSocket does not
\* take for an error, and the reader never leaves its loop.
receiveSpin(c) ==
    /\ AtEof(c)
    /\ bridge[c].state = "STARTED"
    /\ up = "fatal" /\ rw[c].pc = "write"
    /\ bridge' = [bridge EXCEPT ![c].reader = "spinning"]
    /\ UNCHANGED <<appVars, q, txns, lastTxnId, mem, toRouter, toClient, routerVars>>
-----------------------------------------------------------------------------
(* The router's goroutines.  A channel is unbuffered: sender and receiver
   meet in one step. *)

Fatal ==
    /\ up' = "fatal"
    /\ UNCHANGED <<rr, rw, rt, masterCount>>

\* client.reader: readMsg.  DONE ends the goroutine.
clientRead(c) ==
    /\ up = "running"
    /\ rr[c].pc = "read"
    /\ toRouter[c] # <<>>
    /\ toRouter' = [toRouter EXCEPT ![c] = Tail(@)]
    /\ rr' = [rr EXCEPT ![c] = IF Head(toRouter[c]).type = "DONE"
                               THEN [pc |-> "exited", msg |-> NoMsg]
                               ELSE [pc |-> "push", msg |-> Head(toRouter[c])]]
    /\ UNCHANGED <<appVars, bridgeVars, toClient, rw, rt, masterCount, up>>

\* client.reader: readMsg fails because the client has closed its socket.
clientReadFatal(c) ==
    /\ up = "running"
    /\ rr[c].pc = "read"
    /\ toRouter[c] = <<>>
    /\ Closed(c)
    /\ Fatal
    /\ UNCHANGED <<appVars, bridgeVars, toRouter, toClient>>

\* Mistake: a message is written twice.
clientWriteTwice(c) ==
    /\ up = "running"
    /\ rw[c].pc = "write"
    /\ ~Closed(c)
    /\ Len(toClient[c]) < SockCap
    /\ toClient' = [toClient EXCEPT ![c] = @ \o <<rw[c].msg, rw[c].msg>>]
    /\ rw' = [rw EXCEPT ![c] = [pc |-> IF rw[c].msg.type = "DONE"
                                       THEN "exited" ELSE "receive",
                                msg |-> NoMsg]]
    /\ UNCHANGED <<appVars, bridgeVars, toRouter, rr, rt, masterCount, up>>

\* client.writer: writeMsg, which ends the goroutine after DONE.
clientWrite(c) ==
    /\ up = "running"
    /\ rw[c].pc = "write"
    /\ ~Closed(c)
    /\ Len(toClient[c]) < SockCap
    /\ toClient' = [toClient EXCEPT ![c] = Append(@, rw[c].msg)]
    /\ rw' = [rw EXCEPT ![c] = [pc |-> IF rw[c].msg.type = "DONE"
                                       THEN "exited" ELSE "receive",
                                msg |-> NoMsg]]
    /\ UNCHANGED <<appVars, bridgeVars, toRouter, rr, rt, masterCount, up>>

clientWriteFatal(c) ==
    /\ up = "running"
    /\ rw[c].pc = "write"
    /\ Closed(c)
    /\ Fatal
    /\ UNCHANGED <<appVars, bridgeVars, toRouter, toClient>>

\* msgArr := <-r.incoming takes msg from the reader of client c.
Incoming(c, msg) ==
    /\ up = "running"
    /\ rt.pc = "receive"
    /\ rr[c].pc = "push"
    /\ rr[c].msg = msg

TakeIncoming(c) == rr' = [rr EXCEPT ![c] = [pc |-> "read", msg |-> NoMsg]]

\* route is about to send msg to the writer of a client.
Outgoing(client, msg) == rt' = [pc |-> "send", msg |-> msg, client |-> client]

\* route: TERMINATE of the last active master.
routeLastTerminate(c) ==
    /\ Incoming(c, rr[c].msg)
    /\ rr[c].msg.type = "TERMINATE"
    /\ masterCount = 1
    /\ masterCount' = masterCount - 1
    /\ TakeIncoming(c)
    /\ rt' = [pc |-> "sendDone", msg |-> DoneMsg, client |-> 0]
    /\ UNCHANGED <<appVars, bridgeVars, toRouter, toClient, rw, up>>

\* route: TERMINATE while other masters are active.  The branch does not end
\* with a continue, and the next test, for messages that are not
\* transactions, calls log.Fatalf.
routeTerminate(c) ==
    /\ Incoming(c, rr[c].msg)
    /\ rr[c].msg.type = "TERMINATE"
    /\ masterCount # 1
    /\ masterCount' = masterCount - 1
    /\ TakeIncoming(c)
    /\ up' = "fatal"
    /\ UNCHANGED <<appVars, bridgeVars, toRouter, toClient, rw, rt>>

\* Mistake: responses that are not ok are dropped.
routeResponseOkOnly(c) ==
    /\ Incoming(c, rr[c].msg)
    /\ IsResponse(rr[c].msg)
    /\ IF rr[c].msg.txn.ok
       THEN Outgoing(ClientId(rr[c].msg.txn.initiator), rr[c].msg)
       ELSE UNCHANGED rt
    /\ TakeIncoming(c)
    /\ UNCHANGED <<appVars, bridgeVars, toRouter, toClient, rw, masterCount, up>>

routeResponse(c) ==
    /\ Incoming(c, rr[c].msg)
    /\ IsResponse(rr[c].msg)
    /\ Outgoing(ClientId(rr[c].msg.txn.initiator), rr[c].msg)
    /\ TakeIncoming(c)
    /\ UNCHANGED <<appVars, bridgeVars, toRouter, toClient, rw, masterCount, up>>

\* route: a request goes to the client of its target, or comes back as an
\* error.
routeRequest(c) ==
    LET t == rr[c].msg.txn
    IN  /\ Incoming(c, rr[c].msg)
        /\ IsRequest(rr[c].msg)
        /\ \E p \in findTarget(Ips, ipMMap, t.address, t.size) :
             IF p = 0
             THEN Outgoing(ClientId(t.initiator), TxnMsg(createErrorTxn(t)))
             ELSE Outgoing(ClientId(p), TxnMsg(MutateTarget(t, Id(p))))
        /\ TakeIncoming(c)
        /\ UNCHANGED <<appVars, bridgeVars, toRouter, toClient, rw, masterCount, up>>

\* r.clients[client].outgoing <- msgArr
routeSend ==
    /\ up = "running"
    /\ rt.pc = "send"
    /\ rw[rt.client].pc = "receive"
    /\ rw' = [rw EXCEPT ![rt.client] = [pc |-> "write", msg |-> rt.msg]]
    /\ rt' = [pc |-> "receive", msg |-> NoMsg, client |-> 0]
    /\ UNCHANGED <<appVars, bridgeVars, toRouter, toClient, rr, masterCount, up>>

\* Mistake: the loop goes one client too far.
sendDoneTooFar ==
    /\ up = "running"
    /\ rt.pc = "sendDone"
    /\ rw[rt.client].pc = "receive"
    /\ rw' = [rw EXCEPT ![rt.client] = [pc |-> "write", msg |-> DoneMsg]]
    /\ rt' = IF rt.client < NumClients
             THEN [rt EXCEPT !.client = @ + 1]
             ELSE [pc |-> "exited", msg |-> NoMsg, client |-> 0]
    /\ UNCHANGED <<appVars, bridgeVars, toRouter, toClient, rr, masterCount, up>>

\* One iteration of sendDone; route ends after the last.
sendDone ==
    /\ up = "running"
    /\ rt.pc = "sendDone"
    /\ rw[rt.client].pc = "receive"
    /\ rw' = [rw EXCEPT ![rt.client] = [pc |-> "write", msg |-> DoneMsg]]
    /\ rt' = IF rt.client + 1 \in Clients
             THEN [rt EXCEPT !.client = @ + 1]
             ELSE [pc |-> "exited", msg |-> NoMsg, client |-> 0]
    /\ UNCHANGED <<appVars, bridgeVars, toRouter, toClient, rr, masterCount, up>>

\* Mistake: the wait group does not count the readers.
routerExitEarly ==
    /\ up = "running"
    /\ rt.pc = "exited"
    /\ \A c \in Clients : rw[c].pc = "exited"
    /\ up' = "exited"
    /\ UNCHANGED <<appVars, bridgeVars, toRouter, toClient, rr, rw, rt, masterCount>>

\* r.wg.Wait() returns when all 2 * numClients + 1 goroutines have ended.
routerExit ==
    /\ up = "running"
    /\ rt.pc = "exited"
    /\ \A c \in Clients : rr[c].pc = "exited" /\ rw[c].pc = "exited"
    /\ up' = "exited"
    /\ UNCHANGED <<appVars, bridgeVars, toRouter, toClient, rr, rw, rt, masterCount>>
-----------------------------------------------------------------------------
Application(c) ==
    \/ \E m \in masterMap(c) :
         \/ \E b \in Buffers : read(m, b) \/ write(m, b)
         \/ terminate(m)
    \/ waitForCompletion(c)
    \/ disconnect(c)
    \/ crash(c)

Writer(c) ==
    \/ writerTake(c) \/ writerWait(c) \/ writerStop(c)
    \/ writerRegister(c) \/ writerSend(c) \/ writerLogout(c)
    \/ writerFail(c) \/ writerKilled(c)

Reader(c) ==
    \/ receiveDone(c) \/ receiveResponse(c) \/ receiveUnknownResponse(c)
    \/ receiveRequest(c) \/ receiveUnknownRequest(c) \/ receiveFail(c)
    \/ receiveSpin(c) \/ readerNotify(c)

RouterReader(c) == clientRead(c) \/ clientReadFatal(c)

RouterWriter(c) == clientWrite(c) \/ clientWriteFatal(c)

Route ==
    \/ \E c \in Clients : \/ routeLastTerminate(c) \/ routeTerminate(c)
                          \/ routeResponse(c) \/ routeRequest(c)
    \/ routeSend
    \/ sendDone

Next ==
    \/ \E c \in Clients : \/ Application(c) \/ Writer(c) \/ Reader(c)
                          \/ spuriousWakeup(c)
                          \/ RouterReader(c) \/ RouterWriter(c)
    \/ Route
    \/ routerExit

Spec == Init /\ [][Next]_vars

\* Threads and goroutines that can run do run.  An application issues as
\* much as it likes, but terminates its masters in the end; route receives
\* from every client that keeps sending to it.
Fairness ==
    /\ \A c \in Clients :
         /\ WF_vars(Writer(c))
         /\ WF_vars(Reader(c))
         /\ WF_vars(waitForCompletion(c))
         /\ WF_vars(RouterReader(c))
         /\ WF_vars(RouterWriter(c))
    /\ \A m \in Masters : WF_vars(terminate(m))
    /\ WF_vars(Route)
    /\ WF_vars(routerExit)

FairSpec == Spec /\ Fairness
-----------------------------------------------------------------------------
(* Properties *)

\* The variables have their types.
TypeOK ==
    /\ \A c \in Clients : ops[c] \in
         Seq([master : Masters, type : ReqTypes, address : Addr, size : Addr,
              status : {"pending", "ok", "error"}, buffer : Bytes])
    /\ terminated \subseteq Masters
    /\ \A c \in Clients : q[c].items \in
         Seq([type : {"TRANSACTION", "TERMINATION"}, msg : Message, op : 0 .. MaxOps])
    /\ \A c \in Clients :
         /\ bridge[c].state \in {"STARTED", "LOGGED_OUT", "DISCONNECTED"}
         /\ bridge[c].reader \in {"receive", "spinning", "notify", "exited"}
         /\ bridge[c].writer \in {"pop", "register", "send", "logout", "exited"}
         /\ bridge[c].app \in {"running", "completed", "disconnected", "killed"}
         /\ bridge[c].txn.msg \in Message \cup {NoMsg}
    /\ \A m \in Masters : txns[m] \subseteq [id : Nat, op : 1 .. MaxOps]
    /\ lastTxnId \in [Masters -> Nat]
    /\ mem \in [Slaves -> [Addr -> 0 .. MaxOps]]
    /\ toRouter \in [Clients -> Seq(Message)]
    /\ toClient \in [Clients -> Seq(Message)]
    /\ rr \in [Clients -> [pc : {"read", "push", "exited"}, msg : Message \cup {NoMsg}]]
    /\ rw \in [Clients -> [pc : {"receive", "write", "exited"}, msg : Message \cup {NoMsg}]]
    /\ rt \in [pc : {"receive", "send", "sendDone", "exited"},
               msg : Message \cup {NoMsg}, client : Clients]
    /\ masterCount \in Nat
    /\ up \in {"running", "fatal", "exited"}

\* The message carries the transaction with this initiator and id.
Carries(msg, m, id) ==
    msg.type = "TRANSACTION" /\ msg.txn.initiator = m /\ msg.txn.id = id

\* The places between client c and the router's route where it is on its way.
\* A request in the queue has no id yet.
PlacesAt(c, m, id) ==
    LET In(s) == {k \in DOMAIN s : Carries(s[k], m, id)}
        Queued == {k \in DOMAIN q[c].items : /\ IsResponse(q[c].items[k].msg)
                                             /\ Carries(q[c].items[k].msg, m, id)}
    IN       ({"queue"} \X {c} \X Queued)
        \cup ({"toRouter"} \X {c} \X In(toRouter[c]))
        \cup ({"toClient"} \X {c} \X In(toClient[c]))
        \cup {w \in {<<"writer", c, 0>>} : /\ bridge[c].writer = "send"
                                           /\ Carries(bridge[c].txn.msg, m, id)}
        \cup {w \in {<<"rr", c, 0>>} : Carries(rr[c].msg, m, id)}
        \cup {w \in {<<"rw", c, 0>>} : Carries(rw[c].msg, m, id)}

Places(m, id) ==
    (UNION {PlacesAt(c, m, id) : c \in Clients})
        \cup {w \in {<<"rt", 0, 0>>} : Carries(rt.msg, m, id)}

Ids(m) == {e.id : e \in txns[m]}

\* A request is never lost and never doubled on its way through the threads
\* of the bridge and the router: it, or its response, is in exactly one
\* place as long as its promise waits in txns, and in none afterwards.
EveryRequestOnce ==
    \A m \in Masters : \A id \in 0 .. lastTxnId[m] - 1 :
        Cardinality(Places(m, id)) = IF id \in Ids(m) THEN 1 ELSE 0

\* Whatever fails on the way, nothing is doubled.
AtMostOnce ==
    \A m \in Masters : \A id \in 0 .. lastTxnId[m] - 1 :
        Cardinality(Places(m, id)) <= IF id \in Ids(m) THEN 1 ELSE 0

\* In a bridge that holds both the slaves and the masters no reader ends with
\* an error: the response to a request does not arrive before the writer has
\* entered the request in txns.
NoReaderError == \A c \in Clients : bridge[c].readerStatus = "ok"

\* The responses on their way.
Responses ==
    LET Of(msgs) == {msg \in msgs : IsResponse(msg)}
        Elements(s) == {s[k] : k \in DOMAIN s}
    IN  Of((UNION {    {entry.msg : entry \in Elements(q[c].items)}
                  \cup {bridge[c].txn.msg, rr[c].msg, rw[c].msg}
                  \cup Elements(toRouter[c]) \cup Elements(toClient[c]) : c \in Clients})
               \cup {rt.msg})

\* What came of the operations of c whose responses are on their way.
Outcomes(c) ==
    UNION {UNION {{[op |-> e.op, ok |-> msg.txn.ok, data |-> msg.txn.data] :
                     msg \in {r \in Responses : r.txn.initiator = m /\ r.txn.id = e.id}} :
                  e \in txns[m]} : m \in masterMap(c)}

B == INSTANCE Bus WITH
       Apps <- Clients, Block <- Ips,
       outcome <- [c \in Clients |-> Outcomes(c)]

\* The threads, queues, sockets and goroutines together are a bus: operations
\* take effect once, in order and in one step, and are answered with what
\* came of them.
BusSpec == B!Spec

\* The router process ends by itself only when every client has logged out
\* without an error and no message and no queued transaction is left.
CleanExit ==
    up = "exited" =>
        /\ masterCount = 0
        /\ \A m \in Masters : txns[m] = {}
        /\ \A c \in Clients :
             /\ bridge[c].state \in {"LOGGED_OUT", "DISCONNECTED"}
             /\ bridge[c].readerStatus = "ok" /\ bridge[c].writerStatus = "ok"
             /\ toRouter[c] = <<>> /\ toClient[c] = <<>> /\ q[c].items = <<>>

\* waitForCompletion reports success only when the application has an answer
\* to everything it issued.
CompletionIsHonest ==
    \A c \in Clients :
        /\ bridge[c].app = "completed"
        /\ bridge[c].readerStatus = "ok" /\ bridge[c].writerStatus = "ok"
        => \A k \in DOMAIN ops[c] : ops[c][k].status # "pending"

\* The reader has called finish, and the writer waits for a notification.
LostFinish(c) ==
    bridge[c].reader = "exited" /\ q[c].done /\ q[c].consumer = "waiting"

\* The reader is in the endless loop of readFromSocket.
Spinning(c) == bridge[c].reader = "spinning"

\* Every operation gets its answer.  Both sockets may be full while route, its
\* goroutines and the writer all wait to pass a message on: the reader, which
\* only queues its responses, ends the jam.
OperationsComplete ==
    \A c \in Clients : \A k \in 1 .. MaxOps :
        (Len(ops[c]) >= k) ~> (Len(ops[c]) >= k /\ ops[c][k].status # "pending")

\* Once all masters are terminated every waitForCompletion returns and the
\* router exits, unless a writer has missed the call of finish.
Completes ==
    (Masters \subseteq terminated) ~>
        \/ \E c \in Clients : LostFinish(c)
        \/ up = "exited" /\ \A c \in Clients : bridge[c].app # "running"

\* When the router dies no client waits for it forever, except one whose
\* writer has missed the call of finish and one whose reader was in the middle
\* of a message; neither of them holds up another client.
FailureIsSeen ==
    \A c \in Clients :
        (up = "fatal") ~> (bridge[c].app # "running" \/ LostFinish(c) \/ Spinning(c))
-----------------------------------------------------------------------------
(* What the documentation says and the code does not do *)

\* The targets that the router may choose for a request.
TargetsOf(t) == findTarget(Ips, ipMMap, t.address, t.size)

\* findTarget: "Return the IP ID and the Client ID of the IP block", so a
\* request is sent to the client that owns the block.
RequestReachesOwner ==
    \A c \in Clients : \A k \in DOMAIN toClient[c] :
        IsRequest(toClient[c][k]) =>
            \E p \in TargetsOf(toClient[c][k].txn) \ {0} : Ips[p].owner = c

\* Transaction::target: "The IP block that processed the transaction; set by
\* the router".
TargetIsSet ==
    \A c \in Clients : \A k \in DOMAIN toClient[c] :
        IsRequest(toClient[c][k]) =>
            toClient[c][k].txn.target + 1 \in TargetsOf(toClient[c][k].txn)

\* "Terminate the master; no further operation will be allowed": the call
\* ends one master, not the router with the other masters' operations.
TerminateEndsOneMaster == up # "fatal"
=============================================================================
