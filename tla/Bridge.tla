------------------------------- MODULE Bridge -------------------------------
(***************************************************************************)
(* The life of one Bridge object (SwAxi.cc): the calls of its application, *)
(* in any order that the application may choose, its reader and writer     *)
(* threads, and what one session leaves behind for the next.  A session    *)
(* begins with a connect that succeeds; its number names the socket, the   *)
(* router at its other end and the slave and master registered in it.      *)
(*                                                                         *)
(* The traffic of a session is reduced to what matters to the life cycle:  *)
(* messages arrive at once, and a call of the queue is one step (Traffic   *)
(* and QueueThreads have those steps apart).                               *)
(***************************************************************************)
EXTENDS Queue, Integers, FiniteSets, Functions

CONSTANTS Orderly,      \* whether the application waits for the threads before
                        \* it closes the bridge, and closes it before it
                        \* connects again
          Faults,       \* whether routers refuse and die
          ListLen,      \* the length of the router's lists of peers and of blocks
          MaxSessions,  \* bound: sessions
          MaxOps,       \* bound: operations of the application
          MaxRequests   \* bound: messages that other clients cause

ASSUME SwitchesAssumption == Orderly \in BOOLEAN /\ Faults \in BOOLEAN
ASSUME BoundsAssumption ==
    /\ ListLen \in Nat /\ MaxSessions \in Nat
    /\ MaxOps \in Nat /\ MaxRequests \in Nat

RC == INSTANCE RouterClient

VARIABLES client,      \* Bridge.client
          bridge,      \* routerInfo, peers, ipBlocks, slaveMap and masterMap; an
                       \* object is named by its session, 0 is a null pointer
          q,           \* Bridge.queue
          reader,      \* readerThread and readerStatus
          writer,      \* writerThread and writerStatus
          main,        \* where the application's main thread is, whether it has
                       \* closed the bridge, and whether it has started the
                       \* bridge and not waited for it since
          session,     \* the number of sessions so far
          ops,         \* the operations issued, with their futures
          terminated,  \* the sessions whose master is terminated
          slaves,      \* session: what has become of its slave
          router       \* the router of this session

appVars == <<main, session, ops, terminated, slaves>>
vars == <<client, bridge, q, reader, writer, appVars, router>>

Sessions == 1 .. MaxSessions

\* A bridge has at most a slave and a master here.
Ids == {0, 1}

\* MasterMd, an entry of masterMap.
NewMasterMd == [master |-> 0, txns |-> {}]

NewBridge == [routerInfo |-> 0, peers |-> <<>>, ipBlocks |-> <<>>,
              slaveMap |-> <<>>, masterMap |-> <<>>]

\* The entries of the queue (Master::Txn): a request with the operation whose
\* promise it holds, the termination of a master, the response of a slave.
Request(id, op)  == [type |-> "REQ", id |-> id, op |-> op]
Termination(id)  == [type |-> "TERMINATE", id |-> id, op |-> 0]
Response(slave)  == [type |-> "RESP", id |-> slave, op |-> 0]
NoItem           == [type |-> "NONE", id |-> 0, op |-> 0]

\* A router, with the peers and blocks that it has yet to send.
NewRouter == [up |-> TRUE, peers |-> ListLen, blocks |-> ListLen, toBridge |-> <<>>,
              unanswered |-> {}, asked |-> 0, requests |-> 0,
              terminated |-> {}, done |-> FALSE]

\* Another router; the bound on requests is for all of them.
NextRouter == [NewRouter EXCEPT !.requests = router.requests]

Init ==
    /\ client = RC!NewClient
    /\ bridge = NewBridge
    /\ q = NewQueue
    /\ reader = [pc |-> "none", status |-> "ok", on |-> 0, slave |-> 0]
    /\ writer = [pc |-> "none", status |-> "ok", item |-> NoItem]
    /\ main = [pc |-> "idle", closed |-> TRUE, running |-> FALSE]
    /\ session = 0
    /\ ops = <<>>
    /\ terminated = {}
    /\ slaves = [s \in Sessions |-> "none"]
    /\ router = NewRouter
-----------------------------------------------------------------------------
(* The main thread *)

\* The process runs and the bridge exists.
Alive == main.pc \notin {"destroyed", "aborted", "thrown", "killed"}

\* Neither thread object stands for a thread.
Joined == reader.pc = "none" /\ writer.pc = "none"

Put(map, id, x) == [i \in DOMAIN map \cup {id} |-> IF i = id THEN x ELSE map[i]]

\* What a call of the client may return here: routers that have no faults
\* grant what the protocol allows.
Outcomes(results) ==
    LET granted == {res \in results : res.status = "ok"}
    IN  IF Faults \/ granted = {} THEN results ELSE granted

\* Mistake: the writer is not notified.
PushQuietly(item) == q' = Enqueue(q, item)

\* queue->push.
Push(item) == q' = NotifyOne(Enqueue(q, item))

\* The promises of these operations are destroyed without a value.
Broken(S) == [k \in DOMAIN ops |-> IF k \in S /\ ops[k].status = "pending"
                                   THEN [ops[k] EXCEPT !.status = "broken"]
                                   ELSE ops[k]]

Recorded == UNION {bridge.masterMap[i].txns : i \in DOMAIN bridge.masterMap}

Queued == {item.op : item \in Range(q.items)}

\* Bridge::connect.
connect ==
    /\ main.pc = "idle" /\ session < MaxSessions
    /\ Orderly => main.closed
    /\ \E res \in Outcomes(RC!connect(client)) :
         /\ client' = res.client
         /\ IF res.status = "ok"
            THEN /\ session' = session + 1
                 /\ bridge' = [bridge EXCEPT !.routerInfo = session + 1]
                 /\ router' = NextRouter
                 /\ main' = [main EXCEPT !.closed = FALSE]
            ELSE UNCHANGED <<session, bridge, router, main>>
    /\ UNCHANGED <<q, reader, writer, ops, terminated, slaves>>

\* The ids that the router has given to blocks of this session.
Given ==
    {i \in DOMAIN bridge.slaveMap : bridge.slaveMap[i] = session}
        \cup {i \in DOMAIN bridge.masterMap : bridge.masterMap[i].master = session}

\* Every session has a router of its own, which numbers the blocks in the
\* order in which they are registered (IdIsIndex in IpRegistry).
NextId == Cardinality(Given)

\* The id of the master that the application has, if it has one.
MasterIds == {i \in DOMAIN bridge.masterMap : bridge.masterMap[i].master = session}

\* Bridge::registerSlave, once in a session.
registerSlave ==
    /\ main.pc = "idle" /\ session \in Sessions /\ slaves[session] = "none"
    /\ \E res \in Outcomes(RC!registerIp(client)) :
         /\ client' = res.client
         /\ IF res.status = "ok"
            THEN /\ bridge' = [bridge EXCEPT !.slaveMap = Put(@, NextId, session)]
                 /\ slaves' = [slaves EXCEPT ![session] = "owned"]
            ELSE UNCHANGED <<bridge, slaves>>
    /\ UNCHANGED <<q, reader, writer, main, session, ops, terminated, router>>

\* masterMap[id].master = master, in an entry that may be there already.
SetMaster(map, id) ==
    Put(map, id, [(IF id \in DOMAIN map THEN map[id] ELSE NewMasterMd)
                      EXCEPT !.master = session])

\* Bridge::registerMaster, once in a session.
registerMaster ==
    /\ main.pc = "idle" /\ session \in Sessions /\ MasterIds = {}
    /\ \E res \in Outcomes(RC!registerIp(client)) :
         /\ client' = res.client
         /\ IF res.status = "ok"
            THEN bridge' = [bridge EXCEPT !.masterMap = SetMaster(@, NextId)]
            ELSE UNCHANGED bridge
    /\ UNCHANGED <<q, reader, writer, appVars, router>>

\* Bridge::commitIp.
commitIp ==
    /\ main.pc = "idle"
    /\ \E res \in Outcomes(RC!commitIp(client)) : client' = res.client
    /\ UNCHANGED <<bridge, q, reader, writer, appVars, router>>

\* Mistake: the blocks of the last session stay in the list.
ClearKeepingBlocks ==
    /\ client' = RC!disconnect(client)
    /\ bridge' = [NewBridge EXCEPT !.peers = bridge.peers, !.ipBlocks = bridge.ipBlocks]
    /\ slaves' = [s \in Sessions |->
                    IF s \in Range(bridge.slaveMap) THEN "deleted" ELSE slaves[s]]
    /\ router' = NextRouter

\* Mistake: the map of slaves is not cleared.
ClearKeepingSlaves ==
    /\ client' = RC!disconnect(client)
    /\ bridge' = [NewBridge EXCEPT !.peers = bridge.peers, !.slaveMap = bridge.slaveMap]
    /\ slaves' = [s \in Sessions |->
                    IF s \in Range(bridge.slaveMap) THEN "deleted" ELSE slaves[s]]
    /\ router' = NextRouter

\* Bridge::disconnect, without the promises in masterMap.  The router of a
\* closed session matters no more.
Clear ==
    /\ client' = RC!disconnect(client)
    /\ bridge' = [NewBridge EXCEPT !.peers = bridge.peers]
    /\ slaves' = [s \in Sessions |->
                    IF s \in Range(bridge.slaveMap) THEN "deleted" ELSE slaves[s]]
    /\ router' = NextRouter

disconnect ==
    /\ main.pc = "idle"
    /\ Orderly => ~main.running
    /\ Clear
    /\ ops' = Broken(Recorded)
    /\ main' = [main EXCEPT !.closed = TRUE]
    /\ UNCHANGED <<q, reader, writer, session, terminated>>

\* Bridge::start is called.
start ==
    /\ main.pc = "idle"
    /\ Orderly => ~main.running
    /\ main' = [main EXCEPT !.pc = "peers"]
    /\ UNCHANGED <<client, bridge, q, reader, writer, session, ops, terminated,
                   slaves, router>>

startPeer ==
    /\ main.pc = "peers" /\ router.peers > 0
    /\ \E res \in RC!retrievePeerInfo(client) :
         /\ res.status = "ok" /\ res.value
         /\ client' = res.client
    /\ bridge' = [bridge EXCEPT !.peers = Append(@, session)]
    /\ router' = [router EXCEPT !.peers = @ - 1]
    /\ UNCHANGED <<q, reader, writer, appVars>>

startPeersEnd ==
    /\ main.pc = "peers" /\ router.peers = 0
    /\ \E res \in RC!retrievePeerInfo(client) :
         /\ res.status = "ok" /\ ~res.value
         /\ client' = res.client
    /\ main' = [main EXCEPT !.pc = "blocks"]
    /\ UNCHANGED <<bridge, q, reader, writer, session, ops, terminated, slaves, router>>

startBlock ==
    /\ main.pc = "blocks" /\ router.blocks > 0
    /\ \E res \in RC!retrieveIpConfig(client) :
         /\ res.status = "ok" /\ res.value
         /\ client' = res.client
    /\ bridge' = [bridge EXCEPT !.ipBlocks = Append(@, session)]
    /\ router' = [router EXCEPT !.blocks = @ - 1]
    /\ UNCHANGED <<q, reader, writer, appVars>>

\* The lists are complete.  Assigning to an object that stands for a thread
\* ends the process.
startThreads ==
    /\ main.pc = "blocks" /\ router.blocks = 0
    /\ \E res \in RC!retrieveIpConfig(client) :
         /\ res.status = "ok" /\ ~res.value
         /\ client' = res.client
    /\ IF Joined
       THEN /\ reader' = [reader EXCEPT !.pc = "enter"]
            /\ writer' = [writer EXCEPT !.pc = "pop"]
            /\ main' = [main EXCEPT !.pc = "idle", !.running = TRUE]
       ELSE /\ main' = [main EXCEPT !.pc = "aborted"]
            /\ UNCHANGED <<reader, writer>>
    /\ UNCHANGED <<bridge, q, session, ops, terminated, slaves, router>>

\* A call of the client has failed, and start disconnects the bridge.
startFail ==
    /\ \/ /\ main.pc = "peers"
          /\ \E res \in Outcomes(RC!retrievePeerInfo(client)) : res.status = "error"
       \/ /\ main.pc = "blocks"
          /\ \E res \in Outcomes(RC!retrieveIpConfig(client)) : res.status = "error"
    /\ Clear
    /\ ops' = Broken(Recorded)
    /\ main' = [main EXCEPT !.pc = "idle", !.closed = TRUE]
    /\ UNCHANGED <<q, reader, writer, session, terminated>>

\* Bridge::waitForCompletion is called; to join what is not a thread throws.
waitForCompletion ==
    /\ main.pc = "idle"
    /\ Orderly => main.running
    /\ main' = [main EXCEPT !.pc = IF reader.pc = "none" THEN "thrown" ELSE "joinReader"]
    /\ UNCHANGED <<client, bridge, q, reader, writer, session, ops, terminated,
                   slaves, router>>

joinReader ==
    /\ main.pc = "joinReader" /\ reader.pc = "ended"
    /\ main' = [main EXCEPT !.pc = "joinWriter"]
    /\ reader' = [reader EXCEPT !.pc = "none", !.on = 0]
    /\ UNCHANGED <<client, bridge, q, writer, session, ops, terminated, slaves, router>>

\* Mistake: the writer is not waited for.
joinWriterNot ==
    /\ main.pc = "joinWriter"
    /\ main' = [main EXCEPT !.pc = "idle", !.running = FALSE]
    /\ UNCHANGED <<client, bridge, q, reader, writer, session, ops, terminated,
                   slaves, router>>

joinWriter ==
    /\ main.pc = "joinWriter" /\ writer.pc = "ended"
    /\ main' = [main EXCEPT !.pc = "idle", !.running = FALSE]
    /\ writer' = [writer EXCEPT !.pc = "none"]
    /\ UNCHANGED <<client, bridge, q, reader, session, ops, terminated, slaves, router>>

\* ~Bridge: disconnect, then the members; the destructor of an object that
\* stands for a thread ends the process.
destroy ==
    /\ main.pc = "idle"
    /\ Orderly => ~main.running
    /\ Clear
    /\ ops' = Broken(IF Joined THEN Recorded \cup Queued ELSE Recorded)
    /\ main' = [main EXCEPT !.pc = IF Joined THEN "destroyed" ELSE "aborted"]
    /\ UNCHANGED <<q, reader, writer, session, terminated>>
-----------------------------------------------------------------------------
(* The master, in any thread of the application *)

\* Master::read and Master::write.
issue ==
    /\ Alive /\ Len(ops) < MaxOps /\ session \notin terminated
    /\ \E id \in MasterIds : Push(Request(id, Len(ops) + 1))
    /\ ops' = Append(ops, [session |-> session, status |-> "pending"])
    /\ UNCHANGED <<client, bridge, reader, writer, main, session, terminated, slaves, router>>

\* Master::terminate, when the operations have their answers.
terminate ==
    /\ Alive /\ session \notin terminated
    /\ \A k \in DOMAIN ops : ops[k].session = session => ops[k].status # "pending"
    /\ \E id \in MasterIds : Push(Termination(id))
    /\ terminated' = terminated \cup {session}
    /\ UNCHANGED <<client, bridge, reader, writer, main, session, ops, slaves, router>>
-----------------------------------------------------------------------------
(* Bridge::writer *)

\* pop returns a transaction; a request is recorded in masterMap.
writerTake ==
    /\ Alive /\ writer.pc = "pop" /\ CanTake(q)
    /\ q' = Take(q)
    /\ writer' = [writer EXCEPT !.pc = "send", !.item = Head(q.items)]
    /\ LET item == Head(q.items)
           old  == IF item.id \in DOMAIN bridge.masterMap
                   THEN bridge.masterMap[item.id] ELSE NewMasterMd
       IN  bridge' = IF item.type = "REQ"
                     THEN [bridge EXCEPT !.masterMap =
                             Put(@, item.id, [old EXCEPT !.txns = @ \cup {item.op}])]
                     ELSE bridge
    /\ UNCHANGED <<client, reader, appVars, router>>

writerWait ==
    /\ Alive /\ writer.pc = "pop" /\ CanWait(q)
    /\ q' = Wait(q)
    /\ UNCHANGED <<client, bridge, reader, writer, appVars, router>>

\* pop returns false.
writerStop ==
    /\ Alive /\ writer.pc = "pop" /\ CanStop(q)
    /\ q' = Leave(q)
    /\ writer' = [writer EXCEPT !.pc = "logout"]
    /\ UNCHANGED <<client, bridge, reader, appVars, router>>

\* The router takes a request, a termination or a response.
Deliver(item) ==
    router' = CASE item.type = "REQ"       -> [router EXCEPT !.unanswered = @ \cup {item}]
                [] item.type = "TERMINATE" -> [router EXCEPT !.terminated = @ \cup {item.id}]
                [] OTHER                   ->  \* a response
                     IF item.id = session THEN [router EXCEPT !.asked = @ - 1] ELSE router

writerSend ==
    /\ Alive /\ writer.pc = "send" /\ router.up
    /\ \E res \in RC!send(client) : res.status = "ok" /\ client' = res.client
    /\ Deliver(writer.item)
    /\ writer' = [writer EXCEPT !.pc = "pop", !.item = NoItem]
    /\ UNCHANGED <<bridge, q, reader, appVars>>

writerLogout ==
    /\ Alive /\ writer.pc = "logout" /\ router.up
    /\ \E res \in RC!sendLogout(client) : res.status = "ok" /\ client' = res.client
    /\ writer' = [writer EXCEPT !.pc = "ended", !.status = "ok"]
    /\ UNCHANGED <<bridge, q, reader, appVars, router>>

\* The client refuses to send.
writerFail ==
    /\ Alive /\ writer.pc \in {"send", "logout"} /\ client.state # "STARTED"
    /\ writer' = [writer EXCEPT !.pc = "ended", !.status = "error", !.item = NoItem]
    /\ UNCHANGED <<client, bridge, q, reader, appVars, router>>

\* A write to a router that has gone raises SIGPIPE.
writerKilled ==
    /\ Alive /\ writer.pc \in {"send", "logout"}
    /\ client.state = "STARTED" /\ ~router.up
    /\ main' = [main EXCEPT !.pc = "killed"]
    /\ UNCHANGED <<client, bridge, q, reader, writer, session, ops, terminated,
                   slaves, router>>
-----------------------------------------------------------------------------
(* Bridge::reader *)

\* Mistake: the reader returns without finishing the queue.
EndReaderUnfinished(status) ==
    /\ reader' = [reader EXCEPT !.pc = "ended", !.status = status]
    /\ UNCHANGED q

\* The thread's function returns, after queue.finish.
EndReader(status) ==
    /\ reader' = [reader EXCEPT !.pc = "ended", !.status = status]
    /\ q' = NotifyOne(SetDone(q))

\* receiveTransaction is called and goes on to read from the socket.
readerEnter ==
    /\ Alive /\ reader.pc = "enter" /\ client.state = "STARTED"
    /\ reader' = [reader EXCEPT !.pc = "read", !.on = session]
    /\ UNCHANGED <<client, bridge, q, writer, appVars, router>>

\* receiveTransaction refuses because of the client's state.
readerRefused ==
    /\ Alive /\ reader.pc = "enter" /\ client.state # "STARTED"
    /\ EndReader("error")
    /\ UNCHANGED <<client, bridge, writer, appVars, router>>

\* A message comes out of the socket.
Receive(type) ==
    /\ Alive /\ reader.pc = "read" /\ reader.on = session /\ client.sock
    /\ router.toBridge # <<>>
    /\ Head(router.toBridge).type = type
    /\ router' = [router EXCEPT !.toBridge = Tail(@)]

receiveDone ==
    /\ Receive("DONE")
    /\ EndReader("ok")
    /\ UNCHANGED <<client, bridge, writer, appVars>>

\* The promise of a recorded request gets its value.
receiveResponse ==
    /\ Receive("RESP")
    /\ LET msg == Head(router.toBridge)
       IN  /\ msg.id \in DOMAIN bridge.masterMap
           /\ msg.op \in bridge.masterMap[msg.id].txns
           /\ bridge' = [bridge EXCEPT !.masterMap[msg.id].txns = @ \ {msg.op}]
           /\ ops' = [ops EXCEPT ![msg.op].status = "answered"]
    /\ reader' = [reader EXCEPT !.pc = "enter"]
    /\ UNCHANGED <<client, q, writer, main, session, terminated, slaves>>

\* The slave's handler is called.
receiveRequest ==
    /\ Receive("REQ")
    /\ LET id == Head(router.toBridge).id
       IN  /\ id \in DOMAIN bridge.slaveMap
           /\ reader' = [reader EXCEPT !.pc = "use", !.slave = bridge.slaveMap[id]]
    /\ UNCHANGED <<client, bridge, q, writer, appVars>>

\* The handler returns and the response is queued.
respond ==
    /\ Alive /\ reader.pc = "use"
    /\ Push(Response(reader.slave))
    /\ reader' = [reader EXCEPT !.pc = "enter", !.slave = 0]
    /\ UNCHANGED <<client, bridge, writer, appVars, router>>

\* A response to a request, or a request for a slave, that the bridge does
\* not know.
receiveUnknown ==
    /\ \/ /\ Receive("RESP")
          /\ LET msg == Head(router.toBridge)
             IN  ~ /\ msg.id \in DOMAIN bridge.masterMap
                   /\ msg.op \in bridge.masterMap[msg.id].txns
       \/ /\ Receive("REQ")
          /\ Head(router.toBridge).id \notin DOMAIN bridge.slaveMap
    /\ EndReader("error")
    /\ UNCHANGED <<client, bridge, writer, appVars>>

\* The connection has ended between two messages.  When the socket was closed
\* under the blocked reader, the read goes on until the router sends something
\* or goes away.
receiveFail ==
    /\ Alive
    /\ \/ reader.pc = "read" /\ ~router.up /\ router.toBridge = <<>>
       \/ reader.pc \in {"read", "spin"} /\ (~client.sock \/ reader.on # session)
    /\ client' = RC!disconnect(client)
    /\ EndReader("error")
    /\ UNCHANGED <<bridge, writer, appVars, router>>

\* The router has died between the size and the end of a message.  read
\* returns 0 then, which readFromSocket does not take for an error: the reader
\* is in an endless loop, until somebody closes the socket under it.
receiveSpin ==
    /\ Alive /\ reader.pc = "read" /\ reader.on = session /\ client.sock
    /\ ~router.up /\ ~router.done /\ router.toBridge = <<>>
    /\ reader' = [reader EXCEPT !.pc = "spin"]
    /\ UNCHANGED <<client, bridge, q, writer, appVars, router>>
-----------------------------------------------------------------------------
(* The router, as a bridge sees it.  Its other clients are orderly too: DONE
   comes when this bridge owes no answer and is owed none. *)

Sending == router.up /\ client.state \in {"STARTED", "LOGGED_OUT"} /\ ~router.done

routerAnswer ==
    /\ Sending
    /\ \E item \in router.unanswered :
         router' = [router EXCEPT !.unanswered = @ \ {item},
                                  !.toBridge = Append(@, [item EXCEPT !.type = "RESP"])]
    /\ UNCHANGED <<client, bridge, q, reader, writer, appVars>>

\* A request for the slave; a router with faults sends requests and responses
\* to bridges that they are not meant for (RequestReachesOwner in Traffic).
routerRequest ==
    /\ Sending /\ router.requests < MaxRequests
    /\ \E msg \in {[type |-> "REQ", id |-> i, op |-> 0] : i \in Ids}
                     \cup {[NoItem EXCEPT !.type = "RESP"]} :
         /\ Faults \/ (msg.type = "REQ" /\ msg.id \in Given \ MasterIds)
         /\ router' = [router EXCEPT !.asked = @ + 1, !.requests = @ + 1,
                                     !.toBridge = Append(@, msg)]
    /\ UNCHANGED <<client, bridge, q, reader, writer, appVars>>

routerDone ==
    /\ Sending
    /\ MasterIds \subseteq router.terminated
    /\ router.unanswered = {} /\ router.asked = 0
    /\ router' = [router EXCEPT !.done = TRUE,
                                !.toBridge = Append(@, [NoItem EXCEPT !.type = "DONE"])]
    /\ UNCHANGED <<client, bridge, q, reader, writer, appVars>>

\* A router that dies before the bridge is started makes a call fail.
routerDies ==
    /\ Faults /\ router.up /\ client.state \in {"STARTED", "LOGGED_OUT"}
    /\ router' = [router EXCEPT !.up = FALSE]
    /\ UNCHANGED <<client, bridge, q, reader, writer, appVars>>
-----------------------------------------------------------------------------
Calls ==
    \/ connect \/ registerSlave \/ registerMaster \/ commitIp \/ start
    \/ waitForCompletion \/ disconnect \/ destroy

Start == startPeer \/ startPeersEnd \/ startBlock \/ startThreads \/ startFail

Join == joinReader \/ joinWriter

Writer ==
    \/ writerTake \/ writerWait \/ writerStop
    \/ writerSend \/ writerLogout \/ writerFail \/ writerKilled

Reader ==
    \/ readerEnter \/ readerRefused \/ receiveDone \/ receiveResponse
    \/ receiveRequest \/ respond \/ receiveUnknown \/ receiveFail
    \/ receiveSpin

Router == routerAnswer \/ routerRequest \/ routerDone \/ routerDies

\* The application is free to stop calling the bridge.
Next == Calls \/ Start \/ Join \/ issue \/ terminate \/ Writer \/ Reader \/ Router

\* Threads that can run do run, a router answers and sends DONE when it can,
\* and the application terminates its masters in the end.  Nothing is assumed
\* of the calls that wait for the router, start among them: readFromSocket may
\* keep them for ever (CallsReturn in Handshake).
Fairness ==
    /\ WF_vars(Join)
    /\ WF_vars(Writer) /\ WF_vars(Reader)
    /\ WF_vars(terminate)
    /\ WF_vars(routerAnswer) /\ WF_vars(routerDone)

Spec == Init /\ [][Next]_vars /\ Fairness
-----------------------------------------------------------------------------
(* Properties *)

Receiving == Alive /\ reader.pc \in {"enter", "read", "spin", "use"}

\* The reader is in the endless loop of readFromSocket.
Spinning == reader.pc = "spin"

\* Bridge::enumerateIp and Bridge::enumeratePeers: the list, or the empty one
\* with an error.
enumerateIp    == IF client.state = "STARTED" THEN bridge.ipBlocks ELSE <<>>
enumeratePeers == IF client.state = "STARTED" THEN bridge.peers ELSE <<>>

\* A bridge that is used again starts afresh: in a started session the blocks
\* are the ones that this session's router has sent, its peers are all in the
\* list of peers, and the router's description is of this session.
SessionIsItsOwn ==
    Receiving =>
        /\ bridge.ipBlocks = [k \in 1 .. ListLen |-> session]
        /\ Cardinality({k \in DOMAIN bridge.peers : bridge.peers[k] = session}) = ListLen
        /\ bridge.routerInfo = session

\* The reader does not call a slave that disconnect has deleted, neither one
\* of an earlier session nor one of its own.
NoUseAfterFree == Alive /\ reader.pc = "use" => slaves[reader.slave] = "owned"

\* Neither ~Bridge nor start ends the process because of a thread that was
\* not waited for.
NeverAborts == main.pc # "aborted"

\* The writer leaves while the reader is still receiving.
LoggedOutEarly == Receiving /\ writer.pc \in {"logout", "ended"}

\* That happens only to a bridge that has had a session before, whose call of
\* finish is remembered in the queue.
EarlyLogoutIsStale == LoggedOutEarly => session > 1 /\ q.done

\* The reader has called finish, and the writer waits for a notification.
LostFinish == reader.pc \in {"none", "ended"} /\ q.done /\ q.consumer = "waiting"

\* waitForCompletion returns, also when the router dies, unless the writer
\* has missed the call of finish or has left too early, or the router died in
\* the middle of a message to the bridge.
WaitReturns ==
    (main.pc \in {"joinReader", "joinWriter"}) ~>
        \/ main.pc \notin {"joinReader", "joinWriter"}
        \/ LostFinish \/ LoggedOutEarly \/ Spinning

\* Operation k of this session waits for its answer.
Waits(k) == /\ Len(ops) >= k /\ ops[k].status = "pending"
            /\ ops[k].session = session /\ Receiving

\* While its session goes on an operation is answered, unless the writer has
\* left too early or the router died in the middle of a message.
OperationsEnd ==
    \A k \in 1 .. MaxOps : Waits(k) ~> (~Waits(k) \/ LoggedOutEarly \/ Spinning)
-----------------------------------------------------------------------------
(* What the documentation says and the code does not do *)

\* enumeratePeers lists the connected peers.
PeersAreConnected == Range(enumeratePeers) \subseteq {session}

\* The future of an operation has the status when the operation completes:
\* while its session goes on an operation is answered.
FuturesComplete == \A k \in 1 .. MaxOps : Waits(k) ~> ~Waits(k)

\* getRouterInfo returns a null pointer when the bridge is not connected.
RouterInfoWhenConnected == (bridge.routerInfo # 0) = (client.state # "DISCONNECTED")
=============================================================================
