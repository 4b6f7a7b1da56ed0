---------------------------- MODULE BridgeProofs ----------------------------
(***************************************************************************)
(* Proofs about the life of a bridge whose application is orderly: it      *)
(* waits for the threads before it closes the bridge, and closes the       *)
(* bridge before it connects again.  They hold for any number of sessions, *)
(* operations and requests, for lists of any length, and for routers with  *)
(* and without faults.                                                     *)
(***************************************************************************)
EXTENDS Bridge, FiniteSetTheorems, TLAPS

\* A client with a socket, in state s.
Connected(s) == [state |-> s, sock |-> TRUE]

\* A client has a socket unless it is disconnected.
GoodClient(c) ==
    c = RC!NewClient \/ \E s \in RC!States \ {"DISCONNECTED"} : c = Connected(s)

\* The reader thread is in its loop.
InLoop == reader.pc \in {"enter", "read", "spin", "use"}

\* The peers in the list that are of this session.
OwnPeers == {k \in DOMAIN bridge.peers : bridge.peers[k] = session}

Shape ==
    /\ GoodClient(client)
    /\ DOMAIN bridge = {"routerInfo", "peers", "ipBlocks", "slaveMap", "masterMap"}
    /\ bridge.peers \in Seq(Nat) /\ bridge.ipBlocks \in Seq(Nat)
    /\ DOMAIN q = {"items", "done", "consumer"}
    /\ DOMAIN reader = {"pc", "status", "on", "slave"}
    /\ reader.pc \in {"none", "enter", "read", "spin", "use", "ended"}
    /\ DOMAIN writer = {"pc", "status", "item"}
    /\ writer.pc \in {"none", "pop", "send", "logout", "ended"}
    /\ DOMAIN main = {"pc", "closed", "running"}
    /\ session \in Nat
    /\ slaves \in [Sessions -> {"none", "owned", "deleted"}]
    /\ DOMAIN router = {"up", "peers", "blocks", "toBridge", "unanswered", "asked",
                        "requests", "terminated", "done"}
    /\ router.peers \in Nat /\ router.blocks \in Nat

\* The threads and the main thread: a bridge that the application does not
\* have to wait for has no threads.
ThreadsInv ==
    /\ main.pc # "aborted"
    /\ ~main.running => Joined
    /\ main.pc \in {"peers", "blocks"} => ~main.running
    /\ main.pc = "joinWriter" => reader.pc = "none"

\* The state of the client: a closed bridge is disconnected, and the client
\* of a reader in its loop stays connected until the writer logs out.
ClientInv ==
    /\ main.closed => client.state = "DISCONNECTED"
    /\ main.running => ~main.closed
    /\ client.state # "DISCONNECTED" => session > 0
    /\ InLoop => client.state \in {"STARTED", "LOGGED_OUT"}
    /\ InLoop /\ writer.pc \in {"pop", "send"} => client.state = "STARTED"

\* What the session has got of the lists and what the router has yet to send
\* make up the lists.
ListsInv ==
    /\ \A k \in DOMAIN bridge.peers : bridge.peers[k] <= session
    /\ main.closed => bridge.ipBlocks = <<>>
    /\ ~main.closed /\ main.pc # "destroyed" =>
                       /\ bridge.routerInfo = session
                       /\ Cardinality(OwnPeers) + router.peers = ListLen
                       /\ Len(bridge.ipBlocks) + router.blocks = ListLen
                       /\ \A k \in DOMAIN bridge.ipBlocks : bridge.ipBlocks[k] = session
    /\ client.state \in {"PEER_INFO_RECEIVED", "STARTED", "LOGGED_OUT"} => router.peers = 0
    /\ client.state \in {"STARTED", "LOGGED_OUT"} => router.blocks = 0

\* The slaves that the bridge can find, and the one in use, are not deleted.
SlavesInv ==
    /\ \A i \in DOMAIN bridge.slaveMap : /\ bridge.slaveMap[i] \in Sessions
                                         /\ slaves[bridge.slaveMap[i]] = "owned"
    /\ reader.pc = "use" => reader.slave \in Sessions /\ slaves[reader.slave] = "owned"

\* finish is called at the end of a session, and the first session has no
\* other threads after that.
DoneInv ==
    /\ q.done => session > 0
    /\ q.done /\ session = 1 => /\ ~InLoop
                                /\ client.state \in {"STARTED", "LOGGED_OUT", "DISCONNECTED"}
    /\ InLoop /\ writer.pc \in {"logout", "ended"} => q.done

IndInv == Shape /\ ThreadsInv /\ ClientInv /\ ListsInv /\ SlavesInv /\ DoneInv
-----------------------------------------------------------------------------
(* The calls of the client *)

\* What the operators of RouterClient make of a good client.
LEMMA ClientFields ==
    /\ RC!NewClient.state = "DISCONNECTED"
    /\ \A s : Connected(s).state = s
    /\ \A s, t : RC!Enter(Connected(s), t) = Connected(t)
    /\ [RC!NewClient EXCEPT !.sock = TRUE] = Connected("DISCONNECTED")
    /\ RC!disconnect(RC!NewClient) = RC!NewClient
    /\ \A s : RC!disconnect(Connected(s)) = RC!NewClient
  <1>1. RC!NewClient.state = "DISCONNECTED"
    BY DEF RC!NewClient
  <1>2. \A s : Connected(s).state = s
    BY DEF Connected
  <1>3. \A s, t : RC!Enter(Connected(s), t) = Connected(t)
    <2>1. ASSUME NEW s, NEW t
          PROVE  [[state |-> s, sock |-> TRUE] EXCEPT !.state = t] = [state |-> t, sock |-> TRUE]
      <3>1. \A k : [[state |-> s, sock |-> k] EXCEPT !.state = t] = [state |-> t, sock |-> k]
        OBVIOUS
      <3> QED
        BY <3>1, Zenon
    <2> QED
      BY <2>1, Zenon DEF RC!Enter, Connected
  <1>4. [RC!NewClient EXCEPT !.sock = TRUE] = Connected("DISCONNECTED")
    <2>1. \A s, k, l : [[state |-> s, sock |-> k] EXCEPT !.sock = l] = [state |-> s, sock |-> l]
      OBVIOUS
    <2> QED
      BY <2>1, Zenon DEF RC!NewClient, Connected
  <1>5. RC!disconnect(RC!NewClient) = RC!NewClient
    BY DEF RC!disconnect
  <1>6. \A s : RC!disconnect(Connected(s)) = RC!NewClient
    <2>1. \A s : Connected(s).sock = TRUE
      BY DEF Connected
    <2> QED
      BY <2>1 DEF RC!disconnect
  <1> QED
    BY <1>1, <1>2, <1>3, <1>4, <1>5, <1>6

\* The results there are: an error, success with a value, and without.
Failure(c) == RC!Result(c, "error", FALSE)
Value(c)   == RC!Result(c, "ok", TRUE)
Success(c) == RC!Result(c, "ok", FALSE)

\* The fields of a result.
LEMMA ResultFields ==
    \A c : /\ Failure(c).client = c /\ Failure(c).status = "error"
           /\ Value(c).client = c /\ Value(c).status = "ok" /\ Value(c).value
           /\ Success(c).client = c /\ Success(c).status = "ok" /\ ~Success(c).value
  BY DEF RC!Result, Failure, Value, Success

\* disconnect leaves a new client.
LEMMA DisconnectedClient ==
    ASSUME NEW c, GoodClient(c)
    PROVE  RC!disconnect(c) = RC!NewClient /\ GoodClient(RC!NewClient)
  BY ClientFields DEF GoodClient

\* A disconnected client is a new one.
LEMMA NewWhenDisconnected ==
    ASSUME NEW c, GoodClient(c), c.state = "DISCONNECTED"
    PROVE  c = RC!NewClient
  BY ClientFields DEF GoodClient

\* The others have a socket.
LEMMA SocketWhenConnected ==
    ASSUME NEW c, GoodClient(c), c.state # "DISCONNECTED"
    PROVE  c = Connected(c.state)
  BY ClientFields DEF GoodClient

\* connect opens a session or changes nothing.
LEMMA ConnectResults ==
    ASSUME NEW c, GoodClient(c), NEW res \in Outcomes(RC!connect(c))
    PROVE  \/ res.status # "ok" /\ res.client = c
           \/ res.status = "ok" /\ c = RC!NewClient /\ res.client = Connected("CONNECTED")
  <1>1. res \in RC!connect(c)
    BY DEF Outcomes
  <1>2. CASE c.state # "DISCONNECTED"
    <2>1. res = Failure(c)
      BY <1>1, <1>2 DEF RC!connect, RC!Call, Failure
    <2> QED
      BY <2>1, ResultFields
  <1>3. CASE c.state = "DISCONNECTED"
    <2>1. c = RC!NewClient
      BY <1>3, NewWhenDisconnected
    <2>2. /\ RC!Enter(Connected("DISCONNECTED"), "CONNECTED") = Connected("CONNECTED")
          /\ RC!disconnect(Connected("DISCONNECTED")) = RC!NewClient
      BY ClientFields
    <2>3. res \in {Failure(c), Value(Connected("CONNECTED"))}
      BY <1>1, <1>3, <2>1, <2>2, ClientFields DEF RC!connect, RC!Call, Failure, Value
    <2> QED
      BY <2>1, <2>3, ResultFields
  <1> QED
    BY <1>2, <1>3

\* The other calls: in the wrong state nothing changes, in the right one an
\* error disconnects.
LEMMA CallResults ==
    ASSUME NEW c, GoodClient(c), NEW state \in RC!States \ {"DISCONNECTED"}, NEW results,
           NEW res \in RC!Call(c, state, results)
    PROVE  \/ c.state # state /\ res = Failure(c)
           \/ c.state = state /\ res = Failure(RC!NewClient)
           \/ c.state = state /\ res \in results
  <1>1. RC!disconnect(c) = RC!NewClient
    BY DisconnectedClient
  <1> QED
    BY <1>1 DEF RC!Call, Failure

\* What is left of a good client is a good one.
LEMMA GoodResults ==
    /\ GoodClient(RC!NewClient)
    /\ \A s \in {"CONNECTED", "COMMITTED", "PEER_INFO_RECEIVED", "STARTED", "LOGGED_OUT"} :
          GoodClient(Connected(s))
  BY DEF GoodClient, RC!States

\* registerIp leaves the client alone unless it fails in the right state.
LEMMA RegisterResults ==
    ASSUME NEW c, GoodClient(c), NEW res \in Outcomes(RC!registerIp(c))
    PROVE  \/ res.client = c /\ (res.status = "ok" => c.state = "CONNECTED")
           \/ c.state = "CONNECTED" /\ res.status # "ok" /\ res.client = RC!NewClient
  <1>1. res \in RC!registerIp(c)
    BY DEF Outcomes
  <1>2. \/ c.state # "CONNECTED" /\ res = Failure(c)
        \/ c.state = "CONNECTED" /\ res = Failure(RC!NewClient)
        \/ c.state = "CONNECTED" /\ res \in {Failure(c), Value(c)}
    BY <1>1, CallResults DEF RC!registerIp, RC!States, Failure, Value
  <1> QED
    BY <1>2, ResultFields

\* commitIp commits the client, disconnects it or changes nothing.
LEMMA CommitResults ==
    ASSUME NEW c, GoodClient(c), NEW res \in Outcomes(RC!commitIp(c))
    PROVE  \/ res.client = c
           \/ c.state = "CONNECTED" /\ res.client = RC!NewClient
           \/ c.state = "CONNECTED" /\ res.client = Connected("COMMITTED")
  <1>1. res \in RC!commitIp(c)
    BY DEF Outcomes
  <1>2. \/ c.state # "CONNECTED" /\ res = Failure(c)
        \/ c.state = "CONNECTED" /\ res = Failure(RC!NewClient)
        \/ c.state = "CONNECTED" /\ res \in {Success(RC!Enter(c, "COMMITTED"))}
    BY <1>1, CallResults DEF RC!commitIp, RC!States, Success
  <1>3. c.state = "CONNECTED" => RC!Enter(c, "COMMITTED") = Connected("COMMITTED")
    BY SocketWhenConnected, ClientFields
  <1> QED
    BY <1>2, <1>3, ResultFields

\* A peer, or the end of the list.
LEMMA PeerResults ==
    ASSUME NEW c, GoodClient(c), NEW res \in RC!retrievePeerInfo(c), res.status = "ok"
    PROVE  /\ c.state = "COMMITTED"
           /\ \/ res.value /\ res.client = c
              \/ ~res.value /\ res.client = Connected("PEER_INFO_RECEIVED")
  <1>1. \/ c.state # "COMMITTED" /\ res = Failure(c)
        \/ c.state = "COMMITTED" /\ res = Failure(RC!NewClient)
        \/ c.state = "COMMITTED" /\ res \in {Value(c), Success(RC!Enter(c, "PEER_INFO_RECEIVED"))}
    BY CallResults DEF RC!retrievePeerInfo, RC!States, Value, Success
  <1>2. c.state = "COMMITTED" =>
          RC!Enter(c, "PEER_INFO_RECEIVED") = Connected("PEER_INFO_RECEIVED")
    BY SocketWhenConnected, ClientFields
  <1> QED
    BY <1>1, <1>2, ResultFields

\* A block, or the end of the list, after which the client is started.
LEMMA BlockResults ==
    ASSUME NEW c, GoodClient(c), NEW res \in RC!retrieveIpConfig(c), res.status = "ok"
    PROVE  /\ c.state = "PEER_INFO_RECEIVED"
           /\ \/ res.value /\ res.client = c
              \/ ~res.value /\ res.client = Connected("STARTED")
  <1>1. \/ c.state # "PEER_INFO_RECEIVED" /\ res = Failure(c)
        \/ c.state = "PEER_INFO_RECEIVED" /\ res = Failure(RC!NewClient)
        \/ c.state = "PEER_INFO_RECEIVED" /\ res \in {Value(c), Success(RC!Enter(c, "STARTED"))}
    BY CallResults DEF RC!retrieveIpConfig, RC!States, Value, Success
  <1>2. c.state = "PEER_INFO_RECEIVED" => RC!Enter(c, "STARTED") = Connected("STARTED")
    BY SocketWhenConnected, ClientFields
  <1> QED
    BY <1>1, <1>2, ResultFields

\* send needs a started client and leaves it so.
LEMMA SendResults ==
    ASSUME NEW c, GoodClient(c), NEW res \in RC!send(c), res.status = "ok"
    PROVE  c.state = "STARTED" /\ res.client = c
  <1>1. \/ c.state # "STARTED" /\ res = Failure(c)
        \/ c.state = "STARTED" /\ res = Failure(RC!NewClient)
        \/ c.state = "STARTED" /\ res \in {Success(c)}
    BY CallResults DEF RC!send, RC!States, Success
  <1> QED
    BY <1>1, ResultFields

\* sendLogout logs a started client out.
LEMMA LogoutResults ==
    ASSUME NEW c, GoodClient(c), NEW res \in RC!sendLogout(c), res.status = "ok"
    PROVE  c.state = "STARTED" /\ res.client = Connected("LOGGED_OUT")
  <1>1. \/ c.state # "STARTED" /\ res = Failure(c)
        \/ c.state = "STARTED" /\ res = Failure(RC!NewClient)
        \/ c.state = "STARTED" /\ res \in {Success(RC!Enter(c, "LOGGED_OUT"))}
    BY CallResults DEF RC!sendLogout, RC!States, Success
  <1>2. c.state = "STARTED" => RC!Enter(c, "LOGGED_OUT") = Connected("LOGGED_OUT")
    BY SocketWhenConnected, ClientFields
  <1> QED
    BY <1>1, <1>2, ResultFields
-----------------------------------------------------------------------------
(* The inductive invariant *)

\* A step that changes nothing that the invariant depends on, except that the
\* reader goes on in its loop and the writer goes on popping and sending.
Quiet ==
    /\ client' = client /\ main' = main /\ session' = session /\ slaves' = slaves
    /\ DOMAIN bridge' = DOMAIN bridge
    /\ bridge'.routerInfo = bridge.routerInfo /\ bridge'.peers = bridge.peers
    /\ bridge'.ipBlocks = bridge.ipBlocks /\ bridge'.slaveMap = bridge.slaveMap
    /\ DOMAIN q' = DOMAIN q /\ q'.done = q.done
    /\ DOMAIN reader' = DOMAIN reader
    /\ reader'.pc = reader.pc \/ (InLoop /\ reader'.pc \in {"enter", "read", "spin"})
    /\ reader'.pc = "use" => reader.pc = "use" /\ reader'.slave = reader.slave
    /\ DOMAIN writer' = DOMAIN writer
    /\ writer'.pc = writer.pc \/ (writer.pc \in {"pop", "send"} /\ writer'.pc \in {"pop", "send"})
    /\ DOMAIN router' = DOMAIN router
    /\ router'.peers = router.peers /\ router'.blocks = router.blocks

\* A quiet step keeps the invariant.
LEMMA QuietInv ==
    ASSUME IndInv, Quiet
    PROVE  IndInv'
  <1> USE DEF Quiet
  <1>1. Shape'
    BY DEF IndInv, Shape, InLoop
  <1>2. ThreadsInv'
    BY DEF IndInv, Shape, ThreadsInv, Joined, InLoop
  <1>3. ClientInv'
    BY DEF IndInv, Shape, ClientInv, InLoop
  <1>4. ListsInv'
    <2>1. OwnPeers' = OwnPeers
      BY DEF OwnPeers
    <2> QED
      BY <2>1 DEF IndInv, ListsInv
  <1>5. SlavesInv'
    BY DEF IndInv, SlavesInv
  <1>6. DoneInv'
    BY DEF IndInv, DoneInv, InLoop
  <1> QED
    BY <1>1, <1>2, <1>3, <1>4, <1>5, <1>6 DEF IndInv

\* The queue keeps its fields, and only finish changes done.
LEMMA QueueFields ==
    ASSUME NEW u, DOMAIN u = {"items", "done", "consumer"}
    PROVE  /\ \A x : /\ DOMAIN NotifyOne(Enqueue(u, x)) = DOMAIN u
                     /\ NotifyOne(Enqueue(u, x)).done = u.done
           /\ DOMAIN NotifyOne(SetDone(u)) = DOMAIN u /\ NotifyOne(SetDone(u)).done = TRUE
           /\ DOMAIN Take(u) = DOMAIN u /\ Take(u).done = u.done
           /\ DOMAIN Wait(u) = DOMAIN u /\ Wait(u).done = u.done
           /\ DOMAIN Leave(u) = DOMAIN u /\ Leave(u).done = u.done
  BY DEF NotifyOne, Enqueue, SetDone, Take, Wait, Leave

\* The steps of the masters.
LEMMA MasterInv ==
    ASSUME IndInv, issue \/ terminate
    PROVE  IndInv'
  <1>1. DOMAIN q = {"items", "done", "consumer"}
    BY DEF IndInv, Shape
  <1>2. PICK x : q' = NotifyOne(Enqueue(q, x))
    BY DEF issue, terminate, Push
  <1>3. DOMAIN q' = DOMAIN q /\ q'.done = q.done
    BY <1>1, <1>2, QueueFields
  <1> QED
    BY <1>3, QuietInv DEF Quiet, issue, terminate

\* The steps of the router.
LEMMA RouterInv ==
    ASSUME IndInv, Router
    PROVE  IndInv'
  <1>1. DOMAIN router = {"up", "peers", "blocks", "toBridge", "unanswered", "asked",
                         "requests", "terminated", "done"}
    BY DEF IndInv, Shape
  <1>2. /\ UNCHANGED <<client, bridge, q, reader, writer, appVars>>
        /\ DOMAIN router' = DOMAIN router
        /\ router'.peers = router.peers /\ router'.blocks = router.blocks
    BY <1>1 DEF Router, routerAnswer, routerRequest, routerDone, routerDies
  <1> QED
    BY <1>2, QuietInv DEF Quiet, appVars

\* The steps of the writer: it leaves its loop when finish has been called,
\* or when the client refuses to send, which is not so while the reader is in
\* its loop.
LEMMA WriterInv ==
    ASSUME IndInv, Writer
    PROVE  IndInv'
  <1>1. /\ GoodClient(client)
        /\ DOMAIN bridge = {"routerInfo", "peers", "ipBlocks", "slaveMap", "masterMap"}
        /\ DOMAIN q = {"items", "done", "consumer"}
        /\ DOMAIN writer = {"pc", "status", "item"}
        /\ DOMAIN main = {"pc", "closed", "running"}
        /\ DOMAIN router = {"up", "peers", "blocks", "toBridge", "unanswered", "asked",
                            "requests", "terminated", "done"}
    BY DEF IndInv, Shape
  <1>2. CASE writerTake
    <2>1. DOMAIN q' = DOMAIN q /\ q'.done = q.done
      BY <1>1, <1>2, QueueFields DEF writerTake
    <2>2. /\ DOMAIN bridge' = DOMAIN bridge
          /\ bridge'.routerInfo = bridge.routerInfo /\ bridge'.peers = bridge.peers
          /\ bridge'.ipBlocks = bridge.ipBlocks /\ bridge'.slaveMap = bridge.slaveMap
      BY <1>1, <1>2 DEF writerTake
    <2>3. DOMAIN writer' = DOMAIN writer /\ writer.pc = "pop" /\ writer'.pc = "send"
      BY <1>1, <1>2 DEF writerTake
    <2> QED
      BY <1>2, <2>1, <2>2, <2>3, QuietInv DEF Quiet, writerTake, appVars
  <1>3. CASE writerWait
    <2>1. DOMAIN q' = DOMAIN q /\ q'.done = q.done
      BY <1>1, <1>3, QueueFields DEF writerWait
    <2> QED
      BY <1>3, <2>1, QuietInv DEF Quiet, writerWait, appVars
  <1>4. CASE writerSend
    <2>1. client' = client
      BY <1>1, <1>4, SendResults DEF writerSend
    <2>2. DOMAIN writer' = DOMAIN writer /\ writer.pc = "send" /\ writer'.pc = "pop"
      BY <1>1, <1>4 DEF writerSend
    <2>3. /\ DOMAIN router' = DOMAIN router
          /\ router'.peers = router.peers /\ router'.blocks = router.blocks
      BY <1>1, <1>4 DEF writerSend, Deliver
    <2> QED
      BY <1>4, <2>1, <2>2, <2>3, QuietInv DEF Quiet, writerSend, appVars
  <1>5. CASE writerStop
    <2>1. DOMAIN q' = DOMAIN q /\ q'.done = q.done /\ q.done
      BY <1>1, <1>5, QueueFields DEF writerStop, CanStop
    <2>2. DOMAIN writer' = DOMAIN writer /\ writer.pc = "pop" /\ writer'.pc = "logout"
      BY <1>1, <1>5 DEF writerStop
    <2>3. UNCHANGED <<client, bridge, reader, main, session, slaves, router>>
      BY <1>5 DEF writerStop, appVars
    <2>4. Shape' /\ ThreadsInv' /\ ClientInv'
      BY <2>1, <2>2, <2>3 DEF IndInv, Shape, ThreadsInv, ClientInv, Joined, InLoop
    <2>5. ListsInv' /\ SlavesInv'
      BY <2>3 DEF IndInv, ListsInv, SlavesInv, OwnPeers
    <2>6. DoneInv'
      BY <2>1, <2>3 DEF IndInv, DoneInv, InLoop
    <2> QED
      BY <2>4, <2>5, <2>6 DEF IndInv
  <1>6. CASE writerLogout
    <2>1. client.state = "STARTED" /\ client' = Connected("LOGGED_OUT")
      BY <1>1, <1>6, LogoutResults DEF writerLogout
    <2>2. GoodClient(client') /\ client'.state = "LOGGED_OUT"
      BY <2>1, GoodResults, ClientFields
    <2>3. DOMAIN writer' = DOMAIN writer /\ writer.pc = "logout" /\ writer'.pc = "ended"
      BY <1>1, <1>6 DEF writerLogout
    <2>4. UNCHANGED <<bridge, q, reader, main, session, slaves, router>>
      BY <1>6 DEF writerLogout, appVars
    <2>5. Shape' /\ ThreadsInv'
      BY <2>2, <2>3, <2>4 DEF IndInv, Shape, ThreadsInv, Joined
    <2>6. ClientInv'
      BY <2>1, <2>2, <2>3, <2>4 DEF IndInv, ClientInv, InLoop
    <2>7. ListsInv' /\ SlavesInv'
      BY <2>1, <2>2, <2>4 DEF IndInv, ListsInv, SlavesInv, OwnPeers
    <2>8. DoneInv'
      BY <2>2, <2>3, <2>4 DEF IndInv, DoneInv, InLoop
    <2> QED
      BY <2>5, <2>6, <2>7, <2>8 DEF IndInv
  <1>7. CASE writerFail
    <2>1. /\ DOMAIN writer' = DOMAIN writer /\ writer'.pc = "ended"
          /\ writer.pc \in {"send", "logout"} /\ client.state # "STARTED"
      BY <1>1, <1>7 DEF writerFail
    <2>2. UNCHANGED <<client, bridge, q, reader, main, session, slaves, router>>
      BY <1>7 DEF writerFail, appVars
    <2>3. Shape' /\ ThreadsInv' /\ ClientInv'
      BY <2>1, <2>2 DEF IndInv, Shape, ThreadsInv, ClientInv, Joined, InLoop
    <2>4. ListsInv' /\ SlavesInv'
      BY <2>2 DEF IndInv, ListsInv, SlavesInv, OwnPeers
    <2>5. DoneInv'
      BY <2>1, <2>2 DEF IndInv, DoneInv, ClientInv, InLoop
    <2> QED
      BY <2>3, <2>4, <2>5 DEF IndInv
  <1>8. CASE writerKilled
    <2>1. /\ DOMAIN main' = DOMAIN main /\ main'.pc = "killed"
          /\ main'.closed = main.closed /\ main'.running = main.running
      BY <1>1, <1>8 DEF writerKilled
    <2>2. /\ UNCHANGED <<client, bridge, q, reader, writer, session, slaves, router>>
          /\ writer.pc \in {"send", "logout"}
      BY <1>8 DEF writerKilled
    <2>3. Shape' /\ ClientInv' /\ SlavesInv' /\ DoneInv'
      BY <2>1, <2>2 DEF IndInv, Shape, ClientInv, SlavesInv, DoneInv, InLoop
    <2>4. ThreadsInv'
      BY <2>1, <2>2 DEF IndInv, ThreadsInv, Joined
    <2>5. ListsInv'
      <3>1. main.pc # "destroyed"
        BY <1>8 DEF writerKilled, Alive
      <3> QED
        BY <2>1, <2>2, <3>1 DEF IndInv, ListsInv, OwnPeers
    <2> QED
      BY <2>3, <2>4, <2>5 DEF IndInv
  <1> QED
    BY <1>2, <1>3, <1>4, <1>5, <1>6, <1>7, <1>8 DEF Writer

\* The end of the reader: finish is called, and the client is as it was or
\* has been disconnected.
LEMMA EndReaderInv ==
    ASSUME IndInv, NEW status, EndReader(status), InLoop,
           client' = client \/ client' = RC!NewClient,
           DOMAIN router' = DOMAIN router,
           router'.peers = router.peers, router'.blocks = router.blocks,
           UNCHANGED <<bridge, writer, main, session, slaves>>
    PROVE  IndInv'
  <1>1. /\ DOMAIN reader' = DOMAIN reader /\ reader'.pc = "ended"
    BY DEF IndInv, Shape, EndReader
  <1>2. DOMAIN q' = DOMAIN q /\ q'.done = TRUE
    BY QueueFields DEF IndInv, Shape, EndReader
  <1>3. client.state \in {"STARTED", "LOGGED_OUT"} /\ session > 0
    BY DEF IndInv, ClientInv
  <1>4. GoodClient(client') /\ client'.state \in {client.state, "DISCONNECTED"}
    BY GoodResults, ClientFields DEF IndInv, Shape
  <1>5. Shape'
    BY <1>1, <1>2, <1>4 DEF IndInv, Shape
  <1>6. ThreadsInv' /\ ClientInv'
    BY <1>1, <1>3, <1>4 DEF IndInv, ThreadsInv, ClientInv, Joined, InLoop
  <1>7. ListsInv'
    <2>1. OwnPeers' = OwnPeers
      BY DEF OwnPeers
    <2> QED
      BY <1>4, <2>1 DEF IndInv, ListsInv
  <1>8. SlavesInv' /\ DoneInv'
    BY <1>1, <1>2, <1>3, <1>4 DEF IndInv, SlavesInv, DoneInv, InLoop
  <1> QED
    BY <1>5, <1>6, <1>7, <1>8 DEF IndInv

\* The steps of the reader.
LEMMA ReaderInv ==
    ASSUME IndInv, Reader
    PROVE  IndInv'
  <1>1. /\ GoodClient(client)
        /\ DOMAIN bridge = {"routerInfo", "peers", "ipBlocks", "slaveMap", "masterMap"}
        /\ DOMAIN q = {"items", "done", "consumer"}
        /\ DOMAIN reader = {"pc", "status", "on", "slave"}
        /\ DOMAIN router = {"up", "peers", "blocks", "toBridge", "unanswered", "asked",
                            "requests", "terminated", "done"}
    BY DEF IndInv, Shape
  <1>2. ASSUME NEW type, Receive(type)
        PROVE  /\ reader.pc = "read"
               /\ DOMAIN router' = DOMAIN router
               /\ router'.peers = router.peers /\ router'.blocks = router.blocks
    BY <1>1, <1>2 DEF Receive
  <1>3. CASE readerEnter
    BY <1>1, <1>3, QuietInv DEF Quiet, readerEnter, InLoop, appVars
  <1>4. CASE readerRefused
    BY <1>4, EndReaderInv DEF readerRefused, InLoop, appVars
  <1>5. CASE receiveDone
    BY <1>2, <1>5, EndReaderInv DEF receiveDone, InLoop, appVars
  <1>6. CASE receiveUnknown
    BY <1>2, <1>6, EndReaderInv DEF receiveUnknown, InLoop, appVars
  <1>7. CASE receiveFail
    <2>1. client' = RC!NewClient
      BY <1>1, <1>7, DisconnectedClient DEF receiveFail
    <2> QED
      BY <1>7, <2>1, EndReaderInv DEF receiveFail, InLoop, appVars
  <1>8. CASE receiveResponse
    <2>1. /\ DOMAIN bridge' = DOMAIN bridge
          /\ bridge'.routerInfo = bridge.routerInfo /\ bridge'.peers = bridge.peers
          /\ bridge'.ipBlocks = bridge.ipBlocks /\ bridge'.slaveMap = bridge.slaveMap
      BY <1>1, <1>8 DEF receiveResponse
    <2> QED
      BY <1>1, <1>2, <1>8, <2>1, QuietInv DEF Quiet, receiveResponse, InLoop
  <1>9. CASE respond
    <2>1. DOMAIN q' = DOMAIN q /\ q'.done = q.done
      BY <1>1, <1>9, QueueFields DEF respond, Push
    <2> QED
      BY <1>1, <1>9, <2>1, QuietInv DEF Quiet, respond, InLoop, appVars
  <1>10. CASE receiveRequest
    <2>1. PICK id \in DOMAIN bridge.slaveMap :
             reader' = [reader EXCEPT !.pc = "use", !.slave = bridge.slaveMap[id]]
      BY <1>10 DEF receiveRequest
    <2>2. /\ DOMAIN reader' = DOMAIN reader
          /\ reader'.pc = "use" /\ reader'.slave = bridge.slaveMap[id]
      BY <1>1, <2>1
    <2>3. UNCHANGED <<client, bridge, q, writer, main, session, slaves>>
      BY <1>10 DEF receiveRequest, appVars
    <2>4. /\ reader.pc = "read"
          /\ DOMAIN router' = DOMAIN router
          /\ router'.peers = router.peers /\ router'.blocks = router.blocks
      BY <1>2, <1>10 DEF receiveRequest
    <2>5. Shape' /\ ThreadsInv' /\ ClientInv' /\ DoneInv'
      BY <2>2, <2>3, <2>4 DEF IndInv, Shape, ThreadsInv, ClientInv, DoneInv, Joined, InLoop
    <2>6. ListsInv'
      BY <2>3, <2>4 DEF IndInv, ListsInv, OwnPeers
    <2>7. SlavesInv'
      BY <2>2, <2>3 DEF IndInv, SlavesInv
    <2> QED
      BY <2>5, <2>6, <2>7 DEF IndInv
  <1>11. CASE receiveSpin
    BY <1>1, <1>11, QuietInv DEF Quiet, receiveSpin, InLoop, appVars
  <1> QED
    BY <1>3, <1>4, <1>5, <1>6, <1>7, <1>8, <1>9, <1>10, <1>11 DEF Reader

\* A bridge without threads that is cleared is as good as new, except for
\* its list of peers and for done.
LEMMA ClearInv ==
    ASSUME IndInv, Clear, ~main.running, DOMAIN main' = DOMAIN main, ~main'.running,
           \/ main'.pc = "idle" /\ main'.closed
           \/ main'.pc = "destroyed" /\ main'.closed = main.closed,
           UNCHANGED <<q, reader, writer, session>>
    PROVE  IndInv'
  <1>1. client' = RC!NewClient
    BY DisconnectedClient DEF IndInv, Shape, Clear
  <1>2. GoodClient(client') /\ client'.state = "DISCONNECTED"
    BY <1>1, GoodResults, ClientFields
  <1>3. /\ DOMAIN bridge' = DOMAIN bridge
        /\ bridge'.peers = bridge.peers /\ bridge'.ipBlocks = <<>> /\ bridge'.slaveMap = <<>>
    BY DEF IndInv, Shape, Clear, NewBridge
  <1>4. /\ DOMAIN router' = DOMAIN router
        /\ router'.peers = ListLen /\ router'.blocks = ListLen
    BY DEF IndInv, Shape, Clear, NextRouter, NewRouter
  <1>5. slaves' \in [Sessions -> {"none", "owned", "deleted"}]
    BY DEF IndInv, Shape, Clear
  <1>6. Joined
    BY DEF IndInv, ThreadsInv
  <1>7. Shape'
    BY <1>2, <1>3, <1>4, <1>5, BoundsAssumption DEF IndInv, Shape
  <1>8. ThreadsInv'
    BY <1>6 DEF IndInv, ThreadsInv, Joined
  <1>9. ClientInv'
    BY <1>2, <1>6 DEF IndInv, ClientInv, Joined, InLoop
  <1>10. ListsInv'
    BY <1>2, <1>3 DEF IndInv, ListsInv
  <1>11. SlavesInv'
    BY <1>3, <1>6 DEF IndInv, SlavesInv, Joined
  <1>12. DoneInv'
    BY <1>2, <1>6 DEF IndInv, DoneInv, Joined, InLoop
  <1> QED
    BY <1>7, <1>8, <1>9, <1>10, <1>11, <1>12 DEF IndInv

\* The steps of start that change main only, and the calls of registerIp and
\* commitIp: the lists are those of a session that is not started yet.
LEMMA MainInv ==
    ASSUME IndInv, GoodClient(client'), DOMAIN main' = DOMAIN main,
           main'.closed = main.closed, main'.running = main.running, main.pc # "destroyed",
           main'.pc \notin {"aborted", "destroyed"},
           main'.pc \in {"peers", "blocks"} => ~main.running,
           main'.pc = "joinWriter" => main.pc = "joinWriter",
           \/ client' = client
           \/ /\ client.state \in {"CONNECTED", "COMMITTED"}
              /\ client'.state \in {"DISCONNECTED", "COMMITTED"}
           \/ /\ client.state = "COMMITTED" /\ client'.state = "PEER_INFO_RECEIVED"
              /\ router.peers = 0,
           UNCHANGED <<bridge, q, reader, writer, session, slaves, router>>
    PROVE  IndInv'
  <1>1. Shape'
    BY DEF IndInv, Shape
  <1>2. ThreadsInv'
    BY DEF IndInv, ThreadsInv, Joined
  <1>3. ClientInv'
    BY DEF IndInv, ClientInv, InLoop
  <1>4. ListsInv'
    <2>1. OwnPeers' = OwnPeers
      BY DEF OwnPeers
    <2> QED
      BY <2>1 DEF IndInv, ListsInv
  <1>5. SlavesInv'
    BY DEF IndInv, SlavesInv
  <1>6. DoneInv'
    BY DEF IndInv, DoneInv, InLoop
  <1> QED
    BY <1>1, <1>2, <1>3, <1>4, <1>5, <1>6 DEF IndInv

\* connect: no peer in the list is of the new session yet.
LEMMA ConnectInv ==
    ASSUME Orderly, IndInv, connect
    PROVE  IndInv'
  <1>1. GoodClient(client) /\ main.closed /\ main.pc = "idle"
    BY DEF IndInv, Shape, connect
  <1>2. PICK res \in Outcomes(RC!connect(client)) :
           /\ client' = res.client
           /\ IF res.status = "ok"
              THEN /\ session' = session + 1
                   /\ bridge' = [bridge EXCEPT !.routerInfo = session + 1]
                   /\ router' = NextRouter
                   /\ main' = [main EXCEPT !.closed = FALSE]
              ELSE UNCHANGED <<session, bridge, router, main>>
    BY DEF connect
  <1>3. UNCHANGED <<q, reader, writer, slaves>>
    BY DEF connect
  <1>4. CASE res.status # "ok"
    <2>1. client' = client
      BY <1>1, <1>2, <1>4, ConnectResults
    <2> QED
      BY <1>2, <1>3, <1>4, <2>1, QuietInv DEF Quiet
  <1>5. CASE res.status = "ok"
    <2>1. client' = Connected("CONNECTED")
      BY <1>1, <1>2, <1>5, ConnectResults
    <2>2. GoodClient(client') /\ client'.state = "CONNECTED"
      BY <2>1, GoodResults, ClientFields
    <2>3. session' = session + 1 /\ session \in Nat
      BY <1>2, <1>5 DEF IndInv, Shape
    <2>4. /\ DOMAIN bridge' = DOMAIN bridge /\ bridge'.routerInfo = session'
          /\ bridge'.peers = bridge.peers /\ bridge'.ipBlocks = bridge.ipBlocks
          /\ bridge'.slaveMap = bridge.slaveMap
      BY <1>2, <1>5, <2>3 DEF IndInv, Shape
    <2>5. /\ DOMAIN main' = DOMAIN main /\ main'.pc = "idle"
          /\ ~main'.closed /\ main'.running = main.running
      BY <1>1, <1>2, <1>5 DEF IndInv, Shape
    <2>6. /\ DOMAIN router' = DOMAIN router
          /\ router'.peers = ListLen /\ router'.blocks = ListLen
      BY <1>2, <1>5 DEF IndInv, Shape, NextRouter, NewRouter
    <2>7. ~main.running /\ Joined
      BY <1>1 DEF IndInv, ThreadsInv, ClientInv
    <2>8. Shape'
      BY <1>3, <2>2, <2>3, <2>4, <2>5, <2>6, BoundsAssumption DEF IndInv, Shape
    <2>9. ThreadsInv' /\ ClientInv'
      BY <1>3, <2>2, <2>3, <2>5, <2>7 DEF IndInv, ThreadsInv, ClientInv, Joined, InLoop
    <2>10. ListsInv'
      <3>1. \A k \in DOMAIN bridge.peers : bridge.peers[k] <= session /\ bridge.peers[k] \in Nat
        BY DEF IndInv, ListsInv, Shape
      <3>2. \A k \in DOMAIN bridge'.peers : bridge'.peers[k] <= session /\ bridge'.peers[k] \in Nat
        BY <2>4, <3>1
      <3>3. OwnPeers' = {}
        BY <2>3, <3>2 DEF OwnPeers
      <3>4. Cardinality(OwnPeers') = 0
        BY <3>3, FS_EmptySet
      <3>5. bridge'.ipBlocks = <<>>
        BY <1>1, <2>4 DEF IndInv, ListsInv
      <3> QED
        BY <2>2, <2>3, <2>4, <2>5, <2>6, <3>2, <3>4, <3>5, BoundsAssumption DEF ListsInv
    <2>11. SlavesInv'
      BY <1>3, <2>4 DEF IndInv, SlavesInv
    <2>12. DoneInv'
      BY <1>3, <2>2, <2>3, <2>7 DEF IndInv, DoneInv, Joined, InLoop
    <2> QED
      BY <2>8, <2>9, <2>10, <2>11, <2>12 DEF IndInv
  <1> QED
    BY <1>4, <1>5

\* registerSlave, which may overwrite an entry of slaveMap.
LEMMA RegisterSlaveInv ==
    ASSUME IndInv, registerSlave
    PROVE  IndInv'
  <1>1. /\ GoodClient(client) /\ session \in Sessions /\ main.pc = "idle"
        /\ UNCHANGED <<q, reader, writer, main, session, router>>
    BY DEF IndInv, Shape, registerSlave
  <1>2. PICK res \in Outcomes(RC!registerIp(client)) :
           /\ client' = res.client
           /\ IF res.status = "ok"
              THEN /\ bridge' = [bridge EXCEPT !.slaveMap = Put(@, NextId, session)]
                   /\ slaves' = [slaves EXCEPT ![session] = "owned"]
              ELSE UNCHANGED <<bridge, slaves>>
    BY DEF registerSlave
  <1>3. CASE res.status # "ok"
    <2>1. \/ client' = client
          \/ client.state = "CONNECTED" /\ client' = RC!NewClient
      BY <1>1, <1>2, RegisterResults
    <2>2. GoodClient(client') /\ RC!NewClient.state = "DISCONNECTED"
      BY <1>1, <2>1, GoodResults, ClientFields
    <2> QED
      BY <1>1, <1>2, <1>3, <2>1, <2>2, MainInv
  <1>4. CASE res.status = "ok"
    <2>1. client' = client
      BY <1>1, <1>2, <1>4, RegisterResults
    <2>2. /\ DOMAIN bridge' = DOMAIN bridge /\ bridge'.routerInfo = bridge.routerInfo
          /\ bridge'.peers = bridge.peers /\ bridge'.ipBlocks = bridge.ipBlocks
          /\ bridge'.slaveMap = Put(bridge.slaveMap, NextId, session)
      BY <1>2, <1>4 DEF IndInv, Shape
    <2>3. /\ slaves' \in [Sessions -> {"none", "owned", "deleted"}]
          /\ \A s \in Sessions : slaves[s] = "owned" \/ s = session => slaves'[s] = "owned"
      BY <1>1, <1>2, <1>4 DEF IndInv, Shape
    <2>4. Shape' /\ ThreadsInv' /\ ClientInv' /\ DoneInv'
      BY <1>1, <2>1, <2>2, <2>3
         DEF IndInv, Shape, ThreadsInv, ClientInv, DoneInv, Joined, InLoop
    <2>5. ListsInv'
      <3>1. OwnPeers' = OwnPeers
        BY <1>1, <2>2 DEF OwnPeers
      <3> QED
        BY <1>1, <2>1, <2>2, <3>1 DEF IndInv, ListsInv
    <2>6. SlavesInv'
      <3>1. \A i \in DOMAIN bridge'.slaveMap :
               \/ bridge'.slaveMap[i] = session
               \/ i \in DOMAIN bridge.slaveMap /\ bridge'.slaveMap[i] = bridge.slaveMap[i]
        BY <2>2 DEF Put
      <3> QED
        BY <1>1, <2>3, <3>1 DEF IndInv, SlavesInv
    <2> QED
      BY <2>4, <2>5, <2>6 DEF IndInv
  <1> QED
    BY <1>3, <1>4

\* registerMaster.
LEMMA RegisterMasterInv ==
    ASSUME IndInv, registerMaster
    PROVE  IndInv'
  <1>1. /\ GoodClient(client) /\ main.pc = "idle"
        /\ UNCHANGED <<q, reader, writer, main, session, slaves, router>>
    BY DEF IndInv, Shape, registerMaster, appVars
  <1>2. PICK res \in Outcomes(RC!registerIp(client)) :
           /\ client' = res.client
           /\ IF res.status = "ok"
              THEN bridge' = [bridge EXCEPT !.masterMap = SetMaster(@, NextId)]
              ELSE UNCHANGED bridge
    BY DEF registerMaster
  <1>3. CASE res.status # "ok"
    <2>1. \/ client' = client
          \/ client.state = "CONNECTED" /\ client' = RC!NewClient
      BY <1>1, <1>2, RegisterResults
    <2>2. GoodClient(client') /\ RC!NewClient.state = "DISCONNECTED"
      BY <1>1, <2>1, GoodResults, ClientFields
    <2> QED
      BY <1>1, <1>2, <1>3, <2>1, <2>2, MainInv
  <1>4. CASE res.status = "ok"
    <2>1. client' = client
      BY <1>1, <1>2, <1>4, RegisterResults
    <2>2. /\ DOMAIN bridge' = DOMAIN bridge /\ bridge'.routerInfo = bridge.routerInfo
          /\ bridge'.peers = bridge.peers /\ bridge'.ipBlocks = bridge.ipBlocks
          /\ bridge'.slaveMap = bridge.slaveMap
      BY <1>2, <1>4 DEF IndInv, Shape
    <2> QED
      BY <1>1, <2>1, <2>2, QuietInv DEF Quiet
  <1> QED
    BY <1>3, <1>4

\* The calls of the application.
LEMMA CallsInv ==
    ASSUME Orderly, IndInv, Calls
    PROVE  IndInv'
  <1>1. GoodClient(client) /\ DOMAIN main = {"pc", "closed", "running"}
    BY DEF IndInv, Shape
  <1>2. CASE commitIp
    <2>1. \/ client' = client
          \/ client.state = "CONNECTED" /\ client' = RC!NewClient
          \/ client.state = "CONNECTED" /\ client' = Connected("COMMITTED")
      BY <1>1, <1>2, CommitResults DEF commitIp
    <2>2. /\ GoodClient(client')
          /\ RC!NewClient.state = "DISCONNECTED" /\ Connected("COMMITTED").state = "COMMITTED"
      BY <1>1, <2>1, GoodResults, ClientFields
    <2>3. \/ client' = client
          \/ client.state = "CONNECTED" /\ client'.state \in {"DISCONNECTED", "COMMITTED"}
      BY <2>1, <2>2
    <2> QED
      BY <1>2, <2>2, <2>3, MainInv DEF commitIp, appVars
  <1>3. CASE start
    <2>1. ~main.running /\ main.pc = "idle"
      BY <1>3 DEF start
    <2>2. /\ DOMAIN main' = DOMAIN main /\ main'.pc = "peers"
          /\ main'.closed = main.closed /\ main'.running = main.running
      BY <1>1, <1>3 DEF start
    <2> QED
      BY <1>1, <1>3, <2>1, <2>2, MainInv DEF start
  <1>4. CASE waitForCompletion
    <2>1. main.pc = "idle"
      BY <1>4 DEF waitForCompletion
    <2>2. /\ DOMAIN main' = DOMAIN main /\ main'.pc \in {"thrown", "joinReader"}
          /\ main'.closed = main.closed /\ main'.running = main.running
      BY <1>1, <1>4 DEF waitForCompletion
    <2> QED
      BY <1>1, <1>4, <2>1, <2>2, MainInv DEF waitForCompletion
  <1>5. CASE disconnect
    <2>1. ~main.running /\ main.pc = "idle"
      BY <1>5 DEF disconnect
    <2>2. DOMAIN main' = DOMAIN main /\ main'.pc = "idle" /\ main'.closed /\ ~main'.running
      BY <1>1, <1>5, <2>1 DEF disconnect
    <2> QED
      BY <1>5, <2>1, <2>2, ClearInv DEF disconnect
  <1>6. CASE destroy
    <2>1. ~main.running /\ Joined
      BY <1>6 DEF destroy, IndInv, ThreadsInv
    <2>2. /\ DOMAIN main' = DOMAIN main /\ main'.pc = "destroyed"
          /\ main'.closed = main.closed /\ ~main'.running
      BY <1>1, <1>6, <2>1 DEF destroy
    <2> QED
      BY <1>6, <2>1, <2>2, ClearInv DEF destroy
  <1> QED
    BY <1>2, <1>3, <1>4, <1>5, <1>6, ConnectInv, RegisterSlaveInv, RegisterMasterInv DEF Calls

\* A peer of the session is added to the list.
LEMMA OnePeerMore ==
    ASSUME NEW s \in Seq(Nat), NEW n \in Nat
    PROVE  LET own(u) == {k \in DOMAIN u : u[k] = n}
           IN  Cardinality(own(Append(s, n))) = Cardinality(own(s)) + 1
  <1> DEFINE own(u) == {k \in DOMAIN u : u[k] = n}
  <1>1. Append(s, n) \in Seq(Nat) /\ Len(Append(s, n)) = Len(s) + 1 /\ Len(s) \in Nat
    OBVIOUS
  <1>2. DOMAIN s = 1 .. Len(s) /\ DOMAIN Append(s, n) = 1 .. Len(s) + 1
    BY <1>1
  <1>3. Append(s, n)[Len(s) + 1] = n /\ \A k \in 1 .. Len(s) : Append(s, n)[k] = s[k]
    BY <1>1
  <1>4. own(Append(s, n)) = own(s) \cup {Len(s) + 1}
    BY <1>1, <1>2, <1>3
  <1>5. IsFiniteSet(1 .. Len(s))
    BY <1>1, FS_Interval
  <1>6. IsFiniteSet(own(s)) /\ Len(s) + 1 \notin own(s)
    BY <1>1, <1>2, <1>5, FS_Subset
  <1> QED
    BY <1>4, <1>6, FS_AddElement

\* start receives a peer.
LEMMA StartPeerInv ==
    ASSUME IndInv, startPeer
    PROVE  IndInv'
  <1>1. /\ GoodClient(client) /\ main.pc = "peers" /\ session \in Nat
        /\ bridge.peers \in Seq(Nat) /\ router.peers \in Nat /\ router.peers > 0
        /\ UNCHANGED <<q, reader, writer, main, session, slaves>>
    BY DEF IndInv, Shape, startPeer, appVars
  <1>2. client' = client /\ client.state = "COMMITTED"
    BY <1>1, PeerResults DEF startPeer
  <1>3. ~main.closed
    BY <1>2 DEF IndInv, ClientInv
  <1>4. /\ DOMAIN bridge' = DOMAIN bridge /\ bridge'.routerInfo = bridge.routerInfo
        /\ bridge'.peers = Append(bridge.peers, session)
        /\ bridge'.ipBlocks = bridge.ipBlocks /\ bridge'.slaveMap = bridge.slaveMap
    BY DEF IndInv, Shape, startPeer
  <1>5. /\ DOMAIN router' = DOMAIN router
        /\ router'.peers = router.peers - 1 /\ router'.blocks = router.blocks
    BY DEF IndInv, Shape, startPeer
  <1>6. Append(bridge.peers, session) \in Seq(Nat)
    BY <1>1
  <1>7. Shape'
    BY <1>1, <1>2, <1>4, <1>5, <1>6 DEF IndInv, Shape
  <1>8. ThreadsInv' /\ ClientInv' /\ DoneInv'
    BY <1>1, <1>2 DEF IndInv, ThreadsInv, ClientInv, DoneInv, Joined, InLoop
  <1>9. ListsInv'
    <2> DEFINE n == Cardinality(OwnPeers)
    <2>1. n + router.peers = ListLen
      BY <1>1, <1>3 DEF IndInv, ListsInv
    <2>2. n \in Nat
      <3>1. Len(bridge.peers) \in Int /\ DOMAIN bridge.peers = 1 .. Len(bridge.peers)
        BY <1>1
      <3>2. IsFiniteSet(DOMAIN bridge.peers)
        BY <3>1, FS_Interval
      <3>3. IsFiniteSet(OwnPeers)
        BY <3>2, FS_Subset DEF OwnPeers
      <3> QED
        BY <3>3, FS_CardinalityType
    <2>3. Cardinality(OwnPeers') = n + 1
      <3>1. OwnPeers' = {k \in DOMAIN Append(bridge.peers, session) :
                            Append(bridge.peers, session)[k] = session}
        BY <1>1, <1>4 DEF OwnPeers
      <3> QED
        BY <1>1, <3>1, OnePeerMore DEF OwnPeers
    <2>4. Cardinality(OwnPeers') + router'.peers = ListLen
      <3>1. \A i, j \in Nat : (i + 1) + (j - 1) = i + j
        OBVIOUS
      <3>2. (n + 1) + (router.peers - 1) = n + router.peers
        BY <1>1, <2>2, <3>1
      <3> QED
        BY <1>5, <2>1, <2>3, <3>2
    <2>5. \A k \in DOMAIN bridge'.peers : bridge'.peers[k] <= session
      <3>1. \A k \in 1 .. Len(bridge.peers) : bridge.peers[k] <= session
        BY <1>1 DEF IndInv, ListsInv
      <3> QED
        BY <1>1, <1>4, <3>1
    <2> QED
      BY <1>1, <1>2, <1>3, <1>4, <1>5, <2>4, <2>5 DEF IndInv, ListsInv
  <1>10. SlavesInv'
    BY <1>1, <1>4 DEF IndInv, SlavesInv
  <1> QED
    BY <1>7, <1>8, <1>9, <1>10 DEF IndInv

\* start receives a block.
LEMMA StartBlockInv ==
    ASSUME IndInv, startBlock
    PROVE  IndInv'
  <1>1. /\ GoodClient(client) /\ main.pc = "blocks" /\ session \in Nat
        /\ bridge.ipBlocks \in Seq(Nat) /\ router.blocks \in Nat /\ router.blocks > 0
        /\ UNCHANGED <<q, reader, writer, main, session, slaves>>
    BY DEF IndInv, Shape, startBlock, appVars
  <1>2. client' = client /\ client.state = "PEER_INFO_RECEIVED"
    BY <1>1, BlockResults DEF startBlock
  <1>3. ~main.closed
    BY <1>2 DEF IndInv, ClientInv
  <1>4. /\ DOMAIN bridge' = DOMAIN bridge /\ bridge'.routerInfo = bridge.routerInfo
        /\ bridge'.peers = bridge.peers
        /\ bridge'.ipBlocks = Append(bridge.ipBlocks, session)
        /\ bridge'.slaveMap = bridge.slaveMap
    BY DEF IndInv, Shape, startBlock
  <1>5. /\ DOMAIN router' = DOMAIN router
        /\ router'.peers = router.peers /\ router'.blocks = router.blocks - 1
    BY DEF IndInv, Shape, startBlock
  <1>6. /\ Append(bridge.ipBlocks, session) \in Seq(Nat)
        /\ Len(Append(bridge.ipBlocks, session)) = Len(bridge.ipBlocks) + 1
    BY <1>1
  <1>7. Shape'
    BY <1>1, <1>2, <1>4, <1>5, <1>6 DEF IndInv, Shape
  <1>8. ThreadsInv' /\ ClientInv' /\ DoneInv'
    BY <1>1, <1>2 DEF IndInv, ThreadsInv, ClientInv, DoneInv, Joined, InLoop
  <1>9. ListsInv'
    <2>1. Len(bridge'.ipBlocks) + router'.blocks = ListLen
      <3> DEFINE n == Len(bridge.ipBlocks)
      <3>1. n + router.blocks = ListLen /\ n \in Nat
        BY <1>1, <1>3 DEF IndInv, ListsInv
      <3>2. Len(bridge'.ipBlocks) = n + 1
        BY <1>4, <1>6
      <3>3. \A i, j \in Nat : (i + 1) + (j - 1) = i + j
        OBVIOUS
      <3>4. (n + 1) + (router.blocks - 1) = n + router.blocks
        BY <1>1, <3>1, <3>3
      <3> QED
        BY <1>5, <3>1, <3>2, <3>4
    <2>2. \A k \in DOMAIN bridge'.ipBlocks : bridge'.ipBlocks[k] = session
      <3>1. \A k \in 1 .. Len(bridge.ipBlocks) : bridge.ipBlocks[k] = session
        BY <1>1, <1>3 DEF IndInv, ListsInv
      <3> QED
        BY <1>1, <1>4, <3>1
    <2>3. OwnPeers' = OwnPeers
      BY <1>1, <1>4 DEF OwnPeers
    <2> QED
      BY <1>1, <1>2, <1>3, <1>4, <1>5, <2>1, <2>2, <2>3 DEF IndInv, ListsInv
  <1>10. SlavesInv'
    BY <1>1, <1>4 DEF IndInv, SlavesInv
  <1> QED
    BY <1>7, <1>8, <1>9, <1>10 DEF IndInv

\* start makes the threads, and there are none yet.
LEMMA StartThreadsInv ==
    ASSUME IndInv, startThreads
    PROVE  IndInv'
  <1>1. /\ GoodClient(client) /\ main.pc = "blocks" /\ router.blocks = 0
        /\ UNCHANGED <<bridge, q, session, slaves, router>>
    BY DEF IndInv, Shape, startThreads
  <1>2. client.state = "PEER_INFO_RECEIVED" /\ client' = Connected("STARTED")
    BY <1>1, BlockResults DEF startThreads
  <1>3. GoodClient(client') /\ client'.state = "STARTED"
    BY <1>2, GoodResults, ClientFields
  <1>4. Joined
    BY <1>1 DEF IndInv, ThreadsInv
  <1>5. /\ DOMAIN reader' = DOMAIN reader /\ reader'.pc = "enter"
        /\ DOMAIN writer' = DOMAIN writer /\ writer'.pc = "pop"
        /\ DOMAIN main' = DOMAIN main /\ main'.pc = "idle"
        /\ main'.running /\ main'.closed = main.closed
    BY <1>4 DEF IndInv, Shape, startThreads
  <1>6. Shape'
    BY <1>1, <1>3, <1>5 DEF IndInv, Shape
  <1>7. ThreadsInv' /\ ClientInv'
    BY <1>1, <1>2, <1>3, <1>5 DEF IndInv, ThreadsInv, ClientInv, Joined, InLoop
  <1>8. ListsInv'
    <2>1. OwnPeers' = OwnPeers
      BY <1>1 DEF OwnPeers
    <2> QED
      BY <1>1, <1>2, <1>3, <1>5, <2>1 DEF IndInv, ListsInv
  <1>9. SlavesInv' /\ DoneInv'
    BY <1>1, <1>2, <1>3, <1>5 DEF IndInv, SlavesInv, DoneInv, InLoop
  <1> QED
    BY <1>6, <1>7, <1>8, <1>9 DEF IndInv

\* The steps of start.
LEMMA StartInv ==
    ASSUME IndInv, Start
    PROVE  IndInv'
  <1>1. GoodClient(client) /\ DOMAIN main = {"pc", "closed", "running"}
    BY DEF IndInv, Shape
  <1>2. CASE startPeersEnd
    <2>1. client.state = "COMMITTED" /\ client' = Connected("PEER_INFO_RECEIVED")
      BY <1>1, <1>2, PeerResults DEF startPeersEnd
    <2>2. GoodClient(client') /\ client'.state = "PEER_INFO_RECEIVED"
      BY <2>1, GoodResults, ClientFields
    <2>3. /\ main.pc = "peers" /\ DOMAIN main' = DOMAIN main /\ main'.pc = "blocks"
          /\ main'.closed = main.closed /\ main'.running = main.running
      BY <1>1, <1>2 DEF startPeersEnd
    <2>4. ~main.running
      BY <2>3 DEF IndInv, ThreadsInv
    <2> QED
      BY <1>2, <2>1, <2>2, <2>3, <2>4, MainInv DEF startPeersEnd
  <1>3. CASE startFail
    <2>1. ~main.running
      BY <1>3 DEF startFail, IndInv, ThreadsInv
    <2>2. DOMAIN main' = DOMAIN main /\ main'.pc = "idle" /\ main'.closed /\ ~main'.running
      BY <1>1, <1>3, <2>1 DEF startFail
    <2> QED
      BY <1>3, <2>1, <2>2, ClearInv DEF startFail
  <1> QED
    BY <1>2, <1>3, StartPeerInv, StartBlockInv, StartThreadsInv DEF Start

\* waitForCompletion joins the threads.
LEMMA JoinInv ==
    ASSUME IndInv, Join
    PROVE  IndInv'
  <1>1. /\ UNCHANGED <<client, bridge, q, session, slaves, router>>
        /\ main.pc \in {"joinReader", "joinWriter"}
        /\ main'.pc \notin {"aborted", "destroyed", "peers", "blocks"}
        /\ DOMAIN main' = DOMAIN main /\ main'.closed = main.closed
        /\ DOMAIN reader' = DOMAIN reader /\ DOMAIN writer' = DOMAIN writer
        /\ reader'.pc \in {reader.pc, "none"} /\ writer'.pc \in {writer.pc, "none"}
        /\ reader'.slave = reader.slave
    BY DEF IndInv, Shape, Join, joinReader, joinWriter
  <1>2. /\ main'.pc = "joinWriter" => reader'.pc = "none"
        /\ main'.running = main.running \/ ~main'.running
        /\ ~main'.running => reader'.pc = "none" /\ writer'.pc = "none"
    BY DEF IndInv, Shape, ThreadsInv, Join, joinReader, joinWriter, Joined
  <1>3. Shape' /\ ThreadsInv'
    BY <1>1, <1>2 DEF IndInv, Shape, ThreadsInv, Joined
  <1>4. ClientInv' /\ SlavesInv' /\ DoneInv'
    BY <1>1, <1>2 DEF IndInv, ClientInv, SlavesInv, DoneInv, InLoop
  <1>5. ListsInv'
    <2>1. OwnPeers' = OwnPeers
      BY <1>1 DEF OwnPeers
    <2> QED
      BY <1>1, <2>1 DEF IndInv, ListsInv
  <1> QED
    BY <1>3, <1>4, <1>5 DEF IndInv
-----------------------------------------------------------------------------
(* The theorems *)

\* A new bridge satisfies the invariant.
LEMMA InitInv == Init => IndInv
  <1> SUFFICES ASSUME Init
               PROVE  IndInv
    OBVIOUS
  <1>1. GoodClient(client) /\ client.state = "DISCONNECTED"
    BY GoodResults, ClientFields DEF Init
  <1>2. Shape
    BY <1>1, BoundsAssumption DEF Init, Shape, NewBridge, NewQueue, NewRouter
  <1>3. ThreadsInv /\ ClientInv /\ SlavesInv /\ DoneInv
    BY <1>1 DEF Init, ThreadsInv, ClientInv, SlavesInv, DoneInv, Joined, InLoop, NewBridge,
                NewQueue
  <1>4. ListsInv
    BY <1>1 DEF Init, ListsInv, NewBridge
  <1> QED
    BY <1>2, <1>3, <1>4 DEF IndInv

\* Every step of a bridge with an orderly application keeps the invariant.
LEMMA NextInv ==
    ASSUME Orderly
    PROVE  IndInv /\ [Next]_vars => IndInv'
  <1> SUFFICES ASSUME IndInv, [Next]_vars
               PROVE  IndInv'
    OBVIOUS
  <1>1. CASE UNCHANGED vars
    BY <1>1, QuietInv DEF Quiet, vars, appVars
  <1> QED
    BY <1>1, CallsInv, StartInv, JoinInv, MasterInv, WriterInv, ReaderInv, RouterInv DEF Next

\* The invariant holds throughout.
LEMMA SpecInv == ASSUME Orderly PROVE Spec => []IndInv
  BY InitInv, NextInv, PTL DEF Spec

\* When the application waits for the threads before it closes the bridge,
\* the reader never calls the handler of a slave that was deleted, although
\* slaveMap keeps the slaves of a session until disconnect, ids are given
\* anew in every session, and the handler runs without a lock.
THEOREM SlavesOutliveUse == ASSUME Orderly PROVE Spec => []NoUseAfterFree
  <1>1. IndInv => NoUseAfterFree
    BY DEF IndInv, SlavesInv, NoUseAfterFree
  <1> QED
    BY <1>1, SpecInv, PTL

\* Neither ~Bridge nor start meets a std::thread that is joinable.
THEOREM ThreadsAreJoined == ASSUME Orderly PROVE Spec => []NeverAborts
  <1>1. IndInv => NeverAborts
    BY DEF IndInv, ThreadsInv, NeverAborts
  <1> QED
    BY <1>1, SpecInv, PTL

\* A started session has the whole lists of its own router and nothing of an
\* earlier session in the list of blocks, also after sessions that failed in
\* the middle of a list.
THEOREM SessionsStartAfresh == ASSUME Orderly PROVE Spec => []SessionIsItsOwn
  <1>1. IndInv => SessionIsItsOwn
    <2> SUFFICES ASSUME IndInv, Receiving
                 PROVE  /\ bridge.ipBlocks = [k \in 1 .. ListLen |-> session]
                        /\ Cardinality(OwnPeers) = ListLen
                        /\ bridge.routerInfo = session
      BY DEF SessionIsItsOwn, OwnPeers
    <2>1. InLoop /\ main.pc # "destroyed"
      BY DEF Receiving, Alive, InLoop
    <2>2. main.running /\ ~main.closed
      BY <2>1 DEF IndInv, ThreadsInv, ClientInv, Joined, InLoop
    <2>3. router.peers = 0 /\ router.blocks = 0
      BY <2>1 DEF IndInv, ClientInv, ListsInv
    <2>4. bridge.ipBlocks \in Seq(Nat)
      BY DEF IndInv, Shape
    <2>5. Len(bridge.ipBlocks) + 0 = ListLen /\ Cardinality(OwnPeers) + 0 = ListLen
      BY <2>1, <2>2, <2>3 DEF IndInv, ListsInv
    <2>6. Len(bridge.ipBlocks) = ListLen
      BY <2>4, <2>5
    <2>7. Cardinality(OwnPeers) = ListLen
      <3>1. Len(bridge.peers) \in Int /\ DOMAIN bridge.peers = 1 .. Len(bridge.peers)
        BY DEF IndInv, Shape
      <3>2. IsFiniteSet(DOMAIN bridge.peers)
        BY <3>1, FS_Interval
      <3>3. Cardinality(OwnPeers) \in Nat
        BY <3>2, FS_Subset, FS_CardinalityType DEF OwnPeers
      <3> QED
        BY <2>5, <3>3
    <2>8. \A k \in 1 .. ListLen : bridge.ipBlocks[k] = session
      BY <2>1, <2>2, <2>4, <2>6 DEF IndInv, ListsInv
    <2>9. bridge.ipBlocks = [k \in 1 .. ListLen |-> session]
      <3>1. bridge.ipBlocks \in [1 .. Len(bridge.ipBlocks) -> Nat]
        BY <2>4
      <3>2. bridge.ipBlocks \in [1 .. ListLen -> Nat]
        BY <2>6, <3>1
      <3> QED
        BY <2>8, <3>2
    <2> QED
      BY <2>1, <2>2, <2>7, <2>9 DEF IndInv, ListsInv
  <1> QED
    BY <1>1, SpecInv, PTL

\* The writer logs out while the reader still receives in no first session:
\* the only cause is the flag that finish has left in the queue.
THEOREM LogoutIsOnlyEarlyWhenReused == ASSUME Orderly PROVE Spec => []EarlyLogoutIsStale
  <1>1. IndInv => EarlyLogoutIsStale
    BY DEF IndInv, Shape, DoneInv, EarlyLogoutIsStale, LoggedOutEarly, Receiving, InLoop
  <1> QED
    BY <1>1, SpecInv, PTL
=============================================================================
