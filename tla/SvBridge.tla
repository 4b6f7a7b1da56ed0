------------------------------ MODULE SvBridge ------------------------------
(***************************************************************************)
(* The SystemVerilog bridge (sim/bridge.sv, sim/utils.sv) and the C++      *)
(* functions that it calls (sim/bridge.cc).  The simulator's side holds    *)
(* C++ objects by handles: the client, and the Status, SystemInfo and      *)
(* IpConfig objects in which a call returns its results, which it converts *)
(* and has to delete.  A C++ function that gets a null handle ends the     *)
(* process; nothing notices a handle of an object that was deleted.        *)
(*                                                                         *)
(* One step is a call of a C++ function with the SystemVerilog code up to  *)
(* the next one; the getters of a conversion and the delete that ends it   *)
(* are one step.                                                           *)
(***************************************************************************)
EXTENDS Sequences, Integers, FiniteSets

CONSTANTS Reconnects,   \* whether a test bench connects without disconnecting
          ListLen,      \* the length of the router's lists of peers and of blocks
          Handles,      \* bound: the addresses that new objects may have
          MaxSessions   \* bound: calls of connect

ASSUME ReconnectsAssumption == Reconnects \in BOOLEAN
ASSUME BoundsAssumption == ListLen \in Nat /\ MaxSessions \in Nat
ASSUME HandlesAssumption == Handles \subseteq Nat \ {0}

RC == INSTANCE RouterClient

Null == 0

VARIABLES client,      \* Bridge.client, a handle
          heap,        \* handle: the C++ object there
          frame,       \* the method of Bridge that is running, and its locals
          sockets,     \* the number of sockets that the process has open
          process,     \* "running", "terminated" by std::terminate, or
                       \* "corrupt" after the use of a deleted object
          owed,        \* the peers and blocks that the router has yet to send
          session,     \* the number of calls of connect so far
          routerInfo,  \* Bridge.routerInfo, as the session that it describes
          peers,       \* Bridge.peers, each as its session
          ipBlocks,    \* Bridge.ipBlocks, each as its session
          slaveMap     \* the sessions in which a slave was registered

lists == <<routerInfo, peers, ipBlocks, slaveMap>>
vars == <<client, heap, frame, sockets, process, owed, session, lists>>

Sessions == 1 .. MaxSessions

\* The frame of a method: its st and data variables are handles.
Idle == [method |-> "none", step |-> "none", st |-> Null, data |-> Null]

Init ==
    /\ client = Null
    /\ heap = <<>> /\ sockets = 0
    /\ frame = Idle
    /\ process = "running"
    /\ session = 0 /\ owed = [peers |-> 0, blocks |-> 0]
    /\ routerInfo = 0 /\ peers = <<>> /\ ipBlocks = <<>> /\ slaveMap = {}
-----------------------------------------------------------------------------
(* bridge.cc *)

Put(objects, h, x) ==
    [i \in DOMAIN objects \cup {h} |-> IF i = h THEN x ELSE objects[i]]

Delete(objects, h) == [i \in DOMAIN objects \ {h} |-> objects[i]]

Free == Handles \ DOMAIN heap

\* A function is called with handle h to an object of the kind: it checks h,
\* then it does A.
With(h, kind, A) ==
    /\ process = "running"
    /\ IF h \in DOMAIN heap /\ heap[h].kind = kind
       THEN A /\ UNCHANGED process
       ELSE /\ process' = IF h = Null THEN "terminated" ELSE "corrupt"
            /\ UNCHANGED <<client, heap, frame, sockets, owed, session, lists>>

Open(c) == IF c.sock THEN 1 ELSE 0

\* A call of the client c at handle h that gives one of the results: the
\* status is returned in a new object, and so is the value if it has a kind.
Results(h, c, results, kind, method) ==
    \E res \in results, st \in Free \ {h}, data \in (Free \ {h}) \cup {Null} :
        /\ data # st
        /\ (data # Null) = (res.value /\ kind # "none")
        /\ LET returned == Put(Put(heap, h, [kind |-> "client", value |-> res.client]),
                               st, [kind |-> "status", value |-> res.status])
           IN  heap' = IF data = Null THEN returned
                       ELSE Put(returned, data, [kind |-> kind, value |-> session'])
        /\ sockets' = sockets + Open(res.client) - Open(c)
        /\ frame' = [method |-> method, step |-> "convert", st |-> st, data |-> data]

\* sw_axi_client_new, and sw_axi_client_connect on what it returns.
sw_axi_client_connect ==
    \E c \in Free :
        /\ client' = c
        /\ Results(c, RC!NewClient, RC!connect(RC!NewClient), "systemInfo", "connect")

\* The other functions of the client.
ClientCall(op(_), kind, method) ==
    With(client, "client",
         /\ UNCHANGED <<client, session, lists>>
         /\ Results(client, heap[client].value, op(heap[client].value), kind, method))

sw_axi_client_register_slave ==
    ClientCall(RC!registerIp, "none", "registerSlave") /\ UNCHANGED owed

sw_axi_client_commit_ip ==
    ClientCall(RC!commitIp, "none", "commitIp") /\ UNCHANGED owed

\* The router sends what it owes, then an acknowledgement.
Listed(results, n) == {res \in results : res.status = "ok" => res.value = (n > 0)}

sw_axi_client_retrieve_peer_info ==
    /\ ClientCall(LAMBDA c : Listed(RC!retrievePeerInfo(c), owed.peers), "systemInfo", "peers")
    /\ owed' = [owed EXCEPT !.peers = IF frame'.data = Null THEN @ ELSE @ - 1]

sw_axi_client_retrieve_ip_config ==
    /\ ClientCall(LAMBDA c : Listed(RC!retrieveIpConfig(c), owed.blocks), "ipConfig", "blocks")
    /\ owed' = [owed EXCEPT !.blocks = IF frame'.data = Null THEN @ ELSE @ - 1]

\* sw_axi_client_disconnect: how many sockets the client closes.
sw_axi_client_disconnect(c) == Open(c) - Open(RC!disconnect(c))

\* The getters of an object and the delete that follows them.
sw_axi_status_delete(h)      == heap' = Delete(heap, h)
sw_axi_system_info_delete(h) == heap' = Delete(heap, h)
sw_axi_ip_config_delete(h)   == heap' = Delete(heap, h)
-----------------------------------------------------------------------------
(* bridge.sv and utils.sv *)

\* A method is called while none is running.
Called == process = "running" /\ frame = Idle

\* The method has come to a conversion of its results.
Converting(method) == frame.method = method /\ frame.step = "convert"

\* convertStatus: the status is read and deleted, then A.
convertStatus(A) ==
    With(frame.st, "status",
         /\ sw_axi_status_delete(frame.st)
         /\ A
         /\ UNCHANGED <<client, sockets, owed, session>>)

convertedOk == heap[frame.st].value = "ok"

\* Bridge.connect makes a new client, whatever the bridge has.
connect ==
    /\ Called /\ session < MaxSessions
    /\ client = Null \/ Reconnects
    /\ session' = session + 1 /\ owed' = [peers |-> ListLen, blocks |-> ListLen]
    /\ sw_axi_client_connect
    /\ UNCHANGED <<process, lists>>

\* routerInfo = convertSystemInfo(si)
connectInfo ==
    /\ Converting("connect") /\ frame.data # Null
    /\ With(frame.data, "systemInfo",
            /\ sw_axi_system_info_delete(frame.data)
            /\ routerInfo' = heap[frame.data].value
            /\ frame' = [frame EXCEPT !.data = Null]
            /\ UNCHANGED <<client, sockets, owed, session, peers, ipBlocks, slaveMap>>)

connectReturn ==
    /\ Converting("connect") /\ frame.data = Null
    /\ convertStatus(frame' = Idle /\ UNCHANGED lists)

registerSlave == Called /\ sw_axi_client_register_slave

registerSlaveReturn ==
    /\ Converting("registerSlave")
    /\ convertStatus(/\ slaveMap' = slaveMap \cup {s \in {session} : convertedOk}
                     /\ frame' = Idle
                     /\ UNCHANGED <<routerInfo, peers, ipBlocks>>)

commitIp == Called /\ sw_axi_client_commit_ip

commitIpReturn ==
    /\ Converting("commitIp")
    /\ convertStatus(frame' = Idle /\ UNCHANGED lists)

\* Bridge.start, and the next turn of its first loop.
start ==
    /\ Called \/ (frame.method = "peers" /\ frame.step = "next")
    /\ sw_axi_client_retrieve_peer_info

\* Mistake: the error is returned before the status is converted.
startFailUnconverted ==
    /\ Converting("peers") \/ Converting("blocks")
    /\ With(frame.st, "status",
            /\ ~convertedOk
            /\ frame' = Idle
            /\ UNCHANGED <<client, heap, sockets, owed, session, lists>>)

startFail ==
    /\ Converting("peers") \/ Converting("blocks")
    /\ convertStatus(/\ ~convertedOk
                     /\ frame' = Idle
                     /\ UNCHANGED lists)

\* Mistake: what ends the first loop is converted too.
startStatusUnchecked ==
    /\ Converting("peers") \/ Converting("blocks")
    /\ convertStatus(/\ convertedOk
                     /\ frame' = [frame EXCEPT !.step = "data"]
                     /\ UNCHANGED lists)

\* A status without an error is converted.  A null handle ends the loop.
startStatus ==
    /\ Converting("peers") \/ Converting("blocks")
    /\ convertStatus(/\ convertedOk
                     /\ frame' = IF frame.data # Null THEN [frame EXCEPT !.step = "data"]
                                 ELSE IF frame.method = "peers"
                                      THEN [Idle EXCEPT !.method = "blocks", !.step = "next"]
                                      ELSE Idle
                     /\ UNCHANGED lists)

\* Mistake: the object is converted after it was deleted.
startPeerTwice ==
    /\ frame.method = "peers" /\ frame.step = "data"
    /\ With(frame.data, "systemInfo",
            /\ sw_axi_system_info_delete(frame.data)
            /\ peers' = Append(peers, heap[frame.data].value)
            /\ UNCHANGED <<client, frame, sockets, owed, session, routerInfo, ipBlocks, slaveMap>>)

\* peers.push_back(convertSystemInfo(data))
startPeer ==
    /\ frame.method = "peers" /\ frame.step = "data"
    /\ With(frame.data, "systemInfo",
            /\ sw_axi_system_info_delete(frame.data)
            /\ peers' = Append(peers, heap[frame.data].value)
            /\ frame' = [Idle EXCEPT !.method = "peers", !.step = "next"]
            /\ UNCHANGED <<client, sockets, owed, session, routerInfo, ipBlocks, slaveMap>>)

startBlocks ==
    /\ frame.method = "blocks" /\ frame.step = "next"
    /\ sw_axi_client_retrieve_ip_config

\* ipBlocks.push_back(convertIpConfig(data))
startBlock ==
    /\ frame.method = "blocks" /\ frame.step = "data"
    /\ With(frame.data, "ipConfig",
            /\ sw_axi_ip_config_delete(frame.data)
            /\ ipBlocks' = Append(ipBlocks, heap[frame.data].value)
            /\ frame' = [Idle EXCEPT !.method = "blocks", !.step = "next"]
            /\ UNCHANGED <<client, sockets, owed, session, routerInfo, peers, slaveMap>>)

\* Bridge.disconnect; the lists stay as they are.
disconnect ==
    /\ Called
    /\ With(client, "client",
            /\ heap' = Delete(heap, client)
            /\ sockets' = sockets - sw_axi_client_disconnect(heap[client].value)
            /\ client' = Null
            /\ UNCHANGED <<frame, owed, session, lists>>)

Methods == connect \/ registerSlave \/ commitIp \/ start \/ disconnect

Returns ==
    \/ connectInfo \/ connectReturn \/ registerSlaveReturn \/ commitIpReturn
    \/ startFail \/ startStatus \/ startPeer \/ startBlocks \/ startBlock

Next == Methods \/ Returns

Spec == Init /\ [][Next]_vars
-----------------------------------------------------------------------------
(* Properties *)

\* No function of bridge.cc is given the handle of an object that was deleted
\* or is of another type, whichever methods are called and whatever they
\* return: each result is converted once, and the last handle to a client
\* goes with it.
NoDanglingHandle == process # "corrupt"

\* A null handle reaches bridge.cc, which ends the process, only through a
\* method of a bridge without a client.
TerminatesOnlyWithoutClient == process = "terminated" => client = Null /\ frame = Idle

\* Between two methods the objects are the bridge's client and no other, and
\* the open sockets are that client's: the results of every call have been
\* deleted, on the error paths too, and no socket outlives its client.
NothingLeaks ==
    process = "running" /\ frame = Idle =>
        /\ DOMAIN heap = {client} \ {Null}
        /\ sockets = IF client = Null THEN 0 ELSE Open(heap[client].value)
=============================================================================
