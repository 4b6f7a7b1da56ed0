----------------------------- MODULE Handshake -----------------------------
(***************************************************************************)
(* From the start of the router to the start of the bridges: Router.Run    *)
(* accepts numClients connections, shakes hands with one client after the  *)
(* other while it registers their IP blocks, and when all have committed   *)
(* sends each of them the list of peers and of blocks.  The bridges'       *)
(* applications call connect, registerSlave, registerMaster, commitIp and  *)
(* start (SwAxi.cc), which talk to the router through RouterClient.        *)
(*                                                                         *)
(* A call of the application is two kinds of steps, the one that sends the *)
(* request and the ones that deal with the answers.  Each end of a socket  *)
(* may go away at any time.                                                *)
(***************************************************************************)
EXTENDS AddressMap, FiniteSets, SequencesExt

CONSTANTS Bridges,      \* the bridges
          NumClients,   \* the -n argument of the router
          Offers,       \* the IpConfigs that applications register
          Quitters,     \* the bridges that may disconnect early or die
          RouterDies,   \* whether the router's process may die
          MaxRegs,      \* bound: blocks registered by one bridge
          SockCap       \* bound: messages on a socket from the router

\* IpConfig of Data.hh; name and implementation are left out, interrupts
\* stands for firstInterrupt and numInterrupts.
IpConfig == [address : Addr, size : Addr, interrupts : Nat, type : IpTypes]

ASSUME OffersAssumption == Offers \subseteq IpConfig
ASSUME FailuresAssumption == Quitters \subseteq Bridges /\ RouterDies \in BOOLEAN
ASSUME BoundsAssumption ==
    /\ NumClients \in Nat \ {0} /\ MaxRegs \in Nat /\ SockCap \in Nat \ {0}

\* What the IP_INFO message of RouterClient::registerIp carries: the
\* interrupts of the IpConfig are not put into it.
WireIpInfo(config) == [config EXCEPT !.interrupts = 0]

\* The IpInfo that receiveIpInfo builds.  newClient does not store the id of
\* the client, so ClientId is zero for every client.
receiveIpInfo(ip) ==
    [address |-> ip.address, size |-> ip.size, interrupts |-> ip.interrupts,
     type |-> ip.type, id |-> 0, clientId |-> 0]

\* The IpConfig that RouterClient::retrieveIpConfig builds from a message of
\* client.commit about ip.
retrieveIpConfig(ip) ==
    [address |-> ip.address, size |-> ip.size, interrupts |-> ip.interrupts,
     type |-> ip.type]

VARIABLES ips, ipCount, masterCount, ipMMap,  \* the tables of IpRegistry
          rpc,         \* router: where Run is
          clients,     \* router: Router.clients, the accepted connections
          cur,         \* router: the position of the client it deals with
          todo,        \* router: what commit has still to send to that client
          backlog,     \* connections not yet accepted
          toRouter,    \* bridge: messages on its socket to the router
          toClient,    \* bridge: messages on its socket from the router
          sock,        \* bridge: its end of the socket
          state,       \* bridge: RouterClient.state
          call,        \* bridge: the call its application is in
          config,      \* bridge: the IpConfig being registered
          routerInfo,  \* bridge: whether routerInfo is set
          slaveMap,    \* bridge: the keys of slaveMap
          masterMap,   \* bridge: the keys of masterMap
          peers,       \* bridge: the peer list
          ipBlocks     \* bridge: the list of IP blocks

registryVars == <<ips, ipCount, masterCount, ipMMap>>
routerVars   == <<registryVars, rpc, clients, cur, todo>>
clientVars   == <<sock, state, call, config>>
bridgeVars   == <<routerInfo, slaveMap, masterMap, peers, ipBlocks>>
vars == <<routerVars, backlog, toRouter, toClient, clientVars, bridgeVars>>

R == INSTANCE IpRegistry
         WITH Blocks <- {receiveIpInfo(WireIpInfo(o)) : o \in Offers},
              MaxIps <- MaxRegs * Cardinality(Bridges)

RC == INSTANCE RouterClient
-----------------------------------------------------------------------------
SystemInfo(name) == [type |-> "SYSTEM_INFO", name |-> name]
IpInfoMsg(ip)    == [type |-> "IP_INFO", ip |-> ip]
IpAck(id)        == [type |-> "IP_ACK", id |-> id]
Msg(type)        == [type |-> type]

NoConfig == Msg("NONE")

\* Mistake: the list of peers is not acknowledged.
commitMsgsNoPeerAck ==
    <<Msg("ACK")>> \o [i \in DOMAIN clients |-> SystemInfo(clients[i])]
        \o [i \in DOMAIN ips |-> IpInfoMsg(ips[i])] \o <<Msg("ACK")>>

\* Mistake: the list of IP blocks is not acknowledged.
commitMsgsNoIpAck ==
    <<Msg("ACK")>> \o [i \in DOMAIN clients |-> SystemInfo(clients[i])]
        \o <<Msg("ACK")>> \o [i \in DOMAIN ips |-> IpInfoMsg(ips[i])]

\* Mistake: the last block is left out.
commitMsgsShort ==
    <<Msg("ACK")>> \o [i \in DOMAIN clients |-> SystemInfo(clients[i])]
        \o <<Msg("ACK")>> \o [i \in 1 .. Len(ips) - 1 |-> IpInfoMsg(ips[i])]
        \o <<Msg("ACK")>>

\* What client.commit sends: an ACK for COMMIT, the peers, an ACK, the IP
\* blocks, an ACK.
commitMsgs ==
    <<Msg("ACK")>> \o [i \in DOMAIN clients |-> SystemInfo(clients[i])]
        \o <<Msg("ACK")>> \o [i \in DOMAIN ips |-> IpInfoMsg(ips[i])]
        \o <<Msg("ACK")>>

Init ==
    /\ R!RegistryInit
    /\ rpc = "accept"
    /\ clients = <<>>
    /\ cur = 1
    /\ todo = <<>>
    /\ backlog = <<>>
    /\ toRouter = [b \in Bridges |-> <<>>]
    /\ toClient = [b \in Bridges |-> <<>>]
    /\ sock = [b \in Bridges |-> "none"]
    /\ state = [b \in Bridges |-> "DISCONNECTED"]
    /\ call = [b \in Bridges |-> "idle"]
    /\ config = [b \in Bridges |-> NoConfig]
    /\ routerInfo = [b \in Bridges |-> FALSE]
    /\ slaveMap = [b \in Bridges |-> {}]
    /\ masterMap = [b \in Bridges |-> {}]
    /\ peers = [b \in Bridges |-> <<>>]
    /\ ipBlocks = [b \in Bridges |-> <<>>]
-----------------------------------------------------------------------------
(* Router.Run *)

\* Run returns an error: its deferred calls close the listener and every
\* connection.
Fail == rpc' = "failed" /\ UNCHANGED <<registryVars, clients, cur, todo>>

accept ==
    /\ rpc = "accept"
    /\ backlog # <<>>
    /\ clients' = Append(clients, Head(backlog))
    /\ backlog' = Tail(backlog)
    /\ rpc' = IF Len(clients') = NumClients THEN "shakeHands" ELSE "accept"
    /\ UNCHANGED <<registryVars, cur, todo, toRouter, toClient, clientVars, bridgeVars>>

\* Run reads the first message of the client it deals with.
Reads(b, type) ==
    /\ b = clients[cur]
    /\ toRouter[b] # <<>>
    /\ Head(toRouter[b]).type = type
    /\ toRouter' = [toRouter EXCEPT ![b] = Tail(@)]

Sends(b, msg) == toClient' = [toClient EXCEPT ![b] = Append(@, msg)]

shakeHands(b) ==
    /\ rpc = "shakeHands"
    /\ Reads(b, "SYSTEM_INFO")
    /\ Sends(b, SystemInfo("router"))
    /\ rpc' = "receiveIpInfo"
    /\ UNCHANGED <<registryVars, clients, cur, todo, backlog, clientVars, bridgeVars>>

\* Mistake: the id that is acknowledged is read after the increment.
registerIpNextId(b) ==
    LET ip == receiveIpInfo(Head(toRouter[b]).ip)
    IN  /\ rpc = "receiveIpInfo"
        /\ Reads(b, "IP_INFO")
        /\ R!registerIp(ip)
        /\ Sends(b, IF R!Refused(ip) THEN Msg("ERROR") ELSE IpAck(ipCount + 1))
        /\ UNCHANGED <<rpc, clients, cur, todo, backlog, clientVars, bridgeVars>>

\* Run registers the block and answers ackIpInfo or sendError.  If the client
\* has gone meanwhile, the answer is not read and Run fails at its next read.
registerIp(b) ==
    LET ip == receiveIpInfo(Head(toRouter[b]).ip)
    IN  /\ rpc = "receiveIpInfo"
        /\ Reads(b, "IP_INFO")
        /\ R!registerIp(ip)
        /\ Sends(b, IF R!Refused(ip) THEN Msg("ERROR") ELSE IpAck(ipCount))
        /\ UNCHANGED <<rpc, clients, cur, todo, backlog, clientVars, bridgeVars>>

\* Mistake: the loop over the clients goes one too far.
receiveCommitTooFar(b) ==
    /\ rpc = "receiveIpInfo"
    /\ Reads(b, "COMMIT")
    /\ IF cur <= NumClients
       THEN /\ cur' = cur + 1
            /\ rpc' = "shakeHands"
            /\ UNCHANGED todo
       ELSE /\ cur' = 1
            /\ rpc' = "commit"
            /\ todo' = commitMsgs
    /\ UNCHANGED <<registryVars, clients, backlog, toClient, clientVars, bridgeVars>>

\* COMMIT ends the loop; Run goes on to the next client or, after the last,
\* to the commit of the first.
receiveCommit(b) ==
    /\ rpc = "receiveIpInfo"
    /\ Reads(b, "COMMIT")
    /\ IF cur < NumClients
       THEN /\ cur' = cur + 1
            /\ rpc' = "shakeHands"
            /\ UNCHANGED todo
       ELSE /\ cur' = 1
            /\ rpc' = "commit"
            /\ todo' = commitMsgs
    /\ UNCHANGED <<registryVars, clients, backlog, toClient, clientVars, bridgeVars>>

\* readMsg fails: the client is gone.
readMsgFails(b) ==
    /\ rpc \in {"shakeHands", "receiveIpInfo"}
    /\ b = clients[cur]
    /\ toRouter[b] = <<>>
    /\ sock[b] = "closed"
    /\ Fail
    /\ UNCHANGED <<backlog, toRouter, toClient, clientVars, bridgeVars>>

\* One writeMsg of client.commit.
commit(b) ==
    /\ rpc = "commit"
    /\ b = clients[cur]
    /\ sock[b] = "open"
    /\ Len(toClient[b]) < SockCap
    /\ Sends(b, Head(todo))
    /\ IF Len(todo) > 1
       THEN todo' = Tail(todo) /\ UNCHANGED <<cur, rpc>>
       ELSE IF cur < NumClients
            THEN todo' = commitMsgs /\ cur' = cur + 1 /\ UNCHANGED rpc
            ELSE todo' = <<>> /\ rpc' = "running" /\ UNCHANGED cur
    /\ UNCHANGED <<registryVars, clients, backlog, toRouter, clientVars, bridgeVars>>

commitFails(b) ==
    /\ rpc = "commit"
    /\ b = clients[cur]
    /\ sock[b] = "closed"
    /\ Fail
    /\ UNCHANGED <<backlog, toRouter, toClient, clientVars, bridgeVars>>

\* The router's process dies before it has sent all the lists.
routerDies ==
    /\ RouterDies
    /\ rpc \notin {"running", "failed"}
    /\ Fail
    /\ UNCHANGED <<backlog, toRouter, toClient, clientVars, bridgeVars>>
-----------------------------------------------------------------------------
(* The calls of the applications: sending a request.  Calls that are refused
   because of the client's state change nothing and are left out, except
   start. *)

Request(b, name, msg) ==
    /\ call[b] = "idle"
    /\ call' = [call EXCEPT ![b] = name]
    /\ toRouter' = [toRouter EXCEPT ![b] = Append(@, msg)]

\* A bridge connects once; while the router runs, so does its listener.
connect(b) ==
    /\ state[b] = "DISCONNECTED"
    /\ sock[b] = "none"
    /\ rpc # "failed"
    /\ Request(b, "connect", SystemInfo(b))
    /\ sock' = [sock EXCEPT ![b] = "open"]
    /\ backlog' = Append(backlog, b)
    /\ UNCHANGED <<routerVars, toClient, state, config, bridgeVars>>

\* Bridge::registerSlave and Bridge::registerMaster.
register(b, o) ==
    /\ state[b] = "CONNECTED"
    /\ rpc # "failed"
    /\ Cardinality(slaveMap[b] \cup masterMap[b]) < MaxRegs
    /\ Request(b, "registerIp", IpInfoMsg(WireIpInfo(o)))
    /\ config' = [config EXCEPT ![b] = o]
    /\ UNCHANGED <<routerVars, backlog, toClient, sock, state, bridgeVars>>

\* Mistake: the client is COMMITTED before the router has acknowledged it.
commitIpAtOnce(b) ==
    /\ state[b] = "CONNECTED"
    /\ rpc # "failed"
    /\ Request(b, "commitIp", Msg("COMMIT"))
    /\ state' = [state EXCEPT ![b] = "COMMITTED"]
    /\ UNCHANGED <<routerVars, backlog, toClient, sock, config, bridgeVars>>

commitIp(b) ==
    /\ state[b] = "CONNECTED"
    /\ rpc # "failed"
    /\ Request(b, "commitIp", Msg("COMMIT"))
    /\ UNCHANGED <<routerVars, backlog, toClient, sock, state, config, bridgeVars>>

\* The process dies: killed, or writing to a socket that the router has
\* closed (nothing handles SIGPIPE).
Die(b) ==
    /\ sock' = [sock EXCEPT ![b] = "closed"]
    /\ call' = [call EXCEPT ![b] = "dead"]
    /\ UNCHANGED <<routerVars, backlog, toRouter, toClient, state, config, bridgeVars>>

writeToDeadRouter(b) ==
    /\ state[b] = "CONNECTED"
    /\ call[b] = "idle"
    /\ rpc = "failed"
    /\ Die(b)

die(b) ==
    /\ b \in Quitters
    /\ sock[b] = "open"
    /\ Die(b)

start(b) ==
    /\ state[b] = "COMMITTED"
    /\ call[b] = "idle"
    /\ call' = [call EXCEPT ![b] = "retrievePeerInfo"]
    /\ UNCHANGED <<routerVars, backlog, toRouter, toClient, sock, state, config, bridgeVars>>

\* Mistake: the socket is closed and the state stays.
ClientDisconnectSockOnly(b) ==
    /\ sock' = [sock EXCEPT ![b] = "closed"]
    /\ call' = [call EXCEPT ![b] = "idle"]
    /\ config' = [config EXCEPT ![b] = NoConfig]
    /\ UNCHANGED state

\* RouterClient::disconnect, and the end of the call with an error.
ClientDisconnect(b) ==
    /\ sock' = [sock EXCEPT ![b] = "closed"]
    /\ state' = [state EXCEPT ![b] = "DISCONNECTED"]
    /\ call' = [call EXCEPT ![b] = "idle"]
    /\ config' = [config EXCEPT ![b] = NoConfig]

\* Bridge::disconnect; the peer list is not cleared.
BridgeDisconnect(b) ==
    /\ ClientDisconnect(b)
    /\ routerInfo' = [routerInfo EXCEPT ![b] = FALSE]
    /\ ipBlocks' = [ipBlocks EXCEPT ![b] = <<>>]
    /\ slaveMap' = [slaveMap EXCEPT ![b] = {}]
    /\ masterMap' = [masterMap EXCEPT ![b] = {}]
    /\ UNCHANGED peers

\* The application disconnects before start, or calls start too early, which
\* disconnects the bridge.
disconnect(b) ==
    /\ b \in Quitters
    /\ call[b] = "idle"
    /\ state[b] \in {"CONNECTED", "COMMITTED"}
    /\ BridgeDisconnect(b)
    /\ UNCHANGED <<routerVars, backlog, toRouter, toClient>>
-----------------------------------------------------------------------------
(* The calls of the applications: dealing with an answer *)

\* The application is in the given call and reads a message of this type.
Answer(b, name, type) ==
    /\ call[b] = name
    /\ toClient[b] # <<>>
    /\ Head(toClient[b]).type = type
    /\ toClient' = [toClient EXCEPT ![b] = Tail(@)]
    /\ UNCHANGED <<routerVars, backlog, toRouter>>

Enter(b, s, next) ==
    /\ state' = [state EXCEPT ![b] = s]
    /\ call' = [call EXCEPT ![b] = next]

connected(b) ==
    /\ Answer(b, "connect", "SYSTEM_INFO")
    /\ Enter(b, "CONNECTED", "idle")
    /\ routerInfo' = [routerInfo EXCEPT ![b] = TRUE]
    /\ UNCHANGED <<sock, config, slaveMap, masterMap, peers, ipBlocks>>

registered(b) ==
    LET id == Head(toClient[b]).id
    IN  /\ Answer(b, "registerIp", "IP_ACK")
        /\ IF config[b].type \in MasterTypes
           THEN /\ masterMap' = [masterMap EXCEPT ![b] = @ \cup {id}]
                /\ UNCHANGED slaveMap
           ELSE /\ slaveMap' = [slaveMap EXCEPT ![b] = @ \cup {id}]
                /\ UNCHANGED masterMap
        /\ call' = [call EXCEPT ![b] = "idle"]
        /\ config' = [config EXCEPT ![b] = NoConfig]
        /\ UNCHANGED <<sock, state, routerInfo, peers, ipBlocks>>

\* Mistake: the client stays connected after a refusal.
refusedStays(b) ==
    /\ Answer(b, "registerIp", "ERROR")
    /\ call' = [call EXCEPT ![b] = "idle"]
    /\ config' = [config EXCEPT ![b] = NoConfig]
    /\ UNCHANGED <<sock, state, bridgeVars>>

\* RouterClient::registerIp disconnects when the router refuses the block.
refused(b) ==
    /\ Answer(b, "registerIp", "ERROR")
    /\ ClientDisconnect(b)
    /\ UNCHANGED bridgeVars

committed(b) ==
    /\ Answer(b, "commitIp", "ACK")
    /\ Enter(b, "COMMITTED", "idle")
    /\ UNCHANGED <<sock, config, bridgeVars>>

\* The two loops of Bridge::start.
peerInfo(b) ==
    /\ Answer(b, "retrievePeerInfo", "SYSTEM_INFO")
    /\ peers' = [peers EXCEPT ![b] = Append(@, Head(toClient[b]).name)]
    /\ UNCHANGED <<clientVars, routerInfo, slaveMap, masterMap, ipBlocks>>

peersReceived(b) ==
    /\ Answer(b, "retrievePeerInfo", "ACK")
    /\ Enter(b, "PEER_INFO_RECEIVED", "retrieveIpConfig")
    /\ UNCHANGED <<sock, config, bridgeVars>>

ipInfo(b) ==
    /\ Answer(b, "retrieveIpConfig", "IP_INFO")
    /\ ipBlocks' = [ipBlocks EXCEPT ![b] = Append(@, retrieveIpConfig(Head(toClient[b]).ip))]
    /\ UNCHANGED <<clientVars, routerInfo, slaveMap, masterMap, peers>>

started(b) ==
    /\ Answer(b, "retrieveIpConfig", "ACK")
    /\ Enter(b, "STARTED", "idle")
    /\ UNCHANGED <<sock, config, bridgeVars>>

\* The router has closed the connection and all of its messages are read.
Eof(b) == rpc = "failed" /\ toClient[b] = <<>>

\* Run was dealing with b and had something to write to it: a part of a list,
\* or the answer to its request.
WasWritingTo(b) ==
    /\ Len(clients) = NumClients
    /\ b = clients[cur]
    /\ \/ todo # <<>>
       \/ toRouter[b] # <<>> /\ Head(toRouter[b]).type \in {"SYSTEM_INFO", "IP_INFO"}

\* The router's process has died between the size and the end of a message
\* for b.  read returns 0 then, which readFromSocket does not take for an
\* error, and the call never leaves its loop.
answerSpins(b) ==
    /\ call[b] \notin {"idle", "dead", "spinning"}
    /\ Eof(b)
    /\ WasWritingTo(b)
    /\ call' = [call EXCEPT ![b] = "spinning"]
    /\ UNCHANGED <<routerVars, backlog, toRouter, toClient, sock, state, config, bridgeVars>>

\* readFromSocket fails in connect, registerIp or commitIp.
answerFails(b) ==
    /\ call[b] \in {"connect", "registerIp", "commitIp"}
    /\ Eof(b)
    /\ ClientDisconnect(b)
    /\ UNCHANGED <<routerVars, backlog, toRouter, toClient, bridgeVars>>

\* It fails in Bridge::start, which disconnects the bridge.
startFails(b) ==
    /\ call[b] \in {"retrievePeerInfo", "retrieveIpConfig"}
    /\ Eof(b)
    /\ BridgeDisconnect(b)
    /\ UNCHANGED <<routerVars, backlog, toRouter, toClient>>
-----------------------------------------------------------------------------
Router ==
    \/ accept
    \/ \E b \in Bridges :
         \/ shakeHands(b) \/ registerIp(b) \/ receiveCommit(b)
         \/ readMsgFails(b) \/ commit(b) \/ commitFails(b)

Answers(b) ==
    \/ connected(b) \/ registered(b) \/ refused(b) \/ committed(b)
    \/ peerInfo(b) \/ peersReceived(b) \/ ipInfo(b) \/ started(b)
    \/ answerFails(b) \/ startFails(b) \/ answerSpins(b)

\* The calls that take an application from its start to a started bridge.
Advance(b) == connect(b) \/ commitIp(b) \/ start(b) \/ writeToDeadRouter(b)

Next ==
    \/ Router
    \/ \E b \in Bridges :
         \/ Advance(b) \/ Answers(b)
         \/ \E o \in Offers : register(b, o)
         \/ disconnect(b) \/ die(b)
    \/ routerDies

Spec == Init /\ [][Next]_vars

\* The router and a call that can go on do so; every application takes its
\* bridge to start unless it fails or quits.
Fairness ==
    /\ WF_vars(Router)
    /\ \A b \in Bridges : WF_vars(Answers(b)) /\ WF_vars(Advance(b))

FairSpec == Spec /\ Fairness
-----------------------------------------------------------------------------
(* Properties *)

States == {"DISCONNECTED", "CONNECTED", "COMMITTED", "PEER_INFO_RECEIVED", "STARTED"}

Calls == {"idle", "connect", "registerIp", "commitIp", "retrievePeerInfo",
          "retrieveIpConfig", "spinning", "dead"}

\* The variables have their types.
TypeOK ==
    /\ R!TypeOK
    /\ rpc \in {"accept", "shakeHands", "receiveIpInfo", "commit", "running", "failed"}
    /\ clients \in Seq(Bridges)
    /\ cur \in 1 .. NumClients
    /\ sock \in [Bridges -> {"none", "open", "closed"}]
    /\ state \in [Bridges -> States]
    /\ call \in [Bridges -> Calls]
    /\ config \in [Bridges -> Offers \cup {NoConfig}]
    /\ routerInfo \in [Bridges -> BOOLEAN]
    /\ slaveMap \in [Bridges -> SUBSET Nat]
    /\ masterMap \in [Bridges -> SUBSET Nat]
    /\ peers \in [Bridges -> Seq(Bridges)]
    /\ ipBlocks \in [Bridges -> Seq(IpConfig)]

\* The types of message that a call deals with without an error.
Expected(name) ==
    CASE name = "connect"          -> {"SYSTEM_INFO"}
      [] name = "registerIp"       -> {"IP_ACK", "ERROR"}
      [] name = "commitIp"         -> {"ACK"}
      [] name = "retrievePeerInfo" -> {"SYSTEM_INFO", "ACK"}
      [] name = "retrieveIpConfig" -> {"IP_INFO", "ACK"}
      [] OTHER                     -> {}

\* No call of a client ends in one of its "unexpected message" branches, and
\* neither do shakeHands and receiveIpInfo of the router: the two sides agree
\* on where they are in the protocol, although the router buffers the lists
\* that it sends before the client asks for them.
NoUnexpectedMessage ==
    /\ \A b \in Bridges :
         call[b] \notin {"idle", "spinning", "dead"} /\ toClient[b] # <<>>
             => Head(toClient[b]).type \in Expected(call[b])
    /\ \A b \in Bridges :
         rpc \in {"shakeHands", "receiveIpInfo"} /\ b = clients[cur] /\ toRouter[b] # <<>>
             => Head(toRouter[b]).type \in IF rpc = "shakeHands" THEN {"SYSTEM_INFO"}
                                           ELSE {"IP_INFO", "COMMIT"}

\* A started bridge has the complete lists of the router, those of clients
\* that connected or registered later than itself included.
StartedKnowsAll ==
    \A b \in Bridges : state[b] = "STARTED" =>
        /\ Len(clients) = NumClients
        /\ peers[b] = clients
        /\ ipBlocks[b] = [i \in DOMAIN ips |-> retrieveIpConfig(ips[i])]

\* The ids in a bridge's maps are blocks of the right kind, and no id is in
\* the maps of two bridges.
IdsArePartitioned ==
    /\ \A b \in Bridges : \A id \in slaveMap[b] \cup masterMap[b] :
         /\ id + 1 \in DOMAIN ips
         /\ (id \in masterMap[b]) = (ips[id + 1].type \in MasterTypes)
    /\ \A b, d \in Bridges : b # d =>
         (slaveMap[b] \cup masterMap[b]) \cap (slaveMap[d] \cup masterMap[d]) = {}

\* route counts masterCount down to zero to find out that the last master is
\* gone; registerIp counts a master before it refuses it.  When the router
\* starts to route, the count is right all the same: after a refusal the
\* client disconnects and the router fails.
MasterCountIsExact ==
    rpc = "running" =>
        masterCount = Cardinality({i \in DOMAIN ips : ips[i].type \in MasterTypes})

\* While a client is COMMITTED or further nobody can register a block.
RegistryIsFrozen ==
    [][(\E b \in Bridges : state[b] \in {"COMMITTED", "PEER_INFO_RECEIVED", "STARTED"})
          => UNCHANGED registryVars]_vars

\* What RouterClient says of the results of a call by a client c.
Results(name, c) ==
    CASE name = "connect"          -> RC!connect(RC!NewClient)
      [] name = "registerIp"       -> RC!registerIp(c)
      [] name = "commitIp"         -> RC!commitIp(c)
      [] name = "retrievePeerInfo" -> RC!retrievePeerInfo(c)
      [] name = "retrieveIpConfig" -> RC!retrieveIpConfig(c)

\* The client of a bridge: while connect waits its socket is open already.
ClientOf(b) == [state |-> state[b], sock |-> sock[b] = "open"]

\* However the messages, the refusals and the failures of a router and its
\* other clients fall, a call that returns leaves the client in a state in which
\* RouterClient, the view of a call on which Bridge and SvBridge rest, allows
\* it to be.
CallsAsPromised ==
    [][\A b \in Bridges :
          /\ call[b] \notin {"idle", "spinning", "dead"}
          /\ call'[b] \notin {call[b], "spinning", "dead"}
          => \E res \in Results(call[b], ClientOf(b)) : res.client = ClientOf(b)']_vars

\* Every call returns, or its process dies, with one exception: a router that
\* dies in the middle of a message leaves the call that reads it, and no other,
\* in the endless loop of readFromSocket.
CallsReturn ==
    \A b \in Bridges :
        (call[b] # "idle") ~>
            \/ call[b] \in {"idle", "dead"}
            \/ call[b] = "spinning" /\ WasWritingTo(b)

-----------------------------------------------------------------------------
(* What the documentation says and the code does not do *)

\* IpConfig has the "Number of interrupts allocated to the slave": what
\* enumerateIp lists are the blocks as they were registered.
ListedAsRegistered ==
    \A b \in Bridges : state[b] = "STARTED" => Range(ipBlocks[b]) \subseteq Offers
=============================================================================
