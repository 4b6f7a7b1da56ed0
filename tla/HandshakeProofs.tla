-------------------------- MODULE HandshakeProofs --------------------------
(***************************************************************************)
(* Proofs about the handshake for any number of bridges and of clients that *)
(* the router waits for, any blocks on offer and any failures.             *)
(*                                                                         *)
(* The inductive invariant describes a socket from both of its ends: from  *)
(* the client's call, what may be on the way to it (ClientInv), and from   *)
(* the place where Router.Run is in its loops, what may be on the way to   *)
(* the router (RouterInv).  A client that has gone constrains only what it *)
(* has left on its socket.                                                 *)
(***************************************************************************)
EXTENDS Handshake, TLAPS, FiniteSetTheorems, SequenceTheorems

Open(b) == sock[b] = "open"

Late == {"COMMITTED", "PEER_INFO_RECEIVED", "STARTED"}

\* All clients are connected and Run does not, or no longer, read blocks.
RegistrationOver == rpc \in {"commit", "running", "failed"} /\ Len(clients) = NumClients

ToClientMsg ==
    {SystemInfo(name) : name \in Bridges \cup {"router"}}
        \cup {IpInfoMsg(ip) : ip \in R!IpInfo} \cup {IpAck(id) : id \in Nat}
        \cup {Msg("ACK"), Msg("ERROR")}

ToRouterMsg ==
    {SystemInfo(b) : b \in Bridges} \cup {IpInfoMsg(WireIpInfo(o)) : o \in Offers}
        \cup {Msg("COMMIT")}

MessagesInv ==
    /\ toRouter \in [Bridges -> Seq(ToRouterMsg)]
    /\ toClient \in [Bridges -> Seq(ToClientMsg)]
    /\ todo \in Seq(ToClientMsg)
-----------------------------------------------------------------------------
(* The connections *)

\* A bridge has one connection, which is in the backlog or accepted.
PlacesInv ==
    /\ backlog \in Seq(Bridges)
    /\ \A i, j \in DOMAIN clients : clients[i] = clients[j] => i = j
    /\ \A i, j \in DOMAIN backlog : backlog[i] = backlog[j] => i = j
    /\ \A i \in DOMAIN clients, j \in DOMAIN backlog : clients[i] # backlog[j]
    /\ \A i \in DOMAIN clients : sock[clients[i]] # "none"
    /\ \A j \in DOMAIN backlog : sock[backlog[j]] # "none"
    /\ Len(clients) <= NumClients
    /\ rpc = "accept" => Len(clients) < NumClients
    /\ rpc \notin {"accept", "failed"} => Len(clients) = NumClients

\* The state of a client fits the call that its application is in, and a
\* client without a socket is in no call.
StateFits(b) ==
    CASE sock[b] = "none"   -> /\ call[b] = "idle" /\ state[b] = "DISCONNECTED"
                               /\ toRouter[b] = <<>> /\ toClient[b] = <<>>
      [] sock[b] = "closed" -> call[b] = "dead" \/ (call[b] = "idle" /\ state[b] = "DISCONNECTED")
      [] sock[b] = "open"   -> \/ call[b] = "connect" /\ state[b] = "DISCONNECTED"
                               \/ call[b] \in {"idle", "registerIp", "commitIp"}
                                    /\ state[b] = "CONNECTED"
                               \/ call[b] \in {"idle", "retrievePeerInfo"}
                                    /\ state[b] = "COMMITTED"
                               \/ call[b] = "retrieveIpConfig" /\ state[b] = "PEER_INFO_RECEIVED"
                               \/ call[b] = "idle" /\ state[b] = "STARTED"
                               \/ call[b] = "spinning"
-----------------------------------------------------------------------------
(* The client's end of a socket *)

\* The number of messages of client.commit.
Total == 3 + Len(clients) + Len(ips)

\* How many of them bridge b has read.
Taken(b) ==
    IF state[b] = "COMMITTED" THEN 1 + Len(peers[b])
    ELSE IF state[b] = "PEER_INFO_RECEIVED" THEN 2 + Len(clients) + Len(ipBlocks[b])
    ELSE IF state[b] = "STARTED" THEN Total
    ELSE 0

\* The bridge waits for the router's lists or reads them.
Listening(b) == call[b] = "commitIp" \/ state[b] \in Late

\* What is on the way to a bridge that listens is the next part of the lists.
NextOfLists(b) ==
    /\ Taken(b) + Len(toClient[b]) <= Total
    /\ \A k \in 1 .. Len(toClient[b]) : toClient[b][k] = commitMsgs[Taken(b) + k]
    /\ toClient[b] # <<>> => RegistrationOver

ClientInv(b) ==
    Open(b) =>
        /\ call[b] = "connect" => toClient[b] \in {<<>>, <<SystemInfo("router")>>}
        /\ call[b] = "idle" /\ state[b] = "CONNECTED" => toClient[b] = <<>>
        /\ call[b] = "registerIp" =>
             /\ config[b] \in Offers
             /\ \/ toClient[b] \in {<<>>, <<Msg("ERROR")>>}
                \/ \E id \in Nat : toClient[b] = <<IpAck(id)>>
        /\ Listening(b) => NextOfLists(b)

\* What the bridge has of the lists is the beginning of them; the bridge is
\* out of a loop of start when it has the whole list.
KnowsInv(b) ==
    /\ state[b] \in Late =>
         /\ RegistrationOver
         /\ Len(peers[b]) <= Len(clients) /\ Len(ipBlocks[b]) <= Len(ips)
         /\ \A k \in 1 .. Len(peers[b]) : peers[b][k] = clients[k]
         /\ \A k \in 1 .. Len(ipBlocks[b]) : ipBlocks[b][k] = retrieveIpConfig(ips[k])
    /\ state[b] \in {"PEER_INFO_RECEIVED", "STARTED"} => Len(peers[b]) = Len(clients)
    /\ state[b] = "STARTED" => Len(ipBlocks[b]) = Len(ips)
    /\ state[b] = "COMMITTED" => ipBlocks[b] = <<>>
    /\ sock[b] = "none" \/ (Open(b) /\ state[b] \in {"DISCONNECTED", "CONNECTED"})
         => peers[b] = <<>> /\ ipBlocks[b] = <<>>
-----------------------------------------------------------------------------
(* The router's end of a socket *)

\* The router has read nothing from the client.
Fresh(b) ==
    /\ toRouter[b] = <<SystemInfo(b)>>
    /\ Open(b) => call[b] = "connect" /\ toClient[b] = <<>>

\* The router reads blocks from the client until it commits.
Registering(b) ==
    /\ \/ toRouter[b] \in {<<>>, <<Msg("COMMIT")>>}
       \/ \E o \in Offers : toRouter[b] = <<IpInfoMsg(WireIpInfo(o))>>
    /\ Open(b) =>
         \/ call[b] = "connect" /\ toRouter[b] = <<>>
         \/ call[b] = "idle" /\ state[b] = "CONNECTED" /\ toRouter[b] = <<>>
         \/ call[b] = "registerIp" /\ toRouter[b] = <<>>
         \/ /\ call[b] = "registerIp" /\ toRouter[b] = <<IpInfoMsg(WireIpInfo(config[b]))>>
            /\ toClient[b] = <<>>
         \/ call[b] = "commitIp" /\ toRouter[b] = <<Msg("COMMIT")>> /\ toClient[b] = <<>>

\* The client has committed and the router has sent it no list.
Committing(b) == Open(b) => call[b] = "commitIp" /\ toClient[b] = <<>>

\* The router sends the client its lists.
Listing(b) == Open(b) => Listening(b) /\ Taken(b) + Len(toClient[b]) + Len(todo) = Total

RouterInv ==
    /\ rpc # "failed" => \A j \in DOMAIN backlog : Fresh(backlog[j])
    /\ \A i \in DOMAIN clients :
         /\ rpc = "accept" \/ (rpc = "shakeHands" /\ i >= cur) \/ (rpc = "receiveIpInfo" /\ i > cur)
              => Fresh(clients[i])
         /\ rpc = "receiveIpInfo" /\ i = cur => Registering(clients[i])
         /\ (rpc \in {"shakeHands", "receiveIpInfo"} /\ i < cur) \/ (rpc = "commit" /\ i > cur)
              => Committing(clients[i])
         /\ rpc = "commit" /\ i = cur => Listing(clients[i])

\* What commit has still to send is the end of the lists.
TodoInv ==
    rpc = "commit" =>
        /\ Len(todo) \in 1 .. Total
        /\ \A k \in 1 .. Len(todo) : todo[k] = commitMsgs[Total - Len(todo) + k]

\* The first client is dealt with first.
CurInv == rpc = "accept" => cur = 1
-----------------------------------------------------------------------------
(* The registered blocks *)

\* The block was acknowledged and registerIp of the bridge has not returned.
Pending(b, id) == call[b] = "registerIp" /\ toClient[b] = <<IpAck(id)>>

Owns(b, id) == id \in slaveMap[b] \/ id \in masterMap[b] \/ Pending(b, id)

IsMaster(id) == ips[id + 1].type \in MasterTypes

\* The blocks of a bridge are registered and of the right kind.
KindsInv(b) ==
    \A id \in Nat :
        /\ Owns(b, id) => id < Len(ips)
        /\ id \in slaveMap[b] => ~IsMaster(id)
        /\ id \in masterMap[b] => IsMaster(id)
        /\ Pending(b, id) => (IsMaster(id) <=> config[b].type \in MasterTypes)

OwnersInv ==
    /\ ipCount = Len(ips)
    /\ \A b \in Bridges : KindsInv(b)
    /\ \A b, d \in Bridges : \A id \in Nat : Owns(b, id) /\ Owns(d, id) => b = d

Masters == {i \in DOMAIN ips : ips[i].type \in MasterTypes}

\* Nothing more will be read from the client: a block of it was refused, or it
\* has gone.
Doomed(b) ==
    /\ toRouter[b] = <<>>
    /\ sock[b] = "closed" \/ (call[b] = "registerIp" /\ toClient[b] = <<Msg("ERROR")>>)

\* masterCount is too high only when Run is about to fail.
CountInv ==
    rpc # "failed" =>
        masterCount = Cardinality(Masters) \/ (rpc = "receiveIpInfo" /\ Doomed(clients[cur]))

IndInv ==
    /\ TypeOK /\ MessagesInv /\ PlacesInv /\ CurInv
    /\ \A b \in Bridges : StateFits(b) /\ ClientInv(b) /\ KnowsInv(b)
    /\ RouterInv /\ TodoInv
    /\ OwnersInv /\ CountInv
-----------------------------------------------------------------------------
(* Messages *)

\* The messages are told apart by their types.
LEMMA MessageFields ==
    /\ \A name : SystemInfo(name).type = "SYSTEM_INFO" /\ SystemInfo(name).name = name
    /\ \A ip : IpInfoMsg(ip).type = "IP_INFO" /\ IpInfoMsg(ip).ip = ip
    /\ \A id : IpAck(id).type = "IP_ACK" /\ IpAck(id).id = id
    /\ \A type : Msg(type).type = type
  BY DEF SystemInfo, IpInfoMsg, IpAck, Msg

\* The elements of a concatenation.
LEMMA ConcatFacts ==
    ASSUME NEW S, NEW s \in Seq(S), NEW t \in Seq(S)
    PROVE  /\ s \o t \in Seq(S)
           /\ Len(s \o t) = Len(s) + Len(t)
           /\ \A k \in 1 .. Len(s) : (s \o t)[k] = s[k]
           /\ \A k \in 1 .. Len(t) : (s \o t)[Len(s) + k] = t[k]
  OBVIOUS

\* The lists that client.commit sends, one message after the other.
LEMMA CommitMsgs ==
    ASSUME clients \in Seq(Bridges), ips \in Seq(R!IpInfo)
    PROVE  /\ commitMsgs \in Seq(ToClientMsg)
           /\ Len(commitMsgs) = Total
           /\ commitMsgs[1] = Msg("ACK")
           /\ \A k \in 1 .. Len(clients) : commitMsgs[1 + k] = SystemInfo(clients[k])
           /\ commitMsgs[2 + Len(clients)] = Msg("ACK")
           /\ \A k \in 1 .. Len(ips) : commitMsgs[2 + Len(clients) + k] = IpInfoMsg(ips[k])
           /\ commitMsgs[3 + Len(clients) + Len(ips)] = Msg("ACK")
  <1> DEFINE ack == <<Msg("ACK")>>
             names == [i \in DOMAIN clients |-> SystemInfo(clients[i])]
             blocks == [i \in DOMAIN ips |-> IpInfoMsg(ips[i])]
             s1 == ack \o names
             s2 == s1 \o ack
             s3 == s2 \o blocks
             s4 == s3 \o ack
  <1>1. ack \in Seq(ToClientMsg)
    BY DEF ToClientMsg
  <1>2. names \in Seq(ToClientMsg)
    BY DEF ToClientMsg
  <1>3. blocks \in Seq(ToClientMsg)
    <2>1. \A i \in DOMAIN ips : IpInfoMsg(ips[i]) \in ToClientMsg
      BY DEF ToClientMsg
    <2> QED
      BY <2>1
  <1>4. Len(ack) = 1 /\ ack[1] = Msg("ACK")
    OBVIOUS
  <1>5. /\ Len(names) = Len(clients)
        /\ \A k \in 1 .. Len(clients) : names[k] = SystemInfo(clients[k])
    OBVIOUS
  <1>6. /\ Len(blocks) = Len(ips)
        /\ \A k \in 1 .. Len(ips) : blocks[k] = IpInfoMsg(ips[k])
    OBVIOUS
  <1> HIDE DEF ack, names, blocks
  <1>7. /\ s1 \in Seq(ToClientMsg) /\ Len(s1) = Len(ack) + Len(names)
        /\ \A k \in 1 .. Len(ack) : s1[k] = ack[k]
        /\ \A k \in 1 .. Len(names) : s1[Len(ack) + k] = names[k]
    BY <1>1, <1>2, ConcatFacts
  <1> HIDE DEF s1
  <1>8. s1 \in Seq(ToClientMsg)
    BY <1>7
  <1>9. /\ s2 \in Seq(ToClientMsg) /\ Len(s2) = Len(s1) + Len(ack)
        /\ \A k \in 1 .. Len(s1) : s2[k] = s1[k]
        /\ \A k \in 1 .. Len(ack) : s2[Len(s1) + k] = ack[k]
    BY <1>1, <1>8, ConcatFacts
  <1> HIDE DEF s2
  <1>10. s2 \in Seq(ToClientMsg)
    BY <1>9
  <1>11. /\ s3 \in Seq(ToClientMsg) /\ Len(s3) = Len(s2) + Len(blocks)
         /\ \A k \in 1 .. Len(s2) : s3[k] = s2[k]
         /\ \A k \in 1 .. Len(blocks) : s3[Len(s2) + k] = blocks[k]
    BY <1>3, <1>10, ConcatFacts
  <1> HIDE DEF s3
  <1>12. s3 \in Seq(ToClientMsg)
    BY <1>11
  <1>13. /\ s4 \in Seq(ToClientMsg) /\ Len(s4) = Len(s3) + Len(ack)
         /\ \A k \in 1 .. Len(s3) : s4[k] = s3[k]
         /\ \A k \in 1 .. Len(ack) : s4[Len(s3) + k] = ack[k]
    BY <1>1, <1>12, ConcatFacts
  <1> HIDE DEF s4
  <1>14. commitMsgs = s4
    BY DEF commitMsgs, ack, names, blocks, s1, s2, s3, s4
  <1>15. Len(clients) \in Nat /\ Len(ips) \in Nat
    OBVIOUS
  <1>16. /\ Len(s1) = 1 + Len(clients) /\ Len(s2) = 2 + Len(clients)
         /\ Len(s3) = 2 + Len(clients) + Len(ips) /\ Len(s4) = Total
    BY <1>4, <1>5, <1>6, <1>7, <1>9, <1>11, <1>13, <1>15 DEF Total
  <1>17. s4[1] = Msg("ACK")
    BY <1>4, <1>7, <1>9, <1>11, <1>13, <1>15, <1>16
  <1>18. ASSUME NEW k \in 1 .. Len(clients)
         PROVE  s4[1 + k] = SystemInfo(clients[k])
    <2>1. s1[Len(ack) + k] = SystemInfo(clients[k])
      BY <1>5, <1>7
    <2>2. Len(ack) + k = 1 + k /\ 1 + k \in 1 .. Len(s1)
      BY <1>4, <1>15, <1>16
    <2>3. s1[1 + k] = SystemInfo(clients[k])
      BY <2>1, <2>2
    <2>4. 1 + k \in 1 .. Len(s2) /\ 1 + k \in 1 .. Len(s3)
      BY <1>15, <1>16
    <2> QED
      BY <2>2, <2>3, <2>4, <1>9, <1>11, <1>13
  <1>19. s4[2 + Len(clients)] = Msg("ACK")
    <2>1. 1 \in 1 .. Len(ack)
      BY <1>4
    <2>2. s2[Len(s1) + 1] = Msg("ACK")
      BY <1>4, <1>9, <2>1
    <2>3. /\ Len(s1) + 1 = 2 + Len(clients)
          /\ 2 + Len(clients) \in 1 .. Len(s2) /\ 2 + Len(clients) \in 1 .. Len(s3)
      BY <1>15, <1>16
    <2>4. s2[2 + Len(clients)] = Msg("ACK")
      BY <2>2, <2>3
    <2> QED
      BY <2>3, <2>4, <1>11, <1>13
  <1>20. ASSUME NEW k \in 1 .. Len(ips)
         PROVE  s4[2 + Len(clients) + k] = IpInfoMsg(ips[k])
    <2>1. s3[Len(s2) + k] = IpInfoMsg(ips[k])
      BY <1>6, <1>11
    <2>2. Len(s2) + k = 2 + Len(clients) + k /\ 2 + Len(clients) + k \in 1 .. Len(s3)
      BY <1>15, <1>16
    <2>3. s3[2 + Len(clients) + k] = IpInfoMsg(ips[k])
      BY <2>1, <2>2
    <2> QED
      BY <2>2, <2>3, <1>13
  <1>21. s4[3 + Len(clients) + Len(ips)] = Msg("ACK")
    <2>1. 1 \in 1 .. Len(ack)
      BY <1>4
    <2>2. s4[Len(s3) + 1] = Msg("ACK")
      BY <1>4, <1>13, <2>1
    <2>3. Len(s3) + 1 = 3 + Len(clients) + Len(ips)
      BY <1>15, <1>16
    <2> QED
      BY <2>2, <2>3
  <1> QED
    BY <1>13, <1>14, <1>16, <1>17, <1>18, <1>19, <1>20, <1>21
-----------------------------------------------------------------------------
(* Steps that leave a bridge alone *)

\* A step does not touch the bridge and its socket.
Same(d) ==
    /\ toRouter'[d] = toRouter[d] /\ toClient'[d] = toClient[d]
    /\ sock'[d] = sock[d] /\ state'[d] = state[d]
    /\ call'[d] = call[d] /\ config'[d] = config[d]
    /\ slaveMap'[d] = slaveMap[d] /\ masterMap'[d] = masterMap[d]
    /\ peers'[d] = peers[d] /\ ipBlocks'[d] = ipBlocks[d]

\* The lists depend on the connections and on the blocks only.
LEMMA SameLists ==
    ASSUME UNCHANGED <<ips, clients>>
    PROVE  commitMsgs' = commitMsgs /\ Total' = Total
  BY DEF commitMsgs, Total, SystemInfo, IpInfoMsg, Msg

\* What the invariant says of a bridge is kept by a step that does not touch
\* it and does not register a block.
LEMMA SameBridge ==
    ASSUME NEW d \in Bridges, Same(d), UNCHANGED <<ips, clients>>,
           RegistrationOver => RegistrationOver'
    PROVE  /\ StateFits(d) => StateFits(d)'
           /\ ClientInv(d) => ClientInv(d)'
           /\ KnowsInv(d) => KnowsInv(d)'
           /\ Fresh(d) => Fresh(d)'
           /\ Registering(d) => Registering(d)'
           /\ Committing(d) => Committing(d)'
           /\ UNCHANGED todo /\ Listing(d) => Listing(d)'
           /\ KindsInv(d) => KindsInv(d)'
           /\ \A id \in Nat : Owns(d, id)' => Owns(d, id)
           /\ Doomed(d) => Doomed(d)'
  <1>1. commitMsgs' = commitMsgs /\ Total' = Total
    BY SameLists
  <1>2. Taken(d)' = Taken(d) /\ (Listening(d) <=> Listening(d)')
    BY <1>1 DEF Same, Taken, Listening
  <1>3. NextOfLists(d) => NextOfLists(d)'
    BY <1>1, <1>2 DEF Same, NextOfLists
  <1>4. StateFits(d) => StateFits(d)'
    BY DEF Same, StateFits
  <1>5. ClientInv(d) => ClientInv(d)'
    BY <1>2, <1>3 DEF Same, ClientInv, Open, SystemInfo, Msg, IpAck
  <1>6. KnowsInv(d) => KnowsInv(d)'
    BY DEF Same, KnowsInv, Open, retrieveIpConfig
  <1>7. (Fresh(d) => Fresh(d)') /\ (Committing(d) => Committing(d)') /\ (Doomed(d) => Doomed(d)')
    BY DEF Same, Fresh, Committing, Doomed, Open, SystemInfo, Msg
  <1>8. Registering(d) => Registering(d)'
    BY DEF Same, Registering, Open, SystemInfo, Msg, IpInfoMsg, WireIpInfo
  <1>9. UNCHANGED todo /\ Listing(d) => Listing(d)'
    BY <1>1, <1>2 DEF Same, Listing, Open
  <1>10. \A id \in Nat : Pending(d, id)' <=> Pending(d, id)
    BY DEF Same, Pending, IpAck
  <1>11. \A id \in Nat : (Owns(d, id)' <=> Owns(d, id)) /\ (IsMaster(id)' <=> IsMaster(id))
    BY <1>10 DEF Same, Owns, IsMaster
  <1>12. KindsInv(d) => KindsInv(d)'
    BY <1>10, <1>11 DEF Same, KindsInv
  <1> QED
    BY <1>4, <1>5, <1>6, <1>7, <1>8, <1>9, <1>11, <1>12
-----------------------------------------------------------------------------
(* Steps of a client *)

\* What a step of bridge b may do to the part that the router relies on.
Keeps(b) ==
    /\ Fresh(b) => Fresh(b)'
    /\ Registering(b) => Registering(b)'
    /\ Committing(b) => Committing(b)'
    /\ Listing(b) => Listing(b)'
    /\ Doomed(b) => Doomed(b)'

\* A step of a bridge keeps the invariant when it keeps its own part of it.
LEMMA ClientStep ==
    ASSUME IndInv, NEW b \in Bridges, UNCHANGED <<routerVars, backlog>>,
           TypeOK', MessagesInv',
           \A d \in Bridges \ {b} : Same(d),
           sock'[b] # "none",
           StateFits(b)', ClientInv(b)', KnowsInv(b)', KindsInv(b)',
           \A id \in Nat : Owns(b, id)' => Owns(b, id),
           rpc # "failed" => Keeps(b)
    PROVE  IndInv'
  <1>1. /\ UNCHANGED <<ips, ipCount, masterCount, ipMMap, rpc, clients, cur, todo, backlog>>
        /\ RegistrationOver => RegistrationOver'
    BY DEF routerVars, registryVars, RegistrationOver
  <1>2. \A d \in Bridges \ {b} :
          /\ StateFits(d) => StateFits(d)'
          /\ ClientInv(d) => ClientInv(d)'
          /\ KnowsInv(d) => KnowsInv(d)'
          /\ Fresh(d) => Fresh(d)'
          /\ Registering(d) => Registering(d)'
          /\ Committing(d) => Committing(d)'
          /\ Listing(d) => Listing(d)'
          /\ KindsInv(d) => KindsInv(d)'
          /\ \A id \in Nat : Owns(d, id)' => Owns(d, id)
          /\ Doomed(d) => Doomed(d)'
    BY <1>1, SameBridge
  <1>3. \A d \in Bridges : StateFits(d)' /\ ClientInv(d)' /\ KnowsInv(d)'
    BY <1>2 DEF IndInv
  <1>4. \A d \in Bridges : rpc # "failed" =>
          /\ Fresh(d) => Fresh(d)'
          /\ Registering(d) => Registering(d)'
          /\ Committing(d) => Committing(d)'
          /\ Listing(d) => Listing(d)'
          /\ Doomed(d) => Doomed(d)'
    BY <1>2 DEF Keeps
  <1>5. clients \in Seq(Bridges) /\ backlog \in Seq(Bridges) /\ cur \in 1 .. NumClients
    BY DEF IndInv, TypeOK, PlacesInv
  <1>6. PlacesInv'
    <2>1. \A d \in Bridges : sock[d] # "none" => sock'[d] # "none"
      BY DEF Same
    <2> QED
      BY <1>1, <1>5, <2>1 DEF IndInv, PlacesInv
  <1>7. CurInv'
    BY <1>1 DEF IndInv, CurInv
  <1>8. RouterInv'
    <2>1. \A j \in DOMAIN backlog : backlog[j] \in Bridges
      BY <1>5
    <2>2. \A i \in DOMAIN clients : clients[i] \in Bridges
      BY <1>5
    <2> QED
      BY <1>1, <1>4, <2>1, <2>2 DEF IndInv, RouterInv
  <1>9. TodoInv'
    BY <1>1, SameLists DEF IndInv, TodoInv
  <1>10. OwnersInv'
    <2>1. \A d \in Bridges : KindsInv(d)'
      BY <1>2 DEF IndInv, OwnersInv
    <2>2. \A d \in Bridges : \A id \in Nat : Owns(d, id)' => Owns(d, id)
      BY <1>2
    <2> QED
      BY <1>1, <2>1, <2>2 DEF IndInv, OwnersInv
  <1>11. CountInv'
    <2>1. Masters' = Masters
      BY <1>1 DEF Masters
    <2>2. rpc = "receiveIpInfo" => clients[cur] \in Bridges
      BY <1>5 DEF IndInv, PlacesInv
    <2> QED
      BY <1>1, <1>4, <2>1, <2>2 DEF IndInv, CountInv
  <1> QED
    BY <1>3, <1>6, <1>7, <1>8, <1>9, <1>10, <1>11 DEF IndInv

\* A bridge whose end of the socket closes keeps the invariant: it leaves
\* what it has sent, and nothing is said of what is on the way to it.
LEMMA ClosingStep ==
    ASSUME IndInv, NEW b \in Bridges, UNCHANGED <<routerVars, backlog, toRouter>>,
           TypeOK', MessagesInv',
           \A d \in Bridges \ {b} : Same(d),
           sock'[b] = "closed",
           \/ call'[b] = "dead" /\ UNCHANGED <<state, peers, ipBlocks>>
           \/ call'[b] = "idle" /\ state'[b] = "DISCONNECTED",
           slaveMap'[b] \subseteq slaveMap[b], masterMap'[b] \subseteq masterMap[b]
    PROVE  IndInv'
  <1>1. UNCHANGED <<ips, clients, rpc>> /\ toRouter'[b] = toRouter[b]
    BY DEF routerVars, registryVars
  <1>2. ~Open(b)'
    BY DEF Open
  <1>3. StateFits(b)'
    BY DEF StateFits
  <1>4. ClientInv(b)'
    BY <1>2 DEF ClientInv
  <1>5. KnowsInv(b)'
    BY <1>1, <1>2 DEF IndInv, KnowsInv, RegistrationOver, retrieveIpConfig, Late, Open
  <1>6. \A id \in Nat : ~Pending(b, id)' /\ (Owns(b, id)' => Owns(b, id))
    BY DEF Pending, Owns
  <1>7. KindsInv(b)'
    BY <1>1, <1>6 DEF IndInv, OwnersInv, KindsInv, IsMaster
  <1>8. Keeps(b)
    <2>1. Registering(b) => Registering(b)'
      BY <1>1, <1>2 DEF Registering, IpInfoMsg, WireIpInfo, Msg
    <2> QED
      BY <1>1, <1>2, <2>1 DEF Keeps, Fresh, Committing, Listing, Doomed, SystemInfo
  <1> QED
    BY <1>3, <1>4, <1>5, <1>6, <1>7, <1>8, ClientStep

\* Reading the first of the messages on the way to a client.
LEMMA AnswerFacts ==
    ASSUME MessagesInv, NEW b \in Bridges, NEW name, NEW type, Answer(b, name, type)
    PROVE  /\ call[b] = name /\ toClient[b] # <<>> /\ toClient[b][1].type = type
           /\ UNCHANGED <<routerVars, backlog, toRouter>>
           /\ MessagesInv'
           /\ \A d \in Bridges \ {b} : toClient'[d] = toClient[d]
           /\ toClient'[b] = Tail(toClient[b])
           /\ Len(toClient[b]) \in Nat \ {0} /\ Len(toClient'[b]) = Len(toClient[b]) - 1
           /\ \A k \in 1 .. Len(toClient'[b]) : toClient'[b][k] = toClient[b][k + 1]
  <1> DEFINE s == toClient[b]
  <1>1. s \in Seq(ToClientMsg) /\ s # <<>>
    BY DEF MessagesInv, Answer
  <1> HIDE DEF s
  <1>2. /\ Tail(s) \in Seq(ToClientMsg) /\ Len(s) \in Nat \ {0}
        /\ Len(Tail(s)) = Len(s) - 1 /\ Head(s) = s[1]
        /\ \A k \in 1 .. Len(Tail(s)) : Tail(s)[k] = s[k + 1]
    BY <1>1
  <1>3. /\ toClient' = [toClient EXCEPT ![b] = Tail(s)]
        /\ call[b] = name /\ Head(s).type = type
        /\ UNCHANGED <<routerVars, backlog, toRouter>>
    BY DEF Answer, s
  <1>4. toClient'[b] = Tail(s) /\ \A d \in Bridges \ {b} : toClient'[d] = toClient[d]
    BY <1>3 DEF MessagesInv
  <1>5. MessagesInv'
    BY <1>2, <1>3 DEF MessagesInv, routerVars
  <1> QED
    BY <1>1, <1>2, <1>3, <1>4, <1>5 DEF s

\* RouterClient::disconnect and the death of the process keep the invariant.
LEMMA CloseSteps ==
    ASSUME IndInv, NEW b \in Bridges,
           \/ writeToDeadRouter(b) \/ die(b) \/ disconnect(b)
           \/ refused(b) \/ answerFails(b) \/ startFails(b)
    PROVE  IndInv'
  <1> USE DEF Die, ClientDisconnect, BridgeDisconnect
  <1>1. TypeOK /\ MessagesInv
    BY DEF IndInv
  <1>2. CASE Die(b)
    <2>1. TypeOK'
      BY <1>1, <1>2 DEF TypeOK, routerVars, registryVars, bridgeVars, R!TypeOK, Calls
    <2>2. MessagesInv'
      BY <1>1, <1>2 DEF MessagesInv, routerVars
    <2>3. \A d \in Bridges \ {b} : Same(d)
      BY <1>1, <1>2 DEF Same, TypeOK, bridgeVars
    <2>4. sock'[b] = "closed" /\ call'[b] = "dead"
      BY <1>1, <1>2 DEF TypeOK
    <2> QED
      BY <1>2, <2>1, <2>2, <2>3, <2>4, ClosingStep DEF bridgeVars
  <1>3. CASE disconnect(b) \/ startFails(b)
    <2>1. /\ BridgeDisconnect(b) /\ UNCHANGED <<routerVars, backlog, toRouter, toClient>>
      BY <1>3 DEF disconnect, startFails
    <2>2. TypeOK'
      BY <1>1, <2>1 DEF TypeOK, routerVars, registryVars, R!TypeOK, Calls, States
    <2>3. MessagesInv'
      BY <1>1, <2>1 DEF MessagesInv, routerVars
    <2>4. \A d \in Bridges \ {b} : Same(d)
      BY <1>1, <2>1 DEF Same, TypeOK
    <2>5. /\ sock'[b] = "closed" /\ call'[b] = "idle" /\ state'[b] = "DISCONNECTED"
          /\ slaveMap'[b] = {} /\ masterMap'[b] = {}
      BY <1>1, <2>1 DEF TypeOK
    <2> QED
      BY <2>1, <2>2, <2>3, <2>4, <2>5, ClosingStep
  <1>4. CASE refused(b) \/ answerFails(b)
    <2>1. /\ ClientDisconnect(b) /\ UNCHANGED <<routerVars, backlog, toRouter, bridgeVars>>
          /\ Answer(b, "registerIp", "ERROR") \/ toClient' = toClient
      BY <1>4 DEF refused, answerFails, Answer
    <2>2. TypeOK'
      BY <1>1, <2>1 DEF TypeOK, routerVars, registryVars, bridgeVars, R!TypeOK, Calls, States
    <2>3. MessagesInv' /\ \A d \in Bridges \ {b} : toClient'[d] = toClient[d]
      <3>1. CASE toClient' = toClient
        BY <1>1, <2>1, <3>1 DEF MessagesInv, routerVars
      <3> QED
        BY <1>1, <2>1, <3>1, AnswerFacts
    <2>4. \A d \in Bridges \ {b} : Same(d)
      BY <1>1, <2>1, <2>3 DEF Same, TypeOK, bridgeVars
    <2>5. /\ sock'[b] = "closed" /\ call'[b] = "idle" /\ state'[b] = "DISCONNECTED"
          /\ UNCHANGED <<slaveMap, masterMap>>
      BY <1>1, <2>1 DEF TypeOK, bridgeVars
    <2> QED
      BY <2>1, <2>2, <2>3, <2>4, <2>5, ClosingStep
  <1> QED
    BY <1>2, <1>3, <1>4 DEF writeToDeadRouter, die

\* A call that falls into the endless loop of readFromSocket keeps the
\* invariant: the router is gone, and the bridge stays as it is.
LEMMA SpinStep ==
    ASSUME IndInv, NEW b \in Bridges, answerSpins(b)
    PROVE  IndInv'
  <1>1. TypeOK /\ MessagesInv /\ StateFits(b) /\ ClientInv(b) /\ KnowsInv(b) /\ KindsInv(b)
    BY DEF IndInv, OwnersInv
  <1>2. /\ UNCHANGED <<routerVars, backlog>>
        /\ UNCHANGED <<toRouter, toClient, sock, state, config>>
        /\ UNCHANGED <<routerInfo, slaveMap, masterMap, peers, ipBlocks>>
        /\ UNCHANGED <<ips, ipCount, masterCount, ipMMap, rpc, clients, cur, todo>>
    BY DEF answerSpins, routerVars, registryVars, bridgeVars
  <1>3. call[b] \notin {"idle", "dead", "spinning"} /\ rpc = "failed"
    BY DEF answerSpins, Eof
  <1>4. /\ call'[b] = "spinning" /\ call' \in [Bridges -> Calls]
        /\ \A d \in Bridges \ {b} : call'[d] = call[d]
    BY <1>1 DEF answerSpins, TypeOK, Calls
  <1>5. TypeOK'
    BY <1>1, <1>2, <1>4 DEF TypeOK, R!TypeOK
  <1>6. MessagesInv'
    BY <1>1, <1>2 DEF MessagesInv
  <1>7. \A d \in Bridges \ {b} : Same(d)
    BY <1>2, <1>4 DEF Same
  <1>8. Open(b)
    BY <1>1, <1>3 DEF StateFits, TypeOK, Open
  <1>9. StateFits(b)' /\ sock'[b] # "none"
    BY <1>2, <1>4, <1>8 DEF StateFits, Open
  <1>10. ClientInv(b)'
    <2>1. Taken(b)' = Taken(b) /\ Total' = Total /\ commitMsgs' = commitMsgs
      BY <1>2, SameLists DEF Taken
    <2>2. NextOfLists(b) => NextOfLists(b)'
      BY <1>2, <2>1 DEF NextOfLists, RegistrationOver
    <2>3. Listening(b)' => Listening(b)
      BY <1>2, <1>4 DEF Listening
    <2> QED
      BY <1>1, <1>4, <1>8, <2>2, <2>3 DEF ClientInv
  <1>11. KnowsInv(b)'
    BY <1>1, <1>2 DEF KnowsInv, RegistrationOver, retrieveIpConfig, Late, Open
  <1>12. \A id \in Nat : ~Pending(b, id)' /\ (Owns(b, id)' => Owns(b, id))
    BY <1>2, <1>4 DEF Pending, Owns
  <1>13. KindsInv(b)'
    BY <1>1, <1>2, <1>12 DEF KindsInv, IsMaster
  <1> QED
    BY <1>2, <1>3, <1>5, <1>6, <1>7, <1>9, <1>10, <1>11, <1>12, <1>13, ClientStep

\* A connected client that sends a request is the one that the router reads
\* blocks from, and nothing else is on its socket.
LEMMA RequestFacts ==
    ASSUME IndInv, NEW b \in Bridges, NEW name \in Calls, NEW m \in ToRouterMsg,
           state[b] = "CONNECTED", Request(b, name, m)
    PROVE  /\ Open(b) /\ call[b] = "idle" /\ toClient[b] = <<>>
           /\ call' \in [Bridges -> Calls] /\ toRouter' \in [Bridges -> Seq(ToRouterMsg)]
           /\ call'[b] = name
           /\ \A d \in Bridges \ {b} : call'[d] = call[d] /\ toRouter'[d] = toRouter[d]
           /\ Registering(b) => toRouter'[b] = <<m>>
           /\ ~Fresh(b) /\ ~Committing(b) /\ ~Listing(b) /\ ~Doomed(b)
  <1>1. TypeOK /\ MessagesInv /\ StateFits(b) /\ ClientInv(b)
    BY DEF IndInv
  <1>2. call[b] = "idle" /\ Open(b)
    BY <1>1 DEF Request, StateFits, TypeOK, Open
  <1>3. toClient[b] = <<>>
    BY <1>1, <1>2 DEF ClientInv
  <1>4. /\ call' \in [Bridges -> Calls] /\ call'[b] = name
        /\ \A d \in Bridges \ {b} : call'[d] = call[d]
    BY <1>1 DEF TypeOK, Request
  <1>5. /\ toRouter' \in [Bridges -> Seq(ToRouterMsg)]
        /\ \A d \in Bridges \ {b} : toRouter'[d] = toRouter[d]
        /\ toRouter'[b] = Append(toRouter[b], m)
    BY <1>1 DEF MessagesInv, Request
  <1>6. Registering(b) => toRouter'[b] = <<m>>
    <2>1. Registering(b) => toRouter[b] = <<>>
      BY <1>2 DEF Registering
    <2>2. Append(<<>>, m) = <<m>>
      OBVIOUS
    <2> QED
      BY <1>5, <2>1, <2>2
  <1>7. ~Fresh(b) /\ ~Committing(b) /\ ~Listing(b) /\ ~Doomed(b)
    BY <1>2 DEF Fresh, Committing, Listing, Listening, Late, Doomed, Open
  <1> QED
    BY <1>2, <1>3, <1>4, <1>5, <1>6, <1>7

\* registerSlave and registerMaster keep the invariant.
LEMMA RegisterStep ==
    ASSUME IndInv, NEW b \in Bridges, NEW o \in Offers, register(b, o)
    PROVE  IndInv'
  <1>1. TypeOK /\ MessagesInv /\ StateFits(b) /\ KnowsInv(b) /\ KindsInv(b)
    BY DEF IndInv, OwnersInv
  <1> DEFINE m == IpInfoMsg(WireIpInfo(o))
  <1>2. /\ state[b] = "CONNECTED" /\ Request(b, "registerIp", m)
        /\ config' = [config EXCEPT ![b] = o]
        /\ UNCHANGED <<routerVars, backlog, toClient, sock, state, bridgeVars>>
    BY DEF register
  <1>3. m \in ToRouterMsg /\ "registerIp" \in Calls
    BY DEF ToRouterMsg, Calls
  <1>4. /\ Open(b) /\ call[b] = "idle" /\ toClient[b] = <<>>
        /\ call' \in [Bridges -> Calls] /\ toRouter' \in [Bridges -> Seq(ToRouterMsg)]
        /\ call'[b] = "registerIp"
        /\ \A d \in Bridges \ {b} : call'[d] = call[d] /\ toRouter'[d] = toRouter[d]
        /\ Registering(b) => toRouter'[b] = <<m>>
        /\ ~Fresh(b) /\ ~Committing(b) /\ ~Listing(b) /\ ~Doomed(b)
    BY <1>2, <1>3, RequestFacts
  <1>5. UNCHANGED <<ips, clients, rpc, slaveMap, masterMap, peers, ipBlocks>> /\ config'[b] = o
    BY <1>1, <1>2 DEF routerVars, registryVars, bridgeVars, TypeOK
  <1>6. TypeOK'
    BY <1>1, <1>2, <1>4 DEF TypeOK, routerVars, registryVars, bridgeVars, R!TypeOK
  <1>7. MessagesInv'
    BY <1>1, <1>2, <1>4 DEF MessagesInv, routerVars
  <1>8. \A d \in Bridges \ {b} : Same(d)
    BY <1>1, <1>2, <1>4 DEF Same, TypeOK, bridgeVars
  <1>9. sock'[b] = "open" /\ state'[b] = "CONNECTED" /\ toClient'[b] = <<>> /\ Open(b)'
    BY <1>2, <1>4 DEF Open
  <1>10. StateFits(b)'
    BY <1>4, <1>9 DEF StateFits
  <1>11. ClientInv(b)'
    BY <1>4, <1>5, <1>9 DEF ClientInv, Listening, Late
  <1>12. KnowsInv(b)'
    BY <1>1, <1>2, <1>5 DEF KnowsInv, RegistrationOver, retrieveIpConfig, Late, Open
  <1>13. \A id \in Nat : ~Pending(b, id)' /\ (Owns(b, id)' => Owns(b, id))
    BY <1>5, <1>9 DEF Pending, Owns
  <1>14. KindsInv(b)'
    BY <1>1, <1>5, <1>13 DEF KindsInv, IsMaster
  <1>15. Registering(b) => Registering(b)'
    BY <1>4, <1>5, <1>9 DEF Registering, IpInfoMsg, WireIpInfo
  <1>16. Keeps(b)
    BY <1>4, <1>15 DEF Keeps
  <1> QED
    BY <1>2, <1>6, <1>7, <1>8, <1>9, <1>10, <1>11, <1>12, <1>13, <1>14, <1>16, ClientStep

\* commitIp keeps the invariant.
LEMMA CommitIpStep ==
    ASSUME IndInv, NEW b \in Bridges, commitIp(b)
    PROVE  IndInv'
  <1>1. TypeOK /\ MessagesInv /\ StateFits(b) /\ KnowsInv(b) /\ KindsInv(b)
    BY DEF IndInv, OwnersInv
  <1> DEFINE m == Msg("COMMIT")
  <1>2. /\ state[b] = "CONNECTED" /\ Request(b, "commitIp", m)
        /\ UNCHANGED <<routerVars, backlog, toClient, sock, state, config, bridgeVars>>
    BY DEF commitIp
  <1>3. m \in ToRouterMsg /\ "commitIp" \in Calls
    BY DEF ToRouterMsg, Calls
  <1>4. /\ Open(b) /\ call[b] = "idle" /\ toClient[b] = <<>>
        /\ call' \in [Bridges -> Calls] /\ toRouter' \in [Bridges -> Seq(ToRouterMsg)]
        /\ call'[b] = "commitIp"
        /\ \A d \in Bridges \ {b} : call'[d] = call[d] /\ toRouter'[d] = toRouter[d]
        /\ Registering(b) => toRouter'[b] = <<m>>
        /\ ~Fresh(b) /\ ~Committing(b) /\ ~Listing(b) /\ ~Doomed(b)
    BY <1>2, <1>3, RequestFacts
  <1>5. UNCHANGED <<ips, clients, rpc, slaveMap, masterMap, peers, ipBlocks>>
    BY <1>2 DEF routerVars, registryVars, bridgeVars
  <1>6. TypeOK'
    BY <1>1, <1>2, <1>4 DEF TypeOK, routerVars, registryVars, bridgeVars, R!TypeOK
  <1>7. MessagesInv'
    BY <1>1, <1>2, <1>4 DEF MessagesInv, routerVars
  <1>8. \A d \in Bridges \ {b} : Same(d)
    BY <1>1, <1>2, <1>4 DEF Same, TypeOK, bridgeVars
  <1>9. sock'[b] = "open" /\ state'[b] = "CONNECTED" /\ toClient'[b] = <<>> /\ Open(b)'
    BY <1>2, <1>4 DEF Open
  <1>10. StateFits(b)'
    BY <1>4, <1>9 DEF StateFits
  <1>11. ClientInv(b)'
    <2>1. Taken(b)' = 0 /\ Len(toClient'[b]) = 0
      BY <1>9 DEF Taken
    <2>2. Total' \in Nat
      BY <1>6 DEF Total, TypeOK, R!TypeOK
    <2>3. NextOfLists(b)'
      BY <1>9, <2>1, <2>2 DEF NextOfLists
    <2> QED
      BY <1>4, <1>9, <2>3 DEF ClientInv
  <1>12. KnowsInv(b)'
    BY <1>1, <1>2, <1>5 DEF KnowsInv, RegistrationOver, retrieveIpConfig, Late, Open
  <1>13. \A id \in Nat : ~Pending(b, id)' /\ (Owns(b, id)' => Owns(b, id))
    BY <1>5, <1>9 DEF Pending, Owns
  <1>14. KindsInv(b)'
    BY <1>1, <1>5, <1>13 DEF KindsInv, IsMaster
  <1>15. Registering(b) => Registering(b)'
    BY <1>4, <1>5, <1>9 DEF Registering, Msg
  <1>16. Keeps(b)
    BY <1>4, <1>15 DEF Keeps
  <1> QED
    BY <1>2, <1>6, <1>7, <1>8, <1>9, <1>10, <1>11, <1>12, <1>13, <1>14, <1>16, ClientStep

\* The other calls change nothing that concerns the blocks of the bridge.
LEMMA QuietStep ==
    ASSUME IndInv, NEW b \in Bridges, Open(b),
           UNCHANGED <<routerVars, backlog, toRouter, sock, config, slaveMap, masterMap>>,
           call[b] # "registerIp", call'[b] # "registerIp",
           call' \in [Bridges -> Calls], state' \in [Bridges -> States],
           routerInfo' \in [Bridges -> BOOLEAN], peers' \in [Bridges -> Seq(Bridges)],
           ipBlocks' \in [Bridges -> Seq(IpConfig)], MessagesInv',
           \A d \in Bridges \ {b} :
              /\ toClient'[d] = toClient[d] /\ state'[d] = state[d] /\ call'[d] = call[d]
              /\ peers'[d] = peers[d] /\ ipBlocks'[d] = ipBlocks[d],
           StateFits(b)', ClientInv(b)', KnowsInv(b)',
           Fresh(b) => Fresh(b)', Registering(b) => Registering(b)',
           Committing(b) => Committing(b)', Listing(b) => Listing(b)'
    PROVE  IndInv'
  <1>1. TypeOK /\ KindsInv(b)
    BY DEF IndInv, OwnersInv
  <1>2. UNCHANGED <<ips, clients, rpc, cur, ipCount, masterCount, ipMMap>>
    BY DEF routerVars, registryVars
  <1>3. TypeOK'
    BY <1>1, <1>2 DEF TypeOK, R!TypeOK
  <1>4. \A d \in Bridges \ {b} : Same(d)
    BY DEF Same
  <1>5. sock'[b] # "none"
    BY DEF Open
  <1>6. \A id \in Nat : ~Pending(b, id)' /\ (Owns(b, id)' => Owns(b, id))
    BY DEF Pending, Owns
  <1>7. KindsInv(b)'
    BY <1>1, <1>2, <1>6 DEF KindsInv, IsMaster
  <1>8. Keeps(b)
    BY DEF Keeps, Doomed, Open
  <1> QED
    BY <1>3, <1>4, <1>5, <1>6, <1>7, <1>8, ClientStep

\* start, before its first message, keeps the invariant.
LEMMA StartStep ==
    ASSUME IndInv, NEW b \in Bridges, start(b)
    PROVE  IndInv'
  <1>1. TypeOK /\ MessagesInv /\ StateFits(b) /\ ClientInv(b) /\ KnowsInv(b)
    BY DEF IndInv
  <1>2. /\ state[b] = "COMMITTED" /\ call[b] = "idle" /\ Open(b)
    BY <1>1 DEF start, StateFits, Open, TypeOK
  <1>3. /\ UNCHANGED <<routerVars, backlog, toRouter, toClient, sock, state, config>>
        /\ UNCHANGED <<routerInfo, slaveMap, masterMap, peers, ipBlocks>>
        /\ UNCHANGED <<ips, clients, rpc, todo>>
    BY DEF start, routerVars, registryVars, bridgeVars
  <1>4. /\ call'[b] = "retrievePeerInfo" /\ call' \in [Bridges -> Calls]
        /\ \A d \in Bridges \ {b} : call'[d] = call[d]
    BY <1>1 DEF start, TypeOK, Calls
  <1>5. MessagesInv'
    BY <1>1, <1>3 DEF MessagesInv
  <1>6. StateFits(b)' /\ Open(b)'
    BY <1>2, <1>3, <1>4 DEF StateFits, Open
  <1>7. Taken(b)' = Taken(b) /\ Total' = Total /\ commitMsgs' = commitMsgs
    BY <1>3, SameLists DEF Taken
  <1>8. NextOfLists(b)'
    BY <1>1, <1>2, <1>3, <1>7 DEF ClientInv, Listening, Late, NextOfLists, RegistrationOver
  <1>9. ClientInv(b)'
    BY <1>4, <1>8 DEF ClientInv
  <1>10. KnowsInv(b)'
    BY <1>1, <1>3 DEF KnowsInv, RegistrationOver, retrieveIpConfig, Late, Open
  <1>11. ~Fresh(b) /\ ~Registering(b) /\ ~Committing(b)
    BY <1>2 DEF Fresh, Registering, Committing
  <1>12. Listing(b) => Listing(b)'
    BY <1>2, <1>3, <1>7 DEF Listing, Listening, Late, Open
  <1> QED
    BY <1>1, <1>2, <1>3, <1>4, <1>5, <1>6, <1>9, <1>10, <1>11, <1>12, QuietStep DEF TypeOK

\* The router's answer to connect keeps the invariant.
LEMMA ConnectedStep ==
    ASSUME IndInv, NEW b \in Bridges, connected(b)
    PROVE  IndInv'
  <1>1. TypeOK /\ MessagesInv /\ StateFits(b) /\ ClientInv(b) /\ KnowsInv(b)
    BY DEF IndInv
  <1>2. /\ call[b] = "connect" /\ toClient[b] # <<>>
        /\ UNCHANGED <<routerVars, backlog, toRouter>> /\ MessagesInv'
        /\ \A d \in Bridges \ {b} : toClient'[d] = toClient[d]
        /\ toClient'[b] = Tail(toClient[b])
    BY <1>1, AnswerFacts DEF connected
  <1>3. state[b] = "DISCONNECTED" /\ Open(b)
    BY <1>1, <1>2 DEF StateFits, Open, TypeOK
  <1>4. /\ UNCHANGED <<sock, config, slaveMap, masterMap, peers, ipBlocks>>
        /\ UNCHANGED <<ips, clients, rpc, todo>>
    BY <1>2 DEF connected, routerVars, registryVars
  <1>5. /\ call'[b] = "idle" /\ call' \in [Bridges -> Calls]
        /\ state'[b] = "CONNECTED" /\ state' \in [Bridges -> States]
        /\ \A d \in Bridges \ {b} : call'[d] = call[d] /\ state'[d] = state[d]
        /\ routerInfo' \in [Bridges -> BOOLEAN]
    BY <1>1 DEF connected, Enter, TypeOK, Calls, States
  <1>6. toClient'[b] = <<>>
    <2>1. toClient[b] = <<SystemInfo("router")>>
      BY <1>1, <1>2, <1>3 DEF ClientInv
    <2> QED
      BY <1>2, <2>1
  <1>7. StateFits(b)' /\ Open(b)'
    BY <1>3, <1>4, <1>5 DEF StateFits, Open
  <1>8. ClientInv(b)'
    BY <1>5, <1>6 DEF ClientInv, Listening, Late
  <1>9. KnowsInv(b)'
    BY <1>1, <1>3, <1>4, <1>5 DEF KnowsInv, Late, Open
  <1>10. ~Fresh(b) /\ ~Committing(b) /\ ~Listing(b)
    BY <1>2, <1>3 DEF Fresh, Committing, Listing, Listening, Late
  <1>11. Registering(b) => Registering(b)'
    BY <1>2, <1>3, <1>5, <1>7 DEF Registering
  <1> QED
    BY <1>1, <1>2, <1>3, <1>4, <1>5, <1>7, <1>8, <1>9, <1>10, <1>11, QuietStep DEF TypeOK

\* A bridge that listens reads the next message of the lists.
LEMMA ListStep ==
    ASSUME IndInv, NEW b \in Bridges, Open(b), Listening(b),
           NEW name, NEW type, Answer(b, name, type)
    PROVE  /\ RegistrationOver /\ Taken(b) + 1 \in 1 .. Total
           /\ commitMsgs[Taken(b) + 1].type = type
           /\ toClient[b][1] = commitMsgs[Taken(b) + 1]
           /\ ~Fresh(b) /\ ~Registering(b) /\ ~Committing(b)
           /\ sock' = sock /\ Listening(b)' /\ Taken(b)' = Taken(b) + 1
                => NextOfLists(b)' /\ (Listing(b) => Listing(b)')
  <1>1. TypeOK /\ MessagesInv /\ StateFits(b) /\ ClientInv(b) /\ KnowsInv(b)
    BY DEF IndInv
  <1>2. NextOfLists(b)
    BY <1>1 DEF ClientInv
  <1>3. /\ call[b] = name /\ toClient[b] # <<>> /\ toClient[b][1].type = type
        /\ UNCHANGED <<routerVars, backlog, toRouter>>
        /\ toClient'[b] = Tail(toClient[b])
        /\ Len(toClient[b]) \in Nat \ {0} /\ Len(toClient'[b]) = Len(toClient[b]) - 1
        /\ \A k \in 1 .. Len(toClient'[b]) : toClient'[b][k] = toClient[b][k + 1]
    BY <1>1, AnswerFacts
  <1>4. UNCHANGED <<ips, clients, rpc, todo>>
    BY <1>3 DEF routerVars, registryVars
  <1>5. commitMsgs' = commitMsgs /\ Total' = Total
    BY <1>4, SameLists
  <1>6. /\ clients \in Seq(Bridges) /\ ips \in Seq(R!IpInfo)
        /\ peers[b] \in Seq(Bridges) /\ ipBlocks[b] \in Seq(IpConfig)
    BY <1>1 DEF TypeOK, R!TypeOK
  <1>7. Taken(b) \in Nat /\ Total \in Nat
    <2>1. Total \in Nat
      BY <1>6 DEF Total
    <2>2. Len(peers[b]) \in Nat /\ Len(clients) \in Nat /\ Len(ipBlocks[b]) \in Nat
      BY <1>6
    <2>3. 1 + Len(peers[b]) \in Nat
      BY <2>2
    <2>4. 2 + Len(clients) + Len(ipBlocks[b]) \in Nat
      <3>1. \A m, n \in Nat : 2 + m + n \in Nat
        OBVIOUS
      <3> QED
        BY <2>2, <3>1
    <2> QED
      BY <2>1, <2>3, <2>4 DEF Taken
  <1>8. RegistrationOver /\ Taken(b) + 1 \in 1 .. Total
    BY <1>2, <1>3, <1>7 DEF NextOfLists
  <1>9. toClient[b][1] = commitMsgs[Taken(b) + 1]
    BY <1>2, <1>3 DEF NextOfLists
  <1>10. ~Fresh(b) /\ ~Registering(b) /\ ~Committing(b)
    BY <1>1, <1>3 DEF Fresh, Registering, Committing, Listening, Late, StateFits, Open
  <1>11. ASSUME sock' = sock, Listening(b)', Taken(b)' = Taken(b) + 1
         PROVE  NextOfLists(b)' /\ (Listing(b) => Listing(b)')
    <2>1. Taken(b)' + Len(toClient'[b]) = Taken(b) + Len(toClient[b])
      BY <1>3, <1>7, <1>11
    <2>2. ASSUME NEW k \in 1 .. Len(toClient'[b])
          PROVE  toClient'[b][k] = commitMsgs'[Taken(b)' + k]
      <3>1. toClient'[b][k] = toClient[b][k + 1] /\ k + 1 \in 1 .. Len(toClient[b])
        BY <1>3
      <3>2. toClient[b][k + 1] = commitMsgs[Taken(b) + (k + 1)]
        BY <1>2, <3>1 DEF NextOfLists
      <3>3. Taken(b) + (k + 1) = Taken(b)' + k
        BY <1>7, <1>11
      <3> QED
        BY <1>5, <3>1, <3>2, <3>3
    <2>3. NextOfLists(b)'
      BY <1>2, <1>4, <1>5, <1>8, <2>1, <2>2 DEF NextOfLists, RegistrationOver
    <2>4. Listing(b) => Listing(b)'
      BY <1>4, <1>5, <1>11, <2>1 DEF Listing
    <2> QED
      BY <2>3, <2>4
  <1> QED
    BY <1>3, <1>8, <1>9, <1>10, <1>11

\* Where the acknowledgements are among the messages of client.commit.
LEMMA TypesOfLists ==
    ASSUME TypeOK, NEW k \in 1 .. Total
    PROVE  /\ commitMsgs[k].type \in {"ACK", "SYSTEM_INFO", "IP_INFO"}
           /\ commitMsgs[k].type = "ACK" <=> k \in {1, 2 + Len(clients), Total}
           /\ commitMsgs[k].type = "SYSTEM_INFO" <=> k \in 2 .. 1 + Len(clients)
           /\ k \in 2 .. 1 + Len(clients) => commitMsgs[k].name = clients[k - 1]
           /\ k \in 3 + Len(clients) .. Total - 1 =>
                commitMsgs[k].ip = ips[k - 2 - Len(clients)]
  <1>1. clients \in Seq(Bridges) /\ ips \in Seq(R!IpInfo)
    BY DEF TypeOK, R!TypeOK
  <1>2. Len(clients) \in Nat /\ Len(ips) \in Nat
    BY <1>1
  <1>3. /\ commitMsgs[1] = Msg("ACK")
        /\ \A j \in 1 .. Len(clients) : commitMsgs[1 + j] = SystemInfo(clients[j])
        /\ commitMsgs[2 + Len(clients)] = Msg("ACK")
        /\ \A j \in 1 .. Len(ips) : commitMsgs[2 + Len(clients) + j] = IpInfoMsg(ips[j])
        /\ commitMsgs[3 + Len(clients) + Len(ips)] = Msg("ACK")
    BY <1>1, CommitMsgs
  <1>4. CASE k \in {1, 2 + Len(clients), Total}
    <2>1. commitMsgs[k].type = "ACK"
      BY <1>3, <1>4, MessageFields DEF Total
    <2> QED
      BY <1>2, <1>4, <2>1 DEF Total
  <1>5. CASE k \in 2 .. 1 + Len(clients)
    <2>1. k - 1 \in 1 .. Len(clients) /\ 1 + (k - 1) = k
      BY <1>2, <1>5
    <2>2. commitMsgs[k] = SystemInfo(clients[k - 1])
      BY <1>3, <2>1
    <2> QED
      BY <1>2, <1>5, <2>2, MessageFields DEF Total
  <1>6. CASE k \in 3 + Len(clients) .. Total - 1
    <2>1. k - 2 - Len(clients) \in 1 .. Len(ips) /\ 2 + Len(clients) + (k - 2 - Len(clients)) = k
      BY <1>2, <1>6 DEF Total
    <2>2. commitMsgs[k] = IpInfoMsg(ips[k - 2 - Len(clients)])
      BY <1>3, <2>1
    <2> QED
      BY <1>2, <1>6, <2>2, MessageFields DEF Total
  <1>7. \/ k \in {1, 2 + Len(clients), Total} \/ k \in 2 .. 1 + Len(clients)
        \/ k \in 3 + Len(clients) .. Total - 1
    BY <1>2 DEF Total
  <1> QED
    BY <1>4, <1>5, <1>6, <1>7

\* The facts about a bridge that the steps of commitIp and start begin with.
LEMMA ListeningFacts ==
    ASSUME IndInv, NEW b \in Bridges, NEW name, NEW type, Answer(b, name, type),
           name \in {"commitIp", "retrievePeerInfo", "retrieveIpConfig"}
    PROVE  /\ Open(b) /\ Listening(b) /\ call[b] = name
           /\ state[b] = IF name = "commitIp" THEN "CONNECTED"
                         ELSE IF name = "retrievePeerInfo" THEN "COMMITTED"
                         ELSE "PEER_INFO_RECEIVED"
           /\ peers[b] \in Seq(Bridges) /\ ipBlocks[b] \in Seq(IpConfig)
           /\ clients \in Seq(Bridges) /\ ips \in Seq(R!IpInfo)
           /\ Len(peers[b]) \in Nat /\ Len(ipBlocks[b]) \in Nat
           /\ Len(clients) \in Nat /\ Len(ips) \in Nat
           /\ UNCHANGED <<routerVars, backlog, toRouter, ips, clients, rpc, todo>>
           /\ MessagesInv'
           /\ \A d \in Bridges \ {b} : toClient'[d] = toClient[d]
  <1>1. TypeOK /\ MessagesInv /\ StateFits(b)
    BY DEF IndInv
  <1>2. /\ call[b] = name
        /\ UNCHANGED <<routerVars, backlog, toRouter>>
        /\ MessagesInv'
        /\ \A d \in Bridges \ {b} : toClient'[d] = toClient[d]
    BY <1>1, AnswerFacts
  <1>3. /\ Open(b)
        /\ state[b] = IF name = "commitIp" THEN "CONNECTED"
                      ELSE IF name = "retrievePeerInfo" THEN "COMMITTED"
                      ELSE "PEER_INFO_RECEIVED"
    BY <1>1, <1>2 DEF StateFits, Open, TypeOK
  <1>4. Listening(b)
    BY <1>2, <1>3 DEF Listening, Late
  <1>5. UNCHANGED <<ips, clients, rpc, todo>>
    BY <1>2 DEF routerVars, registryVars
  <1>6. /\ peers[b] \in Seq(Bridges) /\ ipBlocks[b] \in Seq(IpConfig)
        /\ clients \in Seq(Bridges) /\ ips \in Seq(R!IpInfo)
    BY <1>1 DEF TypeOK, R!TypeOK
  <1>7. /\ Len(peers[b]) \in Nat /\ Len(ipBlocks[b]) \in Nat
        /\ Len(clients) \in Nat /\ Len(ips) \in Nat
    BY <1>6
  <1> QED
    BY <1>2, <1>3, <1>4, <1>5, <1>6, <1>7

\* The end of commitIp keeps the invariant: the list of peers comes next.
LEMMA CommittedStep ==
    ASSUME IndInv, NEW b \in Bridges, committed(b)
    PROVE  IndInv'
  <1>1. TypeOK /\ KnowsInv(b)
    BY DEF IndInv
  <1>2. Answer(b, "commitIp", "ACK")
    BY DEF committed
  <1>3. /\ Open(b) /\ Listening(b) /\ call[b] = "commitIp" /\ state[b] = "CONNECTED"
        /\ Len(clients) \in Nat /\ Len(ips) \in Nat
        /\ UNCHANGED <<routerVars, backlog, toRouter, ips, clients, rpc, todo>>
        /\ MessagesInv'
        /\ \A d \in Bridges \ {b} : toClient'[d] = toClient[d]
    BY <1>2, ListeningFacts
  <1>4. /\ call'[b] = "idle" /\ call' \in [Bridges -> Calls]
        /\ state'[b] = "COMMITTED" /\ state' \in [Bridges -> States]
        /\ \A d \in Bridges \ {b} : call'[d] = call[d] /\ state'[d] = state[d]
        /\ UNCHANGED <<sock, config, routerInfo, slaveMap, masterMap, peers, ipBlocks>>
    BY <1>1 DEF committed, Enter, TypeOK, Calls, States, bridgeVars
  <1>5. peers[b] = <<>> /\ ipBlocks[b] = <<>>
    BY <1>1, <1>3 DEF KnowsInv
  <1>6. Taken(b)' = Taken(b) + 1
    BY <1>3, <1>4, <1>5 DEF Taken
  <1>7. Listening(b)' /\ Open(b)'
    BY <1>3, <1>4 DEF Listening, Late, Open
  <1>8. /\ RegistrationOver /\ ~Fresh(b) /\ ~Registering(b) /\ ~Committing(b)
        /\ NextOfLists(b)' /\ (Listing(b) => Listing(b)')
    BY <1>2, <1>3, <1>4, <1>6, <1>7, ListStep
  <1>9. StateFits(b)'
    BY <1>3, <1>4, <1>7 DEF StateFits, Open
  <1>10. ClientInv(b)'
    BY <1>4, <1>8 DEF ClientInv
  <1>11. KnowsInv(b)'
    <2>1. Len(peers'[b]) = 0 /\ Len(ipBlocks'[b]) = 0
      BY <1>4, <1>5
    <2> QED
      BY <1>3, <1>4, <1>5, <1>8, <2>1 DEF KnowsInv, RegistrationOver, Open
  <1> QED
    BY <1>1, <1>3, <1>4, <1>8, <1>9, <1>10, <1>11, QuietStep DEF TypeOK

\* A peer that start reads keeps the invariant: it is the next of the clients.
LEMMA PeerInfoStep ==
    ASSUME IndInv, NEW b \in Bridges, peerInfo(b)
    PROVE  IndInv'
  <1>1. TypeOK /\ KnowsInv(b) /\ MessagesInv
    BY DEF IndInv
  <1>2. Answer(b, "retrievePeerInfo", "SYSTEM_INFO")
    BY DEF peerInfo
  <1>3. /\ Open(b) /\ Listening(b) /\ call[b] = "retrievePeerInfo" /\ state[b] = "COMMITTED"
        /\ peers[b] \in Seq(Bridges) /\ clients \in Seq(Bridges)
        /\ Len(peers[b]) \in Nat /\ Len(clients) \in Nat
        /\ UNCHANGED <<routerVars, backlog, toRouter, ips, clients, rpc, todo>>
        /\ MessagesInv'
        /\ \A d \in Bridges \ {b} : toClient'[d] = toClient[d]
    BY <1>2, ListeningFacts
  <1> DEFINE n == Len(peers[b])
  <1>4. Taken(b) = 1 + n
    BY <1>3 DEF Taken
  <1>5. /\ RegistrationOver /\ ~Fresh(b) /\ ~Registering(b) /\ ~Committing(b)
        /\ Taken(b) + 1 \in 1 .. Total
        /\ commitMsgs[Taken(b) + 1].type = "SYSTEM_INFO"
        /\ toClient[b][1] = commitMsgs[Taken(b) + 1]
    BY <1>2, <1>3, ListStep
  <1>6. n < Len(clients) /\ toClient[b][1].name = clients[n + 1]
    <2> DEFINE k == Taken(b) + 1
    <2>1. k \in 1 .. Total /\ commitMsgs[k].type = "SYSTEM_INFO" /\ toClient[b][1] = commitMsgs[k]
      BY <1>5
    <2>2. k = n + 2
      BY <1>3, <1>4
    <2> HIDE DEF k
    <2>3. k \in 2 .. 1 + Len(clients) /\ commitMsgs[k].name = clients[k - 1]
      BY <1>1, <2>1, TypesOfLists
    <2>4. k - 1 = n + 1 /\ n < Len(clients)
      BY <1>3, <2>2, <2>3
    <2> QED
      BY <2>1, <2>3, <2>4
  <1>7. /\ peers' = [peers EXCEPT ![b] = Append(@, clients[n + 1])]
        /\ UNCHANGED <<sock, state, call, config, routerInfo, slaveMap, masterMap, ipBlocks>>
    <2>1. Head(toClient[b]) = toClient[b][1]
      BY <1>1 DEF MessagesInv, peerInfo, Answer
    <2> QED
      BY <1>6, <2>1 DEF peerInfo, clientVars
  <1>8. /\ peers' \in [Bridges -> Seq(Bridges)]
        /\ peers'[b] = Append(peers[b], clients[n + 1])
        /\ \A d \in Bridges \ {b} : peers'[d] = peers[d]
    BY <1>1, <1>3, <1>6, <1>7 DEF TypeOK
  <1>9. /\ Len(peers'[b]) = n + 1 /\ peers'[b][n + 1] = clients[n + 1]
        /\ \A k \in 1 .. n : peers'[b][k] = peers[b][k]
    BY <1>3, <1>8
  <1>10. Taken(b)' = Taken(b) + 1
    BY <1>3, <1>4, <1>7, <1>9 DEF Taken
  <1>11. Listening(b)' /\ Open(b)'
    BY <1>3, <1>7 DEF Listening, Late, Open
  <1>12. NextOfLists(b)' /\ (Listing(b) => Listing(b)')
    BY <1>2, <1>3, <1>7, <1>10, <1>11, ListStep
  <1>13. StateFits(b)'
    BY <1>3, <1>7 DEF StateFits, Open
  <1>14. ClientInv(b)'
    BY <1>3, <1>7, <1>12 DEF ClientInv
  <1>15. KnowsInv(b)'
    <2>1. ASSUME NEW k \in 1 .. Len(peers'[b])
          PROVE  peers'[b][k] = clients'[k]
      <3>1. k = n + 1 \/ k \in 1 .. n
        BY <1>3, <1>9
      <3>2. \A j \in 1 .. n : peers[b][j] = clients[j]
        BY <1>1, <1>3 DEF KnowsInv, Late
      <3> QED
        BY <1>3, <1>9, <3>1, <3>2
    <2>2. Len(peers'[b]) <= Len(clients')
      BY <1>3, <1>6, <1>9
    <2> QED
      BY <1>1, <1>3, <1>5, <1>7, <2>1, <2>2
      DEF KnowsInv, RegistrationOver, Open, Late, retrieveIpConfig
  <1> QED
    BY <1>1, <1>3, <1>5, <1>7, <1>8, <1>12, <1>13, <1>14, <1>15, QuietStep DEF TypeOK

\* The end of the list of peers keeps the invariant: the list is complete.
LEMMA PeersReceivedStep ==
    ASSUME IndInv, NEW b \in Bridges, peersReceived(b)
    PROVE  IndInv'
  <1>1. TypeOK /\ KnowsInv(b)
    BY DEF IndInv
  <1>2. Answer(b, "retrievePeerInfo", "ACK")
    BY DEF peersReceived
  <1>3. /\ Open(b) /\ Listening(b) /\ call[b] = "retrievePeerInfo" /\ state[b] = "COMMITTED"
        /\ Len(peers[b]) \in Nat /\ Len(clients) \in Nat /\ Len(ips) \in Nat
        /\ UNCHANGED <<routerVars, backlog, toRouter, ips, clients, rpc, todo>>
        /\ MessagesInv'
        /\ \A d \in Bridges \ {b} : toClient'[d] = toClient[d]
    BY <1>2, ListeningFacts
  <1>4. /\ call'[b] = "retrieveIpConfig" /\ call' \in [Bridges -> Calls]
        /\ state'[b] = "PEER_INFO_RECEIVED" /\ state' \in [Bridges -> States]
        /\ \A d \in Bridges \ {b} : call'[d] = call[d] /\ state'[d] = state[d]
        /\ UNCHANGED <<sock, config, routerInfo, slaveMap, masterMap, peers, ipBlocks>>
    BY <1>1 DEF peersReceived, Enter, TypeOK, Calls, States, bridgeVars
  <1>5. Taken(b) = 1 + Len(peers[b]) /\ Len(peers[b]) <= Len(clients) /\ ipBlocks[b] = <<>>
    BY <1>1, <1>3 DEF Taken, KnowsInv, Late
  <1>6. /\ RegistrationOver /\ ~Fresh(b) /\ ~Registering(b) /\ ~Committing(b)
        /\ Taken(b) + 1 \in 1 .. Total
        /\ commitMsgs[Taken(b) + 1].type = "ACK"
    BY <1>2, <1>3, ListStep
  <1>7. Len(peers[b]) = Len(clients)
    <2> DEFINE k == Taken(b) + 1
    <2>1. k \in 1 .. Total /\ commitMsgs[k].type = "ACK"
      BY <1>6
    <2>2. k = Len(peers[b]) + 2
      BY <1>3, <1>5
    <2> HIDE DEF k
    <2>3. k \in {1, 2 + Len(clients), Total}
      BY <1>1, <2>1, TypesOfLists
    <2> QED
      BY <1>3, <1>5, <2>2, <2>3 DEF Total
  <1>8. Taken(b)' = Taken(b) + 1
    BY <1>3, <1>4, <1>5, <1>7 DEF Taken
  <1>9. Listening(b)' /\ Open(b)'
    BY <1>3, <1>4 DEF Listening, Late, Open
  <1>10. NextOfLists(b)' /\ (Listing(b) => Listing(b)')
    BY <1>2, <1>3, <1>4, <1>8, <1>9, ListStep
  <1>11. StateFits(b)'
    BY <1>3, <1>4 DEF StateFits, Open
  <1>12. ClientInv(b)'
    BY <1>4, <1>10 DEF ClientInv
  <1>13. KnowsInv(b)'
    BY <1>1, <1>3, <1>4, <1>6, <1>7 DEF KnowsInv, RegistrationOver, Open, Late, retrieveIpConfig
  <1> QED
    BY <1>1, <1>3, <1>4, <1>6, <1>10, <1>11, <1>12, <1>13, QuietStep DEF TypeOK

\* A block that start reads keeps the invariant: it is the next of the blocks.
LEMMA IpInfoStep ==
    ASSUME IndInv, NEW b \in Bridges, ipInfo(b)
    PROVE  IndInv'
  <1>1. TypeOK /\ KnowsInv(b) /\ MessagesInv
    BY DEF IndInv
  <1>2. Answer(b, "retrieveIpConfig", "IP_INFO")
    BY DEF ipInfo
  <1>3. /\ Open(b) /\ Listening(b)
        /\ call[b] = "retrieveIpConfig" /\ state[b] = "PEER_INFO_RECEIVED"
        /\ ipBlocks[b] \in Seq(IpConfig) /\ ips \in Seq(R!IpInfo)
        /\ Len(ipBlocks[b]) \in Nat /\ Len(clients) \in Nat /\ Len(ips) \in Nat
        /\ UNCHANGED <<routerVars, backlog, toRouter, ips, clients, rpc, todo>>
        /\ MessagesInv'
        /\ \A d \in Bridges \ {b} : toClient'[d] = toClient[d]
    BY <1>2, ListeningFacts
  <1> DEFINE n == Len(ipBlocks[b])
             c == Len(clients)
             l == Len(ips)
             new == retrieveIpConfig(ips[n + 1])
  <1>4. Taken(b) = 2 + c + n /\ Total = 3 + c + l /\ n \in Nat /\ c \in Nat /\ l \in Nat
    BY <1>3 DEF Taken, Total
  <1> HIDE DEF n, c, l
  <1>5. /\ RegistrationOver /\ ~Fresh(b) /\ ~Registering(b) /\ ~Committing(b)
        /\ Taken(b) + 1 \in 1 .. Total
        /\ commitMsgs[Taken(b) + 1].type = "IP_INFO"
        /\ toClient[b][1] = commitMsgs[Taken(b) + 1]
    BY <1>2, <1>3, ListStep
  <1>6. n < Len(ips) /\ toClient[b][1].ip = ips[n + 1]
    <2> DEFINE k == Taken(b) + 1
    <2>1. k \in 1 .. Total /\ commitMsgs[k].type = "IP_INFO" /\ toClient[b][1] = commitMsgs[k]
      BY <1>5
    <2>2. k = 3 + c + n
      BY <1>4
    <2> HIDE DEF k
    <2>3. k # Total
      BY <1>1, <2>1, TypesOfLists
    <2>4. k \in 3 + c .. Total - 1
      BY <1>4, <2>1, <2>2, <2>3
    <2>5. commitMsgs[k].ip = ips[k - 2 - c]
      BY <1>1, <2>1, <2>4, TypesOfLists DEF c
    <2>6. k - 2 - c = n + 1 /\ n < l
      BY <1>4, <2>2, <2>4
    <2> QED
      BY <2>1, <2>5, <2>6 DEF l
  <1>7. /\ ipBlocks' = [ipBlocks EXCEPT ![b] = Append(@, new)]
        /\ UNCHANGED <<sock, state, call, config, routerInfo, slaveMap, masterMap, peers>>
    <2>1. Head(toClient[b]) = toClient[b][1]
      BY <1>1 DEF MessagesInv, ipInfo, Answer
    <2> QED
      BY <1>6, <2>1 DEF ipInfo, clientVars
  <1>8. new \in IpConfig
    <2>1. ips[n + 1] \in R!IpInfo
      BY <1>3, <1>4, <1>6
    <2>2. \A ip \in R!IpInfo : retrieveIpConfig(ip) \in IpConfig
      BY DEF IpConfig, R!IpInfo, retrieveIpConfig, Addr, R!Addr, IpTypes, R!IpTypes
    <2> QED
      BY <2>1, <2>2
  <1> HIDE DEF new
  <1>9. /\ ipBlocks' \in [Bridges -> Seq(IpConfig)]
        /\ ipBlocks'[b] = Append(ipBlocks[b], new)
        /\ \A d \in Bridges \ {b} : ipBlocks'[d] = ipBlocks[d]
    BY <1>1, <1>7, <1>8 DEF TypeOK
  <1>10. /\ Len(ipBlocks'[b]) = n + 1 /\ ipBlocks'[b][n + 1] = new
         /\ \A k \in 1 .. n : ipBlocks'[b][k] = ipBlocks[b][k]
    BY <1>3, <1>8, <1>9 DEF n
  <1>11. Taken(b)' = Taken(b) + 1
    <2>1. Taken(b)' = 2 + c + (n + 1)
      BY <1>3, <1>7, <1>10 DEF Taken, c
    <2> QED
      BY <1>4, <2>1
  <1>12. Listening(b)' /\ Open(b)'
    BY <1>3, <1>7 DEF Listening, Late, Open
  <1>13. NextOfLists(b)' /\ (Listing(b) => Listing(b)')
    BY <1>2, <1>3, <1>7, <1>11, <1>12, ListStep
  <1>14. StateFits(b)'
    BY <1>3, <1>7 DEF StateFits, Open
  <1>15. ClientInv(b)'
    BY <1>3, <1>7, <1>13 DEF ClientInv
  <1>16. KnowsInv(b)'
    <2>1. ASSUME NEW k \in 1 .. Len(ipBlocks'[b])
          PROVE  ipBlocks'[b][k] = retrieveIpConfig(ips[k])
      <3>1. k = n + 1 \/ k \in 1 .. n
        BY <1>4, <1>10
      <3>2. \A j \in 1 .. n : ipBlocks[b][j] = retrieveIpConfig(ips[j])
        BY <1>1, <1>3 DEF KnowsInv, Late, n
      <3> QED
        BY <1>10, <3>1, <3>2 DEF new
    <2>2. Len(ipBlocks'[b]) <= Len(ips)
      BY <1>3, <1>4, <1>6, <1>10
    <2>3. \A k \in 1 .. Len(ipBlocks'[b]) : ipBlocks'[b][k] = retrieveIpConfig(ips[k])'
      BY <1>3, <2>1 DEF retrieveIpConfig
    <2> QED
      BY <1>1, <1>3, <1>5, <1>7, <2>2, <2>3 DEF KnowsInv, RegistrationOver, Open, Late
  <1> QED
    BY <1>1, <1>3, <1>5, <1>7, <1>9, <1>13, <1>14, <1>15, <1>16, QuietStep DEF TypeOK

\* The end of start keeps the invariant: both lists are complete.
LEMMA StartedStep ==
    ASSUME IndInv, NEW b \in Bridges, started(b)
    PROVE  IndInv'
  <1>1. TypeOK /\ KnowsInv(b)
    BY DEF IndInv
  <1>2. Answer(b, "retrieveIpConfig", "ACK")
    BY DEF started
  <1>3. /\ Open(b) /\ Listening(b)
        /\ call[b] = "retrieveIpConfig" /\ state[b] = "PEER_INFO_RECEIVED"
        /\ Len(ipBlocks[b]) \in Nat /\ Len(clients) \in Nat /\ Len(ips) \in Nat
        /\ UNCHANGED <<routerVars, backlog, toRouter, ips, clients, rpc, todo>>
        /\ MessagesInv'
        /\ \A d \in Bridges \ {b} : toClient'[d] = toClient[d]
    BY <1>2, ListeningFacts
  <1>4. /\ call'[b] = "idle" /\ call' \in [Bridges -> Calls]
        /\ state'[b] = "STARTED" /\ state' \in [Bridges -> States]
        /\ \A d \in Bridges \ {b} : call'[d] = call[d] /\ state'[d] = state[d]
        /\ UNCHANGED <<sock, config, routerInfo, slaveMap, masterMap, peers, ipBlocks>>
    BY <1>1 DEF started, Enter, TypeOK, Calls, States, bridgeVars
  <1> DEFINE n == Len(ipBlocks[b])
             c == Len(clients)
             l == Len(ips)
  <1>5. /\ Taken(b) = 2 + c + n /\ Total = 3 + c + l /\ n <= l
        /\ n \in Nat /\ c \in Nat /\ l \in Nat
    BY <1>1, <1>3 DEF Taken, Total, KnowsInv, Late
  <1> HIDE DEF n, c, l
  <1>6. /\ RegistrationOver /\ ~Fresh(b) /\ ~Registering(b) /\ ~Committing(b)
        /\ Taken(b) + 1 \in 1 .. Total
        /\ commitMsgs[Taken(b) + 1].type = "ACK"
    BY <1>2, <1>3, ListStep
  <1>7. Taken(b) + 1 = Total
    <2> DEFINE k == Taken(b) + 1
    <2>1. k \in 1 .. Total /\ commitMsgs[k].type = "ACK"
      BY <1>6
    <2>2. k = 3 + c + n
      BY <1>5
    <2> HIDE DEF k
    <2>3. k \in {1, 2 + c, Total}
      BY <1>1, <2>1, TypesOfLists DEF c
    <2>4. k = Total
      BY <1>5, <2>2, <2>3
    <2> QED
      BY <2>4 DEF k
  <1>8. Len(ipBlocks[b]) = Len(ips)
    <2>1. n = l
      BY <1>5, <1>7
    <2> QED
      BY <2>1 DEF n, l
  <1>9. Taken(b)' = Taken(b) + 1
    <2>1. Total' = Total
      BY <1>3, SameLists
    <2> QED
      BY <1>4, <1>7, <2>1 DEF Taken
  <1>10. Listening(b)' /\ Open(b)'
    BY <1>3, <1>4 DEF Listening, Late, Open
  <1>11. NextOfLists(b)' /\ (Listing(b) => Listing(b)')
    BY <1>2, <1>3, <1>4, <1>9, <1>10, ListStep
  <1>12. StateFits(b)'
    BY <1>3, <1>4 DEF StateFits, Open
  <1>13. ClientInv(b)'
    BY <1>4, <1>11 DEF ClientInv
  <1>14. KnowsInv(b)'
    BY <1>1, <1>3, <1>4, <1>6, <1>8 DEF KnowsInv, RegistrationOver, Open, Late, retrieveIpConfig
  <1> QED
    BY <1>1, <1>3, <1>4, <1>6, <1>11, <1>12, <1>13, <1>14, QuietStep DEF TypeOK

\* The answer to registerIp keeps the invariant: the block that was pending
\* goes into the map of its kind.
LEMMA RegisteredStep ==
    ASSUME IndInv, NEW b \in Bridges, registered(b)
    PROVE  IndInv'
  <1>1. TypeOK /\ MessagesInv /\ StateFits(b) /\ ClientInv(b) /\ KnowsInv(b) /\ KindsInv(b)
    BY DEF IndInv, OwnersInv
  <1>2. Answer(b, "registerIp", "IP_ACK")
    BY DEF registered
  <1>3. /\ call[b] = "registerIp" /\ toClient[b] # <<>> /\ toClient[b][1].type = "IP_ACK"
        /\ UNCHANGED <<routerVars, backlog, toRouter>> /\ MessagesInv'
        /\ \A d \in Bridges \ {b} : toClient'[d] = toClient[d]
        /\ toClient'[b] = Tail(toClient[b])
    BY <1>1, <1>2, AnswerFacts
  <1>4. state[b] = "CONNECTED" /\ Open(b)
    BY <1>1, <1>3 DEF StateFits, Open, TypeOK
  <1>5. PICK id \in Nat : toClient[b] = <<IpAck(id)>>
    <2>1. toClient[b] # <<Msg("ERROR")>>
      BY <1>3, MessageFields
    <2> QED
      BY <1>1, <1>3, <1>4, <2>1 DEF ClientInv
  <1>6. toClient'[b] = <<>> /\ Head(toClient[b]).id = id
    BY <1>3, <1>5, MessageFields
  <1>7. Pending(b, id)
    BY <1>3, <1>5 DEF Pending
  <1>8. /\ call'[b] = "idle" /\ call' \in [Bridges -> Calls]
        /\ config' \in [Bridges -> Offers \cup {NoConfig}]
        /\ \A d \in Bridges \ {b} : call'[d] = call[d] /\ config'[d] = config[d]
        /\ UNCHANGED <<sock, state, routerInfo, peers, ipBlocks>>
    BY <1>1 DEF registered, TypeOK, Calls
  <1>9. \/ /\ config[b].type \in MasterTypes
           /\ masterMap' = [masterMap EXCEPT ![b] = @ \cup {id}] /\ slaveMap' = slaveMap
        \/ /\ config[b].type \notin MasterTypes
           /\ slaveMap' = [slaveMap EXCEPT ![b] = @ \cup {id}] /\ masterMap' = masterMap
    BY <1>6 DEF registered
  <1>10. /\ slaveMap' \in [Bridges -> SUBSET Nat] /\ masterMap' \in [Bridges -> SUBSET Nat]
         /\ \A d \in Bridges \ {b} : slaveMap'[d] = slaveMap[d] /\ masterMap'[d] = masterMap[d]
         /\ \/ /\ config[b].type \in MasterTypes
               /\ masterMap'[b] = masterMap[b] \cup {id} /\ slaveMap'[b] = slaveMap[b]
            \/ /\ config[b].type \notin MasterTypes
               /\ slaveMap'[b] = slaveMap[b] \cup {id} /\ masterMap'[b] = masterMap[b]
    <2>1. /\ slaveMap \in [Bridges -> SUBSET Nat] /\ masterMap \in [Bridges -> SUBSET Nat]
          /\ slaveMap[b] \cup {id} \in SUBSET Nat /\ masterMap[b] \cup {id} \in SUBSET Nat
      BY <1>1 DEF TypeOK
    <2>2. CASE config[b].type \in MasterTypes
      BY <1>9, <2>1, <2>2
    <2>3. CASE config[b].type \notin MasterTypes
      BY <1>9, <2>1, <2>3
    <2> QED
      BY <2>2, <2>3
  <1>11. UNCHANGED <<ips, ipCount, masterCount, ipMMap, clients, rpc, cur>>
    BY <1>3 DEF routerVars, registryVars
  <1>12. TypeOK'
    BY <1>1, <1>8, <1>10, <1>11 DEF TypeOK, R!TypeOK
  <1>13. \A d \in Bridges \ {b} : Same(d)
    BY <1>3, <1>8, <1>10 DEF Same
  <1>14. sock'[b] = "open" /\ state'[b] = "CONNECTED" /\ Open(b)'
    BY <1>4, <1>8 DEF Open
  <1>15. StateFits(b)'
    BY <1>8, <1>14 DEF StateFits
  <1>16. ClientInv(b)'
    BY <1>6, <1>8, <1>14 DEF ClientInv, Listening, Late
  <1>17. KnowsInv(b)'
    BY <1>1, <1>8, <1>11 DEF KnowsInv, RegistrationOver, retrieveIpConfig, Late, Open
  <1>18. \A i \in Nat : ~Pending(b, i)'
    BY <1>8 DEF Pending
  <1>19. \A i \in Nat : Owns(b, i)' => Owns(b, i)
    BY <1>7, <1>10, <1>18 DEF Owns
  <1>20. KindsInv(b)'
    <2>1. \A i \in Nat : IsMaster(i)' <=> IsMaster(i)
      BY <1>11 DEF IsMaster
    <2> QED
      BY <1>1, <1>7, <1>10, <1>11, <1>18, <1>19, <2>1 DEF KindsInv
  <1>21. Keeps(b)
    <2>1. Registering(b) => Registering(b)'
      BY <1>3, <1>4, <1>8, <1>14 DEF Registering
    <2>2. toClient[b] # <<Msg("ERROR")>>
      BY <1>3, MessageFields
    <2>3. ~Fresh(b) /\ ~Committing(b) /\ ~Listing(b) /\ ~Doomed(b)
      BY <1>3, <1>4, <2>2 DEF Fresh, Committing, Listing, Listening, Late, Doomed, Open
    <2> QED
      BY <2>1, <2>3 DEF Keeps
  <1> QED
    BY <1>3, <1>12, <1>13, <1>14, <1>15, <1>16, <1>17, <1>19, <1>20, <1>21, ClientStep

\* connect keeps the invariant: the router has read nothing from the client,
\* whose connection is the last of the backlog.
LEMMA ConnectStep ==
    ASSUME IndInv, NEW b \in Bridges, connect(b)
    PROVE  IndInv'
  <1>1. /\ TypeOK /\ MessagesInv /\ PlacesInv /\ RouterInv /\ StateFits(b) /\ KnowsInv(b)
        /\ KindsInv(b)
    BY DEF IndInv, OwnersInv
  <1>2. /\ sock[b] = "none" /\ call[b] = "idle" /\ state[b] = "DISCONNECTED"
        /\ toRouter[b] = <<>> /\ toClient[b] = <<>> /\ rpc # "failed"
    BY <1>1 DEF connect, StateFits
  <1>3. /\ UNCHANGED <<ips, ipCount, masterCount, ipMMap, rpc, clients, cur, todo>>
        /\ UNCHANGED <<toClient, state, config>>
        /\ UNCHANGED <<routerInfo, slaveMap, masterMap, peers, ipBlocks>>
    BY DEF connect, routerVars, registryVars, bridgeVars
  <1>4. /\ call' \in [Bridges -> Calls] /\ call'[b] = "connect"
        /\ sock' \in [Bridges -> {"none", "open", "closed"}] /\ sock'[b] = "open"
        /\ \A d \in Bridges \ {b} : call'[d] = call[d] /\ sock'[d] = sock[d]
    BY <1>1 DEF connect, Request, TypeOK, Calls
  <1>5. /\ toRouter' \in [Bridges -> Seq(ToRouterMsg)] /\ toRouter'[b] = <<SystemInfo(b)>>
        /\ \A d \in Bridges \ {b} : toRouter'[d] = toRouter[d]
    <2>1. SystemInfo(b) \in ToRouterMsg
      BY DEF ToRouterMsg
    <2>2. toRouter' = [toRouter EXCEPT ![b] = Append(<<>>, SystemInfo(b))]
      BY <1>2 DEF connect, Request
    <2>3. Append(<<>>, SystemInfo(b)) = <<SystemInfo(b)>> /\ <<SystemInfo(b)>> \in Seq(ToRouterMsg)
      BY <2>1
    <2> QED
      BY <1>1, <2>2, <2>3 DEF MessagesInv
  <1>6. TypeOK'
    BY <1>1, <1>3, <1>4 DEF TypeOK, R!TypeOK
  <1>7. MessagesInv'
    BY <1>1, <1>3, <1>5 DEF MessagesInv
  <1>8. \A d \in Bridges \ {b} : Same(d)
    BY <1>3, <1>4, <1>5 DEF Same
  <1>9. \A d \in Bridges \ {b} :
          /\ StateFits(d) => StateFits(d)'
          /\ ClientInv(d) => ClientInv(d)'
          /\ KnowsInv(d) => KnowsInv(d)'
          /\ Fresh(d) => Fresh(d)'
          /\ Registering(d) => Registering(d)'
          /\ Committing(d) => Committing(d)'
          /\ Listing(d) => Listing(d)'
          /\ KindsInv(d) => KindsInv(d)'
          /\ \A id \in Nat : Owns(d, id)' => Owns(d, id)
          /\ Doomed(d) => Doomed(d)'
    BY <1>3, <1>8, SameBridge DEF RegistrationOver
  <1>10. StateFits(b)' /\ Open(b)' /\ Fresh(b)'
    BY <1>2, <1>3, <1>4, <1>5 DEF StateFits, Open, Fresh, SystemInfo
  <1>11. ClientInv(b)'
    BY <1>2, <1>3, <1>4 DEF ClientInv, Listening, Late
  <1>12. KnowsInv(b)'
    BY <1>1, <1>2, <1>3 DEF KnowsInv, Late
  <1>13. \A d \in Bridges : StateFits(d)' /\ ClientInv(d)' /\ KnowsInv(d)'
    BY <1>9, <1>10, <1>11, <1>12 DEF IndInv
  <1>14. /\ backlog \in Seq(Bridges) /\ clients \in Seq(Bridges) /\ backlog' = Append(backlog, b)
         /\ \A i \in DOMAIN clients : clients[i] \in Bridges \ {b}
         /\ \A j \in DOMAIN backlog : backlog[j] \in Bridges \ {b}
    BY <1>1, <1>2 DEF connect, PlacesInv, TypeOK
  <1>15. /\ backlog' \in Seq(Bridges) /\ DOMAIN backlog' = 1 .. (Len(backlog) + 1)
         /\ backlog'[Len(backlog) + 1] = b
         /\ \A j \in DOMAIN backlog : backlog'[j] = backlog[j]
         /\ DOMAIN backlog = 1 .. Len(backlog) /\ Len(backlog) \in Nat
    BY <1>14
  <1>16. PlacesInv'
    <2>1. \A d \in Bridges : sock[d] # "none" => sock'[d] # "none"
      BY <1>4
    <2>2. \A j \in DOMAIN backlog' : backlog'[j] = b \/ (j \in DOMAIN backlog /\ backlog'[j] = backlog[j])
      BY <1>15
    <2>3. \A i, j \in DOMAIN backlog' : backlog'[i] = backlog'[j] => i = j
      BY <1>1, <1>14, <1>15 DEF PlacesInv
    <2>4. \A i \in DOMAIN clients, j \in DOMAIN backlog' : clients[i] # backlog'[j]
      BY <1>1, <1>14, <2>2 DEF PlacesInv
    <2>5. ASSUME NEW j \in DOMAIN backlog'
          PROVE  sock'[backlog'[j]] # "none"
      <3>1. CASE backlog'[j] = b
        BY <1>4, <3>1
      <3>2. CASE j \in DOMAIN backlog /\ backlog'[j] = backlog[j]
        <4>1. sock[backlog[j]] # "none" /\ backlog[j] \in Bridges
          BY <1>1, <1>14, <3>2 DEF PlacesInv
        <4> QED
          BY <2>1, <3>2, <4>1
      <3> QED
        BY <2>2, <3>1, <3>2
    <2>6. \A i \in DOMAIN clients : sock'[clients[i]] # "none"
      BY <1>1, <1>14, <2>1 DEF PlacesInv
    <2> QED
      BY <1>1, <1>3, <1>15, <2>3, <2>4, <2>5, <2>6 DEF PlacesInv
  <1>17. RouterInv'
    <2>1. \A d \in Bridges \ {b} :
            /\ Fresh(d) => Fresh(d)'
            /\ Registering(d) => Registering(d)'
            /\ Committing(d) => Committing(d)'
            /\ Listing(d) => Listing(d)'
      BY <1>9
    <2>2. \A j \in DOMAIN backlog' : Fresh(backlog[j])'
      <3>1. \A j \in DOMAIN backlog : Fresh(backlog[j])
        BY <1>1, <1>2 DEF RouterInv
      <3>2. \A j \in DOMAIN backlog' :
              backlog'[j] = b \/ (j \in DOMAIN backlog /\ backlog'[j] = backlog[j])
        BY <1>15
      <3>3. \A j \in DOMAIN backlog' : \E d \in Bridges : d = backlog'[j] /\ Fresh(d)'
        BY <1>10, <1>14, <2>1, <3>1, <3>2
      <3> QED
        BY <3>3
    <2>3. \A i \in DOMAIN clients : clients'[i] = clients[i] /\ clients[i] \in Bridges \ {b}
      BY <1>3, <1>14
    <2> QED
      BY <1>1, <1>3, <2>1, <2>2, <2>3 DEF RouterInv
  <1>18. TodoInv' /\ CurInv'
    BY <1>3, SameLists DEF IndInv, TodoInv, CurInv
  <1>19. OwnersInv'
    <2>1. \A id \in Nat : ~Pending(b, id)' /\ (Owns(b, id)' => Owns(b, id))
      BY <1>3, <1>4 DEF Pending, Owns
    <2>2. KindsInv(b)'
      BY <1>1, <1>3, <2>1 DEF KindsInv, IsMaster
    <2>3. \A d \in Bridges : KindsInv(d)'
      BY <1>9, <2>2 DEF IndInv, OwnersInv
    <2>4. \A d \in Bridges : \A id \in Nat : Owns(d, id)' => Owns(d, id)
      BY <1>9, <2>1
    <2> QED
      BY <1>3, <2>3, <2>4 DEF IndInv, OwnersInv
  <1>20. CountInv'
    <2>1. Masters' = Masters
      BY <1>3 DEF Masters
    <2>2. rpc = "receiveIpInfo" => clients[cur] \in Bridges \ {b}
      <3>1. rpc = "receiveIpInfo" => Len(clients) = NumClients
        BY <1>1 DEF PlacesInv
      <3>2. cur \in 1 .. NumClients /\ DOMAIN clients = 1 .. Len(clients)
        BY <1>1, <1>14 DEF TypeOK
      <3> QED
        BY <1>14, <3>1, <3>2
    <2>3. \A d \in Bridges \ {b} : Doomed(d) => Doomed(d)'
      BY <1>9
    <2> QED
      BY <1>3, <2>1, <2>2, <2>3 DEF IndInv, CountInv
  <1> QED
    BY <1>6, <1>7, <1>13, <1>16, <1>17, <1>18, <1>19, <1>20 DEF IndInv
-----------------------------------------------------------------------------
(* Steps of the router *)

\* The end of Run keeps the invariant.
LEMMA FailStep ==
    ASSUME IndInv, Fail, UNCHANGED <<backlog, toRouter, toClient, clientVars, bridgeVars>>
    PROVE  IndInv'
  <1>1. /\ UNCHANGED <<ips, ipCount, masterCount, ipMMap, clients, cur, todo, backlog>>
        /\ UNCHANGED <<toRouter, toClient, sock, state, call, config>>
        /\ UNCHANGED <<routerInfo, slaveMap, masterMap, peers, ipBlocks>>
        /\ rpc' = "failed" /\ (RegistrationOver => RegistrationOver')
    BY DEF Fail, registryVars, clientVars, bridgeVars, RegistrationOver
  <1>2. \A d \in Bridges : Same(d)
    BY <1>1 DEF Same
  <1>3. \A d \in Bridges :
          /\ StateFits(d) => StateFits(d)'
          /\ ClientInv(d) => ClientInv(d)'
          /\ KnowsInv(d) => KnowsInv(d)'
          /\ KindsInv(d) => KindsInv(d)'
          /\ \A id \in Nat : Owns(d, id)' => Owns(d, id)
    BY <1>1, <1>2, SameBridge
  <1>4. \A d \in Bridges : StateFits(d)' /\ ClientInv(d)' /\ KnowsInv(d)'
    BY <1>3 DEF IndInv
  <1>5. OwnersInv'
    BY <1>1, <1>3 DEF IndInv, OwnersInv
  <1>6. TypeOK' /\ MessagesInv'
    BY <1>1 DEF IndInv, TypeOK, MessagesInv, R!TypeOK
  <1>7. PlacesInv'
    BY <1>1 DEF IndInv, PlacesInv
  <1>8. CurInv' /\ RouterInv' /\ TodoInv' /\ CountInv'
    BY <1>1 DEF CurInv, RouterInv, TodoInv, CountInv
  <1> QED
    BY <1>4, <1>5, <1>6, <1>7, <1>8 DEF IndInv

\* Before the end of the registration nothing that the invariant says of a
\* bridge depends on the tables of the router.
LEMMA EarlyBridge ==
    ASSUME IndInv, ~RegistrationOver, TypeOK', NEW d \in Bridges,
           UNCHANGED <<sock, state, call, config, peers, ipBlocks>>
    PROVE  /\ KnowsInv(d)'
           /\ toClient'[d] = toClient[d] => ClientInv(d)'
           /\ toClient'[d] = toClient[d] /\ toRouter'[d] = toRouter[d] => StateFits(d)'
           /\ sock[d] # "none" => StateFits(d)'
           /\ state[d] \notin Late
           /\ Open(d) /\ Listening(d) => call[d] = "commitIp" /\ Taken(d) = 0 /\ Taken(d)' = 0
  <1>1. TypeOK /\ StateFits(d) /\ ClientInv(d) /\ KnowsInv(d)
    BY DEF IndInv
  <1>2. state[d] \notin Late
    BY <1>1 DEF KnowsInv
  <1>3. KnowsInv(d)'
    BY <1>1, <1>2 DEF KnowsInv, Late, Open
  <1>4. Open(d) /\ Listening(d) => call[d] = "commitIp" /\ Taken(d) = 0 /\ Taken(d)' = 0
    BY <1>1, <1>2 DEF Listening, Late, Taken, StateFits, Open
  <1>5. (Open(d)' <=> Open(d)) /\ (Listening(d)' <=> Listening(d))
    BY DEF Open, Listening
  <1>6. ASSUME toClient'[d] = toClient[d]
        PROVE  ClientInv(d)'
    <2>1. Total' \in Nat
      BY DEF Total, TypeOK, R!TypeOK
    <2>2. Open(d) /\ Listening(d) => toClient[d] = <<>>
      BY <1>1 DEF ClientInv, NextOfLists
    <2>3. Open(d) /\ Listening(d) => NextOfLists(d)'
      BY <1>4, <1>6, <2>1, <2>2 DEF NextOfLists
    <2> QED
      BY <1>1, <1>5, <1>6, <2>3 DEF ClientInv, SystemInfo, Msg, IpAck
  <1>7. toClient'[d] = toClient[d] /\ toRouter'[d] = toRouter[d] => StateFits(d)'
    BY <1>1 DEF StateFits
  <1>8. sock[d] # "none" => StateFits(d)'
    BY <1>1 DEF StateFits, TypeOK
  <1> QED
    BY <1>2, <1>3, <1>4, <1>6, <1>7, <1>8

\* An accepted connection keeps the invariant.
LEMMA AcceptStep ==
    ASSUME IndInv, accept
    PROVE  IndInv'
  <1>1. /\ TypeOK /\ MessagesInv /\ PlacesInv /\ RouterInv /\ OwnersInv /\ CountInv
        /\ rpc = "accept" /\ cur = 1 /\ ~RegistrationOver
    BY DEF IndInv, CurInv, accept, RegistrationOver
  <1>2. /\ UNCHANGED <<ips, ipCount, masterCount, ipMMap, cur, todo>>
        /\ UNCHANGED <<toRouter, toClient, sock, state, call, config>>
        /\ UNCHANGED <<routerInfo, slaveMap, masterMap, peers, ipBlocks>>
    BY DEF accept, registryVars, clientVars, bridgeVars
  <1>3. /\ clients \in Seq(Bridges) /\ backlog \in Seq(Bridges) /\ backlog # <<>>
        /\ NumClients \in Nat
    BY <1>1, BoundsAssumption DEF TypeOK, PlacesInv, accept
  <1> DEFINE h == Head(backlog)
             n == Len(clients)
             m == Len(backlog)
  <1>4. /\ h = backlog[1] /\ h \in Bridges
        /\ Tail(backlog) \in Seq(Bridges) /\ DOMAIN Tail(backlog) = 1 .. (m - 1)
        /\ \A j \in 1 .. (m - 1) : Tail(backlog)[j] = backlog[j + 1]
        /\ m \in Nat \ {0} /\ DOMAIN backlog = 1 .. m
    BY <1>3
  <1>5. /\ Append(clients, h) \in Seq(Bridges) /\ DOMAIN Append(clients, h) = 1 .. (n + 1)
        /\ Len(Append(clients, h)) = n + 1 /\ Append(clients, h)[n + 1] = h
        /\ \A i \in 1 .. n : Append(clients, h)[i] = clients[i]
        /\ n \in Nat /\ DOMAIN clients = 1 .. n
    BY <1>3, <1>4
  <1>6. clients' = Append(clients, h) /\ backlog' = Tail(backlog)
    BY DEF accept
  <1>7. /\ n < NumClients
        /\ rpc' = IF n + 1 = NumClients THEN "shakeHands" ELSE "accept"
    BY <1>1, <1>5, <1>6 DEF PlacesInv, accept
  <1> HIDE DEF h, n, m
  <1>8. /\ clients' \in Seq(Bridges) /\ DOMAIN clients' = 1 .. (n + 1) /\ Len(clients') = n + 1
        /\ clients'[n + 1] = backlog[1] /\ \A i \in 1 .. n : clients'[i] = clients[i]
        /\ backlog' \in Seq(Bridges) /\ DOMAIN backlog' = 1 .. (m - 1)
        /\ \A j \in 1 .. (m - 1) : backlog'[j] = backlog[j + 1]
    BY <1>4, <1>5, <1>6
  <1>9. TypeOK' /\ MessagesInv'
    BY <1>1, <1>2, <1>7, <1>8 DEF TypeOK, MessagesInv, R!TypeOK
  <1>10. \A d \in Bridges : StateFits(d)' /\ ClientInv(d)' /\ KnowsInv(d)'
    BY <1>1, <1>2, <1>9, EarlyBridge
  <1>11. PlacesInv'
    <2>1. \A i \in DOMAIN clients' :
            \/ i = n + 1 /\ clients'[i] = backlog[1]
            \/ i \in DOMAIN clients /\ i # n + 1 /\ clients'[i] = clients[i]
      <3>1. n \in Nat /\ DOMAIN clients = 1 .. n
        BY <1>5
      <3>2. \A i \in 1 .. (n + 1) : i = n + 1 \/ (i \in 1 .. n /\ i # n + 1)
        BY <3>1
      <3>3. /\ DOMAIN clients' = 1 .. (n + 1)
            /\ clients'[n + 1] = backlog[1] /\ \A i \in 1 .. n : clients'[i] = clients[i]
        BY <1>8
      <3> QED
        BY <3>1, <3>2, <3>3, Zenon
    <2>2. \A j \in DOMAIN backlog' :
            \E k \in DOMAIN backlog : k # 1 /\ k = j + 1 /\ backlog'[j] = backlog[k]
      <3>1. m \in Nat \ {0} /\ DOMAIN backlog = 1 .. m
        BY <1>4
      <3>2. /\ DOMAIN backlog' = 1 .. (m - 1)
            /\ \A j \in 1 .. (m - 1) : backlog'[j] = backlog[j + 1]
        BY <1>8
      <3>3. \A j \in 1 .. (m - 1) : j + 1 \in 1 .. m /\ j + 1 # 1
        BY <3>1
      <3> QED
        BY <3>1, <3>2, <3>3
    <2>3. 1 \in DOMAIN backlog
      BY <1>4
    <2>4. \A i, j \in DOMAIN clients' : clients'[i] = clients'[j] => i = j
      BY <1>1, <2>1, <2>3 DEF PlacesInv
    <2>5. ASSUME NEW i \in DOMAIN backlog', NEW j \in DOMAIN backlog', backlog'[i] = backlog'[j]
          PROVE  i = j
      <3>1. PICK k \in DOMAIN backlog : k = i + 1 /\ backlog'[i] = backlog[k]
        BY <2>2
      <3>2. PICK l \in DOMAIN backlog : l = j + 1 /\ backlog'[j] = backlog[l]
        BY <2>2
      <3>3. k = l
        BY <1>1, <2>5, <3>1, <3>2 DEF PlacesInv
      <3>4. i \in Int /\ j \in Int
        BY <1>8
      <3> QED
        BY <3>1, <3>2, <3>3, <3>4
    <2>6. \A i \in DOMAIN clients', j \in DOMAIN backlog' : clients'[i] # backlog'[j]
      BY <1>1, <2>1, <2>2, <2>3 DEF PlacesInv
    <2>7. \A i \in DOMAIN clients' : sock'[clients'[i]] # "none"
      BY <1>1, <1>2, <2>1, <2>3 DEF PlacesInv
    <2>8. \A j \in DOMAIN backlog' : sock'[backlog'[j]] # "none"
      BY <1>1, <1>2, <2>2 DEF PlacesInv
    <2>9. Len(clients') <= NumClients /\ (rpc' = "accept" => Len(clients') < NumClients)
          /\ (rpc' \notin {"accept", "failed"} => Len(clients') = NumClients)
      BY <1>3, <1>5, <1>7, <1>8
    <2> QED
      BY <1>8, <2>4, <2>5, <2>6, <2>7, <2>8, <2>9 DEF PlacesInv
  <1>12. RouterInv'
    <2>1. \A d \in Bridges : Fresh(d)' <=> Fresh(d)
      BY <1>2 DEF Fresh, Open, SystemInfo
    <2>2. \A i \in 1 .. n : Fresh(clients[i]) /\ clients[i] \in Bridges
      BY <1>1, <1>3, <1>5 DEF RouterInv
    <2>3. \A j \in 1 .. m : Fresh(backlog[j]) /\ backlog[j] \in Bridges
      BY <1>1, <1>3, <1>4 DEF RouterInv
    <2>4. \A i \in DOMAIN clients' : \E d \in Bridges : d = clients'[i] /\ Fresh(d)'
      <3>1. /\ n \in Nat /\ 1 \in 1 .. m
            /\ DOMAIN clients' = 1 .. (n + 1) /\ clients'[n + 1] = backlog[1]
            /\ \A i \in 1 .. n : clients'[i] = clients[i]
        BY <1>4, <1>5, <1>8
      <3>2. \A i \in 1 .. (n + 1) : i = n + 1 \/ i \in 1 .. n
        BY <3>1
      <3> QED
        BY <2>1, <2>2, <2>3, <3>1, <3>2
    <2>5. \A j \in DOMAIN backlog' : \E d \in Bridges : d = backlog'[j] /\ Fresh(d)'
      BY <1>4, <1>8, <2>1, <2>3
    <2>6. \A i \in DOMAIN clients' : Fresh(clients[i])'
      BY <2>4
    <2>7. \A j \in DOMAIN backlog' : Fresh(backlog[j])'
      BY <2>5
    <2>8. rpc' \in {"accept", "shakeHands"} /\ \A i \in DOMAIN clients' : ~(i < cur')
      BY <1>1, <1>2, <1>5, <1>7, <1>8
    <2> QED
      BY <2>6, <2>7, <2>8 DEF RouterInv
  <1>13. TodoInv' /\ CurInv'
    BY <1>1, <1>2, <1>7 DEF TodoInv, CurInv
  <1>14. OwnersInv'
    <2>1. \A d \in Bridges, id \in Nat :
            /\ Pending(d, id)' <=> Pending(d, id)
            /\ Owns(d, id)' <=> Owns(d, id)
            /\ IsMaster(id)' <=> IsMaster(id)
      BY <1>2 DEF Owns, Pending, IsMaster, IpAck
    <2>2. \A d \in Bridges : KindsInv(d)'
      BY <1>1, <1>2, <2>1 DEF OwnersInv, KindsInv
    <2> QED
      BY <1>1, <1>2, <2>1, <2>2 DEF OwnersInv
  <1>15. CountInv'
    <2>1. Masters' = Masters
      BY <1>2 DEF Masters
    <2> QED
      BY <1>1, <1>2, <2>1 DEF CountInv
  <1> QED
    BY <1>9, <1>10, <1>11, <1>12, <1>13, <1>14, <1>15 DEF IndInv

\* The client that the router deals with is one of the accepted connections.
LEMMA CurrentFacts ==
    ASSUME IndInv, rpc \in {"shakeHands", "receiveIpInfo", "commit"}
    PROVE  /\ DOMAIN clients = 1 .. NumClients /\ NumClients \in Nat \ {0}
           /\ clients \in Seq(Bridges)
           /\ cur \in DOMAIN clients /\ clients[cur] \in Bridges /\ sock[clients[cur]] # "none"
           /\ \A i \in DOMAIN clients :
                clients[i] \in Bridges /\ (i # cur => clients[i] # clients[cur])
  <1>1. TypeOK /\ PlacesInv
    BY DEF IndInv
  <1>2. Len(clients) = NumClients /\ clients \in Seq(Bridges) /\ cur \in 1 .. NumClients
    BY <1>1 DEF PlacesInv, TypeOK
  <1>3. DOMAIN clients = 1 .. NumClients /\ \A i \in DOMAIN clients : clients[i] \in Bridges
    BY <1>2
  <1> QED
    BY <1>1, <1>2, <1>3, BoundsAssumption DEF PlacesInv

\* Reading a message of a client.
LEMMA ReadsFacts ==
    ASSUME MessagesInv, NEW b \in Bridges, NEW type, Reads(b, type)
    PROVE  /\ toRouter[b] # <<>> /\ toRouter[b][1].type = type
           /\ toRouter' \in [Bridges -> Seq(ToRouterMsg)]
           /\ toRouter'[b] = Tail(toRouter[b])
           /\ \A d \in Bridges \ {b} : toRouter'[d] = toRouter[d]
  <1> DEFINE s == toRouter[b]
  <1>1. s \in Seq(ToRouterMsg) /\ s # <<>>
    BY DEF MessagesInv, Reads
  <1> HIDE DEF s
  <1>2. Tail(s) \in Seq(ToRouterMsg) /\ Head(s) = s[1]
    BY <1>1
  <1>3. toRouter' = [toRouter EXCEPT ![b] = Tail(s)] /\ Head(s).type = type
    BY DEF Reads, s
  <1>4. /\ toRouter' \in [Bridges -> Seq(ToRouterMsg)] /\ toRouter'[b] = Tail(s)
        /\ \A d \in Bridges \ {b} : toRouter'[d] = toRouter[d]
    BY <1>2, <1>3 DEF MessagesInv
  <1> QED
    BY <1>1, <1>2, <1>3, <1>4 DEF s

\* Sending a message to a client.
LEMMA SendsFacts ==
    ASSUME MessagesInv, NEW b \in Bridges, NEW m \in ToClientMsg, Sends(b, m)
    PROVE  /\ toClient' \in [Bridges -> Seq(ToClientMsg)]
           /\ toClient'[b] = Append(toClient[b], m)
           /\ toClient[b] = <<>> => toClient'[b] = <<m>>
           /\ \A d \in Bridges \ {b} : toClient'[d] = toClient[d]
  <1>1. /\ toClient' \in [Bridges -> Seq(ToClientMsg)]
        /\ toClient'[b] = Append(toClient[b], m)
        /\ \A d \in Bridges \ {b} : toClient'[d] = toClient[d]
    BY DEF MessagesInv, Sends
  <1>2. Append(<<>>, m) = <<m>>
    OBVIOUS
  <1> QED
    BY <1>1, <1>2

\* The handshake keeps the invariant.
LEMMA ShakeHandsStep ==
    ASSUME IndInv, NEW b \in Bridges, shakeHands(b)
    PROVE  IndInv'
  <1>1. /\ TypeOK /\ MessagesInv /\ PlacesInv /\ RouterInv /\ OwnersInv /\ CountInv
        /\ StateFits(b) /\ ClientInv(b) /\ KindsInv(b)
        /\ rpc = "shakeHands" /\ b = clients[cur] /\ ~RegistrationOver
    BY DEF IndInv, OwnersInv, shakeHands, Reads, RegistrationOver
  <1>2. /\ UNCHANGED <<ips, ipCount, masterCount, ipMMap, clients, cur, todo, backlog>>
        /\ UNCHANGED <<sock, state, call, config>>
        /\ UNCHANGED <<routerInfo, slaveMap, masterMap, peers, ipBlocks>>
        /\ rpc' = "receiveIpInfo"
    BY DEF shakeHands, registryVars, clientVars, bridgeVars
  <1>3. /\ cur \in DOMAIN clients /\ sock[b] # "none" /\ cur \in Nat /\ DOMAIN clients \subseteq Nat
        /\ \A i \in DOMAIN clients : clients[i] \in Bridges /\ (i # cur => clients[i] # b)
    BY <1>1, CurrentFacts
  <1>4. /\ toRouter' \in [Bridges -> Seq(ToRouterMsg)] /\ toRouter'[b] = Tail(toRouter[b])
        /\ \A d \in Bridges \ {b} : toRouter'[d] = toRouter[d]
    BY <1>1, ReadsFacts DEF shakeHands
  <1>5. /\ toClient' \in [Bridges -> Seq(ToClientMsg)]
        /\ toClient[b] = <<>> => toClient'[b] = <<SystemInfo("router")>>
        /\ \A d \in Bridges \ {b} : toClient'[d] = toClient[d]
    <2>1. SystemInfo("router") \in ToClientMsg
      BY DEF ToClientMsg
    <2> QED
      BY <1>1, <2>1, SendsFacts DEF shakeHands
  <1>6. Fresh(b)
    BY <1>1, <1>3 DEF RouterInv
  <1>7. toRouter'[b] = <<>>
    BY <1>4, <1>6 DEF Fresh
  <1>8. TypeOK' /\ MessagesInv'
    BY <1>1, <1>2, <1>4, <1>5 DEF TypeOK, MessagesInv, R!TypeOK
  <1>9. \A d \in Bridges \ {b} : Same(d)
    BY <1>2, <1>4, <1>5 DEF Same
  <1>10. (Open(b)' <=> Open(b)) /\ (Open(b) => call[b] = "connect" /\ state[b] = "DISCONNECTED")
         /\ call[b] # "registerIp"
    BY <1>1, <1>2, <1>3, <1>6 DEF Open, Fresh, StateFits, TypeOK
  <1>11. ClientInv(b)'
    BY <1>2, <1>5, <1>6, <1>10 DEF ClientInv, Fresh, Listening, Late, SystemInfo
  <1>12. Registering(b)'
    BY <1>2, <1>7, <1>10 DEF Registering
  <1>13. \A d \in Bridges : StateFits(d)' /\ ClientInv(d)' /\ KnowsInv(d)'
    BY <1>1, <1>2, <1>3, <1>4, <1>5, <1>8, <1>11, EarlyBridge
  <1>14. PlacesInv' /\ CurInv' /\ TodoInv'
    BY <1>1, <1>2 DEF PlacesInv, CurInv, TodoInv
  <1>15. \A d \in Bridges \ {b} :
           /\ Fresh(d) => Fresh(d)'
           /\ Committing(d) => Committing(d)'
           /\ KindsInv(d) => KindsInv(d)'
           /\ \A id \in Nat : Owns(d, id)' => Owns(d, id)
    BY <1>1, <1>2, <1>9, SameBridge
  <1>16. RouterInv'
    <2>1. \A j \in DOMAIN backlog : Fresh(backlog[j]) /\ backlog[j] \in Bridges \ {b}
      <3>1. \A j \in DOMAIN backlog : backlog[j] \in Bridges
        BY <1>1 DEF PlacesInv
      <3> QED
        BY <1>1, <1>3, <3>1 DEF RouterInv, PlacesInv
    <2>2. \A j \in DOMAIN backlog : Fresh(backlog[j])'
      BY <1>2, <1>15, <2>1
    <2>3. \A i \in DOMAIN clients : i > cur => Fresh(clients[i])'
      BY <1>1, <1>2, <1>3, <1>15 DEF RouterInv
    <2>4. \A i \in DOMAIN clients : i < cur => Committing(clients[i])'
      BY <1>1, <1>2, <1>3, <1>15 DEF RouterInv
    <2>5. Registering(clients[cur])'
      BY <1>1, <1>2, <1>12
    <2> QED
      BY <1>2, <2>2, <2>3, <2>4, <2>5 DEF RouterInv
  <1>17. OwnersInv'
    <2>1. \A id \in Nat : ~Pending(b, id)' /\ (Owns(b, id)' => Owns(b, id))
      BY <1>2, <1>10 DEF Pending, Owns
    <2>2. KindsInv(b)'
      BY <1>1, <1>2, <2>1 DEF KindsInv, IsMaster
    <2>3. \A d \in Bridges : KindsInv(d)'
      BY <1>1, <1>15, <2>2 DEF OwnersInv
    <2>4. \A d \in Bridges : \A id \in Nat : Owns(d, id)' => Owns(d, id)
      BY <1>15, <2>1
    <2> QED
      BY <1>1, <1>2, <2>3, <2>4 DEF OwnersInv
  <1>18. CountInv'
    <2>1. Masters' = Masters
      BY <1>2 DEF Masters
    <2> QED
      BY <1>1, <1>2, <2>1 DEF CountInv
  <1> QED
    BY <1>8, <1>13, <1>14, <1>16, <1>17, <1>18 DEF IndInv

\* A client's COMMIT keeps the invariant.
LEMMA ReceiveCommitStep ==
    ASSUME IndInv, NEW b \in Bridges, receiveCommit(b)
    PROVE  IndInv'
  <1>1. /\ TypeOK /\ MessagesInv /\ PlacesInv /\ RouterInv /\ OwnersInv /\ CountInv
        /\ StateFits(b) /\ ClientInv(b) /\ KindsInv(b)
        /\ rpc = "receiveIpInfo" /\ b = clients[cur] /\ ~RegistrationOver
    BY DEF IndInv, OwnersInv, receiveCommit, Reads, RegistrationOver
  <1>2. /\ UNCHANGED <<ips, ipCount, masterCount, ipMMap, clients, backlog, toClient>>
        /\ UNCHANGED <<sock, state, call, config>>
        /\ UNCHANGED <<routerInfo, slaveMap, masterMap, peers, ipBlocks>>
    BY DEF receiveCommit, registryVars, clientVars, bridgeVars
  <1>3. \/ cur < NumClients /\ cur' = cur + 1 /\ rpc' = "shakeHands" /\ todo' = todo
        \/ ~(cur < NumClients) /\ cur' = 1 /\ rpc' = "commit" /\ todo' = commitMsgs
    BY DEF receiveCommit
  <1>4. /\ DOMAIN clients = 1 .. NumClients /\ NumClients \in Nat \ {0}
        /\ cur \in DOMAIN clients /\ sock[b] # "none"
        /\ \A i \in DOMAIN clients : clients[i] \in Bridges /\ (i # cur => clients[i] # b)
    BY <1>1, CurrentFacts
  <1>5. /\ toRouter[b] # <<>> /\ toRouter[b][1].type = "COMMIT"
        /\ toRouter' \in [Bridges -> Seq(ToRouterMsg)]
        /\ \A d \in Bridges \ {b} : toRouter'[d] = toRouter[d]
    BY <1>1, ReadsFacts DEF receiveCommit
  <1>6. commitMsgs \in Seq(ToClientMsg) /\ Len(commitMsgs) = Total
    BY <1>1, CommitMsgs DEF TypeOK, R!TypeOK
  <1>7. Committing(b)
    <2>1. Registering(b)
      BY <1>1, <1>4 DEF RouterInv
    <2>2. \A ip : toRouter[b] # <<IpInfoMsg(ip)>>
      BY <1>5, MessageFields
    <2> QED
      BY <1>5, <2>1, <2>2 DEF Registering, Committing
  <1>8. TypeOK'
    <2>1. cur' \in 1 .. NumClients /\ rpc' \in {"shakeHands", "commit"}
      BY <1>3, <1>4
    <2> QED
      BY <1>1, <1>2, <2>1 DEF TypeOK, R!TypeOK
  <1>9. MessagesInv'
    BY <1>1, <1>2, <1>3, <1>5, <1>6 DEF MessagesInv
  <1>10. \A d \in Bridges \ {b} : Same(d)
    BY <1>2, <1>5 DEF Same
  <1>11. \A d \in Bridges : StateFits(d)' /\ ClientInv(d)' /\ KnowsInv(d)'
    BY <1>1, <1>2, <1>4, <1>5, <1>8, EarlyBridge
  <1>12. PlacesInv' /\ CurInv'
    BY <1>1, <1>2, <1>3 DEF PlacesInv, CurInv
  <1>13. /\ \A d \in Bridges \ {b} : Fresh(d) => Fresh(d)'
         /\ \A d \in Bridges : Committing(d) => Committing(d)'
    BY <1>2, <1>5 DEF Fresh, Committing, Open, SystemInfo
  <1>14. commitMsgs' = commitMsgs /\ Total' = Total
    BY <1>2, SameLists
  <1>15. RouterInv'
    <2>1. \A j \in DOMAIN backlog : Fresh(backlog[j]) /\ backlog[j] \in Bridges \ {b}
      <3>1. \A j \in DOMAIN backlog : backlog[j] \in Bridges
        BY <1>1 DEF PlacesInv
      <3> QED
        BY <1>1, <1>4, <3>1 DEF RouterInv, PlacesInv
    <2>2. \A j \in DOMAIN backlog : Fresh(backlog[j])'
      BY <1>2, <1>13, <2>1
    <2>3. \A i \in DOMAIN clients : i > cur => Fresh(clients[i])'
      BY <1>1, <1>2, <1>4, <1>13 DEF RouterInv
    <2>4. \A i \in DOMAIN clients : i <= cur => Committing(clients[i])'
      BY <1>1, <1>2, <1>4, <1>7, <1>13 DEF RouterInv
    <2>5. CASE cur < NumClients
      <3>1. cur' = cur + 1 /\ rpc' = "shakeHands"
        BY <1>3, <2>5
      <3>2. \A i \in DOMAIN clients : (i >= cur' => i > cur) /\ (i < cur' => i <= cur)
        BY <1>4, <3>1
      <3> QED
        BY <1>2, <3>1, <3>2, <2>2, <2>3, <2>4 DEF RouterInv
    <2>6. CASE ~(cur < NumClients)
      <3>1. cur' = 1 /\ rpc' = "commit" /\ todo' = commitMsgs
        BY <1>3, <2>6
      <3>2. \A i \in DOMAIN clients : Committing(clients[i])'
        BY <1>4, <2>4, <2>6
      <3>3. \A d \in Bridges : Committing(d)' => Listing(d)'
        <4>1. Len(todo') = Total'
          BY <1>6, <1>14, <3>1
        <4>2. ASSUME NEW d \in Bridges, Committing(d)'
              PROVE  Listing(d)'
          <5>1. Open(d)' => /\ call'[d] = "commitIp" /\ state'[d] = "CONNECTED"
                            /\ toClient'[d] = <<>>
            BY <1>11, <4>2 DEF Committing, StateFits, Open
          <5>2. Open(d)' => Listening(d)' /\ Taken(d)' = 0
            BY <5>1 DEF Listening, Taken
          <5>3. Open(d)' => Len(toClient'[d]) = 0
            BY <5>1
          <5>4. Total' \in Nat
            BY <1>8 DEF Total, TypeOK, R!TypeOK
          <5> QED
            BY <4>1, <5>2, <5>3, <5>4 DEF Listing
        <4> QED
          BY <4>2
      <3>4. \A i \in DOMAIN clients : Listing(clients[i])'
        BY <1>2, <1>4, <3>2, <3>3
      <3> QED
        BY <1>2, <3>1, <3>2, <3>4, <2>2 DEF RouterInv
    <2> QED
      BY <2>5, <2>6
  <1>16. TodoInv'
    <2>1. Total \in Nat \ {0}
      BY <1>1 DEF Total, TypeOK, R!TypeOK
    <2>2. rpc' = "commit" => todo' = commitMsgs
      BY <1>3
    <2>3. \A k \in 1 .. Total : Total - Total + k = k
      BY <2>1
    <2> QED
      BY <1>6, <1>14, <2>1, <2>2, <2>3 DEF TodoInv
  <1>17. OwnersInv'
    <2>1. \A d \in Bridges, id \in Nat :
            /\ Pending(d, id)' <=> Pending(d, id)
            /\ Owns(d, id)' <=> Owns(d, id)
            /\ IsMaster(id)' <=> IsMaster(id)
      BY <1>2 DEF Owns, Pending, IsMaster, IpAck
    <2>2. \A d \in Bridges : KindsInv(d)'
      BY <1>1, <1>2, <2>1 DEF OwnersInv, KindsInv
    <2> QED
      BY <1>1, <1>2, <2>1, <2>2 DEF OwnersInv
  <1>18. CountInv'
    <2>1. Masters' = Masters
      BY <1>2 DEF Masters
    <2>2. ~Doomed(b)
      BY <1>5 DEF Doomed
    <2> QED
      BY <1>1, <1>2, <2>1, <2>2 DEF CountInv
  <1> QED
    BY <1>8, <1>9, <1>11, <1>12, <1>15, <1>16, <1>17, <1>18 DEF IndInv

\* What registerIp does to the tables of blocks.
LEMMA RegisterFacts ==
    ASSUME TypeOK, ipCount = Len(ips), NEW o \in Offers,
           R!registerIp(receiveIpInfo(WireIpInfo(o)))
    PROVE  LET ip == receiveIpInfo(WireIpInfo(o)) IN
           /\ R!TypeOK'
           /\ o.type \in MasterTypes => masterCount' = masterCount + 1
           /\ o.type \notin MasterTypes => masterCount' = masterCount
           /\ R!Refused(ip) => ips' = ips /\ ipCount' = ipCount
           /\ ~R!Refused(ip) =>
                /\ ipCount' = Len(ips')
                /\ Len(ips') = Len(ips) + 1
                /\ \A i \in 1 .. Len(ips) : ips'[i] = ips[i]
                /\ ips'[Len(ips) + 1].type = o.type
  <1> DEFINE ip == receiveIpInfo(WireIpInfo(o))
             new == [ip EXCEPT !.id = ipCount]
  <1>1. /\ ips \in Seq(R!IpInfo) /\ ipCount \in Nat /\ masterCount \in Nat
        /\ ipMMap \in [R!Addr -> Nat] /\ o \in IpConfig
    BY OffersAssumption DEF TypeOK, R!TypeOK
  <1>2. ip \in R!IpInfo /\ ip.type = o.type /\ ip.address \in R!Addr
    <2>1. WireIpInfo(o) \in IpConfig /\ WireIpInfo(o).type = o.type
      BY <1>1 DEF WireIpInfo, IpConfig
    <2>2. \A c \in IpConfig : receiveIpInfo(c) \in R!IpInfo /\ receiveIpInfo(c).type = c.type
                              /\ receiveIpInfo(c).address \in R!Addr
      BY DEF receiveIpInfo, IpConfig, R!IpInfo, Addr, R!Addr, IpTypes, R!IpTypes
    <2> QED
      BY <2>1, <2>2
  <1> HIDE DEF ip
  <1>3. new \in R!IpInfo /\ new.type = o.type
    BY <1>1, <1>2 DEF R!IpInfo
  <1> HIDE DEF new
  <1>4. R!registerIp(ip)
    BY DEF ip
  <1>5. R!countMaster(ip)
    BY <1>4 DEF R!registerIp, R!acceptIp, R!refuseIp
  <1>6. /\ o.type \in MasterTypes => masterCount' = masterCount + 1
        /\ o.type \notin MasterTypes => masterCount' = masterCount
        /\ masterCount' \in Nat
    BY <1>1, <1>2, <1>5 DEF R!countMaster, MasterTypes, R!MasterTypes
  <1>7. CASE R!Refused(ip)
    <2>1. UNCHANGED <<ips, ipCount, ipMMap>>
      BY <1>4, <1>7 DEF R!registerIp, R!acceptIp, R!refuseIp
    <2>2. R!TypeOK'
      BY <1>1, <1>6, <2>1 DEF R!TypeOK
    <2> QED
      BY <1>6, <1>7, <2>1, <2>2 DEF ip
  <1>8. CASE ~R!Refused(ip)
    <2>1. /\ ips' = Append(ips, new) /\ ipCount' = ipCount + 1
          /\ ipMMap' = [ipMMap EXCEPT ![ip.address] = ipCount + 1]
      BY <1>4, <1>8 DEF R!registerIp, R!acceptIp, R!refuseIp, new
    <2>2. /\ ips' \in Seq(R!IpInfo) /\ Len(ips') = Len(ips) + 1
          /\ \A i \in 1 .. Len(ips) : ips'[i] = ips[i]
          /\ ips'[Len(ips) + 1] = new
      BY <1>1, <1>3, <2>1
    <2>3. ipMMap' \in [R!Addr -> Nat]
      BY <1>1, <1>2, <2>1
    <2>4. R!TypeOK'
      BY <1>1, <1>6, <2>1, <2>2, <2>3 DEF R!TypeOK
    <2> QED
      BY <1>3, <1>6, <1>8, <2>1, <2>2, <2>4 DEF ip
  <1> QED
    BY <1>7, <1>8

\* A master more among the blocks is a master more in the count.
LEMMA MastersGrow ==
    ASSUME TypeOK, R!TypeOK', Len(ips') = Len(ips) + 1,
           \A i \in 1 .. Len(ips) : ips'[i] = ips[i]
    PROVE  /\ ips'[Len(ips) + 1].type \in MasterTypes =>
                Cardinality(Masters') = Cardinality(Masters) + 1
           /\ ips'[Len(ips) + 1].type \notin MasterTypes => Masters' = Masters
  <1> DEFINE n == Len(ips)
  <1>1. n \in Nat /\ DOMAIN ips = 1 .. n /\ DOMAIN ips' = 1 .. (n + 1)
    BY DEF TypeOK, R!TypeOK
  <1> HIDE DEF n
  <1>2. IsFiniteSet(Masters) /\ n + 1 \notin Masters
    <2>1. IsFiniteSet(1 .. n)
      BY <1>1, FS_Interval
    <2>2. Masters \subseteq 1 .. n
      BY <1>1 DEF Masters
    <2>3. IsFiniteSet(Masters)
      BY <2>1, <2>2, FS_Subset
    <2>4. n + 1 \notin 1 .. n
      BY <1>1
    <2> QED
      BY <2>2, <2>3, <2>4
  <1>3. \A i \in 1 .. n : ips'[i] = ips[i]
    BY DEF n
  <1>4. ips'[n + 1].type \in MasterTypes => Masters' = Masters \cup {n + 1}
    BY <1>1, <1>3 DEF Masters
  <1>5. ips'[n + 1].type \notin MasterTypes => Masters' = Masters
    BY <1>1, <1>3 DEF Masters
  <1>6. ips'[n + 1].type \in MasterTypes => Cardinality(Masters') = Cardinality(Masters) + 1
    BY <1>2, <1>4, FS_AddElement
  <1> QED
    BY <1>5, <1>6 DEF n

\* registerIp of the router keeps the invariant: the block that it
\* acknowledges is nobody else's, and after a refusal, which may have counted
\* a master too many, nothing more is read from the client.
LEMMA RegisterIpStep ==
    ASSUME IndInv, NEW b \in Bridges, registerIp(b)
    PROVE  IndInv'
  <1>1. /\ TypeOK /\ MessagesInv /\ PlacesInv /\ RouterInv /\ OwnersInv /\ CountInv
        /\ StateFits(b) /\ ClientInv(b) /\ KindsInv(b)
        /\ rpc = "receiveIpInfo" /\ b = clients[cur] /\ ~RegistrationOver
    BY DEF IndInv, OwnersInv, registerIp, Reads, RegistrationOver
  <1>2. /\ UNCHANGED <<rpc, clients, cur, todo, backlog>>
        /\ UNCHANGED <<sock, state, call, config>>
        /\ UNCHANGED <<routerInfo, slaveMap, masterMap, peers, ipBlocks>>
    BY DEF registerIp, clientVars, bridgeVars
  <1>3. /\ cur \in DOMAIN clients /\ sock[b] # "none" /\ cur \in Nat /\ DOMAIN clients \subseteq Nat
        /\ \A i \in DOMAIN clients : clients[i] \in Bridges /\ (i # cur => clients[i] # b)
    BY <1>1, CurrentFacts
  <1>4. /\ toRouter[b] # <<>> /\ toRouter[b][1].type = "IP_INFO"
        /\ toRouter' \in [Bridges -> Seq(ToRouterMsg)] /\ toRouter'[b] = Tail(toRouter[b])
        /\ \A d \in Bridges \ {b} : toRouter'[d] = toRouter[d]
    BY <1>1, ReadsFacts DEF registerIp
  <1>5. Registering(b)
    BY <1>1, <1>3 DEF RouterInv
  <1>6. PICK o \in Offers : toRouter[b] = <<IpInfoMsg(WireIpInfo(o))>>
    <2>1. toRouter[b] # <<Msg("COMMIT")>>
      BY <1>4, MessageFields
    <2> QED
      BY <1>4, <1>5, <2>1 DEF Registering
  <1> DEFINE ip == receiveIpInfo(WireIpInfo(o))
             m == IF R!Refused(ip) THEN Msg("ERROR") ELSE IpAck(ipCount)
  <1>7. toRouter'[b] = <<>> /\ R!registerIp(ip) /\ Sends(b, m)
    <2>1. Head(toRouter[b]).ip = WireIpInfo(o) /\ Tail(toRouter[b]) = <<>>
      BY <1>6, MessageFields
    <2> QED
      BY <1>4, <2>1 DEF registerIp
  <1>8. ipCount = Len(ips) /\ ips \in Seq(R!IpInfo) /\ Len(ips) \in Nat
    BY <1>1 DEF OwnersInv, TypeOK, R!TypeOK
  <1>9. /\ R!TypeOK'
        /\ o.type \in MasterTypes => masterCount' = masterCount + 1
        /\ o.type \notin MasterTypes => masterCount' = masterCount
        /\ R!Refused(ip) => ips' = ips /\ ipCount' = ipCount
        /\ ~R!Refused(ip) =>
             /\ ipCount' = Len(ips')
             /\ Len(ips') = Len(ips) + 1
             /\ \A i \in 1 .. Len(ips) : ips'[i] = ips[i]
             /\ ips'[Len(ips) + 1].type = o.type
    BY <1>1, <1>7, <1>8, RegisterFacts
  <1> HIDE DEF ip, m
  <1>10. m \in ToClientMsg
    BY <1>8 DEF m, ToClientMsg
  <1>11. /\ toClient' \in [Bridges -> Seq(ToClientMsg)]
         /\ toClient[b] = <<>> => toClient'[b] = <<m>>
         /\ \A d \in Bridges \ {b} : toClient'[d] = toClient[d]
    BY <1>1, <1>7, <1>10, SendsFacts
  <1>12. TypeOK' /\ MessagesInv'
    BY <1>1, <1>2, <1>4, <1>9, <1>11 DEF TypeOK, MessagesInv
  <1>13. /\ Open(b)' <=> Open(b)
         /\ Open(b) => /\ call[b] = "registerIp" /\ state[b] = "CONNECTED"
                       /\ config[b] \in Offers /\ config[b].type = o.type
                       /\ toClient[b] = <<>> /\ toClient'[b] = <<m>>
         /\ ~Open(b) => sock[b] = "closed" /\ call[b] # "registerIp"
    <2>1. Open(b) => /\ call[b] = "registerIp" /\ toClient[b] = <<>>
                     /\ toRouter[b] = <<IpInfoMsg(WireIpInfo(config[b]))>>
      <3>1. toRouter[b] # <<Msg("COMMIT")>>
        BY <1>4, MessageFields
      <3> QED
        BY <1>4, <1>5, <3>1 DEF Registering
    <2>2. Open(b) => config[b] \in Offers
      BY <1>1, <2>1 DEF ClientInv
    <2>3. Open(b) => WireIpInfo(config[b]) = WireIpInfo(o)
      BY <1>6, <2>1, MessageFields
    <2>4. \A c \in IpConfig : WireIpInfo(c).type = c.type
      BY DEF WireIpInfo, IpConfig
    <2>5. Open(b) => config[b].type = o.type
      BY <2>2, <2>3, <2>4, OffersAssumption
    <2>6. /\ Open(b) => state[b] = "CONNECTED"
          /\ ~Open(b) => sock[b] = "closed" /\ call[b] # "registerIp"
      BY <1>1, <1>3, <2>1 DEF StateFits, Open, TypeOK
    <2>7. Open(b)' <=> Open(b)
      BY <1>2 DEF Open
    <2> QED
      BY <1>11, <2>1, <2>2, <2>5, <2>6, <2>7
  <1>14. ClientInv(b)'
    BY <1>2, <1>8, <1>13 DEF ClientInv, Listening, Late, m, IpAck, Msg
  <1>15. \A d \in Bridges : StateFits(d)' /\ ClientInv(d)' /\ KnowsInv(d)'
    BY <1>1, <1>2, <1>3, <1>4, <1>11, <1>12, <1>14, EarlyBridge
  <1>16. PlacesInv' /\ CurInv' /\ TodoInv'
    BY <1>1, <1>2 DEF PlacesInv, CurInv, TodoInv
  <1>17. RouterInv'
    <2>1. \A d \in Bridges \ {b} :
            (Fresh(d) => Fresh(d)') /\ (Committing(d) => Committing(d)')
      BY <1>2, <1>4, <1>11 DEF Fresh, Committing, Open, SystemInfo
    <2>2. \A j \in DOMAIN backlog : Fresh(backlog[j]) /\ backlog[j] \in Bridges \ {b}
      <3>1. \A j \in DOMAIN backlog : backlog[j] \in Bridges
        BY <1>1 DEF PlacesInv
      <3> QED
        BY <1>1, <1>3, <3>1 DEF RouterInv, PlacesInv
    <2>3. \A j \in DOMAIN backlog : Fresh(backlog[j])'
      BY <1>2, <2>1, <2>2
    <2>4. \A i \in DOMAIN clients : i > cur => Fresh(clients[i])'
      BY <1>1, <1>2, <1>3, <2>1 DEF RouterInv
    <2>5. \A i \in DOMAIN clients : i < cur => Committing(clients[i])'
      BY <1>1, <1>2, <1>3, <2>1 DEF RouterInv
    <2>6. Registering(b)'
      BY <1>2, <1>7, <1>13 DEF Registering
    <2>7. Registering(clients[cur])'
      BY <1>1, <1>2, <2>6
    <2> QED
      BY <1>1, <1>2, <2>3, <2>4, <2>5, <2>7 DEF RouterInv
  <1>18. \A id \in Nat : id < Len(ips) => (IsMaster(id)' <=> IsMaster(id)) /\ id < Len(ips')
    <2>1. \A id \in Nat : id < Len(ips) => id + 1 \in 1 .. Len(ips)
      BY <1>8
    <2> QED
      BY <1>8, <1>9, <2>1 DEF IsMaster
  <1>19. ASSUME NEW d \in Bridges, NEW id \in Nat, Owns(d, id)'
         PROVE  \/ Owns(d, id)
                \/ d = b /\ id = Len(ips) /\ ~R!Refused(ip)
    <2>1. Pending(d, id)' => Pending(d, id) \/ (d = b /\ toClient'[b] = <<IpAck(id)>> /\ Open(b))
      BY <1>2, <1>11, <1>13 DEF Pending, IpAck
    <2>2. toClient'[b] = <<IpAck(id)>> /\ Open(b) => id = ipCount /\ ~R!Refused(ip)
      BY <1>13, MessageFields DEF m
    <2> QED
      BY <1>2, <1>8, <1>19, <2>1, <2>2 DEF Owns
  <1>20. OwnersInv'
    <2>1. ipCount' = Len(ips')
      BY <1>8, <1>9
    <2>2. \A d \in Bridges, id \in Nat : Owns(d, id) => id < Len(ips)
      BY <1>1 DEF OwnersInv, KindsInv
    <2>3. \A d \in Bridges, e \in Bridges, id \in Nat : Owns(d, id)' /\ Owns(e, id)' => d = e
      <3>1. ~(Len(ips) < Len(ips))
        BY <1>8
      <3> QED
        BY <1>1, <1>19, <2>2, <3>1 DEF OwnersInv
    <2>4. ASSUME NEW d \in Bridges
          PROVE  KindsInv(d)'
      <3> SUFFICES ASSUME NEW id \in Nat
                   PROVE  /\ Owns(d, id)' => id < Len(ips')
                          /\ id \in slaveMap'[d] => ~IsMaster(id)'
                          /\ id \in masterMap'[d] => IsMaster(id)'
                          /\ Pending(d, id)' => (IsMaster(id)' <=> config'[d].type \in MasterTypes)
        BY DEF KindsInv
      <3>1. CASE Owns(d, id)
        <4>1. /\ id < Len(ips) /\ (IsMaster(id)' <=> IsMaster(id)) /\ id < Len(ips')
          BY <1>18, <2>2, <3>1
        <4>2. Pending(d, id)' => Pending(d, id)
          <5>1. CASE d = b
            <6>1. Pending(b, id)' => id = ipCount
              BY <1>2, <1>13, MessageFields DEF m, Pending
            <6> QED
              BY <1>8, <4>1, <5>1, <6>1
          <5>2. CASE d # b
            BY <1>2, <1>11, <5>2 DEF Pending, IpAck
          <5> QED
            BY <5>1, <5>2
        <4> QED
          BY <1>1, <1>2, <4>1, <4>2 DEF OwnersInv, KindsInv
      <3>2. CASE ~Owns(d, id) /\ Owns(d, id)'
        <4>1. d = b /\ id = Len(ips) /\ ~R!Refused(ip)
          BY <1>19, <3>2
        <4>2. IsMaster(id)' <=> o.type \in MasterTypes
          BY <1>9, <4>1 DEF IsMaster
        <4>3. id < Len(ips')
          BY <1>8, <1>9, <4>1
        <4>4. id \notin slaveMap'[d] /\ id \notin masterMap'[d]
          BY <1>2, <3>2 DEF Owns
        <4>5. Pending(d, id)' => config'[d].type = o.type
          BY <1>2, <1>13, <4>1 DEF Pending
        <4> QED
          BY <4>2, <4>3, <4>4, <4>5
      <3>3. CASE ~Owns(d, id)'
        BY <3>3 DEF Owns
      <3> QED
        BY <3>1, <3>2, <3>3
    <2> QED
      BY <2>1, <2>3, <2>4 DEF OwnersInv
  <1>21. CountInv'
    <2>1. masterCount = Cardinality(Masters)
      BY <1>1, <1>4 DEF CountInv, Doomed
    <2>2. CASE R!Refused(ip)
      <3>1. Doomed(b)'
        BY <1>2, <1>7, <1>13, <2>2 DEF Doomed, m, Open, Msg
      <3> QED
        BY <1>1, <1>2, <3>1 DEF CountInv
    <2>3. CASE ~R!Refused(ip)
      <3>1. masterCount' = Cardinality(Masters')
        BY <1>1, <1>9, <2>1, <2>3, MastersGrow
      <3> QED
        BY <3>1 DEF CountInv
    <2> QED
      BY <2>2, <2>3
  <1> QED
    BY <1>12, <1>15, <1>16, <1>17, <1>20, <1>21 DEF IndInv

\* One message of client.commit keeps the invariant: it is the next one that
\* the client has to read.
LEMMA CommitStep ==
    ASSUME IndInv, NEW b \in Bridges, commit(b)
    PROVE  IndInv'
  <1>1. /\ TypeOK /\ MessagesInv /\ PlacesInv /\ RouterInv /\ TodoInv /\ OwnersInv /\ CountInv
        /\ StateFits(b) /\ ClientInv(b) /\ KindsInv(b) /\ KnowsInv(b)
        /\ rpc = "commit" /\ b = clients[cur] /\ Open(b) /\ RegistrationOver
    BY DEF IndInv, OwnersInv, PlacesInv, commit, RegistrationOver, Open
  <1>2. /\ UNCHANGED <<ips, ipCount, masterCount, ipMMap, clients, backlog, toRouter>>
        /\ UNCHANGED <<sock, state, call, config>>
        /\ UNCHANGED <<routerInfo, slaveMap, masterMap, peers, ipBlocks>>
    BY DEF commit, registryVars, clientVars, bridgeVars
  <1>3. /\ Sends(b, Head(todo))
        /\ \/ Len(todo) > 1 /\ todo' = Tail(todo) /\ cur' = cur /\ rpc' = rpc
           \/ /\ ~(Len(todo) > 1) /\ cur < NumClients
              /\ todo' = commitMsgs /\ cur' = cur + 1 /\ rpc' = rpc
           \/ /\ ~(Len(todo) > 1) /\ ~(cur < NumClients)
              /\ todo' = <<>> /\ rpc' = "running" /\ cur' = cur
    BY DEF commit
  <1>4. /\ DOMAIN clients = 1 .. NumClients /\ NumClients \in Nat \ {0}
        /\ cur \in DOMAIN clients /\ sock[b] # "none"
        /\ \A i \in DOMAIN clients : clients[i] \in Bridges /\ (i # cur => clients[i] # b)
    BY <1>1, CurrentFacts
  <1>5. /\ commitMsgs \in Seq(ToClientMsg) /\ Len(commitMsgs) = Total
        /\ commitMsgs' = commitMsgs /\ Total' = Total
    <2>1. clients \in Seq(Bridges) /\ ips \in Seq(R!IpInfo)
      BY <1>1 DEF TypeOK, R!TypeOK
    <2> QED
      BY <1>2, <2>1, CommitMsgs, SameLists
  <1>6. Total \in Nat \ {0}
    BY <1>1 DEF Total, TypeOK, R!TypeOK
  <1> DEFINE t == Len(todo)
             n == Len(toClient[b])
  <1>7. /\ todo \in Seq(ToClientMsg) /\ t \in 1 .. Total
        /\ \A k \in 1 .. t : todo[k] = commitMsgs[Total - t + k]
    BY <1>1 DEF TodoInv, MessagesInv
  <1>8. /\ Head(todo) = todo[1] /\ Head(todo) \in ToClientMsg
        /\ Tail(todo) \in Seq(ToClientMsg) /\ Len(Tail(todo)) = t - 1
        /\ \A k \in 1 .. (t - 1) : Tail(todo)[k] = todo[k + 1]
    <2>1. todo # <<>>
      BY <1>7
    <2> QED
      BY <1>7, <2>1
  <1>9. /\ toClient' \in [Bridges -> Seq(ToClientMsg)]
        /\ toClient'[b] = Append(toClient[b], Head(todo))
        /\ \A d \in Bridges \ {b} : toClient'[d] = toClient[d]
    BY <1>1, <1>3, <1>8, SendsFacts
  <1>10. /\ n \in Nat /\ Len(toClient'[b]) = n + 1 /\ toClient'[b][n + 1] = todo[1]
         /\ \A k \in 1 .. n : toClient'[b][k] = toClient[b][k]
    BY <1>1, <1>8, <1>9 DEF MessagesInv
  <1> HIDE DEF t, n
  <1>11. Listening(b) /\ Taken(b) + n + t = Total /\ NextOfLists(b)
    <2>1. Listing(b)
      BY <1>1, <1>4 DEF RouterInv
    <2> QED
      BY <1>1, <2>1 DEF Listing, ClientInv, n, t
  <1>12. Taken(b)' = Taken(b) /\ Listening(b)' /\ Open(b)' /\ Taken(b) \in Nat
    <2>1. Taken(b)' = Taken(b) /\ Listening(b)' /\ Open(b)'
      BY <1>1, <1>2, <1>5, <1>11 DEF Taken, Listening, Open
    <2>2. Len(peers[b]) \in Nat /\ Len(clients) \in Nat /\ Len(ipBlocks[b]) \in Nat
      BY <1>1 DEF TypeOK
    <2>3. \A i, j \in Nat : 1 + i \in Nat /\ 2 + i + j \in Nat
      OBVIOUS
    <2>4. Taken(b) \in Nat
      BY <1>6, <2>2, <2>3 DEF Taken
    <2> QED
      BY <2>1, <2>4
  <1>13. TypeOK'
    <2>1. cur' \in 1 .. NumClients /\ rpc' \in {"commit", "running"}
      BY <1>1, <1>3, <1>4
    <2> QED
      BY <1>1, <1>2, <2>1 DEF TypeOK, R!TypeOK
  <1>14. MessagesInv'
    <2>1. <<>> \in Seq(ToClientMsg)
      OBVIOUS
    <2>2. todo' = Tail(todo) \/ todo' = commitMsgs \/ todo' = <<>>
      BY <1>3
    <2>3. todo' \in Seq(ToClientMsg)
      BY <1>5, <1>8, <2>1, <2>2
    <2> QED
      BY <1>1, <1>2, <1>9, <2>3 DEF MessagesInv
  <1>15. RegistrationOver'
    BY <1>1, <1>2, <1>3 DEF RegistrationOver
  <1>16. ClientInv(b)'
    <2>1. Taken(b) + (n + 1) <= Total
      BY <1>6, <1>7, <1>10, <1>11, <1>12
    <2>2. ASSUME NEW k \in 1 .. Len(toClient'[b])
          PROVE  toClient'[b][k] = commitMsgs[Taken(b) + k]
      <3>1. CASE k \in 1 .. n
        BY <1>10, <1>11, <3>1 DEF NextOfLists, n
      <3>2. CASE k = n + 1
        <4>1. 1 \in 1 .. t
          BY <1>6, <1>7
        <4>2. todo[1] = commitMsgs[Total - t + 1]
          BY <1>7, <4>1
        <4>3. \A i, j, k1, l \in Nat : i + j + k1 = l => l - k1 + 1 = i + (j + 1)
          OBVIOUS
        <4>4. Total \in Nat /\ t \in Nat
          BY <1>6, <1>7
        <4>5. Total - t + 1 = Taken(b) + (n + 1)
          BY <1>10, <1>11, <1>12, <4>3, <4>4
        <4> QED
          BY <1>10, <3>2, <4>2, <4>5
      <3> QED
        BY <1>10, <3>1, <3>2
    <2>3. NextOfLists(b)'
      BY <1>5, <1>10, <1>12, <1>15, <2>1, <2>2 DEF NextOfLists
    <2>4. call'[b] \notin {"connect", "registerIp"}
          /\ ~(call'[b] = "idle" /\ state'[b] = "CONNECTED")
      BY <1>1, <1>2, <1>11 DEF StateFits, Listening, Late, Open
    <2> QED
      BY <2>3, <2>4 DEF ClientInv
  <1>17. KnowsInv(b)' /\ StateFits(b)'
    BY <1>1, <1>2, <1>4, <1>15 DEF KnowsInv, StateFits, Open, retrieveIpConfig, TypeOK
  <1>18. \A d \in Bridges \ {b} : Same(d)
    BY <1>2, <1>9 DEF Same
  <1>19. \A d \in Bridges \ {b} :
           /\ StateFits(d) => StateFits(d)'
           /\ ClientInv(d) => ClientInv(d)'
           /\ KnowsInv(d) => KnowsInv(d)'
           /\ Committing(d) => Committing(d)'
           /\ KindsInv(d) => KindsInv(d)'
           /\ \A id \in Nat : Owns(d, id)' => Owns(d, id)
    BY <1>2, <1>15, <1>18, SameBridge
  <1>20. \A d \in Bridges : StateFits(d)' /\ ClientInv(d)' /\ KnowsInv(d)'
    BY <1>16, <1>17, <1>19 DEF IndInv
  <1>21. PlacesInv' /\ CurInv'
    BY <1>1, <1>2, <1>3 DEF PlacesInv, CurInv
  <1>22. \A j \in DOMAIN backlog : Fresh(backlog[j])'
    <2>1. \A j \in DOMAIN backlog : Fresh(backlog[j]) /\ backlog[j] \in Bridges \ {b}
      <3>1. \A j \in DOMAIN backlog : backlog[j] \in Bridges
        BY <1>1 DEF PlacesInv
      <3> QED
        BY <1>1, <1>4, <3>1 DEF RouterInv, PlacesInv
    <2>2. \A d \in Bridges \ {b} : Fresh(d) => Fresh(d)'
      BY <1>2, <1>9 DEF Fresh, Open, SystemInfo
    <2> QED
      BY <1>2, <2>1, <2>2
  <1>23. \A i \in DOMAIN clients : i > cur => Committing(clients[i])'
    BY <1>1, <1>2, <1>4, <1>19 DEF RouterInv
  <1>24. RouterInv'
    <2>1. CASE Len(todo) > 1
      <3>1. todo' = Tail(todo) /\ cur' = cur /\ rpc' = "commit"
        BY <1>1, <1>3, <2>1
      <3>2. Taken(b)' + Len(toClient'[b]) + Len(todo') = Total'
        <4>1. Len(todo') = t - 1
          BY <1>8, <3>1 DEF t
        <4> QED
          BY <1>5, <1>6, <1>7, <1>10, <1>11, <1>12, <4>1
      <3>3. Listing(b)'
        BY <1>12, <3>2 DEF Listing
      <3>4. Listing(clients[cur])'
        BY <1>1, <1>2, <3>1, <3>3
      <3> QED
        BY <1>2, <1>22, <1>23, <3>1, <3>4 DEF RouterInv
    <2>2. CASE ~(Len(todo) > 1) /\ cur < NumClients
      <3>1. todo' = commitMsgs /\ cur' = cur + 1 /\ rpc' = "commit"
        BY <1>1, <1>3, <2>2
      <3>2. /\ cur + 1 \in DOMAIN clients /\ cur + 1 > cur
            /\ \A i \in DOMAIN clients : i > cur' => i > cur
        BY <1>4, <2>2, <3>1
      <3>3. PICK d \in Bridges : d = clients[cur + 1] /\ d # b
        BY <1>4, <3>2
      <3>4. Committing(d)'
        <4>1. Committing(clients[cur + 1])
          BY <1>1, <3>2 DEF RouterInv
        <4> QED
          BY <1>19, <3>3, <4>1
      <3>5. Listing(d)'
        <4>1. Open(d)' => /\ call'[d] = "commitIp" /\ state'[d] = "CONNECTED"
                          /\ toClient'[d] = <<>>
          BY <1>20, <3>4 DEF Committing, StateFits, Open
        <4>2. Open(d)' => Listening(d)' /\ Taken(d)' = 0
          BY <4>1 DEF Listening, Taken
        <4>3. Open(d)' => Len(toClient'[d]) = 0
          BY <4>1
        <4>4. Len(todo') = Total'
          BY <1>5, <3>1
        <4> QED
          BY <1>5, <1>6, <4>2, <4>3, <4>4 DEF Listing
      <3>6. Listing(clients[cur])'
        BY <1>2, <3>1, <3>3, <3>5
      <3> QED
        BY <1>2, <1>22, <1>23, <3>1, <3>2, <3>6 DEF RouterInv
    <2>3. CASE ~(Len(todo) > 1) /\ ~(cur < NumClients)
      BY <1>2, <1>3, <1>22, <2>3 DEF RouterInv
    <2> QED
      BY <2>1, <2>2, <2>3
  <1>25. TodoInv'
    <2>1. CASE Len(todo) > 1
      <3>1. todo' = Tail(todo) /\ t > 1 /\ Len(todo') = t - 1
        BY <1>3, <1>8, <2>1 DEF t
      <3>2. Len(todo') \in 1 .. Total
        BY <1>6, <1>7, <3>1
      <3>3. ASSUME NEW k \in 1 .. Len(todo')
            PROVE  todo'[k] = commitMsgs[Total - Len(todo') + k]
        <4>1. k \in 1 .. (t - 1) /\ k + 1 \in 1 .. t
          BY <1>6, <1>7, <3>1
        <4>2. todo'[k] = todo[k + 1]
          BY <1>8, <3>1, <4>1
        <4>3. todo[k + 1] = commitMsgs[Total - t + (k + 1)]
          BY <1>7, <4>1
        <4>4. \A i, j, l \in Nat : i - j + (l + 1) = i - (j - 1) + l
          OBVIOUS
        <4>5. Total \in Nat /\ t \in Nat /\ k \in Nat
          BY <1>6, <1>7
        <4>6. Total - t + (k + 1) = Total - (t - 1) + k
          BY <4>4, <4>5
        <4> QED
          BY <3>1, <4>2, <4>3, <4>6
      <3>4. \A k \in 1 .. Len(todo') : todo'[k] = commitMsgs[Total - Len(todo') + k]
        BY <3>3
      <3>5. \A k \in 1 .. Len(todo') : todo'[k] = commitMsgs'[Total' - Len(todo') + k]
        BY <1>5, <3>4
      <3>6. Len(todo') \in 1 .. Total'
        BY <1>5, <3>2
      <3>7. TodoInv' = (rpc' = "commit" =>
                /\ Len(todo') \in 1 .. Total'
                /\ \A k \in 1 .. Len(todo') : todo'[k] = commitMsgs'[Total' - Len(todo') + k])
        BY DEF TodoInv
      <3> DEFINE last == \A k \in 1 .. Len(todo') : todo'[k] = commitMsgs'[Total' - Len(todo') + k]
                 some == Len(todo') \in 1 .. Total'
      <3>8. TodoInv' = (rpc' = "commit" => some /\ last)
        BY <3>7
      <3>9. last
        BY <3>5
      <3>10. some
        BY <3>6
      <3> HIDE DEF last, some
      <3> QED
        BY <3>8, <3>9, <3>10
    <2>2. CASE ~(Len(todo) > 1) /\ cur < NumClients
      <3>1. todo' = commitMsgs
        BY <1>3, <2>2
      <3>2. \A k \in 1 .. Total : Total - Total + k = k
        BY <1>6
      <3> QED
        BY <1>5, <1>6, <3>1, <3>2 DEF TodoInv
    <2>3. CASE ~(Len(todo) > 1) /\ ~(cur < NumClients)
      BY <1>3, <2>3 DEF TodoInv
    <2> QED
      BY <2>1, <2>2, <2>3
  <1>26. OwnersInv'
    <2>1. call[b] # "registerIp"
      BY <1>1, <1>11 DEF StateFits, Listening, Late, Open
    <2>2. \A id \in Nat : ~Pending(b, id)' /\ (Owns(b, id)' => Owns(b, id))
      BY <1>2, <2>1 DEF Pending, Owns
    <2>3. KindsInv(b)'
      BY <1>1, <1>2, <2>2 DEF KindsInv, IsMaster
    <2>4. \A d \in Bridges : KindsInv(d)'
      BY <1>1, <1>19, <2>3 DEF OwnersInv
    <2>5. \A d \in Bridges : \A id \in Nat : Owns(d, id)' => Owns(d, id)
      BY <1>19, <2>2
    <2> QED
      BY <1>1, <1>2, <2>4, <2>5 DEF OwnersInv
  <1>27. CountInv'
    <2>1. Masters' = Masters
      BY <1>2 DEF Masters
    <2> QED
      BY <1>1, <1>2, <2>1 DEF CountInv
  <1> QED
    BY <1>13, <1>14, <1>20, <1>21, <1>24, <1>25, <1>26, <1>27 DEF IndInv
-----------------------------------------------------------------------------
(* The specification keeps the invariant *)

\* Nothing is connected or registered at first.
LEMMA InitInv == Init => IndInv
  <1> SUFFICES ASSUME Init PROVE IndInv
    OBVIOUS
  <1> USE DEF Init, R!RegistryInit
  <1>1. TypeOK
    BY BoundsAssumption DEF TypeOK, R!TypeOK, States, Calls
  <1>2. MessagesInv
    BY DEF MessagesInv
  <1>3. PlacesInv /\ CurInv
    BY BoundsAssumption DEF PlacesInv, CurInv
  <1>4. \A b \in Bridges : StateFits(b) /\ ClientInv(b) /\ KnowsInv(b)
    BY DEF StateFits, ClientInv, KnowsInv, Open, Late
  <1>5. RouterInv /\ TodoInv
    BY DEF RouterInv, TodoInv
  <1>6. OwnersInv
    BY DEF OwnersInv, KindsInv, Owns, Pending
  <1>7. CountInv
    <2>1. Masters = {}
      BY DEF Masters
    <2> QED
      BY <2>1, FS_EmptySet DEF CountInv
  <1> QED
    BY <1>1, <1>2, <1>3, <1>4, <1>5, <1>6, <1>7 DEF IndInv

\* Every step keeps the invariant.
LEMMA NextInv == IndInv /\ [Next]_vars => IndInv'
  <1> SUFFICES ASSUME IndInv, [Next]_vars PROVE IndInv'
    OBVIOUS
  <1>1. CASE Router
    <2>1. CASE accept
      BY <2>1, AcceptStep
    <2>2. ASSUME NEW b \in Bridges, shakeHands(b) PROVE IndInv'
      BY <2>2, ShakeHandsStep
    <2>3. ASSUME NEW b \in Bridges, registerIp(b) PROVE IndInv'
      BY <2>3, RegisterIpStep
    <2>4. ASSUME NEW b \in Bridges, receiveCommit(b) PROVE IndInv'
      BY <2>4, ReceiveCommitStep
    <2>5. ASSUME NEW b \in Bridges, readMsgFails(b) \/ commitFails(b) PROVE IndInv'
      BY <2>5, FailStep DEF readMsgFails, commitFails
    <2>6. ASSUME NEW b \in Bridges, commit(b) PROVE IndInv'
      BY <2>6, CommitStep
    <2> QED
      BY <1>1, <2>1, <2>2, <2>3, <2>4, <2>5, <2>6 DEF Router
  <1>2. ASSUME NEW b \in Bridges, Advance(b) PROVE IndInv'
    BY <1>2, ConnectStep, CommitIpStep, StartStep, CloseSteps DEF Advance
  <1>3. ASSUME NEW b \in Bridges, Answers(b) PROVE IndInv'
    BY <1>3, ConnectedStep, RegisteredStep, CommittedStep, PeerInfoStep, PeersReceivedStep,
       IpInfoStep, StartedStep, CloseSteps, SpinStep DEF Answers
  <1>4. ASSUME NEW b \in Bridges, NEW o \in Offers, register(b, o) PROVE IndInv'
    BY <1>4, RegisterStep
  <1>5. ASSUME NEW b \in Bridges, disconnect(b) \/ die(b) PROVE IndInv'
    BY <1>5, CloseSteps
  <1>6. CASE routerDies
    BY <1>6, FailStep DEF routerDies
  <1>7. CASE UNCHANGED vars
    <2>1. /\ UNCHANGED <<routerVars, backlog, ips, ipCount, masterCount, ipMMap, rpc, clients>>
          /\ UNCHANGED <<cur, todo, toRouter, toClient, sock, state, call, config>>
          /\ UNCHANGED <<routerInfo, slaveMap, masterMap, peers, ipBlocks>>
      BY <1>7 DEF vars, routerVars, registryVars, clientVars, bridgeVars
    <2>2. \A d \in Bridges : Same(d)
      BY <2>1 DEF Same
    <2>3. \A d \in Bridges :
            /\ StateFits(d) => StateFits(d)'
            /\ ClientInv(d) => ClientInv(d)'
            /\ KnowsInv(d) => KnowsInv(d)'
            /\ Fresh(d) => Fresh(d)'
            /\ Registering(d) => Registering(d)'
            /\ Committing(d) => Committing(d)'
            /\ Listing(d) => Listing(d)'
            /\ KindsInv(d) => KindsInv(d)'
            /\ \A id \in Nat : Owns(d, id)' => Owns(d, id)
            /\ Doomed(d) => Doomed(d)'
      BY <2>1, <2>2, SameBridge DEF RegistrationOver
    <2>4. TypeOK' /\ MessagesInv' /\ PlacesInv' /\ CurInv'
      <3>1. TypeOK /\ MessagesInv /\ PlacesInv /\ CurInv
        BY DEF IndInv
      <3>2. TypeOK'
        BY <2>1, <3>1 DEF TypeOK, R!TypeOK
      <3>3. MessagesInv'
        BY <2>1, <3>1 DEF MessagesInv
      <3>4. PlacesInv'
        BY <2>1, <3>1 DEF PlacesInv
      <3>5. CurInv'
        BY <2>1, <3>1 DEF CurInv
      <3> QED
        BY <3>2, <3>3, <3>4, <3>5
    <2>5. \A d \in Bridges : StateFits(d)' /\ ClientInv(d)' /\ KnowsInv(d)'
      <3>1. \A d \in Bridges : StateFits(d) /\ ClientInv(d) /\ KnowsInv(d)
        BY DEF IndInv
      <3> QED
        BY <2>3, <3>1
    <2>6. RouterInv'
      <3>1. /\ \A j \in DOMAIN backlog : backlog[j] \in Bridges
            /\ \A i \in DOMAIN clients : clients[i] \in Bridges
        BY DEF IndInv, TypeOK, PlacesInv
      <3> QED
        BY <2>1, <2>3, <3>1 DEF IndInv, RouterInv
    <2>7. TodoInv'
      BY <2>1, SameLists DEF IndInv, TodoInv
    <2>8. OwnersInv'
      BY <2>1, <2>3 DEF IndInv, OwnersInv
    <2>9. CountInv'
      <3>1. Masters' = Masters
        BY <2>1 DEF Masters
      <3>2. rpc = "receiveIpInfo" => clients[cur] \in Bridges
        BY CurrentFacts
      <3> QED
        BY <2>1, <2>3, <3>1, <3>2 DEF IndInv, CountInv
    <2> QED
      BY <2>4, <2>5, <2>6, <2>7, <2>8, <2>9 DEF IndInv
  <1> QED
    BY <1>1, <1>2, <1>3, <1>4, <1>5, <1>6, <1>7 DEF Next

\* The invariant of the handshake: what is on a socket fits both of its ends.
LEMMA SpecInv == Spec => []IndInv
  BY InitInv, NextInv, PTL DEF Spec
-----------------------------------------------------------------------------
(* What follows *)

\* The variables of the router and of the bridges always have their types.
THEOREM TypeCorrect == Spec => []TypeOK
  <1>1. IndInv => TypeOK
    BY DEF IndInv
  <1> QED
    BY <1>1, SpecInv, PTL

\* What a call finds on its socket is of a type that it deals with.
LEMMA ClientExpects ==
    ASSUME IndInv, NEW b \in Bridges, call[b] \notin {"idle", "spinning", "dead"},
           toClient[b] # <<>>
    PROVE  Head(toClient[b]).type \in Expected(call[b])
  <1>1. TypeOK /\ MessagesInv /\ StateFits(b) /\ ClientInv(b) /\ KnowsInv(b)
    BY DEF IndInv
  <1>2. Open(b)
    BY <1>1 DEF StateFits, TypeOK, Open
  <1> DEFINE h == toClient[b][1]
  <1>3. Head(toClient[b]) = h /\ Len(toClient[b]) \in Nat \ {0}
    BY <1>1 DEF MessagesInv
  <1>4. CASE call[b] = "connect"
    <2>1. toClient[b] = <<SystemInfo("router")>>
      BY <1>1, <1>2, <1>4 DEF ClientInv
    <2> QED
      BY <1>3, <1>4, <2>1, MessageFields DEF Expected
  <1>5. CASE call[b] = "registerIp"
    <2>1. toClient[b] = <<Msg("ERROR")>> \/ \E id \in Nat : toClient[b] = <<IpAck(id)>>
      BY <1>1, <1>2, <1>5 DEF ClientInv
    <2>2. h.type \in {"IP_ACK", "ERROR"}
      BY <2>1, MessageFields
    <2> QED
      BY <1>3, <1>5, <2>2 DEF Expected
  <1>6. CASE call[b] \in {"commitIp", "retrievePeerInfo", "retrieveIpConfig"}
    <2>1. /\ call[b] = "commitIp" => state[b] = "CONNECTED"
          /\ call[b] = "retrievePeerInfo" => state[b] = "COMMITTED"
          /\ call[b] = "retrieveIpConfig" => state[b] = "PEER_INFO_RECEIVED"
      BY <1>1, <1>2 DEF StateFits, Open
    <2>2. NextOfLists(b)
      BY <1>1, <1>2, <1>6, <2>1 DEF ClientInv, Listening, Late
    <2>3. /\ Len(clients) \in Nat /\ Len(ips) \in Nat
          /\ Len(peers[b]) \in Nat /\ Len(ipBlocks[b]) \in Nat
      BY <1>1 DEF TypeOK, R!TypeOK
    <2> DEFINE k == Taken(b) + 1
               c == Len(clients)
               p == Len(peers[b])
               n == Len(ipBlocks[b])
               l == Len(ips)
    <2>4. /\ c \in Nat /\ p \in Nat /\ n \in Nat /\ l \in Nat /\ Total = 3 + c + l
          /\ call[b] = "commitIp" => k = 0 + 1
          /\ call[b] = "retrievePeerInfo" => k = 1 + p + 1 /\ p <= c
          /\ call[b] = "retrieveIpConfig" => k = 2 + c + n + 1 /\ n <= l
      <3>1. Total = 3 + c + l
        BY DEF Total
      <3>2. (p <= c /\ n <= l) \/ call[b] = "commitIp"
        BY <1>1, <1>6, <2>1 DEF KnowsInv, Late
      <3>3. /\ call[b] = "commitIp" => Taken(b) = 0
            /\ call[b] = "retrievePeerInfo" => Taken(b) = 1 + p
            /\ call[b] = "retrieveIpConfig" => Taken(b) = 2 + c + n
        BY <2>1 DEF Taken
      <3> QED
        BY <2>3, <3>1, <3>2, <3>3
    <2>5. h = commitMsgs[k]
      BY <1>3, <2>2 DEF NextOfLists
    <2> HIDE DEF k, c, p, n, l, h
    <2>6. k \in 1 .. Total
      BY <1>6, <2>4
    <2>7. /\ h.type \in {"ACK", "SYSTEM_INFO", "IP_INFO"}
          /\ h.type = "ACK" <=> k \in {1, 2 + c, Total}
          /\ h.type = "SYSTEM_INFO" <=> k \in 2 .. 1 + c
      BY <1>1, <2>5, <2>6, TypesOfLists DEF c
    <2>8. CASE call[b] = "commitIp"
      BY <1>3, <2>4, <2>7, <2>8 DEF Expected
    <2>9. CASE call[b] = "retrievePeerInfo"
      <3>1. k \in 2 .. 1 + c \/ k = 2 + c
        BY <2>4, <2>9
      <3> QED
        BY <1>3, <2>7, <2>9, <3>1 DEF Expected
    <2>10. CASE call[b] = "retrieveIpConfig"
      <3>1. k \notin 2 .. 1 + c
        BY <2>4, <2>10
      <3> QED
        BY <1>3, <2>7, <2>10, <3>1 DEF Expected
    <2> QED
      BY <1>6, <2>8, <2>9, <2>10
  <1> QED
    BY <1>1, <1>4, <1>5, <1>6 DEF TypeOK, Calls

\* Neither side ever meets a message that it does not expect, whatever the
\* other clients do and whoever goes away.
THEOREM Agreement == Spec => []NoUnexpectedMessage
  <1>1. IndInv => NoUnexpectedMessage
    <2> SUFFICES ASSUME IndInv PROVE NoUnexpectedMessage
      OBVIOUS
    <2>1. ASSUME NEW b \in Bridges, rpc \in {"shakeHands", "receiveIpInfo"},
                 b = clients[cur], toRouter[b] # <<>>
          PROVE  Head(toRouter[b]).type \in IF rpc = "shakeHands" THEN {"SYSTEM_INFO"}
                                            ELSE {"IP_INFO", "COMMIT"}
      <3>1. cur \in DOMAIN clients /\ cur \in Int
        BY <2>1, CurrentFacts
      <3>2. CASE rpc = "shakeHands"
        <4>1. Fresh(b)
          BY <2>1, <3>1, <3>2 DEF IndInv, RouterInv
        <4> QED
          BY <3>2, <4>1, MessageFields DEF Fresh
      <3>3. CASE rpc = "receiveIpInfo"
        <4>1. Registering(b)
          BY <2>1, <3>1, <3>3 DEF IndInv, RouterInv
        <4>2. toRouter[b] = <<Msg("COMMIT")>> \/ \E ip : toRouter[b] = <<IpInfoMsg(ip)>>
          BY <2>1, <4>1 DEF Registering
        <4> QED
          BY <3>3, <4>2, MessageFields
      <3> QED
        BY <2>1, <3>2, <3>3
    <2> QED
      BY <2>1, ClientExpects DEF NoUnexpectedMessage
  <1> QED
    BY <1>1, SpecInv, PTL

\* A bridge that has started has both lists of the router, complete and in
\* the router's order, although it read them while the router was sending.
THEOREM ListsAreComplete == Spec => []StartedKnowsAll
  <1>1. IndInv => StartedKnowsAll
    <2> SUFFICES ASSUME IndInv, NEW b \in Bridges, state[b] = "STARTED"
                 PROVE  /\ Len(clients) = NumClients /\ peers[b] = clients
                        /\ ipBlocks[b] = [i \in DOMAIN ips |-> retrieveIpConfig(ips[i])]
      BY DEF StartedKnowsAll
    <2>1. TypeOK /\ KnowsInv(b)
      BY DEF IndInv
    <2>2. /\ RegistrationOver /\ Len(peers[b]) = Len(clients) /\ Len(ipBlocks[b]) = Len(ips)
          /\ \A k \in 1 .. Len(peers[b]) : peers[b][k] = clients[k]
          /\ \A k \in 1 .. Len(ipBlocks[b]) : ipBlocks[b][k] = retrieveIpConfig(ips[k])
      BY <2>1 DEF KnowsInv, Late
    <2>3. /\ clients \in Seq(Bridges) /\ peers[b] \in Seq(Bridges)
          /\ ips \in Seq(R!IpInfo) /\ ipBlocks[b] \in Seq(IpConfig)
      BY <2>1 DEF TypeOK, R!TypeOK
    <2>4. peers[b] = clients
      BY <2>2, <2>3, SeqEqual
    <2>5. ipBlocks[b] = [i \in DOMAIN ips |-> retrieveIpConfig(ips[i])]
      <3> DEFINE t == [i \in DOMAIN ips |-> retrieveIpConfig(ips[i])]
      <3>1. \A ip \in R!IpInfo : retrieveIpConfig(ip) \in IpConfig
        BY DEF IpConfig, R!IpInfo, retrieveIpConfig, Addr, R!Addr, IpTypes, R!IpTypes
      <3>2. /\ t \in Seq(IpConfig) /\ Len(t) = Len(ips)
            /\ \A k \in 1 .. Len(ips) : t[k] = retrieveIpConfig(ips[k])
        <4>1. DOMAIN ips = 1 .. Len(ips) /\ \A k \in 1 .. Len(ips) : ips[k] \in R!IpInfo
          BY <2>3
        <4>2. Len(ips) \in Nat
          BY <2>3
        <4> QED
          BY <3>1, <4>1, <4>2
      <3> HIDE DEF t
      <3>3. ipBlocks[b] = t
        BY <2>2, <2>3, <3>2, SeqEqual
      <3> QED
        BY <3>3 DEF t
    <2> QED
      BY <2>2, <2>4, <2>5 DEF RegistrationOver
  <1> QED
    BY <1>1, SpecInv, PTL

\* An id that the router has acknowledged belongs to one bridge, which has it
\* in the map of its kind.
THEOREM IdsHaveOneOwner == Spec => []IdsArePartitioned
  <1>1. IndInv => IdsArePartitioned
    <2> SUFFICES ASSUME IndInv PROVE IdsArePartitioned
      OBVIOUS
    <2>1. TypeOK /\ OwnersInv
      BY DEF IndInv
    <2>2. ASSUME NEW b \in Bridges, NEW id \in slaveMap[b] \cup masterMap[b]
          PROVE  /\ id + 1 \in DOMAIN ips
                 /\ (id \in masterMap[b]) = (ips[id + 1].type \in MasterTypes)
      <3>1. id \in Nat /\ Owns(b, id)
        BY <2>1, <2>2 DEF TypeOK, Owns
      <3>2. /\ id < Len(ips)
            /\ id \in slaveMap[b] => ~IsMaster(id)
            /\ id \in masterMap[b] => IsMaster(id)
        BY <2>1, <3>1 DEF OwnersInv, KindsInv
      <3>3. id + 1 \in DOMAIN ips
        BY <2>1, <3>1, <3>2 DEF TypeOK, R!TypeOK
      <3>4. id \in masterMap[b] <=> ips[id + 1].type \in MasterTypes
        BY <2>2, <3>2 DEF IsMaster
      <3> QED
        BY <3>3, <3>4
    <2>3. ASSUME NEW b \in Bridges, NEW d \in Bridges, b # d
          PROVE  (slaveMap[b] \cup masterMap[b]) \cap (slaveMap[d] \cup masterMap[d]) = {}
      <3>1. \A id \in slaveMap[b] \cup masterMap[b] : id \in Nat
        BY <2>1 DEF TypeOK
      <3>2. \A id \in Nat : ~(Owns(b, id) /\ Owns(d, id))
        BY <2>1, <2>3 DEF OwnersInv
      <3> QED
        BY <3>1, <3>2 DEF Owns
    <2> QED
      BY <2>2, <2>3 DEF IdsArePartitioned
  <1> QED
    BY <1>1, SpecInv, PTL

\* The router never starts to route with a wrong count of masters, although
\* it counts the ones that it refuses.
THEOREM MasterCountCorrect == Spec => []MasterCountIsExact
  <1>1. IndInv => MasterCountIsExact
    BY DEF IndInv, CountInv, Masters, MasterCountIsExact
  <1> QED
    BY <1>1, SpecInv, PTL

\* No block is registered once some client is COMMITTED.
THEOREM RegistryFreezes == Spec => RegistryIsFrozen
  <1>1. IndInv /\ [Next]_vars
          => [(\E b \in Bridges : state[b] \in {"COMMITTED", "PEER_INFO_RECEIVED", "STARTED"})
                 => UNCHANGED registryVars]_vars
    <2> SUFFICES ASSUME IndInv, Next, NEW b \in Bridges, state[b] \in Late
                 PROVE  UNCHANGED registryVars
      BY DEF Late
    <2>1. rpc # "receiveIpInfo"
      BY DEF IndInv, KnowsInv, RegistrationOver
    <2>2. \A d \in Bridges : ~registerIp(d)
      BY <2>1 DEF registerIp
    <2>3. CASE Router
      BY <2>2, <2>3 DEF Router, accept, shakeHands, receiveCommit, readMsgFails, commit,
                        commitFails, Fail
    <2>4. CASE routerDies
      BY <2>4 DEF routerDies, Fail
    <2>5. ASSUME NEW d \in Bridges, Advance(d) \/ disconnect(d) \/ die(d)
          PROVE  UNCHANGED registryVars
      BY <2>5 DEF Advance, connect, commitIp, start, writeToDeadRouter, Die, disconnect, die,
                  routerVars
    <2>6. ASSUME NEW d \in Bridges, Answers(d)
          PROVE  UNCHANGED registryVars
      BY <2>6 DEF Answers, connected, registered, refused, committed, peerInfo, peersReceived,
                  ipInfo, started, answerFails, startFails, answerSpins, Answer, routerVars
    <2>7. ASSUME NEW d \in Bridges, NEW o \in Offers, register(d, o)
          PROVE  UNCHANGED registryVars
      BY <2>7 DEF register, routerVars
    <2> QED
      BY <2>3, <2>4, <2>5, <2>6, <2>7 DEF Next
  <1> QED
    BY <1>1, SpecInv, PTL DEF Spec, RegistryIsFrozen

\* A client with a socket, in state s.
Connected(s) == [state |-> s, sock |-> TRUE]

\* RouterClient allows a call by client c to leave the given client.
Allows(name, c, after) == \E res \in Results(name, c) : res.client = after

\* The clients that RouterClient allows after a call: a failed call in the
\* right state leaves a new client, a successful one the next state.
LEMMA ResultClients ==
    /\ \A c : Allows("connect", c, Connected("CONNECTED"))
    /\ \A c : Allows("connect", c, RC!NewClient)
    /\ Allows("registerIp", Connected("CONNECTED"), Connected("CONNECTED"))
    /\ Allows("registerIp", Connected("CONNECTED"), RC!NewClient)
    /\ Allows("commitIp", Connected("CONNECTED"), Connected("COMMITTED"))
    /\ Allows("commitIp", Connected("CONNECTED"), RC!NewClient)
    /\ Allows("retrievePeerInfo", Connected("COMMITTED"), Connected("PEER_INFO_RECEIVED"))
    /\ Allows("retrievePeerInfo", Connected("COMMITTED"), RC!NewClient)
    /\ Allows("retrieveIpConfig", Connected("PEER_INFO_RECEIVED"), Connected("STARTED"))
    /\ Allows("retrieveIpConfig", Connected("PEER_INFO_RECEIVED"), RC!NewClient)
  <1>1. \A x, s, v : RC!Result(x, s, v).client = x
    BY DEF RC!Result
  <1>2. /\ \A s : RC!disconnect(Connected(s)) = RC!NewClient
        /\ \A s, t : RC!Enter(Connected(s), t) = Connected(t)
        /\ \A s : Connected(s).state = s
    <2>1. \A s : Connected(s).sock = TRUE
      BY DEF Connected
    <2>2. \A s : Connected(s).state = s
      BY DEF Connected
    <2>3. \A s, t : RC!Enter(Connected(s), t) = Connected(t)
      <3>1. ASSUME NEW s, NEW t
            PROVE  [[state |-> s, sock |-> TRUE] EXCEPT !.state = t] = [state |-> t, sock |-> TRUE]
        <4>1. \A k : [[state |-> s, sock |-> k] EXCEPT !.state = t] = [state |-> t, sock |-> k]
          OBVIOUS
        <4> QED
          BY <4>1, Zenon
      <3> QED
        BY <3>1, Zenon DEF RC!Enter, Connected
    <2>4. \A s : RC!disconnect(Connected(s)) = RC!NewClient
      BY <2>1 DEF RC!disconnect
    <2> QED
      BY <2>2, <2>3, <2>4
  <1>3. /\ [RC!NewClient EXCEPT !.sock = TRUE] = Connected("DISCONNECTED")
        /\ RC!NewClient.state = "DISCONNECTED"
    <2>1. RC!NewClient.state = "DISCONNECTED"
      BY DEF RC!NewClient
    <2>2. [RC!NewClient EXCEPT !.sock = TRUE] = Connected("DISCONNECTED")
      <3>1. \A s, k, l : [[state |-> s, sock |-> k] EXCEPT !.sock = l] = [state |-> s, sock |-> l]
        OBVIOUS
      <3> QED
        BY <3>1, Zenon DEF RC!NewClient, Connected
    <2> QED
      BY <2>1, <2>2
  <1>4. \A c : /\ RC!Result(Connected("CONNECTED"), "ok", TRUE) \in Results("connect", c)
              /\ RC!Result(RC!NewClient, "error", FALSE) \in Results("connect", c)
    <2>1. \A c : Results("connect", c) = RC!connect(RC!NewClient)
      BY DEF Results
    <2> QED
      BY <1>2, <1>3, <2>1 DEF RC!connect, RC!Call
  <1>5. \A c : /\ Results("registerIp", c) = RC!registerIp(c)
              /\ Results("commitIp", c) = RC!commitIp(c)
              /\ Results("retrievePeerInfo", c) = RC!retrievePeerInfo(c)
              /\ Results("retrieveIpConfig", c) = RC!retrieveIpConfig(c)
    BY DEF Results
  <1>6. LET r == Results("registerIp", Connected("CONNECTED")) IN
        /\ RC!Result(Connected("CONNECTED"), "ok", TRUE) \in r
        /\ RC!Result(RC!NewClient, "error", FALSE) \in r
    BY <1>2, <1>5 DEF RC!registerIp, RC!Call
  <1>7. LET r == Results("commitIp", Connected("CONNECTED")) IN
        /\ RC!Result(Connected("COMMITTED"), "ok", FALSE) \in r
        /\ RC!Result(RC!NewClient, "error", FALSE) \in r
    <2>1. RC!Enter(Connected("CONNECTED"), "COMMITTED") = Connected("COMMITTED")
      BY <1>2
    <2> QED
      BY <1>2, <1>5, <2>1 DEF RC!commitIp, RC!Call
  <1>8. LET r == Results("retrievePeerInfo", Connected("COMMITTED")) IN
        /\ RC!Result(Connected("PEER_INFO_RECEIVED"), "ok", FALSE) \in r
        /\ RC!Result(RC!NewClient, "error", FALSE) \in r
    <2>1. RC!Enter(Connected("COMMITTED"), "PEER_INFO_RECEIVED") = Connected("PEER_INFO_RECEIVED")
      BY <1>2
    <2> QED
      BY <1>2, <1>5, <2>1 DEF RC!retrievePeerInfo, RC!Call
  <1>9. LET r == Results("retrieveIpConfig", Connected("PEER_INFO_RECEIVED")) IN
        /\ RC!Result(Connected("STARTED"), "ok", FALSE) \in r
        /\ RC!Result(RC!NewClient, "error", FALSE) \in r
    <2>1. RC!Enter(Connected("PEER_INFO_RECEIVED"), "STARTED") = Connected("STARTED")
      BY <1>2
    <2> QED
      BY <1>2, <1>5, <2>1 DEF RC!retrieveIpConfig, RC!Call
  <1> QED
    BY <1>1, <1>4, <1>6, <1>7, <1>8, <1>9 DEF Allows

\* A step that ends or changes the call of a bridge leaves its client as
\* RouterClient allows.
LEMMA AnswerAsPromised ==
    ASSUME IndInv, NEW b \in Bridges, Answers(b),
           call[b] \notin {"idle", "spinning", "dead"},
           call'[b] \notin {call[b], "spinning", "dead"}
    PROVE  Allows(call[b], ClientOf(b), ClientOf(b)')
  <1>1. TypeOK /\ StateFits(b)
    BY DEF IndInv
  <1>2. /\ sock[b] = "open"
        /\ call[b] \in {"registerIp", "commitIp"} => state[b] = "CONNECTED"
        /\ call[b] = "retrievePeerInfo" => state[b] = "COMMITTED"
        /\ call[b] = "retrieveIpConfig" => state[b] = "PEER_INFO_RECEIVED"
    BY <1>1 DEF StateFits, TypeOK
  <1>3. ClientOf(b) = Connected(state[b])
    <2>1. (sock[b] = "open") = TRUE
      BY <1>2
    <2> QED
      BY <2>1 DEF ClientOf, Connected
  <1>4. ASSUME ClientDisconnect(b)
        PROVE  ClientOf(b)' = RC!NewClient
    <2>1. state'[b] = "DISCONNECTED" /\ sock'[b] = "closed"
      BY <1>1, <1>4 DEF ClientDisconnect, TypeOK
    <2>2. (sock'[b] = "open") = FALSE
      BY <2>1
    <2> QED
      BY <2>1, <2>2 DEF ClientOf, RC!NewClient
  <1>5. ASSUME sock' = sock
        PROVE  ClientOf(b)' = Connected(state'[b])
    <2>1. (sock'[b] = "open") = TRUE
      BY <1>2, <1>5
    <2> QED
      BY <2>1 DEF ClientOf, Connected
  <1>6. CASE connected(b)
    <2>1. call[b] = "connect" /\ sock' = sock /\ state'[b] = "CONNECTED"
      BY <1>1, <1>6 DEF connected, Answer, Enter, TypeOK
    <2> QED
      BY <1>5, <2>1, ResultClients
  <1>7. CASE registered(b)
    <2>1. call[b] = "registerIp" /\ sock' = sock /\ state'[b] = state[b]
      BY <1>7 DEF registered, Answer
    <2> QED
      BY <1>2, <1>3, <1>5, <2>1, ResultClients
  <1>8. CASE committed(b)
    <2>1. call[b] = "commitIp" /\ sock' = sock /\ state'[b] = "COMMITTED"
      BY <1>1, <1>8 DEF committed, Answer, Enter, TypeOK
    <2> QED
      BY <1>2, <1>3, <1>5, <2>1, ResultClients
  <1>9. CASE peersReceived(b)
    <2>1. call[b] = "retrievePeerInfo" /\ sock' = sock /\ state'[b] = "PEER_INFO_RECEIVED"
      BY <1>1, <1>9 DEF peersReceived, Answer, Enter, TypeOK
    <2> QED
      BY <1>2, <1>3, <1>5, <2>1, ResultClients
  <1>10. CASE started(b)
    <2>1. call[b] = "retrieveIpConfig" /\ sock' = sock /\ state'[b] = "STARTED"
      BY <1>1, <1>10 DEF started, Answer, Enter, TypeOK
    <2> QED
      BY <1>2, <1>3, <1>5, <2>1, ResultClients
  <1>11. CASE peerInfo(b) \/ ipInfo(b)
    BY <1>11 DEF peerInfo, ipInfo, clientVars
  <1>12. CASE refused(b) \/ answerFails(b) \/ startFails(b)
    <2>1. ClientDisconnect(b)
      BY <1>12 DEF refused, answerFails, startFails, BridgeDisconnect
    <2>2. call[b] \in {"connect", "registerIp", "commitIp", "retrievePeerInfo", "retrieveIpConfig"}
      BY <1>1 DEF TypeOK, Calls
    <2>3. ClientOf(b)' = RC!NewClient
      BY <1>4, <2>1
    <2>4. Allows(call[b], ClientOf(b), RC!NewClient)
      BY <1>2, <1>3, <2>2, ResultClients
    <2> QED
      BY <2>3, <2>4
  <1>13. CASE answerSpins(b)
    BY <1>1, <1>13 DEF answerSpins, TypeOK
  <1> QED
    BY <1>6, <1>7, <1>8, <1>9, <1>10, <1>11, <1>12, <1>13 DEF Answers

\* Every call leaves the client in a state that RouterClient, the view of a
\* call on which the models of the bridges rest, allows.
THEOREM CallsKeepPromises == Spec => CallsAsPromised
  <1>1. IndInv /\ [Next]_vars =>
          [\A b \in Bridges :
              /\ call[b] \notin {"idle", "spinning", "dead"}
              /\ call'[b] \notin {call[b], "spinning", "dead"}
              => \E res \in Results(call[b], ClientOf(b)) : res.client = ClientOf(b)']_vars
    <2> SUFFICES ASSUME IndInv, Next, NEW b \in Bridges,
                        call[b] \notin {"idle", "spinning", "dead"},
                        call'[b] \notin {call[b], "spinning", "dead"}
                 PROVE  Allows(call[b], ClientOf(b), ClientOf(b)')
      BY DEF Allows
    <2>1. call \in [Bridges -> Calls]
      BY DEF IndInv, TypeOK
    <2>2. ~Router /\ ~routerDies
      BY DEF Router, routerDies, accept, shakeHands, registerIp, receiveCommit, readMsgFails,
             commit, commitFails, clientVars
    <2>3. ASSUME NEW d \in Bridges, Advance(d) \/ disconnect(d) \/ die(d)
          PROVE  FALSE
      BY <2>1, <2>3 DEF Advance, connect, commitIp, start, writeToDeadRouter, Die, disconnect,
                        die, Request, BridgeDisconnect, ClientDisconnect
    <2>4. ASSUME NEW d \in Bridges, NEW o \in Offers, register(d, o)
          PROVE  FALSE
      BY <2>1, <2>4 DEF register, Request
    <2>5. ASSUME NEW d \in Bridges, Answers(d)
          PROVE  d = b
      BY <2>1, <2>5 DEF Answers, connected, registered, refused, committed, peerInfo,
             peersReceived, ipInfo, started, answerFails, startFails, answerSpins, Enter,
             ClientDisconnect, BridgeDisconnect, clientVars
    <2>6. Answers(b)
      BY <2>2, <2>3, <2>4, <2>5 DEF Next
    <2> QED
      BY <2>6, AnswerAsPromised
  <1> QED
    BY <1>1, SpecInv, PTL DEF Spec, CallsAsPromised
=============================================================================
