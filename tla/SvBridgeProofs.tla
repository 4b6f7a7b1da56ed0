--------------------------- MODULE SvBridgeProofs ---------------------------
(***************************************************************************)
(* Proofs about the handles of the SystemVerilog bridge, for lists of any  *)
(* length, any number of sessions and any addresses of objects.  The       *)
(* inductive invariant says which handles the simulator's side holds at    *)
(* each step of a method and what is in the heap there.                    *)
(***************************************************************************)
EXTENDS SvBridge, TLAPS

USE DEF Null

\* A method has been called and its results are not converted yet.
Waiting == frame.step = "convert"

\* The methods that return the object of this kind with a status.
Carries(method, kind) ==
    \/ method \in {"connect", "peers"} /\ kind = "systemInfo"
    \/ method = "blocks" /\ kind = "ipConfig"

\* The frame is that of a method at one of its steps.
FrameOK ==
    /\ frame = [method |-> frame.method, step |-> frame.step,
                st |-> frame.st, data |-> frame.data]
    /\ \/ frame = Idle
       \/ Waiting /\ frame.method \in {"connect", "registerSlave", "commitIp",
                                       "peers", "blocks"}
       \/ frame.step = "next" /\ frame.method \in {"peers", "blocks"}
            /\ frame.st = Null /\ frame.data = Null
       \/ frame.step = "data" /\ frame.method \in {"peers", "blocks"} /\ frame.data # Null

\* The handles that the bridge holds and will pass to bridge.cc are those of
\* objects of the right kind, and different from each other.
HeldHandles ==
    /\ client # Null => client \in DOMAIN heap /\ heap[client].kind = "client"
    /\ frame # Idle => client # Null
    /\ Waiting => /\ frame.st # Null
                  /\ frame.st \in DOMAIN heap /\ heap[frame.st].kind = "status"
    /\ frame.data # Null => /\ frame.data \in DOMAIN heap
                            /\ Carries(frame.method, heap[frame.data].kind)

HandlesInv ==
    /\ process \in {"running", "terminated"}
    /\ process = "terminated" => client = Null /\ frame = Idle
    /\ process = "running" => FrameOK /\ HeldHandles
    /\ DOMAIN heap \subseteq Handles

\* A call of client c at h leaves a status at st, the client where it was and
\* the value, if there is one, at data.
Returned(h, c, kind, method, res, st, data) ==
    /\ data # st /\ st # Null
    /\ DOMAIN heap' = DOMAIN heap \cup {h, st} \cup ({data} \ {Null})
    /\ heap'[h].kind = "client" /\ heap'[h].value = res.client
    /\ heap'[st].kind = "status" /\ heap'[st].value = res.status
    /\ data # Null => res.value /\ kind # "none" /\ heap'[data].kind = kind
    /\ frame' = [method |-> method, step |-> "convert", st |-> st, data |-> data]
    /\ sockets' = sockets + Open(res.client) - Open(c)

\* The results of a call are new objects, at different addresses.
LEMMA ResultsAreNew ==
    ASSUME NEW h \in Handles, NEW c, NEW results, NEW kind, NEW method,
           Results(h, c, results, kind, method)
    PROVE  \E res \in results, st \in Free \ {h}, data \in (Free \ {h}) \cup {Null} :
             Returned(h, c, kind, method, res, st, data)
  <1>1. PICK res \in results, st \in Free \ {h}, data \in (Free \ {h}) \cup {Null} :
               Results(h, c, results, kind, method)!(res, st, data)
    BY DEF Results
  <1> DEFINE returned == Put(Put(heap, h, [kind |-> "client", value |-> res.client]),
                             st, [kind |-> "status", value |-> res.status])
  <1>2. /\ data # st /\ st # Null
        /\ data # Null => res.value /\ kind # "none"
        /\ frame' = [method |-> method, step |-> "convert", st |-> st, data |-> data]
        /\ sockets' = sockets + Open(res.client) - Open(c)
    <2>1. st # Null
      BY HandlesAssumption DEF Free
    <2> QED
      BY <1>1, <2>1
  <1>3. /\ DOMAIN returned = DOMAIN heap \cup {h, st}
        /\ returned[h] = [kind |-> "client", value |-> res.client]
        /\ returned[st] = [kind |-> "status", value |-> res.status]
    BY DEF Put
  <1> HIDE DEF returned
  <1>4. CASE data = Null
    <2>1. heap' = returned
      BY <1>1, <1>4 DEF returned
    <2>2. /\ DOMAIN heap' = DOMAIN heap \cup {h, st} \cup ({data} \ {Null})
          /\ heap'[h].kind = "client" /\ heap'[h].value = res.client
          /\ heap'[st].kind = "status" /\ heap'[st].value = res.status
      BY <1>3, <1>4, <2>1
    <2>3. Returned(h, c, kind, method, res, st, data)
      BY <1>2, <1>4, <2>2 DEF Returned
    <2> QED
      BY <2>3
  <1>5. CASE data # Null
    <2>1. heap' = Put(returned, data, [kind |-> kind, value |-> session'])
      BY <1>1, <1>5 DEF returned
    <2>2. data # h
      BY <1>5
    <2>3. /\ DOMAIN heap' = DOMAIN heap \cup {h, st} \cup ({data} \ {Null})
          /\ heap'[h].kind = "client" /\ heap'[h].value = res.client
          /\ heap'[st].kind = "status" /\ heap'[st].value = res.status
          /\ heap'[data].kind = kind
      BY <1>2, <1>3, <1>5, <2>1, <2>2 DEF Put
    <2>4. Returned(h, c, kind, method, res, st, data)
      BY <1>2, <1>5, <2>3 DEF Returned
    <2> QED
      BY <2>4
  <1> QED
    BY <1>4, <1>5

\* At first there are no objects and no handles.
LEMMA InitHandles == Init => HandlesInv
  BY DEF Init, HandlesInv, FrameOK, HeldHandles, Idle, Waiting

\* After a call of the client the bridge holds it and its results.
LEMMA AfterCall ==
    ASSUME HandlesInv, NEW h \in Handles, NEW c, NEW results, NEW kind,
           NEW method \in {"connect", "registerSlave", "commitIp", "peers", "blocks"},
           kind = "none" \/ Carries(method, kind),
           Results(h, c, results, kind, method),
           client' = h, process' = "running"
    PROVE  HandlesInv'
  <1>1. PICK res \in results, st \in Free \ {h}, data \in (Free \ {h}) \cup {Null} :
               Returned(h, c, kind, method, res, st, data)
    BY ResultsAreNew
  <1>2. DOMAIN heap' \subseteq Handles
    BY <1>1 DEF Returned, Free, HandlesInv
  <1>3. FrameOK'
    BY <1>1 DEF Returned, FrameOK, Waiting
  <1>4. HeldHandles'
    <2>1. h # Null
      BY HandlesAssumption
    <2> QED
      BY <1>1, <2>1 DEF Returned, HeldHandles, Waiting, Carries
  <1> QED
    BY <1>2, <1>3, <1>4 DEF HandlesInv

\* A function of bridge.cc that takes the client finds it, or the bridge has
\* none and the process ends.
LEMMA ClientIsFound ==
    ASSUME HandlesInv, process = "running", client # Null
    PROVE  client \in Handles /\ client \in DOMAIN heap /\ heap[client].kind = "client"
  BY DEF HandlesInv, HeldHandles

\* The end of the process on a null client.
LEMMA TerminateWithoutClient ==
    ASSUME HandlesInv, client = Null, frame = Idle, process' = "terminated",
           UNCHANGED <<client, heap, frame>>
    PROVE  HandlesInv'
  BY DEF HandlesInv

\* A call of the client of the bridge, from any step of a method.
LEMMA CallKeepsHandles ==
    ASSUME HandlesInv, NEW results, NEW kind,
           NEW method \in {"connect", "registerSlave", "commitIp", "peers", "blocks"},
           kind = "none" \/ Carries(method, kind),
           frame # Idle => client # Null,
           With(client, "client",
                /\ UNCHANGED <<client, session, lists>>
                /\ Results(client, heap[client].value, results, kind, method))
    PROVE  HandlesInv'
  <1>1. CASE client = Null
    <2>1. client \notin DOMAIN heap
      BY <1>1, HandlesAssumption DEF HandlesInv
    <2>2. frame = Idle
      BY <1>1
    <2>3. process' = "terminated" /\ UNCHANGED <<client, heap, frame>>
      BY <1>1, <2>1 DEF With
    <2> QED
      BY <1>1, <2>2, <2>3, TerminateWithoutClient
  <1>2. CASE client # Null
    <2>1. process = "running"
      BY DEF With
    <2>2. client \in Handles /\ client \in DOMAIN heap /\ heap[client].kind = "client"
      BY <1>2, <2>1, ClientIsFound
    <2>3. /\ Results(client, heap[client].value, results, kind, method)
          /\ client' = client /\ process' = "running"
      BY <2>1, <2>2 DEF With
    <2> QED
      BY <2>2, <2>3, AfterCall
  <1> QED
    BY <1>1, <1>2

\* The status that a method converts is there, and is not the client or the
\* value.
LEMMA StatusIsFound ==
    ASSUME HandlesInv, process = "running", Waiting
    PROVE  /\ frame.st \in DOMAIN heap /\ heap[frame.st].kind = "status"
           /\ client # Null
           /\ frame.data # frame.st
  BY DEF HandlesInv, HeldHandles, Carries, Waiting, Idle, FrameOK

\* The value that a method converts is there and is of its kind.
LEMMA DataIsFound ==
    ASSUME HandlesInv, process = "running", frame.data # Null
    PROVE  /\ frame.data \in DOMAIN heap /\ Carries(frame.method, heap[frame.data].kind)
           /\ client # Null
  BY DEF HandlesInv, HeldHandles, Idle, FrameOK

\* The steps of the methods that convert a result.
Conversion ==
    \/ connectInfo \/ connectReturn \/ registerSlaveReturn \/ commitIpReturn
    \/ startFail \/ startStatus \/ startPeer \/ startBlock

\* A conversion finds object h and deletes it; what else the method holds it
\* keeps, but for a value that it gives up with an error.
Converts(h) ==
    /\ process = "running" /\ process' = "running"
    /\ h \in DOMAIN heap /\ heap[h].kind # "client"
    /\ heap' = Delete(heap, h) /\ UNCHANGED <<client, sockets>> /\ client # Null
    /\ FrameOK'
    /\ \/ /\ h = frame.data /\ frame'.data = Null
          /\ Waiting' <=> Waiting
          /\ Waiting => frame'.st = frame.st /\ frame.st # h
       \/ /\ h = frame.st /\ frame.data # h
          /\ Waiting /\ ~Waiting'
          /\ \/ frame'.data = frame.data /\ frame'.method = frame.method
             \/ /\ frame'.data = Null
                /\ frame.data # Null => /\ frame.method # "connect"
                                        /\ frame.method \in {"peers", "blocks"} => ~convertedOk

\* A conversion deletes one object of the heap and drops its handle.
LEMMA ConversionDeletes ==
    ASSUME HandlesInv, Conversion
    PROVE  \E h \in DOMAIN heap : Converts(h)
  <1>a. process = "running" => FrameOK
    BY DEF HandlesInv
  <1>1. CASE connectInfo
    <2>1. process = "running" /\ Waiting /\ frame.method = "connect" /\ frame.data # Null
      BY <1>1 DEF connectInfo, Converting, With, Waiting
    <2>2. frame.data \in DOMAIN heap /\ heap[frame.data].kind = "systemInfo"
      BY <2>1, DataIsFound DEF Carries
    <2>3. /\ process' = "running" /\ UNCHANGED <<client, sockets>>
          /\ heap' = Delete(heap, frame.data)
          /\ frame' = [frame EXCEPT !.data = Null]
      BY <1>1, <2>1, <2>2 DEF connectInfo, With, sw_axi_system_info_delete
    <2>4. FrameOK' /\ Waiting' /\ frame'.st = frame.st /\ frame'.data = Null
      BY <1>a, <2>1, <2>3 DEF FrameOK, Waiting
    <2>5. client # Null /\ frame.st # frame.data
      BY <2>1, StatusIsFound
    <2>6. Converts(frame.data)
      BY <2>1, <2>2, <2>3, <2>4, <2>5 DEF Converts
    <2> QED
      BY <2>2, <2>6
  <1>2. CASE connectReturn \/ registerSlaveReturn \/ commitIpReturn \/ startFail
    <2>1. process = "running" /\ Waiting
      BY <1>2 DEF connectReturn, registerSlaveReturn, commitIpReturn, startFail, Converting,
                  convertStatus, With, Waiting
    <2>2. /\ frame.st \in DOMAIN heap /\ heap[frame.st].kind = "status"
          /\ client # Null /\ frame.data # frame.st
      BY <2>1, StatusIsFound
    <2>3. /\ process' = "running" /\ UNCHANGED <<client, sockets>>
          /\ heap' = Delete(heap, frame.st)
          /\ frame' = Idle
      BY <1>2, <2>1, <2>2
         DEF connectReturn, registerSlaveReturn, commitIpReturn, startFail,
             convertStatus, With, sw_axi_status_delete
    <2>4. FrameOK' /\ ~Waiting' /\ frame'.data = Null
      BY <2>3 DEF FrameOK, Waiting, Idle
    <2>5. frame.data # Null => /\ frame.method # "connect"
                               /\ frame.method \in {"peers", "blocks"} => ~convertedOk
      BY <1>2, <2>1, <2>2
         DEF connectReturn, registerSlaveReturn, commitIpReturn, startFail,
             Converting, convertStatus, With
    <2>6. Converts(frame.st)
      BY <2>1, <2>2, <2>3, <2>4, <2>5 DEF Converts
    <2> QED
      BY <2>2, <2>6
  <1>3. CASE startStatus
    <2>1. process = "running" /\ Waiting /\ frame.method \in {"peers", "blocks"}
      BY <1>3 DEF startStatus, Converting, convertStatus, With, Waiting
    <2>2. /\ frame.st \in DOMAIN heap /\ heap[frame.st].kind = "status"
          /\ client # Null /\ frame.data # frame.st
      BY <2>1, StatusIsFound
    <2>3. /\ process' = "running" /\ UNCHANGED <<client, sockets>>
          /\ heap' = Delete(heap, frame.st)
          /\ frame' = IF frame.data # Null THEN [frame EXCEPT !.step = "data"]
                      ELSE IF frame.method = "peers"
                           THEN [Idle EXCEPT !.method = "blocks", !.step = "next"]
                           ELSE Idle
      BY <1>3, <2>1, <2>2 DEF startStatus, convertStatus, With, sw_axi_status_delete
    <2>4. CASE frame.data # Null
      <3>1. frame' = [frame EXCEPT !.step = "data"]
        BY <2>3, <2>4
      <3>2. /\ FrameOK' /\ ~Waiting' /\ frame'.data = frame.data
            /\ frame'.method = frame.method
        BY <1>a, <2>1, <2>4, <3>1 DEF FrameOK, Waiting
      <3>3. Converts(frame.st)
        BY <2>1, <2>2, <2>3, <3>2 DEF Converts
      <3> QED
        BY <2>2, <3>3
    <2>5. CASE frame.data = Null
      <3>1. FrameOK' /\ ~Waiting' /\ frame'.data = Null
        <4>1. CASE frame.method = "peers"
          <5>1. frame' = [method |-> "blocks", step |-> "next", st |-> Null, data |-> Null]
            BY <2>3, <2>5, <4>1 DEF Idle
          <5> QED
            BY <5>1 DEF FrameOK, Waiting
        <4>2. CASE frame.method # "peers"
          <5>1. frame' = Idle
            BY <2>3, <2>5, <4>2
          <5> QED
            BY <5>1 DEF FrameOK, Waiting, Idle
        <4> QED
          BY <4>1, <4>2
      <3>2. Converts(frame.st)
        BY <2>1, <2>2, <2>3, <2>5, <3>1 DEF Converts
      <3> QED
        BY <2>2, <3>2
    <2> QED
      BY <2>4, <2>5
  <1>4. CASE startPeer \/ startBlock
    <2>1. process = "running" /\ frame.step = "data"
      BY <1>4 DEF startPeer, startBlock, With
    <2>2. frame.data # Null /\ ~Waiting
      BY <1>a, <2>1 DEF FrameOK, Waiting, Idle
    <2>3. /\ frame.data \in DOMAIN heap /\ Carries(frame.method, heap[frame.data].kind)
          /\ client # Null
      BY <2>1, <2>2, DataIsFound
    <2>4. heap[frame.data].kind # "client"
      BY <2>3 DEF Carries
    <2>5. /\ process' = "running" /\ UNCHANGED <<client, sockets>>
          /\ heap' = Delete(heap, frame.data)
          /\ \/ frame' = [Idle EXCEPT !.method = "peers", !.step = "next"]
             \/ frame' = [Idle EXCEPT !.method = "blocks", !.step = "next"]
      BY <1>4, <2>1, <2>3
         DEF startPeer, startBlock, With, Carries,
             sw_axi_system_info_delete, sw_axi_ip_config_delete
    <2>6. FrameOK' /\ ~Waiting' /\ frame'.data = Null
      <3>1. PICK m \in {"peers", "blocks"} :
                   frame' = [method |-> m, step |-> "next", st |-> Null, data |-> Null]
        BY <2>5 DEF Idle
      <3> QED
        BY <3>1 DEF FrameOK, Waiting
    <2>7. Converts(frame.data)
      BY <2>1, <2>2, <2>3, <2>4, <2>5, <2>6 DEF Converts
    <2> QED
      BY <2>3, <2>7
  <1> QED
    BY <1>1, <1>2, <1>3, <1>4 DEF Conversion

\* A conversion leaves the bridge with handles that are good.
LEMMA AfterDelete ==
    ASSUME HandlesInv, NEW h, Converts(h)
    PROVE  HandlesInv'
  <1> USE DEF Converts
  <1>1. client \in DOMAIN heap' /\ heap'[client].kind = "client"
    BY DEF HandlesInv, HeldHandles, Delete
  <1>2. ASSUME frame'.data # Null
        PROVE  /\ frame'.data \in DOMAIN heap'
               /\ Carries(frame'.method, heap'[frame'.data].kind)
    BY <1>2 DEF HandlesInv, HeldHandles, Delete
  <1>3. DOMAIN heap' \subseteq Handles
    BY DEF HandlesInv, Delete
  <1>4. Waiting' => /\ frame'.st # Null /\ frame'.st \in DOMAIN heap'
                    /\ heap'[frame'.st].kind = "status"
    BY DEF HandlesInv, HeldHandles, Delete
  <1>5. HeldHandles'
    BY <1>1, <1>2, <1>4 DEF HeldHandles
  <1> QED
    BY <1>3, <1>5 DEF HandlesInv

\* Every step keeps the invariant.
LEMMA NextHandles == HandlesInv /\ [Next]_vars => HandlesInv'
  <1> SUFFICES ASSUME HandlesInv, [Next]_vars
               PROVE  HandlesInv'
    OBVIOUS
  <1>a. process = "running" => (frame # Idle => client # Null)
    BY DEF HandlesInv, HeldHandles
  <1>1. CASE connect
    <2>1. PICK c \in Free : /\ client' = c
                            /\ Results(c, RC!NewClient, RC!connect(RC!NewClient),
                                       "systemInfo", "connect")
      BY <1>1 DEF connect, sw_axi_client_connect
    <2>2. c \in Handles /\ process' = "running"
      BY <1>1 DEF connect, Called, Free
    <2>3. Carries("connect", "systemInfo")
      BY DEF Carries
    <2> QED
      BY <2>1, <2>2, <2>3, AfterCall
  <1>2. CASE registerSlave
    <2>1. frame # Idle => client # Null
      BY <1>2 DEF registerSlave, Called
    <2> QED
      BY <1>2, <2>1, CallKeepsHandles
         DEF registerSlave, sw_axi_client_register_slave, ClientCall
  <1>3. CASE commitIp
    <2>1. frame # Idle => client # Null
      BY <1>3 DEF commitIp, Called
    <2> QED
      BY <1>3, <2>1, CallKeepsHandles
         DEF commitIp, sw_axi_client_commit_ip, ClientCall
  <1>4. CASE start
    <2>1. frame # Idle => client # Null
      BY <1>4, <1>a DEF start, Called, sw_axi_client_retrieve_peer_info, ClientCall, With
    <2>2. Carries("peers", "systemInfo")
      BY DEF Carries
    <2> QED
      BY <1>4, <2>1, <2>2, CallKeepsHandles
         DEF start, sw_axi_client_retrieve_peer_info, ClientCall
  <1>5. CASE startBlocks
    <2>1. frame # Idle => client # Null
      BY <1>5, <1>a DEF startBlocks, sw_axi_client_retrieve_ip_config, ClientCall, With
    <2>2. Carries("blocks", "ipConfig")
      BY DEF Carries
    <2> QED
      BY <1>5, <2>1, <2>2, CallKeepsHandles
         DEF startBlocks, sw_axi_client_retrieve_ip_config, ClientCall
  <1>6. CASE disconnect
    <2>1. CASE client = Null
      <3>1. client \notin DOMAIN heap
        BY <2>1, HandlesAssumption DEF HandlesInv
      <3> QED
        BY <1>6, <2>1, <3>1, TerminateWithoutClient DEF disconnect, Called, With
    <2>2. CASE client # Null
      <3>1. client \in DOMAIN heap /\ heap[client].kind = "client"
        BY <1>6, <2>2, ClientIsFound DEF disconnect, Called
      <3>2. /\ process' = "running" /\ client' = Null /\ frame' = frame /\ frame = Idle
            /\ heap' = Delete(heap, client)
        BY <1>6, <3>1 DEF disconnect, Called, With
      <3> QED
        BY <3>2 DEF HandlesInv, FrameOK, HeldHandles, Idle, Waiting, Delete
    <2> QED
      BY <2>1, <2>2
  <1>7. CASE Conversion
    BY <1>7, ConversionDeletes, AfterDelete
  <1>8. CASE UNCHANGED vars
    BY <1>8 DEF vars, HandlesInv, FrameOK, HeldHandles, Waiting
  <1> QED
    BY <1>1, <1>2, <1>3, <1>4, <1>5, <1>6, <1>7, <1>8
       DEF Next, Methods, Returns, Conversion

\* For any lists, sessions and addresses, and even if the test bench connects
\* without disconnecting: no handle of a deleted object, or of an object of
\* another type, is passed to bridge.cc.
THEOREM HandlesAreValid == Spec => []NoDanglingHandle
  <1>1. HandlesInv => NoDanglingHandle
    BY DEF HandlesInv, NoDanglingHandle
  <1> QED
    BY InitHandles, NextHandles, <1>1, PTL DEF Spec

\* A null handle reaches bridge.cc only through a method of a bridge without
\* a client, never through the result of a call or in the middle of a method.
THEOREM NullMeansNoClient == Spec => []TerminatesOnlyWithoutClient
  <1>1. HandlesInv => TerminatesOnlyWithoutClient
    BY DEF HandlesInv, TerminatesOnlyWithoutClient
  <1> QED
    BY InitHandles, NextHandles, <1>1, PTL DEF Spec
-----------------------------------------------------------------------------
(* Nothing leaks.  In the middle of a method the heap holds the client and
   the results that the method has yet to convert. *)

Held == ({client, frame.data} \cup {s \in {frame.st} : Waiting}) \ {Null}

OpenSockets == IF client = Null THEN 0 ELSE Open(heap[client].value)

\* A value comes with a status that is ok: no error path has one to delete.
ValueMeansOk == Waiting /\ frame.data # Null => convertedOk

LeakInv ==
    process = "running" => /\ DOMAIN heap = Held
                           /\ sockets = OpenSockets
                           /\ ValueMeansOk

\* At first nothing is allocated.
LEMMA InitLeak == Init => LeakInv
  BY DEF Init, LeakInv, Held, OpenSockets, ValueMeansOk, Idle, Waiting

\* A client has one socket or none.
LEMMA OpenIsBit == ASSUME NEW c PROVE Open(c) \in {0, 1}
  BY DEF Open

\* A call of the client between two steps of a method, or of the new client of
\* a bridge that has none.
LEMMA CallLeaksNothing ==
    ASSUME NEW h \in Handles, NEW c, NEW results, NEW kind, NEW method,
           Results(h, c, results, kind, method),
           \A res \in results : res.value => res.status = "ok",
           client' = h, DOMAIN heap \subseteq {h}, sockets = Open(c)
    PROVE  LeakInv'
  <1>1. PICK res \in results, st \in Free \ {h}, data \in (Free \ {h}) \cup {Null} :
               Returned(h, c, kind, method, res, st, data)
    BY ResultsAreNew
  <1>2. h # Null
    BY HandlesAssumption
  <1>3. DOMAIN heap' = Held'
    BY <1>1, <1>2 DEF Returned, Held, Waiting
  <1>4. sockets' = Open(res.client)
    BY <1>1, OpenIsBit DEF Returned
  <1>5. sockets' = OpenSockets'
    BY <1>1, <1>2, <1>4 DEF Returned, OpenSockets
  <1>6. ValueMeansOk'
    BY <1>1 DEF Returned, ValueMeansOk, convertedOk
  <1> QED
    BY <1>3, <1>5, <1>6 DEF LeakInv

\* A call of the client of the bridge adds its results to what is held.
LEMMA ClientCallLeaksNothing ==
    ASSUME HandlesInv, LeakInv, NEW results, NEW kind, NEW method,
           ~Waiting, frame.data = Null,
           \A res \in results : res.value => res.status = "ok",
           With(client, "client",
                /\ UNCHANGED <<client, session, lists>>
                /\ Results(client, heap[client].value, results, kind, method))
    PROVE  LeakInv'
  <1>1. process = "running"
    BY DEF With
  <1>2. CASE client = Null
    <2>1. client \notin DOMAIN heap
      BY <1>2, HandlesAssumption DEF HandlesInv
    <2>2. process' = "terminated"
      BY <1>2, <2>1 DEF With
    <2> QED
      BY <2>2 DEF LeakInv
  <1>3. CASE client # Null
    <2>1. client \in Handles /\ client \in DOMAIN heap /\ heap[client].kind = "client"
      BY <1>1, <1>3, ClientIsFound
    <2>2. /\ Results(client, heap[client].value, results, kind, method)
          /\ client' = client
      BY <1>1, <2>1 DEF With
    <2>3. DOMAIN heap \subseteq {client} /\ sockets = Open(heap[client].value)
      BY <1>1, <1>3 DEF LeakInv, Held, OpenSockets
    <2> QED
      BY <2>1, <2>2, <2>3, CallLeaksNothing
  <1> QED
    BY <1>2, <1>3

\* A result is deleted when its conversion ends, and nothing is given up.
LEMMA DeleteLeaksNothing ==
    ASSUME HandlesInv, LeakInv, NEW h, Converts(h)
    PROVE  LeakInv'
  <1>1. client \in DOMAIN heap /\ client # h
    BY DEF HandlesInv, HeldHandles, Converts
  <1>2. ASSUME Waiting, frame.data # Null
        PROVE  convertedOk /\ frame.method \in {"connect", "peers", "blocks"}
    BY <1>2 DEF HandlesInv, HeldHandles, Carries, LeakInv, ValueMeansOk, Converts
  <1>3. Held' = Held \ {h}
    BY <1>1, <1>2 DEF Converts, Held
  <1>4. DOMAIN heap' = Held'
    BY <1>3 DEF LeakInv, Converts, Delete
  <1>5. heap'[client] = heap[client]
    BY <1>1 DEF Converts, Delete
  <1>6. sockets' = OpenSockets'
    BY <1>5 DEF LeakInv, OpenSockets, Converts
  <1>7. ValueMeansOk'
    BY DEF Converts, ValueMeansOk
  <1> QED
    BY <1>4, <1>6, <1>7 DEF LeakInv

\* No call of a RouterClient returns a value with an error.
LEMMA NoValueWithError ==
    ASSUME NEW c, NEW res \in RC!connect(c) \cup RC!registerIp(c) \cup RC!commitIp(c)
                                \cup RC!retrievePeerInfo(c) \cup RC!retrieveIpConfig(c)
    PROVE  res.value => res.status = "ok"
  BY DEF RC!connect, RC!registerIp, RC!commitIp, RC!retrievePeerInfo, RC!retrieveIpConfig,
         RC!Call, RC!Result

\* Every step of a test bench that disconnects first keeps the invariant.
LEMMA NextLeak ==
    ASSUME ~Reconnects
    PROVE  HandlesInv /\ LeakInv /\ [Next]_vars => LeakInv'
  <1> SUFFICES ASSUME HandlesInv, LeakInv, [Next]_vars
               PROVE  LeakInv'
    OBVIOUS
  <1>1. CASE connect
    <2>1. PICK c \in Free : /\ client' = c
                            /\ Results(c, RC!NewClient, RC!connect(RC!NewClient),
                                       "systemInfo", "connect")
      BY <1>1 DEF connect, sw_axi_client_connect
    <2>2. c \in Handles
      BY DEF Free
    <2>3. process = "running" /\ frame = Idle /\ client = Null
      BY <1>1 DEF connect, Called
    <2>4. DOMAIN heap = {} /\ sockets = 0
      BY <2>3 DEF LeakInv, Held, OpenSockets, Idle, Waiting
    <2>5. Open(RC!NewClient) = 0
      BY DEF Open, RC!NewClient
    <2> QED
      BY <2>1, <2>2, <2>4, <2>5, CallLeaksNothing, NoValueWithError
  <1>2. CASE registerSlave
    <2>1. ~Waiting /\ frame.data = Null
      BY <1>2 DEF registerSlave, Called, Waiting, Idle
    <2> QED
      BY <1>2, <2>1, ClientCallLeaksNothing, NoValueWithError
         DEF registerSlave, sw_axi_client_register_slave, ClientCall
  <1>3. CASE commitIp
    <2>1. ~Waiting /\ frame.data = Null
      BY <1>3 DEF commitIp, Called, Waiting, Idle
    <2> QED
      BY <1>3, <2>1, ClientCallLeaksNothing, NoValueWithError
         DEF commitIp, sw_axi_client_commit_ip, ClientCall
  <1>4. CASE start
    <2>1. process = "running"
      BY <1>4 DEF start, Called, sw_axi_client_retrieve_peer_info, ClientCall, With
    <2>2. ~Waiting /\ frame.data = Null
      BY <1>4, <2>1 DEF start, Called, Waiting, Idle, HandlesInv, FrameOK
    <2> QED
      BY <1>4, <2>2, ClientCallLeaksNothing, NoValueWithError
         DEF start, sw_axi_client_retrieve_peer_info, ClientCall, Listed
  <1>5. CASE startBlocks
    <2>1. process = "running"
      BY <1>5 DEF startBlocks, sw_axi_client_retrieve_ip_config, ClientCall, With
    <2>2. ~Waiting /\ frame.data = Null
      BY <1>5, <2>1 DEF startBlocks, Waiting, Idle, HandlesInv, FrameOK
    <2> QED
      BY <1>5, <2>2, ClientCallLeaksNothing, NoValueWithError
         DEF startBlocks, sw_axi_client_retrieve_ip_config, ClientCall, Listed
  <1>6. CASE disconnect
    <2>1. process = "running" /\ frame = Idle
      BY <1>6 DEF disconnect, Called
    <2>2. CASE client = Null
      <3>1. client \notin DOMAIN heap
        BY <2>2, HandlesAssumption DEF HandlesInv
      <3>2. process' = "terminated"
        BY <1>6, <2>2, <3>1 DEF disconnect, With
      <3> QED
        BY <3>2 DEF LeakInv
    <2>3. CASE client # Null
      <3> DEFINE c == heap[client].value
      <3>1. client \in DOMAIN heap /\ heap[client].kind = "client"
        BY <2>1, <2>3, ClientIsFound
      <3>2. /\ client' = Null /\ frame' = Idle
            /\ heap' = Delete(heap, client)
            /\ sockets' = sockets - (Open(c) - Open(RC!disconnect(c)))
        BY <1>6, <2>1, <3>1 DEF disconnect, With, sw_axi_client_disconnect
      <3>3. Open(RC!disconnect(c)) = 0
        BY DEF Open, RC!disconnect, RC!NewClient
      <3>4. sockets = Open(c) /\ DOMAIN heap = {client}
        BY <2>1, <2>3 DEF LeakInv, OpenSockets, Held, Waiting, Idle
      <3>5. sockets' = 0
        BY <3>2, <3>3, <3>4, OpenIsBit
      <3>6. DOMAIN heap' = {}
        BY <3>2, <3>4 DEF Delete
      <3> QED
        BY <3>2, <3>5, <3>6 DEF LeakInv, Held, OpenSockets, ValueMeansOk, Waiting, Idle
    <2> QED
      BY <2>2, <2>3
  <1>7. CASE Conversion
    BY <1>7, ConversionDeletes, DeleteLeaksNothing
  <1>8. CASE UNCHANGED vars
    BY <1>8 DEF vars, LeakInv, Held, OpenSockets, ValueMeansOk, convertedOk, Waiting
  <1> QED
    BY <1>1, <1>2, <1>3, <1>4, <1>5, <1>6, <1>7, <1>8
       DEF Next, Methods, Returns, Conversion

\* If the test bench disconnects before it connects again, the heap between
\* two methods holds the client of the bridge and nothing else, and the open
\* sockets are its own, for any lists, sessions and addresses.
THEOREM NoLeak == ASSUME ~Reconnects PROVE Spec => []NothingLeaks
  <1>1. HandlesInv /\ LeakInv => NothingLeaks
    BY DEF LeakInv, Held, OpenSockets, NothingLeaks, Waiting, Idle
  <1>2. HandlesInv /\ LeakInv /\ [Next]_vars => (HandlesInv /\ LeakInv)'
    BY NextHandles, NextLeak
  <1> QED
    BY InitHandles, InitLeak, <1>1, <1>2, PTL DEF Spec
=============================================================================
