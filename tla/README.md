# sw-axi: a TLA+ verification project

sw-axi connects software and simulated hardware over a bus that is carried by
sockets. A *router* (Go) accepts a fixed number of *clients*; a client is a
C++ `Bridge` (or its SystemVerilog counterpart) that registers IP blocks,
slaves with an address range and masters without one, and then exchanges read
and write transactions with the blocks of other clients.

This directory holds TLA+ models of that system, TLC configurations that check
them on small instances, and proofs that TLAPS checks. `PROJECT.json` maps
every definition to the source lines it models and lists runs, mutants,
findings, hazards and theorems.

## Inventory

| Component | Source | State | Operations | Model |
|---|---|---|---|---|
| Address map | `router.go` 99-151 | none (pure) | overlap test, `findTarget` | `AddressMap` |
| IP registry | `router.go` 70-119 | `ips`, `ipCount`, `masterCount`, `ipMMap` | `registerIp` | `IpRegistry` |
| Queue | `Queue.hh` | the queue, `done`, waiter | `push`, `pop`, `finish` | `Queue`, `QueueThreads` |
| Router handshake | `router.go` 210-268, `client.go` 74-276 | accepted clients, position of `Run`, the tables | accept, `shakeHands`, `receiveIpInfo`, `commit` | `Handshake` |
| Router client | `RouterClient.cc` | `state`, socket | `connect`, `registerIp`, `commitIp`, the retrieve and send calls, `disconnect` | `RouterClient`, `Handshake` |
| Bridge life cycle | `SwAxi.cc` 65-187 | `routerInfo`, maps, lists, thread objects, queue | constructor, `connect` to `start`, `waitForCompletion`, `enumerateIp`, `enumeratePeers`, `disconnect`, destructor | `Bridge`, `Handshake` |
| Router traffic | `router.go` 121-208, 270-280, `client.go` 278-311 | goroutines, channels, `masterCount` | `route`, `sendDone`, `reader`, `writer` | `Traffic` |
| Bridge traffic | `SwAxi.cc` 27-63, 142-306, `RouterClient.cc` 368-525 | threads, queue, `masterMap`, `slaveMap` | `read`, `write`, `terminate`, `reader`, `writer`, `waitForCompletion` | `Traffic` |
| Message framing | `Utils.cc`, `client.go` 47-72 | none | `readFromSocket`, `writeToSocket`, `readMsg`, `writeMsg` | `Framing`, `Channel` |
| SystemVerilog bridge | `sim/` | client handle, C++ objects, lists | the handshake through DPI | `SvBridge` |
| Wire format | `IpcStructs.fbs`, generated code | none | encode, decode | its effects only |
| Command line, printing | `main.go`, `Data.cc` | none | flags, formatting | no |

How they interact. The application calls a `Bridge`. During the handshake a
call is a request on the client's socket and a wait for the answer; the router
serves one client after the other, so the calls of a later client wait. After
`start` an application thread pushes transactions to the bridge's queue; the
writer thread pops them, gives requests an id, records them in
`masterMap[..].txns` and sends them. In the router a reader goroutine per
client hands each message to `route` over an unbuffered channel, `route` picks
the client and hands the message to that client's writer goroutine, again over
an unbuffered channel. The bridge's reader thread calls the slave for a
request and pushes the response to the same queue, or fulfils the promise for
a response. When the last master is terminated `route` sends DONE to every
client; each reader calls `queue.finish`, each writer answers DONE, and the
router waits for all its goroutines.

What is hard. The queue's condition variable; the order of recording and
sending a request; a transaction that crosses seven threads; bounded sockets
between threads that block on each other; a shutdown that counts on every
participant; a client that dies at any moment; messages that travel in
pieces; a bridge object that is used for a second session with what the first
one left behind; C++ objects that are owned across a language boundary; the protocol of the handshake,
in which the router sends lists before they are asked for; wrap-around of
addresses. `PROJECT.json` lists each hazard at its line.

What makes each part correct. *Registry*: ids are positions; a transaction goes
to exactly the block it fits in; blocks do not overlap. *Queue*: FIFO, no lost
wake-up, `pop` ends after `finish`. *Handshake*: both sides agree on the
message that comes next, every started bridge has the same complete lists, the
tables do not change once somebody is committed, every call returns.
*Traffic*: an operation is answered exactly once, reads see the writes before
them, a reported success is one, the system shuts down. *Framing*: whole
messages arrive once and in order whatever the pieces, and the end of the
stream is seen. *Bridge*: every session starts afresh, no deleted slave is
called, `waitForCompletion` returns. *SystemVerilog bridge*: every object is
deleted once and not used afterwards.

## Plan

1. `AddressMap`, `IpRegistry` with proofs (done).
2. `Queue`, `QueueThreads` with proofs (done).
3. `Traffic`: the started system (done).
4. `Handshake` (done), which INSTANCEs `IpRegistry`.
5. `Channel` and `Framing` (done): the byte stream implements the atomic
   messages that 3 and 4 assume.
6. `Bus` (done): operations on memories, performed once and in order;
   `Traffic` implements it.
7. `RouterClient`, `Bridge` and `SvBridge` (done): reuse and teardown of a
   bridge, and the DPI wrapper.
8. Proofs of `Handshake`, `Bridge` and `SvBridge` (done).
9. Proofs of `Traffic` (types, at most one copy of a transaction, honest
   completion) and of `Framing` (it implements `Channel`) (done).
10. Proofs of `Traffic` when nobody dies (nothing is lost, no reader fails, the
   router ends cleanly) (done).
11. Proof that `Traffic` implements `Bus`, for one master and one slave (done).

## Modules

`AddressMap` - pure operators. `AddrSpace` stands for 2^64 and `Plus` for the
sum of two uint64 values. `findTarget` returns the set of possible results,
since Go iterates over a map in any order.

`IpRegistry` (run module `MCIpRegistry`, proofs `IpRegistryProofs`) - the
router's tables and `registerIp`, split into `acceptIp` and `refuseIp`;
`masterCount` is incremented in both, as in the code.

`Queue` - the value of a queue and what each stretch of code under its mutex
does to it. `QueueThreads` (`MCQueueThreads`, `QueueThreadsProofs`) - producers,
the caller of `finish`, the consumer, and spurious wake-ups. `push` and `finish`
are two steps each because they notify after unlocking.

`Handshake` (`MCHandshake`, `HandshakeProofs`) - `rpc`, `cur` and `todo` are the position in
`Router.Run`; `call` is the call an application is in and `state` is
`RouterClient::state`. A socket is a pair of sequences; `sock` says whether the
client's end is open, `rpc = "failed"` that the router's end is closed. Calls
that are refused because of `state` change nothing and are left out, except
`start`, which disconnects. A write to a router that has gone raises SIGPIPE
and ends the client's process.

`RouterClient` - the calls of the C++ client as pure operators: from a client's
state and socket, the set of what the call may return. `Bridge` and `SvBridge`
are built on it; `CallsAsPromised` in `Handshake` checks that the calls played
through with a router, message by message, stay within it.

`Bridge` (`BridgeProofs`) - one `Bridge` object over several sessions. An object that a session
makes is named by the session's number, so that what is left of an earlier one
can be told apart. The application calls what it likes; with `Orderly` it waits
for the threads before it closes the bridge and closes it before it connects
again. With `Faults` the router refuses, dies, or sends requests and responses
that are not for this bridge. `Broken` gives a future whose promise is destroyed.
A joinable `std::thread` that is destroyed or assigned to ends the process.

`SvBridge` (`SvBridgeProofs`) - the SystemVerilog `Bridge` and the functions of `bridge.cc`. `heap`
is what C++ has allocated for it, by handle; a handle may be used again for a
new object after its object was deleted. `frame` is the method that is running
with its local handles.

`Framing` (`MCFraming`, `FramingProofs`) and `Channel` - one direction of one socket. `direction`
says which side's functions are at the two ends: C++ writes and Go reads, or the
other way round. A size is written at once, since a socket has room for
eight bytes when it takes any. `Channel` is what `Handshake` and `Traffic` take
for granted of a socket.

`Bus` - the abstract specification of the started system. The operations `ops`
and the memories `mem` of `Traffic` are its own; `outcome` is mapped to the
responses on their way in queues, sockets and goroutines.

`Traffic` (`MCTraffic`, `TrafficProofs`, `TrafficOneMasterProofs`) - starts where `Handshake` ends. The constant `Ips` is
the router's table with the owner of each block; the assumption on it is what
`registerIp` guarantees. One action is a stretch of code between two accesses to
shared state; an unbuffered channel is one step of sender and receiver.
`ClientId(p)` is 0 because `newClient` drops its argument. `MutateTarget`
leaves a target of 0 alone because the field is absent from the message then.
The slave is the memory of test 02 with addresses at which it fails. The
application waits for its operations before it terminates a master unless
`EarlyTerminate`; `Crashing` clients may die.

Definitions marked *Mistake* are variants of the definition that follows them,
used to show that the properties notice such a change.

## Runs

Passing runs:

| Run | Instance and bounds | Shows |
|---|---|---|
| `ip_registry` | 8 addresses, all blocks of size 0, 2, 3 and a master, 3 registrations | `IdIsIndex`, `FindTargetExact`, `OverlapsOnlyFromBelow`, `RefusedForItsAddresses` |
| `queue` | 2 producers, 3 elements each | `FifoOrder`, `NoLostPush`, `PushedIsPopped`, `FinishWakesWaiter` |
| `traffic` | test 02 and a second client without blocks, 2 operations over five buffers, sockets of 1 message | `EveryRequestOnce`, `NoReaderError`, `CleanExit`, `CompletionIsHonest`, `Completes`, `BusSpec` |
| `traffic_load` | the only client of test 02, 6 operations (writes and reads by turns) on one cell, sockets of 1 message | `OperationsComplete` |
| `traffic_faults` | a master in each of two clients, the slave is not the first block, both clients may die | `AtMostOnce`, `FailureIsSeen` |
| `handshake` | two bridges, one may quit or die, the router may die; up to 2 of 3 blocks each, two of which overlap | `NoUnexpectedMessage`, `StartedKnowsAll`, `IdsArePartitioned`, `MasterCountIsExact`, `RegistryIsFrozen`, `CallsAsPromised`, `CallsReturn` |
| `framing` | both directions, 3 messages of 0 to 3 bytes, a byte has 2 values, a size 2 bytes, a socket 4 | `InStep`, `ChannelSpec`, `Delivered`, `EofIsSeen` |
| `bridge` | 2 sessions of an orderly application with faulty routers, lists of 1, 1 operation, 1 request from elsewhere | `SessionIsItsOwn`, `NoUseAfterFree`, `NeverAborts`, `EarlyLogoutIsStale`, `WaitReturns`, `OperationsEnd` |
| `sv_bridge` | 2 connections, lists of 2, 4 handles | `NoDanglingHandle`, `TerminatesOnlyWithoutClient`, `NothingLeaks` |

The bounds. Overlap is a relation of two blocks, so three registrations show a
third block's effect on it, and 8 addresses leave room for blocks that end at
and past the end of the space. Sockets of one message make every blocking that
larger ones make, sooner. Two outstanding operations are the case of test 02
and show overtaking. `traffic_load` has six: that many messages fit between the
application and `route` going out and coming back. In the worst state of the run
both sockets are full, the router's reader waits to hand a request to `route`,
`route` to hand one to the writer goroutine, the writer goroutine to write, and
the bridge's writer to send; only the bridge's reader can move. With fewer
operations some of these can always move, and the property would say nothing of
a reader that waits as well. Which operations are issued is the
application's choice; `AlternatingSpec` fixes it so that the run is small enough.
The
buffers reach both cells, the failing cell, the end of the block and no block.
Two clients are the default of the router. A byte of two values and a size of two
bytes give bodies that look like sizes, sizes that span bytes and a message
longer than the socket. Two sessions are the least that one can leave something
to the other. A method of the SystemVerilog bridge holds at most three objects
at a time, so with four handles one can stay unused or be used again.

Runs that find a disagreement between the code and what it says of itself:

| Run | What happens |
|---|---|
| `queue_finish` | `finish` between two calls of `pop` is lost and the consumer waits forever (`Queue.hh` 42) |
| `early_terminate` | a read outstanding at `terminate` is never answered; `waitForCompletion` says success |
| `bridge_reuse` | in the second session of a bridge the writer logs out at once because `done` is still set; the session's operations are never answered |

More disagreements of this kind, each with a configuration that shows it but
is not one of the listed runs:

| Configuration, module | What happens |
|---|---|
| `IpRegistryOverlap.cfg`, `MCIpRegistry` | a block that starts below a registered one and runs into it is accepted (`router.go` 108); `OverlapsOnlyFromBelow` says how far this goes |
| `TrafficRemoteSlave.cfg`, `MCTraffic` | a request for a slave of client 1 is sent to client 0 (`client.go` 318), although `findTarget` promises "the IP ID and the Client ID of the IP block" |
| `TrafficTwoSlaves.cfg`, `MCTraffic` | a request for the second slave carries target 0 (`router.go` 199) |
| `TrafficTwoMasters.cfg`, `MCTraffic` | terminating one of two masters ends the router (`router.go` 158-171) |
| `HandshakeInterrupts.cfg`, `MCHandshake` | interrupts of a block are not sent to the router (`RouterClient.cc` 140) |
| `FramingEof.cfg`, `MCFraming` | `readFromSocket` never returns when the router ends in mid-message (`Utils.cc` 42); `EofIsSeen` says that this is the only case |
| `BridgeAbort.cfg`, `Bridge` | a started bridge that is destroyed without `waitForCompletion`, as in test 01, ends the process (`SwAxi.cc` 67) |
| `BridgePeers.cfg`, `Bridge` | a bridge in its second session lists the peers of the first (`SwAxi.cc` 176) |
| `BridgeRouterInfo.cfg`, `Bridge` | after a refused registration `getRouterInfo` describes a closed connection (`RouterClient.cc` 195, `SwAxi.hh` 135) |

`Completes` and `FailureIsSeen` hold up to the lost call of `finish` that
`queue_finish` shows: their statements name that state, `LostFinish`. In the same
way `WaitReturns` and `OperationsEnd` name `LoggedOutEarly`, the state that
`bridge_reuse` shows, and `EarlyLogoutIsStale` says that only a bridge that is
used again can be in it; `EofIsSeen` names `Spinning`.

The loop of `readFromSocket` that `FramingEof.cfg` shows is in every model in which
a router can die. A router that ends by `log.Fatalf` while one of its goroutines is
between the two writes of `writeMsg` leaves the bridge it was writing to in that
loop: `receiveSpin` in `Traffic` and `Bridge`, `answerSpins` in `Handshake`. A message is
one step in these models, so the steps are enabled when the router was about to
write a message to that bridge and has ended, next to the steps that report an
error. The liveness properties name that state: `FailureIsSeen` excepts a client
that is `Spinning`, and only that client; `CallsReturn` a call that is in the loop
while the router was writing to its bridge; `WaitReturns` and `OperationsEnd` a
reader that is `Spinning`. `Bridge` leaves the loop when the application closes the
socket under the reader. `RouterClient` is about what calls return, so it and
`SvBridge`, which has no liveness property, say nothing of a call that does not;
its caller then takes no further step.

## Fairness

Weak fairness of each thread and goroutine: the operating system and the Go
scheduler run what can run. For the liveness of `Traffic` the application
terminates its masters once their operations are answered, and for that of
`Handshake` it goes on to `start`; in `Bridge` it terminates its masters, and a
router answers and sends DONE when it can, or dies, but no call that waits for the
router is assumed to return; nobody has to issue an operation, register a
block, quit or die, and no spurious wake-up is assumed. Weak fairness of `route`
as a whole is enough because each client sends finitely many messages.

## Proofs

For every address space, every set of blocks and any number of registrations
(`IpRegistryProofs`): `TypeOK`, `IdIsIndex`, `FindTargetExact`,
`OverlapsOnlyFromBelow` and `RefusedForItsAddresses`. The last one says what
makes the overlap test refuse a block that does not wrap around: one that covers
addresses only when one of them is taken, an empty one, as `registerMaster` sends,
exactly when its address is taken. It follows from the types of the registered
blocks. The inductive invariant adds
two facts to the first two and the fourth: every entry of `ipMMap` is the
position of a block at that address, and every block that covers an address is
still in `ipMMap`. The second is what `FindTargetExact` needs: `registerIp`
overwrites an entry only when the older block covers nothing, because a block
that covers its own address makes `registerIp` refuse. It uses the assumptions
that `AddrSpace` is positive and that blocks are well typed.

For any set of producers and any number of elements (`QueueThreadsProofs`):
`TypeOK`, `FifoOrder` and `NoLostPush`, which are inductive together. The step of `pop` rests on two lemmas on concatenation.

The types of `IpRegistry` and `QueueThreads` are proved and not model-checked.

For any number of bridges and of clients that the router waits for, any blocks
on offer and any deaths of bridges and router (`HandshakeProofs`): `TypeOK`,
`NoUnexpectedMessage`, `StartedKnowsAll`, `IdsArePartitioned`,
`MasterCountIsExact`, `RegistryIsFrozen` and `CallsAsPromised`, the refinement of
`RouterClient`'s calls. None of them is inductive: that a client finds only
messages it can deal with depends on where `Router.Run` is in its loops, and
what the router finds depends on the call the application is in. The inductive
invariant describes each socket from both ends: `ClientInv` (from the call, what
may be on the way to the bridge; to one that listens, the next part of the lists
of `client.commit`) and `RouterInv` (from `rpc` and `cur`, what the bridge may have
sent: its name, then a block or `COMMIT`, then nothing). `PlacesInv` keeps the
connections apart, `TodoInv` and `KnowsInv` say how far the lists have been sent and
read, `OwnersInv` who owns which id, counting a block whose acknowledgement is
still on the way, and `CountInv` that `masterCount` is too high only when `Run` is
about to fail. A bridge that has died constrains only what it left on its
socket. The assumptions are that the blocks on offer are well typed
(`OffersAssumption`) and that the number of clients is positive
(`BoundsAssumption`).

For lists of any length, any number of sessions, operations and requests, and
routers with and without faults (`BridgeProofs`): `NoUseAfterFree`, `NeverAborts`,
`SessionIsItsOwn` and `EarlyLogoutIsStale`, all under the hypothesis `Orderly`
(the application waits for the threads before it closes the bridge and closes it
before it connects again); without it `BridgeAbort.cfg` shows `NeverAborts`
violated. The inductive invariant ties the threads to the main thread
(`ThreadsInv`: no threads unless the application has still to wait for them), the
client's state to the threads (`ClientInv`), the lists to what the router has yet
to send (`ListsInv`), every slave that can be found or is in use to its owner
(`SlavesInv`) and `done` of the queue to the session (`DoneInv`). It has been
model-checked on the instance of `Bridge.cfg`.

For any handles, lists and sessions (`SvBridgeProofs`): `NoDanglingHandle` and
`TerminatesOnlyWithoutClient`, and `NothingLeaks` for a test bench that
disconnects before it connects again (`~Reconnects`). The invariant says, for
each step of a method, which handles the simulator's side holds and that the
heap holds exactly these.

For any clients, blocks, buffers and number of operations, and with clients that
die anywhere (`TrafficProofs`): `TypeOK`, `AtMostOnce`, and `CompletionIsHonest`
under the hypothesis `~EarlyTerminate`, without which `TrafficEarlyTerminate.cfg`
shows it violated. Three inductive invariants carry them. `Shape` types every
variable and adds what the types need: a transaction on the way is addressed to
`ClientId`, which is 0, and a write carries as many cells as its size says.
`PlacesInv` is about spots (a position in a queue or a socket, or the hands of a
writer or a goroutine): no transaction is in two spots (`Apart`), every one in a
spot waits in `txns` (`Known`), and its id has been handed out (`FreshIds`), so
that a new one meets no copy. Each step only moves the content of spots to empty
ones, one to one, or drops it. `HonestInv` follows the end of the traffic
backwards: every operation of a terminated master is answered (`Answered`), a
termination on the way is that of a terminated master (`TerminationsInv`), no
`DONE` is on the way and no reader has seen one before all masters are terminated
(`DoneInv`; the router ends at the first termination it gets when there are
more masters), and `waitForCompletion` returns only after the reader has ended
(`JoinedInv`). All three have been model-checked
on the instances of `TrafficTwoMasters.cfg`, `TrafficTwoSlaves.cfg` and
`TrafficRemoteSlave.cfg`. The assumptions are those at the head of `Traffic`.

With the same generality (`TrafficOneMasterProofs`): every request in a queue, in
the hands of a writer or in `txns` is for an operation that the application still
waits for, and no two are for the same one (`PendingInv`, theorem
`PromisesWait`); so an operation that has been answered is never touched again
(`AnsweredOnce`).

The three properties of `Traffic.cfg` that are not true of every system are proved
under the hypothesis `OneMaster` (`TrafficOneMasterProofs`): there is one master, it
belongs to the first client, the first block is a slave of the first client, no
master is terminated early and nobody dies. `MCTest02` and `MCTwoSlaves` are such
systems; the number of clients, the other slaves and their owners, the
buffers, the number of operations and the sizes of the sockets are arbitrary. Then
no reader ends with an error (`ReadersEndWell`: `NoReaderError`), the router leaves
nothing behind (`RouterEndsCleanly`: `CleanExit`), and a transaction is in exactly
one place while its promise waits (`NothingIsLost`: `EveryRequestOnce`). The
inductive invariant `CalmInv` adds to the four above: a goroutine keeps a message
only to hand it over (`HandsInv`); in both directions of a socket DONE is the last
message, and it follows the threads on its way (`ThreadsInv`: a bridge's reader
ends before its writer logs out, and a router's reader after that); clients other
than the first have no traffic (`IdleInv`); before the router has got the
termination there is no DONE anywhere (`NoDoneYet`); and the termination is alone
on its way, since the master waits for its operations before it (`TokenInv`). The
last one is why nothing can be behind a DONE. `NotLost` says that what waits in
`txns` is in a spot; for each action it is shown where the content of each spot
goes. All of them have been model-checked before they were proved.

The last part of `TrafficOneMasterProofs` proves the refinement of `Bus`
(`SystemIsBus`: `BusSpec`) under `OneMaster` and `PlainBlocks`: the first block is the
only slave, the master's block is empty, no buffer is, and neither the slave's
block nor a buffer reaches the end of the address space. Both hold of `MCTest02`
with `MCBuffers`; the number of idle clients, the block, the buffers, the faulty
addresses, the number of operations and the sizes of the sockets are arbitrary.
`PlainBlocks` is needed: with a second slave the first one answers for both
(`TargetIsSet`), and `findTarget` lets a transaction that wraps around through.
The initial states map to initial states, and every step is a step of the bus or
leaves it alone: `issue` is `Issue`, `receiveRequest` is `Perform` (`ReceiveIsPerform`),
`routeRequest` is `Reject` when it finds no target (`RouteIsReject`), and
`receiveResponse` is `Answer` (`ReceiveIsAnswer`). Besides `CalmInv` and `NotLost` this
takes `BusInv`. The transactions of the client stand in one line, from its queue
through the router to its reader. In it, those that have been at the slave and
those that have not are each in the order of their ids, and the former are the
older ones (`OrderInv`); this is what makes the memory see operations in the order
of issue and answers come in that order, although a rejection overtakes. A request
asks for what its operation says, and a response tells what the bus would
(`MeansInv`, `AsksInv`); operations pass the queue, the writer and `txns` in their
order (`TicketsInv`). These too have been model-checked first, on `MCTest02` with
three operations.

For all messages, any width of a size, any capacity and any number of messages
(`FramingProofs`): `ChannelSpec`, the refinement of `Channel`. The inductive
invariant says what `InStep` says, in a form without recursion: the bytes taken
by the reader and those in the stream are a chain of strings, each of which is
the encoding of a message in transit followed by the next string, and the last
is what has been written of an unfinished message. A new piece is appended to
all strings of the chain, a message that is read is its first link. From it
follow that the header is never read short, that a body that is complete is
that of the first message in transit, and that at the end of the stream nothing
is in transit. The hypothesis `RoundTrip` - `Uint64` gives back what `PutUint64`
was given - needs an induction over the bytes and stays a hypothesis; TLC
evaluates it on the instance of `MCFraming`.

Only model-checked: `InStep` of `Framing`, which is stated with a recursive
concatenation (its content is the invariant of `FramingProofs`), and all liveness
properties, which are out of the prover's reach.

## Not modelled

Names, implementation types, log output and the text of errors, which decide
nothing. The path of the socket: `connect` fails with an unsupported URI, but
the truncation of a long path (`RouterClient.cc` 51-63) is left out. Interrupts
have no code beyond the fields of the messages. The encoding of messages by
flatbuffers, of which only the effects on default values are in the models.
`printIpConfig`, `Data.cc` and `main.go`, which format and parse flags. The slaves
of `axi4lite.sv`, whose methods are empty.

What the modules leave to each other. `Bridge` has messages arrive at once, makes
a call of the queue one step and has no spurious wake-ups: `Traffic` and
`QueueThreads` have these. An application of `Bridge` that is not `Orderly` races
with the threads on `slaveMap`, `masterMap` and the socket without a lock; only
its end by `std::terminate` is looked at. A test bench of `SvBridge` disconnects
before it connects again (`Reconnects`): `connect` overwrites the handle of a
client that is connected, which is then lost with its socket. `Handshake` has one
connection per bridge. That the outcomes of `RouterClient` include what happens
in `Handshake` is checked, not that each of them happens there.
