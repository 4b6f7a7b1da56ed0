----------------------------- MODULE AddressMap -----------------------------
(***************************************************************************)
(* The address arithmetic of the router: when a block covers an address,   *)
(* when a new block is refused because of an old one (Router.registerIp)   *)
(* and which block a transaction is sent to (Router.findTarget).  The      *)
(* operators are pure; IpRegistry keeps the router's tables.               *)
(*                                                                         *)
(* Addresses and sizes are uint64 in the code, so every sum wraps around   *)
(* at AddrSpace = 2^64.  A model uses a small AddrSpace, which keeps the   *)
(* wrap-around within reach.                                               *)
(***************************************************************************)
EXTENDS Integers, Sequences

CONSTANT AddrSpace      \* the number of addresses: 2^64 in the code

ASSUME AddrSpaceAssumption == AddrSpace \in Nat \ {0}

Addr == 0 .. AddrSpace - 1

\* The sum of two uint64 values.
Plus(a, b) == IF a + b < AddrSpace THEN a + b ELSE (a + b) - AddrSpace

IpTypes == {"SLAVE", "SLAVE_LITE", "SLAVE_STREAM",
            "MASTER", "MASTER_LITE", "MASTER_STREAM"}

MasterTypes == {"MASTER", "MASTER_LITE", "MASTER_STREAM"}

\* address >= rIp.Address && address < (rIp.Address+rIp.Size)
Covers(rIp, address) ==
    address >= rIp.address /\ address < Plus(rIp.address, rIp.size)

\* Mistake: without the test for a block that starts inside another.
ConflictsFromBelow(ip, rIp) ==
    ip.address < rIp.size /\ Plus(ip.address, ip.size) > rIp.address

\* Mistake: adjacent blocks count as overlapping.
ConflictsTouching(ip, rIp) ==
    \/ Covers(rIp, ip.address)
    \/ ip.address < rIp.size /\ Plus(ip.address, ip.size) >= rIp.address

\* The two tests by which registerIp refuses ip because of a registered rIp.
Conflicts(ip, rIp) ==
    \/ Covers(rIp, ip.address)
    \/ ip.address < rIp.size /\ Plus(ip.address, ip.size) > rIp.address

\* Mistake: a transaction may not reach the end of its block.
SpansBoundaryStrict(ip, address, size) ==
    Plus(address, size) >= Plus(ip.address, ip.size)

\* Whether a transaction that starts in block ip runs past the block's end.
SpansBoundary(ip, address, size) ==
    Plus(address, size) > Plus(ip.address, ip.size)

\* The results findTarget may return, as positions in ips; 0 is an error.
\* ipMMap[a] is the position of the block mapped at a, 0 if there is none.
\* Go iterates over a map in an unspecified order and the loop stops at the
\* first block that covers the address, so every such block is a possible
\* answer.
findTarget(ips, ipMMap, address, size) ==
    LET hits == {p \in {ipMMap[a] : a \in Addr} \ {0} : Covers(ips[p], address)}
    IN  IF hits = {}
        THEN {0}
        ELSE {IF SpansBoundary(ips[p], address, size) THEN 0 ELSE p : p \in hits}
=============================================================================
