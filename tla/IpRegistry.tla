----------------------------- MODULE IpRegistry -----------------------------
(***************************************************************************)
(* The tables in which the router records the IP blocks of its clients:    *)
(* Router.ips, ipCount, masterCount and ipMMap, and the one operation that *)
(* changes them, Router.registerIp.  Router.Run calls it for every IP_INFO *)
(* message and goes on after a refusal.                                    *)
(***************************************************************************)
EXTENDS AddressMap, FiniteSets

CONSTANTS Blocks,       \* the blocks that clients ask to register
          MaxIps        \* bound: blocks registered and masters counted

\* An IpInfo as receiveIpInfo builds it: Id is 0 until registerIp sets it.
\* Name and Implementation decide nothing in the router and are left out;
\* interrupts stands for FirstInterrupt and NumInterrupts.
IpInfo == [address : Addr, size : Addr, interrupts : Nat, type : IpTypes,
           id : Nat, clientId : Nat]

ASSUME BlocksAssumption == Blocks \subseteq IpInfo

VARIABLES ips,          \* Router.ips, in order of registration
          ipCount,      \* Router.ipCount, the next id
          masterCount,  \* Router.masterCount
          ipMMap        \* Router.ipMMap: position in ips, 0 for no entry

registryVars == <<ips, ipCount, masterCount, ipMMap>>

RegistryInit ==
    /\ ips = <<>>
    /\ ipCount = 0
    /\ masterCount = 0
    /\ ipMMap = [a \in Addr |-> 0]

\* Some block already registered makes registerIp refuse ip.
Refused(ip) == \E i \in DOMAIN ips : Conflicts(ip, ips[i])

\* masterCount++ happens before the overlap tests, so also on a refusal.
countMaster(ip) ==
    masterCount' = IF ip.type \in MasterTypes THEN masterCount + 1 ELSE masterCount

\* Mistake: a refused block uses up an id.
refuseIpCounting(ip) ==
    /\ Refused(ip)
    /\ countMaster(ip)
    /\ ipCount' = ipCount + 1
    /\ UNCHANGED <<ips, ipMMap>>

\* registerIp returns an error and leaves the tables alone.
refuseIp(ip) ==
    /\ Refused(ip)
    /\ countMaster(ip)
    /\ UNCHANGED <<ips, ipCount, ipMMap>>

\* registerIp gives ip the next id and enters it in both tables; ipMMap is
\* keyed by address, so an older entry at the same address is overwritten.
acceptIp(ip) ==
    /\ ~Refused(ip)
    /\ countMaster(ip)
    /\ ips' = Append(ips, [ip EXCEPT !.id = ipCount])
    /\ ipCount' = ipCount + 1
    /\ ipMMap' = [ipMMap EXCEPT ![ip.address] = ipCount + 1]

registerIp(ip) == acceptIp(ip) \/ refuseIp(ip)

Next ==
    /\ ipCount < MaxIps
    /\ masterCount < MaxIps
    /\ \E ip \in Blocks : registerIp(ip)

Spec == RegistryInit /\ [][Next]_registryVars
-----------------------------------------------------------------------------
\* The end of a block in the integers, and whether it fits below 2^64.  A
\* block for which it does not is never the target of a transaction: its
\* end wraps around and Covers is false of every address.
End(ip) == ip.address + ip.size

InSpace(ip) == End(ip) < AddrSpace

\* The addresses of a block.
Extent(ip) == ip.address .. (End(ip) - 1)

Overlap(p, q) == Extent(p) \cap Extent(q) # {}

\* The transaction [address, address+size) starts in ip and stays within it.
Fits(ip, address, size) ==
    InSpace(ip) /\ address \in Extent(ip) /\ address + size <= End(ip)

\* The registry's variables have their types.
TypeOK ==
    /\ ips \in Seq(IpInfo)
    /\ ipCount \in Nat
    /\ masterCount \in Nat
    /\ ipMMap \in [Addr -> Nat]

\* An id is the position of its block: route looks the initiator of a
\* transaction up as r.ips[txn.Initiator()] and a terminated master as
\* r.ips[msg.IpId()].
IdIsIndex ==
    /\ ipCount = Len(ips)
    /\ \A i \in DOMAIN ips : ips[i].id = i - 1

\* findTarget sends a transaction that does not wrap around to exactly the
\* blocks it fits in: no block that registerIp accepted has been overwritten
\* in ipMMap by a later one, none answers for an address outside it, and
\* a transaction past the end of its block is refused.
FindTargetExact ==
    \A address, size \in Addr :
        address + size < AddrSpace =>
            findTarget(ips, ipMMap, address, size) \ {0}
                = {i \in DOMAIN ips : Fits(ips[i], address, size)}

\* What registerIp guarantees about two overlapping blocks: the later one
\* starts below the earlier one, at or above the earlier one's size (the
\* second test compares ip.Address with rIp.Size, not with rIp.Address).
OverlapsOnlyFromBelow ==
    \A i, j \in DOMAIN ips :
        /\ i < j
        /\ InSpace(ips[i]) /\ InSpace(ips[j])
        /\ Overlap(ips[i], ips[j])
        => ips[j].address < ips[i].address /\ ips[i].size <= ips[j].address

\* What makes registerIp refuse a block: one that is not empty is refused only
\* for an overlap, and an empty one (registerMaster sends address 0 and size
\* 0) exactly when its address lies in a registered block, so that a master is
\* refused when a slave covers address 0.
RefusedForItsAddresses ==
    \A ip \in Blocks : \A i \in DOMAIN ips :
        InSpace(ip) /\ InSpace(ips[i]) =>
            /\ ip.size > 0 /\ Conflicts(ip, ips[i]) => Overlap(ip, ips[i])
            /\ ip.size = 0 => (Conflicts(ip, ips[i]) <=> ip.address \in Extent(ips[i]))

\* The error text of registerIp, "Address space overlaps with already
\* registered IP block", says that registered blocks do not overlap.
NoOverlap ==
    \A i, j \in DOMAIN ips :
        i # j /\ InSpace(ips[i]) /\ InSpace(ips[j]) => ~Overlap(ips[i], ips[j])
=============================================================================
