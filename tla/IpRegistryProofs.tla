-------------------------- MODULE IpRegistryProofs --------------------------
(***************************************************************************)
(* Proofs about the router's registration tables, for every address space, *)
(* every set of blocks and any number of registrations.                    *)
(***************************************************************************)
EXTENDS IpRegistry, TLAPS

\* Every entry of ipMMap points to a registered block with that address.
MMapPoints ==
    \A a \in Addr : ipMMap[a] # 0 =>
        ipMMap[a] \in DOMAIN ips /\ ips[ipMMap[a]].address = a

\* A block that covers some address is never overwritten in ipMMap.
Kept ==
    \A i \in DOMAIN ips :
        ips[i].size > 0 /\ InSpace(ips[i]) => ipMMap[ips[i].address] = i

IndInv == TypeOK /\ IdIsIndex /\ MMapPoints /\ Kept /\ OverlapsOnlyFromBelow

-----------------------------------------------------------------------------
\* Within the address space a block covers exactly the addresses of its
\* extent; a block that reaches the end of the space covers none.
LEMMA CoversExtent ==
    ASSUME NEW ip \in IpInfo, NEW address \in Addr
    PROVE  Covers(ip, address) <=> InSpace(ip) /\ address \in Extent(ip)
  BY AddrSpaceAssumption DEF Covers, InSpace, Extent, End, Plus, Addr, IpInfo

\* The test for the block's end is exact when neither sum wraps around.
LEMMA SpansExact ==
    ASSUME NEW ip \in IpInfo, NEW address \in Addr, NEW size \in Addr,
           InSpace(ip), address + size < AddrSpace
    PROVE  SpansBoundary(ip, address, size) <=> address + size > End(ip)
  BY AddrSpaceAssumption DEF SpansBoundary, InSpace, End, Plus, Addr, IpInfo

\* Two blocks that overlap without either test of registerIp noticing:
\* the new one starts below the old one and not below the old one's size.
LEMMA UndetectedOverlap ==
    ASSUME NEW ip \in IpInfo, NEW rIp \in IpInfo, InSpace(ip), InSpace(rIp),
           Overlap(rIp, ip), ~Conflicts(ip, rIp)
    PROVE  ip.address < rIp.address /\ rIp.size <= ip.address
  <1>1. PICK a \in Addr : a \in Extent(ip) /\ a \in Extent(rIp)
    BY AddrSpaceAssumption DEF Overlap, Extent, End, InSpace, Addr, IpInfo
  <1>2. ip.address \notin Extent(rIp)
    BY CoversExtent DEF Conflicts, IpInfo
  <1>3. ip.address < rIp.address
    BY <1>1, <1>2 DEF Extent, End, InSpace, Addr, IpInfo
  <1>4. Plus(ip.address, ip.size) > rIp.address
    BY <1>1, AddrSpaceAssumption DEF Extent, End, InSpace, Addr, IpInfo, Plus
  <1>5. QED
    BY <1>3, <1>4 DEF Conflicts, Addr, IpInfo

\* registerIp's two tests never fire for blocks that are apart.
LEMMA ConflictIsOverlap ==
    ASSUME NEW ip \in IpInfo, NEW rIp \in IpInfo, InSpace(ip), InSpace(rIp),
           ip.size > 0, Conflicts(ip, rIp)
    PROVE  Overlap(ip, rIp)
  <1>1. CASE Covers(rIp, ip.address)
    <2>1. ip.address \in Extent(rIp)
      BY <1>1, CoversExtent DEF IpInfo
    <2>2. ip.address \in Extent(ip)
      BY DEF Extent, End, IpInfo, Addr
    <2>3. QED
      BY <2>1, <2>2 DEF Overlap
  <1>2. CASE ~Covers(rIp, ip.address)
    <2>1. ip.address < rIp.size /\ End(ip) > rIp.address
      BY <1>2 DEF Conflicts, End, InSpace, Plus
    <2>2. ip.address < rIp.address
      BY <1>2, <2>1, AddrSpaceAssumption
      DEF Covers, Plus, InSpace, End, IpInfo, Addr
    <2>3. rIp.address \in Extent(ip) /\ rIp.address \in Extent(rIp)
      BY <2>1, <2>2 DEF Extent, End, IpInfo, Addr
    <2>4. QED
      BY <2>3 DEF Overlap
  <1>3. QED
    BY <1>1, <1>2

\* An empty block is refused exactly for the block that its address lies in:
\* the second test finds nothing that the first has not found.
LEMMA EmptyConflicts ==
    ASSUME NEW ip \in IpInfo, NEW rIp \in IpInfo, InSpace(ip), InSpace(rIp),
           ip.size = 0
    PROVE  Conflicts(ip, rIp) <=> ip.address \in Extent(rIp)
  <1>1. Covers(rIp, ip.address) <=> ip.address \in Extent(rIp)
    BY CoversExtent DEF IpInfo
  <1>2. ASSUME ip.address < rIp.size, Plus(ip.address, ip.size) > rIp.address
        PROVE  ip.address \in Extent(rIp)
    BY <1>2, AddrSpaceAssumption DEF Plus, Extent, End, InSpace, IpInfo, Addr
  <1>3. QED
    BY <1>1, <1>2 DEF Conflicts
-----------------------------------------------------------------------------
\* The tables are empty at first.
LEMMA InitIndInv == RegistryInit => IndInv
  BY AddrSpaceAssumption
  DEF RegistryInit, IndInv, TypeOK, IdIsIndex, MMapPoints, Kept,
      OverlapsOnlyFromBelow

\* A refused block leaves the tables alone, except for masterCount.
LEMMA RefuseIndInv ==
    ASSUME IndInv, NEW ip \in Blocks, refuseIp(ip)
    PROVE  IndInv'
  <1>1. TypeOK'
    BY DEF IndInv, TypeOK, refuseIp, countMaster
  <1>2. QED
    BY <1>1 DEF IndInv, refuseIp, IdIsIndex, MMapPoints, Kept,
                OverlapsOnlyFromBelow

\* An accepted block preserves the invariant: it takes the position its id
\* says, and the tests it passed protect the blocks registered before it.
LEMMA AcceptIndInv ==
    ASSUME IndInv, NEW ip \in Blocks, acceptIp(ip)
    PROVE  IndInv'
  <1> DEFINE new == [ip EXCEPT !.id = ipCount]
             n == Len(ips) + 1
  <1>1. ip \in IpInfo /\ new \in IpInfo
    BY BlocksAssumption DEF IpInfo, IndInv, TypeOK
  <1>2. new.address = ip.address /\ new.size = ip.size /\ new.id = ipCount
    BY <1>1 DEF IpInfo
  <1>3. n = ipCount + 1 /\ ipCount \in Nat /\ n \in Nat \ {0}
    BY DEF IndInv, IdIsIndex, TypeOK
  <1>4. /\ ips' = Append(ips, new)
        /\ DOMAIN ips = 1 .. (n - 1) /\ DOMAIN ips' = 1 .. n
        /\ Len(ips') = n
        /\ ips'[n] = new
        /\ \A i \in 1 .. (n - 1) : ips'[i] = ips[i] /\ ips[i] \in IpInfo
    BY <1>1 DEF acceptIp, IndInv, TypeOK
  <1>5. \A i \in 1 .. (n - 1) : ~Conflicts(ip, ips[i])
    BY <1>4 DEF acceptIp, Refused
  <1>6. ip.address \in Addr /\ ipMMap' = [ipMMap EXCEPT ![ip.address] = n]
    BY <1>1, <1>3 DEF acceptIp, IpInfo
  <1>7. ipMMap \in [Addr -> Nat]
    BY DEF IndInv, TypeOK
  <1>8. \A p \in IpInfo : Conflicts(new, p) <=> Conflicts(ip, p)
    BY <1>2 DEF Conflicts
  <1>9. TypeOK'
    <2>1. masterCount' \in Nat
      BY DEF acceptIp, countMaster, IndInv, TypeOK
    <2>2. ips' \in Seq(IpInfo)
      BY <1>1, <1>4 DEF IndInv, TypeOK
    <2>3. ipMMap' \in [Addr -> Nat]
      BY <1>3, <1>6, <1>7
    <2>4. QED
      BY <2>1, <2>2, <2>3 DEF acceptIp, IndInv, TypeOK
  <1>10. IdIsIndex'
    <2>1. ipCount' = Len(ips')
      BY <1>3, <1>4 DEF acceptIp
    <2>2. \A i \in 1 .. (n - 1) : ips'[i].id = i - 1
      BY <1>4 DEF IndInv, IdIsIndex
    <2>3. ips'[n].id = n - 1
      BY <1>2, <1>3, <1>4
    <2>4. QED
      BY <2>1, <2>2, <2>3, <1>3, <1>4 DEF IdIsIndex
  <1>11. MMapPoints'
    <2> SUFFICES ASSUME NEW a \in Addr, ipMMap'[a] # 0
                 PROVE  ipMMap'[a] \in DOMAIN ips' /\ ips'[ipMMap'[a]].address = a
      BY DEF MMapPoints
    <2>1. CASE a = ip.address
      BY <2>1, <1>2, <1>3, <1>4, <1>6, <1>7
    <2>2. CASE a # ip.address
      <3>1. ipMMap'[a] = ipMMap[a]
        BY <2>2, <1>6, <1>7
      <3>2. ipMMap[a] \in 1 .. (n - 1) /\ ips[ipMMap[a]].address = a
        BY <3>1, <1>4 DEF IndInv, MMapPoints
      <3>3. QED
        BY <3>1, <3>2, <1>3, <1>4
    <2>3. QED
      BY <2>1, <2>2
  <1>12. Kept'
    <2> SUFFICES ASSUME NEW i \in 1 .. n, ips'[i].size > 0, InSpace(ips'[i])
                 PROVE  ipMMap'[ips'[i].address] = i
      BY <1>4 DEF Kept
    <2>1. CASE i = n
      BY <2>1, <1>2, <1>4, <1>6, <1>7
    <2>2. CASE i # n
      <3>1. i \in 1 .. (n - 1) /\ ips'[i] = ips[i] /\ ips[i] \in IpInfo
        BY <2>2, <1>3, <1>4
      <3>2. ipMMap[ips[i].address] = i
        BY <3>1, <1>4 DEF IndInv, Kept
      <3>3. ips[i].address # ip.address
        <4>1. ip.address \notin Extent(ips[i])
          BY <3>1, <1>1, <1>5, <1>6, CoversExtent DEF Conflicts
        <4>2. QED
          BY <4>1, <3>1 DEF Extent, End, IpInfo, Addr
      <3>4. QED
        BY <3>1, <3>2, <3>3, <1>6, <1>7 DEF IpInfo
    <2>3. QED
      BY <2>1, <2>2
  <1>13. OverlapsOnlyFromBelow'
    <2> SUFFICES ASSUME NEW i \in 1 .. n, NEW j \in 1 .. n, i < j,
                        InSpace(ips'[i]), InSpace(ips'[j]), Overlap(ips'[i], ips'[j])
                 PROVE  /\ ips'[j].address < ips'[i].address
                        /\ ips'[i].size <= ips'[j].address
      BY <1>4 DEF OverlapsOnlyFromBelow
    <2>1. i \in 1 .. (n - 1) /\ ips'[i] = ips[i] /\ ips[i] \in IpInfo
      BY <1>3, <1>4
    <2>2. CASE j = n
      BY <2>1, <2>2, <1>1, <1>4, <1>5, <1>8, UndetectedOverlap
    <2>3. CASE j # n
      <3>1. j \in 1 .. (n - 1) /\ ips'[j] = ips[j]
        BY <2>3, <1>3, <1>4
      <3>2. QED
        BY <3>1, <2>1, <1>4 DEF IndInv, OverlapsOnlyFromBelow
    <2>4. QED
      BY <2>2, <2>3
  <1>14. QED
    BY <1>9, <1>10, <1>11, <1>12, <1>13 DEF IndInv

\* registerIp preserves the inductive invariant, whatever it is asked.
LEMMA SpecIndInv == Spec => []IndInv
  <1>1. RegistryInit => IndInv
    BY InitIndInv
  <1>2. IndInv /\ [Next]_registryVars => IndInv'
    <2> SUFFICES ASSUME IndInv, [Next]_registryVars
                 PROVE  IndInv'
      OBVIOUS
    <2>1. ASSUME NEW ip \in Blocks, registerIp(ip)
          PROVE  IndInv'
      BY <2>1, RefuseIndInv, AcceptIndInv DEF registerIp
    <2>2. CASE UNCHANGED registryVars
      BY <2>2 DEF registryVars, IndInv, TypeOK, IdIsIndex, MMapPoints, Kept,
                  OverlapsOnlyFromBelow
    <2>3. QED
      BY <2>1, <2>2 DEF Next
  <1>3. QED
    BY <1>1, <1>2, PTL DEF Spec
-----------------------------------------------------------------------------
\* The registration tables always have their types.
THEOREM TypeCorrect == Spec => []TypeOK
  <1>1. IndInv => TypeOK
    BY DEF IndInv
  <1>2. QED
    BY <1>1, SpecIndInv, PTL

\* Ids are positions in Router.ips, which route relies on when it looks an
\* initiator up.
THEOREM IdsAreIndices == Spec => []IdIsIndex
  <1>1. IndInv => IdIsIndex
    BY DEF IndInv
  <1>2. QED
    BY <1>1, SpecIndInv, PTL

\* Which overlaps registerIp's two tests let through, and no others.
THEOREM OverlapBound == Spec => []OverlapsOnlyFromBelow
  <1>1. IndInv => OverlapsOnlyFromBelow
    BY DEF IndInv
  <1>2. QED
    BY <1>1, SpecIndInv, PTL

\* registerIp refuses a block only for its addresses: one that is not empty
\* for a real overlap, and an empty one, such as a master's, exactly when a
\* registered block covers its address.
THEOREM RefusalsAreExplained == Spec => []RefusedForItsAddresses
  <1>1. IndInv => RefusedForItsAddresses
    <2> SUFFICES ASSUME IndInv, NEW ip \in Blocks, NEW i \in DOMAIN ips,
                        InSpace(ip), InSpace(ips[i])
                 PROVE  /\ ip.size > 0 /\ Conflicts(ip, ips[i]) => Overlap(ip, ips[i])
                        /\ ip.size = 0 =>
                             (Conflicts(ip, ips[i]) <=> ip.address \in Extent(ips[i]))
      BY DEF RefusedForItsAddresses
    <2>1. ip \in IpInfo /\ ips[i] \in IpInfo
      BY BlocksAssumption DEF IndInv, TypeOK
    <2>2. QED
      BY <2>1, ConflictIsOverlap, EmptyConflicts
  <1>2. QED
    BY <1>1, SpecIndInv, PTL

\* findTarget finds exactly the registered blocks a transaction fits in,
\* whatever was registered before and in whatever order.
THEOREM FindTargetCorrect == Spec => []FindTargetExact
  <1>1. IndInv => FindTargetExact
    <2> SUFFICES ASSUME IndInv, NEW address \in Addr, NEW size \in Addr,
                        address + size < AddrSpace
                 PROVE  findTarget(ips, ipMMap, address, size) \ {0}
                          = {i \in DOMAIN ips : Fits(ips[i], address, size)}
      BY DEF FindTargetExact
    <2> DEFINE mapped == {ipMMap[a] : a \in Addr} \ {0}
               hits == {p \in mapped : Covers(ips[p], address)}
               fits == {i \in DOMAIN ips : Fits(ips[i], address, size)}
    <2>1. \A i \in DOMAIN ips : ips[i] \in IpInfo /\ i # 0
      BY DEF IndInv, TypeOK
    <2>2. \A p \in mapped : p \in DOMAIN ips
      BY DEF IndInv, MMapPoints
    <2>3. \A i \in DOMAIN ips :
            Covers(ips[i], address) <=> InSpace(ips[i]) /\ address \in Extent(ips[i])
      BY <2>1, CoversExtent
    <2>4. \A i \in DOMAIN ips : Covers(ips[i], address) => i \in mapped
      <3> SUFFICES ASSUME NEW i \in DOMAIN ips, Covers(ips[i], address)
                   PROVE  i \in mapped
        OBVIOUS
      <3>1. ips[i].size > 0 /\ InSpace(ips[i]) /\ ips[i].address \in Addr
        BY <2>1, <2>3 DEF Extent, End, IpInfo, Addr
      <3>2. QED
        BY <3>1, <2>1 DEF IndInv, Kept
    <2>5. hits = {i \in DOMAIN ips : Covers(ips[i], address)}
      BY <2>2, <2>4
    <2>6. \A p \in hits :
            SpansBoundary(ips[p], address, size) <=> ~Fits(ips[p], address, size)
      <3> SUFFICES ASSUME NEW p \in hits
                   PROVE  SpansBoundary(ips[p], address, size)
                            <=> ~Fits(ips[p], address, size)
        OBVIOUS
      <3>1. ips[p] \in IpInfo /\ InSpace(ips[p]) /\ address \in Extent(ips[p])
        BY <2>1, <2>3, <2>5
      <3>2. SpansBoundary(ips[p], address, size) <=> address + size > End(ips[p])
        BY <3>1, SpansExact
      <3>3. QED
        BY <3>1, <3>2 DEF Fits, End, IpInfo, Addr
    <2>7. fits = {p \in hits : ~SpansBoundary(ips[p], address, size)}
      BY <2>3, <2>5, <2>6 DEF Fits
    <2>8. findTarget(ips, ipMMap, address, size)
            = IF hits = {} THEN {0}
              ELSE {IF SpansBoundary(ips[p], address, size) THEN 0 ELSE p : p \in hits}
      BY DEF findTarget
    <2>9. 0 \notin hits
      OBVIOUS
    <2> HIDE DEF hits, fits
    <2>10. findTarget(ips, ipMMap, address, size) \ {0} = fits
      BY <2>7, <2>8, <2>9
    <2>11. QED
      BY <2>10 DEF fits
  <1>2. QED
    BY <1>1, SpecIndInv, PTL
=============================================================================
