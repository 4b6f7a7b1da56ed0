---------------------------- MODULE MCIpRegistry ----------------------------
(***************************************************************************)
(* A small instance of IpRegistry: every block of the sizes 0, 2 and 3 in  *)
(* a space of 8 addresses (some of them end at or past the end of the      *)
(* space) and the master of Bridge::registerMaster, which has address and  *)
(* size 0.                                                                 *)
(***************************************************************************)
EXTENDS IpRegistry

MCBlock(a, s, t) == [address |-> a, size |-> s, interrupts |-> 0, type |-> t,
                     id |-> 0, clientId |-> 0]

MCBlocks == {MCBlock(a, s, "SLAVE_LITE") : a \in Addr, s \in {0, 2, 3}}
                \cup {MCBlock(0, 0, "MASTER")}
=============================================================================
