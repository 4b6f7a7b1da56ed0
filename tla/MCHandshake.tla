----------------------------- MODULE MCHandshake -----------------------------
(***************************************************************************)
(* Two bridges, one of which may quit or die, and three blocks on offer:   *)
(* two slaves that overlap and a master, which is refused when the slave   *)
(* at address 0 has been registered before it.                             *)
(***************************************************************************)
EXTENDS Handshake

CONSTANTS sw, sv        \* the bridges, software and simulator

MCBridges == {sw, sv}

MCSteady == {}
MCQuitters == {sv}

MCConfig(a, s, n, t) == [address |-> a, size |-> s, interrupts |-> n, type |-> t]

MCOffers == {MCConfig(0, 2, 0, "SLAVE_LITE"), MCConfig(1, 2, 0, "SLAVE_LITE"),
             MCConfig(0, 0, 0, "MASTER")}

MCInterrupts == {MCConfig(2, 3, 1, "SLAVE_LITE"), MCConfig(0, 0, 0, "MASTER")}
=============================================================================
