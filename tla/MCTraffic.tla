------------------------------ MODULE MCTraffic ------------------------------
(***************************************************************************)
(* Small systems for Traffic: 8 addresses, a slave of two or three         *)
(* addresses, and clients that own it, its masters or nothing.             *)
(***************************************************************************)
EXTENDS Traffic

MCIp(a, s, t, o) == [address |-> a, size |-> s, type |-> t, owner |-> o]

MCSlave(a, o) == MCIp(a, 3, "SLAVE_LITE", o)
MCMaster(o)   == MCIp(0, 0, "MASTER", o)

\* Test 02: client 0 registers its slave and then its master.
MCTest02 == <<MCSlave(2, 0), MCMaster(0)>>

\* The same with a second master.
MCTwoMasters == <<MCSlave(2, 0), MCMaster(0), MCMaster(0)>>

\* The same with a second slave.
MCTwoSlaves == <<MCSlave(2, 0), MCMaster(0), MCIp(5, 2, "SLAVE_LITE", 0)>>

\* The slave is in one client and the master in another.
MCRemoteSlave == <<MCSlave(2, 1), MCMaster(0)>>

\* A master in each client, and the slave is not the first block.
MCMixed == <<MCMaster(0), MCSlave(2, 0), MCMaster(1)>>

MCBuf(a, s) == [address |-> a, size |-> s]

\* Two cells of the slave; its second cell alone; its faulty last cell; a
\* transaction past its end; no block at all.
MCBuffers == {MCBuf(2, 2), MCBuf(3, 1), MCBuf(4, 1), MCBuf(4, 2), MCBuf(6, 1)}

MCFewBuffers == {MCBuf(2, 2), MCBuf(6, 1)}

MCOneBuffer == {MCBuf(5, 1)}

\* One cell of the slave.
MCOneCell == {MCBuf(3, 1)}

\* The n-th operation is a write when n is odd and a read when it is even.
Alternate ==
    \A c \in Clients : \A k \in DOMAIN ops[c] :
        ops[c][k].type = IF k % 2 = 1 THEN "WRITE_REQ" ELSE "READ_REQ"

\* Applications that write and read by turns.  What they issue is their own
\* choice (no fairness makes them issue), so these are behaviours of FairSpec.
AlternatingSpec == Init /\ [][Next /\ Alternate']_vars /\ Fairness
=============================================================================
