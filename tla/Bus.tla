-------------------------------- MODULE Bus --------------------------------
(***************************************************************************)
(* What a system of bridges and a router promises to the applications: a   *)
(* bus to which memories are attached.  An operation is issued, performed  *)
(* once and in one step by the memory whose block it falls into, and then  *)
(* answered with what came of it.  The memory performs the operations of   *)
(* one application in the order in which they were issued, so that a read  *)
(* returns what its application's latest write has written, even when both *)
(* are outstanding together, and no success overtakes another operation.   *)
(***************************************************************************)
EXTENDS Integers, Sequences

CONSTANTS Apps,         \* the applications
          Slaves,       \* the memories
          Block,        \* memory: its block, an address and a size
          Addr,         \* the addresses
          FaultyAddrs   \* addresses at which operations fail

VARIABLES ops,      \* application: its operations
          mem,      \* memory: what it holds
          outcome   \* application: what came of the operations that are
                    \* performed and not answered

vars == <<ops, mem, outcome>>

Init ==
    /\ ops = [a \in Apps |-> <<>>]
    /\ mem = [s \in Slaves |-> [x \in Addr |-> 0]]
    /\ outcome = [a \in Apps |-> {}]

Range(op) == op.address .. op.address + op.size - 1

FallsInto(op, s) ==
    /\ op.address >= Block[s].address
    /\ op.address + op.size <= Block[s].address + Block[s].size

Targets(op) == {s \in Slaves : FallsInto(op, s)}

Pending(a, k) == ops[a][k].status = "pending"

Performed(a, k) == k \in {o.op : o \in outcome[a]}

Issue(a) ==
    /\ Len(ops'[a]) = Len(ops[a]) + 1
    /\ LET op == ops'[a][Len(ops'[a])]
       IN  ops' = [ops EXCEPT ![a] = Append(@, [op EXCEPT !.status = "pending"])]
    /\ UNCHANGED <<mem, outcome>>

Outcome(a, k, ok, data) ==
    outcome' = [outcome EXCEPT ![a] = @ \cup {[op |-> k, ok |-> ok, data |-> data]}]

\* The memory is written or read; a failure changes nothing.
Perform(a, k, s) ==
    LET op == ops[a][k]
    IN  /\ Pending(a, k) /\ ~Performed(a, k)
        /\ s \in Targets(op)
        /\ \A j \in 1 .. k - 1 :
             Pending(a, j) /\ Targets(ops[a][j]) # {} => Performed(a, j)
        /\ \/ /\ op.address \in FaultyAddrs
              /\ Outcome(a, k, FALSE, <<>>)
              /\ UNCHANGED mem
           \/ /\ op.address \notin FaultyAddrs /\ op.type = "WRITE_REQ"
              /\ Outcome(a, k, TRUE, <<>>)
              /\ mem' = [mem EXCEPT ![s] =
                           [x \in Addr |-> IF x \in Range(op)
                                           THEN op.buffer[x - op.address + 1] ELSE @[x]]]
           \/ /\ op.address \notin FaultyAddrs /\ op.type = "READ_REQ"
              /\ Outcome(a, k, TRUE, [i \in 1 .. op.size |-> mem[s][op.address + i - 1]])
              /\ UNCHANGED mem
        /\ UNCHANGED ops

\* An operation that falls into no block fails, in any order.
Reject(a, k) ==
    /\ Pending(a, k) /\ ~Performed(a, k)
    /\ Targets(ops[a][k]) = {}
    /\ Outcome(a, k, FALSE, <<>>)
    /\ UNCHANGED <<ops, mem>>

\* The answers come in the order of the operations, but for rejections.
Answer(a, k) ==
    /\ Pending(a, k)
    /\ Targets(ops[a][k]) # {} => \A j \in 1 .. k - 1 : ~Pending(a, j)
    /\ \E o \in outcome[a] :
         /\ o.op = k
         /\ ops' = [ops EXCEPT ![a][k].status = IF o.ok THEN "ok" ELSE "error",
                                ![a][k].buffer = IF o.ok /\ ops[a][k].type = "READ_REQ"
                                                 THEN o.data ELSE @]
         /\ outcome' = [outcome EXCEPT ![a] = @ \ {o}]
    /\ UNCHANGED mem

Next ==
    \E a \in Apps :
        \/ Issue(a)
        \/ \E k \in DOMAIN ops[a] :
             \/ \E s \in Slaves : Perform(a, k, s)
             \/ Reject(a, k) \/ Answer(a, k)

Spec == Init /\ [][Next]_vars
=============================================================================
