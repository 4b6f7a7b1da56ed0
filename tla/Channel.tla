------------------------------ MODULE Channel ------------------------------
(***************************************************************************)
(* What Handshake and Traffic take one direction of a socket to be: whole  *)
(* messages arrive once, in the order in which they were sent, and the     *)
(* reader learns that the writer is gone only after it has everything that *)
(* was sent.                                                               *)
(***************************************************************************)
EXTENDS Sequences

CONSTANT Message        \* the messages

VARIABLES transit,      \* the messages sent and not yet received
          received,     \* the messages received
          writerUp,     \* whether the writing end is there
          readerUp      \* whether the reading end is there and has no error

vars == <<transit, received, writerUp, readerUp>>

Init ==
    /\ transit = <<>>
    /\ received = <<>>
    /\ writerUp = TRUE
    /\ readerUp = TRUE

Send(m) ==
    /\ writerUp
    /\ transit' = Append(transit, m)
    /\ UNCHANGED <<received, writerUp, readerUp>>

Receive ==
    /\ readerUp
    /\ transit # <<>>
    /\ received' = Append(received, Head(transit))
    /\ transit' = Tail(transit)
    /\ UNCHANGED <<writerUp, readerUp>>

CloseWriter ==
    /\ writerUp
    /\ writerUp' = FALSE
    /\ UNCHANGED <<transit, received, readerUp>>

\* An error of the reader, which finds the channel closed and empty.
Eof ==
    /\ readerUp /\ ~writerUp
    /\ transit = <<>>
    /\ readerUp' = FALSE
    /\ UNCHANGED <<transit, received, writerUp>>

\* The reader's process ends; the messages in transit are lost.
CloseReader ==
    /\ readerUp
    /\ readerUp' = FALSE
    /\ transit' = <<>>
    /\ UNCHANGED <<received, writerUp>>

Next == (\E m \in Message : Send(m)) \/ Receive \/ CloseWriter \/ Eof \/ CloseReader

Spec == Init /\ [][Next]_vars
=============================================================================
