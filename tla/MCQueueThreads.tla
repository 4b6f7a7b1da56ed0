--------------------------- MODULE MCQueueThreads ---------------------------
(***************************************************************************)
(* Two producers, as in a bridge with one master and one slave: the        *)
(* application's thread and the bridge's reader.                           *)
(***************************************************************************)
EXTENDS QueueThreads

MCProducers == {"application", "reader"}
=============================================================================
