------------------------------ MODULE MCFraming ------------------------------
(***************************************************************************)
(* Bytes are bits, a size has two of them.  The bodies are of all sizes    *)
(* from none to three and can be mistaken for sizes; the socket is smaller *)
(* than the longest message.                                               *)
(***************************************************************************)
EXTENDS Framing

\* The hypothesis of the proof that Framing implements Channel.
ASSUME RoundTripHolds == RoundTrip

MCMessage == {<<>>, <<1>>, <<1, 0>>, <<0, 1, 1>>}
=============================================================================
