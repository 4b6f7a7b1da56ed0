---------------------------- MODULE RouterClient ----------------------------
(***************************************************************************)
(* The calls of a RouterClient (RouterClient.cc) as seen by the bridge that *)
(* makes them: from the client before the call, the set of what the call   *)
(* may return, which depends on the router.  A result has                  *)
(*   client   the client after the call;                                   *)
(*   status   "ok", or "error" for a Status with a non-zero code;          *)
(*   value    whether the pointer or id that comes with it is one.         *)
(* A client is a record of its state and of whether sock is a socket.      *)
(* A call that stays in the loop of readFromSocket (Utils.cc 41) has no    *)
(* result: whoever made it takes no further step.                          *)
(***************************************************************************)

States == {"DISCONNECTED", "CONNECTED", "COMMITTED", "PEER_INFO_RECEIVED",
           "STARTED", "LOGGED_OUT"}

Client == [state : States, sock : BOOLEAN]

NewClient == [state |-> "DISCONNECTED", sock |-> FALSE]

Result(client, status, value) == [client |-> client, status |-> status, value |-> value]

Enter(c, state) == [c EXCEPT !.state = state]

\* RouterClient::disconnect.
disconnect(c) == IF c.sock THEN NewClient ELSE c

\* A call in the wrong state fails and changes nothing; an error in the right
\* state (a failed write or read, an ERROR or an unexpected message from the
\* router) disconnects the client.
Call(c, state, results) ==
    IF c.state # state
    THEN {Result(c, "error", FALSE)}
    ELSE results \cup {Result(disconnect(c), "error", FALSE)}

\* connect: an URI that is not supported and a failure of socket come before
\* there is anything to disconnect.
connect(c) ==
    LET open == [c EXCEPT !.sock = TRUE]
    IN  Call(c, "DISCONNECTED",
             {Result(c, "error", FALSE), Result(disconnect(open), "error", FALSE),
              Result(Enter(open, "CONNECTED"), "ok", TRUE)})

\* registerIp: an unknown type is refused before anything is sent.
registerIp(c) ==
    Call(c, "CONNECTED", {Result(c, "error", FALSE), Result(c, "ok", TRUE)})

commitIp(c) == Call(c, "CONNECTED", {Result(Enter(c, "COMMITTED"), "ok", FALSE)})

\* A peer, or without a value the end of the list.
retrievePeerInfo(c) ==
    Call(c, "COMMITTED", {Result(c, "ok", TRUE),
                          Result(Enter(c, "PEER_INFO_RECEIVED"), "ok", FALSE)})

\* An IP block, or the end of the list.  The router sends known types only.
retrieveIpConfig(c) ==
    Call(c, "PEER_INFO_RECEIVED", {Result(c, "ok", TRUE),
                                   Result(Enter(c, "STARTED"), "ok", FALSE)})

\* sendTransaction and sendTermination.
send(c) == Call(c, "STARTED", {Result(c, "ok", FALSE)})

sendLogout(c) == Call(c, "STARTED", {Result(Enter(c, "LOGGED_OUT"), "ok", FALSE)})
=============================================================================
