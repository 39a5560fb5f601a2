--------------------------- MODULE NetworkSwitch ---------------------------
(***************************************************************************)
(* What the network calls of the mobile binding (mobile/node.go) promise  *)
(* their callers: each of StartNetwork, StopNetwork and Stop takes effect *)
(* as one atomic step on the node, as if the calls ran one at a time.     *)
(* enabled is n.netEnabled, listening whether the API server accepts      *)
(* connections, down whether the node has been shut down, ret the result  *)
(* of each thread's last call.  NodeNetwork, where a call is several      *)
(* steps under n.netMux, implements this specification.                   *)
(***************************************************************************)
CONSTANTS Callers

VARIABLES enabled, listening, down, ret

Init ==
  /\ enabled = TRUE
  /\ listening = TRUE
  /\ down = FALSE
  /\ ret = [c \in Callers |-> "none"]

\* StartNetwork: ErrNetworkReady when enabled; otherwise enable and serve,
\* the API server listening only if HttpServe succeeded.
StartNetwork(c) ==
  \/ /\ enabled
     /\ ret' = [ret EXCEPT ![c] = "ErrNetworkReady"]
     /\ UNCHANGED <<enabled, listening, down>>
  \/ /\ ~enabled
     /\ enabled' = TRUE
     /\ \E v \in {"ok", "err"} :
          /\ ret' = [ret EXCEPT ![c] = v]
          /\ listening' = (v = "ok" \/ listening)
     /\ UNCHANGED down

\* StopNetwork: ErrNetworkClosed when not enabled; otherwise disable and
\* close the API server, with or without a timeout error.
StopNetwork(c) ==
  \/ /\ ~enabled
     /\ ret' = [ret EXCEPT ![c] = "ErrNetworkClosed"]
     /\ UNCHANGED <<enabled, listening, down>>
  \/ /\ enabled
     /\ enabled' = FALSE
     /\ listening' = FALSE
     /\ \E v \in {"ok", "err"} : ret' = [ret EXCEPT ![c] = v]
     /\ UNCHANGED down

\* Stop: the whole node shuts down; enabled is left as it is.
Stop(c) ==
  /\ down' = TRUE
  /\ listening' = FALSE
  /\ \E v \in {"ok", "err"} : ret' = [ret EXCEPT ![c] = v]
  /\ UNCHANGED enabled

Next == \E c \in Callers : StartNetwork(c) \/ StopNetwork(c) \/ Stop(c)

Spec == Init /\ [][Next]_<<enabled, listening, down, ret>>
=============================================================================
