---------------------------- MODULE NodeNetwork ----------------------------
(***************************************************************************)
(* StartNetwork, StopNetwork and Stop of the mobile binding               *)
(* (mobile/node.go), called from any number of application threads.       *)
(* StartNetwork and StopNetwork hold n.netMux; Stop does not.  The flag   *)
(* n.netEnabled says whether the API server is up; listening is whether   *)
(* it really accepts connections.  NewNode starts the node with its API   *)
(* server up and netEnabled = true.  The node's HttpServe may fail,       *)
(* HttpShutdown may time out (its listeners are closed either way) and    *)
(* Shutdown stops the whole node, API server included.                    *)
(***************************************************************************)
CONSTANTS Callers,   \* the application threads
          NoHolder   \* n.netMux is not held

ASSUME NodeNetworkAssumption == Callers # {} /\ NoHolder \notin Callers

VARIABLES netEnabled,  \* n.netEnabled
          listening,   \* the API server accepts connections
          down,        \* n.node.Shutdown has run
          holder,      \* the thread holding n.netMux, or NoHolder
          cpc,         \* thread -> where it is
          ret          \* thread -> what its last call returned

vars == <<netEnabled, listening, down, holder, cpc, ret>>

Returns == {"none", "ok", "ErrNetworkReady", "ErrNetworkClosed", "err"}

Init ==
  /\ netEnabled = TRUE
  /\ listening = TRUE
  /\ down = FALSE
  /\ holder = NoHolder
  /\ cpc = [c \in Callers |-> "idle"]
  /\ ret = [c \in Callers |-> "none"]

Set(c, p) == cpc' = [cpc EXCEPT ![c] = p]
Return(c, v) == /\ cpc' = [cpc EXCEPT ![c] = "idle"]
                /\ ret' = [ret EXCEPT ![c] = v]

\* Variant of Lock that does not wait for n.netMux to be free:
\* FlagUnderMutex must reject it.
LockNoWait(c) ==
  /\ cpc[c] = "idle"
  /\ holder' = c
  /\ \E p \in {"start", "stop"} : Set(c, p)
  /\ UNCHANGED <<netEnabled, listening, down, ret>>

\* n.netMux.Lock() at the top of StartNetwork (p = "start") or
\* StopNetwork (p = "stop").
Lock(c) ==
  /\ cpc[c] = "idle"
  /\ holder = NoHolder
  /\ holder' = c
  /\ \E p \in {"start", "stop"} : Set(c, p)
  /\ UNCHANGED <<netEnabled, listening, down, ret>>

\* Variant of StartCheck that serves without setting netEnabled:
\* ListeningImpliesEnabled must reject it.
StartCheckNoFlag(c) ==
  /\ cpc[c] = "start"
  /\ \/ netEnabled /\ Return(c, "ErrNetworkReady") /\ holder' = NoHolder
     \/ ~netEnabled /\ Set(c, "serve") /\ UNCHANGED <<holder, ret>>
  /\ UNCHANGED <<netEnabled, listening, down>>

\* StartNetwork: if netEnabled, return the port and ErrNetworkReady;
\* otherwise set netEnabled before serving.
StartCheck(c) ==
  /\ cpc[c] = "start"
  /\ \/ netEnabled /\ Return(c, "ErrNetworkReady") /\ holder' = NoHolder
        /\ UNCHANGED netEnabled
     \/ ~netEnabled /\ netEnabled' = TRUE /\ Set(c, "serve")
        /\ UNCHANGED <<holder, ret>>
  /\ UNCHANGED <<listening, down>>

\* n.node.HttpServe(...): on error return 0 and the error, netEnabled
\* staying true; the deferred Unlock releases the mutex.
Serve(c) ==
  /\ cpc[c] = "serve"
  /\ \/ listening' = TRUE /\ Return(c, "ok")
     \/ UNCHANGED listening /\ Return(c, "err")
  /\ holder' = NoHolder
  /\ UNCHANGED <<netEnabled, down>>

\* Variant of StopCheck returning nil instead of ErrNetworkClosed when the
\* network is already stopped: AbsSpec must reject it.
StopCheckClosedNoError(c) ==
  /\ cpc[c] = "stop"
  /\ \/ ~netEnabled /\ Return(c, "ok") /\ holder' = NoHolder
        /\ UNCHANGED netEnabled
     \/ netEnabled /\ netEnabled' = FALSE /\ Set(c, "shutdown")
        /\ UNCHANGED <<holder, ret>>
  /\ UNCHANGED <<listening, down>>

\* StopNetwork: if not netEnabled, ErrNetworkClosed; otherwise clear it
\* before shutting the server down.
StopCheck(c) ==
  /\ cpc[c] = "stop"
  /\ \/ ~netEnabled /\ Return(c, "ErrNetworkClosed") /\ holder' = NoHolder
        /\ UNCHANGED netEnabled
     \/ netEnabled /\ netEnabled' = FALSE /\ Set(c, "shutdown")
        /\ UNCHANGED <<holder, ret>>
  /\ UNCHANGED <<listening, down>>

\* n.node.HttpShutdown(ctx) with a timeout of `wait` seconds: the
\* listeners are closed whether or not it times out.
ShutdownServer(c) ==
  /\ cpc[c] = "shutdown"
  /\ listening' = FALSE
  /\ \E v \in {"ok", "err"} : Return(c, v)
  /\ holder' = NoHolder
  /\ UNCHANGED <<netEnabled, down>>

\* Stop: n.node.Shutdown(ctx), without n.netMux and without netEnabled.
Stop(c) ==
  /\ cpc[c] = "idle"
  /\ down' = TRUE
  /\ listening' = FALSE
  /\ \E v \in {"ok", "err"} : ret' = [ret EXCEPT ![c] = v]
  /\ UNCHANGED <<netEnabled, holder, cpc>>

Call(c) ==
  \/ Lock(c)
  \/ StartCheck(c)
  \/ Serve(c)
  \/ StopCheck(c)
  \/ ShutdownServer(c)
  \/ Stop(c)

Next == \E c \in Callers : Call(c)

Spec == Init /\ [][Next]_vars

\* StartNetwork and StopNetwork alone, with no call of Stop: what these two
\* calls do to the flag when the node itself is never shut down.
NextWithoutStop ==
  \E c \in Callers :
    Lock(c) \/ StartCheck(c) \/ Serve(c) \/ StopCheck(c) \/ ShutdownServer(c)

-----------------------------------------------------------------------------
\* The holder of n.netMux has changed netEnabled and not yet returned.
InFlight == holder # NoHolder /\ cpc[holder] \in {"serve", "shutdown"}

\* Refinement mapping: a call in flight has not yet taken effect, so the
\* abstract netEnabled is the value before the holder changed it.
AEnabled == IF InFlight THEN ~netEnabled ELSE netEnabled

Abs == INSTANCE NetworkSwitch WITH enabled <- AEnabled

(***************************************************************************)
(* StartNetwork, StopNetwork and Stop are linearisable: every step of the *)
(* threads is a step of NetworkSwitch, in which each call is atomic, or   *)
(* leaves it unchanged.  It breaks if a call's effect on the API server   *)
(* disagrees with the flag it set, or Stop overlaps a call badly.         *)
(***************************************************************************)
AbsSpec == Abs!Spec

TypeOK ==
  /\ netEnabled \in BOOLEAN
  /\ listening \in BOOLEAN
  /\ down \in BOOLEAN
  /\ holder \in Callers \cup {NoHolder}
  /\ cpc \in [Callers -> {"idle", "start", "serve", "stop", "shutdown"}]
  /\ ret \in [Callers -> Returns]

(***************************************************************************)
(* A listening API server is one StopNetwork can stop: whenever n.netMux  *)
(* is free and the server accepts connections, netEnabled is set.          *)
(* Otherwise StopNetwork would answer ErrNetworkClosed and leave the port *)
(* open for good.                                                          *)
(***************************************************************************)
ListeningImpliesEnabled == holder = NoHolder => (listening => netEnabled)

(***************************************************************************)
(* The contract TestHttpServeAndClose relies on: when no call is under    *)
(* way, netEnabled says whether the API server listens, so that           *)
(* ErrNetworkReady means the port is served.  netEnabled is set before    *)
(* HttpServe and not cleared when it fails, nor by Stop.                  *)
(***************************************************************************)
EnabledMeansListening == holder = NoHolder => (netEnabled => listening)

(***************************************************************************)
(* n.netMux guards n.netEnabled: the flag changes only in the check step  *)
(* of StartNetwork or StopNetwork run by the thread that holds the mutex, *)
(* and that thread keeps it to serve or to shut the server down.  It      *)
(* breaks if a second thread can enter StartNetwork or StopNetwork before *)
(* the first has released the mutex.                                      *)
(***************************************************************************)
FlagUnderMutex ==
  [][netEnabled' # netEnabled =>
       /\ holder # NoHolder
       /\ holder' = holder
       /\ cpc[holder] \in {"start", "stop"}
       /\ cpc'[holder] \in {"serve", "shutdown"}]_vars
=============================================================================
