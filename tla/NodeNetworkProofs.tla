------------------------- MODULE NodeNetworkProofs -------------------------
(***************************************************************************)
(* Proofs about NodeNetwork for every set of application threads.         *)
(* ListeningImpliesEnabled is not inductive: while StopNetwork holds the   *)
(* mutex between clearing netEnabled and HttpShutdown, the server still   *)
(* listens with the flag cleared.  The strengthening says where the       *)
(* mutex holder is: only a holder at "shutdown" may see that state, only  *)
(* a thread at a locked pc holds the mutex, and a thread about to serve   *)
(* has set the flag.                                                      *)
(***************************************************************************)
EXTENDS NodeNetwork, TLAPS

LockedPCs == {"start", "serve", "stop", "shutdown"}

IInv ==
  /\ TypeOK
  /\ \A c \in Callers : cpc[c] \in LockedPCs <=> holder = c
  /\ \A c \in Callers : cpc[c] = "serve" => netEnabled
  /\ \A c \in Callers : cpc[c] = "shutdown" => ~netEnabled
  /\ listening /\ ~netEnabled =>
       holder # NoHolder /\ cpc[holder] = "shutdown"

\* The type invariant: what NodeNetwork's variables range over.
THEOREM TypeCorrect == Spec => []TypeOK
<1>1. Init => TypeOK
  BY NodeNetworkAssumption DEF Init, TypeOK, Returns
<1>2. TypeOK /\ [Next]_vars => TypeOK'
  <2> SUFFICES ASSUME TypeOK, [Next]_vars PROVE TypeOK'
    OBVIOUS
  <2>1. ASSUME NEW c \in Callers, Call(c) PROVE TypeOK'
    BY <2>1 DEF Call, Lock, StartCheck, Serve, StopCheck, ShutdownServer,
                Stop, Set, Return, TypeOK, Returns
  <2>2. CASE UNCHANGED vars
    BY <2>2 DEF vars, TypeOK
  <2>3. QED
    BY <2>1, <2>2 DEF Next
<1>3. QED
  BY <1>1, <1>2, PTL DEF Spec

\* IInv holds initially, is preserved by every step and implies the property.
LEMMA IInvInductive == IInv /\ [Next]_vars => IInv'
<1> SUFFICES ASSUME IInv, [Next]_vars PROVE IInv'
  OBVIOUS
<1>1. TypeOK'
  BY DEF IInv, TypeOK, Next, Call, Lock, StartCheck, Serve, StopCheck,
         ShutdownServer, Stop, Set, Return, vars, Returns
<1>2. ASSUME NEW c \in Callers, Call(c) PROVE IInv'
  <2>1. CASE Lock(c)
    BY <1>1, <2>1, NodeNetworkAssumption DEF IInv, TypeOK, Lock, Set, LockedPCs
  <2>2. CASE StartCheck(c)
    BY <1>1, <2>2, NodeNetworkAssumption DEF IInv, TypeOK, StartCheck, Set, Return, LockedPCs
  <2>3. CASE Serve(c)
    BY <1>1, <2>3, NodeNetworkAssumption DEF IInv, TypeOK, Serve, Return, LockedPCs
  <2>4. CASE StopCheck(c)
    BY <1>1, <2>4, NodeNetworkAssumption DEF IInv, TypeOK, StopCheck, Set, Return, LockedPCs
  <2>5. CASE ShutdownServer(c)
    BY <1>1, <2>5, NodeNetworkAssumption DEF IInv, TypeOK, ShutdownServer, Return, LockedPCs
  <2>6. CASE Stop(c)
    BY <1>1, <2>6, NodeNetworkAssumption DEF IInv, TypeOK, Stop, LockedPCs
  <2>7. QED
    BY <1>2, <2>1, <2>2, <2>3, <2>4, <2>5, <2>6 DEF Call
<1>3. CASE UNCHANGED vars
  BY <1>3 DEF IInv, TypeOK, vars
<1>4. QED
  BY <1>2, <1>3 DEF Next

(***************************************************************************)
(* Whenever n.netMux is free and the API server listens, netEnabled is set *)
(* (StartNetwork sets it before HttpServe, StopNetwork clears it before   *)
(* HttpShutdown, both under the mutex), for any number of threads.        *)
(***************************************************************************)
THEOREM ListeningEnabledSafe == Spec => []ListeningImpliesEnabled
<1>1. Init => IInv
  BY NodeNetworkAssumption DEF Init, IInv, TypeOK, Returns, LockedPCs
<1>2. IInv => ListeningImpliesEnabled
  BY DEF IInv, ListeningImpliesEnabled
<1>3. QED
  BY <1>1, <1>2, IInvInductive, PTL DEF Spec

(***************************************************************************)
(* StartNetwork, StopNetwork and Stop implement NetworkSwitch, where each  *)
(* call is one atomic step: the step of a call that changes the node (the *)
(* ErrNetworkReady or ErrNetworkClosed answer, the end of HttpServe or of *)
(* HttpShutdown, Stop) is the abstract call, and the other steps (taking  *)
(* the mutex, flipping netEnabled before serving or shutting down) leave  *)
(* the abstract state alone because the mapping still reports the flag    *)
(* as it was before the call.                                             *)
(***************************************************************************)
THEOREM Refinement == Spec => AbsSpec
<1>1. Init => Abs!Init
  BY NodeNetworkAssumption DEF Init, Abs!Init, AEnabled, InFlight
<1>2. IInv /\ [Next]_vars => [Abs!Next]_<<AEnabled, listening, down, ret>>
  <2> SUFFICES ASSUME IInv, [Next]_vars
               PROVE  [Abs!Next]_<<AEnabled, listening, down, ret>>
    OBVIOUS
  <2> USE NodeNetworkAssumption DEF IInv, TypeOK, LockedPCs, AEnabled, InFlight
  <2>1. ASSUME NEW c \in Callers, Call(c)
        PROVE  [Abs!Next]_<<AEnabled, listening, down, ret>>
    <3>1. CASE Lock(c)
      BY <3>1 DEF Lock, Set
    <3>2. CASE StartCheck(c) /\ netEnabled
      <4>1. Abs!StartNetwork(c)
        BY <3>2 DEF StartCheck, Return, Abs!StartNetwork
      <4>2. QED
        BY <4>1 DEF Abs!Next
    <3>3. CASE StartCheck(c) /\ ~netEnabled
      BY <3>3 DEF StartCheck, Set
    <3>4. CASE Serve(c)
      <4>1. Abs!StartNetwork(c)
        BY <3>4 DEF Serve, Return, Abs!StartNetwork
      <4>2. QED
        BY <4>1 DEF Abs!Next
    <3>5. CASE StopCheck(c) /\ ~netEnabled
      <4>1. Abs!StopNetwork(c)
        BY <3>5 DEF StopCheck, Return, Abs!StopNetwork
      <4>2. QED
        BY <4>1 DEF Abs!Next
    <3>6. CASE StopCheck(c) /\ netEnabled
      BY <3>6 DEF StopCheck, Set
    <3>7. CASE ShutdownServer(c)
      <4>1. Abs!StopNetwork(c)
        BY <3>7 DEF ShutdownServer, Return, Abs!StopNetwork
      <4>2. QED
        BY <4>1 DEF Abs!Next
    <3>8. CASE Stop(c)
      <4>1. Abs!Stop(c)
        BY <3>8 DEF Stop, Abs!Stop
      <4>2. QED
        BY <4>1 DEF Abs!Next
    <3>9. QED
      BY <2>1, <3>1, <3>2, <3>3, <3>4, <3>5, <3>6, <3>7, <3>8 DEF Call
  <2>2. CASE UNCHANGED vars
    BY <2>2 DEF vars
  <2>3. QED
    BY <2>1, <2>2 DEF Next
<1>3. Init => IInv
  BY NodeNetworkAssumption DEF Init, IInv, TypeOK, Returns, LockedPCs
<1>4. QED
  BY <1>1, <1>2, <1>3, IInvInductive, PTL DEF Spec, AbsSpec, Abs!Spec

(***************************************************************************)
(* For any number of threads, n.netMux guards n.netEnabled: the flag      *)
(* changes only in the check step of StartNetwork or StopNetwork taken by *)
(* the mutex holder, which keeps the mutex to serve or shut down.  The   *)
(* step needs IInv: the thread at "start" or "stop" is the holder.        *)
(***************************************************************************)
THEOREM FlagUnderMutexSafe == Spec => FlagUnderMutex
<1> DEFINE Guarded ==
      netEnabled' # netEnabled =>
        /\ holder # NoHolder
        /\ holder' = holder
        /\ cpc[holder] \in {"start", "stop"}
        /\ cpc'[holder] \in {"serve", "shutdown"}
<1>1. Init => IInv
  BY NodeNetworkAssumption DEF Init, IInv, TypeOK, Returns, LockedPCs
<1>2. IInv /\ [Next]_vars => [Guarded]_vars
  <2> SUFFICES ASSUME IInv, [Next]_vars PROVE [Guarded]_vars
    OBVIOUS
  <2> USE NodeNetworkAssumption DEF IInv, TypeOK, LockedPCs
  <2>1. ASSUME NEW c \in Callers, Call(c) PROVE Guarded
    <3>1. CASE StartCheck(c)
      BY <3>1 DEF StartCheck, Set, Return
    <3>2. CASE StopCheck(c)
      BY <3>2 DEF StopCheck, Set, Return
    <3>3. CASE Lock(c) \/ Serve(c) \/ ShutdownServer(c) \/ Stop(c)
      BY <3>3 DEF Lock, Serve, ShutdownServer, Stop
    <3>4. QED
      BY <3>1, <3>2, <3>3, <2>1, Zenon DEF Call
  <2>2. CASE UNCHANGED vars
    BY <2>2 DEF vars
  <2>3. QED
    BY <2>1, <2>2 DEF Next
<1>3. QED
  BY <1>1, <1>2, IInvInductive, PTL DEF Spec, FlagUnderMutex
=============================================================================
