------------------------- MODULE StartCommandProofs -------------------------
(***************************************************************************)
(* Proofs about StartCommand for every number of signals.                 *)
(* ForcedStopNeedsSignal is not inductive: it speaks of the signals sent, *)
(* and the steps that end p.start and p.stop take them from the channel.  *)
(* The strengthening counts them: every signal sent is in the channel, or *)
(* was taken by p.start, or by a p.stop that returned before b.Shutdown   *)
(* finished (or was dropped or killed the process).  The rest says that  *)
(* a nil from RunE for a created node comes after p.stop returned, that   *)
(* from a console p.stop follows p.start, and that RunE returns once.    *)
(***************************************************************************)
EXTENDS StartCommand, TLAPS

USE StartCommandAssumption

\* The signals taken by p.start and by a p.stop that gave up on done.
StartTook == IF spc = "returned" THEN 1 ELSE 0
StopTook == IF stpc = "returned" /\ shpc # "done" THEN 1 ELSE 0

IInv ==
  /\ TypeOK
  /\ signals >= buf + StartTook + StopTook
  /\ result # "none" => rpc = "returned"
  /\ rpc \in {"setup", "newnode"} => ~created
  /\ result = "nil" /\ created => stpc = "returned"
  /\ mode = "console" /\ stpc # "idle" => spc = "returned"

\* Every step keeps the type invariant.  Only Signal does arithmetic.
LEMMA TypeStep == TypeOK /\ [Next]_vars => TypeOK'
<1> SUFFICES ASSUME TypeOK, [Next]_vars PROVE TypeOK'
  OBVIOUS
<1> USE DEF TypeOK, Running
<1>1. CASE Signal
  <2>1. signals' \in 0..MaxSignals /\ buf' \in 0..1
    BY <1>1, SMT DEF Signal
  <2>2. QED
    BY <1>1, <2>1, Zenon DEF Signal
<1>2. CASE Setup \/ NewNode \/ Notify \/ Run \/ Return
  BY <1>2, Zenon DEF Setup, NewNode, Notify, Run, Return
<1>3. CASE StartReceive \/ StopReceive
  <2>1. buf' \in 0..1
    BY <1>3, SMT DEF StartReceive, StopReceive
  <2>2. QED
    BY <1>3, <2>1, Zenon DEF StartReceive, StopReceive
<1>4. CASE BeginStop \/ ShutdownDone \/ StopDone
  BY <1>4, Zenon DEF BeginStop, ShutdownDone, StopDone
<1>5. CASE UNCHANGED vars
  BY <1>5, Zenon DEF vars
<1>6. QED
  BY <1>1, <1>2, <1>3, <1>4, <1>5 DEF Next

\* Every initial state is well typed.
LEMMA TypeInit == Init => TypeOK
<1> SUFFICES ASSUME Init PROVE TypeOK
  OBVIOUS
<1>1. buf \in 0..1 /\ signals \in 0..MaxSignals
  BY SMT DEF Init
<1>2. QED
  BY <1>1, Zenon DEF Init, TypeOK, Modes, Running

\* The type invariant: where RunE, p.start, p.stop and the shutdown are.
THEOREM TypeCorrect == Spec => []TypeOK
BY TypeInit, TypeStep, PTL DEF Spec

\* A signal adds one to the count of those sent and at most one to the
\* channel, which holds at most one.
LEMMA SignalCount ==
  ASSUME NEW s \in Nat, NEW b \in 0..1, NEW b2 \in 0..1,
         NEW x \in 0..1, NEW y \in 0..1, s >= b + x + y
  PROVE  s + 1 >= b2 + x + y
BY SMT

\* Every step keeps IInv: the steps of RunE, of the signals, of p.start,
\* of p.stop and of the shutdown goroutine.
LEMMA IInvInductive == IInv /\ [Next]_vars => IInv'
<1> SUFFICES ASSUME IInv, [Next]_vars PROVE IInv'
  OBVIOUS
<1>0. TypeOK'
  BY TypeStep DEF IInv
<1> USE <1>0 DEF IInv, TypeOK, StartTook, StopTook, Running
<1>1. CASE Setup
  BY <1>1 DEF Setup
<1>2. CASE NewNode
  BY <1>2 DEF NewNode
<1>3. CASE Notify
  BY <1>3 DEF Notify
<1>4. CASE Run
  BY <1>4 DEF Run
<1>5. CASE Return
  BY <1>5 DEF Return
<1>6. CASE Signal
  <2>1. (signals >= buf + StartTook + StopTook)'
    <3>1. spc' = spc /\ stpc' = stpc /\ shpc' = shpc
      BY <1>6 DEF Signal
    <3>2. signals' = signals + 1 /\ buf' \in 0..1
      BY <1>6 DEF Signal
    <3>3. StartTook' = StartTook /\ StopTook' = StopTook
      BY <3>1, Zenon
    <3>4. StartTook \in 0..1 /\ StopTook \in 0..1
      OBVIOUS
    <3>5. signals >= buf + StartTook + StopTook
      OBVIOUS
    <3> HIDE DEF StartTook, StopTook
    <3>6. signals \in Nat /\ buf \in 0..1
      OBVIOUS
    <3>7. signals + 1 >= buf' + StartTook + StopTook
      BY ONLY <3>2, <3>4, <3>5, <3>6, SignalCount
    <3>8. QED
      BY <3>2, <3>3, <3>7, Zenon
  <2>2. QED
    BY <1>6, <2>1, Zenon DEF Signal
<1>7. CASE StartReceive
  BY <1>7 DEF StartReceive
<1>8. CASE BeginStop
  BY <1>8 DEF BeginStop
<1>9. CASE ShutdownDone
  BY <1>9 DEF ShutdownDone
<1>10. CASE StopReceive
  BY <1>10 DEF StopReceive
<1>11. CASE StopDone
  BY <1>11 DEF StopDone
<1>12. CASE UNCHANGED vars
  BY <1>12 DEF vars
<1>13. QED
  BY <1>1, <1>2, <1>3, <1>4, <1>5, <1>6, <1>7, <1>8, <1>9, <1>10, <1>11,
     <1>12 DEF Next

\* IInv gives the property: a nil for a created node with the shutdown
\* unfinished means p.stop returned on a signal, and from a console
\* p.start took another one before.
LEMMA IInvImpliesForced == IInv => ForcedStopNeedsSignal
<1> SUFFICES ASSUME IInv, result = "nil", created, shpc # "done"
             PROVE  signals >= (IF mode = "console" THEN 2 ELSE 1)
  BY DEF ForcedStopNeedsSignal
<1>1. stpc = "returned" /\ StopTook = 1
  BY DEF IInv, StopTook
<1>2. mode = "console" => StartTook = 1
  BY <1>1 DEF IInv, StartTook
<1>3. QED
  BY <1>1, <1>2 DEF IInv, TypeOK, StartTook

(***************************************************************************)
(* For any number of signals, from a console or as a service: when RunE   *)
(* reports success for a node it created before b.Shutdown has finished,  *)
(* the operating system sent the signals that force it (two from a        *)
(* console, the one p.start took and one for p.stop's select; one for a  *)
(* service's Stop).  No single signal is taken by both receivers.        *)
(***************************************************************************)
THEOREM ForcedStopNeedsSignalSafe == Spec => []ForcedStopNeedsSignal
<1>1. Init => IInv
  BY TypeInit DEF Init, IInv, StartTook, StopTook
<1>2. QED
  BY <1>1, IInvImpliesForced, IInvInductive, PTL DEF Spec
=============================================================================
