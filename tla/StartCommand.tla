---------------------------- MODULE StartCommand ----------------------------
(***************************************************************************)
(* The start command's RunE (cmd/favorX/cmd/start.go): the setup with its *)
(* early returns, node.NewNode, and how the node is shut down.  Until     *)
(* signal.Notify runs, SIGINT and SIGTERM end the process at once (Go's   *)
(* default handling).  After it, signal.Notify delivers them to          *)
(* interruptChannel, a channel of capacity 1, without                    *)
(* blocking: a signal that finds it full is dropped.  p.start blocks on   *)
(* the channel; p.stop starts b.Shutdown (with a 15-second deadline) in a *)
(* goroutine that closes done, and returns on done or on a further        *)
(* signal.  From a console, RunE runs p.start then p.stop; as a Windows  *)
(* service, s.Run calls Start, which runs p.start in a goroutine, and     *)
(* calls Stop (p.stop) when the service manager stops the service.        *)
(***************************************************************************)
EXTENDS Naturals

CONSTANTS MaxSignals   \* the signals the operating system may send

ASSUME StartCommandAssumption == MaxSignals \in Nat

Modes == {"console", "service"}

VARIABLES rpc,       \* where RunE is
          result,    \* what RunE returned: "none", "nil", "err"
          created,   \* node.NewNode has returned the node b
          mode,      \* isWindowsService()
          buf,       \* len(interruptChannel)
          signals,   \* the signals sent so far
          spc,       \* p.start: "wait" on the channel, or "returned"
          stpc,      \* p.stop: "idle", "waiting" in its select, "returned"
          shpc       \* the shutdown goroutine: "none", "running", "done"

vars == <<rpc, result, created, mode, buf, signals, spc, stpc, shpc>>

Running == {"console", "service"}

Init ==
  /\ rpc = "setup"
  /\ result = "none"
  /\ created = FALSE
  /\ mode \in Modes
  /\ buf = 0
  /\ signals = 0
  /\ spc = "wait"
  /\ stpc = "idle"
  /\ shpc = "none"

\* Lines 42-105 and configureSigner: with arguments RunE returns
\* cmd.Help(), nil once the help is printed; an error from newLogger,
\* isWindowsService, createWindowsEventLogger (service only),
\* ParseConnectionStrings or configureSigner (keystore, password file or
\* prompt, boson key, overlay address, libp2p key) is returned at once.
Setup ==
  /\ rpc = "setup"
  /\ \/ rpc' = "newnode" /\ UNCHANGED result
     \/ rpc' = "returned" /\ result' \in {"nil", "err"}
  /\ UNCHANGED <<created, mode, buf, signals, spc, stpc, shpc>>

\* b, err := node.NewNode(...): on error RunE returns it.
NewNode ==
  /\ rpc = "newnode"
  /\ \/ rpc' = "notify" /\ created' = TRUE /\ UNCHANGED result
     \/ rpc' = "returned" /\ result' = "err" /\ UNCHANGED created
  /\ UNCHANGED <<mode, buf, signals, spc, stpc, shpc>>

\* interruptChannel := make(chan os.Signal, 1); signal.Notify(...).
Notify ==
  /\ rpc = "notify"
  /\ rpc' = "run"
  /\ UNCHANGED <<result, created, mode, buf, signals, spc, stpc, shpc>>

\* From a console RunE calls p.start then p.stop; as a service it calls
\* service.New (returning its error) and s.Run, which runs p.start in a
\* goroutine and p.stop when the service manager stops the service.
Run ==
  /\ rpc = "run"
  /\ \/ mode = "console" /\ rpc' = "console" /\ UNCHANGED result
     \/ mode = "service" /\ rpc' = "service" /\ UNCHANGED result
     \/ mode = "service" /\ rpc' = "returned" /\ result' = "err"
  /\ UNCHANGED <<created, mode, buf, signals, spc, stpc, shpc>>

\* The operating system sends SIGINT or SIGTERM while the process runs.
\* Before signal.Notify the process dies; after it, signal.Notify drops
\* the signal when interruptChannel is full.
Signal ==
  /\ signals < MaxSignals
  /\ rpc \notin {"returned", "killed"}
  /\ signals' = signals + 1
  /\ \/ rpc \in {"setup", "newnode", "notify"} /\ rpc' = "killed"
        /\ UNCHANGED buf
     \/ rpc \notin {"setup", "newnode", "notify"} /\ buf' = 1
        /\ UNCHANGED rpc
  /\ UNCHANGED <<result, created, mode, spc, stpc, shpc>>

\* Variant of StartReceive that reads the signal without taking it from
\* the channel: ForcedStopNeedsSignal must reject it.
StartReceivePeek ==
  /\ rpc \in Running
  /\ spc = "wait"
  /\ buf = 1
  /\ spc' = "returned"
  /\ UNCHANGED <<rpc, result, created, mode, buf, signals, stpc, shpc>>

\* sig := <-interruptChannel in p.start.
StartReceive ==
  /\ rpc \in Running
  /\ spc = "wait"
  /\ buf = 1
  /\ buf' = 0
  /\ spc' = "returned"
  /\ UNCHANGED <<rpc, result, created, mode, signals, stpc, shpc>>

\* p.stop: go func() { b.Shutdown(ctx); close(done) }, then the select.
\* From a console it follows p.start; a service calls it when the service
\* manager stops the service.
BeginStop ==
  /\ rpc \in Running
  /\ stpc = "idle"
  /\ mode = "service" \/ spc = "returned"
  /\ stpc' = "waiting"
  /\ shpc' = "running"
  /\ UNCHANGED <<rpc, result, created, mode, buf, signals, spc>>

\* Variant of ShutdownDone without the deferred close(done):
\* StopReturns must reject it.
ShutdownNoClose ==
  /\ shpc = "running"
  /\ UNCHANGED vars

\* b.Shutdown(ctx) returns, at the latest when its 15-second context
\* expires, and the deferred close(done) runs.
ShutdownDone ==
  /\ shpc = "running"
  /\ shpc' = "done"
  /\ UNCHANGED <<rpc, result, created, mode, buf, signals, spc, stpc>>

\* case sig := <-interruptChannel in p.stop's select.
StopReceive ==
  /\ stpc = "waiting"
  /\ buf = 1
  /\ buf' = 0
  /\ stpc' = "returned"
  /\ UNCHANGED <<rpc, result, created, mode, signals, spc, shpc>>

\* case <-done in p.stop's select.
StopDone ==
  /\ stpc = "waiting"
  /\ shpc = "done"
  /\ stpc' = "returned"
  /\ UNCHANGED <<rpc, result, created, mode, buf, signals, spc, shpc>>

\* p.stop has returned: from a console RunE returns nil; s.Run returns
\* nil or its error once the service has stopped.
Return ==
  /\ rpc \in Running
  /\ stpc = "returned"
  /\ rpc' = "returned"
  /\ \/ mode = "console" /\ result' = "nil"
     \/ mode = "service" /\ result' \in {"nil", "err"}
  /\ UNCHANGED <<created, mode, buf, signals, spc, stpc, shpc>>

Next ==
  \/ Setup
  \/ NewNode
  \/ Notify
  \/ Run
  \/ Return
  \/ Signal
  \/ StartReceive
  \/ BeginStop
  \/ ShutdownDone
  \/ StopReceive
  \/ StopDone

\* The goroutines run when runnable; b.Shutdown ends by its deadline.
Fairness ==
  /\ WF_vars(Setup \/ NewNode \/ Notify \/ Run \/ Return)
  /\ WF_vars(StartReceive)
  /\ WF_vars(BeginStop /\ mode = "console")
  /\ WF_vars(ShutdownDone)
  /\ WF_vars(StopReceive \/ StopDone)

Spec == Init /\ [][Next]_vars /\ Fairness

-----------------------------------------------------------------------------
TypeOK ==
  /\ rpc \in {"setup", "newnode", "notify", "run", "returned", "killed"} \cup Running
  /\ result \in {"none", "nil", "err"}
  /\ created \in BOOLEAN
  /\ mode \in Modes
  /\ buf \in 0..1
  /\ signals \in 0..MaxSignals
  /\ spc \in {"wait", "returned"}
  /\ stpc \in {"idle", "waiting", "returned"}
  /\ shpc \in {"none", "running", "done"}

(***************************************************************************)
(* Once p.stop has started the shutdown it returns, on done or on a       *)
(* signal, so that RunE (or the service's Stop) returns: the process does *)
(* not hang in shutdown.                                                  *)
(***************************************************************************)
StopReturns == (stpc = "waiting") ~> (stpc = "returned")

(***************************************************************************)
(* RunE reports success for a node it created while b.Shutdown may still  *)
(* be running only when the user insisted: p.stop's select gave up on     *)
(* done because of a signal other than the one p.start took.  From a     *)
(* console that takes two signals, as a service one (the service manager *)
(* calls Stop).  It relies on interruptChannel handing each signal to one *)
(* receiver and on p.stop being called before RunE returns.              *)
(***************************************************************************)
ForcedStopNeedsSignal ==
  result = "nil" /\ created /\ shpc # "done" =>
    signals >= (IF mode = "console" THEN 2 ELSE 1)

=============================================================================
