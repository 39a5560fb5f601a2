---------------------------- MODULE FileRegister ----------------------------
(***************************************************************************)
(* The handlers fileRegister (POST /fileRegister/{address}) and           *)
(* fileRegisterRemove (DELETE) of pkg/api/files.go, run concurrently by   *)
(* the HTTP server for one content address.  Each request is a goroutine *)
(* with a program counter.  Shared state:                                 *)
(*   tranProcess  the sync.Map of in-flight markers, keyed by the handler *)
(*                name and the address (here: by the handler name);       *)
(*   chain        whether the oracle lists this node for the address      *)
(*                (what GetNodesFromCid returns);                         *)
(*   pending      transactions sent to the oracle and not yet mined;      *)
(*   txChan       what the handlers send on s.transactionChan.            *)
(* Each sync.Map call and each oracle call is one atomic step.            *)
(***************************************************************************)
EXTENDS Naturals, Sequences

CONSTANTS RegReqs,   \* the POST requests
          RemReqs    \* the DELETE requests

Requests == RegReqs \cup RemReqs

ASSUME FileRegisterAssumption ==
  /\ RegReqs \cap RemReqs = {}
  /\ Requests # {}

\* The tranProcess key of a request: apiName + address.String().
Api(r) == IF r \in RegReqs THEN "fileRegister" ELSE "fileRegisterRemove"

VARIABLES pc,           \* request -> where its goroutine is
          tranProcess,  \* the set of keys present in s.tranProcess
          chain,        \* TRUE iff the oracle lists s.overlay for the address
          pending,      \* transactions sent to the oracle, oldest first
          txChan,       \* the requests whose TransactionResponse was sent
          resp,         \* request -> the status codes written, in order
          stored        \* history: the requests that stored a marker

vars == <<pc, tranProcess, chain, pending, txChan, resp, stored>>

Init ==
  /\ pc = [r \in Requests |-> "start"]
  /\ tranProcess = {}
  /\ chain \in BOOLEAN
  /\ pending = <<>>
  /\ txChan = <<>>
  /\ resp = [r \in Requests |-> <<>>]
  /\ stored = {}

Write(r, code) == resp' = [resp EXCEPT ![r] = Append(@, code)]
Goto(r, p) == pc' = [pc EXCEPT ![r] = p]

\* Variant of Resolve answering 400 instead of 404: TypeOK must reject it.
ResolveBadRequest(r) ==
  /\ pc[r] = "start"
  /\ \/ Goto(r, "check") /\ UNCHANGED resp
     \/ Goto(r, "done") /\ Write(r, 400)
  /\ UNCHANGED <<tranProcess, chain, pending, txChan, stored>>

\* resolveNameOrAddress: a name that does not resolve is answered 404
\* before any marker is stored (fileRegister's deferred Delete then removes
\* the key of the zero address, which no request stores).
Resolve(r) ==
  /\ pc[r] = "start"
  /\ \/ Goto(r, "check") /\ UNCHANGED resp
     \/ Goto(r, "done") /\ Write(r, 404)
  /\ UNCHANGED <<tranProcess, chain, pending, txChan, stored>>

\* tranProcess.Load: a present key is answered 500 "under processing"; the
\* deferred Delete still runs when the handler returns.
Check(r) ==
  /\ pc[r] = "check"
  /\ \/ Api(r) \in tranProcess /\ Goto(r, "cleanup") /\ Write(r, 500)
     \/ Api(r) \notin tranProcess /\ Goto(r, "store") /\ UNCHANGED resp
  /\ UNCHANGED <<tranProcess, chain, pending, txChan, stored>>

\* tranProcess.Store(apiName+address.String(), "-")
Store(r) ==
  /\ pc[r] = "store"
  /\ tranProcess' = tranProcess \cup {Api(r)}
  /\ stored' = stored \cup {r}
  /\ Goto(r, "query")
  /\ UNCHANGED <<chain, pending, txChan, resp>>

\* Variant of Query in which the "Already Register" return skips the
\* deferred Delete: MarkerOwned must reject it.
QueryForbiddenSkipsDelete(r) ==
  /\ pc[r] = "query"
  /\ \/ r \in RegReqs /\ chain /\ Goto(r, "done") /\ Write(r, 403)
     \/ r \in RegReqs /\ ~chain /\ Goto(r, "submit") /\ UNCHANGED resp
     \/ r \in RemReqs /\ ~chain /\ Goto(r, "submit") /\ Write(r, 403)
     \/ r \in RemReqs /\ chain /\ Goto(r, "submit") /\ UNCHANGED resp
  /\ UNCHANGED <<tranProcess, chain, pending, txChan, stored>>

\* GetNodesFromCid and the search for s.overlay.  fileRegister answers 403
\* "Already Register" and returns; fileRegisterRemove answers 403 "Already
\* Remove" and, having no return there, goes on to the removal.
Query(r) ==
  /\ pc[r] = "query"
  /\ \/ r \in RegReqs /\ chain /\ Goto(r, "cleanup") /\ Write(r, 403)
     \/ r \in RegReqs /\ ~chain /\ Goto(r, "submit") /\ UNCHANGED resp
     \/ r \in RemReqs /\ ~chain /\ Goto(r, "submit") /\ Write(r, 403)
     \/ r \in RemReqs /\ chain /\ Goto(r, "submit") /\ UNCHANGED resp
  /\ UNCHANGED <<tranProcess, chain, pending, txChan, stored>>

\* RegisterCidAndNode / RemoveCidAndNode: an error is answered 500,
\* otherwise the transaction is pending on the chain.
Submit(r) ==
  /\ pc[r] = "submit"
  /\ \/ Goto(r, "cleanup") /\ Write(r, 500) /\ UNCHANGED pending
     \/ Goto(r, "notify") /\ pending' = Append(pending, Api(r)) /\ UNCHANGED resp
  /\ UNCHANGED <<tranProcess, chain, txChan, stored>>

\* s.transactionChan <- trans, then 200 with the transaction hash.
Notify(r) ==
  /\ pc[r] = "notify"
  /\ txChan' = Append(txChan, r)
  /\ Write(r, 200)
  /\ Goto(r, "cleanup")
  /\ UNCHANGED <<tranProcess, chain, pending, stored>>

\* The deferred s.tranProcess.Delete(apiName + address.String()).
Cleanup(r) ==
  /\ pc[r] = "cleanup"
  /\ tranProcess' = tranProcess \ {Api(r)}
  /\ Goto(r, "done")
  /\ UNCHANGED <<chain, pending, txChan, resp, stored>>

\* The oracle mines the oldest pending transaction.
Mine ==
  /\ pending # <<>>
  /\ chain' = (Head(pending) = "fileRegister")
  /\ pending' = Tail(pending)
  /\ UNCHANGED <<pc, tranProcess, txChan, resp, stored>>

Handle(r) ==
  \/ Resolve(r)
  \/ Check(r)
  \/ Store(r)
  \/ Query(r)
  \/ Submit(r)
  \/ Notify(r)
  \/ Cleanup(r)

Next == (\E r \in Requests : Handle(r)) \/ Mine

Spec == Init /\ [][Next]_vars

-----------------------------------------------------------------------------
PCs == {"start", "check", "store", "query", "submit", "notify", "cleanup", "done"}
Codes == {200, 403, 404, 500}

TypeOK ==
  /\ pc \in [Requests -> PCs]
  /\ tranProcess \subseteq {"fileRegister", "fileRegisterRemove"}
  /\ chain \in BOOLEAN
  /\ pending \in Seq({"fileRegister", "fileRegisterRemove"})
  /\ txChan \in Seq(Requests)
  /\ resp \in [Requests -> Seq(Codes)]
  /\ stored \subseteq Requests

(***************************************************************************)
(* No marker outlives its owner: a key present in tranProcess was stored  *)
(* by a request of that handler that has not yet run its deferred        *)
(* Delete.  If a return path skipped the Delete, the address would be     *)
(* refused "under processing" for good.                                   *)
(***************************************************************************)
MarkerOwned ==
  \A a \in tranProcess : \E r \in stored : Api(r) = a /\ pc[r] # "done"

(***************************************************************************)
(* The "under processing" answer says that while a request for an address *)
(* is being processed a second request of the same handler is refused: no *)
(* two requests of one handler are past the guard together.  The guard   *)
(* is a Load followed by a separate Store, and a refused request's        *)
(* deferred Delete removes the marker of the one in progress.             *)
(***************************************************************************)
Guarded(r) == pc[r] \in {"query", "submit", "notify"}

InFlightExclusive ==
  \A r1, r2 \in Requests :
    r1 # r2 /\ Api(r1) = Api(r2) => ~(Guarded(r1) /\ Guarded(r2))

(***************************************************************************)
(* A request answered 403 ("Already Register", "Already Remove") sends no *)
(* transaction: the refusal is the outcome.  fileRegisterRemove has no    *)
(* return after its 403 and removes anyway.                               *)
(***************************************************************************)
ForbiddenIsFinal ==
  \A r \in Requests :
    (\E k \in 1..Len(resp[r]) : resp[r][k] = 403) =>
      \A k \in 1..Len(txChan) : txChan[k] # r
=============================================================================
