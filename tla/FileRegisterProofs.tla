------------------------- MODULE FileRegisterProofs -------------------------
(***************************************************************************)
(* Proofs about FileRegister for every set of register and remove         *)
(* requests.  MarkerOwned is not inductive as it stands: when a request   *)
(* finishes, the proof must know that it does not own a marker of another *)
(* handler, and that a request finishing at Resolve never stored one.     *)
(* The strengthening says that a request that stored its marker is past   *)
(* the Load and Store steps.                                              *)
(***************************************************************************)
EXTENDS FileRegister, SequenceTheorems, TLAPS

USE FileRegisterAssumption

\* The requests that have stored their marker are past the Store step.
StoredPast == \A r \in stored : pc[r] \notin {"start", "check", "store"}

IInv ==
  /\ TypeOK
  /\ MarkerOwned
  /\ StoredPast

\* A step of one request leaves the others' program counters alone.
LEMMA HandleFrame ==
  ASSUME TypeOK, NEW r \in Requests, Handle(r)
  PROVE  \A q \in Requests \ {r} : pc'[q] = pc[q]
BY DEF TypeOK, Handle, Resolve, Check, Store, Query, Submit, Notify, Cleanup, Goto

\* Write appends a status code to the request's responses.
LEMMA WriteType ==
  ASSUME TypeOK, NEW r \in Requests, NEW code \in Codes, Write(r, code)
  PROVE  resp' \in [Requests -> Seq(Codes)]
<1>1. Append(resp[r], code) \in Seq(Codes)
  BY AppendProperties DEF TypeOK
<1>2. QED
  BY <1>1 DEF Write, TypeOK

\* Goto moves the request to a program counter.
LEMMA GotoType ==
  ASSUME TypeOK, NEW r \in Requests, NEW p \in PCs, Goto(r, p)
  PROVE  pc' \in [Requests -> PCs]
BY DEF Goto, TypeOK

\* Every step keeps the type invariant.
LEMMA TypeStep == TypeOK /\ [Next]_vars => TypeOK'
<1> SUFFICES ASSUME TypeOK, [Next]_vars PROVE TypeOK'
  OBVIOUS
<1>0. /\ {200, 403, 404, 500} \subseteq Codes
      /\ {"check", "store", "query", "submit", "notify", "cleanup", "done"} \subseteq PCs
  BY DEF Codes, PCs
<1>1. ASSUME NEW r \in Requests, Handle(r) PROVE TypeOK'
  <2>1. CASE Resolve(r)
    BY <1>0, <2>1, WriteType, GotoType DEF Resolve, TypeOK
  <2>2. CASE Check(r)
    BY <1>0, <2>2, WriteType, GotoType DEF Check, TypeOK, Api
  <2>3. CASE Store(r)
    BY <1>0, <2>3, GotoType DEF Store, TypeOK, Api
  <2>4. CASE Query(r)
    BY <1>0, <2>4, WriteType, GotoType DEF Query, TypeOK
  <2>5. CASE Submit(r)
    <3>1. Append(pending, Api(r)) \in Seq({"fileRegister", "fileRegisterRemove"})
      <4>1. Api(r) \in {"fileRegister", "fileRegisterRemove"}
        BY DEF Api
      <4>2. QED
        BY <4>1, AppendProperties DEF TypeOK
    <3>2. CASE Goto(r, "cleanup") /\ Write(r, 500) /\ UNCHANGED pending
      BY <1>0, <2>5, <3>2, WriteType, GotoType DEF Submit, TypeOK
    <3>3. CASE Goto(r, "notify") /\ pending' = Append(pending, Api(r))
               /\ UNCHANGED resp
      BY <1>0, <2>5, <3>1, <3>3, GotoType DEF Submit, TypeOK
    <3>4. QED
      BY <2>5, <3>2, <3>3 DEF Submit
  <2>6. CASE Notify(r)
    BY <1>0, <2>6, WriteType, GotoType, AppendProperties DEF Notify, TypeOK
  <2>7. CASE Cleanup(r)
    BY <1>0, <2>7, GotoType DEF Cleanup, TypeOK
  <2>8. QED
    BY <1>1, <2>1, <2>2, <2>3, <2>4, <2>5, <2>6, <2>7 DEF Handle
<1>2. CASE Mine
  BY <1>2, HeadTailProperties DEF Mine, TypeOK
<1>3. CASE UNCHANGED vars
  BY <1>3 DEF vars, TypeOK
<1>4. QED
  BY <1>1, <1>2, <1>3 DEF Next

\* Every initial state is well typed.
LEMMA TypeInit == Init => TypeOK
<1>1. /\ << >> \in Seq(Codes)
      /\ << >> \in Seq({"fileRegister", "fileRegisterRemove"})
      /\ << >> \in Seq(Requests)
  BY EmptySeq
<1>2. QED
  BY <1>1 DEF Init, TypeOK, PCs

\* The type invariant of the handlers' and the oracle's variables.
THEOREM TypeCorrect == Spec => []TypeOK
BY TypeInit, TypeStep, PTL DEF Spec

\* Every step keeps IInv: one case per handler step, and the oracle.
LEMMA IInvInductive == IInv /\ [Next]_vars => IInv'
<1> SUFFICES ASSUME IInv, [Next]_vars PROVE IInv'
  OBVIOUS
<1> USE DEF IInv
<1>0. TypeOK'
  BY TypeStep
<1>1. ASSUME NEW r \in Requests, Handle(r) PROVE IInv'
  <2>1. \A q \in Requests \ {r} : pc'[q] = pc[q]
    BY <1>1, HandleFrame
  <2>2. CASE Resolve(r)
    <3>1. r \notin stored /\ stored' = stored /\ tranProcess' = tranProcess
      BY <2>2 DEF Resolve, TypeOK, StoredPast
    <3>2. QED
      BY <1>0, <2>1, <3>1 DEF TypeOK, MarkerOwned, StoredPast
  <2>3. CASE Check(r)
    <3>1. r \notin stored /\ stored' = stored /\ tranProcess' = tranProcess
      BY <2>3 DEF Check, TypeOK, StoredPast
    <3>2. pc'[r] # "done"
      BY <2>3 DEF Check, Goto, TypeOK
    <3>3. QED
      BY <1>0, <2>1, <3>1, <3>2 DEF TypeOK, MarkerOwned, StoredPast
  <2>4. CASE Store(r)
    <3>1. /\ stored' = stored \cup {r}
          /\ tranProcess' = tranProcess \cup {Api(r)}
          /\ pc'[r] = "query"
      BY <2>4 DEF Store, Goto, TypeOK
    <3>2. QED
      BY <1>0, <2>1, <3>1 DEF TypeOK, MarkerOwned, StoredPast
  <2>5. CASE Query(r) \/ Submit(r) \/ Notify(r)
    <3>1. /\ stored' = stored /\ tranProcess' = tranProcess
          /\ pc[r] \in {"query", "submit", "notify"}
          /\ pc'[r] \in {"submit", "notify", "cleanup"}
      BY <2>5 DEF Query, Submit, Notify, Goto, TypeOK
    <3>2. QED
      BY <1>0, <2>1, <3>1 DEF TypeOK, MarkerOwned, StoredPast
  <2>6. CASE Cleanup(r)
    <3>1. /\ stored' = stored
          /\ tranProcess' = tranProcess \ {Api(r)}
          /\ pc[r] = "cleanup" /\ pc'[r] = "done"
      BY <2>6 DEF Cleanup, Goto, TypeOK
    <3>2. QED
      BY <1>0, <2>1, <3>1 DEF TypeOK, MarkerOwned, StoredPast
  <2>7. QED
    BY <1>1, <2>2, <2>3, <2>4, <2>5, <2>6 DEF Handle
<1>2. CASE Mine
  BY <1>0, <1>2 DEF MarkerOwned, StoredPast, Mine
<1>3. CASE UNCHANGED vars
  BY <1>0, <1>3 DEF MarkerOwned, StoredPast, vars
<1>4. QED
  BY <1>1, <1>2, <1>3 DEF Next

(***************************************************************************)
(* For any number of concurrent fileRegister and fileRegisterRemove       *)
(* requests, every in-flight marker in s.tranProcess belongs to a request *)
(* of its handler that has stored it and not yet returned: no return path *)
(* skips the deferred Delete, so an address is never refused "under       *)
(* processing" for good.                                                  *)
(***************************************************************************)
THEOREM MarkerOwnedSafe == Spec => []MarkerOwned
<1>1. Init => IInv
  BY TypeInit DEF Init, IInv, MarkerOwned, StoredPast
<1>2. IInv => MarkerOwned
  BY DEF IInv
<1>3. QED
  BY <1>1, <1>2, IInvInductive, PTL DEF Spec
=============================================================================
