-------------------------- MODULE SocUploadProofs --------------------------
(***************************************************************************)
(* Proofs about SocUpload for every set of requests and payloads.         *)
(* AnsweredMeansStored alone is not inductive: the 201 of Created comes   *)
(* a step after the Put, and the proof must know that a request waiting  *)
(* to answer 201 found the store filled.  The strengthening says so; the *)
(* rest follows because no step empties the store: every write puts a    *)
(* payload, and no payload is NoChunk.                                    *)
(***************************************************************************)
EXTENDS SocUpload, TLAPS

USE SocUploadAssumption

IInv ==
  /\ TypeOK
  /\ AnsweredMeansStored
  /\ \A r \in Requests : spc[r] = "created" => store # NoChunk

\* Every step keeps the types of where the goroutines are, what is stored
\* and the status codes written.
LEMMA TypeStep == TypeOK /\ [Next]_vars => TypeOK'
<1> SUFFICES ASSUME TypeOK, [Next]_vars PROVE TypeOK'
  OBVIOUS
<1>1. ASSUME NEW r \in Requests,
             Validate(r) \/ Has(r) \/ Put(r) \/ Created(r)
      PROVE  TypeOK'
  BY <1>1 DEF Validate, Has, Put, Created, Answer, Goto, TypeOK
<1>2. CASE UNCHANGED vars
  BY <1>2 DEF vars, TypeOK
<1>3. QED
  BY <1>1, <1>2 DEF Next

\* The type invariant: where the goroutines are, what is stored, the codes.
THEOREM TypeCorrect == Spec => []TypeOK
<1>1. Init => TypeOK
  BY DEF Init, TypeOK
<1>2. QED
  BY <1>1, TypeStep, PTL DEF Spec

\* No step of any request empties a filled store.
LEMMA StoreStaysFilled ==
  ASSUME TypeOK, [Next]_vars, store # NoChunk
  PROVE  store' # NoChunk
<1>1. ASSUME NEW r \in Requests, Put(r) PROVE store' # NoChunk
  BY <1>1 DEF Put
<1>2. QED
  BY <1>1 DEF Next, vars, Validate, Has, Created

\* Every step keeps IInv: one case per handler step.
LEMMA IInvInductive == IInv /\ [Next]_vars => IInv'
<1> SUFFICES ASSUME IInv, [Next]_vars PROVE IInv'
  OBVIOUS
<1>0. TypeOK'
  BY TypeStep DEF IInv
<1>1. ASSUME NEW r \in Requests, Validate(r) PROVE IInv'
  BY <1>1, <1>0, StoreStaysFilled
     DEF IInv, TypeOK, AnsweredMeansStored, Validate, Answer, Goto
<1>2. ASSUME NEW r \in Requests, Has(r) PROVE IInv'
  BY <1>2, <1>0, StoreStaysFilled
     DEF IInv, TypeOK, AnsweredMeansStored, Has, Answer, Goto
<1>3. ASSUME NEW r \in Requests, Put(r) PROVE IInv'
  <2>1. CASE store # NoChunk
    <3>1. store' # NoChunk
      BY <1>3, <2>1 DEF Put
    <3>2. QED
      BY <1>3, <1>0, <3>1 DEF IInv, TypeOK, AnsweredMeansStored, Put, Answer, Goto
  <2>2. CASE store = NoChunk
    \* Nothing is answered 201 or 409 and no request is in "created" yet.
    <3>1. /\ \A q \in Requests : resp[q] \notin {201, 409}
          /\ \A q \in Requests : spc[q] # "created"
      BY <2>2 DEF IInv, AnsweredMeansStored
    <3>2. CASE Answer(r, 400) /\ store' \in {store, Payload[r]}
      BY <1>0, <3>1, <3>2 DEF IInv, TypeOK, AnsweredMeansStored, Answer
    <3>3. CASE Goto(r, "created") /\ UNCHANGED resp /\ store' = Payload[r]
      BY <3>3 DEF IInv, TypeOK, AnsweredMeansStored, Goto
    <3>4. QED
      BY <1>3, <2>2, <3>2, <3>3 DEF Put
  <2>3. QED
    BY <2>1, <2>2
<1>4. ASSUME NEW r \in Requests, Created(r) PROVE IInv'
  BY <1>4, <1>0 DEF IInv, TypeOK, AnsweredMeansStored, Created, Answer
<1>5. CASE UNCHANGED vars
  BY <1>5 DEF IInv, TypeOK, AnsweredMeansStored, vars
<1>6. QED
  BY <1>1, <1>2, <1>3, <1>4, <1>5 DEF Next

(***************************************************************************)
(* Whatever the interleaving of Has, Put and the answers of any number of *)
(* uploads to one address, and whatever a failed or a second Put leaves,  *)
(* once an upload is told 201 Created or 409 Conflict the address holds a *)
(* chunk.                                                                  *)
(***************************************************************************)
THEOREM AnsweredMeansStoredSafe == Spec => []AnsweredMeansStored
<1>1. Init => IInv
  BY DEF Init, IInv, TypeOK, AnsweredMeansStored
<1>2. IInv => AnsweredMeansStored
  BY DEF IInv
<1>3. QED
  BY <1>1, <1>2, IInvInductive, PTL DEF Spec
=============================================================================
