----------------------------- MODULE SocUpload -----------------------------
(***************************************************************************)
(* socUploadHandler (pkg/api/soc.go, POST /soc/{owner}/{id}) run by the   *)
(* HTTP server for requests that carry the same owner and id, hence the   *)
(* same single-owner-chunk address, each with its own payload.  The       *)
(* validation chain (hex decoding, signature, span and size checks,       *)
(* cac.NewWithDataSpan, soc.NewSigned, ss.Chunk, soc.Valid) depends on    *)
(* the request alone: it is one step whose outcome is a status code or   *)
(* "valid".  Then s.storer.Has and s.storer.Put, each one atomic step on  *)
(* the store.  What Put does with an address already stored is up to the *)
(* storer (outside this repository): keep the old chunk or replace it.   *)
(***************************************************************************)
EXTENDS Naturals

CONSTANTS Requests,    \* the upload requests
          Payload,     \* request -> the chunk data it carries
          NoChunk      \* nothing stored at the address

ASSUME SocUploadAssumption ==
  /\ Requests # {}
  /\ NoChunk \notin {Payload[r] : r \in Requests}

VARIABLES spc,    \* request -> where its goroutine is
          store,  \* the chunk stored at the address, or NoChunk
          resp    \* request -> the status written, 0 before any

vars == <<spc, store, resp>>

Init ==
  /\ spc = [r \in Requests |-> "start"]
  /\ store = NoChunk
  /\ resp = [r \in Requests |-> 0]

Answer(r, code) == /\ resp' = [resp EXCEPT ![r] = code]
                   /\ spc' = [spc EXCEPT ![r] = "done"]
Goto(r, p) == spc' = [spc EXCEPT ![r] = p]

\* Lines 25-111: every early return of the validation chain (400 bad owner,
\* id, signature or chunk data, 413 payload too large, 401 invalid address
\* or chunk, 500 unreadable data), or on to the store.
Validate(r) ==
  /\ spc[r] = "start"
  /\ \/ Goto(r, "has") /\ UNCHANGED resp
     \/ \E code \in {400, 401, 413, 500} : Answer(r, code)
  /\ UNCHANGED store

\* Variant of Has with the test inverted (if !has): 409 on an empty
\* address.  AnsweredMeansStored must reject it.
HasInverted(r) ==
  /\ spc[r] = "has"
  /\ \/ Answer(r, 500)
     \/ store = NoChunk /\ Answer(r, 409)
     \/ store # NoChunk /\ Goto(r, "put") /\ UNCHANGED resp
  /\ UNCHANGED store

\* s.storer.Has: an error is 500, a stored address 409 "chunk already exists".
Has(r) ==
  /\ spc[r] = "has"
  /\ \/ Answer(r, 500)
     \/ store # NoChunk /\ Answer(r, 409)
     \/ store = NoChunk /\ Goto(r, "put") /\ UNCHANGED resp
  /\ UNCHANGED store

\* s.storer.Put: an error is 400 "chunk write error"; what a failed Put
\* leaves in the store is up to the storer.  On success the chunk is
\* stored; over a chunk already there (another request's, put after this
\* one's Has) the storer keeps either.
Put(r) ==
  /\ spc[r] = "put"
  /\ \/ Answer(r, 400) /\ store' \in {store, Payload[r]}
     \/ /\ Goto(r, "created") /\ UNCHANGED resp
        /\ store' \in IF store = NoChunk THEN {Payload[r]}
                                        ELSE {store, Payload[r]}

\* jsonhttp.Created: 201 with the chunk's address.
Created(r) ==
  /\ spc[r] = "created"
  /\ Answer(r, 201)
  /\ UNCHANGED store

Next == \E r \in Requests : Validate(r) \/ Has(r) \/ Put(r) \/ Created(r)

Spec == Init /\ [][Next]_vars

-----------------------------------------------------------------------------
TypeOK ==
  /\ spc \in [Requests -> {"start", "has", "put", "created", "done"}]
  /\ store \in {Payload[r] : r \in Requests} \cup {NoChunk}
  /\ resp \in [Requests -> {0, 201, 400, 401, 409, 413, 500}]

AnsweredMeansStored ==
  (\E r \in Requests : resp[r] \in {201, 409}) => store # NoChunk
=============================================================================
