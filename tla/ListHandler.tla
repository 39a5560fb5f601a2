---------------------------- MODULE ListHandler ----------------------------
(***************************************************************************)
(* auroraListHandler (pkg/api/files.go, lines 413-631).  The handler     *)
(* parses the request (an error is answered 500), walks the file list: HasPin for each entry *)
(* (on error the entry is skipped with continue and gets neither pinState *)
(* nor register), then converts every entry into responseList, asserting *)
(* the types of those keys.  Then the register-state fan-out: the handler *)
(* goroutine sends the index of every entry *)
(* of responseList on the buffered channel ch; a dispatcher goroutine     *)
(* takes each one, acquires a slot of the semaphore workLoad (capacity 30 *)
(* in the code) and starts getChainState for it; the handler waits on    *)
(* the WaitGroup, closes ch and writes the response.  getChainState reads *)
(* the register state from the auroraChainSate cache, or asks the oracle  *)
(* and caches the answer, and writes responseList[i].Register under the   *)
(* mutex l.  Its deferred calls run in reverse order: first <-workLoad,   *)
(* then wg.Done().                                                        *)
(***************************************************************************)
EXTENDS Naturals

CONSTANTS N,          \* len(fileListInfo), then len(responseList)
          WorkLoad,   \* cap(workLoad)
          PinCanFail  \* whether s.pinning.HasPin may return an error

ASSUME ListHandlerAssumption ==
  /\ N \in Nat \ {0}
  /\ WorkLoad \in Nat \ {0}
  /\ PinCanFail \in BOOLEAN

Items == 1..N

\* The oracle's answer to GetRegisterState: registered, not, or an error.
Answers == {"true", "false", "error"}

VARIABLES hpc,        \* the handler goroutine: "parse", "build", "send", "wait",
                      \* "close", "respond", "done", "failed" or "panic"
          k,          \* the next entry of the loop over fileListInfo
          pinOk,      \* the entries that got pinState and register
          sent,       \* how many indices the handler has sent on ch
          recvd,      \* how many the dispatcher has received
          closed,     \* close(ch) has run
          dpc,        \* the dispatcher: "recv", "acquire", "exit"
          slots,      \* len(workLoad)
          wg,         \* the WaitGroup counter
          wpc,        \* entry -> where its getChainState goroutine is
          cached,     \* the entries that have a key in auroraChainSate
          cacheVal,   \* entry -> the cached register state
          register,   \* entry -> responseList[i].Register
          response    \* entry -> the Register written in the response

vars == <<hpc, k, pinOk, sent, recvd, closed, dpc, slots, wg, wpc, cached, cacheVal,
          register, response>>

WPCs == {"idle", "start", "oracle", "write", "release", "wgdone", "finished"}

\* The cache may hold any entries when the request arrives.
Init ==
  /\ hpc = "parse"
  /\ k = 1
  /\ pinOk = {}
  /\ sent = 0
  /\ recvd = 0
  /\ closed = FALSE
  /\ dpc = "recv"
  /\ slots = 0
  /\ wg = 0
  /\ wpc = [i \in Items |-> "idle"]
  /\ cached \in SUBSET Items
  /\ cacheVal \in [Items -> BOOLEAN]
  /\ register = [i \in Items |-> FALSE]
  /\ response = [i \in Items |-> FALSE]

\* Reading the body and unmarshalling page, filter, sort and body, and the
\* page check: any failure is answered 500 and the handler returns.
Parse ==
  /\ hpc = "parse"
  /\ hpc' \in {"build", "failed"}
  /\ UNCHANGED <<k, pinOk, sent, recvd, closed, dpc, slots, wg, wpc, cached, cacheVal, register, response>>

\* One iteration of the loop over fileListInfo: HasPin, then pinState and
\* register = registerStatus(rootCid), read from auroraChainSate; on a
\* HasPin error, continue.
Build ==
  /\ hpc = "build"
  /\ k <= N
  /\ \/ /\ pinOk' = pinOk \cup {k}
        /\ register' = [register EXCEPT ![k] = k \in cached /\ cacheVal[k]]
     \/ PinCanFail /\ UNCHANGED <<pinOk, register>>
  /\ k' = k + 1
  /\ UNCHANGED <<hpc, sent, recvd, closed, dpc, slots, wg, wpc, cached, cacheVal, response>>

\* The loop building responseList asserts v["pinState"].(bool), which
\* panics on an entry that has no such key; otherwise wg.Add(len).
Collect ==
  /\ hpc = "build"
  /\ k = N + 1
  /\ \/ pinOk = Items /\ wg' = N /\ hpc' = "send"
     \/ pinOk # Items /\ hpc' = "panic" /\ UNCHANGED wg
  /\ UNCHANGED <<k, pinOk, sent, recvd, closed, dpc, slots, wpc, cached, cacheVal, register, response>>

\* for i, v := range responseList { ch <- hashChain }: the buffer holds N.
Send ==
  /\ hpc = "send"
  /\ sent < N
  /\ sent' = sent + 1
  /\ hpc' = IF sent + 1 = N THEN "wait" ELSE "send"
  /\ UNCHANGED <<k, pinOk, recvd, closed, dpc, slots, wg, wpc, cached, cacheVal, register, response>>

\* Variant of Wait that does not block on the counter (wg.Wait() left
\* out): ResponseSettled must reject it.
WaitNoBlock ==
  /\ hpc = "wait"
  /\ hpc' = "close"
  /\ UNCHANGED <<k, pinOk, sent, recvd, closed, dpc, slots, wg, wpc, cached, cacheVal, register, response>>

\* wg.Wait()
Wait ==
  /\ hpc = "wait"
  /\ wg = 0
  /\ hpc' = "close"
  /\ UNCHANGED <<k, pinOk, sent, recvd, closed, dpc, slots, wg, wpc, cached, cacheVal, register, response>>

\* close(ch)
Close ==
  /\ hpc = "close"
  /\ closed' = TRUE
  /\ hpc' = "respond"
  /\ UNCHANGED <<k, pinOk, sent, recvd, dpc, slots, wg, wpc, cached, cacheVal, register, response>>

\* jsonhttp.OK(w, responseList) (sorted first when there is no paging).
Respond ==
  /\ hpc = "respond"
  /\ response' = register
  /\ hpc' = "done"
  /\ UNCHANGED <<k, pinOk, sent, recvd, closed, dpc, slots, wg, wpc, cached, cacheVal, register>>

\* for v := range ch: the next index, or the end of the loop once ch is
\* closed and drained.
Receive ==
  /\ dpc = "recv"
  /\ \/ recvd < sent /\ recvd' = recvd + 1 /\ dpc' = "acquire"
     \/ recvd = sent /\ closed /\ dpc' = "exit" /\ UNCHANGED recvd
  /\ UNCHANGED <<hpc, k, pinOk, sent, closed, slots, wg, wpc, cached, cacheVal, register, response>>

\* Variant of Acquire with a semaphore that never blocks: TypeOK, which
\* bounds len(workLoad) by its capacity, must reject it.
AcquireNoBound ==
  /\ dpc = "acquire"
  /\ slots' = slots + 1
  /\ wpc' = [wpc EXCEPT ![recvd] = "start"]
  /\ dpc' = "recv"
  /\ UNCHANGED <<hpc, k, pinOk, sent, recvd, closed, wg, cached, cacheVal, register, response>>

\* workLoad <- struct{}{} (blocks while the semaphore is full), then
\* go getChainState(...) for entry recvd.
Acquire ==
  /\ dpc = "acquire"
  /\ slots < WorkLoad
  /\ slots' = slots + 1
  /\ wpc' = [wpc EXCEPT ![recvd] = "start"]
  /\ dpc' = "recv"
  /\ UNCHANGED <<hpc, k, pinOk, sent, recvd, closed, wg, cached, cacheVal, register, response>>

SetW(i, p) == wpc' = [wpc EXCEPT ![i] = p]

\* Variant of Lookup whose early return on a cache hit skips <-workLoad
\* (the release written inline instead of deferred): Terminates must
\* reject it.
LookupHitKeepsSlot(i) ==
  /\ wpc[i] = "start"
  /\ \/ i \in cached /\ register' = [register EXCEPT ![i] = cacheVal[i]] /\ SetW(i, "wgdone")
     \/ i \notin cached /\ SetW(i, "oracle") /\ UNCHANGED register
  /\ UNCHANGED <<hpc, k, pinOk, sent, recvd, closed, dpc, slots, wg, cached, cacheVal, response>>

\* s.auroraChainSate.Load: a hit is copied into Register under l and the
\* goroutine returns; a miss asks the oracle.
Lookup(i) ==
  /\ wpc[i] = "start"
  /\ \/ i \in cached /\ register' = [register EXCEPT ![i] = cacheVal[i]] /\ SetW(i, "release")
     \/ i \notin cached /\ SetW(i, "oracle") /\ UNCHANGED register
  /\ UNCHANGED <<hpc, k, pinOk, sent, recvd, closed, dpc, slots, wg, cached, cacheVal, response>>

\* GetRegisterState and the Store of its outcome: true only when the call
\* succeeded and said so; an error is cached as false.
AskOracle(i) ==
  /\ wpc[i] = "oracle"
  /\ \E a \in Answers :
       /\ cached' = cached \cup {i}
       /\ cacheVal' = [cacheVal EXCEPT ![i] = (a = "true")]
       /\ SetW(i, IF a = "true" THEN "write" ELSE "release")
  /\ UNCHANGED <<hpc, k, pinOk, sent, recvd, closed, dpc, slots, wg, register, response>>

\* l.Lock(); responseList[i].Register = true; l.Unlock()
WriteTrue(i) ==
  /\ wpc[i] = "write"
  /\ register' = [register EXCEPT ![i] = TRUE]
  /\ SetW(i, "release")
  /\ UNCHANGED <<hpc, k, pinOk, sent, recvd, closed, dpc, slots, wg, cached, cacheVal, response>>

\* The deferred <-workLoad.
Release(i) ==
  /\ wpc[i] = "release"
  /\ slots' = slots - 1
  /\ SetW(i, "wgdone")
  /\ UNCHANGED <<hpc, k, pinOk, sent, recvd, closed, dpc, wg, cached, cacheVal, register, response>>

\* The deferred wg.Done().
Done(i) ==
  /\ wpc[i] = "wgdone"
  /\ wg' = wg - 1
  /\ SetW(i, "finished")
  /\ UNCHANGED <<hpc, k, pinOk, sent, recvd, closed, dpc, slots, cached, cacheVal, register, response>>

Handler == Parse \/ Build \/ Collect \/ Send \/ Wait \/ Close \/ Respond
Dispatcher == Receive \/ Acquire
Worker(i) == Lookup(i) \/ AskOracle(i) \/ WriteTrue(i) \/ Release(i) \/ Done(i)

Next == Handler \/ Dispatcher \/ \E i \in Items : Worker(i)

\* The Go scheduler runs every runnable goroutine eventually.
Fairness ==
  /\ WF_vars(Handler)
  /\ WF_vars(Dispatcher)
  /\ \A i \in Items : WF_vars(Worker(i))

Spec == Init /\ [][Next]_vars /\ Fairness

-----------------------------------------------------------------------------
TypeOK ==
  /\ hpc \in {"parse", "build", "send", "wait", "close", "respond", "done",
          "failed", "panic"}
  /\ k \in 1..(N + 1)
  /\ pinOk \subseteq Items
  /\ sent \in 0..N /\ recvd \in 0..sent
  /\ closed \in BOOLEAN
  /\ dpc \in {"recv", "acquire", "exit"}
  /\ slots \in 0..WorkLoad
  /\ wg \in 0..N
  /\ wpc \in [Items -> WPCs]
  /\ cached \subseteq Items
  /\ cacheVal \in [Items -> BOOLEAN]
  /\ register \in [Items -> BOOLEAN]
  /\ response \in [Items -> BOOLEAN]

(***************************************************************************)
(* The response carries every register state the goroutines found: once  *)
(* the handler has written it, no goroutine writes responseList again,   *)
(* and each entry says registered exactly when the cache or the oracle    *)
(* said so.  It breaks if wg.Done() can run before a goroutine's write.   *)
(***************************************************************************)
ResponseSettled ==
  hpc = "done" =>
    /\ response = register
    /\ \A i \in Items : response[i] = (i \in cached /\ cacheVal[i])

(***************************************************************************)
(* The request ends: the handler returns and the dispatcher goroutine    *)
(* ends, nobody waiting forever on the semaphore, the WaitGroup or the    *)
(* channel; or the request is refused, or the conversion loop panics,    *)
(* before any goroutine starts.                                           *)
(***************************************************************************)
Terminates == <>(hpc \in {"failed", "panic"} \/ (hpc = "done" /\ dpc = "exit"))

(***************************************************************************)
(* The HasPin error path says "continue": the entry is skipped and the    *)
(* handler goes on.  The conversion loop then meets the entry without its *)
(* pinState key and the type assertion panics.                            *)
(***************************************************************************)
NoListPanic == hpc # "panic"
=============================================================================
