------------------------- MODULE ListHandlerProofs -------------------------
(***************************************************************************)
(* Proofs about ListHandler for every number of entries and every size of *)
(* the workLoad semaphore.  Neither TypeOK nor ResponseSettled is          *)
(* inductive as it stands.  The semaphore and the WaitGroup are counters, *)
(* and their bounds hold because each counts goroutines: len(workLoad) is *)
(* the number of getChainState goroutines between their start and their  *)
(* deferred <-workLoad, and after wg.Add the WaitGroup counter is the     *)
(* number not yet past their deferred wg.Done.  ResponseSettled then      *)
(* follows because wg.Wait returns only when every goroutine has written, *)
(* and because each entry's register state matches the cache except while *)
(* its goroutine is between the oracle's answer and its write.            *)
(***************************************************************************)
EXTENDS ListHandler, FiniteSets, FiniteSetTheorems, TLAPS

USE ListHandlerAssumption

\* The handler's states before wg.Add, and those after wg.Wait.
PreAdd == {"parse", "build", "failed", "panic"}
PostWait == {"close", "respond", "done"}

\* The goroutines holding a slot of workLoad, and those not yet done.
Busy == {i \in Items : wpc[i] \in {"start", "oracle", "write", "release"}}
Unfinished == {i \in Items : wpc[i] # "finished"}

\* responseList[i].Register is what the cache says of entry i.
Matches(i) == register[i] = (i \in cached /\ cacheVal[i])

\* The HasPin loop has only touched the entries before k.
PinPrefix == pinOk \subseteq 1..(k - 1)

\* Before wg.Add nothing is sent and the counter is 0; after it, the
\* counter is the number of goroutines not yet done, and the handler
\* sends every entry before it waits.
Phase ==
  /\ hpc \in PreAdd => sent = 0 /\ wg = 0
  /\ hpc \notin PreAdd => pinOk = Items /\ wg = Cardinality(Unfinished)
  /\ hpc = "send" => sent < N
  /\ hpc \in {"wait"} \cup PostWait => sent = N

\* After wg.Wait every goroutine is done, and the response is the list.
Waited ==
  /\ hpc \in PostWait => \A i \in Items : wpc[i] = "finished"
  /\ hpc = "done" => response = register

\* The dispatcher has started a goroutine for each entry it received,
\* except the one it is acquiring a slot for.
Started ==
  /\ dpc = "acquire" => recvd >= 1
  /\ \A i \in Items :
       wpc[i] = "idle" <=> (i > recvd \/ (i = recvd /\ dpc = "acquire"))

\* len(workLoad) counts the goroutines holding a slot.
SlotCount == slots = Cardinality(Busy)

\* Register agrees with the cache, except between a true answer of the
\* oracle and the write; a goroutine asking the oracle had a cache miss.
CacheAgrees ==
  /\ \A i \in pinOk : wpc[i] # "write" => Matches(i)
  /\ \A i \in Items : wpc[i] = "write" => i \in cached /\ cacheVal[i]
  /\ \A i \in Items : wpc[i] = "oracle" => i \notin cached

IInv ==
  /\ TypeOK
  /\ PinPrefix
  /\ Phase
  /\ Waited
  /\ Started
  /\ SlotCount
  /\ CacheAgrees

\* A set of entries is finite and has at most N of them.
LEMMA CountBound ==
  ASSUME NEW S \in SUBSET Items
  PROVE  IsFiniteSet(S) /\ Cardinality(S) \in 0..N
<1>1. IsFiniteSet(Items) /\ Cardinality(Items) = N
  BY FS_Interval DEF Items
<1>2. QED
  BY <1>1, FS_Subset, FS_CardinalityType

\* Adding an entry that is not in the set counts one more.
LEMMA CountAdd ==
  ASSUME NEW S \in SUBSET Items, NEW x \in Items \ S
  PROVE  Cardinality(S \cup {x}) = Cardinality(S) + 1
BY CountBound, FS_AddElement

\* Removing an entry of the set counts one less.
LEMMA CountRemove ==
  ASSUME NEW S \in SUBSET Items, NEW x \in S
  PROVE  Cardinality(S \ {x}) = Cardinality(S) - 1
BY CountBound, FS_RemoveElement

\* A goroutine that has started belongs to an entry the handler sent, so
\* the handler is past wg.Add and every entry has its pinState.
LEMMA StartedPastAdd ==
  ASSUME IInv, NEW i \in Items, wpc[i] # "idle"
  PROVE  hpc \notin PreAdd /\ pinOk = Items /\ i <= recvd
BY DEF IInv, TypeOK, Items, Phase, Started

\* Every initial state satisfies IInv: no goroutine has started.
LEMMA InitIInv == Init => IInv
<1> SUFFICES ASSUME Init PROVE IInv
  OBVIOUS
<1>1. Busy = {}
  BY DEF Init, Busy
<1>2. Cardinality(Busy) = 0
  BY <1>1, FS_EmptySet
<1>3. TypeOK
  <2>1. /\ k \in 1..(N + 1) /\ sent \in 0..N /\ recvd \in 0..sent
        /\ slots \in 0..WorkLoad /\ wg \in 0..N
    BY DEF Init
  <2>2. QED
    BY <2>1, Zenon DEF Init, TypeOK, WPCs
<1>4. \A i \in Items :
        wpc[i] = "idle" <=> (i > recvd \/ (i = recvd /\ dpc = "acquire"))
  BY DEF Init, Items
<1>5. QED
  BY <1>2, <1>3, <1>4 DEF Init, IInv, PreAdd, PostWait, PinPrefix, Phase, Waited,
                          Started, SlotCount, CacheAgrees


\* Parsing the request: the handler goes on to the HasPin loop or answers 500.
LEMMA ParseStep ==
  ASSUME IInv, Parse
  PROVE  IInv'
<1>1. /\ hpc = "parse" /\ hpc' \in {"build", "failed"}
      /\ UNCHANGED <<k, pinOk, sent, recvd, closed, dpc, slots, wg, wpc, cached,
                     cacheVal, register, response>>
  BY Zenon DEF Parse
<1>2. TypeOK'
  BY <1>1 DEF IInv, TypeOK
<1>3. QED
  BY <1>1, <1>2 DEF IInv, PinPrefix, Phase, Waited, Started, SlotCount,
                    CacheAgrees, PreAdd, PostWait, Busy, Unfinished, Matches

\* One iteration of the HasPin loop, with or without pinState.
LEMMA BuildStep ==
  ASSUME IInv, Build
  PROVE  IInv'
<1>1. /\ hpc = "build" /\ k <= N /\ k' = k + 1
      /\ UNCHANGED <<hpc, sent, recvd, closed, dpc, slots, wg, wpc, cached,
                     cacheVal, response>>
  BY Zenon DEF Build
<1>2. k \in Items /\ k \notin pinOk /\ k' \in 1..(N + 1)
  BY <1>1 DEF IInv, TypeOK, PinPrefix, Items
<1>3. /\ Phase' /\ Waited' /\ Started' /\ SlotCount'
      /\ (\A i \in Items : wpc[i] = "write" => i \in cached /\ cacheVal[i])'
      /\ (\A i \in Items : wpc[i] = "oracle" => i \notin cached)'
  BY <1>1 DEF IInv, Phase, Waited, Started, SlotCount, CacheAgrees, PreAdd,
              PostWait, Busy
<1>4. CASE pinOk' = pinOk \cup {k}
           /\ register' = [register EXCEPT ![k] = k \in cached /\ cacheVal[k]]
  <2>1. TypeOK' /\ PinPrefix'
    BY <1>1, <1>2, <1>4 DEF IInv, TypeOK, PinPrefix
  <2>2. (\A i \in pinOk : wpc[i] # "write" => Matches(i))'
    BY <1>1, <1>2, <1>4 DEF IInv, TypeOK, CacheAgrees, Matches
  <2>3. QED
    BY <1>3, <2>1, <2>2 DEF IInv, CacheAgrees
<1>5. CASE pinOk' = pinOk /\ register' = register
  <2>1. TypeOK' /\ PinPrefix'
    BY <1>1, <1>2, <1>5 DEF IInv, TypeOK, PinPrefix
  <2>2. QED
    BY <1>1, <1>3, <1>5, <2>1 DEF IInv, CacheAgrees, Matches
<1>6. QED
  BY <1>4, <1>5, Zenon DEF Build

\* The conversion loop: a panic, or wg.Add(len(responseList)) with no
\* goroutine started yet, so the counter is the number not yet done.
LEMMA CollectStep ==
  ASSUME IInv, Collect
  PROVE  IInv'
<1>1. /\ hpc = "build" /\ k = N + 1
      /\ UNCHANGED <<k, pinOk, sent, recvd, closed, dpc, slots, wpc, cached,
                     cacheVal, register, response>>
  BY Zenon DEF Collect
<1>2. sent = 0 /\ recvd = 0 /\ wg = 0
  BY <1>1 DEF IInv, TypeOK, Phase, PreAdd
<1>3. /\ PinPrefix' /\ Started' /\ SlotCount' /\ CacheAgrees'
  BY <1>1 DEF IInv, PinPrefix, Started, SlotCount, CacheAgrees, Busy, Matches
<1>4. CASE pinOk = Items /\ wg' = N /\ hpc' = "send"
  <2>1. \A i \in Items : wpc[i] = "idle"
    BY <1>2 DEF IInv, Started, Items
  <2>2. Unfinished' = Items
    BY <1>1, <2>1 DEF Unfinished
  <2>3. Cardinality(Unfinished') = N
    BY <2>2, FS_Interval DEF Items
  <2>4. TypeOK'
    BY <1>1, <1>4 DEF IInv, TypeOK
  <2>5. Phase' /\ Waited'
    BY <1>1, <1>2, <1>4, <2>3 DEF Phase, Waited, PreAdd, PostWait
  <2>6. QED
    BY <1>3, <2>4, <2>5 DEF IInv
<1>5. CASE hpc' = "panic" /\ UNCHANGED wg
  <2>1. TypeOK'
    BY <1>1, <1>5 DEF IInv, TypeOK
  <2>2. Phase' /\ Waited'
    BY <1>1, <1>2, <1>5 DEF Phase, Waited, PreAdd, PostWait
  <2>3. QED
    BY <1>3, <2>1, <2>2 DEF IInv
<1>6. QED
  BY <1>4, <1>5, Zenon DEF Collect

\* ch <- hashChain: the handler waits once it has sent every entry.
LEMMA SendStep ==
  ASSUME IInv, Send
  PROVE  IInv'
<1>1. /\ hpc = "send" /\ sent < N /\ sent' = sent + 1
      /\ hpc' = IF sent + 1 = N THEN "wait" ELSE "send"
      /\ UNCHANGED <<k, pinOk, recvd, closed, dpc, slots, wg, wpc, cached,
                     cacheVal, register, response>>
  BY Zenon DEF Send
<1>2. TypeOK'
  BY <1>1 DEF IInv, TypeOK
<1>3. Phase'
  BY <1>1 DEF IInv, TypeOK, Phase, PreAdd, PostWait, Unfinished
<1>4. QED
  BY <1>1, <1>2, <1>3 DEF IInv, PinPrefix, Waited, Started, SlotCount,
                          CacheAgrees, PostWait, Busy, Matches

\* wg.Wait() returns when the counter is 0: every goroutine is done.
LEMMA WaitStep ==
  ASSUME IInv, Wait
  PROVE  IInv'
<1>1. /\ hpc = "wait" /\ wg = 0 /\ hpc' = "close"
      /\ UNCHANGED <<k, pinOk, sent, recvd, closed, dpc, slots, wg, wpc, cached,
                     cacheVal, register, response>>
  BY Zenon DEF Wait
<1>2. Unfinished = {}
  <2>1. Cardinality(Unfinished) = 0
    BY <1>1 DEF IInv, Phase, PreAdd
  <2>2. IsFiniteSet(Unfinished)
    BY CountBound DEF Unfinished
  <2>3. QED
    BY <2>1, <2>2, FS_EmptySet
<1>3. \A i \in Items : wpc[i] = "finished"
  BY <1>2 DEF Unfinished
<1>4. TypeOK'
  BY <1>1 DEF IInv, TypeOK
<1>5. Phase' /\ Waited'
  BY <1>1, <1>3 DEF IInv, Phase, Waited, PreAdd, PostWait, Unfinished
<1>6. QED
  BY <1>1, <1>4, <1>5 DEF IInv, PinPrefix, Started, SlotCount, CacheAgrees,
                          Busy, Matches

\* close(ch), then jsonhttp.OK with responseList.
LEMMA CloseRespondStep ==
  ASSUME IInv, Close \/ Respond
  PROVE  IInv'
<1>1. CASE Close
  <2>1. /\ hpc = "close" /\ hpc' = "respond" /\ closed' = TRUE
        /\ UNCHANGED <<k, pinOk, sent, recvd, dpc, slots, wg, wpc, cached,
                       cacheVal, register, response>>
    BY <1>1, Zenon DEF Close
  <2>2. TypeOK'
    BY <2>1 DEF IInv, TypeOK
  <2>3. QED
    BY <2>1, <2>2 DEF IInv, PinPrefix, Phase, Waited, Started, SlotCount,
                      CacheAgrees, PreAdd, PostWait, Busy, Unfinished, Matches
<1>2. CASE Respond
  <2>1. /\ hpc = "respond" /\ hpc' = "done" /\ response' = register
        /\ UNCHANGED <<k, pinOk, sent, recvd, closed, dpc, slots, wg, wpc,
                       cached, cacheVal, register>>
    BY <1>2, Zenon DEF Respond
  <2>2. TypeOK'
    BY <2>1 DEF IInv, TypeOK
  <2>3. QED
    BY <2>1, <2>2 DEF IInv, PinPrefix, Phase, Waited, Started, SlotCount,
                      CacheAgrees, PreAdd, PostWait, Busy, Unfinished, Matches
<1>3. QED
  BY <1>1, <1>2

\* for v := range ch: the next entry, or the end once ch is closed and drained.
LEMMA ReceiveStep ==
  ASSUME IInv, Receive
  PROVE  IInv'
<1>1. /\ dpc = "recv"
      /\ UNCHANGED <<hpc, k, pinOk, sent, closed, slots, wg, wpc, cached,
                     cacheVal, register, response>>
  BY Zenon DEF Receive
<1>2. /\ PinPrefix' /\ Phase' /\ Waited' /\ SlotCount' /\ CacheAgrees'
  BY <1>1 DEF IInv, PinPrefix, Phase, Waited, SlotCount, CacheAgrees, PreAdd,
              PostWait, Busy, Unfinished, Matches
<1>3. CASE recvd < sent /\ recvd' = recvd + 1 /\ dpc' = "acquire"
  <2>1. TypeOK'
    BY <1>1, <1>3 DEF IInv, TypeOK
  <2>2. Started'
    BY <1>1, <1>3 DEF IInv, TypeOK, Started, Items
  <2>3. QED
    BY <1>2, <2>1, <2>2 DEF IInv
<1>4. CASE dpc' = "exit" /\ UNCHANGED recvd
  <2>1. TypeOK'
    BY <1>1, <1>4 DEF IInv, TypeOK
  <2>2. Started'
    BY <1>1, <1>4 DEF IInv, Started
  <2>3. QED
    BY <1>2, <2>1, <2>2 DEF IInv
<1>5. QED
  BY <1>3, <1>4, Zenon DEF Receive

\* workLoad <- struct{}{} and go getChainState: entry recvd takes a slot.
LEMMA AcquireStep ==
  ASSUME IInv, Acquire
  PROVE  IInv'
<1>1. /\ dpc = "acquire" /\ slots < WorkLoad /\ slots' = slots + 1
      /\ wpc' = [wpc EXCEPT ![recvd] = "start"] /\ dpc' = "recv"
      /\ UNCHANGED <<hpc, k, pinOk, sent, recvd, closed, wg, cached, cacheVal,
                     register, response>>
  BY Zenon DEF Acquire
<1>2. recvd \in Items /\ wpc[recvd] = "idle"
  BY <1>1 DEF IInv, TypeOK, Started, Items
<1>3. hpc \notin PreAdd /\ hpc \notin PostWait /\ pinOk = Items
  BY <1>2 DEF IInv, TypeOK, Phase, Waited, Started, PreAdd, PostWait, Items
<1>4. Busy' = Busy \cup {recvd} /\ recvd \notin Busy
  BY <1>1, <1>2 DEF IInv, TypeOK, Busy
<1>5. Unfinished' = Unfinished
  BY <1>1, <1>2 DEF IInv, TypeOK, Unfinished
<1>6. Cardinality(Busy') = Cardinality(Busy) + 1
  BY <1>2, <1>4, CountAdd DEF Busy
<1>7. TypeOK'
  BY <1>1, <1>2 DEF IInv, TypeOK, WPCs
<1>8. SlotCount'
  BY <1>1, <1>6 DEF IInv, SlotCount
<1>9. Started'
  BY <1>1, <1>2 DEF IInv, TypeOK, Started, Items
<1>10. CacheAgrees'
  BY <1>1, <1>2 DEF IInv, TypeOK, CacheAgrees, Matches
<1>11. Phase' /\ Waited'
  BY <1>1, <1>3, <1>5 DEF IInv, Phase, Waited
<1>12. QED
  BY <1>1, <1>7, <1>8, <1>9, <1>10, <1>11 DEF IInv, PinPrefix

\* A goroutine that is running (not idle, not done) comes after wg.Add
\* and before wg.Wait returns.
LEMMA RunningWorker ==
  ASSUME IInv, NEW i \in Items, wpc[i] \notin {"idle", "finished"}
  PROVE  hpc \notin PreAdd /\ hpc \notin PostWait /\ pinOk = Items
BY StartedPastAdd DEF IInv, Waited

\* The cache lookup of getChainState: a hit copies the cached state, a
\* miss goes to the oracle.
LEMMA LookupStep ==
  ASSUME IInv, NEW i \in Items, Lookup(i)
  PROVE  IInv'
<1>1. /\ wpc[i] = "start"
      /\ UNCHANGED <<hpc, k, pinOk, sent, recvd, closed, dpc, slots, wg, cached,
                     cacheVal, response>>
  BY Zenon DEF Lookup
<1>2. hpc \notin PreAdd /\ hpc \notin PostWait /\ pinOk = Items
  BY <1>1, RunningWorker
<1>3. Matches(i)
  BY <1>1, <1>2 DEF IInv, CacheAgrees
<1>4. ASSUME NEW p \in {"release", "oracle"}, wpc' = [wpc EXCEPT ![i] = p]
      PROVE  /\ Busy' = Busy /\ Unfinished' = Unfinished
             /\ PinPrefix' /\ Phase' /\ Waited' /\ SlotCount'
  <2>1. Busy' = Busy /\ Unfinished' = Unfinished
    BY <1>1, <1>4 DEF IInv, TypeOK, Busy, Unfinished
  <2>2. QED
    BY <1>1, <1>2, <2>1 DEF IInv, PinPrefix, Phase, Waited, SlotCount, PostWait
<1>5. CASE i \in cached /\ register' = [register EXCEPT ![i] = cacheVal[i]]
           /\ wpc' = [wpc EXCEPT ![i] = "release"]
  <2>1. TypeOK'
    BY <1>1, <1>5 DEF IInv, TypeOK, WPCs
  <2>2. Started'
    BY <1>1, <1>5 DEF IInv, TypeOK, Started
  <2>3. CacheAgrees'
    BY <1>1, <1>2, <1>5 DEF IInv, TypeOK, CacheAgrees, Matches
  <2>4. QED
    BY <1>4, <1>5, <2>1, <2>2, <2>3 DEF IInv
<1>6. CASE i \notin cached /\ wpc' = [wpc EXCEPT ![i] = "oracle"]
           /\ UNCHANGED register
  <2>1. TypeOK'
    BY <1>1, <1>6 DEF IInv, TypeOK, WPCs
  <2>2. Started'
    BY <1>1, <1>6 DEF IInv, TypeOK, Started
  <2>3. CacheAgrees'
    BY <1>1, <1>2, <1>3, <1>6 DEF IInv, TypeOK, CacheAgrees, Matches
  <2>4. QED
    BY <1>4, <1>6, <2>1, <2>2, <2>3 DEF IInv
<1>7. QED
  BY <1>5, <1>6, Zenon DEF Lookup, SetW

\* GetRegisterState and the Store of its outcome in auroraChainSate.
LEMMA AskOracleStep ==
  ASSUME IInv, NEW i \in Items, AskOracle(i)
  PROVE  IInv'
<1>1. PICK a \in Answers :
        /\ wpc[i] = "oracle"
        /\ cached' = cached \cup {i}
        /\ cacheVal' = [cacheVal EXCEPT ![i] = (a = "true")]
        /\ wpc' = [wpc EXCEPT ![i] = IF a = "true" THEN "write" ELSE "release"]
        /\ UNCHANGED <<hpc, k, pinOk, sent, recvd, closed, dpc, slots, wg,
                       register, response>>
  BY Zenon DEF AskOracle, SetW
<1>2. hpc \notin PreAdd /\ hpc \notin PostWait /\ pinOk = Items
  BY <1>1, RunningWorker
<1>3. i \notin cached /\ register[i] = FALSE
  BY <1>1, <1>2 DEF IInv, TypeOK, CacheAgrees, Matches
<1>4. Busy' = Busy /\ Unfinished' = Unfinished
  BY <1>1 DEF IInv, TypeOK, Busy, Unfinished
<1>5. TypeOK'
  BY <1>1 DEF IInv, TypeOK, WPCs
<1>6. /\ PinPrefix' /\ Phase' /\ Waited' /\ SlotCount' /\ Started'
  BY <1>1, <1>2, <1>4 DEF IInv, TypeOK, PinPrefix, Phase, Waited, SlotCount,
                          Started, PostWait
<1>7. CacheAgrees'
  <2>1. \A j \in Items \ {i} :
          /\ wpc'[j] = wpc[j]
          /\ (j \in cached') = (j \in cached)
          /\ cacheVal'[j] = cacheVal[j]
    BY <1>1 DEF IInv, TypeOK
  <2>2. CASE a = "true"
    BY <1>1, <1>2, <1>3, <2>1, <2>2 DEF IInv, TypeOK, CacheAgrees, Matches
  <2>3. CASE a # "true"
    BY <1>1, <1>2, <1>3, <2>1, <2>3 DEF IInv, TypeOK, CacheAgrees, Matches
  <2>4. QED
    BY <2>2, <2>3
<1>8. QED
  BY <1>5, <1>6, <1>7 DEF IInv

\* l.Lock(); responseList[i].Register = true; l.Unlock()
LEMMA WriteTrueStep ==
  ASSUME IInv, NEW i \in Items, WriteTrue(i)
  PROVE  IInv'
<1>1. /\ wpc[i] = "write"
      /\ register' = [register EXCEPT ![i] = TRUE]
      /\ wpc' = [wpc EXCEPT ![i] = "release"]
      /\ UNCHANGED <<hpc, k, pinOk, sent, recvd, closed, dpc, slots, wg, cached,
                     cacheVal, response>>
  BY Zenon DEF WriteTrue, SetW
<1>2. hpc \notin PreAdd /\ hpc \notin PostWait /\ pinOk = Items
  BY <1>1, RunningWorker
<1>3. Busy' = Busy /\ Unfinished' = Unfinished
  BY <1>1 DEF IInv, TypeOK, Busy, Unfinished
<1>4. TypeOK'
  BY <1>1 DEF IInv, TypeOK, WPCs
<1>5. /\ PinPrefix' /\ Phase' /\ Waited' /\ SlotCount' /\ Started'
  BY <1>1, <1>2, <1>3 DEF IInv, TypeOK, PinPrefix, Phase, Waited, SlotCount,
                          Started, PostWait
<1>6. CacheAgrees'
  BY <1>1, <1>2 DEF IInv, TypeOK, CacheAgrees, Matches
<1>7. QED
  BY <1>4, <1>5, <1>6 DEF IInv

\* The deferred <-workLoad frees the goroutine's slot.
LEMMA ReleaseStep ==
  ASSUME IInv, NEW i \in Items, Release(i)
  PROVE  IInv'
<1>1. /\ wpc[i] = "release" /\ slots' = slots - 1
      /\ wpc' = [wpc EXCEPT ![i] = "wgdone"]
      /\ UNCHANGED <<hpc, k, pinOk, sent, recvd, closed, dpc, wg, cached,
                     cacheVal, register, response>>
  BY Zenon DEF Release, SetW
<1>2. hpc \notin PreAdd /\ hpc \notin PostWait /\ pinOk = Items
  BY <1>1, RunningWorker
<1>3. /\ i \in Busy /\ Busy' = Busy \ {i}
      /\ Unfinished' = Unfinished
  BY <1>1 DEF IInv, TypeOK, Busy, Unfinished
<1>4. Cardinality(Busy') = Cardinality(Busy) - 1 /\ Cardinality(Busy) >= 1
  <2>1. Cardinality(Busy \ {i}) = Cardinality(Busy) - 1
    BY <1>3, CountRemove DEF Busy
  <2>2. Cardinality(Busy \ {i}) \in 0..N /\ Cardinality(Busy) \in 0..N
    BY CountBound DEF Busy
  <2>3. QED
    BY <1>3, <2>1, <2>2
<1>5. TypeOK'
  BY <1>1, <1>4 DEF IInv, TypeOK, WPCs, SlotCount
<1>6. /\ PinPrefix' /\ Phase' /\ Waited' /\ SlotCount' /\ Started'
  BY <1>1, <1>2, <1>3, <1>4 DEF IInv, TypeOK, PinPrefix, Phase, Waited,
                                SlotCount, Started, PostWait
<1>7. CacheAgrees'
  BY <1>1, <1>2 DEF IInv, TypeOK, CacheAgrees, Matches
<1>8. QED
  BY <1>5, <1>6, <1>7 DEF IInv

\* The deferred wg.Done() counts the goroutine as done.
LEMMA DoneStep ==
  ASSUME IInv, NEW i \in Items, Done(i)
  PROVE  IInv'
<1>1. /\ wpc[i] = "wgdone" /\ wg' = wg - 1
      /\ wpc' = [wpc EXCEPT ![i] = "finished"]
      /\ UNCHANGED <<hpc, k, pinOk, sent, recvd, closed, dpc, slots, cached,
                     cacheVal, register, response>>
  BY Zenon DEF Done, SetW
<1>2. hpc \notin PreAdd /\ hpc \notin PostWait /\ pinOk = Items
  BY <1>1, RunningWorker
<1>3. /\ i \in Unfinished /\ Unfinished' = Unfinished \ {i}
      /\ Busy' = Busy
  BY <1>1 DEF IInv, TypeOK, Busy, Unfinished
<1>4. Cardinality(Unfinished') = Cardinality(Unfinished) - 1
      /\ Cardinality(Unfinished') \in 0..N
  BY <1>3, CountRemove, CountBound DEF Unfinished
<1>5. wg' = Cardinality(Unfinished')
  BY <1>1, <1>2, <1>4 DEF IInv, Phase
<1>6. TypeOK'
  BY <1>1, <1>4, <1>5 DEF IInv, TypeOK, WPCs
<1>7. /\ PinPrefix' /\ Phase' /\ Waited' /\ SlotCount' /\ Started'
  BY <1>1, <1>2, <1>3, <1>5 DEF IInv, TypeOK, PinPrefix, Phase, Waited,
                                SlotCount, Started, PostWait
<1>8. CacheAgrees'
  BY <1>1, <1>2 DEF IInv, TypeOK, CacheAgrees, Matches
<1>9. QED
  BY <1>6, <1>7, <1>8 DEF IInv

\* Every step keeps IInv: the handler's, the dispatcher's, each worker's.
LEMMA IInvInductive == IInv /\ [Next]_vars => IInv'
<1> SUFFICES ASSUME IInv, [Next]_vars PROVE IInv'
  OBVIOUS
<1>1. CASE Handler
  BY <1>1, ParseStep, BuildStep, CollectStep, SendStep, WaitStep,
     CloseRespondStep DEF Handler
<1>2. CASE Dispatcher
  BY <1>2, ReceiveStep, AcquireStep DEF Dispatcher
<1>3. ASSUME NEW i \in Items, Worker(i) PROVE IInv'
  BY <1>3, LookupStep, AskOracleStep, WriteTrueStep, ReleaseStep, DoneStep
  DEF Worker
<1>4. CASE UNCHANGED vars
  BY <1>4 DEF vars, IInv, TypeOK, PinPrefix, Phase, Waited, Started, SlotCount,
              CacheAgrees, Busy, Unfinished, Matches
<1>5. QED
  BY <1>1, <1>2, <1>3, <1>4 DEF Next

\* The type invariant, with the bounds of the semaphore and the WaitGroup:
\* len(workLoad) never exceeds its capacity and the counter never goes
\* negative or above the number of entries.
THEOREM TypeCorrect == Spec => []TypeOK
<1>1. IInv => TypeOK
  BY DEF IInv
<1>2. QED
  BY InitIInv, IInvInductive, <1>1, PTL DEF Spec

(***************************************************************************)
(* For any number of entries and any capacity of workLoad, whatever the   *)
(* cache holds and the oracle answers, the response written after         *)
(* wg.Wait is the final responseList, and each entry says registered      *)
(* exactly when the cache or the oracle said so.                          *)
(***************************************************************************)
THEOREM ResponseSettledSafe == Spec => []ResponseSettled
<1>1. IInv => ResponseSettled
  <2> SUFFICES ASSUME IInv, hpc = "done"
               PROVE  /\ response = register
                      /\ \A i \in Items : response[i] = (i \in cached /\ cacheVal[i])
    BY DEF ResponseSettled
  <2>1. response = register /\ pinOk = Items
        /\ \A i \in Items : wpc[i] = "finished"
    BY DEF IInv, Waited, Phase, PreAdd, PostWait
  <2>2. QED
    BY <2>1 DEF IInv, CacheAgrees, Matches
<1>2. QED
  BY InitIInv, IInvInductive, <1>1, PTL DEF Spec
=============================================================================
