--------------------------- MODULE ToolSideProofs --------------------------
(***************************************************************************)
(* Proofs about the parts behind a tool call: the gateway's client, the    *)
(* executor of the catalog, the files of a conversation and the documents  *)
(* of a knowledge base.  Every text is well cut, by induction over its     *)
(* paragraphs and pieces (InductiveSet, StepsCompose).                     *)
(***************************************************************************)
EXTENDS Gateway, ToolPool, Workspace, Documents, Integers, FiniteSetTheorems,
        WellFoundedInduction, TLAPS

-----------------------------------------------------------------------------
(* The gateway's client.                                                   *)

\* The stored token expires at most a fetch later than it should.
TokenNearlyExact ==
  token.issued # Never => token.until <= token.issued + FetchTime + TokenLife

\* What a thread knows at each step of a request.
ThreadBounded(p) ==
  LET c == caller[p] IN
  /\ c.at # "idle" => moment <= c.by
  /\ c.at \in {"fetching", "granted", "stored"} => c.by <= moment + FetchTime
  /\ c.at = "granted" => c.held \in Nat /\ c.by <= c.held + FetchTime
  /\ c.at = "stored" => token.issued \in Nat /\ c.by <= token.issued + 2 * FetchTime
  /\ c.at \in {"called", "answered", "listed"} => c.by <= moment + CallTime
  /\ c.at = "called" => c.held \in Nat /\ c.by < c.held + TokenLife
  /\ c.at = "answered" => c.made \in Nat /\ c.by <= c.made + CallTime
  /\ c.at = "listed" /\ toolCache.made # Never => c.by <= toolCache.made + 2 * CallTime

\* The time of the cached list is at most two requests later than the list.
CacheNearlyExact ==
  /\ toolCache.at <= moment
  /\ toolCache.made # Never => toolCache.at <= toolCache.made + 2 * CallTime

GatewayInv ==
  /\ GatewayTypeOK
  /\ TokenNearlyExact
  /\ \A p \in Threads : ThreadBounded(p)
  /\ CacheNearlyExact

LEMMA GatewayBounds ==
  /\ TokenLife \in Nat /\ Margin \in Nat /\ FetchTime \in Nat /\ CallTime \in Nat
  /\ ListTTL \in Nat /\ LastMoment \in Nat
  /\ FetchTime + CallTime <= Margin
  /\ FetchTime + Margin < TokenLife
BY GatewayAssumption DEF GatewayAssumption

LEMMA RequestsAreCallers ==
  ASSUME NEW goal \in {"call", "list"}, NEW issued \in Nat \cup {Never}, NEW by \in Nat
  PROVE  /\ [Idle EXCEPT !.at = "called", !.goal = goal, !.held = issued, !.by = by] \in Caller
         /\ [Idle EXCEPT !.at = "fetching", !.goal = goal, !.by = by] \in Caller
BY DEF Idle, Caller

LEMMA GatewayStarts == GatewayInit => GatewayInv
BY GatewayBounds DEF GatewayInit, GatewayInv, GatewayTypeOK, TokenNearlyExact, ThreadBounded,
   CacheNearlyExact, Idle, Caller, Never

\* A step of one thread leaves what the others know, if it leaves the token's
\* and the list's age within their bounds.
LEMMA GatewaySteps ==
  ASSUME GatewayInv, [GatewayNext]_gatewayVars
  PROVE  GatewayInv'
<1> USE GatewayBounds DEF GatewayInv, GatewayTypeOK, Never
<1>1. CASE MomentPasses
  <2>1. GatewayTypeOK' /\ TokenNearlyExact' /\ CacheNearlyExact'
    BY <1>1 DEF MomentPasses, TokenNearlyExact, CacheNearlyExact
  <2>2. ASSUME NEW q \in Threads PROVE ThreadBounded(q)'
    BY <1>1, <2>2 DEF MomentPasses, ThreadBounded, Caller
  <2>3. QED
    BY <2>1, <2>2
<1>2. ASSUME NEW p \in Threads, NEW goal \in {"call", "list"}, StartRequest(p, goal)
      PROVE  GatewayInv'
  <2>1. GatewayTypeOK'
    <3>1. caller' \in [Threads -> Caller]
      <4>1. token.issued \in Nat \cup {Never} /\ moment + CallTime \in Nat
            /\ moment + FetchTime \in Nat
        OBVIOUS
      <4>2. [Idle EXCEPT !.at = "called", !.goal = goal, !.held = token.issued,
                         !.by = moment + CallTime] \in Caller
            /\ [Idle EXCEPT !.at = "fetching", !.goal = goal, !.by = moment + FetchTime] \in Caller
        BY <4>1, RequestsAreCallers
      <4>3. QED
        BY <1>2, <4>2 DEF StartRequest
    <3>2. QED
      BY <1>2, <3>1 DEF StartRequest
  <2>2. TokenNearlyExact' /\ CacheNearlyExact'
    BY <1>2 DEF StartRequest, TokenNearlyExact, CacheNearlyExact
  <2>3. ThreadBounded(p)'
    <3>1. CASE TokenValid
      <4>1. /\ caller'[p].at = "called" /\ caller'[p].held = token.issued
            /\ caller'[p].by = moment + CallTime /\ moment' = moment
        BY <1>2, <3>1 DEF StartRequest, Idle
      <4>2. /\ token.issued \in Nat
            /\ moment + CallTime < token.issued + TokenLife
        BY <3>1 DEF TokenValid, TokenNearlyExact
      <4>3. QED
        BY <4>1, <4>2 DEF ThreadBounded
    <3>2. CASE ~TokenValid
      <4>1. /\ caller'[p].at = "fetching" /\ moment' = moment
            /\ caller'[p].by = moment + FetchTime
        BY <1>2, <3>2 DEF StartRequest, Idle
      <4>2. QED
        BY <4>1 DEF ThreadBounded
    <3>3. QED
      BY <3>1, <3>2
  <2>4. ASSUME NEW q \in Threads \ {p} PROVE ThreadBounded(q)'
    BY <1>2, <2>4 DEF StartRequest, ThreadBounded
  <2>5. QED
    BY <2>1, <2>3, <2>4, <2>2
<1>3. ASSUME NEW p \in Threads, IssueToken(p) PROVE GatewayInv'
  <2>1. GatewayTypeOK' /\ TokenNearlyExact' /\ CacheNearlyExact'
    BY <1>3 DEF IssueToken, Caller, TokenNearlyExact, CacheNearlyExact
  <2>2. ASSUME NEW q \in Threads PROVE ThreadBounded(q)'
    BY <1>3, <2>2 DEF IssueToken, ThreadBounded, Caller
  <2>3. QED
    BY <2>1, <2>2
<1>4. ASSUME NEW p \in Threads, StoreToken(p) PROVE GatewayInv'
  <2>1. /\ token' = [issued |-> caller[p].held, until |-> moment + TokenLife]
        /\ caller[p].held \in Nat /\ moment <= caller[p].held + FetchTime
    BY <1>4 DEF StoreToken, Caller, ThreadBounded
  <2>2. GatewayTypeOK' /\ TokenNearlyExact' /\ CacheNearlyExact'
    BY <1>4, <2>1 DEF StoreToken, Caller, TokenNearlyExact, CacheNearlyExact
  <2>3. ASSUME NEW q \in Threads PROVE ThreadBounded(q)'
    BY <1>4, <2>1, <2>3 DEF StoreToken, ThreadBounded, Caller
  <2>4. QED
    BY <2>2, <2>3
<1>5. ASSUME NEW p \in Threads, UseToken(p) PROVE GatewayInv'
  <2>1. GatewayTypeOK'
    <3>1. [caller[p] EXCEPT !.at = "called", !.held = token.issued, !.by = moment + CallTime]
            \in Caller
      <4>1. caller[p] \in Caller /\ token.issued \in Nat \cup {Never}
            /\ moment + CallTime \in Nat
        OBVIOUS
      <4>2. QED
        BY <4>1 DEF Caller
    <3>2. QED
      BY <1>5, <3>1 DEF UseToken
  <2>2. TokenNearlyExact' /\ CacheNearlyExact'
    BY <1>5 DEF UseToken, TokenNearlyExact, CacheNearlyExact
  <2>3. ThreadBounded(p)'
    <3>1. /\ caller'[p].at = "called" /\ caller'[p].held = token.issued
          /\ caller'[p].by = moment + CallTime /\ moment' = moment
      BY <1>5 DEF UseToken, Caller
    <3>2. token.issued \in Nat /\ moment <= token.issued + 2 * FetchTime
      BY <1>5 DEF UseToken, ThreadBounded, Caller
    <3>3. QED
      BY <3>1, <3>2 DEF ThreadBounded
  <2>4. ASSUME NEW q \in Threads \ {p} PROVE ThreadBounded(q)'
    BY <1>5, <2>4 DEF UseToken, ThreadBounded
  <2>5. QED
    BY <2>1, <2>3, <2>4, <2>2
<1>6. ASSUME NEW p \in Threads, HandleRequest(p) PROVE GatewayInv'
  <2>1. GatewayTypeOK' /\ TokenNearlyExact' /\ CacheNearlyExact'
    BY <1>6 DEF HandleRequest, Caller, ThreadBounded, TokenNearlyExact, CacheNearlyExact
  <2>2. ThreadBounded(p)'
    BY <1>6 DEF HandleRequest, ThreadBounded, Caller
  <2>3. ASSUME NEW q \in Threads \ {p} PROVE ThreadBounded(q)'
    BY <1>6, <2>3 DEF HandleRequest, ThreadBounded
  <2>4. QED
    BY <2>1, <2>2, <2>3
<1>7. ASSUME NEW p \in Threads, EndCall(p) \/ RequestFails(p) PROVE GatewayInv'
  <2>1. GatewayTypeOK' /\ TokenNearlyExact' /\ CacheNearlyExact'
    BY <1>7 DEF EndCall, RequestFails, Caller, ThreadBounded, TokenNearlyExact, CacheNearlyExact, Idle
  <2>2. ThreadBounded(p)'
    BY <1>7 DEF EndCall, RequestFails, ThreadBounded, Caller, Idle
  <2>3. ASSUME NEW q \in Threads \ {p} PROVE ThreadBounded(q)'
    BY <1>7, <2>3 DEF EndCall, RequestFails, ThreadBounded
  <2>4. QED
    BY <2>1, <2>2, <2>3
<1>8. ASSUME NEW p \in Threads, KeepList(p) PROVE GatewayInv'
  <2>1. GatewayTypeOK' /\ TokenNearlyExact' /\ CacheNearlyExact'
    BY <1>8 DEF KeepList, Caller, ThreadBounded, TokenNearlyExact, CacheNearlyExact
  <2>2. ThreadBounded(p)'
    BY <1>8 DEF KeepList, ThreadBounded, Caller
  <2>3. ASSUME NEW q \in Threads \ {p} PROVE ThreadBounded(q)'
    <3>1. /\ caller[p].made \in Nat /\ moment <= caller[p].made + CallTime
          /\ toolCache'.made \in {caller[p].made, Never}
      BY <1>8 DEF KeepList, ThreadBounded, Caller
    <3>2. caller'[q] = caller[q] /\ token' = token /\ moment' = moment /\ caller[q] \in Caller
      BY <1>8, <2>3 DEF KeepList
    <3>3. QED
      BY <2>3, <3>1, <3>2 DEF ThreadBounded, Caller
  <2>4. QED
    BY <2>1, <2>2, <2>3
<1>9. ASSUME NEW p \in Threads, StampList(p) PROVE GatewayInv'
  <2>1. GatewayTypeOK' /\ TokenNearlyExact' /\ CacheNearlyExact'
    BY <1>9 DEF StampList, Caller, ThreadBounded, TokenNearlyExact, CacheNearlyExact, Idle
  <2>2. ThreadBounded(p)'
    BY <1>9 DEF StampList, ThreadBounded, Caller, Idle
  <2>3. ASSUME NEW q \in Threads \ {p} PROVE ThreadBounded(q)'
    BY <1>9, <2>3 DEF StampList, ThreadBounded
  <2>4. QED
    BY <2>1, <2>2, <2>3
<1>10. CASE UNCHANGED gatewayVars
  BY <1>10 DEF gatewayVars, TokenNearlyExact, ThreadBounded, CacheNearlyExact
<1>11. QED
  BY <1>1, <1>2, <1>3, <1>4, <1>5, <1>6, <1>7, <1>8, <1>9, <1>10 DEF GatewayNext

\* No request reaches the gateway with an expired token and no valid list is
\* older than its TTL and two requests, for any number of threads and any
\* timeouts that the margin covers (mcp_gateway.py 50-70, 121-173).
THEOREM GatewayIsFresh == GatewaySpec => []NothingStale
<1>1. GatewayInv => NothingStale
  BY GatewayBounds DEF GatewayInv, GatewayTypeOK, ThreadBounded, CacheNearlyExact, NothingStale,
     TokenAlive, ListRecent, ListValid, Never, Caller
<1>2. QED
  BY GatewayStarts, GatewaySteps, <1>1, PTL DEF GatewaySpec
-----------------------------------------------------------------------------
(* The executor.                                                           *)

\* How many calls have left the queue.
Started == Len(submitted) - Len(queue)
HasStarted(c) == \E i \in 1..Started : submitted[i] = c

PoolTypeOK ==
  /\ queue \in Seq(PoolCalls) /\ submitted \in Seq(PoolCalls)
  /\ working \subseteq PoolCalls
  /\ future \in [PoolCalls -> {"none", "result", "error"}]

\* No call is submitted twice.
SubmittedOnce == \A i, j \in 1..Len(submitted) : submitted[i] = submitted[j] => i = j

\* The queue holds the calls submitted last, in their order.
QueueIsSuffix ==
  /\ Len(queue) <= Len(submitted)
  /\ \A i \in 1..Len(queue) : queue[i] = submitted[Started + i]

\* What runs or has ended has left the queue, and what has ended runs no more.
RunningHasStarted ==
  /\ \A c \in working : HasStarted(c)
  /\ \A c \in PoolCalls : future[c] # "none" => HasStarted(c) /\ c \notin working

\* Nobody waits while a worker is free.
WorkersBusy ==
  /\ Cardinality(working) <= Slots
  /\ queue # <<>> => Cardinality(working) = Slots

PoolInv == PoolTypeOK /\ SubmittedOnce /\ QueueIsSuffix /\ RunningHasStarted /\ WorkersBusy

LEMMA WorkingFinite == working \subseteq PoolCalls => IsFiniteSet(working) /\ Cardinality(working) \in Nat
BY ToolPoolAssumption, FS_Subset, FS_CardinalityType DEF ToolPoolAssumption

LEMMA PoolStarts == PoolInit => PoolInv
BY ToolPoolAssumption, FS_EmptySet DEF ToolPoolAssumption, PoolInit, PoolInv, PoolTypeOK,
   SubmittedOnce, QueueIsSuffix, RunningHasStarted, WorkersBusy, HasStarted, Started

\* A call that comes when a worker is free finds the queue empty and starts.
LEMMA SubmitToWorker ==
  ASSUME PoolInv, NEW c \in PoolCalls, SubmitCall(c), Cardinality(working) < Slots
  PROVE  PoolInv'
<1> USE ToolPoolAssumption DEF ToolPoolAssumption, PoolInv, PoolTypeOK
<1>1. /\ submitted' = Append(submitted, c) /\ working' = working \cup {c}
      /\ queue = <<>> /\ queue' = <<>> /\ future' = future
  BY WorkingFinite DEF SubmitCall, WorkersBusy
<1>2. \A i \in 1..Len(submitted) : submitted[i] # c
  BY DEF SubmitCall, New, ToSet
<1>3. PoolTypeOK' /\ SubmittedOnce'
  BY <1>1, <1>2 DEF SubmittedOnce
<1>4. Started = Len(submitted) /\ Started' = Len(submitted) + 1
  BY <1>1 DEF Started
<1>5. \A d \in PoolCalls : HasStarted(d)' <=> HasStarted(d) \/ d = c
  BY <1>1, <1>4 DEF HasStarted
<1>6. c \notin working /\ future[c] = "none"
  BY <1>2, <1>4 DEF RunningHasStarted, HasStarted
<1>7. RunningHasStarted'
  BY <1>1, <1>5, <1>6 DEF RunningHasStarted
<1>8. WorkersBusy'
  <2>1. IsFiniteSet(working) /\ Cardinality(working) \in Nat
    BY WorkingFinite
  <2>2. Cardinality(working') = Cardinality(working) + 1
    BY <1>1, <1>6, <2>1, FS_AddElement
  <2>3. QED
    BY <1>1, <2>1, <2>2 DEF WorkersBusy
<1>9. QueueIsSuffix'
  BY <1>1 DEF QueueIsSuffix
<1>10. QED
  BY <1>3, <1>7, <1>8, <1>9

\* Any other call waits behind those in the queue.
LEMMA SubmitToQueue ==
  ASSUME PoolInv, NEW c \in PoolCalls, SubmitCall(c), ~(Cardinality(working) < Slots)
  PROVE  PoolInv'
<1> USE ToolPoolAssumption DEF ToolPoolAssumption, PoolInv, PoolTypeOK
<1>1. /\ submitted' = Append(submitted, c) /\ queue' = Append(queue, c)
      /\ working' = working /\ future' = future
  BY DEF SubmitCall
<1>2. \A i \in 1..Len(submitted) : submitted[i] # c
  BY DEF SubmitCall, New, ToSet
<1>3. PoolTypeOK' /\ SubmittedOnce'
  BY <1>1, <1>2 DEF SubmittedOnce
<1>4. Started' = Started /\ Started \in Nat /\ Started <= Len(submitted)
  BY <1>1 DEF Started, QueueIsSuffix
<1>5. \A d \in PoolCalls : HasStarted(d) => HasStarted(d)'
  BY <1>1, <1>4 DEF HasStarted
<1>6. RunningHasStarted'
  BY <1>1, <1>5 DEF RunningHasStarted
<1>7. WorkersBusy'
  BY <1>1, WorkingFinite DEF WorkersBusy
<1>8. QueueIsSuffix'
  <2>1. Len(queue') <= Len(submitted') /\ Started + Len(queue) = Len(submitted)
    BY <1>1 DEF QueueIsSuffix, Started
  <2>2. ASSUME NEW i \in 1..Len(queue') PROVE queue'[i] = submitted'[Started' + i]
    <3>1. CASE i = Len(queue) + 1
      BY <1>1, <1>4, <2>1, <3>1
    <3>2. CASE i # Len(queue) + 1
      <4>1. i \in 1..Len(queue) /\ Started + i \in 1..Len(submitted)
        BY <1>1, <1>4, <2>1, <3>2
      <4>2. QED
        BY <1>1, <1>4, <4>1 DEF QueueIsSuffix
    <3>3. QED
      BY <3>1, <3>2
  <2>3. QED
    BY <2>1, <2>2 DEF QueueIsSuffix
<1>9. QED
  BY <1>3, <1>6, <1>7, <1>8

\* A worker that ends a call takes the oldest one of the queue.
LEMMA WorkEnds ==
  ASSUME PoolInv, NEW c \in PoolCalls, FinishWork(c)
  PROVE  PoolInv'
<1> USE ToolPoolAssumption DEF ToolPoolAssumption, PoolInv, PoolTypeOK
<1>1. /\ c \in working /\ submitted' = submitted
      /\ future' \in [PoolCalls -> {"none", "result", "error"}]
      /\ \A d \in PoolCalls \ {c} : future'[d] = future[d]
  BY DEF FinishWork
<1>2. SubmittedOnce'
  BY <1>1 DEF SubmittedOnce
<1>3. /\ IsFiniteSet(working \ {c}) /\ Cardinality(working \ {c}) = Cardinality(working) - 1
      /\ Cardinality(working) \in Nat
  BY <1>1, WorkingFinite, FS_RemoveElement
<1>4. CASE queue = <<>>
  <2>1. working' = working \ {c} /\ queue' = queue
    BY <1>4 DEF FinishWork
  <2>2. Started' = Started /\ \A d \in PoolCalls : HasStarted(d)' <=> HasStarted(d)
    BY <1>1, <2>1 DEF Started, HasStarted
  <2>3. RunningHasStarted'
    BY <1>1, <2>1, <2>2 DEF RunningHasStarted
  <2>4. WorkersBusy' /\ QueueIsSuffix' /\ PoolTypeOK'
    BY <1>1, <1>3, <1>4, <2>1 DEF WorkersBusy, QueueIsSuffix
  <2>5. QED
    BY <1>2, <2>3, <2>4
<1>5. CASE queue # <<>>
  <2> DEFINE next == queue[1]
  <2>1. /\ working' = (working \ {c}) \cup {next} /\ queue' = Tail(queue)
        /\ next \in PoolCalls /\ Len(queue) >= 1 /\ Len(queue') = Len(queue) - 1
    BY <1>5 DEF FinishWork, TakeNext
  <2>2. /\ Started \in Nat /\ Started' = Started + 1 /\ Started' <= Len(submitted)
        /\ next = submitted[Started + 1]
    <3>1. Len(queue) <= Len(submitted) /\ Len(queue) \in Nat /\ Len(submitted) \in Nat
      BY DEF QueueIsSuffix
    <3>2. next = submitted[Started + 1]
      <4>1. 1 \in 1..Len(queue)
        BY <2>1, <3>1
      <4>2. QED
        BY <4>1 DEF QueueIsSuffix
    <3>3. Started \in Nat /\ Started' = Started + 1 /\ Started' <= Len(submitted)
      <4>1. Started = Len(submitted) - Len(queue) /\ Started' = Len(submitted) - (Len(queue) - 1)
        BY <1>1, <2>1 DEF Started
      <4>2. QED
        BY <2>1, <3>1, <4>1
    <3>4. QED
      BY <3>2, <3>3
  <2>3. ~HasStarted(next)
    <3>1. Started + 1 \in 1..Len(submitted)
      BY <2>2
    <3>2. ASSUME NEW i \in 1..Started PROVE submitted[i] # submitted[Started + 1]
      BY <2>2, <3>1 DEF SubmittedOnce
    <3>3. QED
      BY <2>2, <3>2 DEF HasStarted
  <2>4. next \notin working /\ future[next] = "none" /\ next # c
    BY <1>1, <2>1, <2>3 DEF RunningHasStarted
  <2>5. \A d \in PoolCalls : HasStarted(d)' <=> HasStarted(d) \/ d = next
    BY <1>1, <2>2 DEF HasStarted
  <2>6. RunningHasStarted'
    BY <1>1, <2>1, <2>4, <2>5 DEF RunningHasStarted
  <2>7. WorkersBusy'
    <3>1. next \notin working \ {c}
      BY <2>4
    <3>2. Cardinality(working') = Cardinality(working \ {c}) + 1
      BY <1>3, <2>1, <3>1, FS_AddElement
    <3>3. QED
      BY <1>3, <1>5, <3>2 DEF WorkersBusy
  <2>8. PoolTypeOK'
    BY <1>1, <2>1
  <2>9. QueueIsSuffix'
    BY <1>1, <2>1, <2>2 DEF QueueIsSuffix
  <2>10. QED
    BY <1>2, <2>6, <2>7, <2>8, <2>9
<1>6. QED
  BY <1>4, <1>5

LEMMA PoolSteps == PoolInv /\ [PoolNext]_poolVars => PoolInv'
<1> SUFFICES ASSUME PoolInv, [PoolNext]_poolVars PROVE PoolInv'
  OBVIOUS
<1>1. ASSUME NEW c \in PoolCalls, RefuseUnknown(c) \/ GetResult(c) \/ GiveUp(c) PROVE PoolInv'
  BY <1>1 DEF RefuseUnknown, GetResult, GiveUp, PoolInv, PoolTypeOK, SubmittedOnce,
     QueueIsSuffix, RunningHasStarted, WorkersBusy, HasStarted, Started
<1>2. CASE PoolAtRest \/ UNCHANGED poolVars
  BY <1>2 DEF PoolAtRest, poolVars, PoolInv, PoolTypeOK, SubmittedOnce, QueueIsSuffix,
     RunningHasStarted, WorkersBusy, HasStarted, Started
<1>3. QED
  BY <1>1, <1>2, SubmitToWorker, SubmitToQueue, WorkEnds DEF PoolNext

\* A call waits only behind as many earlier, unfinished calls as there are
\* workers, for any number of calls and workers (catalog.py 45, 98-110).
THEOREM PoolServesInOrder == PoolSpec => []HeldUpByEarlier
<1>1. PoolInv => HeldUpByEarlier
  <2> SUFFICES ASSUME PoolInv, NEW c \in Waiting
               PROVE  /\ Cardinality({d \in working : Before(d, c)}) = Slots
                      /\ \A d \in Waiting : future[d] = "none" /\ d \notin working
    BY DEF HeldUpByEarlier
  <2> USE DEF PoolInv, PoolTypeOK
  <2>1. ASSUME NEW d \in Waiting
        PROVE  d \in PoolCalls /\ \E j \in 1..Len(submitted) : j > Started /\ submitted[j] = d
    <3>1. PICK i \in 1..Len(queue) : queue[i] = d
      BY DEF Waiting, ToSet
    <3>2. Started + i \in 1..Len(submitted) /\ Started + i > Started /\ submitted[Started + i] = d
      BY <3>1 DEF QueueIsSuffix, Started
    <3>3. QED
      BY <3>1, <3>2
  <2>2. Started \in Nat /\ Started <= Len(submitted)
    BY DEF Started, QueueIsSuffix
  <2>3. \A d \in Waiting : ~HasStarted(d)
    BY <2>1, <2>2 DEF HasStarted, SubmittedOnce
  <2>4. \A d \in Waiting : future[d] = "none" /\ d \notin working
    BY <2>1, <2>3 DEF RunningHasStarted
  <2>5. ASSUME NEW d \in working PROVE Before(d, c)
    BY <2>1, <2>2 DEF RunningHasStarted, HasStarted, Before
  <2>6. {d \in working : Before(d, c)} = working
    BY <2>5
  <2>7. Cardinality(working) = Slots
    BY DEF WorkersBusy, Waiting, ToSet
  <2>8. QED
    BY <2>4, <2>6, <2>7
<1>2. QED
  BY PoolStarts, PoolSteps, <1>1, PTL DEF PoolSpec
-----------------------------------------------------------------------------
(* The files of a conversation.                                            *)

PackerCall ==
  [at : {"new", "refused", "clear", "copy", "overlay", "compress", "cleanup", "packaged",
         "failed", "sent", "exported", "delivered"},
   dir : Dirs, todo : SUBSET Files, must : [Files -> Nat], overlapped : BOOLEAN,
   sent : SUBSET ([Files -> Nat] \cup Packers)]

WorkspaceTypeOK ==
  /\ disk \in [Dirs -> [Files -> Nat]]
  /\ staging \in [Dirs -> [there : BOOLEAN, files : [Files -> Nat]]]
  /\ zip \in [Dirs -> SUBSET [Files -> Nat]]
  /\ exported \in [Dirs -> SUBSET Packers]
  /\ packing \in [Packers -> PackerCall]

\* Two calls at work for one directory know of each other.
OverlapsMarked ==
  \A p, q \in Packers :
    p # q /\ Live(p) /\ Live(q) /\ packing[p].dir = packing[q].dir => packing[p].overlapped

Lone(p) == packing[p].dir = Conv /\ ~packing[p].overlapped

\* A package with all that the call p has to put in.
Complete(z, p) ==
  /\ \A f \in BaseFiles \cup RequiredFiles : z[f] > 0
  /\ \A f \in Files : z[f] >= packing[p].must[f]

\* What the call found on the disk is still there.
DiskKept(p) ==
  packing[p].at \in {"clear", "copy", "overlay", "compress", "cleanup", "packaged"} =>
    LET d == packing[p].dir IN
    /\ \A f \in Files : disk[d][f] >= packing[p].must[f]
    /\ \A f \in RequiredFiles : disk[d][f] > 0

\* What a call that is alone has achieved at each step.
Progress(p) ==
  Lone(p) =>
    /\ packing[p].at = "overlay" =>
         /\ \A f \in packing[p].todo : disk[Conv][f] > 0
         /\ \A f \in BaseFiles : staging[Conv].files[f] > 0
         /\ \A f \in Files \ packing[p].todo :
              /\ staging[Conv].files[f] >= packing[p].must[f]
              /\ f \in RequiredFiles => staging[Conv].files[f] > 0
    /\ packing[p].at = "compress" => Complete(staging[Conv].files, p)
    /\ packing[p].at \in {"cleanup", "packaged"} => \E z \in zip[Conv] : Complete(z, p)
    /\ packing[p].at = "sent" => \E z \in packing[p].sent : Complete(z, p)
    /\ packing[p].at = "exported" => exported[Conv] = {p}
    /\ packing[p].at = "delivered" => packing[p].sent = {p}

WorkspaceInv ==
  /\ WorkspaceTypeOK
  /\ OverlapsMarked
  /\ \A p \in Packers : DiskKept(p) /\ Progress(p)

LEMMA WorkspaceFacts ==
  /\ RequiredFiles \subseteq Files /\ BaseFiles \subseteq Files /\ DefaultDir # Conv
  /\ Saved \subseteq {Conv, DefaultDir} \X Files
  /\ MaxSaves \in Nat
BY WorkspaceAssumption DEF WorkspaceAssumption

LEMMA WorkspaceStarts == WorkspaceInit => WorkspaceInv
BY WorkspaceFacts DEF WorkspaceInit, WorkspaceInv, WorkspaceTypeOK, OverlapsMarked, DiskKept,
   Progress, Live, NoCall, Nothing, Dirs, PackerCall

LEMMA MarkedCalls ==
  ASSUME NEW c \in PackerCall, NEW b \in BOOLEAN
  PROVE  LET m == [c EXCEPT !.overlapped = b] IN
         /\ m \in PackerCall /\ m.overlapped = b
         /\ m.at = c.at /\ m.dir = c.dir /\ m.must = c.must /\ m.todo = c.todo /\ m.sent = c.sent
BY DEF PackerCall

\* What a call has achieved lasts while nobody else works for its directory.
LEMMA ProgressLasts ==
  ASSUME NEW q \in Packers, Progress(q), packing'[q] = packing[q], disk' = disk,
         Live(q) /\ Lone(q) =>
           /\ staging'[Conv] = staging[Conv] /\ zip'[Conv] = zip[Conv]
           /\ exported'[Conv] = exported[Conv]
  PROVE  Progress(q)'
<1>1. CASE ~Lone(q)
  BY <1>1 DEF Progress, Lone
<1>2. CASE Lone(q) /\ packing[q].at \in {"overlay", "compress", "cleanup", "packaged", "exported"}
  <2>1. /\ staging'[Conv] = staging[Conv] /\ zip'[Conv] = zip[Conv]
        /\ exported'[Conv] = exported[Conv]
    BY <1>2 DEF Live
  <2>2. QED
    BY <1>2, <2>1 DEF Progress, Complete
<1>3. CASE Lone(q) /\ packing[q].at \in {"sent", "delivered"}
  BY <1>3 DEF Progress, Complete
<1>4. CASE Lone(q) /\ packing[q].at \notin {"overlay", "compress", "cleanup", "packaged", "exported",
                                          "sent", "delivered"}
  BY <1>4 DEF Progress
<1>5. QED
  BY <1>1, <1>2, <1>3, <1>4

\* A step of one call leaves the others as they are: those that are alone work
\* for another directory.
LEMMA StepKeeps ==
  ASSUME WorkspaceInv, NEW p \in Packers,
         WorkspaceTypeOK', DiskKept(p)', Progress(p)', disk' = disk,
         \A q \in Packers \ {p} : packing'[q] = packing[q],
         Live(p)' => /\ Live(p) /\ packing'[p].dir = packing[p].dir
                     /\ packing'[p].overlapped = packing[p].overlapped,
         packing[p].dir # Conv \/ ~Live(p) =>
           /\ staging'[Conv] = staging[Conv] /\ zip'[Conv] = zip[Conv]
           /\ exported'[Conv] = exported[Conv]
  PROVE  WorkspaceInv'
<1>1. OverlapsMarked'
  BY DEF WorkspaceInv, OverlapsMarked, Live
<1>2. ASSUME NEW q \in Packers \ {p} PROVE DiskKept(q)' /\ Progress(q)'
  <2>1. packing'[q] = packing[q]
    OBVIOUS
  <2>2. DiskKept(q)'
    BY <2>1 DEF WorkspaceInv, DiskKept
  <2>3. Live(q) /\ Lone(q) => packing[p].dir # Conv \/ ~Live(p)
    BY <1>2 DEF WorkspaceInv, OverlapsMarked, Lone
  <2>4. QED
    BY <2>1, <2>2, <2>3, ProgressLasts DEF WorkspaceInv
<1>3. QED
  BY <1>1, <1>2 DEF WorkspaceInv

\* What files hold only grows; nothing is lost by a save.
LEMMA SavesKeep ==
  ASSUME WorkspaceInv, NEW s \in Saved, OpenFile(s[1], s[2]) \/ WriteFile(s[1], s[2])
  PROVE  WorkspaceInv'
<1>1. /\ s[1] \in Dirs /\ s[2] \in Files
      /\ disk' = [disk EXCEPT ![s[1]][s[2]] = @ + 1]
      /\ UNCHANGED <<staging, zip, exported, packing>>
  BY WorkspaceFacts DEF OpenFile, WriteFile, Dirs
<1>2. /\ disk' \in [Dirs -> [Files -> Nat]]
      /\ \A d \in Dirs, f \in Files : disk'[d][f] >= disk[d][f]
  BY <1>1 DEF WorkspaceInv, WorkspaceTypeOK
<1>3. WorkspaceTypeOK' /\ OverlapsMarked'
  BY <1>1, <1>2 DEF WorkspaceInv, WorkspaceTypeOK, OverlapsMarked, Live
<1>4. ASSUME NEW p \in Packers PROVE DiskKept(p)' /\ Progress(p)'
  <2>1. packing[p].dir \in Dirs /\ packing[p].must \in [Files -> Nat] /\ Conv \in Dirs
        /\ packing[p].todo \subseteq Files
    BY DEF WorkspaceInv, WorkspaceTypeOK, Dirs, PackerCall
  <2>2. /\ disk \in [Dirs -> [Files -> Nat]]
        /\ DiskKept(p) /\ Progress(p)
    BY DEF WorkspaceInv, WorkspaceTypeOK
  <2>3. DiskKept(p)'
    BY <1>1, <1>2, <2>1, <2>2, WorkspaceFacts DEF DiskKept
  <2>4. Progress(p)'
    BY <1>1, <1>2, <2>1, <2>2 DEF Progress, Lone, Complete
  <2>5. QED
    BY <2>3, <2>4
<1>5. QED
  BY <1>3, <1>4 DEF WorkspaceInv

\* A call that starts, and may have exported a file at once.
LEMMA StartsKeep ==
  ASSUME WorkspaceInv, NEW p \in Packers, NEW given \in BOOLEAN,
         StartPacking(p, given) \/ Export(p, given)
  PROVE  WorkspaceInv'
<1> DEFINE d == WorkspaceDir(given)
<1>1. d \in Dirs /\ Conv \in Dirs
  BY DEF WorkspaceDir, Dirs
<1>2. CASE packing' = [packing EXCEPT ![p].at = "failed"] /\ UNCHANGED <<disk, staging, zip, exported>>
  <2>1. WorkspaceTypeOK'
    BY <1>2 DEF WorkspaceInv, WorkspaceTypeOK, PackerCall
  <2>2. packing'[p].at = "failed" /\ \A q \in Packers \ {p} : packing'[q] = packing[q]
    BY <1>2 DEF WorkspaceInv, WorkspaceTypeOK, PackerCall
  <2>3. DiskKept(p)' /\ Progress(p)' /\ ~Live(p)'
    BY <2>2 DEF DiskKept, Progress, Live
  <2>4. QED
    BY <1>2, <2>1, <2>2, <2>3, StepKeeps
<1>3. ASSUME NEW call,
             packing' = Starting(p, call), call.dir = d,
             call \in PackerCall, call.at \in {"refused", "clear", "exported"},
             UNCHANGED <<disk, staging, zip>>,
             exported' \in [Dirs -> SUBSET Packers],
             exported' = exported \/ \E x \in Dirs : x = d /\ exported' = [exported EXCEPT ![x] = {p}],
             call.at = "clear" =>
               /\ \A f \in Files : disk[d][f] >= call.must[f]
               /\ \A f \in RequiredFiles : disk[d][f] > 0,
             call.at = "exported" => exported'[d] = {p}
      PROVE  WorkspaceInv'
  <2> DEFINE others == {q \in Packers : Live(q) /\ packing[q].dir = d}
  <2>1. packing' = [q \in Packers |-> IF q = p THEN [call EXCEPT !.overlapped = others # {}]
                         ELSE [packing[q] EXCEPT !.overlapped = @ \/ q \in others]]
    BY <1>3 DEF Starting
  <2>2. packing \in [Packers -> PackerCall] /\ \A q \in Packers : packing[q].overlapped \in BOOLEAN
    BY DEF WorkspaceInv, WorkspaceTypeOK, PackerCall
  <2> HIDE DEF others
  <2>3. packing'[p] = [call EXCEPT !.overlapped = others # {}] /\ (others # {}) \in BOOLEAN
    BY <2>1
  <2>4. ASSUME NEW q \in Packers \ {p}
         PROVE  \/ packing'[q] = [packing[q] EXCEPT !.overlapped = TRUE]
                \/ /\ packing'[q] = [packing[q] EXCEPT !.overlapped = FALSE]
                   /\ ~packing[q].overlapped /\ q \notin others
    <3>1. CASE packing[q].overlapped \/ q \in others
      BY <2>1, <3>1
    <3>2. CASE ~(packing[q].overlapped \/ q \in others)
      BY <2>1, <3>2
    <3>3. QED
      BY <3>1, <3>2
  <2>5. packing' \in [Packers -> PackerCall]
    <3>1. packing'[p] \in PackerCall
      BY <1>3, <2>3, MarkedCalls
    <3>2. ASSUME NEW q \in Packers \ {p} PROVE packing'[q] \in PackerCall
      <4>1. packing[q] \in PackerCall
        BY <2>2
      <4>2. QED
        BY <2>4, <4>1, MarkedCalls
    <3>3. \A q \in Packers : packing'[q] \in PackerCall
      BY <3>1, <3>2
    <3>4. packing' = [q \in Packers |-> packing'[q]]
      BY <2>1
    <3>5. QED
      BY <3>3, <3>4
  <2>6. /\ packing'[p].at = call.at /\ packing'[p].dir = d
        /\ packing'[p].must = call.must
        /\ packing'[p].overlapped = (others # {})
    BY <1>3, <2>3, MarkedCalls
  <2>7. ASSUME NEW q \in Packers \ {p}
        PROVE  /\ packing'[q].at = packing[q].at /\ packing'[q].dir = packing[q].dir
               /\ packing'[q].must = packing[q].must /\ packing'[q].todo = packing[q].todo
               /\ packing'[q].sent = packing[q].sent
               /\ packing[q].overlapped => packing'[q].overlapped
               /\ q \in others => packing'[q].overlapped
    <3>1. packing[q] \in PackerCall
      BY <2>2
    <3>2. CASE packing'[q] = [packing[q] EXCEPT !.overlapped = TRUE]
      BY <3>1, <3>2, MarkedCalls
    <3>3. CASE /\ packing'[q] = [packing[q] EXCEPT !.overlapped = FALSE]
               /\ ~packing[q].overlapped /\ q \notin others
      BY <3>1, <3>3, MarkedCalls
    <3>4. QED
      BY <2>4, <3>2, <3>3
  <2>8. WorkspaceTypeOK'
    BY <1>3, <2>5 DEF WorkspaceInv, WorkspaceTypeOK
  <2>9. OverlapsMarked'
    <3>1. ASSUME NEW q \in Packers \ {p}, Live(q)', packing'[q].dir = d
          PROVE  packing'[q].overlapped /\ packing'[p].overlapped
      <4>1. q \in others
        BY <2>7, <3>1 DEF Live, others
      <4>2. QED
        BY <2>6, <2>7, <4>1
    <3>2. ASSUME NEW q \in Packers \ {p}, NEW r \in Packers \ {p}, q # r,
                 Live(q)', Live(r)', packing'[q].dir = packing'[r].dir
          PROVE  packing'[q].overlapped
      BY <2>7, <3>2 DEF WorkspaceInv, OverlapsMarked, Live
    <3>3. QED
      BY <2>6, <3>1, <3>2 DEF OverlapsMarked
  <2>10. ASSUME NEW q \in Packers PROVE DiskKept(q)'
    BY <1>3, <2>6, <2>7 DEF WorkspaceInv, DiskKept
  <2>11. ASSUME NEW q \in Packers PROVE Progress(q)'
    <3>1. CASE q = p
      BY <1>3, <2>6, <3>1 DEF Progress, Lone
    <3>2. CASE q # p
      <4>1. CASE packing[q].at = "exported" /\ Lone(q)'
        <5>1. Lone(q) /\ Live(q) /\ packing[q].dir # d
          BY <2>7, <3>2, <4>1 DEF Lone, Live, others
        <5>2. exported'[Conv] = exported[Conv]
          BY <1>1, <1>3, <5>1 DEF Lone, WorkspaceInv, WorkspaceTypeOK
        <5>3. QED
          BY <2>7, <3>2, <4>1, <5>1, <5>2 DEF Progress, WorkspaceInv
      <4>2. CASE packing[q].at # "exported" /\ Lone(q)'
        <5>1. Lone(q)
          BY <2>7, <3>2, <4>2 DEF Lone
        <5>2. QED
          BY <1>3, <2>7, <3>2, <4>2, <5>1 DEF Progress, Complete, WorkspaceInv
      <4>3. QED
        BY <4>1, <4>2 DEF Progress
    <3>3. QED
      BY <3>1, <3>2
  <2>12. QED
    BY <2>8, <2>9, <2>10, <2>11 DEF WorkspaceInv
<1>4. CASE StartPacking(p, given)
  <2> DEFINE call == [NoCall EXCEPT !.dir = d,
                        !.must = [f \in Files |-> Settled(disk[d][f])],
                        !.at = IF Present(d) = {} \/ Missing(d) # {} THEN "refused" ELSE "clear"]
  <2>1. \A n \in Nat : Settled(n) \in Nat /\ Settled(n) <= n
    BY DEF Settled
  <2>2. \A f \in Files : disk[d][f] \in Nat
    BY <1>1 DEF WorkspaceInv, WorkspaceTypeOK
  <2>3. /\ call \in PackerCall /\ call.at \in {"refused", "clear", "exported"}
        /\ call.dir = d /\ call.must = [f \in Files |-> Settled(disk[d][f])]
        /\ call.at = "clear" => Missing(d) = {}
        /\ call.at # "exported"
    BY <1>1, <2>1, <2>2 DEF NoCall, Nothing, PackerCall
  <2>4. call.at = "clear" =>
               /\ \A f \in Files : disk[d][f] >= call.must[f]
               /\ \A f \in RequiredFiles : disk[d][f] > 0
    BY <2>1, <2>2, <2>3 DEF Missing, Present
  <2>5. packing' = Starting(p, call) /\ UNCHANGED <<disk, staging, zip, exported>>
    BY <1>4 DEF StartPacking
  <2>6. exported' \in [Dirs -> SUBSET Packers]
    BY <2>5 DEF WorkspaceInv, WorkspaceTypeOK
  <2> HIDE DEF call, d
  <2>7. QED
    BY <1>3, <2>3, <2>4, <2>5, <2>6
<1>5. CASE /\ exported' = [exported EXCEPT ![d] = {p}]
           /\ packing' = Starting(p, [NoCall EXCEPT !.at = "exported", !.dir = d])
           /\ UNCHANGED <<disk, staging, zip>>
  <2> DEFINE call == [NoCall EXCEPT !.at = "exported", !.dir = d]
  <2>1. /\ call \in PackerCall /\ call.at \in {"refused", "clear", "exported"}
        /\ call.dir = d /\ call.at = "exported"
    BY <1>1 DEF NoCall, Nothing, PackerCall
  <2>2. exported' \in [Dirs -> SUBSET Packers] /\ exported'[d] = {p}
    BY <1>1, <1>5 DEF WorkspaceInv, WorkspaceTypeOK
  <2>3. packing' = Starting(p, call)
    BY <1>5
  <2> HIDE DEF call, d
  <2>4. QED
    BY <1>1, <1>3, <1>5, <2>1, <2>2, <2>3
<1>6. QED
  BY <1>2, <1>4, <1>5 DEF Export, Go

\* Each step of a packaging, and the sending of its result.
LEMMA PackingKeeps ==
  ASSUME WorkspaceInv, NEW p \in Packers,
         \/ ClearStaging(p) \/ CopyTemplate(p) \/ OverlayFile(p) \/ RemoveZip(p)
         \/ Compress(p) \/ CleanUp(p) \/ PackingFails(p) \/ SendPackage(p) \/ SendExport(p)
  PROVE  WorkspaceInv'
<1> DEFINE d == packing[p].dir
<1> USE WorkspaceFacts
<1>1. /\ d \in Dirs /\ Conv \in Dirs /\ WorkspaceTypeOK /\ DiskKept(p) /\ Progress(p)
      /\ packing[p] \in PackerCall
  BY DEF WorkspaceInv, WorkspaceTypeOK, PackerCall, Dirs
<1>2. CASE ClearStaging(p)
  <2>1. WorkspaceTypeOK'
    BY <1>1, <1>2 DEF ClearStaging, Go, WorkspaceTypeOK, Nothing, PackerCall
  <2>2. DiskKept(p)' /\ Progress(p)' /\ Live(p)
    BY <1>1, <1>2 DEF ClearStaging, Go, DiskKept, Progress, Lone, Live
  <2>3. QED
    BY <1>1, <1>2, <2>1, <2>2, StepKeeps DEF ClearStaging, Go, WorkspaceTypeOK, PackerCall
<1>3. CASE CopyTemplate(p)
  <2>1. staging' \in [Dirs -> [there : BOOLEAN, files : [Files -> Nat]]]
    <3>1. [there |-> TRUE, files |-> [f \in Files |-> IF f \in BaseFiles THEN Template ELSE 0]]
            \in [there : BOOLEAN, files : [Files -> Nat]]
      BY DEF Template
    <3>2. QED
      BY <1>1, <1>3, <3>1 DEF CopyTemplate, WorkspaceTypeOK, PackerCall
  <2>2. packing' = [packing EXCEPT ![p].at = "overlay", ![p].todo = Present(d)]
        /\ UNCHANGED <<disk, zip, exported>> /\ Present(d) \subseteq Files
    BY <1>3 DEF CopyTemplate, Present
  <2>3. WorkspaceTypeOK'
    BY <1>1, <2>1, <2>2 DEF WorkspaceTypeOK, PackerCall
  <2>4. /\ packing'[p].at = "overlay" /\ packing'[p].todo = Present(d)
        /\ packing'[p].dir = d /\ packing'[p].must = packing[p].must
        /\ packing'[p].overlapped = packing[p].overlapped
        /\ \A q \in Packers \ {p} : packing'[q] = packing[q]
    BY <1>1, <2>2 DEF WorkspaceTypeOK, PackerCall
  <2>5. DiskKept(p)' /\ Live(p)
    BY <1>1, <1>3, <2>2, <2>4 DEF CopyTemplate, DiskKept, Live
  <2>6. Progress(p)'
    <3>1. SUFFICES ASSUME Lone(p)'
                   PROVE  /\ \A f \in Present(d) : disk[Conv][f] > 0
                          /\ \A f \in BaseFiles : staging'[Conv].files[f] > 0
                          /\ \A f \in Files \ Present(d) :
                               /\ staging'[Conv].files[f] >= packing[p].must[f]
                               /\ f \in RequiredFiles => staging'[Conv].files[f] > 0
      BY <2>2, <2>4 DEF Progress
    <3>2. d = Conv
      BY <2>4, <3>1 DEF Lone
    <3>3. \A f \in Files : staging'[Conv].files[f] = IF f \in BaseFiles THEN Template ELSE 0
      BY <1>1, <1>3, <3>2 DEF CopyTemplate, WorkspaceTypeOK, PackerCall
    <3>4. \A f \in Files \ Present(d) : disk[Conv][f] = 0
      BY <1>1, <3>2 DEF Present, WorkspaceTypeOK, PackerCall
    <3>5. packing[p].must \in [Files -> Nat]
      BY <1>1 DEF PackerCall
    <3>6. /\ \A f \in Files : disk[Conv][f] >= packing[p].must[f]
          /\ \A f \in RequiredFiles : disk[Conv][f] > 0
      BY <1>1, <1>3, <3>2 DEF DiskKept, CopyTemplate
    <3>7. \A f \in Files \ Present(d) : packing[p].must[f] = 0 /\ f \notin RequiredFiles
      BY <3>4, <3>5, <3>6
    <3>8. QED
      BY <3>2, <3>3, <3>7 DEF Present, Template
  <2>7. packing[p].dir # Conv => staging'[Conv] = staging[Conv]
    BY <1>1, <1>3 DEF CopyTemplate, WorkspaceTypeOK, PackerCall
  <2>8. QED
    BY <2>2, <2>3, <2>4, <2>5, <2>6, <2>7, StepKeeps
<1>4. CASE OverlayFile(p)
  <2>1. PICK f \in packing[p].todo :
           /\ staging' = [staging EXCEPT ![d] =
                [there |-> TRUE, files |-> [@.files EXCEPT ![f] = disk[d][f]]]]
           /\ packing' = [packing EXCEPT ![p].todo = @ \ {f}]
           /\ UNCHANGED <<disk, zip, exported>> /\ packing[p].at = "overlay"
    BY <1>4 DEF OverlayFile
  <2>2. f \in Files /\ disk[d][f] \in Nat
    BY <1>1, <2>1 DEF WorkspaceTypeOK, PackerCall
  <2>3. /\ staging' \in [Dirs -> [there : BOOLEAN, files : [Files -> Nat]]]
        /\ staging'[d].files = [staging[d].files EXCEPT ![f] = disk[d][f]]
        /\ d # Conv => staging'[Conv] = staging[Conv]
    <3>1. staging[d] \in [there : BOOLEAN, files : [Files -> Nat]]
      BY <1>1 DEF WorkspaceTypeOK
    <3>2. [staging[d].files EXCEPT ![f] = disk[d][f]] \in [Files -> Nat]
      BY <2>2, <3>1
    <3>3. staging' = [staging EXCEPT ![d] =
            [there |-> TRUE, files |-> [staging[d].files EXCEPT ![f] = disk[d][f]]]]
      BY <2>1
    <3>4. QED
      BY <1>1, <3>2, <3>3 DEF WorkspaceTypeOK
  <2>4. WorkspaceTypeOK'
    BY <1>1, <2>1, <2>3 DEF WorkspaceTypeOK, PackerCall
  <2>5. /\ packing'[p].at = "overlay" /\ packing'[p].todo = packing[p].todo \ {f}
        /\ packing'[p].dir = d /\ packing'[p].must = packing[p].must
        /\ packing'[p].overlapped = packing[p].overlapped
        /\ \A q \in Packers \ {p} : packing'[q] = packing[q]
    BY <1>1, <2>1 DEF WorkspaceTypeOK, PackerCall
  <2>6. DiskKept(p)' /\ Live(p)
    BY <1>1, <2>1, <2>5 DEF DiskKept, Live
  <2>7. Progress(p)'
    <3>1. SUFFICES ASSUME Lone(p)'
                   PROVE  /\ \A g \in packing[p].todo \ {f} : disk[Conv][g] > 0
                          /\ \A g \in BaseFiles : staging'[Conv].files[g] > 0
                          /\ \A g \in Files \ (packing[p].todo \ {f}) :
                               /\ staging'[Conv].files[g] >= packing[p].must[g]
                               /\ g \in RequiredFiles => staging'[Conv].files[g] > 0
      BY <2>1, <2>5 DEF Progress
    <3>2. d = Conv /\ Lone(p)
      BY <2>5, <3>1 DEF Lone
    <3>3. /\ \A g \in packing[p].todo : disk[Conv][g] > 0
          /\ \A g \in BaseFiles : staging[Conv].files[g] > 0
          /\ \A g \in Files \ packing[p].todo :
               /\ staging[Conv].files[g] >= packing[p].must[g]
               /\ g \in RequiredFiles => staging[Conv].files[g] > 0
      BY <1>1, <2>1, <3>2 DEF Progress
    <3>4. disk[Conv][f] > 0 /\ disk[Conv][f] >= packing[p].must[f]
      BY <1>1, <2>1, <2>2, <3>2, <3>3 DEF DiskKept
    <3>5. \A g \in Files : staging'[Conv].files[g] = IF g = f THEN disk[Conv][f]
                                                     ELSE staging[Conv].files[g]
      BY <1>1, <2>2, <2>3, <3>2 DEF WorkspaceTypeOK, PackerCall
    <3>6. QED
      BY <3>3, <3>4, <3>5
  <2>8. QED
    BY <2>1, <2>3, <2>4, <2>5, <2>6, <2>7, StepKeeps
<1>5. CASE RemoveZip(p)
  <2>1. WorkspaceTypeOK'
    BY <1>1, <1>5 DEF RemoveZip, Go, WorkspaceTypeOK, PackerCall
  <2>2. DiskKept(p)' /\ Progress(p)' /\ Live(p)
    BY <1>1, <1>5 DEF RemoveZip, Go, DiskKept, Progress, Complete, Lone, Live, WorkspaceTypeOK, PackerCall
  <2>3. QED
    BY <1>1, <1>5, <2>1, <2>2, StepKeeps DEF RemoveZip, Go, WorkspaceTypeOK, PackerCall
<1>6. CASE Compress(p)
  <2>1. WorkspaceTypeOK'
    <3>1. staging[d].files \in [Files -> Nat]
      BY <1>1 DEF WorkspaceTypeOK
    <3>2. zip' \in [Dirs -> SUBSET [Files -> Nat]]
      BY <1>1, <1>6, <3>1 DEF Compress, WorkspaceTypeOK
    <3>3. packing' \in [Packers -> PackerCall]
      BY <1>1, <1>6 DEF Compress, Go, WorkspaceTypeOK, PackerCall
    <3>4. QED
      BY <1>1, <1>6, <3>2, <3>3 DEF Compress, WorkspaceTypeOK
  <2>2. DiskKept(p)' /\ Progress(p)' /\ Live(p)
    BY <1>1, <1>6 DEF Compress, Go, DiskKept, Progress, Complete, Lone, Live, WorkspaceTypeOK, PackerCall
  <2>3. QED
    BY <1>1, <1>6, <2>1, <2>2, StepKeeps DEF Compress, Go, WorkspaceTypeOK, PackerCall
<1>7. CASE CleanUp(p)
  <2>1. WorkspaceTypeOK'
    BY <1>1, <1>7 DEF CleanUp, Go, WorkspaceTypeOK, Nothing, PackerCall
  <2>2. DiskKept(p)' /\ Progress(p)' /\ Live(p)
    BY <1>1, <1>7 DEF CleanUp, Go, DiskKept, Progress, Complete, Lone, Live, WorkspaceTypeOK, PackerCall
  <2>3. QED
    BY <1>1, <1>7, <2>1, <2>2, StepKeeps DEF CleanUp, Go, WorkspaceTypeOK, PackerCall
<1>8. CASE PackingFails(p)
  <2>1. WorkspaceTypeOK'
    BY <1>1, <1>8 DEF PackingFails, NoCall, Nothing, WorkspaceTypeOK, PackerCall
  <2>2. DiskKept(p)' /\ Progress(p)' /\ Live(p) /\ ~Live(p)'
    BY <1>1, <1>8 DEF PackingFails, NoCall, DiskKept, Progress, Live, WorkspaceTypeOK, PackerCall
  <2>3. QED
    BY <1>1, <1>8, <2>1, <2>2, StepKeeps DEF PackingFails, WorkspaceTypeOK, PackerCall
<1>9. CASE SendPackage(p)
  <2>1. WorkspaceTypeOK'
    BY <1>1, <1>9 DEF SendPackage, WorkspaceTypeOK, PackerCall
  <2>2. DiskKept(p)' /\ Progress(p)' /\ Live(p)
    BY <1>1, <1>9 DEF SendPackage, DiskKept, Progress, Complete, Lone, Live, WorkspaceTypeOK, PackerCall
  <2>3. QED
    BY <1>1, <1>9, <2>1, <2>2, StepKeeps DEF SendPackage, WorkspaceTypeOK, PackerCall
<1>10. CASE SendExport(p)
  <2>1. WorkspaceTypeOK'
    BY <1>1, <1>10 DEF SendExport, WorkspaceTypeOK, PackerCall
  <2>2. DiskKept(p)' /\ Progress(p)' /\ Live(p)
    BY <1>1, <1>10 DEF SendExport, DiskKept, Progress, Complete, Lone, Live, WorkspaceTypeOK, PackerCall
  <2>3. QED
    BY <1>1, <1>10, <2>1, <2>2, StepKeeps DEF SendExport, WorkspaceTypeOK, PackerCall
<1>11. QED
  BY <1>2, <1>3, <1>4, <1>5, <1>6, <1>7, <1>8, <1>9, <1>10

\* A package sent for a call of the conversation that was alone is complete and
\* holds all that had been saved before it, for any files, number of calls and
\* saves beside them (partner_integration.py 114-185, 494-508; chat_engine.py 907-923).
THEOREM PackagesAreComplete == WorkspaceSpec => []PackageComplete
<1>1. WorkspaceInv => PackageComplete
  BY DEF WorkspaceInv, Progress, Lone, Complete, PackageComplete
<1>2. WorkspaceInv /\ [WorkspaceNext]_workspaceVars => WorkspaceInv'
  <2>1. CASE UNCHANGED workspaceVars
    BY <2>1 DEF workspaceVars, WorkspaceInv, WorkspaceTypeOK, OverlapsMarked, Live, DiskKept,
       Progress, Lone, Complete
  <2>2. QED
    BY <2>1, SavesKeep, StartsKeep, PackingKeeps DEF WorkspaceNext
<1>3. QED
  BY WorkspaceStarts, <1>1, <1>2, PTL DEF WorkspaceSpec
-----------------------------------------------------------------------------
(* The chunker.                                                            *)

Earlier == {nn \in Nat \X Nat : nn[1] < nn[2]}

\* Induction over the natural numbers, for sets.
LEMMA InductiveSet ==
  ASSUME NEW T, 0 \in T, \A n \in Nat : n \in T => n + 1 \in T
  PROVE  Nat \subseteq T
<1> DEFINE rest == Nat \ T
<1>1. SUFFICES ASSUME rest # {} PROVE FALSE
  OBVIOUS
<1>2. IsWellFoundedOn(Earlier, Nat)
  BY NatLessThanWellFounded DEF OpToRel, Earlier
<1>3. rest \in SUBSET Nat
  OBVIOUS
<1> HIDE DEF rest
<1>4. PICK m \in rest : \A k \in rest : ~(<<k, m>> \in Earlier)
  BY ONLY <1>1, <1>2, <1>3, WFMin
<1> USE DEF rest
<1>5. m \in Nat /\ m # 0 /\ m - 1 \in Nat /\ m - 1 + 1 = m
  BY <1>4
<1>6. m - 1 \in T
  <2>1. CASE m - 1 \notin T
    <3>1. m - 1 \in rest /\ <<m - 1, m>> \in Earlier
      BY <1>5, <2>1 DEF Earlier
    <3> QED BY <1>4, <3>1
  <2> QED BY <2>1
<1> QED
  BY <1>4, <1>5, <1>6

\* f takes N steps from base, staying in V.
Steps(N, V) == [1..N -> [V -> V]]
Walk(f, N, V, base, step) ==
  f \in [0..N -> V] /\ f[0] = base /\ \A k \in 1..N : f[k] = step[k][f[k - 1]]

\* Steps that lead from each value of a set to one of it can be taken one after
\* the other.
LEMMA StepsCompose ==
  ASSUME NEW N \in Nat, NEW V, NEW base \in V, NEW step \in Steps(N, V)
  PROVE  \E f : Walk(f, N, V, base, step)
<1> USE DEF Steps
<1> DEFINE Taken(n, f) == f[0] = base /\ \A k \in 1..n : f[k] = step[k][f[k - 1]]
           T == {n \in Nat : n <= N => \E f \in [0..n -> V] : Taken(n, f)}
<1>1. 0 \in T
  <2>1. [k \in 0..0 |-> base] \in [0..0 -> V] /\ Taken(0, [k \in 0..0 |-> base])
    OBVIOUS
  <2> QED BY <2>1
<1>2. ASSUME NEW n \in Nat, n \in T PROVE n + 1 \in T
  <2>1. SUFFICES ASSUME n + 1 <= N PROVE \E g \in [0..(n + 1) -> V] : Taken(n + 1, g)
    OBVIOUS
  <2>2. PICK f \in [0..n -> V] : Taken(n, f)
    BY <1>2, <2>1
  <2> DEFINE g == [k \in 0..(n + 1) |-> IF k = n + 1 THEN step[n + 1][f[n]] ELSE f[k]]
  <2>3. n + 1 \in 1..N /\ f[n] \in V /\ step[n + 1][f[n]] \in V
    BY <2>1, <2>2
  <2>4. g \in [0..(n + 1) -> V]
    BY <2>2, <2>3
  <2>5. g[0] = base
    BY <2>2
  <2>6. ASSUME NEW k \in 1..(n + 1) PROVE g[k] = step[k][g[k - 1]]
    <3>1. CASE k = n + 1
      BY <2>2, <3>1
    <3>2. CASE k # n + 1
      <4>1. k \in 1..n /\ k - 1 \in 0..n
        BY <3>2
      <4> QED BY <2>2, <4>1
    <3> QED BY <3>1, <3>2
  <2> HIDE DEF g
  <2> QED BY <2>4, <2>5, <2>6
<1>3. N \in T
  <2> HIDE DEF T
  <2> QED BY <1>1, <1>2, InductiveSet
<1> QED BY <1>3 DEF Walk

Text == Seq(Nat \ {0})
AnyPiece == [par : Nat, from : Nat, to : Nat]
AnyChunk == [len : Nat, holds : SUBSET AnyPiece]

LEMMA Sizes ==
  /\ ChunkSize \in Nat \ {0} /\ Overlap \in Nat
BY DocumentsAssumption DEF DocumentsAssumption

\* Multiples keep their order.
LEMMA Multiples ==
  ASSUME NEW a \in Nat, NEW b \in Nat, NEW c \in Nat \ {0}
  PROVE  /\ a * c \in Nat
         /\ a < b => a * c + c <= b * c
         /\ (a + 1) * c = a * c + c
<1>1. a * c \in Nat /\ b * c \in Nat /\ (a + 1) * c = a * c + c
  BY Z3
<1>2. ASSUME a < b PROVE a * c + c <= b * c
  <2>1. b - a - 1 \in Nat /\ b = a + 1 + (b - a - 1)
    BY <1>2
  <2>2. b * c = (a + 1) * c + (b - a - 1) * c /\ (b - a - 1) * c \in Nat
    BY <2>1
  <2> QED BY <1>1, <2>2
<1> QED BY <1>1, <1>2

LEMMA Quotient ==
  ASSUME NEW a \in Nat, NEW c \in Nat \ {0}
  PROVE  a \div c \in Nat /\ (a \div c) * c <= a
OBVIOUS

\* A paragraph is cut into parts of at most a chunk, each different.
LEMMA CutParts ==
  ASSUME NEW i \in Nat, NEW length \in Nat \ {0}
  PROVE  /\ Cut(i, length) \in Seq(AnyPiece)
         /\ \A k \in DOMAIN Cut(i, length) :
               /\ Cut(i, length)[k].par = i
               /\ Length(Cut(i, length)[k]) \in 1..ChunkSize
         /\ \A k, l \in DOMAIN Cut(i, length) :
               k # l => Cut(i, length)[k] # Cut(i, length)[l]
<1> DEFINE parts == (length + ChunkSize - 1) \div ChunkSize
<1>1. /\ length + ChunkSize - 1 \in Nat /\ parts \in Nat
      /\ parts * ChunkSize <= length + ChunkSize - 1
  <2>1. length + ChunkSize - 1 \in Nat
    BY Sizes
  <2> QED BY <2>1, Sizes, Quotient
<1> HIDE DEF parts
<1>2. Cut(i, length) =
        [k \in 1..parts |-> Piece(i, (k - 1) * ChunkSize, Least(k * ChunkSize, length))]
  BY DEF Cut, parts
<1>3. DOMAIN Cut(i, length) = 1..parts
  BY <1>2
<1>4. ASSUME NEW k \in 1..parts
      PROVE  /\ (k - 1) * ChunkSize \in Nat /\ k * ChunkSize \in Nat
             /\ k * ChunkSize = (k - 1) * ChunkSize + ChunkSize
             /\ (k - 1) * ChunkSize < length
  <2>1. k \in Nat /\ k - 1 \in Nat /\ k - 1 + 1 = k
    BY <1>1
  <2>2. /\ (k - 1) * ChunkSize \in Nat /\ k * ChunkSize \in Nat
        /\ k * ChunkSize = (k - 1) * ChunkSize + ChunkSize
    BY ONLY <2>1, Sizes, Multiples
  <2>3. k * ChunkSize <= parts * ChunkSize
    <3>1. CASE k = parts
      BY ONLY <2>2, <3>1, Sizes
    <3>2. CASE k < parts
      <4>1. k * ChunkSize + ChunkSize <= parts * ChunkSize /\ parts * ChunkSize \in Nat
        BY ONLY <1>1, <2>1, <3>2, Sizes, Multiples
      <4> QED BY ONLY <2>2, <4>1, Sizes
    <3> QED BY <1>1, <3>1, <3>2
  <2>4. parts * ChunkSize \in Nat
    BY ONLY <1>1, Sizes, Multiples
  <2> QED BY ONLY <1>1, <2>2, <2>3, <2>4, Sizes, length \in Nat \ {0}
<1>5. ASSUME NEW k \in 1..parts
      PROVE  /\ Cut(i, length)[k] \in AnyPiece /\ Cut(i, length)[k].par = i
             /\ Cut(i, length)[k].from = (k - 1) * ChunkSize
             /\ Length(Cut(i, length)[k]) \in 1..ChunkSize
  <2>1. Cut(i, length)[k] =
          [par |-> i, from |-> (k - 1) * ChunkSize, to |-> Least(k * ChunkSize, length)]
    BY <1>2 DEF Piece
  <2>2. /\ Least(k * ChunkSize, length) \in Nat
        /\ Least(k * ChunkSize, length) - (k - 1) * ChunkSize \in 1..ChunkSize
    BY ONLY <1>4, Sizes, length \in Nat \ {0} DEF Least
  <2> QED BY <1>4, <2>1, <2>2 DEF AnyPiece, Length
<1>6. ASSUME NEW k \in 1..parts, NEW l \in 1..parts, k < l
      PROVE  Cut(i, length)[k].from # Cut(i, length)[l].from
  <2>1. k - 1 \in Nat /\ l - 1 \in Nat /\ k - 1 < l - 1
    BY <1>1, <1>6
  <2>2. (k - 1) * ChunkSize + ChunkSize <= (l - 1) * ChunkSize
    BY ONLY <2>1, Sizes, Multiples
  <2>3. (k - 1) * ChunkSize # (l - 1) * ChunkSize
    BY ONLY <1>4, <2>2, Sizes
  <2> QED BY ONLY <1>5, <2>3
<1>7. \A k, l \in 1..parts : k # l => Cut(i, length)[k] # Cut(i, length)[l]
  <2> TAKE k, l \in 1..parts
  <2>1. k < l \/ l < k \/ k = l
    BY <1>1
  <2> QED BY <1>6, <2>1
<1>8. Cut(i, length) \in Seq(AnyPiece)
  <2>1. Cut(i, length) \in [1..parts -> AnyPiece]
    BY <1>2, <1>5
  <2> QED BY <1>1, <2>1
<1> QED BY <1>3, <1>5, <1>7, <1>8

\* The recursion over the paragraphs is defined.
LEMMA PiecesStepwise ==
  ASSUME NEW text \in Text
  PROVE  /\ PiecesUpTo(text) \in [0..Len(text) -> Seq(AnyPiece)]
         /\ PiecesUpTo(text)[0] = <<>>
         /\ \A n \in 1..Len(text) :
               PiecesUpTo(text)[n] = PiecesUpTo(text)[n - 1] \o Cut(n, text[n])
<1> DEFINE N == Len(text)
           V == Seq(AnyPiece)
           step == [n \in 1..N |-> [s \in V |-> s \o Cut(n, text[n])]]
           body(f) == [n \in 0..N |-> IF n = 0 THEN <<>> ELSE f[n - 1] \o Cut(n, text[n])]
<1>1. N \in Nat /\ \A n \in 1..N : n \in Nat /\ text[n] \in Nat \ {0}
  BY DEF Text
<1>2. \A n \in 1..N : Cut(n, text[n]) \in V
  BY <1>1, CutParts
<1>3. <<>> \in V /\ step \in [1..N -> [V -> V]]
  <2>1. \A n \in 1..N : \A s \in V : s \o Cut(n, text[n]) \in V
    BY <1>2
  <2> QED BY <2>1
<1> HIDE DEF V
<1>4. PICK f \in [0..N -> V] : f[0] = <<>> /\ \A k \in 1..N : f[k] = step[k][f[k - 1]]
  <2>1. N \in Nat
    BY <1>1
  <2>2. step \in Steps(N, V)
    BY <1>3 DEF Steps
  <2> HIDE DEF N, step
  <2>3. PICK f : Walk(f, N, V, <<>>, step)
    BY ONLY <2>1, <1>3, <2>2, StepsCompose
  <2> QED BY <2>3 DEF Walk
<1>5. \A k \in 1..N : f[k - 1] \in V /\ f[k] = f[k - 1] \o Cut(k, text[k])
  <2> TAKE k \in 1..N
  <2>1. k - 1 \in 0..N
    BY <1>1
  <2> QED BY <1>4, <2>1
<1>6. f = body(f)
  <2>1. ASSUME NEW n \in 0..N PROVE f[n] = IF n = 0 THEN <<>> ELSE f[n - 1] \o Cut(n, text[n])
    <3>1. n = 0 \/ n \in 1..N
      BY <1>1
    <3> QED BY <1>4, <1>5, <3>1
  <2> QED BY <1>4, <2>1
<1>7. PiecesUpTo(text) = CHOOSE g : g = body(g)
  BY DEF PiecesUpTo
<1>8. PiecesUpTo(text) = body(PiecesUpTo(text))
  <2> HIDE DEF body
  <2> QED BY <1>6, <1>7
<1> DEFINE p == PiecesUpTo(text)
<1> HIDE DEF p
<1>9. p = body(p)
  BY <1>8 DEF p
<1>10. /\ DOMAIN p = 0..N /\ p[0] = <<>>
       /\ \A n \in 1..N : p[n] = p[n - 1] \o Cut(n, text[n])
  <2>1. 0 \in 0..N /\ \A n \in 1..N : n \in 0..N /\ n # 0
    BY <1>1
  <2> QED BY <1>9, <2>1
<1>11. \A n \in 0..N : p[n] \in V
  <2> DEFINE T == {n \in Nat : n <= N => p[n] \in V}
  <2>1. 0 \in T
    BY <1>3, <1>10
  <2>2. ASSUME NEW n \in Nat, n \in T PROVE n + 1 \in T
    <3>1. SUFFICES ASSUME n + 1 <= N PROVE p[n + 1] \in V
      OBVIOUS
    <3>2. n + 1 \in 1..N /\ n + 1 - 1 = n /\ p[n] \in V
      BY <1>1, <2>2, <3>1
    <3>3. PICK m : m = n + 1
      OBVIOUS
    <3>4. m \in 1..N /\ m - 1 = n
      BY ONLY <3>2, <3>3
    <3>5. p[m] = p[m - 1] \o Cut(m, text[m])
      BY ONLY <1>10, <3>4
    <3>6. p[n] \in V /\ Cut(m, text[m]) \in V
      BY <1>2, <3>2, <3>4
    <3> QED BY <3>3, <3>4, <3>5, <3>6 DEF V
  <2>3. Nat \subseteq T
    <3> HIDE DEF T
    <3> QED BY <2>1, <2>2, InductiveSet
  <2> QED BY <1>1, <2>3
<1>12. p \in [0..N -> V]
  <2>1. p = [n \in 0..N |-> p[n]]
    BY <1>9
  <2> QED BY <1>11, <2>1
<1> QED BY <1>10, <1>12 DEF p, V

\* The pieces of the first n paragraphs are different, and no longer than a
\* chunk.
DistinctPieces(s, n) ==
  /\ s \in Seq(AnyPiece)
  /\ \A k \in DOMAIN s : s[k].par \in 1..n /\ Length(s[k]) \in 1..ChunkSize
  /\ \A k, l \in DOMAIN s : k # l => s[k] # s[l]

LEMMA PiecesAppended ==
  ASSUME NEW n \in Nat, NEW s, NEW t, DistinctPieces(s, n), t \in Seq(AnyPiece),
         \A k \in DOMAIN t : t[k].par = n + 1 /\ Length(t[k]) \in 1..ChunkSize,
         \A k, l \in DOMAIN t : k # l => t[k] # t[l]
  PROVE  DistinctPieces(s \o t, n + 1)
<1> DEFINE a == Len(s)
           b == Len(t)
<1>1. /\ s \in Seq(AnyPiece) /\ a \in Nat /\ b \in Nat /\ DOMAIN s = 1..a /\ DOMAIN t = 1..b
      /\ s \o t \in Seq(AnyPiece) /\ DOMAIN (s \o t) = 1..(a + b)
  BY DEF DistinctPieces
<1>2. \A k \in 1..(a + b) : (s \o t)[k] = IF k <= a THEN s[k] ELSE t[k - a]
  BY <1>1
<1> HIDE DEF a, b
<1>3. ASSUME NEW k \in 1..(a + b)
      PROVE  \/ k \in 1..a /\ k <= a
             \/ k - a \in 1..b /\ ~(k <= a)
  BY <1>1
<1>4. ASSUME NEW k \in 1..(a + b)
      PROVE  /\ (s \o t)[k].par \in 1..(n + 1)
             /\ Length((s \o t)[k]) \in 1..ChunkSize
             /\ k <= a => (s \o t)[k].par \in 1..n
             /\ ~(k <= a) => (s \o t)[k].par = n + 1
  <2>1. CASE k \in 1..a /\ k <= a
    <3>1. (s \o t)[k] = s[k] /\ s[k].par \in 1..n /\ Length(s[k]) \in 1..ChunkSize
      BY <1>1, <1>2, <2>1 DEF DistinctPieces
    <3> QED BY <2>1, <3>1
  <2>2. CASE k - a \in 1..b /\ ~(k <= a)
    <3>1. /\ (s \o t)[k] = t[k - a] /\ t[k - a].par = n + 1
          /\ Length(t[k - a]) \in 1..ChunkSize
      BY <1>1, <1>2, <2>2
    <3> QED BY <2>2, <3>1
  <2> QED BY <1>3, <2>1, <2>2
<1>5. ASSUME NEW k \in 1..(a + b), NEW l \in 1..(a + b), k < l
      PROVE  (s \o t)[k] # (s \o t)[l]
  <2>1. CASE k \in 1..a /\ k <= a /\ l \in 1..a /\ l <= a
    <3>1. k # l
      BY <1>1, <1>5
    <3>2. s[k] # s[l]
      BY <1>1, <2>1, <3>1 DEF DistinctPieces
    <3> QED BY <1>2, <2>1, <3>2
  <2>2. CASE k <= a /\ ~(l <= a)
    <3>1. (s \o t)[k].par \in 1..n /\ (s \o t)[l].par = n + 1
      BY <1>4, <2>2
    <3>2. \A i \in 1..n : i # n + 1
      BY ONLY n \in Nat
    <3> QED BY <3>1, <3>2
  <2>3. CASE k - a \in 1..b /\ ~(k <= a) /\ l - a \in 1..b /\ ~(l <= a)
    <3>1. k - a # l - a
      BY <1>1, <1>5
    <3>2. t[k - a] # t[l - a]
      BY ONLY <1>1, <2>3, <3>1, \A x, y \in DOMAIN t : x # y => t[x] # t[y]
    <3> QED BY <1>2, <2>3, <3>2
  <2> QED BY <1>1, <1>3, <1>5, <2>1, <2>2, <2>3
<1>6. \A k, l \in 1..(a + b) : k # l => (s \o t)[k] # (s \o t)[l]
  <2> TAKE k, l \in 1..(a + b)
  <2>1. k < l \/ l < k \/ k = l
    BY <1>1
  <2> QED BY <1>5, <2>1
<1> QED BY <1>1, <1>4, <1>6 DEF DistinctPieces

LEMMA PiecesDistinct ==
  ASSUME NEW text \in Text
  PROVE  DistinctPieces(Pieces(text), Len(text))
<1> DEFINE T == {n \in Nat : n <= Len(text) => DistinctPieces(PiecesUpTo(text)[n], n)}
<1>1. Len(text) \in Nat /\ \A n \in 1..Len(text) : n \in Nat /\ text[n] \in Nat \ {0}
  BY DEF Text
<1>2. 0 \in T
  <2>1. PiecesUpTo(text)[0] = <<>>
    BY PiecesStepwise
  <2>2. DistinctPieces(<<>>, 0)
    BY DEF DistinctPieces
  <2> QED BY <2>1, <2>2
<1>3. ASSUME NEW n \in Nat, n \in T PROVE n + 1 \in T
  <2>1. SUFFICES ASSUME n + 1 <= Len(text)
                 PROVE  DistinctPieces(PiecesUpTo(text)[n + 1], n + 1)
    OBVIOUS
  <2>2. n + 1 \in 1..Len(text) /\ n + 1 - 1 = n /\ n + 1 \in Nat /\ n <= Len(text)
    BY <1>1, <2>1
  <2>3. PiecesUpTo(text)[n + 1] = PiecesUpTo(text)[n] \o Cut(n + 1, text[n + 1])
    <3>1. \A k \in 1..Len(text) : PiecesUpTo(text)[k] = PiecesUpTo(text)[k - 1] \o Cut(k, text[k])
      BY PiecesStepwise
    <3>2. PICK m : m = n + 1
      OBVIOUS
    <3>3. m \in 1..Len(text) /\ m - 1 = n
      BY ONLY <2>2, <3>2
    <3>4. PiecesUpTo(text)[m] = PiecesUpTo(text)[m - 1] \o Cut(m, text[m])
      BY ONLY <3>1, <3>3
    <3> QED BY <3>2, <3>3, <3>4
  <2>4. DistinctPieces(PiecesUpTo(text)[n], n)
    BY <1>3, <2>2
  <2>5. text[n + 1] \in Nat \ {0}
    BY <1>1, <2>2
  <2> DEFINE part == Cut(n + 1, text[n + 1])
  <2>6. /\ part \in Seq(AnyPiece)
        /\ \A k \in DOMAIN part : part[k].par = n + 1 /\ Length(part[k]) \in 1..ChunkSize
        /\ \A k, l \in DOMAIN part : k # l => part[k] # part[l]
    BY ONLY <2>2, <2>5, CutParts
  <2> HIDE DEF part
  <2>7. DistinctPieces(PiecesUpTo(text)[n] \o part, n + 1)
    BY ONLY <2>4, <2>6, n \in Nat, PiecesAppended
  <2> QED BY <2>3, <2>7 DEF part
<1>4. Len(text) \in T
  <2> HIDE DEF T
  <2> QED BY <1>1, <1>2, <1>3, InductiveSet
<1> QED BY <1>4 DEF Pieces

-----------------------------------------------------------------------------
\* What the loop over the pieces has.
Loop == [done : Seq(AnyChunk), buf : AnyChunk]

LEMMA JoinType ==
  ASSUME NEW acc \in Loop, NEW piece \in AnyPiece, Length(piece) \in Nat
  PROVE  Join(acc, piece) \in Loop
BY Sizes DEF Join, Loop, AnyChunk, Least

LEMMA FilledStepwise ==
  ASSUME NEW s \in Seq(AnyPiece), \A k \in DOMAIN s : Length(s[k]) \in Nat
  PROVE  /\ Filled(s) \in [0..Len(s) -> Loop]
         /\ Filled(s)[0] = Start
         /\ \A n \in 1..Len(s) : Filled(s)[n] = Join(Filled(s)[n - 1], s[n])
<1> DEFINE N == Len(s)
           step == [n \in 1..N |-> [acc \in Loop |-> Join(acc, s[n])]]
           body(f) == [n \in 0..N |-> IF n = 0 THEN Start ELSE Join(f[n - 1], s[n])]
<1>1. N \in Nat /\ \A n \in 1..N : s[n] \in AnyPiece /\ Length(s[n]) \in Nat
  OBVIOUS
<1>2. \A n \in 1..N : \A acc \in Loop : Join(acc, s[n]) \in Loop
  BY <1>1, JoinType
<1>3. Start \in Loop /\ step \in Steps(N, Loop)
  <2>1. Start \in Loop
    BY DEF Start, Loop, AnyChunk
  <2> HIDE DEF N
  <2> QED BY <1>2, <2>1 DEF Steps
<1>4. PICK f : Walk(f, N, Loop, Start, step)
  <2> HIDE DEF N, step
  <2> QED BY ONLY <1>1, <1>3, StepsCompose
<1>5. /\ f \in [0..N -> Loop] /\ f[0] = Start
      /\ \A n \in 1..N : f[n] = Join(f[n - 1], s[n])
  <2>1. /\ f \in [0..N -> Loop] /\ f[0] = Start
        /\ \A n \in 1..N : f[n] = step[n][f[n - 1]]
    BY <1>4 DEF Walk
  <2>2. ASSUME NEW n \in 1..N PROVE f[n] = Join(f[n - 1], s[n])
    <3>1. f[n - 1] \in Loop
      BY <1>1, <2>1
    <3> QED BY <2>1, <3>1
  <2> QED BY <2>1, <2>2
<1>6. f = body(f)
  <2>1. ASSUME NEW n \in 0..N PROVE f[n] = IF n = 0 THEN Start ELSE Join(f[n - 1], s[n])
    <3>1. n = 0 \/ n \in 1..N
      BY <1>1
    <3> QED BY <1>5, <3>1
  <2> QED BY <1>5, <2>1
<1>7. Filled(s) = CHOOSE g : g = body(g)
  BY DEF Filled
<1>8. Filled(s) = body(Filled(s))
  <2> HIDE DEF body
  <2> QED BY <1>6, <1>7
<1> DEFINE g == Filled(s)
<1> HIDE DEF g, Loop
<1>9. g = body(g)
  BY <1>8 DEF g
<1>10. /\ g = [n \in 0..N |-> g[n]] /\ g[0] = Start
       /\ \A n \in 1..N : g[n] = Join(g[n - 1], s[n])
  <2>1. 0 \in 0..N /\ \A n \in 1..N : n \in 0..N /\ n # 0
    BY <1>1
  <2> QED BY <1>9, <2>1
<1>11. \A n \in 0..N : g[n] \in Loop
  <2> DEFINE T == {n \in Nat : n <= N => g[n] \in Loop}
  <2>1. 0 \in T
    BY <1>3, <1>10
  <2>2. ASSUME NEW n \in Nat, n \in T PROVE n + 1 \in T
    <3>1. SUFFICES ASSUME n + 1 <= N PROVE g[n + 1] \in Loop
      OBVIOUS
    <3>2. n + 1 \in 1..N /\ n + 1 - 1 = n /\ g[n] \in Loop
      BY <1>1, <2>2, <3>1
    <3>3. PICK m : m = n + 1
      OBVIOUS
    <3>4. m \in 1..N /\ m - 1 = n
      BY ONLY <3>2, <3>3
    <3>5. g[m] = Join(g[m - 1], s[m])
      BY ONLY <1>10, <3>4
    <3> QED BY <1>2, <3>2, <3>3, <3>4, <3>5
  <2>3. Nat \subseteq T
    <3> HIDE DEF T
    <3> QED BY <2>1, <2>2, InductiveSet
  <2> QED BY <1>1, <2>3
<1> QED BY <1>10, <1>11 DEF g

HeldBy(chunks) == UNION {chunks[i].holds : i \in DOMAIN chunks}
Apart(chunks) ==
  \A i, j \in DOMAIN chunks : i # j => chunks[i].holds \cap chunks[j].holds = {}
Short(chunk) == chunk.len <= ChunkSize + Overlap + 2

\* The chunks closed and the buffer hold the pieces so far, each once.
Packed(acc, pieces) ==
  /\ acc \in Loop
  /\ HeldBy(acc.done) \cup acc.buf.holds = pieces
  /\ Apart(acc.done) /\ HeldBy(acc.done) \cap acc.buf.holds = {}
  /\ Short(acc.buf) /\ \A i \in DOMAIN acc.done : Short(acc.done[i])
  /\ acc.buf.len = 0 => pieces = {} /\ acc.done = <<>>

LEMMA BufferClosed ==
  ASSUME NEW pieces, NEW acc, Packed(acc, pieces)
  PROVE  LET chunks == Append(acc.done, acc.buf) IN
         /\ chunks \in Seq(AnyChunk)
         /\ HeldBy(chunks) = pieces /\ Apart(chunks)
         /\ \A i \in DOMAIN chunks : Short(chunks[i])
<1> DEFINE d == acc.done
           m == Len(d)
           chunks == Append(d, acc.buf)
<1>1. /\ d \in Seq(AnyChunk) /\ m \in Nat /\ acc.buf \in AnyChunk /\ DOMAIN d = 1..m
      /\ chunks \in Seq(AnyChunk) /\ DOMAIN chunks = 1..(m + 1)
      /\ chunks[m + 1] = acc.buf /\ \A i \in 1..m : chunks[i] = d[i]
  BY DEF Packed, Loop
<1>2. /\ HeldBy(d) \cup acc.buf.holds = pieces
      /\ Apart(d) /\ HeldBy(d) \cap acc.buf.holds = {}
      /\ Short(acc.buf) /\ \A i \in DOMAIN d : Short(d[i])
  BY DEF Packed
<1> HIDE DEF chunks, d, m
<1>3. \A i \in 1..(m + 1) : i \in 1..m \/ i = m + 1
  BY <1>1
<1>4. 1..m \subseteq 1..(m + 1) /\ m + 1 \in 1..(m + 1)
  BY <1>1
<1>5. HeldBy(chunks) = pieces
  <2>1. ASSUME NEW x \in HeldBy(chunks) PROVE x \in pieces
    <3>1. PICK i \in 1..(m + 1) : x \in chunks[i].holds
      BY <1>1, <2>1 DEF HeldBy
    <3>2. CASE i \in 1..m
      <4>1. x \in d[i].holds
        BY <1>1, <3>1, <3>2
      <4>2. x \in HeldBy(d)
        BY <1>1, <3>2, <4>1 DEF HeldBy
      <4> QED BY <1>2, <4>2
    <3>3. CASE i = m + 1
      BY <1>1, <1>2, <3>1, <3>3
    <3> QED BY <1>3, <3>2, <3>3
  <2>2. ASSUME NEW x \in pieces PROVE x \in HeldBy(chunks)
    <3>1. CASE x \in HeldBy(d)
      <4>1. PICK i \in 1..m : x \in d[i].holds
        BY <1>1, <3>1 DEF HeldBy
      <4>2. i \in DOMAIN chunks /\ x \in chunks[i].holds
        BY <1>1, <1>4, <4>1
      <4> QED BY <4>2 DEF HeldBy
    <3>2. CASE x \in acc.buf.holds
      <4>1. m + 1 \in DOMAIN chunks /\ x \in chunks[m + 1].holds
        BY <1>1, <1>4, <3>2
      <4> QED BY <4>1 DEF HeldBy
    <3> QED BY <1>2, <2>2, <3>1, <3>2
  <2> QED BY <2>1, <2>2
<1>6. ASSUME NEW i \in 1..m PROVE chunks[i].holds \cap chunks[m + 1].holds = {}
  <2>1. d[i].holds \subseteq HeldBy(d)
    BY <1>1 DEF HeldBy
  <2> QED BY <1>1, <1>2, <2>1
<1>7. Apart(chunks)
  <2>1. SUFFICES ASSUME NEW i \in 1..(m + 1), NEW j \in 1..(m + 1), i # j
                 PROVE  chunks[i].holds \cap chunks[j].holds = {}
    BY <1>1 DEF Apart
  <2>2. CASE i \in 1..m /\ j \in 1..m
    BY <1>1, <1>2, <2>1, <2>2 DEF Apart
  <2>3. CASE i \in 1..m /\ j = m + 1
    BY <1>6, <2>3
  <2>4. CASE i = m + 1 /\ j \in 1..m
    BY <1>6, <2>4
  <2> QED BY <1>3, <2>1, <2>2, <2>3, <2>4
<1>8. \A i \in DOMAIN chunks : Short(chunks[i])
  BY <1>1, <1>2, <1>3
<1> QED BY <1>1, <1>5, <1>7, <1>8 DEF chunks, d

LEMMA PieceJoined ==
  ASSUME NEW pieces, NEW acc, Packed(acc, pieces),
         NEW piece \in AnyPiece \ pieces, Length(piece) \in 1..ChunkSize
  PROVE  Packed(Join(acc, piece), pieces \cup {piece})
<1> DEFINE full == acc.buf.len > 0 /\ acc.buf.len + Length(piece) + 2 > ChunkSize
           next == Join(acc, piece)
<1>1. acc \in Loop /\ acc.buf \in AnyChunk /\ acc.buf.len \in Nat /\ next \in Loop
  <2>1. Length(piece) \in Nat
    BY Sizes
  <2> QED BY <2>1, JoinType DEF Packed, Loop, AnyChunk
<1>2. CASE full
  <2> DEFINE len == Length(piece) + (IF Overlap = 0 THEN 0 ELSE Least(Overlap, acc.buf.len) + 2)
  <2>1. next = [done |-> Append(acc.done, acc.buf), buf |-> [len |-> len, holds |-> {piece}]]
    BY <1>2 DEF Join
  <2>2. len \in Nat /\ len > 0 /\ len <= ChunkSize + Overlap + 2
    BY ONLY <1>1, Sizes, Length(piece) \in 1..ChunkSize DEF Least
  <2> HIDE DEF len, next
  <2>3. /\ HeldBy(next.done) = pieces /\ Apart(next.done)
        /\ \A i \in DOMAIN next.done : Short(next.done[i])
    BY <2>1, BufferClosed
  <2>4. next.buf.holds = {piece} /\ next.buf.len = len
    BY <2>1
  <2> QED BY <1>1, <2>2, <2>3, <2>4 DEF Packed, Short, next
<1>3. CASE ~full
  <2> DEFINE len == Length(piece) + (IF acc.buf.len > 0 THEN acc.buf.len + 2 ELSE 0)
  <2>1. /\ next.done = acc.done /\ next.buf.len = len
        /\ next.buf.holds = acc.buf.holds \cup {piece}
    BY <1>1, <1>3 DEF Join, Loop, AnyChunk
  <2>2. len \in Nat /\ len > 0 /\ len <= ChunkSize + Overlap + 2
    BY ONLY <1>1, <1>3, Sizes, Length(piece) \in 1..ChunkSize
  <2> HIDE DEF len, next
  <2> QED BY <1>1, <2>1, <2>2 DEF Packed, Short, next
<1> QED BY <1>2, <1>3

\* Every text is well cut (app/knowledge/chunker.py 119-153).
THEOREM TextsAreWellCut ==
  ASSUME NEW text \in Seq(Nat \ {0})
  PROVE  WellCut(text)
<1> DEFINE s == Pieces(text)
           N == Len(s)
           part(n) == {s[k] : k \in 1..n}
           T == {n \in Nat : n <= N => Packed(Filled(s)[n], part(n))}
<1>1. DistinctPieces(s, Len(text))
  BY PiecesDistinct DEF Text
<1>2. /\ s \in Seq(AnyPiece) /\ N \in Nat /\ DOMAIN s = 1..N
      /\ \A k \in 1..N : s[k] \in AnyPiece /\ Length(s[k]) \in 1..ChunkSize
      /\ \A k, l \in 1..N : k # l => s[k] # s[l]
  BY <1>1 DEF DistinctPieces
<1> HIDE DEF s
<1>3. /\ Filled(s)[0] = Start
      /\ \A n \in 1..N : Filled(s)[n] = Join(Filled(s)[n - 1], s[n])
  <2>1. \A k \in DOMAIN s : Length(s[k]) \in Nat
    BY <1>2, Sizes
  <2> QED BY <1>2, <2>1, FilledStepwise
<1>4. 0 \in T
  <2>1. Start \in Loop /\ HeldBy(Start.done) = {} /\ Apart(Start.done) /\ Short(Start.buf)
    BY Sizes DEF Start, Loop, AnyChunk, HeldBy, Apart, Short
  <2>2. part(0) = {}
    OBVIOUS
  <2>3. Packed(Start, {})
    BY <2>1 DEF Packed, Start
  <2> QED BY <1>3, <2>2, <2>3
<1>5. ASSUME NEW n \in Nat, n \in T PROVE n + 1 \in T
  <2>1. SUFFICES ASSUME n + 1 <= N PROVE Packed(Filled(s)[n + 1], part(n + 1))
    OBVIOUS
  <2>2. PICK m : m = n + 1
    OBVIOUS
  <2>3. /\ m \in 1..N /\ m - 1 = n /\ n <= N
        /\ \A k \in 1..n : k \in 1..N /\ k # m
        /\ 1..m = (1..n) \cup {m}
    BY <1>2, <2>1, <2>2
  <2>4. Filled(s)[m] = Join(Filled(s)[m - 1], s[m])
    BY ONLY <1>3, <2>3
  <2>5. part(m) = part(n) \cup {s[m]} /\ s[m] \notin part(n)
    BY <1>2, <2>3
  <2>6. Packed(Filled(s)[n], part(n))
    BY <1>5, <2>3
  <2>7. s[m] \in AnyPiece \ part(n) /\ Length(s[m]) \in 1..ChunkSize
    BY <1>2, <2>3, <2>5
  <2> HIDE DEF part
  <2>8. Packed(Join(Filled(s)[n], s[m]), part(n) \cup {s[m]})
    BY ONLY <2>6, <2>7, PieceJoined
  <2> QED BY <2>2, <2>3, <2>4, <2>5, <2>8
<1>6. Packed(Filled(s)[N], part(N))
  <2> HIDE DEF T
  <2>1. N \in T
    BY <1>2, <1>4, <1>5, InductiveSet
  <2> QED BY <1>2, <2>1 DEF T
<1>7. part(N) = ToSet(s)
  BY <1>2 DEF ToSet
<1> DEFINE all == Filled(s)[N]
<1> HIDE DEF part
<1>8. HeldBy(Chunks(text)) = part(N) /\ Apart(Chunks(text)) /\ \A i \in DOMAIN Chunks(text) : Short(Chunks(text)[i])
  <2>1. Chunks(text) = IF all.buf.len > 0 THEN Append(all.done, all.buf) ELSE all.done
    BY DEF Chunks, s
  <2> HIDE DEF all
  <2>2. Packed(all, part(N))
    BY <1>6 DEF all
  <2>3. CASE all.buf.len > 0
    BY <2>1, <2>2, <2>3, BufferClosed
  <2>4. CASE ~(all.buf.len > 0)
    <3>1. all.buf.len = 0
      BY <2>2, <2>4 DEF Packed, Loop, AnyChunk
    <3>2. part(N) = {} /\ Chunks(text) = <<>>
      BY <2>1, <2>2, <3>1 DEF Packed
    <3> QED BY <3>2 DEF HeldBy, Apart
  <2> QED BY <2>3, <2>4
<1> QED BY <1>7, <1>8 DEF WellCut, HeldBy, Apart, Short, s

-----------------------------------------------------------------------------
(* The knowledge base.                                                     *)

DocumentsTypeOK ==
  /\ registry \subseteq Uploads /\ smooth \in BOOLEAN
  /\ ingest \in [Uploads -> {"new", "refused", "inserted", "failed", "done"}]
  /\ \A r \in records : r.doc \in Uploads
  /\ \A u \in registry : ingest[u] = "done"
  /\ removal = [doc |-> removal.doc, left |-> removal.left]

\* The store holds every chunk of a document that is listed, or about to be,
\* unless its file was swept.
ChunksKept ==
  \A u \in Uploads : (u \in registry \/ ingest[u] = "inserted") /\ FileOf[u] \notin swept =>
    RecordsOf(u) \subseteq records

\* A deletion removes records of swept files only and, if all goes well, has
\* those of its row still before it.
RemovalSweeps ==
  /\ removal.doc \subseteq registry
  /\ \A r \in removal.left : FileOf[r.doc] \in swept
  /\ smooth => \A u \in removal.doc : \A r \in records : r.doc = u => r \in removal.left

\* If all goes well, what is in the store is listed or about to be.
NoOrphans == smooth => \A r \in records : r.doc \in registry \/ ingest[r.doc] = "inserted"

DocumentsInv == DocumentsTypeOK /\ ChunksKept /\ RemovalSweeps /\ NoOrphans

LEMMA RecordsBelong == \A u : \A r \in RecordsOf(u) : r.doc = u
BY DEF RecordsOf

LEMMA DocumentsStart == DocumentsInit => DocumentsInv
BY DEF DocumentsInit, DocumentsInv, DocumentsTypeOK, ChunksKept, RemovalSweeps, NoOrphans,
   NoRemoval

LEMMA InsertKeeps ==
  ASSUME DocumentsInv, NEW u \in Uploads, InsertChunks(u)
  PROVE  DocumentsInv'
<1> USE DEF DocumentsInv
<1>1. /\ ingest[u] = "new" /\ records' \in {records, records \cup RecordsOf(u)}
      /\ ingest' = [ingest EXCEPT ![u] = ingest'[u]] /\ ingest'[u] \in {"inserted", "failed"}
      /\ registry' = registry /\ removal' = removal /\ swept' = swept
  BY DEF InsertChunks, DocumentsTypeOK
<1>2. /\ ingest'[u] = "inserted" => smooth' = smooth /\ records' = records \cup RecordsOf(u)
      /\ ingest'[u] = "failed" => smooth' = FALSE
  BY DEF InsertChunks, DocumentsTypeOK
<1>3. u \notin registry /\ \A v \in Uploads \ {u} : ingest'[v] = ingest[v]
  BY <1>1 DEF DocumentsTypeOK
<1>4. DocumentsTypeOK'
  <2>1. smooth' \in BOOLEAN
    BY <1>1, <1>2 DEF DocumentsTypeOK
  <2>2. \A r \in records' : r.doc \in Uploads
    BY <1>1, RecordsBelong DEF DocumentsTypeOK
  <2>3. QED
    BY <1>1, <1>3, <2>1, <2>2 DEF DocumentsTypeOK
<1>5. ChunksKept'
  <2>1. records \subseteq records'
    BY <1>1
  <2>2. \A v : RecordsOf(v)' = RecordsOf(v)
    BY DEF RecordsOf
  <2>3. ASSUME NEW v \in Uploads \ {u}, v \in registry' \/ ingest'[v] = "inserted",
               FileOf[v] \notin swept'
        PROVE  RecordsOf(v) \subseteq records'
    BY <1>1, <1>3, <2>1, <2>3 DEF ChunksKept
  <2>4. QED
    BY <1>1, <1>2, <1>3, <2>2, <2>3 DEF ChunksKept
<1>6. RemovalSweeps'
  <2>1. \A v \in removal.doc : v # u
    BY <1>3 DEF RemovalSweeps
  <2>2. smooth' => smooth
    BY <1>1, <1>2 DEF DocumentsTypeOK
  <2>3. QED
    BY <1>1, <2>1, <2>2, RecordsBelong DEF RemovalSweeps
<1>7. NoOrphans'
  <2>1. smooth' => smooth /\ ingest'[u] = "inserted"
    BY <1>1, <1>2 DEF DocumentsTypeOK
  <2>2. QED
    BY <1>1, <1>3, <2>1, RecordsBelong DEF NoOrphans, DocumentsTypeOK
<1>8. QED
  BY <1>4, <1>5, <1>6, <1>7

LEMMA RegisterKeeps ==
  ASSUME DocumentsInv, NEW u \in Uploads, RefuseUpload(u) \/ Register(u)
  PROVE  DocumentsInv'
<1> USE DEF DocumentsInv
<1>1. /\ records' = records /\ removal' = removal /\ swept' = swept
      /\ ingest' = [ingest EXCEPT ![u] = ingest'[u]]
      /\ ingest'[u] \in {"refused", "done", "failed"}
      /\ \A v \in Uploads \ {u} : ingest'[v] = ingest[v]
      /\ u \notin registry
  BY DEF RefuseUpload, Register, DocumentsTypeOK
<1>2. \/ registry' = registry /\ smooth' = FALSE
      \/ registry' = registry /\ smooth' = smooth /\ ingest[u] = "new"
      \/ /\ registry' = registry \cup {u} /\ smooth' = smooth
         /\ ingest[u] = "inserted" /\ ingest'[u] = "done"
  BY DEF RefuseUpload, Register, DocumentsTypeOK
<1>3. DocumentsTypeOK'
  BY <1>1, <1>2 DEF DocumentsTypeOK
<1>4. \A v : RecordsOf(v)' = RecordsOf(v)
  BY DEF RecordsOf
<1>5. ChunksKept'
  BY <1>1, <1>2, <1>4 DEF ChunksKept
<1>6. RemovalSweeps'
  BY <1>1, <1>2 DEF RemovalSweeps
<1>7. NoOrphans'
  BY <1>1, <1>2 DEF NoOrphans, DocumentsTypeOK
<1>8. QED
  BY <1>3, <1>5, <1>6, <1>7

LEMMA StartRemovalKeeps ==
  ASSUME DocumentsInv, NEW u \in Uploads, StartRemoval(u)
  PROVE  DocumentsInv'
<1> USE DEF DocumentsInv
<1>1. /\ records' = records /\ registry' = registry /\ ingest' = ingest
      /\ swept' = swept \cup {FileOf[u]} /\ u \in registry /\ removal'.doc = {u}
      /\ removal' = [doc |-> removal'.doc, left |-> removal'.left]
      /\ \A r \in removal'.left : FileOf[r.doc] = FileOf[u]
  BY DEF StartRemoval
<1>2. /\ smooth' \in BOOLEAN
      /\ smooth' => smooth /\ \A r \in records : r.doc = u => r \in removal'.left
  <2>1. CASE removal' = [doc |-> {u}, left |-> {}] /\ smooth' = FALSE
    BY <2>1
  <2>2. ASSUME NEW listed \in SUBSET records,
               removal' = [doc |-> {u}, left |-> {r \in listed : FileOf[r.doc] = FileOf[u]}],
               smooth' = (smooth /\ listed = records)
        PROVE  /\ smooth' \in BOOLEAN
               /\ smooth' => smooth /\ \A r \in records : r.doc = u => r \in removal'.left
    BY <2>2
  <2>3. QED
    BY <2>1, <2>2 DEF StartRemoval
<1>3. DocumentsTypeOK'
  BY <1>1, <1>2 DEF DocumentsTypeOK
<1>4. \A v : RecordsOf(v)' = RecordsOf(v)
  BY DEF RecordsOf
<1>5. ChunksKept'
  BY <1>1, <1>4 DEF ChunksKept
<1>6. RemovalSweeps' /\ NoOrphans'
  BY <1>1, <1>2 DEF RemovalSweeps, NoOrphans
<1>7. QED
  BY <1>3, <1>5, <1>6

LEMMA RemoveKeeps ==
  ASSUME DocumentsInv, RemoveRecord
  PROVE  DocumentsInv'
<1> USE DEF DocumentsInv
<1>1. PICK r \in removal.left :
        /\ removal' = [doc |-> removal.doc, left |-> removal.left \ {r}]
        /\ \/ records' = records \ {r} /\ smooth' = smooth
           \/ smooth' = FALSE /\ records' = records
        /\ UNCHANGED <<registry, ingest, swept>>
  BY DEF RemoveRecord, DocumentsTypeOK
<1>2. FileOf[r.doc] \in swept
  BY DEF RemovalSweeps
<1>3. DocumentsTypeOK' /\ NoOrphans'
  <2>1. CASE records' = records \ {r} /\ smooth' = smooth
    BY <1>1, <2>1 DEF DocumentsTypeOK, NoOrphans
  <2>2. CASE smooth' = FALSE /\ records' = records
    BY <1>1, <2>2 DEF DocumentsTypeOK, NoOrphans
  <2>3. QED
    BY <1>1, <2>1, <2>2
<1>4. ChunksKept'
  <2>1. \A v : RecordsOf(v)' = RecordsOf(v)
    BY DEF RecordsOf
  <2>2. ASSUME NEW v \in Uploads, FileOf[v] \notin swept PROVE r \notin RecordsOf(v)
    BY <1>2, <2>2, RecordsBelong
  <2>3. QED
    BY <1>1, <2>1, <2>2 DEF ChunksKept
<1>5. RemovalSweeps'
  <2>1. removal'.doc \subseteq removal.doc /\ removal'.left \subseteq removal.left
    BY <1>1
  <2>2. smooth' => \A u \in removal'.doc : \A s \in records' : s.doc = u => s \in removal'.left
    BY <1>1 DEF RemovalSweeps
  <2>3. QED
    BY <1>1, <2>1, <2>2 DEF RemovalSweeps
<1>6. QED
  BY <1>3, <1>4, <1>5

LEMMA UnregisterKeeps ==
  ASSUME DocumentsInv, Unregister
  PROVE  DocumentsInv'
<1> USE DEF DocumentsInv
<1>1. /\ removal.left = {} /\ registry' = registry \ removal.doc
      /\ removal' = NoRemoval /\ UNCHANGED <<records, ingest, swept, smooth>>
  BY DEF Unregister
<1>2. DocumentsTypeOK' /\ RemovalSweeps'
  BY <1>1 DEF DocumentsTypeOK, RemovalSweeps, NoRemoval
<1>3. \A v : RecordsOf(v)' = RecordsOf(v)
  BY DEF RecordsOf
<1>4. ChunksKept' /\ NoOrphans'
  BY <1>1, <1>3 DEF ChunksKept, NoOrphans, RemovalSweeps
<1>5. QED
  BY <1>2, <1>4

\* The store holds all of every listed document that no deletion has swept, and
\* nothing else while no request fails, for any uploads and deletions
\* (knowledge/service.py 25-34, 59-68; store.py 58-70, 94-115).
THEOREM StoreFollowsRegistry == DocumentsSpec => []StoreMatchesRegistry
<1>1. DocumentsInv => StoreMatchesRegistry
  <2>1. \A u \in Uploads : WellCut(TextOf[u])
    BY DocumentsAssumption, TextsAreWellCut DEF DocumentsAssumption
  <2> QED
    BY <2>1 DEF DocumentsInv, DocumentsTypeOK, ChunksKept, NoOrphans, StoreMatchesRegistry
<1>2. DocumentsInv /\ [DocumentsNext]_documentsVars => DocumentsInv'
  <2>1. CASE UNCHANGED documentsVars
    BY <2>1 DEF documentsVars, DocumentsInv, DocumentsTypeOK, ChunksKept, RemovalSweeps,
       NoOrphans, RecordsOf
  <2>2. QED
    BY <2>1, InsertKeeps, RegisterKeeps, StartRemovalKeeps, RemoveKeeps, UnregisterKeeps
       DEF DocumentsNext
<1>3. QED
  BY DocumentsStart, <1>1, <1>2, PTL DEF DocumentsSpec
=============================================================================
