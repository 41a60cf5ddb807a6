------------------------------ MODULE ToolPool -----------------------------
(***************************************************************************)
(* The catalog's one executor (tools/catalog.py): every tool call of every *)
(* conversation goes through four workers and a queue.  The caller waits   *)
(* tool_timeout_seconds; nobody cancels the call, so a call that timed out *)
(* keeps its worker, or its place in the queue, and runs to its end.       *)
(***************************************************************************)
EXTENDS Naturals, Sequences, SequencesExt, FiniteSets

CONSTANTS PoolCalls,      \* the calls to be made; one is made once
          PoolUnknown,    \* those of them that name no server of the catalog
          Slots           \* max_workers

ASSUME ToolPoolAssumption ==
  PoolUnknown \subseteq PoolCalls /\ IsFiniteSet(PoolCalls) /\ Slots \in Nat \ {0}

VARIABLES
  queue,       \* the executor's work queue
  working,     \* calls a worker runs
  future,      \* what became of the work of each call
  answer,      \* what each caller was told
  submitted    \* history: the calls in the order they came

poolVars == <<queue, working, future, answer, submitted>>

PoolInit ==
  /\ queue = <<>> /\ working = {} /\ submitted = <<>>
  /\ future = [c \in PoolCalls |-> "none"]
  /\ answer = [c \in PoolCalls |-> "none"]

New(c) == c \notin ToSet(submitted) /\ answer[c] = "none"

\* execute() of a name without a server.
RefuseUnknown(c) ==
  /\ New(c) /\ c \in PoolUnknown
  /\ answer' = [answer EXCEPT ![c] = "error"]
  /\ UNCHANGED <<queue, working, future, submitted>>

\* submit(): an idle worker takes the call, or it waits in the queue.
SubmitCall(c) ==
  /\ New(c) /\ c \notin PoolUnknown
  /\ submitted' = Append(submitted, c)
  /\ IF Cardinality(working) < Slots
     THEN working' = working \cup {c} /\ UNCHANGED queue
     ELSE queue' = Append(queue, c) /\ UNCHANGED working
  /\ UNCHANGED <<future, answer>>

\* Mutant: a worker takes the newest call.
TakeLast(q) == <<q[Len(q)], SubSeq(q, 1, Len(q) - 1)>>

\* The call a free worker takes, and the queue it leaves.
TakeNext(q) == <<Head(q), Tail(q)>>

\* A provider returns or raises; its worker takes the next call, whether or
\* not somebody still waits for that one.
FinishWork(c) ==
  /\ c \in working
  /\ \E outcome \in {"result", "error"} : future' = [future EXCEPT ![c] = outcome]
  /\ IF queue = <<>>
     THEN working' = working \ {c} /\ UNCHANGED queue
     ELSE /\ working' = (working \ {c}) \cup {TakeNext(queue)[1]}
          /\ queue' = TakeNext(queue)[2]
  /\ UNCHANGED <<answer, submitted>>

\* future.result() returns, or raises what the provider raised.
GetResult(c) ==
  /\ c \in ToSet(submitted) /\ answer[c] = "none" /\ future[c] # "none"
  /\ answer' = [answer EXCEPT ![c] = future[c]]
  /\ UNCHANGED <<queue, working, future, submitted>>

\* future.result() gives up.
GiveUp(c) ==
  /\ c \in ToSet(submitted) /\ answer[c] = "none" /\ future[c] = "none"
  /\ answer' = [answer EXCEPT ![c] = "timeout"]
  /\ UNCHANGED <<queue, working, future, submitted>>

\* Nothing is left to do.
PoolAtRest ==
  /\ \A c \in PoolCalls : answer[c] # "none"
  /\ working = {}
  /\ UNCHANGED poolVars

PoolNext ==
  \/ \E c \in PoolCalls : RefuseUnknown(c) \/ SubmitCall(c) \/ FinishWork(c)
                            \/ GetResult(c) \/ GiveUp(c)
  \/ PoolAtRest

PoolSpec == PoolInit /\ [][PoolNext]_poolVars

-----------------------------------------------------------------------------
Before(c, d) == \E i, j \in DOMAIN submitted : i < j /\ submitted[i] = c /\ submitted[j] = d
Waiting == ToSet(queue)

\* A call is kept from running only by as many calls as there are workers, all
\* submitted before it and none of them done: calls that come later, of any
\* conversation, never delay it, and a call told to have timed out without
\* having run was held up by those alone (catalog.py 45, 98-110).
HeldUpByEarlier ==
  \A c \in Waiting :
    /\ Cardinality({d \in working : Before(d, c)}) = Slots
    /\ \A d \in Waiting : future[d] = "none" /\ d \notin working
=============================================================================
