------------------------------ MODULE Gateway ------------------------------
(***************************************************************************)
(* The client of the MCP gateway (tools/mcp_gateway.py): one token shared  *)
(* by all threads, fetched outside the lock and returned outside it, and   *)
(* the cached list of tools.  A token lives TokenLife from the moment it   *)
(* is issued, while the client counts from the moment it has received it.  *)
(* A request and what its thread does with the answer end by the timeout   *)
(* of the request.                                                         *)
(***************************************************************************)
EXTENDS Integers

CONSTANTS Threads,      \* threads of the pool and of requests
          TokenLife,    \* expires_in
          Margin,       \* _TOKEN_SAFETY_MARGIN
          FetchTime,    \* timeout of a fetch of a token
          CallTime,     \* call_timeout
          ListTTL,      \* _TOOLS_TTL
          LastMoment    \* bound: the clock stops here

ASSUME GatewayAssumption ==
  /\ {TokenLife, Margin, FetchTime, CallTime, ListTTL, LastMoment} \subseteq Nat
  /\ FetchTime + CallTime <= Margin
  /\ FetchTime + Margin < TokenLife

VARIABLES
  moment,     \* time.time()
  token,      \* _token, by the moment it was issued, and _expires_at
  toolCache,  \* _tools_cache, by the moment the gateway made it, and _tools_cache_at
  caller      \* the threads

gatewayVars == <<moment, token, toolCache, caller>>

Never == -1   \* nothing there

\* at: where the thread is; goal: what it wants of the gateway; by: when the
\* request it has made times out; held: the token it holds, by its moment of
\* issue; made: the list it holds, by the moment of its making.
Caller == [at : {"idle", "fetching", "granted", "stored", "called", "answered", "listed"},
           goal : {"call", "list"}, by : Nat, held : Nat \cup {Never}, made : Nat \cup {Never}]
Idle == [at |-> "idle", goal |-> "call", by |-> 0, held |-> Never, made |-> Never]

GatewayInit ==
  /\ moment = 0
  /\ token = [issued |-> Never, until |-> 0]
  /\ toolCache = [made |-> Never, at |-> 0]
  /\ caller = [p \in Threads |-> Idle]

\* No request outlives its timeout.
MomentPasses ==
  /\ moment < LastMoment
  /\ \A p \in Threads : caller[p].at # "idle" => moment < caller[p].by
  /\ moment' = moment + 1
  /\ UNCHANGED <<token, toolCache, caller>>

ListValid == toolCache.made # Never /\ moment - toolCache.at < ListTTL

\* Mutant: the token is used to the last moment of its life.
TokenValidToTheEnd == token.issued # Never /\ moment < token.until

\* get_token(): the check under the lock.
TokenValid == token.issued # Never /\ moment < token.until - Margin

\* call(), and list_tools() whose cache does not answer: a valid token is used
\* at once, else a new one is fetched outside the lock.
StartRequest(p, goal) ==
  /\ caller[p].at = "idle"
  /\ goal = "list" => ~ListValid
  /\ caller' = [caller EXCEPT ![p] =
       IF TokenValid
       THEN [Idle EXCEPT !.at = "called", !.goal = goal, !.held = token.issued,
                         !.by = moment + CallTime]
       ELSE [Idle EXCEPT !.at = "fetching", !.goal = goal, !.by = moment + FetchTime]]
  /\ UNCHANGED <<moment, token, toolCache>>

\* The server issues a token.
IssueToken(p) ==
  /\ caller[p].at = "fetching"
  /\ caller' = [caller EXCEPT ![p] = [@ EXCEPT !.at = "granted", !.held = moment]]
  /\ UNCHANGED <<moment, token, toolCache>>

\* The answer is stored under the lock, also over a newer one.
StoreToken(p) ==
  /\ caller[p].at = "granted"
  /\ token' = [issued |-> caller[p].held, until |-> moment + TokenLife]
  /\ caller' = [caller EXCEPT ![p].at = "stored"]
  /\ UNCHANGED <<moment, toolCache>>

\* return self._token, outside the lock: the token of whoever stored last.
UseToken(p) ==
  /\ caller[p].at = "stored"
  /\ caller' = [caller EXCEPT ![p] = [@ EXCEPT !.at = "called", !.held = token.issued,
                                               !.by = moment + CallTime]]
  /\ UNCHANGED <<moment, token, toolCache>>

\* The gateway handles the request.
HandleRequest(p) ==
  /\ caller[p].at = "called"
  /\ caller' = [caller EXCEPT ![p] = [@ EXCEPT !.at = "answered", !.made = moment]]
  /\ UNCHANGED <<moment, token, toolCache>>

\* call(): the answer, or what the gateway or the tool reports as an error.
EndCall(p) ==
  /\ caller[p].at = "answered" /\ caller[p].goal = "call"
  /\ caller' = [caller EXCEPT ![p] = Idle]
  /\ UNCHANGED <<moment, token, toolCache>>

\* list_tools(): the list of the target's tools replaces the cached one; an
\* empty list does not count as cached.
KeepList(p) ==
  /\ caller[p].at = "answered" /\ caller[p].goal = "list"
  /\ toolCache' \in {[toolCache EXCEPT !.made = caller[p].made], [toolCache EXCEPT !.made = Never]}
  /\ caller' = [caller EXCEPT ![p].at = "listed"]
  /\ UNCHANGED <<moment, token>>

\* list_tools(): then its time; two threads may take turns in between.
StampList(p) ==
  /\ caller[p].at = "listed"
  /\ toolCache' = [toolCache EXCEPT !.at = moment]
  /\ caller' = [caller EXCEPT ![p] = Idle]
  /\ UNCHANGED <<moment, token>>

\* A timeout, a refusal or an error of either server: call() raises,
\* list_tools() returns the cache it has, whatever its age.
RequestFails(p) ==
  /\ caller[p].at \in {"fetching", "granted", "called", "answered"}
  /\ caller' = [caller EXCEPT ![p] = Idle]
  /\ UNCHANGED <<moment, token, toolCache>>

GatewayNext ==
  \/ MomentPasses
  \/ \E p \in Threads :
       \/ \E goal \in {"call", "list"} : StartRequest(p, goal)
       \/ IssueToken(p) \/ StoreToken(p) \/ UseToken(p) \/ HandleRequest(p)
       \/ EndCall(p) \/ KeepList(p) \/ StampList(p) \/ RequestFails(p)

GatewaySpec == GatewayInit /\ [][GatewayNext]_gatewayVars

-----------------------------------------------------------------------------
\* Types.
GatewayTypeOK ==
  /\ moment \in Nat
  /\ token \in [issued : Nat \cup {Never}, until : Nat]
  /\ toolCache \in [made : Nat \cup {Never}, at : Nat]
  /\ caller \in [Threads -> Caller]

\* Whatever the order in which threads store the tokens they fetched, a
\* request never reaches the gateway with an expired token, at any moment up to
\* its timeout: the margin covers the fetch and the call (mcp_gateway.py 50-70).
TokenAlive ==
  \A p \in Threads : caller[p].at = "called" => moment < caller[p].held + TokenLife

\* A list that the cache still counts as valid is no older than its TTL and
\* two requests, whichever thread wrote the list and whichever the time
\* (mcp_gateway.py 140-173).
ListRecent == ListValid => moment - toolCache.made < ListTTL + 2 * CallTime

\* What the client takes from its caches as valid is fresh, whichever way threads
\* race for them (mcp_gateway.py 50-70, 121-173).  A list served because asking for
\* a new one failed is known to be old and has no bound.
NothingStale == TokenAlive /\ ListRecent
=============================================================================
