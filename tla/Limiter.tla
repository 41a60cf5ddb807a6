------------------------------ MODULE Limiter ------------------------------
(***************************************************************************)
(* The two sliding windows in front of POST /chat (auth/rate_limiter.py,   *)
(* api/chat.py): the calls of one user pass the limiter of bursts, then    *)
(* the limiter of the session.  A limiter reads the clock before it takes  *)
(* its lock, so calls enter the window in another order than their stamps; *)
(* expired stamps leave from the head of the window only.                  *)
(***************************************************************************)
EXTENDS Integers, Sequences, FiniteSets

CONSTANTS LimitedCalls,   \* the calls of the user
          MaxAllowed,     \* max_calls of each limiter; 0 switches it off
          Window,         \* window_seconds of each limiter
          Lag,            \* the longest wait between reading the clock and the lock
          LastTick        \* bound: the clock stops here

Limiters == {"burst", "session"}

ASSUME LimiterAssumption ==
  /\ IsFiniteSet(LimitedCalls)
  /\ MaxAllowed \in [Limiters -> Nat]
  /\ Window \in [Limiters -> Nat]
  /\ Lag \in Nat /\ LastTick \in Nat

VARIABLES
  ticks,     \* time.monotonic()
  asked,     \* where each call is, the time it read there, whether it was refused
  window,    \* _buckets[user] of each limiter: the calls and stamps, as they entered
  granted    \* history: the calls each limiter let through, and when

limiterVars == <<ticks, asked, window, granted>>

NotRead == -1
Fresh(l) == [at |-> l, read |-> NotRead, refused |-> FALSE]

LimiterInit ==
  /\ ticks = 0
  /\ asked = [c \in LimitedCalls |-> Fresh("burst")]
  /\ window = [l \in Limiters |-> <<>>]
  /\ granted = [l \in Limiters |-> {}]

Following(l) == IF l = "burst" THEN "session" ELSE "served"

\* The call has read the clock and waits for the lock.
Waits(c) == asked[c].read # NotRead /\ ~asked[c].refused

TimePasses ==
  /\ ticks < LastTick
  /\ \A c \in LimitedCalls : Waits(c) => ticks < asked[c].read + Lag
  /\ ticks' = ticks + 1
  /\ UNCHANGED <<asked, window, granted>>

\* is_allowed() before the lock; a limiter that is off lets the call pass.
ReadTime(c) ==
  /\ asked[c].at \in Limiters /\ asked[c].read = NotRead
  /\ asked' = [asked EXCEPT ![c] =
       IF MaxAllowed[@.at] = 0 THEN Fresh(Following(@.at)) ELSE [@ EXCEPT !.read = ticks]]
  /\ UNCHANGED <<ticks, window, granted>>

\* Mutant: a stamp as old as the window leaves too.
ExpiredAtCutoff(q, cutoff) ==
  Cardinality({n \in DOMAIN q : \A i \in 1..n : q[i].stamp <= cutoff})

\* How many stamps leave from the head of a window, and what is left of it.
Expired(q, cutoff) == Cardinality({n \in DOMAIN q : \A i \in 1..n : q[i].stamp < cutoff})
Unexpired(q, cutoff) == SubSeq(q, Expired(q, cutoff) + 1, Len(q))

Full(l, q) == Len(q) >= MaxAllowed[l]

\* is_allowed() under the lock: the expired head leaves, then the call is
\* refused or enters; chat() goes on to the next limiter.
Enter(c) ==
  LET l == asked[c].at
      kept == Unexpired(window[l], asked[c].read - Window[l])
  IN  /\ Waits(c)
      /\ IF Full(l, kept)
         THEN /\ asked' = [asked EXCEPT ![c].refused = TRUE]
              /\ window' = [window EXCEPT ![l] = kept]
              /\ UNCHANGED granted
         ELSE /\ asked' = [asked EXCEPT ![c] = Fresh(Following(l))]
              /\ window' = [window EXCEPT ![l] =
                              Append(kept, [call |-> c, stamp |-> asked[c].read])]
              /\ granted' = [granted EXCEPT ![l] = @ \cup {[call |-> c, at |-> ticks]}]
      /\ UNCHANGED ticks

LimiterNext == TimePasses \/ \E c \in LimitedCalls : ReadTime(c) \/ Enter(c)

LimiterSpec == LimiterInit /\ [][LimiterNext]_limiterVars

-----------------------------------------------------------------------------
\* Types.
LimiterTypeOK ==
  /\ ticks \in 0..LastTick
  /\ asked \in [LimitedCalls -> [at : Limiters \cup {"served"}, read : Nat \cup {NotRead},
                                 refused : BOOLEAN]]
  /\ window \in [Limiters -> Seq([call : LimitedCalls, stamp : Nat])]
  /\ granted \in [Limiters -> SUBSET [call : LimitedCalls, at : Nat]]

GrantedSince(l, t) == {g \in granted[l] : g.at >= t}

\* Whatever the order in which calls take the lock, a limiter never lets more
\* than max_calls through within any window, less the time a call may wait for
\* the lock: no stamp that counts leaves early through a call with an older clock
\* (rate_limiter.py 22-31).
NeverOverLimit ==
  \A l \in Limiters : MaxAllowed[l] > 0 =>
    Cardinality(GrantedSince(l, ticks - Window[l] + Lag)) <= MaxAllowed[l]

\* A refused call had max_calls before it within the window of its own clock:
\* expired stamps behind a newer head never refuse anyone (rate_limiter.py 26-29).
RefusalsJustified ==
  \A c \in LimitedCalls : asked[c].refused =>
    LET l == asked[c].at
    IN  Cardinality(GrantedSince(l, asked[c].read - Window[l])) >= MaxAllowed[l]

\* The limit of chat() is exact in both directions, up to the wait for the lock
\* (rate_limiter.py 19-31, chat.py 48-52).
LimitIsExact == NeverOverLimit /\ RefusalsJustified
=============================================================================
