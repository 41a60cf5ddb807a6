---------------------------- MODULE ServerProofs ---------------------------
(***************************************************************************)
(* Proofs about what stands around the turns: the limits in front of       *)
(* chat() and the start of the server.                                     *)
(*                                                                         *)
(* A sliding window whose stamps are out of order still lets no more than  *)
(* its limit through, and refuses nobody without cause.  Stops in the      *)
(* middle of a start do bounded damage, for any number of seeded pairs,    *)
(* stops and versions: the invariant names the pairs that stops have left  *)
(* out of service (Damaged) and those whose agent cannot be approved       *)
(* (Stuck), and weighs them against the stops and deletions there were.    *)
(***************************************************************************)
EXTENDS Limiter, Startup, Integers, FiniteSetTheorems, TLAPS

-----------------------------------------------------------------------------
(* The limits.                                                             *)

LEMMA LimiterFacts ==
  /\ MaxAllowed \in [Limiters -> Nat] /\ Window \in [Limiters -> Nat]
  /\ Lag \in Nat /\ LastTick \in Nat
BY LimiterAssumption DEF LimiterAssumption

Entry == [call : LimitedCalls, stamp : Nat]

LEMMA IntervalSize ==
  ASSUME NEW n \in Nat
  PROVE  IsFiniteSet(1..n) /\ Cardinality(1..n) = n
<1>1. IsFiniteSet(1..n) /\ Cardinality(1..n) = IF 1 > n THEN 0 ELSE n - 1 + 1
  BY FS_Interval
<1>2. QED
  BY <1>1

-----------------------------------------------------------------------------
\* The head of a window that leaves: all of it has expired, the next entry, if
\* there is one, has not.
LEMMA ExpiredHead ==
  ASSUME NEW q \in Seq(Entry), NEW cutoff \in Int
  PROVE  /\ Expired(q, cutoff) \in 0..Len(q)
         /\ \A i \in 1..Expired(q, cutoff) : q[i].stamp < cutoff
         /\ Expired(q, cutoff) < Len(q) => q[Expired(q, cutoff) + 1].stamp >= cutoff
<1> DEFINE head == {n \in DOMAIN q : \A i \in 1..n : q[i].stamp < cutoff}
           k == Cardinality(head)
<1>1. DOMAIN q = 1..Len(q) /\ Len(q) \in Nat
  OBVIOUS
<1>2. IsFiniteSet(1..Len(q)) /\ Cardinality(1..Len(q)) = Len(q)
  BY <1>1, IntervalSize
<1>3. head \in SUBSET (1..Len(q))
  BY <1>1
<1> HIDE DEF head
<1>4. IsFiniteSet(head) /\ k \in Nat /\ k <= Len(q)
  BY <1>2, <1>3, FS_Subset, FS_CardinalityType
<1>5. ASSUME NEW n \in head PROVE n <= k
  <2>1. 1..n \in SUBSET head
    BY <1>1, <1>3, <1>5 DEF head
  <2>2. Cardinality(1..n) <= k
    BY <1>4, <2>1, FS_Subset
  <2>3. Cardinality(1..n) = n
    BY <1>1, <1>3, <1>5, IntervalSize
  <2>4. QED
    BY <2>2, <2>3
<1>6. head = 1..k
  <2>1. head \in SUBSET (1..k)
    BY <1>1, <1>3, <1>4, <1>5
  <2>2. IsFiniteSet(1..k) /\ Cardinality(1..k) = k
    BY <1>4, IntervalSize
  <2> HIDE DEF k
  <2>3. Cardinality(1..k) = Cardinality(head)
    BY <2>2 DEF k
  <2>4. QED
    BY <2>1, <2>2, <2>3, FS_Subset
<1>7. k \in 0..Len(q)
  BY <1>1, <1>4
<1>8. \A i \in 1..k : q[i].stamp < cutoff
  BY <1>4, <1>6 DEF head
<1>9. k < Len(q) => q[k + 1].stamp >= cutoff
  <2>1. SUFFICES ASSUME k < Len(q), ~(q[k + 1].stamp >= cutoff) PROVE FALSE
    OBVIOUS
  <2>2. k + 1 \in 1..Len(q) /\ q[k + 1].stamp \in Nat
    <3>1. k + 1 \in 1..Len(q)
      BY <1>1, <1>4, <2>1
    <3>2. q[k + 1] \in Entry
      BY <3>1
    <3>3. QED
      BY <3>1, <3>2 DEF Entry
  <2>3. \A i \in 1..k + 1 : q[i].stamp < cutoff
    BY <1>4, <1>8, <2>1, <2>2
  <2>4. k + 1 \in head
    BY <1>1, <2>2, <2>3 DEF head
  <2>5. QED
    BY <1>4, <1>5, <2>4
<1>10. k = Expired(q, cutoff)
  BY DEF head, Expired
<1>11. QED
  BY <1>7, <1>8, <1>9, <1>10

\* What is left of a window.
LEMMA UnexpiredTail ==
  ASSUME NEW q \in Seq(Entry), NEW cutoff \in Int
  PROVE  LET n == Expired(q, cutoff)
             kept == Unexpired(q, cutoff)
         IN  /\ kept \in Seq(Entry) /\ Len(kept) = Len(q) - n
             /\ \A i \in 1..Len(kept) : n + i \in 1..Len(q) /\ kept[i] = q[n + i]
<1> DEFINE n == Expired(q, cutoff)
<1>1. n \in 0..Len(q)
  BY ExpiredHead
<1> HIDE DEF n
<1>2. /\ SubSeq(q, n + 1, Len(q)) \in Seq(Entry)
      /\ Len(SubSeq(q, n + 1, Len(q))) = Len(q) - n
      /\ \A i \in 1..Len(q) - n : SubSeq(q, n + 1, Len(q))[i] = q[n + i]
  BY <1>1
<1>3. QED
  BY <1>1, <1>2 DEF n, Unexpired
-----------------------------------------------------------------------------
(* A window and the calls let through.                                     *)

Grant == [call : LimitedCalls, at : Nat]

\* The entries of a window w were let through, each once, in the order they
\* entered and soon after their stamps; and of all calls let through by the time
\* t, those missing in w are as old as the window is wide.
Sound(w, G, t, width) ==
  /\ w \in Seq(Entry) /\ G \in SUBSET Grant /\ IsFiniteSet(G)
  /\ \A g, h \in G : g.call = h.call => g = h
  /\ \A g \in G : g.at <= t
  /\ \A i \in 1..Len(w) : \E g \in G :
       g.call = w[i].call /\ w[i].stamp <= g.at /\ g.at <= w[i].stamp + Lag
  /\ \A i, j \in 1..Len(w) : w[i].call = w[j].call => i = j
  /\ \A i, j \in 1..Len(w) : \A g, h \in G :
       i <= j /\ g.call = w[i].call /\ h.call = w[j].call => g.at <= h.at
  /\ \A g \in G : (\E i \in 1..Len(w) : w[i].call = g.call) \/ g.at < t - width + Lag

\* The clock does not hurt.
LEMMA SoundLater ==
  ASSUME NEW w, NEW G, NEW t \in Nat, NEW width \in Nat, Sound(w, G, t, width)
  PROVE  Sound(w, G, t + 1, width)
<1>1. \A g \in G : g.at <= t + 1
  BY DEF Sound, Grant
<1>2. \A g \in G : g.at < t - width + Lag => g.at < (t + 1) - width + Lag
  BY LimiterFacts DEF Sound, Grant
<1>3. \A g \in G : (\E i \in 1..Len(w) : w[i].call = g.call) \/ g.at < (t + 1) - width + Lag
  BY <1>2 DEF Sound
<1>4. QED
  BY <1>1, <1>3 DEF Sound

\* Nor does a call with an older clock: what it expires counts no more.
LEMMA SoundExpired ==
  ASSUME NEW w, NEW G, NEW t \in Nat, NEW width \in Nat, Sound(w, G, t, width),
         NEW cutoff \in Int, cutoff <= t - width
  PROVE  Sound(Unexpired(w, cutoff), G, t, width)
<1> DEFINE n == Expired(w, cutoff)
           kept == Unexpired(w, cutoff)
<1>1. w \in Seq(Entry) /\ G \in SUBSET Grant /\ Len(w) \in Nat
  BY DEF Sound
<1>2. /\ n \in 0..Len(w) /\ \A i \in 1..n : w[i].stamp < cutoff
      /\ kept \in Seq(Entry) /\ Len(kept) = Len(w) - n
      /\ \A i \in 1..Len(kept) : n + i \in 1..Len(w) /\ kept[i] = w[n + i]
  BY <1>1, ExpiredHead, UnexpiredTail
<1> HIDE DEF n, kept
<1>3. \A i \in 1..Len(kept) : \E g \in G :
        g.call = kept[i].call /\ kept[i].stamp <= g.at /\ g.at <= kept[i].stamp + Lag
  <2>1. TAKE i \in 1..Len(kept)
  <2>2. n + i \in 1..Len(w) /\ kept[i] = w[n + i]
    BY <1>2
  <2>3. \E g \in G : /\ g.call = w[n + i].call
                     /\ w[n + i].stamp <= g.at /\ g.at <= w[n + i].stamp + Lag
    BY <2>2 DEF Sound
  <2>4. QED
    BY <2>2, <2>3
<1>4. \A i, j \in 1..Len(kept) : kept[i].call = kept[j].call => i = j
  <2>1. SUFFICES ASSUME NEW i \in 1..Len(kept), NEW j \in 1..Len(kept), kept[i].call = kept[j].call
                 PROVE  i = j
    OBVIOUS
  <2>2. n + i \in 1..Len(w) /\ n + j \in 1..Len(w) /\ w[n + i].call = w[n + j].call
    BY <1>2, <2>1
  <2>3. n + i = n + j
    BY <2>2 DEF Sound
  <2>4. QED
    BY <1>2, <2>3
<1>5. \A i, j \in 1..Len(kept) : \A g, h \in G :
        i <= j /\ g.call = kept[i].call /\ h.call = kept[j].call => g.at <= h.at
  <2>1. SUFFICES ASSUME NEW i \in 1..Len(kept), NEW j \in 1..Len(kept), NEW g \in G, NEW h \in G,
                        i <= j, g.call = kept[i].call, h.call = kept[j].call
                 PROVE  g.at <= h.at
    OBVIOUS
  <2>2. n + i <= n + j /\ g.call = w[n + i].call /\ h.call = w[n + j].call
    BY <1>2, <2>1
  <2>3. n + i \in 1..Len(w) /\ n + j \in 1..Len(w)
    BY <1>2
  <2>4. QED
    BY <2>2, <2>3 DEF Sound
<1>6. ASSUME NEW g \in G
      PROVE  (\E i \in 1..Len(kept) : kept[i].call = g.call) \/ g.at < t - width + Lag
  <2>1. CASE \E i \in 1..Len(w) : w[i].call = g.call
    <3>1. PICK i \in 1..Len(w) : w[i].call = g.call
      BY <2>1
    <3>2. CASE i <= n
      <4>1. PICK h \in G : h.call = w[i].call /\ h.at <= w[i].stamp + Lag
        BY DEF Sound
      <4>2. h = g
        BY <3>1, <4>1 DEF Sound
      <4>3. w[i].stamp < cutoff /\ w[i].stamp \in Nat /\ g.at \in Nat
        <5>1. w[i] \in Entry /\ g \in Grant /\ i \in 1..n
          BY <1>1, <1>2, <3>2
        <5>2. QED
          BY <1>2, <5>1 DEF Entry, Grant
      <4>4. QED
        BY <4>1, <4>2, <4>3, LimiterFacts
    <3>3. CASE ~(i <= n)
      <4>1. i - n \in 1..Len(kept) /\ n + (i - n) = i
        BY <1>1, <1>2, <3>3
      <4>2. kept[i - n] = w[i]
        BY <1>2, <4>1
      <4>3. QED
        BY <3>1, <4>1, <4>2
    <3>4. QED
      BY <3>2, <3>3
  <2>2. CASE g.at < t - width + Lag
    BY <2>2
  <2>3. QED
    BY <2>1, <2>2 DEF Sound
<1>7. Sound(kept, G, t, width)
  BY <1>1, <1>2, <1>3, <1>4, <1>5, <1>6 DEF Sound
<1>8. QED
  BY <1>7 DEF kept

\* A call that is let through enters behind all others, with a stamp from
\* before it waited for the lock.
LEMMA SoundEntered ==
  ASSUME NEW w, NEW G, NEW t \in Nat, NEW width \in Nat, Sound(w, G, t, width),
         NEW c \in LimitedCalls, NEW read \in Nat, read <= t, t <= read + Lag,
         \A g \in G : g.call # c
  PROVE  Sound(Append(w, [call |-> c, stamp |-> read]), G \cup {[call |-> c, at |-> t]}, t, width)
<1> DEFINE e == [call |-> c, stamp |-> read]
           new == [call |-> c, at |-> t]
           v == Append(w, e)
           H == G \cup {new}
           last == Len(w) + 1
<1>1. w \in Seq(Entry) /\ Len(w) \in Nat /\ G \in SUBSET Grant /\ IsFiniteSet(G)
  BY DEF Sound
<1>2. e \in Entry /\ new \in Grant /\ e.call = c /\ e.stamp = read /\ new.call = c /\ new.at = t
  BY DEF Entry, Grant
<1> HIDE DEF e, new
<1>3. /\ v \in Seq(Entry) /\ Len(v) = last /\ v[last] = e
      /\ \A i \in 1..Len(w) : v[i] = w[i]
  BY <1>1, <1>2
<1> HIDE DEF v
<1>4. \A i \in 1..Len(v) : i \in 1..Len(w) \/ i = last
  BY <1>1, <1>3
<1>5. H \in SUBSET Grant /\ IsFiniteSet(H)
  BY <1>1, <1>2, FS_AddElement
<1>6. /\ \A g, h \in H : g.call = h.call => g = h
      /\ \A g \in H : g.at <= t
  BY <1>2 DEF Sound
<1>7. \A i \in 1..Len(w) : w[i].call # c
  BY DEF Sound
<1>8. ASSUME NEW i \in 1..Len(v)
      PROVE  \E g \in H : g.call = v[i].call /\ v[i].stamp <= g.at /\ g.at <= v[i].stamp + Lag
  <2>1. CASE i \in 1..Len(w)
    BY <1>3, <2>1 DEF Sound
  <2>2. CASE i = last
    BY <1>2, <1>3, <2>2
  <2>3. QED
    BY <1>4, <2>1, <2>2
<1>9. ASSUME NEW i \in 1..Len(v), NEW j \in 1..Len(v), v[i].call = v[j].call PROVE i = j
  BY <1>2, <1>3, <1>4, <1>7, <1>9 DEF Sound
<1>10. ASSUME NEW i \in 1..Len(v), NEW j \in 1..Len(v), NEW g \in H, NEW h \in H,
              i <= j, g.call = v[i].call, h.call = v[j].call
       PROVE  g.at <= h.at
  <2>1. CASE j = last
    <3>1. h = new
      BY <1>2, <1>3, <1>10, <2>1
    <3>2. QED
      BY <1>2, <1>6, <3>1
  <2>2. CASE j # last
    <3>1. i \in 1..Len(w) /\ j \in 1..Len(w)
      BY <1>1, <1>3, <1>10, <2>2
    <3>2. g \in G /\ h \in G /\ g.call = w[i].call /\ h.call = w[j].call
      BY <1>2, <1>3, <1>7, <1>10, <3>1
    <3>3. QED
      BY <1>10, <3>1, <3>2 DEF Sound
  <2>3. QED
    BY <2>1, <2>2
<1>11. ASSUME NEW g \in H
       PROVE  (\E i \in 1..Len(v) : v[i].call = g.call) \/ g.at < t - width + Lag
  <2>1. CASE g = new
    BY <1>1, <1>2, <1>3, <2>1
  <2>2. CASE g \in G /\ \E i \in 1..Len(w) : w[i].call = g.call
    BY <1>1, <1>3, <2>2
  <2>3. CASE g \in G /\ g.at < t - width + Lag
    BY <2>3
  <2>4. QED
    BY <2>1, <2>2, <2>3 DEF Sound
<1>12. Sound(v, H, t, width)
  BY <1>3, <1>5, <1>6, <1>8, <1>9, <1>10, <1>11 DEF Sound
<1>13. QED
  BY <1>12 DEF v, e, new

\* No more calls than entries since the window opened.
LEMMA SoundIsBounded ==
  ASSUME NEW w, NEW G, NEW t \in Nat, NEW width \in Nat, Sound(w, G, t, width)
  PROVE  Cardinality({g \in G : g.at >= t - width + Lag}) <= Len(w)
<1> DEFINE recent == {g \in G : g.at >= t - width + Lag}
           f == [g \in recent |-> CHOOSE i \in 1..Len(w) : w[i].call = g.call]
<1>1. ASSUME NEW g \in recent PROVE \E i \in 1..Len(w) : w[i].call = g.call
  <2>1. g \in G /\ g.at \in Nat /\ ~(g.at < t - width + Lag)
    BY LimiterFacts DEF Sound, Grant
  <2>2. QED
    BY <2>1 DEF Sound
<1>2. \A g \in recent : f[g] \in 1..Len(w) /\ w[f[g]].call = g.call
  BY <1>1
<1>3. f \in Injection(recent, 1..Len(w))
  <2>1. f \in [recent -> 1..Len(w)]
    BY <1>2
  <2>2. ASSUME NEW g \in recent, NEW h \in recent, f[g] = f[h] PROVE g = h
    BY <1>2, <2>2 DEF Sound
  <2> HIDE DEF f, recent
  <2>3. QED
    BY <2>1, <2>2 DEF Injection, IsInjective
<1>4. IsFiniteSet(1..Len(w)) /\ Cardinality(1..Len(w)) = Len(w)
  <2>1. Len(w) \in Nat
    BY DEF Sound
  <2>2. QED
    BY <2>1, IntervalSize
<1> HIDE DEF f, recent
<1>5. Cardinality(recent) <= Cardinality(1..Len(w))
  BY <1>3, <1>4, FS_Injection
<1>6. QED
  BY <1>4, <1>5 DEF recent

\* All entries of a window whose head has not expired were let through since.
LEMMA SoundIsFull ==
  ASSUME NEW w, NEW G, NEW t \in Nat, NEW width \in Nat, Sound(w, G, t, width),
         NEW cutoff \in Int, Len(w) > 0 => w[1].stamp >= cutoff
  PROVE  Cardinality({g \in G : g.at >= cutoff}) >= Len(w)
<1> DEFINE since == {g \in G : g.at >= cutoff}
           f == [i \in 1..Len(w) |-> CHOOSE g \in since : g.call = w[i].call]
<1>1. w \in Seq(Entry) /\ Len(w) \in Nat /\ G \in SUBSET Grant /\ IsFiniteSet(G)
  BY DEF Sound
<1>2. ASSUME NEW i \in 1..Len(w) PROVE \E g \in since : g.call = w[i].call
  <2>1. 1 \in 1..Len(w) /\ 1 <= i /\ Len(w) > 0
    BY <1>1
  <2>2. PICK g \in G : g.call = w[1].call /\ w[1].stamp <= g.at
    BY <2>1 DEF Sound
  <2>3. PICK h \in G : h.call = w[i].call
    BY DEF Sound
  <2>4. g.at <= h.at
    BY <2>1, <2>2, <2>3 DEF Sound
  <2>5. w[1].stamp \in Nat /\ g.at \in Nat /\ h.at \in Nat
    <3>1. w[1] \in Entry /\ g \in Grant /\ h \in Grant
      BY <1>1, <2>1
    <3>2. QED
      BY <3>1 DEF Entry, Grant
  <2>6. QED
    BY <2>1, <2>2, <2>3, <2>4, <2>5
<1>3. \A i \in 1..Len(w) : f[i] \in since /\ f[i].call = w[i].call
  BY <1>2
<1>4. f \in Injection(1..Len(w), since)
  <2>1. f \in [1..Len(w) -> since]
    BY <1>3
  <2>2. ASSUME NEW i \in 1..Len(w), NEW j \in 1..Len(w), f[i] = f[j] PROVE i = j
    BY <1>3, <2>2 DEF Sound
  <2> HIDE DEF f, since
  <2>3. QED
    BY <2>1, <2>2 DEF Injection, IsInjective
<1>5. since \in SUBSET G
  OBVIOUS
<1> HIDE DEF f, since
<1>6. IsFiniteSet(since)
  BY <1>1, <1>5, FS_Subset
<1>7. Cardinality(1..Len(w)) <= Cardinality(since)
  BY <1>4, <1>6, FS_Injection
<1>8. Cardinality(1..Len(w)) = Len(w)
  BY <1>1, IntervalSize
<1>9. Cardinality(since) \in Nat
  BY <1>6, FS_CardinalityType
<1>10. QED
  BY <1>1, <1>7, <1>8, <1>9 DEF since
-----------------------------------------------------------------------------
(* The limiters.                                                           *)

Asked == [at : Limiters \cup {"served"}, read : Nat \cup {NotRead}, refused : BOOLEAN]

\* A call waits for a lock no longer than Lag, and has read the clock before.
ClocksRecent ==
  \A c \in LimitedCalls :
    /\ asked[c].read # NotRead => asked[c].at \in Limiters /\ asked[c].read <= ticks
    /\ asked[c].refused => asked[c].read # NotRead
    /\ Waits(c) => ticks <= asked[c].read + Lag

\* A call passes the limiters one after the other, each once.
PassedInOrder ==
  \A c \in LimitedCalls, l \in Limiters :
    asked[c].at = l \/ asked[c].at = "burst" => \A g \in granted[l] : g.call # c

WindowsSound ==
  \A l \in Limiters : /\ Sound(window[l], granted[l], ticks, Window[l])
                      /\ MaxAllowed[l] > 0 => Len(window[l]) <= MaxAllowed[l]

LimiterInv ==
  LimiterTypeOK /\ ClocksRecent /\ PassedInOrder /\ WindowsSound /\ RefusalsJustified

LEMMA LimiterStarts == LimiterInit => LimiterInv
<1> SUFFICES ASSUME LimiterInit PROVE LimiterInv
  OBVIOUS
<1> USE LimiterFacts
<1>1. LimiterTypeOK
  BY DEF LimiterInit, LimiterTypeOK, Fresh, NotRead, Limiters
<1>2. \A c \in LimitedCalls : asked[c].at = "burst" /\ asked[c].read = NotRead /\ ~asked[c].refused
  BY DEF LimiterInit, Fresh
<1>3. ClocksRecent /\ PassedInOrder /\ RefusalsJustified
  BY <1>2 DEF LimiterInit, ClocksRecent, Waits, PassedInOrder, RefusalsJustified
<1>4. WindowsSound
  <2>1. IsFiniteSet({})
    BY FS_EmptySet
  <2>2. \A l \in Limiters : window[l] = <<>> /\ granted[l] = {} /\ MaxAllowed[l] \in Nat
    BY DEF LimiterInit
  <2>3. \A l \in Limiters : Sound(window[l], granted[l], ticks, Window[l])
    <3>1. <<>> \in Seq(Entry) /\ 1..Len(<<>>) = {}
      OBVIOUS
    <3>2. QED
      BY <2>1, <2>2, <3>1 DEF Sound
  <2>4. QED
    BY <2>2, <2>3 DEF WindowsSound
<1>5. QED
  BY <1>1, <1>3, <1>4 DEF LimiterInv

LEMMA TimeKeeps == LimiterInv /\ TimePasses => LimiterInv'
<1> SUFFICES ASSUME LimiterInv, TimePasses PROVE LimiterInv'
  OBVIOUS
<1> USE LimiterFacts DEF LimiterInv
<1>1. /\ ticks' = ticks + 1 /\ asked' = asked /\ window' = window /\ granted' = granted
      /\ ticks \in Nat /\ ticks < LastTick
      /\ \A c \in LimitedCalls : Waits(c) => ticks < asked[c].read + Lag
  BY DEF TimePasses, LimiterTypeOK
<1>2. LimiterTypeOK'
  <2>1. ticks' \in 0..LastTick
    BY <1>1
  <2>2. QED
    BY <1>1, <2>1 DEF LimiterTypeOK
<1>3. ClocksRecent'
  BY <1>1 DEF ClocksRecent, LimiterTypeOK, Waits, NotRead
<1>4. PassedInOrder' /\ RefusalsJustified'
  BY <1>1 DEF PassedInOrder, RefusalsJustified, GrantedSince
<1>5. WindowsSound'
  BY <1>1, SoundLater DEF WindowsSound
<1>6. QED
  BY <1>2, <1>3, <1>4, <1>5

LEMMA ReadKeeps == ASSUME LimiterInv, NEW c \in LimitedCalls, ReadTime(c) PROVE LimiterInv'
<1> USE LimiterFacts DEF LimiterInv
<1>1. /\ ticks' = ticks /\ window' = window /\ granted' = granted /\ ticks \in Nat
      /\ asked[c].at \in Limiters /\ asked[c].read = NotRead /\ ~asked[c].refused
  BY DEF ReadTime, LimiterTypeOK, ClocksRecent
<1>2. \A d \in LimitedCalls \ {c} : asked'[d] = asked[d]
  BY DEF ReadTime, LimiterTypeOK
<1>3. \/ asked'[c] = Fresh(Following(asked[c].at))
      \/ asked'[c] = [asked[c] EXCEPT !.read = ticks]
  BY DEF ReadTime, LimiterTypeOK
<1>4. /\ asked'[c] \in Asked /\ ~asked'[c].refused
      /\ \/ asked'[c].at = Following(asked[c].at) /\ asked'[c].read = NotRead
         \/ asked'[c].at = asked[c].at /\ asked'[c].read = ticks
  <2>1. asked[c] \in Asked
    BY DEF LimiterTypeOK, Asked
  <2>2. CASE asked'[c] = Fresh(Following(asked[c].at))
    BY <1>1, <2>2 DEF Fresh, Following, Asked, Limiters
  <2>3. CASE asked'[c] = [asked[c] EXCEPT !.read = ticks]
    BY <1>1, <2>1, <2>3 DEF Asked
  <2>4. QED
    BY <1>3, <2>2, <2>3
<1>5. asked' \in [LimitedCalls -> Asked]
  <2>1. \A d \in LimitedCalls : asked'[d] \in Asked
    BY <1>2, <1>4 DEF LimiterTypeOK, Asked
  <2>2. asked' = [d \in LimitedCalls |-> asked'[d]]
    BY DEF ReadTime, LimiterTypeOK
  <2>3. QED
    BY <2>1, <2>2
<1>6. LimiterTypeOK'
  BY <1>1, <1>5 DEF LimiterTypeOK, Asked
<1>7. ClocksRecent'
  BY <1>1, <1>2, <1>4 DEF ClocksRecent, Waits, NotRead
<1>8. PassedInOrder'
  BY <1>1, <1>2, <1>4 DEF PassedInOrder, Following, Limiters
<1>9. RefusalsJustified' /\ WindowsSound'
  BY <1>1, <1>2, <1>4 DEF RefusalsJustified, GrantedSince, WindowsSound
<1>10. QED
  BY <1>6, <1>7, <1>8, <1>9

\* A call refused: the window has lost only what has expired, and its entries
\* were all let through within the window of the call.
LEMMA RefuseKeeps ==
  ASSUME LimiterInv, NEW c \in LimitedCalls, Enter(c), NEW l \in Limiters, l = asked[c].at,
         NEW kept, kept = Unexpired(window[l], asked[c].read - Window[l]),
         Full(l, kept), asked' = [asked EXCEPT ![c].refused = TRUE],
         window' = [window EXCEPT ![l] = kept], granted' = granted
  PROVE  LimiterInv'
<1> USE LimiterFacts DEF LimiterInv
<1>1. /\ ticks' = ticks /\ ticks \in Nat /\ asked[c] \in Asked /\ asked[c].read \in Nat
      /\ Waits(c) /\ asked[c].read <= ticks
  BY DEF Enter, LimiterTypeOK, ClocksRecent, Waits, Asked
<1>2. /\ \A d \in LimitedCalls \ {c} : asked'[d] = asked[d]
      /\ asked'[c].at = l /\ asked'[c].read = asked[c].read /\ asked'[c].refused
      /\ asked' \in [LimitedCalls -> Asked]
  BY <1>1 DEF LimiterTypeOK, Asked
<1> DEFINE cutoff == asked[c].read - Window[l]
<1>3. cutoff \in Int /\ cutoff <= ticks - Window[l]
  BY <1>1
<1>4. Sound(window[l], granted[l], ticks, Window[l])
  BY DEF WindowsSound
<1>5. Sound(kept, granted[l], ticks, Window[l])
  BY <1>1, <1>3, <1>4, SoundExpired
<1>6. window[l] \in Seq(Entry)
  BY <1>4 DEF Sound
<1>7. /\ Len(kept) \in Nat /\ Len(kept) <= Len(window[l]) /\ Len(window[l]) \in Nat
      /\ Len(kept) > 0 => kept[1].stamp >= cutoff
  <2>1. /\ Expired(window[l], cutoff) \in 0..Len(window[l])
        /\ Expired(window[l], cutoff) < Len(window[l]) =>
             window[l][Expired(window[l], cutoff) + 1].stamp >= cutoff
    BY <1>3, <1>6, ExpiredHead
  <2>2. /\ Len(kept) = Len(window[l]) - Expired(window[l], cutoff)
        /\ \A i \in 1..Len(kept) : kept[i] = window[l][Expired(window[l], cutoff) + i]
    BY <1>3, <1>6, UnexpiredTail
  <2>3. Len(window[l]) \in Nat /\ Expired(window[l], cutoff) \in Nat
    BY <1>6, <2>1
  <2>4. Len(kept) \in Nat /\ Len(kept) <= Len(window[l])
    BY <2>1, <2>2, <2>3
  <2>5. ASSUME Len(kept) > 0 PROVE kept[1].stamp >= cutoff
    <3>1. 1 \in 1..Len(kept) /\ Expired(window[l], cutoff) < Len(window[l])
      BY <2>2, <2>3, <2>4, <2>5
    <3>2. kept[1] = window[l][Expired(window[l], cutoff) + 1]
      BY <2>2, <3>1
    <3>3. QED
      BY <2>1, <3>1, <3>2
  <2>6. QED
    BY <2>3, <2>4, <2>5
<1>8. WindowsSound'
  <2>1. window'[l] = kept /\ \A k \in Limiters \ {l} : window'[k] = window[k]
    BY DEF LimiterTypeOK
  <2>2. MaxAllowed[l] > 0 => Len(kept) <= MaxAllowed[l]
    BY <1>7 DEF WindowsSound
  <2>3. QED
    BY <1>1, <1>5, <2>1, <2>2 DEF WindowsSound
<1>9. RefusalsJustified'
  <2>1. Cardinality({g \in granted[l] : g.at >= cutoff}) >= Len(kept)
    BY <1>1, <1>3, <1>5, <1>7, SoundIsFull
  <2>2. Len(kept) >= MaxAllowed[l]
    BY DEF Full
  <2>3. {g \in granted[l] : g.at >= cutoff} \in SUBSET granted[l] /\ IsFiniteSet(granted[l])
    BY <1>4 DEF Sound
  <2>4. Cardinality({g \in granted[l] : g.at >= cutoff}) \in Nat
    BY <2>3, FS_Subset, FS_CardinalityType
  <2>5. Cardinality({g \in granted[l] : g.at >= cutoff}) >= MaxAllowed[l]
    BY <1>7, <2>1, <2>2, <2>4
  <2>6. QED
    BY <1>1, <1>2, <2>5 DEF RefusalsJustified, GrantedSince
<1>10. LimiterTypeOK'
  <2>1. window' \in [Limiters -> Seq(Entry)]
    BY <1>5 DEF Sound, LimiterTypeOK, Entry
  <2>2. QED
    BY <1>1, <1>2, <2>1 DEF LimiterTypeOK, Asked, Entry
<1>11. ClocksRecent' /\ PassedInOrder'
  BY <1>1, <1>2 DEF ClocksRecent, PassedInOrder, Waits
<1>12. QED
  BY <1>8, <1>9, <1>10, <1>11

\* A call let through enters a window that has room.
LEMMA AdmitKeeps ==
  ASSUME LimiterInv, NEW c \in LimitedCalls, Enter(c), NEW l \in Limiters, l = asked[c].at,
         NEW kept, kept = Unexpired(window[l], asked[c].read - Window[l]),
         ~Full(l, kept), asked' = [asked EXCEPT ![c] = Fresh(Following(l))],
         window' = [window EXCEPT ![l] = Append(kept, [call |-> c, stamp |-> asked[c].read])],
         granted' = [granted EXCEPT ![l] = @ \cup {[call |-> c, at |-> ticks]}]
  PROVE  LimiterInv'
<1> USE LimiterFacts DEF LimiterInv
<1>1. /\ ticks' = ticks /\ ticks \in Nat /\ asked[c] \in Asked /\ asked[c].read \in Nat
      /\ Waits(c) /\ asked[c].read <= ticks /\ ticks <= asked[c].read + Lag
  BY DEF Enter, LimiterTypeOK, ClocksRecent, Waits, Asked
<1>2. /\ \A d \in LimitedCalls \ {c} : asked'[d] = asked[d]
      /\ asked'[c] = Fresh(Following(l)) /\ Fresh(Following(l)) \in Asked
      /\ asked' \in [LimitedCalls -> Asked]
  BY <1>1 DEF LimiterTypeOK, Asked, Fresh, Following, Limiters
<1>3. asked'[c].at = Following(l) /\ asked'[c].read = NotRead /\ ~asked'[c].refused
  BY <1>2 DEF Fresh
<1> DEFINE cutoff == asked[c].read - Window[l]
           more == granted[l] \cup {[call |-> c, at |-> ticks]}
<1>4. cutoff \in Int /\ cutoff <= ticks - Window[l]
  BY <1>1
<1>5. Sound(kept, granted[l], ticks, Window[l])
  BY <1>1, <1>4, SoundExpired DEF WindowsSound
<1>6. \A g \in granted[l] : g.call # c
  BY DEF PassedInOrder
<1>7. Sound(Append(kept, [call |-> c, stamp |-> asked[c].read]), more, ticks, Window[l])
  BY <1>1, <1>5, <1>6, SoundEntered
<1>8. /\ granted'[l] = more /\ \A k \in Limiters \ {l} : granted'[k] = granted[k]
      /\ window'[l] = Append(kept, [call |-> c, stamp |-> asked[c].read])
      /\ \A k \in Limiters \ {l} : window'[k] = window[k]
  BY DEF LimiterTypeOK
<1>9. WindowsSound'
  <2>1. Len(kept) \in Nat /\ Len(kept) < MaxAllowed[l] /\ kept \in Seq(Entry)
    <3>1. kept \in Seq(Entry) /\ MaxAllowed[l] \in Nat
      BY <1>5 DEF Sound
    <3>2. ~(Len(kept) >= MaxAllowed[l])
      BY DEF Full
    <3>3. QED
      BY <3>1, <3>2
  <2>2. Len(Append(kept, [call |-> c, stamp |-> asked[c].read])) <= MaxAllowed[l]
    BY <1>1, <2>1 DEF Entry
  <2>3. QED
    BY <1>1, <1>7, <1>8, <2>2 DEF WindowsSound
<1>10. LimiterTypeOK'
  <2>1. window' \in [Limiters -> Seq(Entry)] /\ granted' \in [Limiters -> SUBSET Grant]
    BY <1>7 DEF Sound, LimiterTypeOK, Entry, Grant
  <2>2. QED
    BY <1>1, <1>2, <2>1 DEF LimiterTypeOK, Asked, Entry, Grant
<1>11. ClocksRecent'
  BY <1>1, <1>2, <1>3 DEF ClocksRecent, Waits
<1>12. PassedInOrder'
  <2>1. ASSUME NEW d \in LimitedCalls \ {c}, NEW k \in Limiters,
               asked'[d].at = k \/ asked'[d].at = "burst"
        PROVE  \A g \in granted'[k] : g.call # d
    BY <1>2, <1>8, <2>1 DEF PassedInOrder
  <2>2. ASSUME NEW k \in Limiters, asked'[c].at = k \/ asked'[c].at = "burst"
        PROVE  \A g \in granted'[k] : g.call # c
    <3>1. l = "burst" /\ k = "session"
      BY <1>3, <2>2 DEF Following, Limiters
    <3>2. granted'[k] = granted[k] /\ asked[c].at = "burst"
      BY <1>8, <3>1
    <3>3. QED
      BY <3>2 DEF PassedInOrder
  <2>3. QED
    BY <2>1, <2>2 DEF PassedInOrder
<1>13. RefusalsJustified'
  <2>1. SUFFICES ASSUME NEW d \in LimitedCalls, asked'[d].refused
                 PROVE  Cardinality({g \in granted'[asked[d].at] :
                          g.at >= asked[d].read - Window[asked[d].at]}) >= MaxAllowed[asked[d].at]
                        /\ d # c
    BY <1>2 DEF RefusalsJustified, GrantedSince
  <2>2. d # c /\ asked[d].refused
    BY <1>2, <1>3, <2>1
  <2>3. asked[d].at \in Limiters
    BY <2>2 DEF ClocksRecent
  <2> DEFINE k == asked[d].at
             old == {g \in granted[k] : g.at >= asked[d].read - Window[k]}
             new == {g \in granted'[k] : g.at >= asked[d].read - Window[k]}
  <2>4. Cardinality(old) >= MaxAllowed[k]
    BY <2>2 DEF RefusalsJustified, GrantedSince
  <2>5. old \in SUBSET new /\ new \in SUBSET granted'[k] /\ IsFiniteSet(granted'[k])
    <3>1. granted[k] \in SUBSET granted'[k]
      BY <1>8, <2>3
    <3>2. IsFiniteSet(granted'[k])
      BY <1>9, <2>3 DEF WindowsSound, Sound
    <3>3. QED
      BY <3>1, <3>2
  <2> HIDE DEF old, new, k
  <2>6. IsFiniteSet(new) /\ IsFiniteSet(old)
    BY <2>5, FS_Subset
  <2>7. Cardinality(old) <= Cardinality(new) /\ Cardinality(old) \in Nat /\ Cardinality(new) \in Nat
    BY <2>5, <2>6, FS_Subset, FS_CardinalityType
  <2>8. Cardinality(new) >= MaxAllowed[k]
    BY <2>3, <2>4, <2>7 DEF k
  <2>9. QED
    BY <2>2, <2>8 DEF new, k
<1>14. QED
  BY <1>9, <1>10, <1>11, <1>12, <1>13

LEMMA EnterKeeps == ASSUME LimiterInv, NEW c \in LimitedCalls, Enter(c) PROVE LimiterInv'
<1> DEFINE l == asked[c].at
           kept == Unexpired(window[l], asked[c].read - Window[l])
<1>1. l \in Limiters
  BY DEF Enter, Waits, LimiterInv, ClocksRecent
<1>2. \/ /\ Full(l, kept) /\ asked' = [asked EXCEPT ![c].refused = TRUE]
         /\ window' = [window EXCEPT ![l] = kept] /\ granted' = granted
      \/ /\ ~Full(l, kept) /\ asked' = [asked EXCEPT ![c] = Fresh(Following(l))]
         /\ window' = [window EXCEPT ![l] = Append(kept, [call |-> c, stamp |-> asked[c].read])]
         /\ granted' = [granted EXCEPT ![l] = @ \cup {[call |-> c, at |-> ticks]}]
  BY DEF Enter
<1> HIDE DEF l, kept
<1>3. l = asked[c].at /\ kept = Unexpired(window[l], asked[c].read - Window[l])
  BY DEF l, kept
<1>4. QED
  BY <1>1, <1>2, <1>3, RefuseKeeps, AdmitKeeps

\* The limits of chat() are exact up to the wait for the lock: never more calls
\* within a window, no refusal without as many, for any limits, windows, calls
\* and orders of taking the locks (rate_limiter.py 19-31, chat.py 48-52).
THEOREM LimitsAreExact == LimiterSpec => []LimitIsExact
<1>1. LimiterInv => LimitIsExact
  <2> SUFFICES ASSUME LimiterInv PROVE LimitIsExact
    OBVIOUS
  <2>1. ASSUME NEW l \in Limiters, MaxAllowed[l] > 0
        PROVE  Cardinality(GrantedSince(l, ticks - Window[l] + Lag)) <= MaxAllowed[l]
    <3>1. /\ Sound(window[l], granted[l], ticks, Window[l])
          /\ Len(window[l]) <= MaxAllowed[l] /\ ticks \in Nat /\ Window[l] \in Nat
          /\ MaxAllowed[l] \in Nat /\ Len(window[l]) \in Nat
      BY <2>1, LimiterFacts DEF LimiterInv, WindowsSound, LimiterTypeOK, Sound
    <3>2. Cardinality(GrantedSince(l, ticks - Window[l] + Lag)) <= Len(window[l])
      BY <3>1, SoundIsBounded DEF GrantedSince
    <3>3. Cardinality(GrantedSince(l, ticks - Window[l] + Lag)) \in Nat
      BY <3>1, FS_Subset, FS_CardinalityType DEF GrantedSince, Sound
    <3>4. QED
      BY <3>1, <3>2, <3>3
  <2>2. QED
    BY <2>1 DEF LimitIsExact, NeverOverLimit, LimiterInv
<1>2. LimiterInv /\ [LimiterNext]_limiterVars => LimiterInv'
  <2>1. ASSUME LimiterInv, UNCHANGED limiterVars PROVE LimiterInv'
    BY <2>1 DEF limiterVars, LimiterInv, LimiterTypeOK, ClocksRecent, Waits, PassedInOrder,
       WindowsSound, RefusalsJustified, GrantedSince
  <2>2. QED
    BY <2>1, TimeKeeps, ReadKeeps, EnterKeeps DEF LimiterNext
<1>3. QED
  BY LimiterStarts, <1>1, <1>2, PTL DEF LimiterSpec

-----------------------------------------------------------------------------
(* The start: the invariant.                                               *)

LEMMA StartupFacts ==
  /\ Pairs \in Nat /\ MaxStops \in Nat /\ MaxMeddling \in Nat /\ MaxVersions \in Nat \ {0}
  /\ \A v \in 1..MaxVersions : Shipped[v] \in 0..Pairs
BY StartupAssumption DEF StartupAssumption

There(row) == row.status # "none"
Public(row) == row.status = "public"

Statuses == {"none", "private", "pending", "public", "rejected"}
SeedRow == [status : Statuses, text : Nat]

\* The steps of a start that deal with a pair.
SkillSteps == {"submit skill", "approve skill"}
AgentSteps == {"attach", "submit agent", "approve agent"}
Seeding == start.at \in {"skill", "agent"} \cup SkillSteps \cup AgentSteps

Steps == {"down", "master", "skill", "agent", "admin", "up"} \cup SkillSteps \cup AgentSteps

StartTypeOK ==
  /\ start \in [at : Steps, pair : Nat]
  /\ start.at \in {"down", "master"} => start.pair = 1
  /\ Seeding => start.pair \in 1..Pairs
  /\ seedSkill \in [1..Pairs -> SeedRow] /\ seedAgent \in [1..Pairs -> SeedRow]
  /\ slugTaken \subseteq 1..Pairs /\ version \in 1..MaxVersions
  /\ masterText \in Nat /\ stops \in Nat /\ failures \in Nat /\ meddled \in Nat

\* No row without a status is left.
RowsWhole ==
  \A p \in 1..Pairs :
    /\ ~There(seedSkill[p]) => seedSkill[p] = Absent
    /\ ~There(seedAgent[p]) => seedAgent[p] = Absent

\* What the start has done for the pair it is at.
PairInHand ==
  LET q == start.pair IN
  /\ start.at \in SkillSteps => ~Public(seedSkill[q])
  /\ start.at \in {"agent"} \cup SkillSteps \cup AgentSteps =>
       There(seedSkill[q]) /\ seedSkill[q].text = version
  /\ start.at \in AgentSteps => There(seedAgent[q]) /\ seedAgent[q].text = version

\* And for the pairs before.
Brought(p) == /\ There(seedSkill[p]) /\ seedSkill[p].text = version
              /\ There(seedAgent[p]) /\ seedAgent[p].text = version
SeedsBrought ==
  /\ Seeding \/ At("admin") => masterText = version
  /\ Seeding => \A p \in 1..start.pair - 1 : Brought(p)
  /\ At("admin") => \A p \in ShippedPairs : Brought(p)

\* The pair at hand will be in service unless the server stops.
OnTheWay(p) ==
  /\ start.pair = p
  /\ \/ start.at \in SkillSteps /\ seedAgent[p] = Absent
     \/ At("agent") /\ seedAgent[p] = Absent /\ Public(seedSkill[p])
     \/ start.at \in AgentSteps /\ Public(seedSkill[p])

\* The pairs that a stop, a deletion or a taken name has left out of service, and
\* that no later start will bring there.
Amiss(p) == \/ At("up") /\ p \in ShippedPairs
            \/ There(seedAgent[p])
            \/ There(seedSkill[p]) /\ ~Public(seedSkill[p])
Damaged == {p \in 1..Pairs : ~InService(p) /\ ~OnTheWay(p) /\ Amiss(p)}

\* The pairs whose agent, when it is created, cannot be approved.
Stuck == {p \in 1..Pairs :
            /\ There(seedSkill[p]) /\ ~Public(seedSkill[p])
            /\ seedAgent[p] = Absent \/ (start.pair = p /\ start.at \in AgentSteps)
            /\ ~(start.pair = p /\ start.at \in SkillSteps)}

DamageCounted == Cardinality(Damaged) <= stops + meddled
FailuresCounted == failures + Cardinality(Stuck) <= stops + meddled

StartShape == StartTypeOK /\ RowsWhole /\ PairInHand /\ SeedsBrought
StartInv == StartShape /\ DamageCounted /\ FailuresCounted

-----------------------------------------------------------------------------
LEMMA StatusGiven ==
  ASSUME NEW r \in SeedRow, NEW s \in Statuses
  PROVE  [r EXCEPT !.status = s] \in SeedRow
BY DEF SeedRow

LEMMA RowWritten ==
  ASSUME NEW f \in [1..Pairs -> SeedRow], NEW p \in 1..Pairs, NEW r \in SeedRow
  PROVE  /\ [f EXCEPT ![p] = r] \in [1..Pairs -> SeedRow]
         /\ [f EXCEPT ![p] = r][p] = r
         /\ \A o \in 1..Pairs : o # p => [f EXCEPT ![p] = r][o] = f[o]
OBVIOUS

\* g is f with the status of the row p set to s.
StatusIsSet(f, g, p, s) ==
  /\ g \in [1..Pairs -> SeedRow]
  /\ g[p].status = s /\ g[p].text = f[p].text
  /\ \A o \in 1..Pairs : o # p => g[o] = f[o]

LEMMA StatusSet ==
  ASSUME NEW f \in [1..Pairs -> SeedRow], NEW p \in 1..Pairs, NEW s \in Statuses,
         NEW g, g = [f EXCEPT ![p].status = s]
  PROVE  StatusIsSet(f, g, p, s)
<1>1. f[p] \in SeedRow /\ [f[p] EXCEPT !.status = s] \in SeedRow
  BY StatusGiven
<1>2. g = [f EXCEPT ![p] = [f[p] EXCEPT !.status = s]]
  OBVIOUS
<1>3. QED
  BY <1>1, <1>2, RowWritten DEF SeedRow, StatusIsSet

\* g is f with an edit of the row p.
RowIsEdited(f, g, p) ==
  /\ g \in [1..Pairs -> SeedRow]
  /\ There(g[p]) /\ There(f[p]) /\ (Public(g[p]) <=> Public(f[p]))
  /\ \A o \in 1..Pairs : o # p => g[o] = f[o]

LEMMA RowEdited ==
  ASSUME NEW f \in [1..Pairs -> SeedRow], NEW p \in 1..Pairs,
         NEW g, g = [f EXCEPT ![p] = Edited(f[p])], Editable(f[p])
  PROVE  RowIsEdited(f, g, p)
<1>1. /\ Edited(f[p]) \in SeedRow /\ There(Edited(f[p])) /\ There(f[p])
      /\ (Public(Edited(f[p])) <=> Public(f[p]))
  BY DEF Edited, Editable, SeedRow, Statuses, There, Public, PeoplesText
<1>2. QED
  BY ONLY <1>1, g = [f EXCEPT ![p] = Edited(f[p])], f \in [1..Pairs -> SeedRow], p \in 1..Pairs, RowWritten DEF RowIsEdited

LEMMA Successor == ASSUME NEW n \in Nat PROVE n + 1 \in Nat
OBVIOUS

\* After a pair comes the next or, after the last, the admin's account.
NextUp ==
  \/ start'.at = "skill" /\ start'.pair = start.pair + 1 /\ start'.pair \in 1..Pairs
  \/ start'.at = "admin" /\ ShippedPairs \subseteq 1..start.pair

LEMMA ShippedAreSome == ASSUME StartTypeOK PROVE ShippedPairs \subseteq 1..Pairs
BY StartupFacts DEF StartTypeOK, ShippedPairs

LEMMA NextPairMoves ==
  ASSUME start.pair \in 1..Pairs, version \in 1..MaxVersions, NextPair
  PROVE  start' \in [at : Steps, pair : Nat] /\ NextUp
<1> USE StartupFacts DEF Steps, NextUp, ShippedPairs
<1>1. CASE start.pair < Shipped[version]
  BY <1>1 DEF NextPair
<1>2. CASE ~(start.pair < Shipped[version])
  BY <1>2 DEF NextPair
<1>3. QED
  BY <1>1, <1>2

-----------------------------------------------------------------------------
(* What the steps that write a row do, pair by pair.                       *)

Elsewhere(q) ==
  \A o \in 1..Pairs : o # q => seedSkill'[o] = seedSkill[o] /\ seedAgent'[o] = seedAgent[o]
OthersKept == UNCHANGED <<version, masterText, slugTaken, meddled>>
Goes(from, to) == start.at = from /\ start'.at = to /\ start'.pair = start.pair

SeedSkillEffect(q) ==
  /\ q \in 1..Pairs /\ Elsewhere(q) /\ OthersKept /\ seedAgent'[q] = seedAgent[q]
  /\ seedSkill'[q].text = version
  /\ IF There(seedSkill[q])
     THEN Goes("skill", "agent") /\ seedSkill'[q].status = seedSkill[q].status
     ELSE Goes("skill", "submit skill") /\ seedSkill'[q].status = "private"

LEMMA SeedSkillDoes ==
  ASSUME StartShape, SeedSkill, NEW q, q = start.pair
  PROVE  SeedSkillEffect(q)
<1> USE DEF SeedSkillEffect
<1> USE DEF SeedSkill, Elsewhere, OthersKept, Goes, At, Proceed
<1>1. /\ start.at = "skill" /\ q \in 1..Pairs /\ start \in [at : Steps, pair : Nat]
      /\ seedSkill \in [1..Pairs -> SeedRow] /\ (There(seedSkill[q]) <=> seedSkill[q] # Absent)
  <2>1. start.at = "skill"
    OBVIOUS
  <2>2. q \in 1..Pairs /\ start \in [at : Steps, pair : Nat] /\ seedSkill \in [1..Pairs -> SeedRow]
    BY <2>1 DEF StartShape, StartTypeOK, Seeding
  <2>3. There(seedSkill[q]) <=> seedSkill[q] # Absent
    BY ONLY <2>2, StartShape DEF StartShape, RowsWhole, There, Absent
  <2>4. QED
    BY <2>1, <2>2, <2>3
<1>2. CASE There(seedSkill[q])
  <2>1. seedSkill' = [seedSkill EXCEPT ![q] = Synced(seedSkill[q])] /\ start' = [start EXCEPT !.at = "agent"]
    BY <1>1, <1>2
  <2>2. Synced(seedSkill[q]).text = version /\ Synced(seedSkill[q]).status = seedSkill[q].status
    BY <1>1 DEF Synced, SeedRow
  <2>3. QED
    BY <1>1, <1>2, <2>1, <2>2 DEF Steps
<1>3. CASE ~There(seedSkill[q])
  <2>1. seedSkill' = [seedSkill EXCEPT ![q] = Created] /\ start' = [start EXCEPT !.at = "submit skill"]
    BY <1>1, <1>3
  <2>2. Created.text = version /\ Created.status = "private"
    BY DEF Created
  <2>3. QED
    BY <1>1, <1>3, <2>1, <2>2 DEF Steps
<1>4. QED
  BY <1>2, <1>3

SubmitSkillEffect(q) ==
  /\ q \in 1..Pairs /\ Elsewhere(q) /\ OthersKept
  /\ Goes("submit skill", "approve skill")
  /\ seedAgent'[q] = seedAgent[q] /\ seedSkill'[q].status = "pending"
  /\ seedSkill'[q].text = seedSkill[q].text

LEMMA SubmitSkillDoes ==
  ASSUME StartShape, SubmitSkill, NEW q, q = start.pair
  PROVE  SubmitSkillEffect(q)
<1> USE DEF SubmitSkillEffect
<1>1. /\ start.at = "submit skill" /\ start.pair \in 1..Pairs /\ start \in [at : Steps, pair : Nat]
      /\ seedSkill \in [1..Pairs -> SeedRow]
  BY DEF StartShape, StartTypeOK, Seeding, SkillSteps, At, SubmitSkill
<1>2. PICK s \in Statuses : s = "pending" /\ seedSkill' = [seedSkill EXCEPT ![q].status = s]
  BY <1>1 DEF SubmitSkill, Statuses
<1>3. StatusIsSet(seedSkill, seedSkill', q, s)
  BY ONLY <1>1, <1>2, q = start.pair, StatusSet
<1>4. Goes("submit skill", "approve skill")
  BY <1>1 DEF Goes, SubmitSkill, Proceed, Steps
<1>5. QED
  BY <1>1, <1>2, <1>3, <1>4 DEF SubmitSkill, Elsewhere, OthersKept, StatusIsSet

ApproveSkillEffect(q) ==
  /\ q \in 1..Pairs /\ Elsewhere(q) /\ OthersKept
  /\ Goes("approve skill", "agent")
  /\ seedAgent'[q] = seedAgent[q] /\ seedSkill'[q].status = "public"
  /\ seedSkill'[q].text = seedSkill[q].text

LEMMA ApproveSkillDoes ==
  ASSUME StartShape, ApproveSkill, NEW q, q = start.pair
  PROVE  ApproveSkillEffect(q)
<1> USE DEF ApproveSkillEffect
<1>1. /\ start.at = "approve skill" /\ start.pair \in 1..Pairs /\ start \in [at : Steps, pair : Nat]
      /\ seedSkill \in [1..Pairs -> SeedRow]
  BY DEF StartShape, StartTypeOK, Seeding, SkillSteps, At, ApproveSkill
<1>2. PICK s \in Statuses : s = "public" /\ seedSkill' = [seedSkill EXCEPT ![q].status = s]
  BY <1>1 DEF ApproveSkill, Statuses
<1>3. StatusIsSet(seedSkill, seedSkill', q, s)
  BY ONLY <1>1, <1>2, q = start.pair, StatusSet
<1>4. Goes("approve skill", "agent")
  BY <1>1 DEF Goes, ApproveSkill, Proceed, Steps
<1>5. QED
  BY <1>1, <1>2, <1>3, <1>4 DEF ApproveSkill, Elsewhere, OthersKept, StatusIsSet

SeedAgentEffect(q) ==
  /\ start.at = "agent" /\ q \in 1..Pairs /\ Elsewhere(q) /\ OthersKept
  /\ seedSkill'[q] = seedSkill[q] /\ seedAgent'[q].text = version
  /\ IF There(seedAgent[q])
     THEN NextUp /\ seedAgent'[q].status = seedAgent[q].status
     ELSE Goes("agent", "attach") /\ seedAgent'[q].status = "private"

LEMMA SeedAgentDoes ==
  ASSUME StartShape, SeedAgent, NEW q, q = start.pair
  PROVE  SeedAgentEffect(q)
<1> USE DEF SeedAgentEffect
<1> USE DEF SeedAgent, Elsewhere, OthersKept, At
<1>1. /\ start.at = "agent" /\ q \in 1..Pairs /\ start \in [at : Steps, pair : Nat]
      /\ version \in 1..MaxVersions
      /\ seedAgent \in [1..Pairs -> SeedRow] /\ (There(seedAgent[q]) <=> seedAgent[q] # Absent)
  BY DEF StartShape, StartTypeOK, RowsWhole, Seeding, There, Absent
<1>2. CASE There(seedAgent[q])
  <2>1. seedAgent' = [seedAgent EXCEPT ![q] = Synced(seedAgent[q])] /\ NextPair
    BY <1>1, <1>2
  <2>2. Synced(seedAgent[q]).text = version /\ Synced(seedAgent[q]).status = seedAgent[q].status
    BY <1>1 DEF Synced, SeedRow
  <2>3. NextUp
    BY <1>1, <2>1, NextPairMoves DEF NextUp
  <2>4. QED
    BY <1>1, <1>2, <2>1, <2>2, <2>3
<1>3. CASE ~There(seedAgent[q])
  <2>1. seedAgent' = [seedAgent EXCEPT ![q] = Created] /\ start' = [start EXCEPT !.at = "attach"]
    BY <1>1, <1>3 DEF Proceed
  <2>2. Created.text = version /\ Created.status = "private"
    BY DEF Created
  <2>3. QED
    BY <1>1, <1>3, <2>1, <2>2 DEF Steps, Goes
<1>4. QED
  BY <1>2, <1>3

SubmitAgentEffect(q) ==
  /\ q \in 1..Pairs /\ Elsewhere(q) /\ OthersKept
  /\ Goes("submit agent", "approve agent") /\ seedSkill'[q] = seedSkill[q]
  /\ seedAgent'[q].status = "pending" /\ seedAgent'[q].text = seedAgent[q].text

LEMMA SubmitAgentDoes ==
  ASSUME StartShape, SubmitAgent, NEW q, q = start.pair
  PROVE  SubmitAgentEffect(q)
<1> USE DEF SubmitAgentEffect
<1>1. /\ start.at = "submit agent" /\ start.pair \in 1..Pairs /\ start \in [at : Steps, pair : Nat]
      /\ seedAgent \in [1..Pairs -> SeedRow] /\ "pending" \in Statuses
  BY DEF StartShape, StartTypeOK, Seeding, AgentSteps, At, SubmitAgent, Statuses
<1>2. PICK s \in Statuses : s = "pending" /\ seedAgent' = [seedAgent EXCEPT ![q].status = s]
  BY <1>1 DEF SubmitAgent
<1>3. StatusIsSet(seedAgent, seedAgent', q, s)
  BY ONLY <1>1, <1>2, q = start.pair, StatusSet
<1>4. Goes("submit agent", "approve agent")
  BY <1>1 DEF Goes, SubmitAgent, Proceed, Steps
<1>5. QED
  BY <1>1, <1>2, <1>3, <1>4 DEF SubmitAgent, Elsewhere, OthersKept, StatusIsSet

ApproveAgentEffect(q) ==
  /\ q \in 1..Pairs /\ Elsewhere(q) /\ OthersKept
  /\ start.at = "approve agent" /\ NextUp
  /\ seedSkill'[q] = seedSkill[q] /\ seedSkill[q].status = "public"
  /\ seedAgent'[q].status = "public" /\ seedAgent'[q].text = seedAgent[q].text

LEMMA ApproveAgentDoes ==
  ASSUME StartShape, ApproveAgent, NEW q, q = start.pair
  PROVE  ApproveAgentEffect(q)
<1> USE DEF ApproveAgentEffect
<1>1. /\ start.at = "approve agent" /\ start.pair \in 1..Pairs /\ version \in 1..MaxVersions
      /\ seedAgent \in [1..Pairs -> SeedRow] /\ "public" \in Statuses
  BY DEF StartShape, StartTypeOK, Seeding, AgentSteps, At, ApproveAgent, Statuses
<1>2. PICK s \in Statuses : s = "public" /\ seedAgent' = [seedAgent EXCEPT ![q].status = s]
  BY <1>1 DEF ApproveAgent
<1>3. StatusIsSet(seedAgent, seedAgent', q, s)
  BY ONLY <1>1, <1>2, q = start.pair, StatusSet
<1>4. NextUp
  BY <1>1, NextPairMoves DEF ApproveAgent, NextUp
<1>5. QED
  BY <1>1, <1>2, <1>3, <1>4 DEF ApproveAgent, Elsewhere, OthersKept, StatusIsSet

\* A review or an edit: the rows of one pair, none of which comes, goes or
\* leaves service.
PeopleWrite(p) ==
  /\ At("up") /\ start' = start /\ OthersKept /\ Elsewhere(p)
  /\ \/ seedAgent'[p] = seedAgent[p] /\ There(seedSkill[p]) /\ There(seedSkill'[p])
          /\ (Public(seedSkill[p]) => Public(seedSkill'[p]))
     \/ seedSkill'[p] = seedSkill[p] /\ There(seedAgent[p]) /\ There(seedAgent'[p])
          /\ (Public(seedAgent[p]) => Public(seedAgent'[p]))

LEMMA PeopleDo ==
  ASSUME StartShape, NEW p \in 1..Pairs, ReviewSkill(p) \/ ReviewAgent(p) \/ EditSeed(p)
  PROVE  PeopleWrite(p)
<1> USE DEF PeopleWrite, OthersKept, Elsewhere
<1>1. seedSkill \in [1..Pairs -> SeedRow] /\ seedAgent \in [1..Pairs -> SeedRow]
  BY DEF StartShape, StartTypeOK
<1>2. CASE ReviewSkill(p)
  <2>1. PICK s \in Statuses \ {"none"} :
          /\ seedSkill' = [seedSkill EXCEPT ![p].status = s]
          /\ seedSkill[p].status \notin {"none", "public"}
    BY <1>2 DEF ReviewSkill, Statuses
  <2>2. StatusIsSet(seedSkill, seedSkill', p, s)
    BY ONLY <1>1, <2>1, p \in 1..Pairs, StatusSet
  <2>3. QED
    BY <1>2, <2>1, <2>2 DEF ReviewSkill, There, Public, StatusIsSet
<1>3. CASE ReviewAgent(p)
  <2>1. PICK s \in Statuses \ {"none"} :
          /\ seedAgent' = [seedAgent EXCEPT ![p].status = s]
          /\ seedAgent[p].status \notin {"none", "public"}
    BY <1>3 DEF ReviewAgent, Statuses
  <2>2. StatusIsSet(seedAgent, seedAgent', p, s)
    BY ONLY <1>1, <2>1, p \in 1..Pairs, StatusSet
  <2>3. QED
    BY <1>3, <2>1, <2>2 DEF ReviewAgent, There, Public, StatusIsSet
<1>4. CASE EditSeed(p)
  <2>1. CASE /\ Editable(seedSkill[p])
             /\ seedSkill' = [seedSkill EXCEPT ![p] = Edited(seedSkill[p])]
             /\ UNCHANGED seedAgent
    <3>1. RowIsEdited(seedSkill, seedSkill', p)
      BY ONLY <1>1, <2>1, p \in 1..Pairs, RowEdited
    <3>2. QED
      BY <1>4, <2>1, <3>1 DEF EditSeed, RowIsEdited
  <2>2. CASE /\ Editable(seedAgent[p])
             /\ seedAgent' = [seedAgent EXCEPT ![p] = Edited(seedAgent[p])]
             /\ UNCHANGED seedSkill
    <3>1. RowIsEdited(seedAgent, seedAgent', p)
      BY ONLY <1>1, <2>2, p \in 1..Pairs, RowEdited
    <3>2. QED
      BY <1>4, <2>2, <3>1 DEF EditSeed, RowIsEdited
  <2>3. QED
    BY <1>4, <2>1, <2>2 DEF EditSeed
<1>5. QED
  BY <1>2, <1>3, <1>4

\* A row of one pair comes or goes by people.
PeopleTouch(p) == At("up") /\ start' = start /\ version' = version /\ Elsewhere(p)

LEMMA PeopleTouchOne ==
  ASSUME StartShape, NEW p \in 1..Pairs, DeleteSeed(p) \/ DropSkill(p) \/ TakeName(p)
  PROVE  /\ PeopleTouch(p) /\ RowsWhole'
         /\ seedSkill' \in [1..Pairs -> SeedRow] /\ seedAgent' \in [1..Pairs -> SeedRow]
<1> DEFINE Gives(f, g) == \E r \in {Absent, PeoplesRow} : g = [f EXCEPT ![p] = r]
<1>1. /\ seedSkill \in [1..Pairs -> SeedRow] /\ seedAgent \in [1..Pairs -> SeedRow]
      /\ Absent \in SeedRow /\ PeoplesRow \in SeedRow
  BY DEF StartShape, StartTypeOK, SeedRow, Statuses, Absent, PeoplesRow, PeoplesText
<1>2. \A f, g : f \in [1..Pairs -> SeedRow] /\ (g = f \/ Gives(f, g)) =>
        /\ g \in [1..Pairs -> SeedRow] /\ (g[p] = f[p] \/ g[p] = Absent \/ g[p] = PeoplesRow)
        /\ \A o \in 1..Pairs : o # p => g[o] = f[o]
  BY <1>1, RowWritten
<1>3. /\ seedSkill' = seedSkill \/ Gives(seedSkill, seedSkill')
      /\ seedAgent' = seedAgent \/ Gives(seedAgent, seedAgent')
      /\ At("up") /\ start' = start /\ version' = version
  BY DEF DeleteSeed, DropSkill, TakeName
<1> HIDE DEF Gives
<1>4. PeopleTouch(p) /\ seedSkill' \in [1..Pairs -> SeedRow] /\ seedAgent' \in [1..Pairs -> SeedRow]
  BY ONLY <1>1, <1>2, <1>3 DEF PeopleTouch, Elsewhere
<1>5. /\ seedSkill'[p] = seedSkill[p] \/ seedSkill'[p] = Absent \/ seedSkill'[p] = PeoplesRow
      /\ seedAgent'[p] = seedAgent[p] \/ seedAgent'[p] = Absent \/ seedAgent'[p] = PeoplesRow
  BY ONLY <1>1, <1>2, <1>3
<1>6. There(PeoplesRow)
  BY DEF There, PeoplesRow
<1>7. RowsWhole
  BY DEF StartShape
<1>8. RowsWhole'
  BY ONLY <1>4, <1>5, <1>6, <1>7, p \in 1..Pairs DEF RowsWhole, PeopleTouch, Elsewhere
<1> QED BY <1>4, <1>8

LEMMA RowsKept ==
  ASSUME StartShape, [StartupNext]_startupVars
  PROVE  StartTypeOK' /\ RowsWhole'
<1>0. StartShape
  OBVIOUS
<1>v. version \in Nat
  <2>1. version \in 1..MaxVersions /\ MaxVersions \in Nat
    BY StartupFacts DEF StartShape, StartTypeOK
  <2> QED BY ONLY <2>1
<1> USE StartupFacts DEF StartShape, StartTypeOK, RowsWhole, PairInHand, SeedRow, Statuses, There, Absent, Steps, Seeding,
       SkillSteps, AgentSteps, At, Proceed, PeoplesText
<1>1. CASE Boot
  BY <1>1 DEF Boot
<1>2. CASE SeedMaster
  <2>1. start' \in [at : Steps, pair : Nat] /\ (Seeding' => start'.pair \in 1..Pairs)
        /\ (start'.at \in {"down", "master"} => start'.pair = 1)
    <3>1. CASE Shipped[version] = 0
      BY <1>2, <3>1 DEF SeedMaster
    <3>2. CASE Shipped[version] # 0
      <4>1. start' = [start EXCEPT !.at = "skill"] /\ start.pair = 1
        BY <1>2, <3>2 DEF SeedMaster
      <4>2. start'.at = "skill" /\ start'.pair = 1
        BY <4>1
      <4>3. 1 \in 1..Pairs
        <5>1. Shipped[version] \in 0..Pairs /\ Pairs \in Nat
          BY <1>0, StartupFacts
        <5> QED BY ONLY <3>2, <5>1
      <4>4. QED
        BY <4>1, <4>2, <4>3
    <3>3. QED
      BY <3>1, <3>2
  <2>2. seedSkill' \in [1..Pairs -> SeedRow] /\ seedAgent' \in [1..Pairs -> SeedRow]
    BY <1>2 DEF SeedMaster
  <2>3. /\ slugTaken' \subseteq 1..Pairs /\ version' \in 1..MaxVersions
        /\ masterText' \in Nat /\ stops' \in Nat /\ failures' \in Nat /\ meddled' \in Nat
    BY <1>2, <1>v DEF SeedMaster
  <2>4. RowsWhole'
    BY <1>2 DEF SeedMaster
  <2>5. QED
    BY <2>1, <2>2, <2>3, <2>4
<1>3. CASE SeedSkill
  <2>1. start' \in [at : Steps, pair : Nat] /\ (Seeding' => start'.pair \in 1..Pairs)
        /\ (start'.at \in {"down", "master"} => start'.pair = 1)
    BY <1>3 DEF SeedSkill, Created, Synced
  <2>2. seedSkill' \in [1..Pairs -> SeedRow] /\ seedAgent' \in [1..Pairs -> SeedRow]
    <3>1. seedSkill \in [1..Pairs -> SeedRow] /\ seedAgent' = seedAgent /\ start.pair \in 1..Pairs
      BY <1>3 DEF SeedSkill
    <3>2. \A r \in SeedRow : Created \in SeedRow /\ Synced(r) \in SeedRow
      BY <1>v DEF Created, Synced
    <3>3. PICK r \in SeedRow : seedSkill' = [seedSkill EXCEPT ![start.pair] = r]
      BY <1>3, <3>1, <3>2 DEF SeedSkill
    <3>4. seedSkill' \in [1..Pairs -> SeedRow]
      BY ONLY <3>1, <3>3, RowWritten
    <3>5. QED
      BY <3>1, <3>4
  <2>3. /\ slugTaken' \subseteq 1..Pairs /\ version' \in 1..MaxVersions
        /\ masterText' \in Nat /\ stops' \in Nat /\ failures' \in Nat /\ meddled' \in Nat
    BY <1>3 DEF SeedSkill, Created, Synced
  <2>4. RowsWhole'
    BY <1>3 DEF SeedSkill, Created, Synced
  <2>5. QED
    BY <2>1, <2>2, <2>3, <2>4
<1>4. CASE SubmitSkill
  <2>1. start' \in [at : Steps, pair : Nat] /\ (Seeding' => start'.pair \in 1..Pairs)
        /\ (start'.at \in {"down", "master"} => start'.pair = 1)
    BY <1>4 DEF SubmitSkill
  <2>2. seedSkill' \in [1..Pairs -> SeedRow] /\ seedAgent' \in [1..Pairs -> SeedRow]
    <3>1. seedSkill \in [1..Pairs -> SeedRow] /\ start.pair \in 1..Pairs
      BY <1>4 DEF SubmitSkill
    <3>2. PICK s \in Statuses : seedSkill' = [seedSkill EXCEPT ![start.pair].status = s]
      BY <1>4 DEF SubmitSkill
    <3>3. StatusIsSet(seedSkill, seedSkill', start.pair, s)
      BY ONLY <3>1, <3>2, StatusSet
    <3>4. QED
      BY <1>4, <3>3 DEF SubmitSkill, StatusIsSet
  <2>3. /\ slugTaken' \subseteq 1..Pairs /\ version' \in 1..MaxVersions
        /\ masterText' \in Nat /\ stops' \in Nat /\ failures' \in Nat /\ meddled' \in Nat
    BY <1>4 DEF SubmitSkill
  <2>4. RowsWhole'
    BY <1>4 DEF SubmitSkill
  <2>5. QED
    BY <2>1, <2>2, <2>3, <2>4
<1>5. CASE ApproveSkill
  <2>1. start' \in [at : Steps, pair : Nat] /\ (Seeding' => start'.pair \in 1..Pairs)
        /\ (start'.at \in {"down", "master"} => start'.pair = 1)
    BY <1>5 DEF ApproveSkill
  <2>2. seedSkill' \in [1..Pairs -> SeedRow] /\ seedAgent' \in [1..Pairs -> SeedRow]
    <3>1. seedSkill \in [1..Pairs -> SeedRow] /\ start.pair \in 1..Pairs
      BY <1>5 DEF ApproveSkill
    <3>2. PICK s \in Statuses : seedSkill' = [seedSkill EXCEPT ![start.pair].status = s]
      BY <1>5 DEF ApproveSkill
    <3>3. StatusIsSet(seedSkill, seedSkill', start.pair, s)
      BY ONLY <3>1, <3>2, StatusSet
    <3>4. QED
      BY <1>5, <3>3 DEF ApproveSkill, StatusIsSet
  <2>3. /\ slugTaken' \subseteq 1..Pairs /\ version' \in 1..MaxVersions
        /\ masterText' \in Nat /\ stops' \in Nat /\ failures' \in Nat /\ meddled' \in Nat
    BY <1>5 DEF ApproveSkill
  <2>4. RowsWhole'
    BY <1>5 DEF ApproveSkill
  <2>5. QED
    BY <2>1, <2>2, <2>3, <2>4
<1>6. CASE SeedAgent
  <2>1. start' \in [at : Steps, pair : Nat] /\ (Seeding' => start'.pair \in 1..Pairs)
        /\ (start'.at \in {"down", "master"} => start'.pair = 1)
    <3>1. CASE seedAgent[start.pair] = Absent
      BY <1>6, <3>1 DEF SeedAgent
    <3>2. CASE seedAgent[start.pair] # Absent
      BY <1>6, <3>2, NextPairMoves DEF SeedAgent, NextUp
    <3>3. QED
      BY <3>1, <3>2
  <2>2. seedSkill' \in [1..Pairs -> SeedRow] /\ seedAgent' \in [1..Pairs -> SeedRow]
    BY <1>6, <1>v DEF SeedAgent, Created, Synced, NextPair
  <2>3. /\ slugTaken' \subseteq 1..Pairs /\ version' \in 1..MaxVersions
        /\ masterText' \in Nat /\ stops' \in Nat /\ failures' \in Nat /\ meddled' \in Nat
    BY <1>6 DEF SeedAgent, Created, Synced, NextPair
  <2>4. RowsWhole'
    BY <1>6 DEF SeedAgent, Created, Synced, NextPair
  <2>5. QED
    BY <2>1, <2>2, <2>3, <2>4
<1>7. CASE AttachSeed
  BY <1>7 DEF AttachSeed
<1>8. CASE SubmitAgent
  BY <1>8 DEF SubmitAgent
<1>9. CASE ApproveAgent
  <2>1. start' \in [at : Steps, pair : Nat] /\ (Seeding' => start'.pair \in 1..Pairs)
        /\ (start'.at \in {"down", "master"} => start'.pair = 1)
    BY <1>9, NextPairMoves DEF ApproveAgent, NextUp
  <2>2. seedSkill' \in [1..Pairs -> SeedRow] /\ seedAgent' \in [1..Pairs -> SeedRow]
    BY <1>9 DEF ApproveAgent, NextPair
  <2>3. /\ slugTaken' \subseteq 1..Pairs /\ version' \in 1..MaxVersions
        /\ masterText' \in Nat /\ stops' \in Nat /\ failures' \in Nat /\ meddled' \in Nat
    BY <1>9 DEF ApproveAgent, NextPair
  <2>4. RowsWhole'
    BY <1>9 DEF ApproveAgent, NextPair
  <2>5. QED
    BY <2>1, <2>2, <2>3, <2>4
<1>10. CASE StartFails
  <2>1. start' \in [at : Steps, pair : Nat] /\ (Seeding' => start'.pair \in 1..Pairs)
        /\ (start'.at \in {"down", "master"} => start'.pair = 1)
    BY <1>10 DEF StartFails
  <2>2. seedSkill' \in [1..Pairs -> SeedRow] /\ seedAgent' \in [1..Pairs -> SeedRow]
    BY <1>10 DEF StartFails
  <2>3. /\ slugTaken' \subseteq 1..Pairs /\ version' \in 1..MaxVersions
        /\ masterText' \in Nat /\ stops' \in Nat /\ failures' \in Nat /\ meddled' \in Nat
    <3>1. failures \in Nat
      OBVIOUS
    <3>2. failures + 1 \in Nat
      BY <3>1, Successor
    <3>3. QED
      BY <1>10, <3>2 DEF StartFails
  <2>4. RowsWhole'
    BY <1>10 DEF StartFails
  <2>5. QED
    BY <2>1, <2>2, <2>3, <2>4
<1>11. CASE SeedAdmin
  BY <1>11 DEF SeedAdmin
<1>12. CASE Stop
  <2>1. start' \in [at : Steps, pair : Nat] /\ (Seeding' => start'.pair \in 1..Pairs)
        /\ (start'.at \in {"down", "master"} => start'.pair = 1)
    BY <1>12 DEF Stop
  <2>2. seedSkill' \in [1..Pairs -> SeedRow] /\ seedAgent' \in [1..Pairs -> SeedRow]
    BY <1>12 DEF Stop
  <2>3. /\ slugTaken' \subseteq 1..Pairs /\ version' \in 1..MaxVersions
        /\ masterText' \in Nat /\ stops' \in Nat /\ failures' \in Nat /\ meddled' \in Nat
    <3>1. stops \in Nat
      OBVIOUS
    <3>2. stops + 1 \in Nat
      BY <3>1, Successor
    <3>3. QED
      BY <1>12, <3>2 DEF Stop
  <2>4. RowsWhole'
    BY <1>12 DEF Stop
  <2>5. QED
    BY <2>1, <2>2, <2>3, <2>4
<1>13. CASE Deploy
  <2>1. start' \in [at : Steps, pair : Nat] /\ (Seeding' => start'.pair \in 1..Pairs)
        /\ (start'.at \in {"down", "master"} => start'.pair = 1)
    BY <1>13 DEF Deploy
  <2>2. seedSkill' \in [1..Pairs -> SeedRow] /\ seedAgent' \in [1..Pairs -> SeedRow]
    BY <1>13 DEF Deploy
  <2>3. /\ slugTaken' \subseteq 1..Pairs /\ version' \in 1..MaxVersions
        /\ masterText' \in Nat /\ stops' \in Nat /\ failures' \in Nat /\ meddled' \in Nat
    BY <1>13 DEF Deploy
  <2>4. RowsWhole'
    BY <1>13 DEF Deploy
  <2>5. QED
    BY <2>1, <2>2, <2>3, <2>4
<1>14. ASSUME NEW p \in 1..Pairs, ReviewSkill(p) PROVE StartTypeOK' /\ RowsWhole'
  <2>1. start' \in [at : Steps, pair : Nat] /\ (Seeding' => start'.pair \in 1..Pairs)
        /\ (start'.at \in {"down", "master"} => start'.pair = 1)
    BY <1>14 DEF ReviewSkill
  <2>2. seedSkill' \in [1..Pairs -> SeedRow] /\ seedAgent' \in [1..Pairs -> SeedRow]
    <3>1. PICK s \in Statuses : seedSkill' = [seedSkill EXCEPT ![p].status = s]
      BY <1>14 DEF ReviewSkill
    <3>2. seedSkill \in [1..Pairs -> SeedRow]
      OBVIOUS
    <3>3. StatusIsSet(seedSkill, seedSkill', p, s)
      BY ONLY <3>1, <3>2, p \in 1..Pairs, StatusSet
    <3>4. QED
      BY <1>14, <3>3 DEF ReviewSkill, StatusIsSet
  <2>3. /\ slugTaken' \subseteq 1..Pairs /\ version' \in 1..MaxVersions
        /\ masterText' \in Nat /\ stops' \in Nat /\ failures' \in Nat /\ meddled' \in Nat
    BY <1>14 DEF ReviewSkill
  <2>4. RowsWhole'
    <3>1. PeopleWrite(p)
      BY ONLY <1>14, <1>0, p \in 1..Pairs, PeopleDo
    <3>2. QED
      BY <3>1 DEF PeopleWrite, Elsewhere
  <2>5. QED
    BY <2>1, <2>2, <2>3, <2>4
<1>15. ASSUME NEW p \in 1..Pairs, ReviewAgent(p) PROVE StartTypeOK' /\ RowsWhole'
  <2>1. start' \in [at : Steps, pair : Nat] /\ (Seeding' => start'.pair \in 1..Pairs)
        /\ (start'.at \in {"down", "master"} => start'.pair = 1)
    BY <1>15 DEF ReviewAgent
  <2>2. seedSkill' \in [1..Pairs -> SeedRow] /\ seedAgent' \in [1..Pairs -> SeedRow]
    <3>1. PICK s \in Statuses : seedAgent' = [seedAgent EXCEPT ![p].status = s]
      BY <1>15 DEF ReviewAgent
    <3>2. seedAgent \in [1..Pairs -> SeedRow]
      OBVIOUS
    <3>3. StatusIsSet(seedAgent, seedAgent', p, s)
      BY ONLY <3>1, <3>2, p \in 1..Pairs, StatusSet
    <3>4. QED
      BY <1>15, <3>3 DEF ReviewAgent, StatusIsSet
  <2>3. /\ slugTaken' \subseteq 1..Pairs /\ version' \in 1..MaxVersions
        /\ masterText' \in Nat /\ stops' \in Nat /\ failures' \in Nat /\ meddled' \in Nat
    BY <1>15 DEF ReviewAgent
  <2>4. RowsWhole'
    <3>1. PeopleWrite(p)
      BY ONLY <1>15, <1>0, p \in 1..Pairs, PeopleDo
    <3>2. QED
      BY <3>1 DEF PeopleWrite, Elsewhere
  <2>5. QED
    BY <2>1, <2>2, <2>3, <2>4
<1>16. ASSUME NEW p \in 1..Pairs, EditSeed(p) PROVE StartTypeOK' /\ RowsWhole'
  <2>1. start' \in [at : Steps, pair : Nat] /\ (Seeding' => start'.pair \in 1..Pairs)
        /\ (start'.at \in {"down", "master"} => start'.pair = 1)
    BY <1>16 DEF EditSeed, Editable, Edited
  <2>2. seedSkill' \in [1..Pairs -> SeedRow] /\ seedAgent' \in [1..Pairs -> SeedRow]
    <3>1. CASE /\ Editable(seedSkill[p])
               /\ seedSkill' = [seedSkill EXCEPT ![p] = Edited(seedSkill[p])]
               /\ UNCHANGED seedAgent
      <4>1. seedSkill \in [1..Pairs -> SeedRow] /\ seedAgent \in [1..Pairs -> SeedRow]
        OBVIOUS
      <4>2. RowIsEdited(seedSkill, seedSkill', p)
        BY ONLY <3>1, <4>1, p \in 1..Pairs, RowEdited
      <4>3. seedSkill' \in [1..Pairs -> SeedRow] /\ seedAgent' = seedAgent
        BY <3>1, <4>2 DEF RowIsEdited
      <4>4. QED
        BY <4>1, <4>3
    <3>2. CASE /\ Editable(seedAgent[p])
               /\ seedAgent' = [seedAgent EXCEPT ![p] = Edited(seedAgent[p])]
               /\ UNCHANGED seedSkill
      <4>1. seedAgent \in [1..Pairs -> SeedRow] /\ seedSkill \in [1..Pairs -> SeedRow]
        OBVIOUS
      <4>2. RowIsEdited(seedAgent, seedAgent', p)
        BY ONLY <3>2, <4>1, p \in 1..Pairs, RowEdited
      <4>3. seedAgent' \in [1..Pairs -> SeedRow] /\ seedSkill' = seedSkill
        BY <3>2, <4>2 DEF RowIsEdited
      <4>4. QED
        BY <4>1, <4>3
    <3>3. QED
      BY <1>16, <3>1, <3>2 DEF EditSeed
  <2>3. /\ slugTaken' \subseteq 1..Pairs /\ version' \in 1..MaxVersions
        /\ masterText' \in Nat /\ stops' \in Nat /\ failures' \in Nat /\ meddled' \in Nat
    BY <1>16 DEF EditSeed, Editable, Edited
  <2>4. RowsWhole'
    <3>1. PeopleWrite(p)
      BY ONLY <1>16, <1>0, p \in 1..Pairs, PeopleDo
    <3>2. QED
      BY <3>1 DEF PeopleWrite, Elsewhere
  <2>5. QED
    BY <2>1, <2>2, <2>3, <2>4
<1>17. ASSUME NEW p \in 1..Pairs, LinkSeed(p) PROVE StartTypeOK' /\ RowsWhole'
  BY <1>17 DEF LinkSeed
<1>18. ASSUME NEW p \in 1..Pairs, DeleteSeed(p) \/ DropSkill(p) \/ TakeName(p)
       PROVE  StartTypeOK' /\ RowsWhole'
  <2>1. /\ PeopleTouch(p) /\ RowsWhole'
        /\ seedSkill' \in [1..Pairs -> SeedRow] /\ seedAgent' \in [1..Pairs -> SeedRow]
    BY ONLY <1>18, <1>0, p \in 1..Pairs, PeopleTouchOne
  <2>2. meddled \in Nat /\ meddled + 1 \in Nat
    BY Successor
  <2>3. /\ slugTaken' \subseteq 1..Pairs /\ version' \in 1..MaxVersions
        /\ masterText' \in Nat /\ stops' \in Nat /\ failures' \in Nat /\ meddled' \in Nat
    BY <1>18, <2>2 DEF DeleteSeed, DropSkill, TakeName
  <2>4. QED
    BY <2>1, <2>3 DEF PeopleTouch
<1>19. ASSUME NEW p \in 1..Pairs, TakeSlug(p) \/ FreeSlug(p) PROVE StartTypeOK' /\ RowsWhole'
  BY <1>19 DEF TakeSlug, FreeSlug
<1>20. CASE SlugCollision
  BY <1>20 DEF SlugCollision
<1>21. CASE UNCHANGED startupVars
  BY <1>21 DEF startupVars
<1>22. QED
  BY <1>1, <1>2, <1>3, <1>4, <1>5, <1>6, <1>7, <1>8, <1>9, <1>10, <1>11, <1>12, <1>13, <1>14, <1>15, <1>16, <1>17,
     <1>18, <1>19, <1>20, <1>21 DEF StartupNext

LEMMA BroughtKept ==
  ASSUME NEW q, NEW p \in 1..Pairs, p # q, Elsewhere(q), OthersKept, Brought(p)
  PROVE  Brought(p)'
BY DEF Elsewhere, OthersKept, Brought, There

\* A step for a pair leaves the pairs before as they are; after its last step
\* the pair is one of them.
LEMMA PairsBefore ==
  ASSUME NEW q, q = start.pair, StartTypeOK, SeedsBrought, Seeding, Elsewhere(q), OthersKept,
         \/ start'.pair = start.pair /\ Seeding'
         \/ NextUp /\ Brought(q)'
  PROVE  SeedsBrought'
<1>1. /\ Pairs \in Nat /\ q \in 1..Pairs /\ ShippedPairs \subseteq 1..Pairs
      /\ ShippedPairs' = ShippedPairs
      /\ masterText' = version' /\ \A p \in 1..q - 1 : Brought(p)
  BY StartupFacts, ShippedAreSome DEF StartTypeOK, SeedsBrought, OthersKept, ShippedPairs
<1>2. ASSUME NEW p \in 1..Pairs, p < q PROVE Brought(p)'
  <2>1. Brought(p) /\ p # q
    BY <1>1, <1>2
  <2> QED BY <2>1, BroughtKept
<1>3. CASE start'.pair = start.pair /\ Seeding'
  <2>1. \A p \in 1..start'.pair - 1 : Brought(p)'
    BY <1>1, <1>2, <1>3
  <2>2. ~At("admin")' /\ ~At("up")'
    BY <1>3 DEF Seeding, SkillSteps, AgentSteps, At
  <2> QED BY <1>1, <2>1, <2>2 DEF SeedsBrought
<1>4. CASE NextUp /\ Brought(q)'
  <2>1. \A p \in 1..Pairs : p <= q => Brought(p)'
    BY <1>1, <1>2, <1>4
  <2>2. ~At("up")'
    BY <1>4 DEF NextUp, At
  <2>3. Seeding' => \A p \in 1..start'.pair - 1 : Brought(p)'
    <3>1. CASE start'.at = "skill" /\ start'.pair = q + 1 /\ start'.pair \in 1..Pairs
      <4>1. \A p \in 1..start'.pair - 1 : p \in 1..Pairs /\ p <= q
        BY <1>1, <3>1
      <4> QED BY <2>1, <4>1
    <3>2. CASE start'.at = "admin"
      BY <3>2 DEF Seeding, SkillSteps, AgentSteps
    <3> QED BY <1>4, <3>1, <3>2 DEF NextUp
  <2>4. At("admin")' => \A p \in ShippedPairs' : Brought(p)'
    <3>1. ASSUME At("admin")', NEW p \in ShippedPairs PROVE p \in 1..Pairs /\ p <= q
      BY <1>1, <1>4, <3>1 DEF NextUp, At
    <3> QED BY <1>1, <2>1, <3>1
  <2> QED BY <1>1, <2>2, <2>3, <2>4 DEF SeedsBrought
<1> QED BY <1>3, <1>4

LEMMA SeedsKept ==
  ASSUME StartShape, [StartupNext]_startupVars, StartTypeOK', RowsWhole'
  PROVE  PairInHand' /\ SeedsBrought'
<1>a. StartTypeOK /\ RowsWhole /\ PairInHand /\ SeedsBrought
  BY DEF StartShape
<1>q. PICK q : q = start.pair
  OBVIOUS
<1>b. /\ Pairs \in Nat /\ start.pair \in Nat /\ (Seeding => start.pair \in 1..Pairs)
      /\ StartTypeOK /\ RowsWhole /\ PairInHand /\ SeedsBrought
  BY <1>a, StartupFacts DEF StartTypeOK
<1> USE DEF StartTypeOK, RowsWhole, PairInHand, SeedsBrought, Brought, There, Public, Absent, Seeding,
       SkillSteps, AgentSteps, At, Proceed
<1>1. CASE Boot
  BY <1>a, <1>1 DEF Boot
<1>2. CASE SeedMaster
  <2>1. /\ masterText' = version' /\ start'.pair = 1 /\ start'.at \in {"admin", "skill"}
        /\ start'.at = "admin" => Shipped[version'] = 0
    BY <1>a, <1>2 DEF SeedMaster, Steps
  <2>2. PairInHand'
    BY ONLY <2>1 DEF PairInHand, SkillSteps, AgentSteps
  <2>3. start'.pair - 1 = 0 /\ \A p \in 1..0 : FALSE
    BY ONLY <2>1
  <2>4. At("admin")' => \A p \in ShippedPairs' : FALSE
    BY ONLY <2>1, <2>3 DEF ShippedPairs, At
  <2>5. SeedsBrought'
    BY ONLY <2>1, <2>3, <2>4 DEF SeedsBrought
  <2>6. QED
    BY <2>2, <2>5
<1>3. CASE SeedSkill
  <2>1. SeedSkillEffect(q)
    BY ONLY <1>3, <1>q, StartShape, SeedSkillDoes
  <2>2. PairInHand'
    BY ONLY <1>b, <1>q, <2>1 DEF SeedSkillEffect, Elsewhere, OthersKept, Goes, NextUp, PairInHand, There, Public, SkillSteps,
       AgentSteps, RowsWhole
  <2>3. /\ Elsewhere(q) /\ OthersKept /\ Seeding
        /\ \/ start'.pair = start.pair /\ Seeding'
           \/ NextUp /\ Brought(q)'
    BY ONLY <1>b, <1>q, <2>1 DEF SeedSkillEffect, Goes, PairInHand, There, SkillSteps, AgentSteps, Seeding,
       OthersKept, Brought
  <2>4. SeedsBrought'
    BY ONLY <1>b, <1>q, <2>3, PairsBefore
  <2>5. QED
    BY <2>2, <2>4
<1>4. CASE SubmitSkill
  <2>1. SubmitSkillEffect(q)
    BY ONLY <1>4, <1>q, StartShape, SubmitSkillDoes
  <2>2. PairInHand'
    BY ONLY <1>b, <1>q, <2>1 DEF SubmitSkillEffect, Elsewhere, OthersKept, Goes, NextUp, PairInHand, There, Public, SkillSteps,
       AgentSteps, RowsWhole
  <2>3. /\ Elsewhere(q) /\ OthersKept /\ Seeding
        /\ \/ start'.pair = start.pair /\ Seeding'
           \/ NextUp /\ Brought(q)'
    BY ONLY <1>b, <1>q, <2>1 DEF SubmitSkillEffect, Goes, PairInHand, There, SkillSteps, AgentSteps, Seeding,
       OthersKept, Brought
  <2>4. SeedsBrought'
    BY ONLY <1>b, <1>q, <2>3, PairsBefore
  <2>5. QED
    BY <2>2, <2>4
<1>5. CASE ApproveSkill
  <2>1. ApproveSkillEffect(q)
    BY ONLY <1>5, <1>q, StartShape, ApproveSkillDoes
  <2>2. PairInHand'
    BY ONLY <1>b, <1>q, <2>1 DEF ApproveSkillEffect, Elsewhere, OthersKept, Goes, NextUp, PairInHand, There, Public, SkillSteps,
       AgentSteps, RowsWhole
  <2>3. /\ Elsewhere(q) /\ OthersKept /\ Seeding
        /\ \/ start'.pair = start.pair /\ Seeding'
           \/ NextUp /\ Brought(q)'
    BY ONLY <1>b, <1>q, <2>1 DEF ApproveSkillEffect, Goes, PairInHand, There, SkillSteps, AgentSteps, Seeding,
       OthersKept, Brought
  <2>4. SeedsBrought'
    BY ONLY <1>b, <1>q, <2>3, PairsBefore
  <2>5. QED
    BY <2>2, <2>4
<1>6. CASE SeedAgent
  <2>1. SeedAgentEffect(q)
    BY ONLY <1>6, <1>q, StartShape, SeedAgentDoes
  <2>2. PairInHand'
    BY ONLY <1>b, <1>q, <2>1 DEF SeedAgentEffect, Elsewhere, OthersKept, Goes, NextUp, PairInHand, There, Public, SkillSteps,
       AgentSteps, RowsWhole
  <2>3. /\ Elsewhere(q) /\ OthersKept /\ Seeding
        /\ \/ start'.pair = start.pair /\ Seeding'
           \/ NextUp /\ Brought(q)'
    BY ONLY <1>b, <1>q, <2>1 DEF SeedAgentEffect, Goes, PairInHand, There, SkillSteps, AgentSteps, Seeding,
       OthersKept, Brought
  <2>4. SeedsBrought'
    BY ONLY <1>b, <1>q, <2>3, PairsBefore
  <2>5. QED
    BY <2>2, <2>4
<1>7. CASE AttachSeed
  BY <1>a, <1>7 DEF AttachSeed
<1>8. CASE SubmitAgent
  <2>1. SubmitAgentEffect(q)
    BY ONLY <1>8, <1>q, StartShape, SubmitAgentDoes
  <2>2. PairInHand'
    BY ONLY <1>b, <1>q, <2>1 DEF SubmitAgentEffect, Elsewhere, OthersKept, Goes, NextUp, PairInHand, There, Public, SkillSteps,
       AgentSteps, RowsWhole
  <2>3. /\ Elsewhere(q) /\ OthersKept /\ Seeding
        /\ \/ start'.pair = start.pair /\ Seeding'
           \/ NextUp /\ Brought(q)'
    BY ONLY <1>b, <1>q, <2>1 DEF SubmitAgentEffect, Goes, PairInHand, There, SkillSteps, AgentSteps, Seeding,
       OthersKept, Brought
  <2>4. SeedsBrought'
    BY ONLY <1>b, <1>q, <2>3, PairsBefore
  <2>5. QED
    BY <2>2, <2>4
<1>9. CASE ApproveAgent
  <2>1. ApproveAgentEffect(q)
    BY ONLY <1>9, <1>q, StartShape, ApproveAgentDoes
  <2>2. PairInHand'
    BY ONLY <1>b, <1>q, <2>1 DEF ApproveAgentEffect, Elsewhere, OthersKept, Goes, NextUp, PairInHand, There, Public, SkillSteps,
       AgentSteps, RowsWhole
  <2>3. /\ Elsewhere(q) /\ OthersKept /\ Seeding
        /\ \/ start'.pair = start.pair /\ Seeding'
           \/ NextUp /\ Brought(q)'
    BY ONLY <1>b, <1>q, <2>1 DEF ApproveAgentEffect, Goes, PairInHand, There, SkillSteps, AgentSteps, Seeding,
       OthersKept, Brought
  <2>4. SeedsBrought'
    BY ONLY <1>b, <1>q, <2>3, PairsBefore
  <2>5. QED
    BY <2>2, <2>4
<1>10. CASE StartFails
  BY <1>a, <1>10 DEF StartFails
<1>11. CASE SeedAdmin
  BY <1>a, <1>11 DEF SeedAdmin
<1>12. CASE Stop
  BY <1>a, <1>12 DEF Stop
<1>13. CASE Deploy
  BY <1>a, <1>13 DEF Deploy
<1>14. ASSUME NEW p \in 1..Pairs, ReviewSkill(p) PROVE PairInHand' /\ SeedsBrought'
  <2>1. PeopleWrite(p)
    BY ONLY <1>14, StartShape, p \in 1..Pairs, PeopleDo
  <2>2. start'.at = "up" /\ start.at = "up"
    BY <2>1 DEF PeopleWrite, At
  <2>3. PairInHand' /\ SeedsBrought'
    BY ONLY <1>b, <2>2 DEF PairInHand, SkillSteps, AgentSteps, SeedsBrought, Seeding, At
  <2>4. QED
    BY <2>3
<1>15. ASSUME NEW p \in 1..Pairs, ReviewAgent(p) PROVE PairInHand' /\ SeedsBrought'
  <2>1. PeopleWrite(p)
    BY ONLY <1>15, StartShape, p \in 1..Pairs, PeopleDo
  <2>2. start'.at = "up" /\ start.at = "up"
    BY <2>1 DEF PeopleWrite, At
  <2>3. PairInHand' /\ SeedsBrought'
    BY ONLY <1>b, <2>2 DEF PairInHand, SkillSteps, AgentSteps, SeedsBrought, Seeding, At
  <2>4. QED
    BY <2>3
<1>16. ASSUME NEW p \in 1..Pairs, EditSeed(p) PROVE PairInHand' /\ SeedsBrought'
  <2>1. PeopleWrite(p)
    BY ONLY <1>16, StartShape, p \in 1..Pairs, PeopleDo
  <2>2. start'.at = "up" /\ start.at = "up"
    BY <2>1 DEF PeopleWrite, At
  <2>3. PairInHand' /\ SeedsBrought'
    BY ONLY <1>b, <2>2 DEF PairInHand, SkillSteps, AgentSteps, SeedsBrought, Seeding, At
  <2>4. QED
    BY <2>3
<1>17. ASSUME NEW p \in 1..Pairs, LinkSeed(p) PROVE PairInHand' /\ SeedsBrought'
  BY <1>a, <1>17 DEF LinkSeed
<1>18. ASSUME NEW p \in 1..Pairs, DeleteSeed(p) \/ DropSkill(p) \/ TakeName(p) \/ TakeSlug(p) \/ FreeSlug(p)
       PROVE  PairInHand' /\ SeedsBrought'
  <2>1. start'.at = "up"
    BY <1>18 DEF DeleteSeed, DropSkill, TakeName, TakeSlug, FreeSlug
  <2>2. QED
    BY ONLY <2>1 DEF PairInHand, SkillSteps, AgentSteps, SeedsBrought, Seeding, At
<1>19. CASE SlugCollision
  BY <1>a, <1>19 DEF SlugCollision
<1>20. CASE UNCHANGED startupVars
  BY <1>a, <1>20 DEF startupVars, ShippedPairs
<1>21. QED
  BY <1>a, <1>1, <1>2, <1>3, <1>4, <1>5, <1>6, <1>7, <1>8, <1>9, <1>10, <1>11, <1>12, <1>13, <1>14, <1>15, <1>16, <1>17,
     <1>18, <1>19, <1>20 DEF StartupNext

LEMMA DamageOnlyByStops ==
  ASSUME StartShape, [StartupNext]_startupVars, ~Stop,
         ~(\E p \in 1..Pairs : DeleteSeed(p) \/ TakeName(p))
  PROVE  Damaged' \subseteq Damaged
<1>a. /\ \A o \in 1..Pairs : There(seedAgent[o]) <=> seedAgent[o] # Absent
      /\ start.at \in {"agent"} \cup SkillSteps \cup AgentSteps => There(seedSkill[start.pair])
      /\ start.at \in AgentSteps => There(seedAgent[start.pair])
  BY DEF StartShape, RowsWhole, PairInHand, There, Absent
<1>t. /\ start \in [at : Steps, pair : Nat]
      /\ seedSkill \in [1..Pairs -> SeedRow] /\ seedAgent \in [1..Pairs -> SeedRow]
  BY DEF StartShape, StartTypeOK
<1>s. start.at \in SkillSteps => ~Public(seedSkill[start.pair])
  BY DEF StartShape, PairInHand
<1> USE DEF Damaged, InService, OnTheWay, Amiss, SkillSteps, AgentSteps, At, Proceed, There, Public
<1>1. CASE Boot
  BY <1>a, <1>1 DEF Boot
<1>2. CASE SeedMaster
  BY <1>a, <1>2 DEF SeedMaster
<1>3. CASE SeedSkill
  <2>1. SeedSkillEffect(start.pair)
    BY ONLY <1>3, StartShape, SeedSkillDoes
  <2>2. QED
    BY <1>a, <2>1 DEF SeedSkillEffect, Elsewhere, OthersKept, Goes, NextUp
<1>4. CASE SubmitSkill
  <2>1. SubmitSkillEffect(start.pair)
    BY ONLY <1>4, StartShape, SubmitSkillDoes
  <2>2. ASSUME NEW o \in Damaged' PROVE o \in Damaged
    <3>1. CASE o # start.pair
      BY ONLY <2>1, <2>2, <3>1 DEF SubmitSkillEffect, Elsewhere, OthersKept, Goes, Damaged, Amiss, InService,
         OnTheWay, ShippedPairs, SkillSteps, AgentSteps, At, There, Public
    <3>2. CASE o = start.pair
      <4>1. There(seedAgent[o]) /\ seedAgent[o] # Absent /\ seedSkill[o].status # "public"
        BY ONLY <1>a, <1>s, <2>1, <2>2, <3>2 DEF SubmitSkillEffect, OthersKept, Goes, Damaged, Amiss, InService,
           OnTheWay, ShippedPairs, SkillSteps, AgentSteps, At, There, Public
      <4> QED BY ONLY <2>1, <2>2, <3>2, <4>1 DEF SubmitSkillEffect, Goes, Damaged, Amiss, InService,
                 OnTheWay, SkillSteps, AgentSteps, At, There
    <3> QED BY <3>1, <3>2
  <2>3. QED
    BY <2>2
<1>5. CASE ApproveSkill
  <2>1. ApproveSkillEffect(start.pair)
    BY ONLY <1>5, StartShape, ApproveSkillDoes
  <2>2. ASSUME NEW o \in Damaged' PROVE o \in Damaged
    <3>1. CASE o # start.pair
      BY ONLY <2>1, <2>2, <3>1 DEF ApproveSkillEffect, Elsewhere, OthersKept, Goes, Damaged, Amiss, InService,
         OnTheWay, ShippedPairs, SkillSteps, AgentSteps, At, There, Public
    <3>2. CASE o = start.pair
      <4>1. There(seedAgent[o]) /\ seedAgent[o].status # "public" /\ seedAgent[o] # Absent
        BY ONLY <1>a, <2>1, <2>2, <3>2 DEF ApproveSkillEffect, OthersKept, Goes, Damaged, Amiss, InService,
           OnTheWay, ShippedPairs, SkillSteps, AgentSteps, At, There, Public
      <4> QED BY ONLY <2>1, <2>2, <3>2, <4>1 DEF ApproveSkillEffect, Goes, Damaged, Amiss, InService,
                 OnTheWay, SkillSteps, AgentSteps, At, There
    <3> QED BY <3>1, <3>2
  <2>3. QED
    BY <2>2
<1>6. CASE SeedAgent
  <2>1. SeedAgentEffect(start.pair)
    BY ONLY <1>6, StartShape, SeedAgentDoes
  <2>2. QED
    BY <1>a, <2>1 DEF SeedAgentEffect, Elsewhere, OthersKept, Goes, NextUp
<1>7. CASE AttachSeed
  <2>1. start'.at = "submit agent" /\ start'.pair = start.pair /\ start.at = "attach"
    BY <1>7, <1>t DEF AttachSeed
  <2>2. UNCHANGED <<seedSkill, seedAgent, version>>
    BY <1>7 DEF AttachSeed
  <2>3. QED
    BY <1>a, <2>1, <2>2
<1>8. CASE SubmitAgent
  <2>1. SubmitAgentEffect(start.pair)
    BY ONLY <1>8, StartShape, SubmitAgentDoes
  <2>2. QED
    BY <1>a, <2>1 DEF SubmitAgentEffect, Elsewhere, OthersKept, Goes, NextUp
<1>9. CASE ApproveAgent
  <2>1. ApproveAgentEffect(start.pair)
    BY ONLY <1>9, StartShape, ApproveAgentDoes
  <2>2. QED
    BY <1>a, <2>1 DEF ApproveAgentEffect, Elsewhere, OthersKept, Goes, NextUp
<1>10. CASE StartFails
  BY <1>a, <1>10 DEF StartFails
<1>11. CASE SeedAdmin
  <2>1. /\ start.at = "admin" /\ start'.at = "up" /\ start'.pair = start.pair
        /\ UNCHANGED <<seedSkill, seedAgent, version>>
    BY <1>t, <1>11 DEF SeedAdmin, Steps
  <2>2. \A o \in ShippedPairs : There(seedAgent[o])
    BY <2>1 DEF StartShape, SeedsBrought, Brought
  <2>3. QED
    BY ONLY <2>1, <2>2
       DEF Damaged, Amiss, InService, OnTheWay, ShippedPairs, SkillSteps, AgentSteps, At, There, Public
<1>12. CASE Deploy
  BY <1>a, <1>12 DEF Deploy
<1>13. ASSUME NEW p \in 1..Pairs, ReviewSkill(p) PROVE Damaged' \subseteq Damaged
  <2>1. PeopleWrite(p)
    BY ONLY <1>13, StartShape, p \in 1..Pairs, PeopleDo
  <2>2. QED
    BY ONLY <2>1 DEF PeopleWrite, Elsewhere, OthersKept, Damaged, Amiss, InService, OnTheWay,
       ShippedPairs, SkillSteps, AgentSteps, At, There, Public
<1>14. ASSUME NEW p \in 1..Pairs, ReviewAgent(p) PROVE Damaged' \subseteq Damaged
  <2>1. PeopleWrite(p)
    BY ONLY <1>14, StartShape, p \in 1..Pairs, PeopleDo
  <2>2. QED
    BY ONLY <2>1 DEF PeopleWrite, Elsewhere, OthersKept, Damaged, Amiss, InService, OnTheWay,
       ShippedPairs, SkillSteps, AgentSteps, At, There, Public
<1>15. ASSUME NEW p \in 1..Pairs, EditSeed(p) PROVE Damaged' \subseteq Damaged
  <2>1. PeopleWrite(p)
    BY ONLY <1>15, StartShape, p \in 1..Pairs, PeopleDo
  <2>2. QED
    BY ONLY <2>1 DEF PeopleWrite, Elsewhere, OthersKept, Damaged, Amiss, InService, OnTheWay,
       ShippedPairs, SkillSteps, AgentSteps, At, There, Public
<1>16. ASSUME NEW p \in 1..Pairs, LinkSeed(p) PROVE Damaged' \subseteq Damaged
  BY <1>16 DEF LinkSeed, ShippedPairs
<1>17. ASSUME NEW p \in 1..Pairs, DropSkill(p) PROVE Damaged' \subseteq Damaged
  <2>1. PeopleTouch(p)
    BY ONLY <1>17, StartShape, p \in 1..Pairs, PeopleTouchOne
  <2>2. There(seedSkill[p]) /\ ~Public(seedSkill[p])
    BY <1>17 DEF DropSkill
  <2>3. QED
    BY ONLY <2>1, <2>2 DEF PeopleTouch, Elsewhere, Damaged, Amiss, InService, OnTheWay,
       ShippedPairs, SkillSteps, AgentSteps, At, There, Public
<1>18. ASSUME NEW p \in 1..Pairs, TakeSlug(p) \/ FreeSlug(p) PROVE Damaged' \subseteq Damaged
  BY <1>18 DEF TakeSlug, FreeSlug, ShippedPairs
<1>19. CASE SlugCollision
  BY <1>a, <1>19 DEF SlugCollision
<1>20. CASE UNCHANGED startupVars
  BY <1>a, <1>20 DEF startupVars, ShippedPairs
<1>21. QED
  BY <1>1, <1>2, <1>3, <1>4, <1>5, <1>6, <1>7, <1>8, <1>9, <1>10, <1>11, <1>12, <1>13, <1>14, <1>15, <1>16, <1>17,
     <1>18, <1>19, <1>20 DEF StartupNext

LEMMA PeopleFreeNone ==
  ASSUME NEW p \in 1..Pairs, PeopleWrite(p) PROVE Stuck' \subseteq Stuck
<1>1. ASSUME NEW o \in Stuck', o # p PROVE o \in Stuck
  BY ONLY <1>1, PeopleWrite(p)
     DEF PeopleWrite, Elsewhere, Stuck, There, At, SkillSteps, AgentSteps
<1>2. ASSUME p \in Stuck' PROVE p \in Stuck
  <2>1. /\ There(seedSkill'[p]) /\ ~Public(seedSkill'[p]) /\ start' = start
        /\ ~There(seedAgent'[p])
    <3>1. start' = start /\ start.at = "up"
      BY ONLY PeopleWrite(p) DEF PeopleWrite, At
    <3>2. There(seedSkill'[p]) /\ ~Public(seedSkill'[p]) /\ seedAgent'[p] = Absent
      BY ONLY <1>2, <3>1 DEF Stuck, There, Public, SkillSteps, AgentSteps
    <3> QED BY ONLY <3>1, <3>2 DEF Absent, There
  <2>2. /\ seedAgent'[p] = seedAgent[p] /\ There(seedSkill[p]) /\ ~Public(seedSkill[p])
    BY ONLY <2>1, PeopleWrite(p) DEF PeopleWrite, Elsewhere
  <2> QED BY ONLY <1>2, <2>1, <2>2, PeopleWrite(p)
             DEF PeopleWrite, Stuck, There, Public, At, SkillSteps, AgentSteps
<1> QED BY <1>1, <1>2

LEMMA StuckOnlyByStops ==
  ASSUME StartShape, [StartupNext]_startupVars, ~Stop,
         ~(\E p \in 1..Pairs : DeleteSeed(p) \/ TakeName(p))
  PROVE  Stuck' \subseteq Stuck
<1>q. PICK q : q = start.pair
  OBVIOUS
<1>a. /\ \A o \in 1..Pairs : There(seedAgent[o]) <=> seedAgent[o] # Absent
      /\ start.at \in {"agent"} \cup SkillSteps \cup AgentSteps => There(seedSkill[start.pair])
      /\ start.at \in AgentSteps => There(seedAgent[start.pair])
  BY DEF StartShape, RowsWhole, PairInHand, There, Absent
<1>t. /\ start \in [at : Steps, pair : Nat]
      /\ seedSkill \in [1..Pairs -> SeedRow] /\ seedAgent \in [1..Pairs -> SeedRow]
  BY DEF StartShape, StartTypeOK
<1> USE DEF Stuck, SkillSteps, AgentSteps, At, Proceed, There, Public
<1>1. CASE Boot
  BY <1>a, <1>1 DEF Boot
<1>2. CASE SeedMaster
  BY <1>a, <1>2 DEF SeedMaster
<1>3. CASE SeedSkill
  <2>1. SeedSkillEffect(start.pair)
    BY ONLY <1>3, StartShape, SeedSkillDoes
  <2>2. QED
    BY <1>a, <2>1 DEF SeedSkillEffect, Elsewhere, OthersKept, Goes, NextUp
<1>4. CASE SubmitSkill
  <2>1. SubmitSkillEffect(start.pair)
    BY ONLY <1>4, StartShape, SubmitSkillDoes
  <2>2. QED
    BY <1>a, <2>1 DEF SubmitSkillEffect, Elsewhere, OthersKept, Goes, NextUp
<1>5. CASE ApproveSkill
  <2>1. ApproveSkillEffect(start.pair)
    BY ONLY <1>5, StartShape, ApproveSkillDoes
  <2>2. QED
    BY <1>a, <2>1 DEF ApproveSkillEffect, Elsewhere, OthersKept, Goes, NextUp
<1>6. CASE SeedAgent
  <2>1. SeedAgentEffect(q)
    BY ONLY <1>6, <1>q, StartShape, SeedAgentDoes
  <2>2. ASSUME NEW o \in Stuck' PROVE o \in Stuck
    <3>1. CASE o # q
      BY ONLY <1>q, <2>1, <2>2, <3>1
         DEF Stuck, There, SeedAgentEffect, Elsewhere, Goes, NextUp, SkillSteps, AgentSteps
    <3>2. CASE o = q /\ There(seedAgent[q])
      <4>1. seedAgent'[o].status = seedAgent[o].status /\ start'.at \in {"skill", "admin"}
        BY ONLY <2>1, <3>2 DEF SeedAgentEffect, NextUp
      <4>2. seedAgent'[o] = Absent
        BY ONLY <2>2, <4>1 DEF Stuck, AgentSteps
      <4>3. Absent.status = "none" /\ seedAgent[o].status # "none"
        BY ONLY <3>2 DEF Absent, There
      <4> QED BY ONLY <4>1, <4>2, <4>3
    <3>3. CASE o = q /\ ~There(seedAgent[q])
      BY ONLY <1>q, <1>a, <2>1, <2>2, <3>3
         DEF Stuck, There, SeedAgentEffect, SkillSteps, AgentSteps
    <3> QED BY <3>1, <3>2, <3>3
  <2>3. QED
    BY <2>2
<1>7. CASE AttachSeed
  <2>1. start'.at = "submit agent" /\ start'.pair = start.pair /\ start.at = "attach"
    BY <1>7, <1>t DEF AttachSeed
  <2>2. UNCHANGED <<seedSkill, seedAgent>>
    BY <1>7 DEF AttachSeed
  <2>3. QED
    BY <1>a, <2>1, <2>2
<1>8. CASE SubmitAgent
  <2>1. SubmitAgentEffect(start.pair)
    BY ONLY <1>8, StartShape, SubmitAgentDoes
  <2>2. QED
    BY <1>a, <2>1 DEF SubmitAgentEffect, Elsewhere, OthersKept, Goes, NextUp
<1>9. CASE ApproveAgent
  <2>1. ApproveAgentEffect(start.pair)
    BY ONLY <1>9, StartShape, ApproveAgentDoes
  <2>2. QED
    BY <1>a, <2>1 DEF ApproveAgentEffect, Elsewhere, OthersKept, Goes, NextUp
<1>10. CASE StartFails
  BY <1>a, <1>10 DEF StartFails
<1>11. CASE SeedAdmin
  BY <1>a, <1>11 DEF SeedAdmin
<1>12. CASE Deploy
  BY <1>a, <1>12 DEF Deploy
<1>13. ASSUME NEW p \in 1..Pairs, ReviewSkill(p) PROVE Stuck' \subseteq Stuck
  <2>1. PeopleWrite(p)
    BY ONLY <1>13, StartShape, p \in 1..Pairs, PeopleDo
  <2>2. QED
    BY <2>1, PeopleFreeNone
<1>14. ASSUME NEW p \in 1..Pairs, ReviewAgent(p) PROVE Stuck' \subseteq Stuck
  <2>1. PeopleWrite(p)
    BY ONLY <1>14, StartShape, p \in 1..Pairs, PeopleDo
  <2>2. QED
    BY <2>1, PeopleFreeNone
<1>15. ASSUME NEW p \in 1..Pairs, EditSeed(p) PROVE Stuck' \subseteq Stuck
  <2>1. PeopleWrite(p)
    BY ONLY <1>15, StartShape, p \in 1..Pairs, PeopleDo
  <2>2. QED
    BY <2>1, PeopleFreeNone
<1>16. ASSUME NEW p \in 1..Pairs, LinkSeed(p) PROVE Stuck' \subseteq Stuck
  BY <1>a, <1>16 DEF LinkSeed
<1>17. ASSUME NEW p \in 1..Pairs, DropSkill(p) PROVE Stuck' \subseteq Stuck
  <2>1. PeopleTouch(p)
    BY ONLY <1>17, StartShape, p \in 1..Pairs, PeopleTouchOne
  <2>2. ~There(seedSkill'[p])
    BY <1>17, <1>t DEF DropSkill, Absent
  <2>3. QED
    BY ONLY <2>1, <2>2 DEF PeopleTouch, Elsewhere, Stuck, SkillSteps, AgentSteps, At, There, Public
<1>18. ASSUME NEW p \in 1..Pairs, TakeSlug(p) \/ FreeSlug(p) PROVE Stuck' \subseteq Stuck
  BY <1>18 DEF TakeSlug, FreeSlug
<1>19. CASE SlugCollision
  BY <1>a, <1>19 DEF SlugCollision
<1>20. CASE UNCHANGED startupVars
  BY <1>a, <1>20 DEF startupVars
<1>21. QED
  BY <1>1, <1>2, <1>3, <1>4, <1>5, <1>6, <1>7, <1>8, <1>9, <1>10, <1>11, <1>12, <1>13, <1>14, <1>15, <1>16, <1>17,
     <1>18, <1>19, <1>20 DEF StartupNext

\* A stop leaves the pair at hand out of service, in the middle of a start, and
\* none once the server is up.
LEMMA StopHurtsOne ==
  ASSUME StartShape, Stop
  PROVE  /\ Damaged' \subseteq Damaged \cup {start.pair}
         /\ Stuck' \subseteq Stuck \cup {start.pair}
         /\ At("up") => Damaged' \subseteq Damaged /\ Stuck' \subseteq Stuck
<1>q. PICK q : q = start.pair
  OBVIOUS
<1>1. start'.at = "down" /\ UNCHANGED <<seedSkill, seedAgent>>
  BY DEF Stop
<1>2. ASSUME NEW o \in Damaged'
      PROVE  o \in Damaged \/ (o = start.pair /\ ~At("up"))
  BY ONLY <1>1, <1>2 DEF Damaged, Amiss, InService, OnTheWay, SkillSteps, AgentSteps, At, There, Public
<1>3. ASSUME NEW o \in Stuck'
      PROVE  o \in Stuck \/ (o = start.pair /\ ~At("up"))
  BY ONLY <1>1, <1>3 DEF Stuck, There, Public, SkillSteps, AgentSteps, At
<1> QED BY <1>2, <1>3

\* A start that fails has met a stuck pair and leaves it with its agent.
LEMMA FailureFrees ==
  ASSUME StartShape, StartFails
  PROVE  start.pair \in Stuck /\ Stuck' \subseteq Stuck \ {start.pair}
<1>q. PICK q : q = start.pair
  OBVIOUS
<1>1. /\ start.at = "approve agent" /\ start'.at = "down" /\ q \in 1..Pairs
      /\ ~Public(seedSkill[q]) /\ UNCHANGED <<seedSkill, seedAgent>>
  BY <1>q DEF StartFails, StartShape, StartTypeOK, Seeding, AgentSteps, At, Public
<1>2. There(seedSkill[q]) /\ seedAgent[q] # Absent
  <2>1. There(seedSkill[q]) /\ There(seedAgent[q])
    BY <1>q, <1>1 DEF StartShape, PairInHand, AgentSteps
  <2>2. ~There(Absent)
    BY DEF There, Absent
  <2> QED BY <2>1, <2>2
<1>3. q \in Stuck
  BY ONLY <1>q, <1>1, <1>2 DEF Stuck, There, Public, SkillSteps, AgentSteps
<1>4. ASSUME NEW o \in Stuck' PROVE o \in Stuck /\ o # q
  BY ONLY <1>q, <1>1, <1>2, <1>4 DEF Stuck, There, SkillSteps, AgentSteps
<1> QED BY <1>q, <1>3, <1>4

\* A deletion or a taken name may leave its pair out of service, or to fail a start.
LEMMA PersonHurtsOne ==
  ASSUME StartShape, NEW p \in 1..Pairs, DeleteSeed(p) \/ TakeName(p)
  PROVE  Damaged' \subseteq Damaged \cup {p} /\ Stuck' \subseteq Stuck \cup {p}
<1>1. PeopleTouch(p)
  BY PeopleTouchOne
<1>2. ASSUME NEW o \in Damaged', o # p PROVE o \in Damaged
  BY ONLY <1>1, <1>2 DEF PeopleTouch, Elsewhere, Damaged, Amiss, InService, OnTheWay,
     ShippedPairs, SkillSteps, AgentSteps, At, There, Public
<1>3. ASSUME NEW o \in Stuck', o # p PROVE o \in Stuck
  BY ONLY <1>1, <1>3 DEF PeopleTouch, Elsewhere, Stuck, SkillSteps, AgentSteps, At, There, Public
<1> QED BY <1>2, <1>3

-----------------------------------------------------------------------------
(* Counting.                                                               *)

LEMMA NoMore ==
  ASSUME NEW T, IsFiniteSet(T), NEW S \in SUBSET T
  PROVE  /\ Cardinality(S) \in Nat /\ Cardinality(T) \in Nat
         /\ Cardinality(S) <= Cardinality(T)
BY FS_Subset, FS_CardinalityType

LEMMA OneMore ==
  ASSUME NEW T, IsFiniteSet(T), NEW x, NEW S \in SUBSET (T \cup {x})
  PROVE  /\ Cardinality(S) \in Nat /\ Cardinality(T) \in Nat
         /\ Cardinality(S) <= Cardinality(T) + 1
<1>1. IsFiniteSet(T \cup {x}) /\ Cardinality(T) \in Nat
  BY FS_AddElement, FS_CardinalityType
<1>2. Cardinality(T \cup {x}) <= Cardinality(T) + 1
  BY <1>1, FS_AddElement
<1>3. /\ Cardinality(S) \in Nat /\ Cardinality(T \cup {x}) \in Nat
      /\ Cardinality(S) <= Cardinality(T \cup {x})
  BY <1>1, NoMore
<1> QED BY <1>1, <1>2, <1>3

LEMMA OneLess ==
  ASSUME NEW T, IsFiniteSet(T), NEW x \in T, NEW S \in SUBSET (T \ {x})
  PROVE  /\ Cardinality(S) \in Nat /\ Cardinality(T) \in Nat
         /\ Cardinality(S) + 1 <= Cardinality(T)
<1>1. /\ IsFiniteSet(T \ {x}) /\ Cardinality(T) \in Nat
      /\ Cardinality(T \ {x}) = Cardinality(T) - 1
  BY FS_RemoveElement, FS_CardinalityType
<1>2. /\ Cardinality(S) \in Nat /\ Cardinality(T \ {x}) \in Nat
      /\ Cardinality(S) <= Cardinality(T \ {x})
  BY <1>1, NoMore
<1> QED BY <1>1, <1>2

LEMMA PairsFinite ==
  ASSUME NEW S \in SUBSET (1..Pairs)
  PROVE  IsFiniteSet(S) /\ Cardinality(S) \in Nat
<1>1. 1 \in Int /\ Pairs \in Int
  BY StartupFacts
<1>2. IsFiniteSet(1..Pairs)
  BY <1>1, FS_Interval
<1> QED BY <1>2, FS_Subset, FS_CardinalityType

LEMMA CountsKept ==
  ASSUME StartInv, [StartupNext]_startupVars
  PROVE  DamageCounted' /\ FailuresCounted'
<1>a. /\ StartShape /\ Cardinality(Damaged) <= stops + meddled
      /\ failures + Cardinality(Stuck) <= stops + meddled
  BY DEF StartInv, DamageCounted, FailuresCounted
<1>b. stops \in Nat /\ failures \in Nat /\ meddled \in Nat
  BY <1>a DEF StartShape, StartTypeOK
<1>c. /\ IsFiniteSet(Damaged) /\ Cardinality(Damaged) \in Nat
      /\ IsFiniteSet(Stuck) /\ Cardinality(Stuck) \in Nat
  <2>1. Damaged \in SUBSET (1..Pairs) /\ Stuck \in SUBSET (1..Pairs)
    BY DEF Damaged, Stuck
  <2> QED BY <2>1, PairsFinite
<1>1. CASE Stop /\ At("up")
  <2>1. /\ Damaged' \in SUBSET Damaged /\ Stuck' \in SUBSET Stuck
        /\ UNCHANGED <<stops, failures, meddled>>
    BY <1>1, <1>a, StopHurtsOne DEF Stop
  <2>2. /\ Cardinality(Damaged') \in Nat /\ Cardinality(Damaged') <= Cardinality(Damaged)
        /\ Cardinality(Stuck') \in Nat /\ Cardinality(Stuck') <= Cardinality(Stuck)
    BY ONLY <1>c, <2>1, NoMore
  <2> QED BY ONLY <1>a, <1>b, <1>c, <2>1, <2>2 DEF DamageCounted, FailuresCounted
<1>2. CASE Stop /\ ~At("up")
  <2>1. /\ Damaged' \in SUBSET (Damaged \cup {start.pair})
        /\ Stuck' \in SUBSET (Stuck \cup {start.pair})
        /\ stops' = stops + 1 /\ UNCHANGED <<failures, meddled>>
    BY <1>2, <1>a, StopHurtsOne DEF Stop
  <2>2. /\ Cardinality(Damaged') \in Nat /\ Cardinality(Damaged') <= Cardinality(Damaged) + 1
        /\ Cardinality(Stuck') \in Nat /\ Cardinality(Stuck') <= Cardinality(Stuck) + 1
    BY ONLY <1>c, <2>1, OneMore
  <2> QED BY ONLY <1>a, <1>b, <1>c, <2>1, <2>2 DEF DamageCounted, FailuresCounted
<1>3. ASSUME NEW p \in 1..Pairs, DeleteSeed(p) \/ TakeName(p)
      PROVE  DamageCounted' /\ FailuresCounted'
  <2>1. meddled' = meddled + 1 /\ UNCHANGED <<stops, failures>>
    BY <1>3 DEF DeleteSeed, TakeName
  <2>2. Damaged' \in SUBSET (Damaged \cup {p}) /\ Stuck' \in SUBSET (Stuck \cup {p})
    BY <1>a, <1>3, PersonHurtsOne
  <2>3. /\ Cardinality(Damaged') \in Nat /\ Cardinality(Damaged') <= Cardinality(Damaged) + 1
        /\ Cardinality(Stuck') \in Nat /\ Cardinality(Stuck') <= Cardinality(Stuck) + 1
    BY ONLY <1>c, <2>2, OneMore
  <2> QED BY ONLY <1>a, <1>b, <1>c, <2>1, <2>3 DEF DamageCounted, FailuresCounted
<1>4. ASSUME ~Stop, ~(\E p \in 1..Pairs : DeleteSeed(p) \/ TakeName(p))
      PROVE  /\ UNCHANGED <<stops, meddled>> /\ Cardinality(Damaged') \in Nat
             /\ Cardinality(Damaged') <= Cardinality(Damaged)
  <2>1. Damaged' \in SUBSET Damaged
    BY <1>a, <1>4, DamageOnlyByStops
  <2>2. UNCHANGED <<stops, meddled>>
    BY <1>4 DEF StartupNext, startupVars, Boot, SeedMaster, SeedSkill, SubmitSkill, ApproveSkill,
       SeedAgent, SlugCollision, AttachSeed, SubmitAgent, ApproveAgent, StartFails, SeedAdmin, Deploy,
       ReviewSkill, ReviewAgent, EditSeed, LinkSeed, DropSkill, TakeSlug, FreeSlug
  <2> QED BY <1>c, <2>1, <2>2, NoMore
<1>5. CASE StartFails
  <2>1. failures' = failures + 1 /\ UNCHANGED <<stops, meddled>> /\ start.at = "approve agent"
    BY <1>5 DEF StartFails, At
  <2>2. ~Stop /\ ~(\E p \in 1..Pairs : DeleteSeed(p) \/ TakeName(p))
    <3>1. failures + 1 # failures
      BY ONLY <1>b
    <3>2. ~Stop
      BY ONLY <2>1, <3>1 DEF Stop
    <3>3. ~(\E p \in 1..Pairs : DeleteSeed(p) \/ TakeName(p))
      BY ONLY <2>1 DEF DeleteSeed, TakeName, At
    <3> QED BY <3>2, <3>3
  <2>3. start.pair \in Stuck /\ Stuck' \in SUBSET (Stuck \ {start.pair})
    BY <1>a, <1>5, FailureFrees
  <2>4. Cardinality(Stuck') \in Nat /\ Cardinality(Stuck') + 1 <= Cardinality(Stuck)
    BY ONLY <1>c, <2>3, OneLess
  <2>5. Cardinality(Damaged') \in Nat /\ Cardinality(Damaged') <= Cardinality(Damaged)
    BY <1>4, <2>2
  <2>6. stops' = stops /\ meddled' = meddled /\ failures' = failures + 1
    BY ONLY <2>1
  <2>7. DamageCounted'
    BY ONLY <1>a, <1>b, <1>c, <2>5, <2>6 DEF DamageCounted
  <2>8. FailuresCounted'
    BY ONLY <1>a, <1>b, <1>c, <2>4, <2>6 DEF FailuresCounted
  <2> QED BY <2>7, <2>8
<1>6. CASE ~Stop /\ ~StartFails /\ ~(\E p \in 1..Pairs : DeleteSeed(p) \/ TakeName(p))
  <2>1. Stuck' \in SUBSET Stuck
    BY <1>a, <1>6, StuckOnlyByStops
  <2>2. Cardinality(Stuck') \in Nat /\ Cardinality(Stuck') <= Cardinality(Stuck)
    BY ONLY <1>c, <2>1, NoMore
  <2>3. failures' = failures
    BY <1>6 DEF StartupNext, startupVars, Boot, SeedMaster, SeedSkill, SubmitSkill, ApproveSkill,
       SeedAgent, SlugCollision, AttachSeed, SubmitAgent, ApproveAgent, SeedAdmin, Deploy,
       ReviewSkill, ReviewAgent, EditSeed, LinkSeed, DropSkill, TakeSlug, FreeSlug
  <2> QED BY ONLY <1>a, <1>b, <1>c, <1>4, <1>6, <2>2, <2>3 DEF DamageCounted, FailuresCounted
<1> QED BY <1>1, <1>2, <1>3, <1>5, <1>6

LEMMA InitStartInv == StartupInit => StartInv
<1> SUFFICES ASSUME StartupInit PROVE StartInv
  OBVIOUS
<1> USE StartupFacts DEF StartupInit, Absent, PeoplesText
<1>1. StartTypeOK
  BY DEF StartTypeOK, Steps, Seeding, SkillSteps, AgentSteps, SeedRow, Statuses
<1>2. RowsWhole /\ PairInHand
  BY DEF RowsWhole, PairInHand, There, SkillSteps, AgentSteps
<1>3. SeedsBrought
  BY DEF SeedsBrought, Seeding, At, SkillSteps, AgentSteps
<1>4. Damaged = {} /\ Stuck = {} /\ meddled = 0 /\ stops = 0 /\ failures = 0
  BY DEF Damaged, Amiss, Stuck, There, At
<1>5. Cardinality({}) = 0
  BY FS_EmptySet
<1> QED BY <1>1, <1>2, <1>3, <1>4, <1>5 DEF StartInv, StartShape, DamageCounted, FailuresCounted

LEMMA StartInvHolds == StartupSpec => []StartInv
<1>1. ASSUME StartInv, [StartupNext]_startupVars PROVE StartInv'
  <2>1. StartTypeOK' /\ RowsWhole'
    BY <1>1, RowsKept DEF StartInv
  <2>2. PairInHand' /\ SeedsBrought'
    BY <1>1, <2>1, SeedsKept DEF StartInv
  <2>3. DamageCounted' /\ FailuresCounted'
    BY <1>1, CountsKept
  <2> QED BY <2>1, <2>2, <2>3 DEF StartInv, StartShape
<1> QED BY <1>1, InitStartInv, PTL DEF StartupSpec

\* Stopping the server in the middle of a start does bounded damage, for any
\* number of seeded pairs, stops, versions, deletions and taken names: each stop,
\* deletion or taken name puts at most one pair out of service and costs at most one
\* start that ends in a refused approval, and a start that ends has brought every
\* seeded text to the code's (demo_data.py 548-609, 708-745).
THEOREM StopDamageIsBounded == StartupSpec => []StopDamageBounded
<1>1. ASSUME StartInv PROVE StopDamageBounded
  <2>1. StartShape /\ Cardinality(Damaged) <= stops + meddled
        /\ failures + Cardinality(Stuck) <= stops + meddled
    BY <1>1 DEF StartInv, DamageCounted, FailuresCounted
  <2>2. stops \in Nat /\ failures \in Nat /\ meddled \in Nat /\ ShippedPairs \subseteq 1..Pairs
    BY <2>1, ShippedAreSome DEF StartShape, StartTypeOK
  <2>3. Damaged \in SUBSET (1..Pairs) /\ Stuck \in SUBSET (1..Pairs)
    BY DEF Damaged, Stuck
  <2>4. IsFiniteSet(Damaged) /\ Cardinality(Damaged) \in Nat /\ Cardinality(Stuck) \in Nat
    BY ONLY <2>3, PairsFinite
  <2>5. ASSUME At("up")
        PROVE  Cardinality({p \in ShippedPairs : ~InService(p)}) <= stops + meddled
    <3>1. {p \in ShippedPairs : ~InService(p)} \in SUBSET Damaged
      BY ONLY <2>2, <2>5 DEF Damaged, Amiss, OnTheWay, At, SkillSteps, AgentSteps
    <3>2. /\ Cardinality({p \in ShippedPairs : ~InService(p)}) \in Nat
          /\ Cardinality({p \in ShippedPairs : ~InService(p)}) <= Cardinality(Damaged)
      BY ONLY <2>4, <3>1, NoMore
    <3> QED BY ONLY <2>1, <2>2, <2>4, <3>2
  <2>6. failures <= stops + meddled
    BY ONLY <2>1, <2>2, <2>4
  <2>7. At("admin") => /\ masterText = version
                       /\ \A p \in ShippedPairs : seedSkill[p].text = version /\ seedAgent[p].text = version
    BY <2>1 DEF StartShape, SeedsBrought, Brought
  <2> QED BY <2>5, <2>6, <2>7 DEF StopDamageBounded
<1> QED BY <1>1, StartInvHolds, PTL

\* A server that an absent seeded agent's taken slug keeps down stays down,
\* whatever is restarted or stopped, until another version is deployed
\* (demo_data.py 603, sql.py 23).
THEOREM SlugKeepsServerDown == StartupSpec => SlugBlocksStart
<1>1. ASSUME StartInv, [StartupNext]_startupVars, Blocked, version' = version
      PROVE  Blocked'
  <2>1. StartShape /\ ShippedPairs' = ShippedPairs /\ ShippedPairs \subseteq 1..Pairs
    BY <1>1, ShippedAreSome DEF StartInv, StartShape, ShippedPairs
  <2>2. PICK p \in ShippedPairs : seedAgent[p] = Absent /\ p \in slugTaken
    BY <1>1 DEF Blocked
  <2>3. ~At("up") /\ ~There(seedAgent[p]) /\ p \in 1..Pairs /\ ~At("admin")
    BY <1>1, <2>1, <2>2 DEF Blocked, There, Absent, StartShape, SeedsBrought, Brought
  <2>4. start.at \in AgentSteps => start.pair # p
    BY <2>1, <2>3 DEF StartShape, PairInHand
  <2>5. start \in [at : Steps, pair : Nat] /\ seedAgent \in [1..Pairs -> SeedRow]
    BY <2>1 DEF StartShape, StartTypeOK
  <2>6. p \in slugTaken' /\ start'.at # "up" /\ seedAgent'[p] = seedAgent[p]
    <3>1. CASE SeedAgent
      <4>1. start.pair # p
        BY <2>2, <3>1 DEF SeedAgent
      <4>2. SeedAgentEffect(start.pair)
        BY ONLY <2>1, <3>1, SeedAgentDoes
      <4> QED BY ONLY <2>2, <2>3, <4>1, <4>2
                 DEF SeedAgentEffect, Elsewhere, OthersKept, Goes, NextUp
    <3>2. CASE SubmitAgent
      <4>1. SubmitAgentEffect(start.pair)
        BY ONLY <2>1, <3>2, SubmitAgentDoes
      <4> QED BY ONLY <2>2, <2>3, <2>4, <4>1
                 DEF SubmitAgentEffect, Elsewhere, OthersKept, Goes, AgentSteps
    <3>3. CASE ApproveAgent
      <4>1. ApproveAgentEffect(start.pair)
        BY ONLY <2>1, <3>3, ApproveAgentDoes
      <4> QED BY ONLY <2>2, <2>3, <2>4, <4>1
                 DEF ApproveAgentEffect, Elsewhere, OthersKept, NextUp, AgentSteps
    <3>4. CASE ~SeedAgent /\ ~SubmitAgent /\ ~ApproveAgent
      <4>1. UNCHANGED <<slugTaken, seedAgent>>
        BY <1>1, <2>3, <3>4 DEF StartupNext, startupVars, Boot, SeedMaster, SeedSkill, SubmitSkill,
           ApproveSkill, SlugCollision, AttachSeed, StartFails, SeedAdmin, Stop, Deploy, ReviewSkill,
           ReviewAgent, EditSeed, LinkSeed, DeleteSeed, DropSkill, TakeName, TakeSlug, FreeSlug, At
      <4>2. start'.at # "up"
        <5>1. ASSUME NEW s, Proceed(s), s # "up" PROVE start'.at # "up"
          BY <2>5, <5>1 DEF Proceed
        <5>2. CASE Boot \/ SeedMaster \/ SeedSkill \/ SubmitSkill \/ ApproveSkill \/ AttachSeed
          BY <5>1, <5>2 DEF Boot, SeedMaster, SeedSkill, SubmitSkill, ApproveSkill, AttachSeed
        <5>3. CASE SlugCollision \/ StartFails \/ Stop
          <6>1. start' = [at |-> "down", pair |-> 1]
            BY <5>3 DEF SlugCollision, StartFails, Stop
          <6> QED BY ONLY <6>1
        <5>6. CASE Deploy
          BY <2>3, <5>6 DEF Deploy, At
        <5>4. CASE UNCHANGED startupVars
          BY <2>3, <5>4 DEF startupVars, At
        <5>5. ~SeedAdmin /\ \A o \in 1..Pairs :
                ~(\/ ReviewSkill(o) \/ ReviewAgent(o) \/ EditSeed(o) \/ LinkSeed(o) \/ DeleteSeed(o)
                  \/ DropSkill(o) \/ TakeName(o) \/ TakeSlug(o) \/ FreeSlug(o))
          BY <2>3 DEF SeedAdmin, ReviewSkill, ReviewAgent, EditSeed, LinkSeed, DeleteSeed, DropSkill,
             TakeName, TakeSlug, FreeSlug
        <5> QED BY <1>1, <3>4, <5>2, <5>3, <5>4, <5>5, <5>6 DEF StartupNext
      <4> QED BY <2>2, <4>1, <4>2
    <3> QED BY <3>1, <3>2, <3>3, <3>4
  <2> QED BY <2>1, <2>2, <2>6 DEF Blocked, At
<1>2. StartInv /\ [StartupNext]_startupVars => [Blocked /\ version' = version => Blocked']_startupVars
  BY <1>1
<1> QED BY <1>2, StartInvHolds, PTL DEF StartupSpec, SlugBlocksStart

=============================================================================
