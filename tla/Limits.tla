------------------------------- MODULE Limits -------------------------------
(***************************************************************************)
(* The limiters of the gateways (internal/ratelimit/ratelimit.go) as       *)
(* handleConnect of the IoT gateway uses them: a CONNECT takes a token of  *)
(* the one bucket all piles share, then looks up the bucket of its source  *)
(* address, creating it when there is none, and takes a token of that.     *)
(* Worker goroutines run handleConnect concurrently; each Allow of a       *)
(* bucket runs under the bucket's mutex and is one step.  The look-up is   *)
(* another: the limiter's mutex is released before the bucket is used, so  *)
(* that Cleanup, which drops the buckets of silent addresses, can drop the *)
(* bucket a worker has in hand.                                            *)
(*                                                                         *)
(* Time is the monotonic clock of time.Now, in a unit in which the rates   *)
(* are whole; the accept limiter of the C-end gateway is the shared bucket *)
(* with burst = rate.                                                      *)
(***************************************************************************)
EXTENDS Integers, Sequences, FiniteSets

CONSTANTS
  Worker,           \* goroutines that run handleConnect
  IP,               \* source addresses
  ConnectRate,      \* connect_rate
  ConnectBurst,     \* connect_burst
  UDPPerIPRate,     \* udp_per_ip_rate
  UDPPerIPBurst,    \* udp_per_ip_burst
  CleanupInterval,  \* idle time after which a bucket is dropped (5 minutes)
  MaxTime           \* bound on the clock

\* NewTokenBucket: a burst that is not set is the rate.
BurstOf(rate, burst) == IF burst <= 0 THEN rate ELSE burst

ConnectCap == BurstOf(ConnectRate, ConnectBurst)
IPCap == BurstOf(UDPPerIPRate, UDPPerIPBurst)

ASSUME LimitsAssumption ==
  /\ IsFiniteSet(Worker) /\ Worker # {}
  /\ ConnectRate \in Nat
  /\ ConnectBurst \in Nat
  /\ UDPPerIPRate \in Nat
  /\ UDPPerIPBurst \in Nat
  /\ CleanupInterval \in Nat
  /\ MaxTime \in Nat
  \* Silence long enough to lose a bucket is long enough to fill it, with
  \* a token to spare for each worker.
  /\ UDPPerIPRate * CleanupInterval >= IPCap + Cardinality(Worker)

VARIABLES
  time,      \* the clock
  shared,    \* the bucket of ConnectLimiter
  buckets,   \* buckets[ip]: every bucket made for ip so far, oldest first
  tracked,   \* tracked[ip]: is the youngest of them in IPLimiter's table?
  job,       \* job[w]: where worker w is in handleConnect
  passed,    \* history: passed[t] CONNECTs got a token of the shared bucket
             \* at time t or later
  admitted   \* history: the same per source address, for the second token

limVars == <<time, shared, buckets, tracked, job, passed, admitted>>

Time == 0 .. MaxTime

Bucket == [tokens : Nat, last : Time]

\* A worker between two CONNECTs, with the first token, and with a bucket in
\* hand: the nth made for the address.
Job ==
  [at : {"idle"}] \cup
  [at : {"lookup"}, ip : IP] \cup
  [at : {"allow"}, ip : IP, nth : Nat]

-----------------------------------------------------------------------------
(* Token buckets *)

NewTokenBucket(cap) == [tokens |-> cap, last |-> time]

\* Mutant: the refill is not capped.
RefilledUncapped(b, rate, cap) == b.tokens + (time - b.last) * rate

\* What a bucket holds when it is looked at now.
Refilled(b, rate, cap) ==
  LET tokens == b.tokens + (time - b.last) * rate
  IN IF tokens > cap THEN cap ELSE tokens

\* Allow: does the bucket give a token, and what is left of it?
Gives(b, rate, cap) == Refilled(b, rate, cap) >= 1

\* Mutant: a token is taken from an empty bucket.
AfterUnchecked(b, rate, cap) == [tokens |-> Refilled(b, rate, cap) - 1, last |-> time]

After(b, rate, cap) ==
  LET tokens == Refilled(b, rate, cap)
  IN [tokens |-> IF tokens >= 1 THEN tokens - 1 ELSE tokens, last |-> time]

\* One more admission, for every window that is open now.
Counted(since) == [t \in Time |-> IF t <= time THEN since[t] + 1 ELSE since[t]]

LimInit ==
  /\ time = 0
  /\ shared = NewTokenBucket(ConnectCap)
  /\ buckets = [ip \in IP |-> <<>>]
  /\ tracked = [ip \in IP |-> FALSE]
  /\ job = [w \in Worker |-> [at |-> "idle"]]
  /\ passed = [t \in Time |-> 0]
  /\ admitted = [ip \in IP |-> [t \in Time |-> 0]]

-----------------------------------------------------------------------------
(* handleConnect *)

\* ConnectLimiter.Allow.  A CONNECT that gets no token is refused at once; a
\* token is spent also when the source address turns out to be over its own
\* limit.
ConnectAllow(w, ip) ==
  /\ job[w].at = "idle"
  /\ shared' = After(shared, ConnectRate, ConnectCap)
  /\ IF Gives(shared, ConnectRate, ConnectCap)
       THEN /\ passed' = Counted(passed)
            /\ job' = [job EXCEPT ![w] = [at |-> "lookup", ip |-> ip]]
       ELSE UNCHANGED <<passed, job>>
  /\ UNCHANGED <<time, buckets, tracked, admitted>>

\* Mutant: a new bucket is not put into the table.
IPLookupForgets(w) ==
  /\ job[w].at = "lookup"
  /\ LET ip == job[w].ip
         made == IF tracked[ip] THEN buckets[ip]
                 ELSE Append(buckets[ip], NewTokenBucket(IPCap))
     IN /\ buckets' = [buckets EXCEPT ![ip] = made]
        /\ job' = [job EXCEPT ![w] = [at |-> "allow", ip |-> ip, nth |-> Len(made)]]
  /\ UNCHANGED <<time, shared, tracked, passed, admitted>>

\* IPLimiter.Allow, under the limiter's mutex.
IPLookup(w) ==
  /\ job[w].at = "lookup"
  /\ LET ip == job[w].ip
         made == IF tracked[ip] THEN buckets[ip]
                 ELSE Append(buckets[ip], NewTokenBucket(IPCap))
     IN /\ buckets' = [buckets EXCEPT ![ip] = made]
        /\ tracked' = [tracked EXCEPT ![ip] = TRUE]
        /\ job' = [job EXCEPT ![w] = [at |-> "allow", ip |-> ip, nth |-> Len(made)]]
  /\ UNCHANGED <<time, shared, passed, admitted>>

\* IPLimiter.Allow, after it: the bucket in hand, wherever it is by now.
IPAllow(w) ==
  /\ job[w].at = "allow"
  /\ LET ip == job[w].ip
         b == buckets[ip][job[w].nth]
     IN /\ buckets' = [buckets EXCEPT ![ip][job[w].nth] =
                         After(b, UDPPerIPRate, IPCap)]
        /\ admitted' = IF Gives(b, UDPPerIPRate, IPCap)
                         THEN [admitted EXCEPT ![ip] = Counted(admitted[ip])]
                         ELSE admitted
  /\ job' = [job EXCEPT ![w] = [at |-> "idle"]]
  /\ UNCHANGED <<time, shared, tracked, passed>>

Silent(ip) == time - buckets[ip][Len(buckets[ip])].last > CleanupInterval

\* Cleanup, called by ipLimiterCleanup on its ticker.
Cleanup ==
  /\ \E ip \in IP : tracked[ip] /\ Silent(ip)
  /\ tracked' = [ip \in IP |-> tracked[ip] /\ ~Silent(ip)]
  /\ UNCHANGED <<time, shared, buckets, job, passed, admitted>>

TimePasses ==
  /\ time < MaxTime
  /\ time' = time + 1
  /\ UNCHANGED <<shared, buckets, tracked, job, passed, admitted>>

LimNext ==
  \/ \E w \in Worker : \/ \E ip \in IP : ConnectAllow(w, ip)
                       \/ IPLookup(w)
                       \/ IPAllow(w)
  \/ Cleanup
  \/ TimePasses

LimSpec == LimInit /\ [][LimNext]_limVars

-----------------------------------------------------------------------------
(* Properties *)

\* Type invariant; a bucket never owes a token.
LimTypeOK ==
  /\ time \in Time
  /\ shared \in Bucket
  /\ buckets \in [IP -> Seq(Bucket)]
  /\ tracked \in [IP -> BOOLEAN]
  /\ job \in [Worker -> Job]
  /\ passed \in [Time -> Nat]
  /\ admitted \in [IP -> [Time -> Nat]]

\* What a token bucket is for: in every window of time, not only from the
\* start, no more CONNECTs pass than the burst and the rate allow
\* (TokenBucket.Allow, ConnectLimiter).
ConnectBound ==
  \A t \in 0 .. time : passed[t] <= ConnectCap + ConnectRate * (time - t)

\* The same for one source address, although its bucket is dropped and made
\* again.  Waiting for the clean-up gains nothing, since a bucket that was
\* silent long enough to be dropped was full.  What a clean-up costs is the
\* bucket that workers have in hand: all of them may hold the one it drops and
\* all but one, the maker of that bucket, one dropped earlier, so that for an
\* instant twice as many CONNECTs less one come on top (IPLimiter.Allow,
\* Cleanup).
PerIPBound ==
  \A ip \in IP : \A t \in 0 .. time :
    admitted[ip][t] <=
      IPCap + UDPPerIPRate * (time - t) + 2 * Cardinality(Worker) - 1
=============================================================================
