---------------------------- MODULE Limits_proofs ----------------------------
(***************************************************************************)
(* The limiters keep their promises for every rate, burst, number of       *)
(* workers and length of a run.                                            *)
(***************************************************************************)
EXTENDS Limits, FiniteSetTheorems, TLAPS

LEMMA Appended ==
  ASSUME NEW S, NEW s \in Seq(S), NEW e \in S
  PROVE  /\ Append(s, e) \in Seq(S) /\ Append(s, e) # <<>>
         /\ Len(Append(s, e)) = Len(s) + 1 /\ Append(s, e)[Len(s) + 1] = e
         /\ \A i \in 1 .. Len(s) : Append(s, e)[i] = s[i]
OBVIOUS

LEMMA LenIs ==
  ASSUME NEW S, NEW s \in Seq(S)
  PROVE  Len(s) \in Nat /\ DOMAIN s = 1 .. Len(s)
OBVIOUS

LEMMA ElementOf ==
  ASSUME NEW S, NEW s \in Seq(S), NEW i \in 1 .. Len(s)
  PROVE  s[i] \in S
OBVIOUS

LEMMA TimesNat == ASSUME NEW a \in Nat, NEW b \in Nat PROVE a * b \in Nat
OBVIOUS

-----------------------------------------------------------------------------
(* Buckets *)

\* Two stretches of time bring as many tokens as both together.
LEMMA Stretches ==
  ASSUME NEW r \in Nat, NEW t \in Nat, NEW u \in Nat, NEW v \in Nat, t <= u, u <= v
  PROVE  /\ r * (u - t) + (v - u) * r = r * (v - t)
         /\ r * (u - t) \in Nat /\ r * (v - t) \in Nat /\ (v - u) * r \in Nat
<1>1. PICK a \in Nat, b \in Nat : u = t + a /\ v = u + b
  <2>. WITNESS u - t \in Nat, v - u \in Nat
  <2>. QED  OBVIOUS
<1>2. u - t = a /\ v - u = b /\ v - t = a + b
  BY <1>1
<1>. QED  BY <1>2, TimesNat

LEMMA Caps == ConnectCap \in Nat /\ IPCap \in Nat
BY LimitsAssumption DEF ConnectCap, IPCap, BurstOf

\* A refill neither takes tokens nor exceeds the cap; Allow leaves a bucket.
LEMMA RefilledOK ==
  ASSUME NEW b \in Bucket, NEW rate \in Nat, NEW cap \in Nat, time \in Time, b.last <= time
  PROVE  /\ Refilled(b, rate, cap) \in Nat
         /\ Refilled(b, rate, cap) <= cap
         /\ Refilled(b, rate, cap) <= b.tokens + (time - b.last) * rate
         /\ After(b, rate, cap) \in Bucket
         /\ After(b, rate, cap).last = time
         /\ After(b, rate, cap).tokens <= cap
<1>1. b.tokens \in Nat /\ b.last \in Nat /\ time \in Nat
  BY LimitsAssumption DEF Bucket, Time
<1>2. (time - b.last) * rate \in Nat
  BY <1>1, TimesNat
<1>3. /\ Refilled(b, rate, cap) \in Nat
      /\ Refilled(b, rate, cap) <= cap
      /\ Refilled(b, rate, cap) <= b.tokens + (time - b.last) * rate
  BY <1>1, <1>2 DEF Refilled
<1>. QED  BY <1>3 DEF After, Bucket

-----------------------------------------------------------------------------
(* Types *)

\* A bucket in hand is one that was made, and none was used after now.
MadeInv ==
  /\ shared.last <= time
  /\ \A ip \in IP : \A n \in 1 .. Len(buckets[ip]) : buckets[ip][n].last <= time
  /\ \A ip \in IP : tracked[ip] => 1 \in 1 .. Len(buckets[ip])
  /\ \A w \in Worker :
       job[w].at = "allow" => job[w].nth \in 1 .. Len(buckets[job[w].ip])

LEMMA CountedOK ==
  ASSUME NEW f \in [Time -> Nat] PROVE Counted(f) \in [Time -> Nat]
BY DEF Counted

LEMMA NewBucketOK ==
  ASSUME NEW cap \in Nat, time \in Time
  PROVE  NewTokenBucket(cap) \in Bucket /\ NewTokenBucket(cap).last = time
BY DEF NewTokenBucket, Bucket

LEMMA JobOK ==
  /\ [at |-> "idle"] \in Job
  /\ \A ip \in IP : [at |-> "lookup", ip |-> ip] \in Job
  /\ \A ip \in IP, n \in Nat : [at |-> "allow", ip |-> ip, nth |-> n] \in Job
  /\ \A j \in Job : /\ j.at \in {"lookup", "allow"} => j.ip \in IP
                    /\ j.at = "allow" => j.nth \in Nat
BY DEF Job

LEMMA LimInitOK == LimInit => LimTypeOK /\ MadeInv
<1>. SUFFICES ASSUME LimInit PROVE LimTypeOK /\ MadeInv
  OBVIOUS
<1>1. time \in Time /\ time = 0
  BY LimitsAssumption DEF LimInit, Time
<1>2. shared \in Bucket /\ shared.last <= time
  BY <1>1, Caps, NewBucketOK DEF LimInit
<1>3. LimTypeOK
  BY <1>1, <1>2, JobOK DEF LimInit, LimTypeOK
<1>. QED  BY <1>2, <1>3 DEF LimInit, MadeInv

LEMMA ConnectAllowType ==
  ASSUME LimTypeOK, MadeInv, NEW w \in Worker, NEW ip \in IP, ConnectAllow(w, ip)
  PROVE  LimTypeOK' /\ MadeInv'
<1>1. /\ shared' \in Bucket /\ shared'.last = time
  BY LimitsAssumption, Caps, RefilledOK, Zenon DEF LimTypeOK, MadeInv, ConnectAllow
<1>2. passed' \in [Time -> Nat]
  BY CountedOK DEF LimTypeOK, ConnectAllow
<1>3. /\ job' \in [Worker -> Job]
      /\ \A v \in Worker : job'[v] = job[v] \/ job'[v].at = "lookup"
  <2>. DEFINE new == [at |-> "lookup", ip |-> ip]
  <2>1. job' = [job EXCEPT ![w] = new] \/ UNCHANGED job
    BY DEF ConnectAllow
  <2>2. new \in Job /\ new.at = "lookup" /\ job \in [Worker -> Job]
    BY JobOK DEF LimTypeOK
  <2>. HIDE DEF new
  <2>. QED  BY <2>1, <2>2
<1>4. UNCHANGED <<time, buckets, tracked, admitted>> /\ time \in Nat
  BY LimitsAssumption DEF ConnectAllow, LimTypeOK, Time
<1>5. LimTypeOK'
  BY <1>1, <1>2, <1>3, <1>4 DEF LimTypeOK
<1>. QED  BY <1>1, <1>3, <1>4, <1>5 DEF MadeInv

LEMMA IPLookupType ==
  ASSUME LimTypeOK, MadeInv, NEW w \in Worker, IPLookup(w)
  PROVE  LimTypeOK' /\ MadeInv'
<1>. DEFINE ip == job[w].ip
            made == IF tracked[ip] THEN buckets[ip]
                    ELSE Append(buckets[ip], NewTokenBucket(IPCap))
<1>1. /\ ip \in IP /\ buckets[ip] \in Seq(Bucket)
      /\ NewTokenBucket(IPCap) \in Bucket /\ NewTokenBucket(IPCap).last = time
      /\ time \in Nat
  BY LimitsAssumption, JobOK, NewBucketOK, Caps DEF LimTypeOK, IPLookup, Time
<1>2. /\ buckets' = [buckets EXCEPT ![ip] = made]
      /\ tracked' = [tracked EXCEPT ![ip] = TRUE]
      /\ job' = [job EXCEPT ![w] = [at |-> "allow", ip |-> ip, nth |-> Len(made)]]
      /\ UNCHANGED <<time, shared, passed, admitted>>
  BY DEF IPLookup
<1>3. /\ made \in Seq(Bucket) /\ Len(buckets[ip]) <= Len(made)
      /\ Len(made) \in Nat /\ Len(buckets[ip]) \in Nat
      /\ \A n \in 1 .. Len(made) : made[n].last <= time
  <2>. DEFINE old == buckets[ip]
              b == NewTokenBucket(IPCap)
              more == Append(old, b)
  <2>1. old \in Seq(Bucket) /\ b \in Bucket /\ b.last = time /\ time \in Nat
    BY <1>1
  <2>2. \A n \in 1 .. Len(old) : old[n].last <= time
    BY <1>1 DEF MadeInv
  <2>3. made = IF tracked[ip] THEN old ELSE more
    OBVIOUS
  <2>. HIDE DEF old, b, made
  <2>4. /\ more \in Seq(Bucket) /\ Len(more) = Len(old) + 1 /\ Len(old) \in Nat
        /\ \A n \in 1 .. Len(old) : more[n] = old[n]
        /\ more[Len(old) + 1] = b
    BY <2>1, Appended, LenIs
  <2>. HIDE DEF more
  <2>5. \A n \in 1 .. Len(more) : more[n].last <= time
    <3>. SUFFICES ASSUME NEW n \in 1 .. Len(more) PROVE more[n].last <= time
      OBVIOUS
    <3>1. CASE n \in 1 .. Len(old)
      BY <2>2, <2>4, <3>1
    <3>2. CASE n = Len(old) + 1
      BY <2>1, <2>4, <3>2
    <3>. QED  BY <2>4, <3>1, <3>2
  <2>. QED  BY <2>1, <2>2, <2>3, <2>4, <2>5 DEF old
<1>4. Len(made) \in 1 .. Len(made)
  <2>1. CASE tracked[ip]
    BY <1>1, <2>1 DEF MadeInv
  <2>2. CASE ~tracked[ip]
    BY <1>1, <2>2, Appended, LenIs
  <2>. QED  BY <2>1, <2>2
<1>. DEFINE new == [at |-> "allow", ip |-> ip, nth |-> Len(made)]
<1>5. new \in Job /\ new.ip = ip /\ new.nth = Len(made)
  BY <1>1, <1>3, JobOK
<1>. HIDE DEF made, new
<1>6. job' = [job EXCEPT ![w] = new]
  BY <1>2 DEF new
<1>. HIDE DEF ip
<1>7. LimTypeOK'
  <2>1. tracked' \in [IP -> BOOLEAN]
    BY <1>1, <1>2 DEF LimTypeOK
  <2>. QED  BY <1>1, <1>2, <1>3, <1>5, <1>6, <2>1 DEF LimTypeOK
<1>8. MadeInv'
  <2>1. \A x \in IP : buckets'[x] = IF x = ip THEN made ELSE buckets[x]
    BY <1>1, <1>2 DEF LimTypeOK
  <2>2. \A v \in Worker : job'[v] = IF v = w THEN new ELSE job[v]
    BY <1>6 DEF LimTypeOK
  <2>3. \A x \in IP : \A n \in 1 .. Len(buckets'[x]) : buckets'[x][n].last <= time'
    BY <1>2, <1>3, <2>1 DEF MadeInv
  <2>4. \A x \in IP : tracked'[x] => 1 \in 1 .. Len(buckets'[x])
    <3>1. \A x \in IP : x # ip => tracked'[x] = tracked[x]
      BY <1>1, <1>2 DEF LimTypeOK
    <3>. QED  BY <1>3, <1>4, <2>1, <3>1 DEF MadeInv
  <2>5. ASSUME NEW v \in Worker, job'[v].at = "allow"
        PROVE  job'[v].nth \in 1 .. Len(buckets'[job'[v].ip])
    <3>1. CASE v = w
      BY <1>1, <1>4, <1>5, <2>1, <2>2, <3>1
    <3>2. CASE v # w
      <4>1. job[v].at = "allow" /\ job'[v] = job[v] /\ job[v].ip \in IP
        BY <2>2, <2>5, <3>2, JobOK DEF LimTypeOK
      <4>2. job[v].nth \in 1 .. Len(buckets[job[v].ip])
        BY <4>1 DEF MadeInv
      <4>. QED  BY <1>3, <2>1, <4>1, <4>2
    <3>. QED  BY <3>1, <3>2
  <2>. QED  BY <1>2, <2>3, <2>4, <2>5 DEF MadeInv
<1>. QED  BY <1>7, <1>8

LEMMA IPAllowType ==
  ASSUME LimTypeOK, MadeInv, NEW w \in Worker, IPAllow(w)
  PROVE  LimTypeOK' /\ MadeInv'
<1>. DEFINE ip == job[w].ip
            n == job[w].nth
            left == After(buckets[ip][n], UDPPerIPRate, IPCap)
<1>1. /\ ip \in IP /\ buckets[ip] \in Seq(Bucket) /\ n \in 1 .. Len(buckets[ip])
      /\ time \in Time /\ time \in Nat
  <2>1. job[w] \in Job /\ job[w].at = "allow"
    BY DEF LimTypeOK, IPAllow
  <2>2. ip \in IP
    BY <2>1, JobOK
  <2>3. n \in 1 .. Len(buckets[ip])
    BY <2>1 DEF MadeInv
  <2>4. time \in Time /\ time \in Nat
    BY LimitsAssumption DEF LimTypeOK, Time
  <2>. QED  BY <2>2, <2>3, <2>4 DEF LimTypeOK
<1>2. buckets[ip][n] \in Bucket /\ buckets[ip][n].last <= time
  <2>1. buckets[ip][n].last <= time
    BY <1>1 DEF MadeInv
  <2>. HIDE DEF ip, n
  <2>2. buckets[ip][n] \in Bucket
    BY <1>1, ElementOf, Zenon
  <2>. QED  BY <2>1, <2>2
<1>3. left \in Bucket /\ left.last = time
  BY <1>1, <1>2, LimitsAssumption, Caps, RefilledOK, Zenon
<1>4. /\ buckets' = [buckets EXCEPT ![ip][n] = left]
      /\ admitted' = [admitted EXCEPT ![ip] = Counted(admitted[ip])] \/ UNCHANGED admitted
      /\ job' = [job EXCEPT ![w] = [at |-> "idle"]]
      /\ UNCHANGED <<time, shared, tracked, passed>>
  BY DEF IPAllow
<1>. HIDE DEF left
<1>5. \A x \in IP : buckets'[x] = IF x = ip THEN [buckets[ip] EXCEPT ![n] = left] ELSE buckets[x]
  BY <1>1, <1>4 DEF LimTypeOK
<1>6. /\ [buckets[ip] EXCEPT ![n] = left] \in Seq(Bucket)
      /\ Len([buckets[ip] EXCEPT ![n] = left]) = Len(buckets[ip])
      /\ \A k \in 1 .. Len(buckets[ip]) :
           [buckets[ip] EXCEPT ![n] = left][k] = IF k = n THEN left ELSE buckets[ip][k]
  BY <1>1, <1>3
<1>7. LimTypeOK'
  <2>1. buckets' \in [IP -> Seq(Bucket)]
    BY <1>4, <1>5, <1>6, Zenon DEF LimTypeOK
  <2>2. admitted' \in [IP -> [Time -> Nat]]
    <3>1. Counted(admitted[ip]) \in [Time -> Nat]
      BY <1>1, CountedOK DEF LimTypeOK
    <3>. QED  BY <1>4, <3>1, Zenon DEF LimTypeOK
  <2>3. job' \in [Worker -> Job]
    BY <1>4, JobOK DEF LimTypeOK
  <2>. QED  BY <1>4, <2>1, <2>2, <2>3 DEF LimTypeOK
<1>8. MadeInv'
  <2>1. \A x \in IP : Len(buckets'[x]) = Len(buckets[x])
    BY <1>5, <1>6
  <2>2. ASSUME NEW x \in IP, NEW k \in 1 .. Len(buckets'[x])
        PROVE  buckets'[x][k].last <= time'
    <3>1. time' = time /\ k \in 1 .. Len(buckets[x])
      BY <1>4, <2>1
    <3>2. CASE x # ip
      BY <1>5, <3>1, <3>2 DEF MadeInv
    <3>3. CASE x = ip
      <4>1. buckets'[x][k] = IF k = n THEN left ELSE buckets[ip][k]
        BY <1>5, <1>6, <3>1, <3>3
      <4>. QED  BY <1>1, <1>3, <3>1, <3>3, <4>1 DEF MadeInv
    <3>. QED  BY <3>2, <3>3
  <2>3. ASSUME NEW v \in Worker, job'[v].at = "allow"
        PROVE  job'[v].nth \in 1 .. Len(buckets'[job'[v].ip])
    <3>1. job'[v] = job[v] /\ job[v].at = "allow"
      BY <1>4, <2>3 DEF LimTypeOK
    <3>2. job[v].ip \in IP
      BY <3>1, JobOK DEF LimTypeOK
    <3>. QED  BY <2>1, <3>1, <3>2 DEF MadeInv
  <2>4. shared'.last <= time'
    BY <1>4 DEF MadeInv
  <2>5. \A x \in IP : tracked'[x] => 1 \in 1 .. Len(buckets'[x])
    BY <1>4, <2>1 DEF MadeInv
  <2>. QED  BY <2>2, <2>3, <2>4, <2>5 DEF MadeInv
<1>. QED  BY <1>7, <1>8

LEMMA CleanupType ==
  ASSUME LimTypeOK, MadeInv, Cleanup PROVE LimTypeOK' /\ MadeInv'
<1>1. /\ tracked' = [ip \in IP |-> tracked[ip] /\ ~Silent(ip)]
      /\ UNCHANGED <<time, shared, buckets, job, passed, admitted>>
  BY DEF Cleanup
<1>2. tracked' \in [IP -> BOOLEAN] /\ \A ip \in IP : tracked'[ip] => tracked[ip]
  BY <1>1, Zenon
<1>3. LimTypeOK'
  BY <1>1, <1>2 DEF LimTypeOK
<1>. QED  BY <1>1, <1>2, <1>3 DEF MadeInv

LEMMA TimePassesType ==
  ASSUME LimTypeOK, MadeInv, TimePasses PROVE LimTypeOK' /\ MadeInv'
<1>1. /\ time \in Nat /\ time' = time + 1 /\ time' \in Time
      /\ UNCHANGED <<shared, buckets, tracked, job, passed, admitted>>
  BY LimitsAssumption DEF LimTypeOK, TimePasses, Time
<1>2. LimTypeOK'
  BY <1>1 DEF LimTypeOK
<1>3. shared.last \in Nat
  BY LimitsAssumption DEF LimTypeOK, Bucket, Time
<1>4. ASSUME NEW ip \in IP, NEW n \in 1 .. Len(buckets[ip])
      PROVE  buckets[ip][n].last <= time'
  <2>1. buckets[ip][n] \in Bucket /\ buckets[ip][n].last <= time
    BY DEF LimTypeOK, MadeInv
  <2>2. buckets[ip][n].last \in Nat
    BY <2>1, LimitsAssumption DEF Bucket, Time
  <2>. QED  BY <1>1, <2>1, <2>2
<1>. QED  BY <1>1, <1>2, <1>3, <1>4 DEF MadeInv

LEMMA LimStepType == LimTypeOK /\ MadeInv /\ [LimNext]_limVars => LimTypeOK' /\ MadeInv'
<1>. SUFFICES ASSUME LimTypeOK, MadeInv, [LimNext]_limVars PROVE LimTypeOK' /\ MadeInv'
  OBVIOUS
<1>1. CASE UNCHANGED limVars
  BY <1>1, Zenon DEF limVars, LimTypeOK, MadeInv
<1>. QED
  BY <1>1, ConnectAllowType, IPLookupType, IPAllowType, CleanupType, TimePassesType
     DEF LimNext

\* Every variable of the limiters keeps its type: in particular no bucket is
\* ever in debt (TokenBucket.Allow).
THEOREM LimTypeCorrect == LimSpec => []LimTypeOK
BY LimInitOK, LimStepType, PTL DEF LimSpec

-----------------------------------------------------------------------------
(* The bound *)

\* What a bucket holds and what it gave since t is at most what it could hold
\* then and what it was filled with up to its last use; it gave nothing after.
BoundInv ==
  /\ shared.tokens <= ConnectCap
  /\ \A t \in Time : t > shared.last => passed[t] = 0
  /\ \A t \in 0 .. shared.last :
       shared.tokens + passed[t] <= ConnectCap + ConnectRate * (shared.last - t)

LEMMA BoundHolds ==
  ASSUME LimTypeOK, MadeInv, BoundInv PROVE ConnectBound
<1>. SUFFICES ASSUME NEW t \in 0 .. time
              PROVE  passed[t] <= ConnectCap + ConnectRate * (time - t)
  BY DEF ConnectBound
<1>1. /\ time \in Nat /\ t \in Time /\ t \in Nat /\ ConnectRate \in Nat /\ ConnectCap \in Nat
      /\ passed[t] \in Nat /\ shared.last \in Nat /\ shared.tokens \in Nat
      /\ shared.last <= time
  BY LimitsAssumption, Caps DEF LimTypeOK, MadeInv, Time, Bucket
<1>2. CASE t <= shared.last
  <2>1. shared.tokens + passed[t] <= ConnectCap + ConnectRate * (shared.last - t)
    BY <1>1, <1>2 DEF BoundInv
  <2>2. /\ ConnectRate * (shared.last - t) + (time - shared.last) * ConnectRate
             = ConnectRate * (time - t)
        /\ ConnectRate * (shared.last - t) \in Nat /\ (time - shared.last) * ConnectRate \in Nat
    BY <1>1, <1>2, Stretches
  <2>. QED  BY <1>1, <2>1, <2>2
<1>3. CASE t > shared.last
  <2>1. ConnectRate * (time - t) \in Nat
    BY <1>1, TimesNat
  <2>2. passed[t] = 0
    BY <1>1, <1>3 DEF BoundInv
  <2>. QED  BY <1>1, <2>1, <2>2
<1>. QED  BY <1>1, <1>2, <1>3

LEMMA BoundInit == LimInit => BoundInv
<1>. SUFFICES ASSUME LimInit PROVE BoundInv
  OBVIOUS
<1>1. shared = [tokens |-> ConnectCap, last |-> 0]
  BY DEF LimInit, NewTokenBucket
<1>2. shared.tokens = ConnectCap /\ shared.last = 0
  BY <1>1
<1>3. \A t \in Time : passed[t] = 0
  BY DEF LimInit
<1>4. 0 .. shared.last = {0} /\ 0 \in Time /\ ConnectRate * (0 - 0) = 0
  BY <1>2, LimitsAssumption DEF Time
<1>. QED  BY <1>2, <1>3, <1>4, Caps DEF BoundInv

LEMMA BoundAllow ==
  ASSUME LimTypeOK, MadeInv, BoundInv, NEW w \in Worker, NEW ip \in IP, ConnectAllow(w, ip)
  PROVE  BoundInv'
<1>. DEFINE held == Refilled(shared, ConnectRate, ConnectCap)
<1>1. /\ time \in Nat /\ time \in Time /\ ConnectRate \in Nat /\ ConnectCap \in Nat
      /\ shared.last \in Nat /\ shared.tokens \in Nat /\ shared.last <= time
      /\ shared \in Bucket
  BY LimitsAssumption, Caps DEF LimTypeOK, MadeInv, Time, Bucket
<1>2. /\ held \in Nat /\ held <= ConnectCap
      /\ held <= shared.tokens + (time - shared.last) * ConnectRate
  BY <1>1, RefilledOK, Zenon
<1>3. shared'.last = time /\ time' = time
  BY DEF ConnectAllow, After
<1>4. \/ /\ shared'.tokens = held - 1 /\ held >= 1
         /\ passed' = Counted(passed)
      \/ /\ shared'.tokens = held
         /\ passed' = passed
  BY DEF ConnectAllow, After, Gives
<1>. HIDE DEF held
<1>5. ASSUME NEW t \in Time
      PROVE  /\ t > time => passed'[t] = 0
             /\ t <= time => shared'.tokens + passed'[t] <= ConnectCap + ConnectRate * (time - t)
  <2>1. t \in Nat /\ passed[t] \in Nat
    BY LimitsAssumption DEF LimTypeOK, Time
  <2>2. t <= time => shared'.tokens + passed'[t] = held + passed[t]
    BY <1>1, <1>2, <1>4, <2>1 DEF Counted
  <2>3. t > time => passed'[t] = passed[t]
    BY <1>1, <1>4, <2>1 DEF Counted, LimTypeOK
  <2>4. CASE t <= shared.last
    <3>1. shared.tokens + passed[t] <= ConnectCap + ConnectRate * (shared.last - t)
      BY <1>1, <2>1, <2>4 DEF BoundInv
    <3>2. held + passed[t] <= ConnectCap + ConnectRate * (time - t)
      BY <1>1, <1>2, <2>1, <2>4, <3>1, Stretches
    <3>. QED  BY <1>1, <2>1, <2>2, <2>4, <3>2
  <2>5. CASE t > shared.last
    <3>1. passed[t] = 0
      BY <2>5 DEF BoundInv
    <3>2. t <= time => ConnectRate * (time - t) \in Nat
      BY <1>1, <2>1, TimesNat
    <3>. QED  BY <1>1, <1>2, <2>1, <2>2, <2>3, <3>1, <3>2
  <2>. QED  BY <1>1, <2>1, <2>4, <2>5
<1>6. shared'.tokens <= ConnectCap
  BY <1>1, <1>2, <1>4
<1>7. 0 .. time \subseteq Time
  BY <1>1, LimitsAssumption DEF Time
<1>. QED  BY <1>3, <1>5, <1>6, <1>7, <1>1 DEF BoundInv

LEMMA BoundStep == LimTypeOK /\ MadeInv /\ BoundInv /\ [LimNext]_limVars => BoundInv'
<1>. SUFFICES ASSUME LimTypeOK, MadeInv, BoundInv, [LimNext]_limVars PROVE BoundInv'
  OBVIOUS
<1>1. CASE UNCHANGED <<shared, passed>>
  BY <1>1 DEF BoundInv
<1>. QED
  BY <1>1, BoundAllow, Zenon
     DEF LimNext, limVars, IPLookup, IPAllow, Cleanup, TimePasses

\* In every window of time no more CONNECTs pass the shared bucket than its
\* burst and its rate allow (TokenBucket.Allow), whatever the rate and the
\* burst, and however the workers interleave.
THEOREM ConnectLimitKept == LimSpec => []ConnectBound
<1>1. LimInit => LimTypeOK /\ MadeInv /\ BoundInv
  BY LimInitOK, BoundInit
<1>2. LimTypeOK /\ MadeInv /\ BoundInv /\ [LimNext]_limVars =>
        LimTypeOK' /\ MadeInv' /\ BoundInv'
  BY LimStepType, BoundStep
<1>3. LimTypeOK /\ MadeInv /\ BoundInv => ConnectBound
  BY BoundHolds
<1>. QED  BY <1>1, <1>2, <1>3, PTL DEF LimSpec

-----------------------------------------------------------------------------
(* The bound per source address *)

\* Workers with a bucket of ip in hand that the table no longer has.
Late(ip) ==
  {w \in Worker : /\ job[w].at = "allow" /\ job[w].ip = ip
                  /\ tracked[ip] => job[w].nth # Len(buckets[ip])}

Current(ip) == buckets[ip][Len(buckets[ip])]

Spare == 2 * Cardinality(Worker) - 1

\* The account of an address whose bucket is in the table.  Each late worker
\* may still admit one CONNECT; since the last use of the bucket only those
\* have that were late, and its maker was not one of them.
TrackedInv(ip) ==
  /\ Current(ip).tokens <= IPCap
  /\ \A t \in Time : t > Current(ip).last =>
       admitted[ip][t] + Cardinality(Late(ip)) <= Cardinality(Worker) - 1
  /\ \A t \in Time : t <= Current(ip).last =>
       Current(ip).tokens + admitted[ip][t] + Cardinality(Late(ip))
         <= IPCap + UDPPerIPRate * (Current(ip).last - t) + Spare

\* And of one that has none: a new bucket may be made at any moment.
UntrackedInv(ip) ==
  \A t \in Time : t <= time =>
    admitted[ip][t] + Cardinality(Late(ip)) <= UDPPerIPRate * (time - t) + Spare

AddressInv(ip) ==
  /\ \A t \in Time : t > time => admitted[ip][t] = 0
  /\ tracked[ip] => TrackedInv(ip)
  /\ ~tracked[ip] => UntrackedInv(ip)

PerIPInv == \A ip \in IP : AddressInv(ip)

LEMMA Workers == Cardinality(Worker) \in Nat /\ Cardinality(Worker) >= 1 /\ Spare \in Nat
<1>1. Cardinality(Worker) \in Nat /\ Cardinality(Worker) # 0
  BY LimitsAssumption, FS_CardinalityType, FS_EmptySet
<1>. QED  BY <1>1 DEF Spare

LEMMA SomeWorkers ==
  ASSUME NEW S, S \subseteq Worker
  PROVE  /\ IsFiniteSet(S) /\ Cardinality(S) \in Nat
         /\ Cardinality(S) <= Cardinality(Worker)
         /\ \A w \in S : Cardinality(S \ {w}) = Cardinality(S) - 1
         /\ \A w \in Worker : w \notin S => Cardinality(S) <= Cardinality(Worker) - 1
<1>1. IsFiniteSet(S) /\ Cardinality(S) <= Cardinality(Worker)
  BY LimitsAssumption, FS_Subset
<1>2. Cardinality(S) \in Nat
  BY <1>1, FS_CardinalityType
<1>3. \A w \in S : Cardinality(S \ {w}) = Cardinality(S) - 1
  BY <1>1, FS_RemoveElement
<1>4. ASSUME NEW w \in Worker, w \notin S PROVE Cardinality(S) <= Cardinality(Worker) - 1
  <2>1. IsFiniteSet(Worker \ {w}) /\ Cardinality(Worker \ {w}) = Cardinality(Worker) - 1
    BY LimitsAssumption, FS_RemoveElement
  <2>2. S \subseteq Worker \ {w}
    BY <1>4
  <2>3. Cardinality(S) <= Cardinality(Worker \ {w})
    BY <2>1, <2>2, FS_Subset
  <2>. QED  BY <2>1, <2>3
<1>. QED  BY <1>1, <1>2, <1>3, <1>4

\* The numbers the accounts are made of.
LEMMA Numbers ==
  ASSUME LimTypeOK, MadeInv, NEW ip \in IP
  PROVE  /\ time \in Nat /\ time \in Time /\ Time \subseteq Nat
         /\ UDPPerIPRate \in Nat /\ IPCap \in Nat
         /\ \A t \in Time : admitted[ip][t] \in Nat
         /\ Late(ip) \subseteq Worker /\ Cardinality(Late(ip)) \in Nat
         /\ tracked[ip] => /\ Len(buckets[ip]) \in 1 .. Len(buckets[ip])
                           /\ Current(ip) \in Bucket
                           /\ Current(ip).tokens \in Nat /\ Current(ip).last \in Nat
                           /\ Current(ip).last \in Time /\ Current(ip).last <= time
<1>1. Late(ip) \subseteq Worker
  BY DEF Late
<1>2. Cardinality(Late(ip)) \in Nat
  BY <1>1, SomeWorkers
<1>3. time \in Nat /\ time \in Time /\ Time \subseteq Nat /\ UDPPerIPRate \in Nat /\ IPCap \in Nat
  BY LimitsAssumption, Caps DEF LimTypeOK, Time
<1>4. \A t \in Time : admitted[ip][t] \in Nat
  BY DEF LimTypeOK
<1>5. ASSUME tracked[ip]
      PROVE  /\ Len(buckets[ip]) \in 1 .. Len(buckets[ip])
             /\ Current(ip) \in Bucket /\ Current(ip).last <= time
  <2>1. buckets[ip] \in Seq(Bucket) /\ Len(buckets[ip]) \in Nat
    BY DEF LimTypeOK
  <2>2. Len(buckets[ip]) \in 1 .. Len(buckets[ip])
    BY <1>5, <2>1 DEF MadeInv
  <2>. QED  BY <2>1, <2>2 DEF Current, MadeInv
<1>6. \A b \in Bucket : b.tokens \in Nat /\ b.last \in Time
  BY DEF Bucket
<1>. QED  BY <1>1, <1>2, <1>3, <1>4, <1>5, <1>6, Zenon

LEMMA PerIPHolds == ASSUME LimTypeOK, MadeInv, PerIPInv PROVE PerIPBound
<1>. SUFFICES ASSUME NEW ip \in IP, NEW t \in 0 .. time
              PROVE  admitted[ip][t] <= IPCap + UDPPerIPRate * (time - t) + Spare
  BY DEF PerIPBound, Spare
<1>1. /\ time \in Nat /\ t \in Time /\ t \in Nat /\ t <= time
      /\ UDPPerIPRate \in Nat /\ IPCap \in Nat /\ Spare \in Nat
      /\ admitted[ip][t] \in Nat /\ Cardinality(Late(ip)) \in Nat
  <2>1. t \in Time
    BY LimitsAssumption DEF LimTypeOK, Time
  <2>. QED  BY <2>1, Numbers, Workers
<1>2. UDPPerIPRate * (time - t) \in Nat
  BY <1>1, TimesNat
<1>3. CASE ~tracked[ip]
  <2>1. admitted[ip][t] + Cardinality(Late(ip)) <= UDPPerIPRate * (time - t) + Spare
    BY <1>1, <1>3 DEF PerIPInv, AddressInv, UntrackedInv
  <2>. QED  BY <1>1, <1>2, <2>1
<1>4. CASE tracked[ip] /\ t > Current(ip).last
  <2>1. admitted[ip][t] + Cardinality(Late(ip)) <= Cardinality(Worker) - 1
    BY <1>1, <1>4 DEF PerIPInv, AddressInv, TrackedInv
  <2>2. Cardinality(Worker) - 1 <= Spare
    BY Workers DEF Spare
  <2>. QED  BY <1>1, <1>2, <2>1, <2>2, Workers
<1>5. CASE tracked[ip] /\ t <= Current(ip).last
  <2>. DEFINE b == Current(ip)
  <2>1. b.tokens + admitted[ip][t] + Cardinality(Late(ip)) <= IPCap + UDPPerIPRate * (b.last - t) + Spare
    BY <1>1, <1>5 DEF PerIPInv, AddressInv, TrackedInv
  <2>2. b.last \in Nat /\ b.last <= time /\ b.tokens \in Nat /\ t <= b.last
    BY <1>5, Numbers
  <2>. HIDE DEF b
  <2>3. /\ UDPPerIPRate * (b.last - t) + (time - b.last) * UDPPerIPRate = UDPPerIPRate * (time - t)
        /\ UDPPerIPRate * (b.last - t) \in Nat /\ (time - b.last) * UDPPerIPRate \in Nat
    BY <1>1, <2>2, Stretches
  <2>. QED  BY <1>1, <2>1, <2>2, <2>3
<1>6. tracked[ip] => Current(ip).last \in Nat
  BY Numbers
<1>. QED  BY <1>1, <1>3, <1>4, <1>5, <1>6

LEMMA PerIPInit == LimInit => PerIPInv
<1>. SUFFICES ASSUME LimInit, NEW ip \in IP PROVE AddressInv(ip)
  BY DEF PerIPInv
<1>1. \A t \in Time : admitted[ip][t] = 0
  BY DEF LimInit
<1>2. Late(ip) = {} /\ ~tracked[ip] /\ time = 0
  BY DEF LimInit, Late
<1>3. Cardinality(Late(ip)) = 0
  BY <1>2, FS_EmptySet
<1>4. \A t \in Time : t <= time => t = 0 /\ UDPPerIPRate * (time - t) = 0
  BY <1>2, LimitsAssumption DEF Time
<1>. QED  BY <1>1, <1>2, <1>3, <1>4, Workers DEF AddressInv, UntrackedInv

\* An address whose bucket, late workers and admissions stay.
LEMMA AddressKept ==
  ASSUME NEW ip \in IP, AddressInv(ip), time' = time, admitted'[ip] = admitted[ip],
         tracked'[ip] = tracked[ip], Late(ip)' = Late(ip),
         tracked[ip] => Current(ip)' = Current(ip)
  PROVE  AddressInv(ip)'
BY DEF AddressInv, TrackedInv, UntrackedInv, Spare

LEMMA PerIPConnect ==
  ASSUME LimTypeOK, MadeInv, PerIPInv, NEW w \in Worker, NEW ip \in IP, ConnectAllow(w, ip)
  PROVE  PerIPInv'
<1>. SUFFICES ASSUME NEW x \in IP PROVE AddressInv(x)'
  BY DEF PerIPInv
<1>1. UNCHANGED <<time, buckets, tracked, admitted>>
  BY DEF ConnectAllow
<1>2. \A v \in Worker : job'[v] = job[v] \/ (job[v].at = "idle" /\ job'[v].at = "lookup")
  BY DEF ConnectAllow, LimTypeOK
<1>3. Late(x)' = Late(x)
  BY <1>1, <1>2 DEF Late
<1>. QED  BY <1>1, <1>3, AddressKept DEF PerIPInv, Current

LEMMA PerIPTime ==
  ASSUME LimTypeOK, MadeInv, PerIPInv, TimePasses PROVE PerIPInv'
<1>. SUFFICES ASSUME NEW ip \in IP PROVE AddressInv(ip)'
  BY DEF PerIPInv
<1>1. time' = time + 1 /\ UNCHANGED <<buckets, tracked, job, admitted>>
  BY DEF TimePasses
<1>2. Late(ip)' = Late(ip) /\ Current(ip)' = Current(ip)
  BY <1>1 DEF Late, Current
<1>3. AddressInv(ip) /\ time \in Nat /\ Time \subseteq Nat /\ UDPPerIPRate \in Nat
  BY Numbers DEF PerIPInv
<1>4. ASSUME NEW t \in Time, t > time' PROVE admitted[ip][t] = 0
  BY <1>1, <1>3, <1>4 DEF AddressInv
<1>5. CASE tracked[ip]
  <2>1. TrackedInv(ip)'
    BY <1>1, <1>2, <1>3, <1>5 DEF AddressInv, TrackedInv, Spare
  <2>. QED  BY <1>1, <1>4, <1>5, <2>1 DEF AddressInv
<1>6. CASE ~tracked[ip]
  <2>1. ASSUME NEW t \in Time, t <= time'
        PROVE  admitted[ip][t] + Cardinality(Late(ip)) <= UDPPerIPRate * (time' - t) + Spare
    <3>1. /\ admitted[ip][t] \in Nat /\ Cardinality(Late(ip)) \in Nat /\ Spare \in Nat
          /\ Cardinality(Late(ip)) <= Spare
      <4>1. admitted[ip][t] \in Nat /\ Late(ip) \subseteq Worker
        BY Numbers
      <4>2. Cardinality(Late(ip)) \in Nat /\ Cardinality(Late(ip)) <= Cardinality(Worker)
        BY <4>1, SomeWorkers
      <4>. QED  BY <4>1, <4>2, Workers DEF Spare
    <3>2. CASE t <= time
      <4>1. admitted[ip][t] + Cardinality(Late(ip)) <= UDPPerIPRate * (time - t) + Spare
        BY <1>3, <1>6, <3>2 DEF AddressInv, UntrackedInv
      <4>2. /\ UDPPerIPRate * (time - t) + (time' - time) * UDPPerIPRate = UDPPerIPRate * (time' - t)
            /\ UDPPerIPRate * (time - t) \in Nat /\ (time' - time) * UDPPerIPRate \in Nat
            /\ UDPPerIPRate * (time' - t) \in Nat
        BY <1>1, <1>3, <3>2, Stretches
      <4>. QED  BY <3>1, <4>1, <4>2
    <3>3. CASE t = time'
      <4>1. admitted[ip][t] = 0
        BY <1>1, <1>3, <3>3 DEF AddressInv
      <4>2. UDPPerIPRate * (time' - t) = 0
        BY <1>1, <1>3, <3>3
      <4>. QED  BY <3>1, <4>1, <4>2
    <3>. QED  BY <1>1, <1>3, <2>1, <3>2, <3>3
  <2>2. UntrackedInv(ip)'
    BY <1>1, <1>2, <2>1 DEF UntrackedInv, Spare
  <2>. QED  BY <1>1, <1>4, <1>6, <2>2 DEF AddressInv
<1>. QED  BY <1>5, <1>6

\* A bucket that is dropped had been silent for as long as it takes to make up
\* for a full bucket and for every worker that has it in hand.
LEMMA PerIPCleanup ==
  ASSUME LimTypeOK, MadeInv, PerIPInv, Cleanup PROVE PerIPInv'
<1>. SUFFICES ASSUME NEW ip \in IP PROVE AddressInv(ip)'
  BY DEF PerIPInv
<1>1. /\ UNCHANGED <<time, buckets, job, admitted>>
      /\ tracked'[ip] = (tracked[ip] /\ ~Silent(ip))
  BY DEF Cleanup
<1>2. AddressInv(ip)
  BY DEF PerIPInv
<1>3. CASE tracked'[ip] = tracked[ip]
  <2>1. Late(ip)' = Late(ip) /\ Current(ip)' = Current(ip)
    BY <1>1, <1>3 DEF Late, Current
  <2>. QED  BY <1>1, <1>2, <1>3, <2>1, AddressKept, Zenon
<1>4. CASE tracked[ip] /\ Silent(ip)
  <2>. DEFINE b == Current(ip)
              R == UDPPerIPRate
              N == Cardinality(Worker)
              L == Cardinality(Late(ip))
              M == Cardinality(Late(ip)')
  <2>1. /\ time \in Nat /\ R \in Nat /\ IPCap \in Nat /\ Time \subseteq Nat
        /\ N \in Nat /\ N >= 1 /\ L \in Nat
        /\ b.tokens \in Nat /\ b.last \in Nat /\ b.last <= time
    BY <1>4, Numbers, Workers
  <2>2. M \in Nat /\ M <= N
    BY SomeWorkers DEF Late
  <2>3. (time - b.last) * R >= IPCap + N
    <3>1. CleanupInterval \in Nat /\ R * CleanupInterval >= IPCap + N
      BY LimitsAssumption
    <3>2. time - b.last > CleanupInterval
      BY <1>4 DEF Silent, Current
    <3>. HIDE DEF b, R, N
    <3>. DEFINE k == time - b.last - CleanupInterval
    <3>3. k \in Nat /\ time - b.last = CleanupInterval + k
      BY <2>1, <3>1, <3>2
    <3>. HIDE DEF k
    <3>4. (time - b.last) * R = R * CleanupInterval + k * R /\ k * R \in Nat
      BY <2>1, <3>1, <3>3, TimesNat
    <3>5. R * CleanupInterval \in Nat
      BY <2>1, <3>1, TimesNat
    <3>. QED  BY <2>1, <3>1, <3>4, <3>5
  <2>4. ASSUME NEW t \in Time, t <= time
        PROVE  admitted[ip][t] + M <= R * (time - t) + Spare
    <3>1. admitted[ip][t] \in Nat /\ t \in Nat /\ Spare = 2 * N - 1
      BY <2>1, Numbers DEF Spare
    <3>2. CASE t > b.last
      <4>1. admitted[ip][t] + L <= N - 1
        BY <1>2, <1>4, <3>2 DEF AddressInv, TrackedInv
      <4>. HIDE DEF b, R, N, L, M
      <4>2. R * (time - t) \in Nat
        BY <2>1, <2>4, <3>1, TimesNat
      <4>. QED  BY <2>1, <2>2, <3>1, <4>1, <4>2
    <3>3. CASE t <= b.last
      <4>1. b.tokens + admitted[ip][t] + L <= IPCap + R * (b.last - t) + Spare
        BY <1>2, <1>4, <3>3 DEF AddressInv, TrackedInv
      <4>. HIDE DEF b, R, N, L, M
      <4>2. /\ R * (b.last - t) + (time - b.last) * R = R * (time - t)
            /\ R * (b.last - t) \in Nat /\ (time - b.last) * R \in Nat
        BY <2>1, <3>1, <3>3, Stretches
      <4>. DEFINE x == R * (b.last - t)
                  y == (time - b.last) * R
                  z == R * (time - t)
      <4>3. x + y = z /\ x \in Nat /\ y \in Nat /\ b.tokens + admitted[ip][t] + L <= IPCap + x + Spare
        BY <4>1, <4>2
      <4>4. y >= IPCap + N
        BY <2>3
      <4>. HIDE DEF x, y, z
      <4>5. admitted[ip][t] <= IPCap + x + Spare
        BY <2>1, <3>1, <4>3
      <4>6. z >= IPCap + x + N
        BY <2>1, <4>3, <4>4
      <4>7. admitted[ip][t] + M <= z + Spare
        BY <2>1, <2>2, <3>1, <4>3, <4>5, <4>6
      <4>. QED  BY <4>7 DEF z
    <3>4. t > b.last \/ t <= b.last
      BY <2>1, <3>1
    <3>. QED  BY <3>2, <3>3, <3>4, Zenon
  <2>5. UntrackedInv(ip)'
    BY <1>1, <2>4 DEF UntrackedInv, Spare
  <2>. QED  BY <1>1, <1>2, <1>4, <2>5, Zenon DEF AddressInv
<1>. QED  BY <1>1, <1>3, <1>4 DEF LimTypeOK

\* A look-up makes no worker late; the maker of a bucket never is.
LEMMA PerIPLookup ==
  ASSUME LimTypeOK, MadeInv, PerIPInv, NEW w \in Worker, IPLookup(w)
  PROVE  PerIPInv'
<1>1. PICK ip \in IP : ip = job[w].ip /\ job[w].at = "lookup"
  BY JobOK DEF LimTypeOK, IPLookup
<1>. DEFINE made == IF tracked[ip] THEN buckets[ip]
                    ELSE Append(buckets[ip], NewTokenBucket(IPCap))
            new == [at |-> "allow", ip |-> ip, nth |-> Len(made)]
<1>2. /\ buckets' = [buckets EXCEPT ![ip] = made]
      /\ tracked' = [tracked EXCEPT ![ip] = TRUE]
      /\ job' = [job EXCEPT ![w] = new]
      /\ UNCHANGED <<time, admitted>>
  BY <1>1 DEF IPLookup
<1>3. new.at = "allow" /\ new.ip = ip /\ new.nth = Len(made)
  OBVIOUS
<1>4. buckets[ip] \in Seq(Bucket) /\ NewTokenBucket(IPCap) \in Bucket /\ Len(buckets[ip]) \in Nat
  BY <1>1, NewBucketOK, Caps DEF LimTypeOK
<1>5. ~tracked[ip] => /\ Len(made) = Len(buckets[ip]) + 1
                      /\ made[Len(made)] = NewTokenBucket(IPCap)
  BY <1>4, Appended
<1>6. tracked[ip] => made = buckets[ip]
  OBVIOUS
<1>. HIDE DEF made, new
<1>7. \A v \in Worker : job'[v] = IF v = w THEN new ELSE job[v]
  BY <1>2 DEF LimTypeOK
<1>8. /\ buckets'[ip] = made /\ tracked'[ip] = TRUE
      /\ \A x \in IP : x # ip => buckets'[x] = buckets[x] /\ tracked'[x] = tracked[x]
  BY <1>1, <1>2 DEF LimTypeOK
<1>9. ASSUME NEW x \in IP, x # ip PROVE AddressInv(x)'
  <2>1. Late(x)' = Late(x)
    BY <1>1, <1>3, <1>7, <1>8, <1>9 DEF Late
  <2>. QED  BY <1>2, <1>8, <1>9, <2>1, AddressKept, Zenon DEF PerIPInv, Current
<1>10. Late(ip)' = Late(ip) /\ w \notin Late(ip)
  <2>1. \A v \in Worker : v \in Late(ip)' <=> v \in Late(ip)
    <3>. SUFFICES ASSUME NEW v \in Worker PROVE v \in Late(ip)' <=> v \in Late(ip)
      OBVIOUS
    <3>1. CASE v = w
      BY <1>1, <1>3, <1>7, <1>8, <3>1 DEF Late
    <3>2. CASE v # w /\ tracked[ip]
      BY <1>6, <1>7, <1>8, <3>2 DEF Late
    <3>3. CASE v # w /\ ~tracked[ip]
      <4>1. job[v].at = "allow" /\ job[v].ip = ip => job[v].nth \in 1 .. Len(buckets[ip])
        BY DEF MadeInv
      <4>2. job[v].at = "allow" /\ job[v].ip = ip => job[v].nth # Len(made)
        BY <1>4, <1>5, <3>3, <4>1
      <4>. QED  BY <1>7, <1>8, <3>3, <4>2 DEF Late
    <3>. QED  BY <3>1, <3>2, <3>3 DEF LimTypeOK
  <2>2. Late(ip) \subseteq Worker /\ Late(ip)' \subseteq Worker
    BY DEF Late
  <2>. QED  BY <1>1, <2>1, <2>2 DEF Late
<1>11. AddressInv(ip)'
  <2>1. CASE tracked[ip]
    BY <1>1, <1>2, <1>6, <1>8, <1>10, <2>1, AddressKept, Zenon DEF PerIPInv, Current
  <2>2. CASE ~tracked[ip]
    <3>. DEFINE N == Cardinality(Worker)
                L == Cardinality(Late(ip))
    <3>1. Current(ip)' = [tokens |-> IPCap, last |-> time]
      BY <1>5, <1>8, <2>2 DEF Current, NewTokenBucket
    <3>2. Current(ip)'.tokens = IPCap /\ Current(ip)'.last = time
      BY <3>1
    <3>3. L \in Nat /\ L <= N - 1 /\ N \in Nat /\ IPCap \in Nat
      BY <1>1, <1>10, Numbers, SomeWorkers, Workers, Zenon
    <3>4. AddressInv(ip) /\ \A t \in Time : admitted[ip][t] \in Nat
      BY <1>1, Numbers DEF PerIPInv
    <3>5. \A t \in Time : t > time => admitted[ip][t] + L <= N - 1
      BY <3>3, <3>4 DEF AddressInv
    <3>6. ASSUME NEW t \in Time, t <= time
          PROVE  IPCap + admitted[ip][t] + L <= IPCap + UDPPerIPRate * (time - t) + Spare
      <4>1. admitted[ip][t] + L <= UDPPerIPRate * (time - t) + Spare
        BY <2>2, <3>4, <3>6 DEF AddressInv, UntrackedInv
      <4>2. time \in Nat /\ UDPPerIPRate \in Nat /\ t \in Nat /\ Spare \in Nat
        BY <1>1, Numbers, Workers
      <4>3. UDPPerIPRate * (time - t) \in Nat
        BY <3>6, <4>2, TimesNat
      <4>. HIDE DEF L, N
      <4>. QED  BY <3>3, <3>4, <4>1, <4>2, <4>3
    <3>7. TrackedInv(ip)'
      <4>1. admitted' = admitted /\ Late(ip)' = Late(ip) /\ IPCap <= IPCap
        BY <1>2, <1>10, <3>3
      <4>2. Current(ip)'.tokens <= IPCap
        BY <3>2, <4>1
      <4>3. \A t \in Time : t > Current(ip)'.last =>
              admitted'[ip][t] + Cardinality(Late(ip)') <= Cardinality(Worker) - 1
        BY <3>2, <3>5, <4>1
      <4>4. \A t \in Time : t <= Current(ip)'.last =>
              Current(ip)'.tokens + admitted'[ip][t] + Cardinality(Late(ip)')
                <= IPCap + UDPPerIPRate * (Current(ip)'.last - t) + Spare
        BY <3>2, <3>6, <4>1, Zenon
      <4>. QED  BY <4>2, <4>3, <4>4, Zenon DEF TrackedInv
    <3>. QED  BY <1>2, <1>8, <3>4, <3>7 DEF AddressInv
  <2>. QED  BY <2>1, <2>2
<1>. QED  BY <1>9, <1>11 DEF PerIPInv

\* The accounts of a late worker and of one that is not, as sums.
LEMMA LateTakes ==
  ASSUME NEW a \in Nat, NEW b \in Nat, NEW l \in Nat, NEW m \in Nat, NEW n \in Nat,
         m = l - 1, b = a \/ b = a + 1
  PROVE  /\ a + l <= n => b + m <= n
         /\ \A h \in Nat : h + a + l <= n => h + b + m <= n
OBVIOUS

LEMMA TokenTaken ==
  ASSUME NEW h \in Nat, NEW k \in Nat, NEW a \in Nat, NEW b \in Nat, NEW l \in Nat, NEW n \in Nat,
         \/ b = a /\ k <= h
         \/ b = a + 1 /\ k + 1 = h,
         h + a + l <= n
  PROVE  k + b + l <= n
OBVIOUS

\* The account of an address after a bucket gave a token or refused it.  A
\* late worker uses up its own place in the account; any other the bucket's.
LEMMA PerIPAllow ==
  ASSUME LimTypeOK, MadeInv, PerIPInv, NEW w \in Worker, IPAllow(w)
  PROVE  PerIPInv'
<1>1. PICK ip \in IP : ip = job[w].ip /\ job[w].at = "allow"
  BY JobOK, Zenon DEF LimTypeOK, IPAllow
<1>2. PICK n \in Nat : n = job[w].nth /\ n \in 1 .. Len(buckets[ip])
  BY <1>1, JobOK DEF LimTypeOK, MadeInv
<1>. DEFINE b == buckets[ip][n]
            left == After(b, UDPPerIPRate, IPCap)
            gives == Gives(b, UDPPerIPRate, IPCap)
<1>3. /\ buckets' = [buckets EXCEPT ![ip][n] = left]
      /\ admitted' = IF gives THEN [admitted EXCEPT ![ip] = Counted(admitted[ip])] ELSE admitted
      /\ job' = [job EXCEPT ![w] = [at |-> "idle"]]
      /\ UNCHANGED <<time, tracked>>
  BY <1>1, <1>2 DEF IPAllow
<1>. HIDE DEF left, gives, b
<1>4. /\ buckets[ip] \in Seq(Bucket) /\ Len(buckets[ip]) \in Nat
      /\ buckets'[ip] = [buckets[ip] EXCEPT ![n] = left]
      /\ \A x \in IP : x # ip => buckets'[x] = buckets[x]
  <2>1. buckets[ip] \in Seq(Bucket) /\ Len(buckets[ip]) \in Nat
    BY <1>1 DEF LimTypeOK
  <2>2. \A x \in IP : buckets'[x] = IF x = ip THEN [buckets[ip] EXCEPT ![n] = left] ELSE buckets[x]
    BY <1>1, <1>3 DEF LimTypeOK
  <2>. QED  BY <1>1, <2>1, <2>2
<1>5. /\ Len(buckets'[ip]) = Len(buckets[ip])
      /\ buckets'[ip][n] = left
      /\ \A m \in 1 .. Len(buckets[ip]) : m # n => buckets'[ip][m] = buckets[ip][m]
  <2>1. b \in Bucket /\ b.last <= time /\ time \in Time
    BY <1>2, <1>4, SMTT(30) DEF LimTypeOK, MadeInv, b
  <2>2. left \in Bucket
    BY <2>1, LimitsAssumption, Caps, RefilledOK DEF left
  <2>. QED  BY <1>2, <1>4, <2>2, SMTT(30)
<1>6. /\ admitted'[ip] = IF gives THEN Counted(admitted[ip]) ELSE admitted[ip]
      /\ \A x \in IP : x # ip => admitted'[x] = admitted[x]
  BY <1>1, <1>3 DEF LimTypeOK
<1>7. \A v \in Worker : job'[v] = IF v = w THEN [at |-> "idle"] ELSE job[v]
  BY <1>3 DEF LimTypeOK
<1>8. ASSUME NEW x \in IP, x # ip PROVE AddressInv(x)'
  <2>1. Late(x)' = Late(x)
    BY <1>1, <1>3, <1>4, <1>7, <1>8 DEF Late
  <2>. QED  BY <1>3, <1>4, <1>6, <1>8, <2>1, AddressKept DEF PerIPInv, Current
<1>9. Late(ip)' = Late(ip) \ {w}
  <2>1. ASSUME NEW v \in Worker, v # w PROVE v \in Late(ip)' <=> v \in Late(ip)
    BY <1>3, <1>5, <1>7, <2>1 DEF Late
  <2>2. w \notin Late(ip)'
    BY <1>7 DEF Late
  <2>3. Late(ip) \subseteq Worker /\ Late(ip)' \subseteq Worker
    BY DEF Late
  <2>. QED  BY <2>1, <2>2, <2>3
<1>10. /\ AddressInv(ip) /\ time \in Nat /\ time \in Time /\ Time \subseteq Nat
       /\ UDPPerIPRate \in Nat /\ IPCap \in Nat /\ Spare \in Nat
       /\ Late(ip) \subseteq Worker /\ Cardinality(Late(ip)) \in Nat
       /\ \A t \in Time : admitted[ip][t] \in Nat
  BY <1>1, Numbers, Workers DEF PerIPInv
<1>11. ASSUME NEW t \in Time
       PROVE  /\ t \in Nat /\ admitted[ip][t] \in Nat /\ admitted'[ip][t] \in Nat
              /\ admitted'[ip][t] = admitted[ip][t] \/ (gives /\ admitted'[ip][t] = admitted[ip][t] + 1)
              /\ t > time => admitted'[ip][t] = 0
  <2>1. t \in Nat /\ time \in Nat /\ admitted[ip][t] \in Nat
    BY <1>10
  <2>2. t > time => admitted[ip][t] = 0
    BY <1>10 DEF AddressInv
  <2>3. CASE ~gives
    BY <1>6, <2>1, <2>2, <2>3
  <2>4. CASE gives
    <3>1. admitted'[ip][t] = IF t <= time THEN admitted[ip][t] + 1 ELSE admitted[ip][t]
      BY <1>6, <2>4 DEF Counted
    <3>. QED  BY <2>1, <2>2, <2>4, <3>1
  <2>. QED  BY <2>3, <2>4
<1>12. /\ time' = time /\ tracked'[ip] = tracked[ip]
       /\ \A t \in Time : t > time => admitted'[ip][t] = 0
  BY <1>3, <1>11
<1>13. ASSUME w \in Late(ip) PROVE AddressInv(ip)'
  <2>. DEFINE L == Cardinality(Late(ip))
              M == Cardinality(Late(ip)')
  <2>1. M = L - 1 /\ M \in Nat /\ L \in Nat
    <3>1. Late(ip)' \subseteq Worker
      BY <1>9, <1>10
    <3>. QED  BY <1>9, <1>10, <1>13, <3>1, SomeWorkers
  <2>2. ASSUME NEW t \in Time
        PROVE  admitted'[ip][t] + M <= admitted[ip][t] + L
    BY <1>11, <2>1
  <2>3. tracked[ip] => Current(ip)' = Current(ip)
    <3>1. tracked[ip] => Len(buckets[ip]) \in 1 .. Len(buckets[ip]) /\ n # Len(buckets[ip])
      BY <1>1, <1>2, <1>13, Numbers DEF Late
    <3>. QED  BY <1>5, <3>1 DEF Current
  <2>4. CASE tracked[ip]
    <3>. DEFINE c == Current(ip)
    <3>1. TrackedInv(ip) /\ c.tokens \in Nat /\ c.last \in Nat
      BY <1>10, <2>4, Numbers DEF AddressInv
    <3>2. ASSUME NEW t \in Time, t > c.last PROVE admitted'[ip][t] + M <= Cardinality(Worker) - 1
      <4>1. admitted[ip][t] + L <= Cardinality(Worker) - 1
        BY <3>1, <3>2 DEF TrackedInv
      <4>2. Cardinality(Worker) - 1 \in Nat
        BY Workers
      <4>. HIDE DEF L, M
      <4>. QED  BY <1>11, <2>1, <3>1, <4>1, <4>2, LateTakes
    <3>3. ASSUME NEW t \in Time, t <= c.last
          PROVE  c.tokens + admitted'[ip][t] + M <= IPCap + UDPPerIPRate * (c.last - t) + Spare
      <4>1. c.tokens + admitted[ip][t] + L <= IPCap + UDPPerIPRate * (c.last - t) + Spare
        BY <3>1, <3>3 DEF TrackedInv
      <4>2. /\ t \in Nat /\ UDPPerIPRate \in Nat /\ IPCap \in Nat /\ Spare \in Nat
            /\ admitted[ip][t] \in Nat /\ admitted'[ip][t] \in Nat
            /\ admitted'[ip][t] + M <= admitted[ip][t] + L
        BY <1>10, <1>11, <2>2
      <4>. DEFINE top == IPCap + UDPPerIPRate * (c.last - t) + Spare
      <4>3. top \in Nat
        <5>1. UDPPerIPRate * (c.last - t) \in Nat
          <6>. HIDE DEF c
          <6>1. c.last - t \in Nat
            BY <3>1, <3>3, <4>2
          <6>. QED  BY <4>2, <6>1, TimesNat
        <5>. QED  BY <4>2, <5>1
      <4>4. c.tokens + admitted[ip][t] + L <= top
        BY <4>1
      <4>. HIDE DEF c, L, M, top
      <4>5. c.tokens + admitted'[ip][t] + M <= top
        <5>1. admitted'[ip][t] = admitted[ip][t] \/ admitted'[ip][t] = admitted[ip][t] + 1
          BY <1>11
        <5>. QED  BY <2>1, <3>1, <4>2, <4>3, <4>4, <5>1, LateTakes
      <4>. QED  BY <4>5 DEF top
    <3>4. c.tokens <= IPCap
      BY <3>1 DEF TrackedInv
    <3>5. TrackedInv(ip)'
      BY <2>3, <2>4, <3>2, <3>3, <3>4 DEF TrackedInv, Spare
    <3>. QED  BY <1>12, <2>4, <3>5 DEF AddressInv
  <2>5. CASE ~tracked[ip]
    <3>1. ASSUME NEW t \in Time, t <= time
          PROVE  admitted'[ip][t] + M <= UDPPerIPRate * (time - t) + Spare
      <4>1. admitted[ip][t] + L <= UDPPerIPRate * (time - t) + Spare
        BY <1>10, <2>5, <3>1, Zenon DEF AddressInv, UntrackedInv
      <4>2. t \in Nat /\ time \in Nat /\ UDPPerIPRate \in Nat /\ Spare \in Nat
        BY <1>10, <1>11
      <4>3. UDPPerIPRate * (time - t) \in Nat
        BY <3>1, <4>2, TimesNat
      <4>. DEFINE top == UDPPerIPRate * (time - t) + Spare
      <4>4. top \in Nat /\ admitted[ip][t] + L <= top
        BY <4>1, <4>2, <4>3
      <4>. HIDE DEF L, M, top
      <4>5. admitted'[ip][t] + M <= top
        BY <1>11, <2>1, <4>2, <4>4, LateTakes
      <4>. QED  BY <4>5 DEF top
    <3>2. UntrackedInv(ip)'
      BY <1>12, <3>1 DEF UntrackedInv, Spare
    <3>. QED  BY <1>12, <2>5, <3>2 DEF AddressInv
  <2>. QED  BY <2>4, <2>5
<1>14. ASSUME w \notin Late(ip) PROVE AddressInv(ip)'
  <2>. DEFINE R == UDPPerIPRate
              L == Cardinality(Late(ip))
              held == Refilled(b, R, IPCap)
  <2>1. tracked[ip] /\ n = Len(buckets[ip]) /\ b = Current(ip) /\ Current(ip)' = left
    BY <1>1, <1>2, <1>5, <1>14, Zenon DEF Late, Current, b
  <2>2. Late(ip)' = Late(ip) /\ L <= Cardinality(Worker) - 1 /\ L \in Nat
    BY <1>9, <1>10, <1>14, SomeWorkers
  <2>3. b \in Bucket /\ b.tokens \in Nat /\ b.last \in Nat /\ b.last <= time
    BY <2>1, Numbers
  <2>4. held \in Nat /\ held <= IPCap /\ held <= b.tokens + (time - b.last) * R
    BY <1>10, <2>3, RefilledOK, Zenon
  <2>5. /\ left.last = time /\ left.tokens \in Nat /\ left.tokens <= held
        /\ gives => left.tokens + 1 = held
    BY <2>4 DEF left, gives, After, Gives
  <2>6. TrackedInv(ip)
    BY <1>10, <2>1 DEF AddressInv
  <2>7. ASSUME NEW t \in Time, t <= time
        PROVE  held + admitted[ip][t] + L <= IPCap + R * (time - t) + Spare
    <3>1. /\ t \in Nat /\ admitted[ip][t] \in Nat /\ time \in Nat
          /\ R \in Nat /\ IPCap \in Nat /\ Spare \in Nat
      BY <1>10, <1>11
    <3>2. CASE t <= b.last
      <4>1. b.tokens + admitted[ip][t] + L <= IPCap + R * (b.last - t) + Spare
        BY <2>1, <2>6, <3>2, Zenon DEF TrackedInv
      <4>. HIDE DEF b, R, L, held
      <4>2. /\ R * (b.last - t) + (time - b.last) * R = R * (time - t)
            /\ R * (b.last - t) \in Nat /\ (time - b.last) * R \in Nat
        BY <2>3, <3>1, <3>2, Stretches
      <4>. DEFINE x == R * (b.last - t)
                  y == (time - b.last) * R
                  z == R * (time - t)
      <4>3. /\ x + y = z /\ x \in Nat /\ y \in Nat
            /\ b.tokens + admitted[ip][t] + L <= IPCap + x + Spare
            /\ held <= b.tokens + y
        BY <2>4, <4>1, <4>2
      <4>4. /\ L \in Nat /\ b.tokens \in Nat /\ held \in Nat
            /\ admitted[ip][t] \in Nat /\ IPCap \in Nat /\ Spare \in Nat
        BY <2>2, <2>3, <2>4, <3>1
      <4>. HIDE DEF x, y, z
      <4>5. z \in Nat /\ IPCap + x + Spare + y = IPCap + z + Spare
        BY <4>3, <4>4
      <4>6. held + admitted[ip][t] + L <= b.tokens + admitted[ip][t] + L + y
        BY <4>3, <4>4
      <4>7. held + admitted[ip][t] + L <= IPCap + z + Spare
        BY <4>3, <4>4, <4>5, <4>6
      <4>. QED  BY <4>7 DEF z
    <3>3. CASE t > b.last
      <4>1. admitted[ip][t] + L <= Cardinality(Worker) - 1
        BY <2>1, <2>6, <3>3 DEF TrackedInv
      <4>2. Cardinality(Worker) - 1 <= Spare /\ Cardinality(Worker) \in Nat
        BY Workers DEF Spare
      <4>3. R * (time - t) \in Nat
        BY <2>7, <3>1, TimesNat
      <4>. DEFINE z == R * (time - t)
      <4>. HIDE DEF R, L, held
      <4>4. /\ L \in Nat /\ held \in Nat /\ held <= IPCap /\ z \in Nat
            /\ admitted[ip][t] \in Nat /\ IPCap \in Nat /\ Spare \in Nat
        BY <2>2, <2>4, <3>1, <4>3
      <4>. HIDE DEF z
      <4>5. admitted[ip][t] + L <= Spare
        BY <4>1, <4>2, <4>4
      <4>6. held + admitted[ip][t] + L <= IPCap + z + Spare
        BY <4>4, <4>5
      <4>. QED  BY <4>6 DEF z
    <3>4. t <= b.last \/ t > b.last
      BY <2>3, <3>1
    <3>. QED  BY <3>2, <3>3, <3>4, Zenon
  <2>8. ASSUME NEW t \in Time, t <= time
        PROVE  left.tokens + admitted'[ip][t] + L <= IPCap + R * (time - t) + Spare
    <3>1. /\ t \in Nat /\ admitted[ip][t] \in Nat /\ admitted'[ip][t] \in Nat /\ time \in Nat
          /\ R \in Nat /\ IPCap \in Nat /\ Spare \in Nat
      BY <1>10, <1>11
    <3>2. R * (time - t) \in Nat
      BY <2>8, <3>1, TimesNat
    <3>. DEFINE top == IPCap + R * (time - t) + Spare
    <3>3. top \in Nat /\ held + admitted[ip][t] + L <= top
      <4>1. held + admitted[ip][t] + L <= top
        BY <2>7, <2>8, Zenon
      <4>. DEFINE z == R * (time - t)
      <4>2. z \in Nat
        BY <3>2
      <4>. HIDE DEF z
      <4>3. IPCap + z + Spare \in Nat
        BY <3>1, <4>2
      <4>. QED  BY <4>1, <4>3, Zenon DEF z
    <3>4. \/ admitted'[ip][t] = admitted[ip][t] /\ left.tokens <= held
          \/ admitted'[ip][t] = admitted[ip][t] + 1 /\ left.tokens + 1 = held
      BY <1>11, <2>5, Zenon
    <3>. HIDE DEF R, L, held, top
    <3>5. left.tokens + admitted'[ip][t] + L <= top
      BY <2>2, <2>4, <2>5, <3>1, <3>3, <3>4, TokenTaken
    <3>. QED  BY <3>5 DEF top
  <2>9. ASSUME NEW t \in Time, t > time
        PROVE  admitted'[ip][t] + L <= Cardinality(Worker) - 1
    <3>1. admitted'[ip][t] = 0
      BY <1>11, <2>9
    <3>2. 0 + L = L
      BY <2>2
    <3>. QED  BY <2>2, <3>1, <3>2
  <2>10. left.tokens <= IPCap
    <3>. HIDE DEF held
    <3>. QED  BY <1>10, <2>4, <2>5
  <2>11. TrackedInv(ip)'
    BY <2>1, <2>2, <2>5, <2>8, <2>9, <2>10, Zenon DEF TrackedInv, Spare
  <2>. QED  BY <1>12, <2>1, <2>11 DEF AddressInv
<1>. QED  BY <1>8, <1>13, <1>14 DEF PerIPInv

LEMMA PerIPStep ==
  LimTypeOK /\ MadeInv /\ PerIPInv /\ [LimNext]_limVars => PerIPInv'
<1>. SUFFICES ASSUME LimTypeOK, MadeInv, PerIPInv, [LimNext]_limVars PROVE PerIPInv'
  OBVIOUS
<1>1. CASE UNCHANGED limVars
  BY <1>1, ZenonT(30) DEF limVars, PerIPInv, AddressInv, TrackedInv, UntrackedInv, Late, Current, Spare
<1>. QED
  BY <1>1, PerIPConnect, PerIPLookup, PerIPAllow, PerIPCleanup, PerIPTime DEF LimNext

\* In every window of time no more CONNECTs of one source address are admitted
\* than its burst and its rate allow and two for each worker, less one,
\* although Cleanup drops its bucket under the workers that have it in hand
\* (IPLimiter.Allow, Cleanup).
THEOREM PerIPLimitKept == LimSpec => []PerIPBound
<1>1. LimInit => LimTypeOK /\ MadeInv /\ PerIPInv
  BY LimInitOK, PerIPInit
<1>2. LimTypeOK /\ MadeInv /\ PerIPInv /\ [LimNext]_limVars =>
        LimTypeOK' /\ MadeInv' /\ PerIPInv'
  BY LimStepType, PerIPStep
<1>3. LimTypeOK /\ MadeInv /\ PerIPInv => PerIPBound
  BY PerIPHolds
<1>. QED  BY <1>1, <1>2, <1>3, PTL DEF LimSpec
=============================================================================
