-------------------------- MODULE RateLimitProofs ---------------------------
(***************************************************************************)
(* Proofs about the rate limiter: for any number of clients and requests,  *)
(* any burst and rate, and any interleaving of their steps with the        *)
(* cleanup, a client is served exactly as by one token bucket that is      *)
(* never forgotten.                                                        *)
(*                                                                         *)
(* The bucket of a client is compared with the history of its passes:      *)
(* Within says it never has more than that one bucket would have, Spent    *)
(* that it has no less unless it is full. CreditInv carries both through   *)
(* the eviction of an idle client, which is where the model's assumption   *)
(* about EntryTTL is needed: a client that is forgotten has been idle for  *)
(* as long as its bucket takes to fill, even though lastSeen may go back   *)
(* and a request may pass later than it was seen.                          *)
(***************************************************************************)
EXTENDS RateLimit, SequenceTheorems, TLAPS

(* What m tokens cost, in credit.                                          *)
Cost(m, every) == m * every

(* KeepsRate, with the size of a full bucket for burst * every.            *)
Keeps(times, cap, every) ==
    \A i, j \in 1..Len(times) :
        i <= j => Cost(j - i + 1, every) <= cap + times[j] - times[i]

(* The credit of a bucket, against all its tokens were taken for: at most  *)
(* what one bucket would have left, and exactly that unless it is full.    *)
Within(b, times, cap, every) ==
    \A i \in 1..Len(times) :
        b.credit + Cost(Len(times) - i + 1, every) <= cap + b.at - times[i]

Spent(b, times, cap, every) ==
    \/ b.credit = cap
    \/ \E i \in 1..Len(times) :
          b.credit + Cost(Len(times) - i + 1, every) >= cap + b.at - times[i]

(* The global bucket is at most what one bucket would have left.           *)
GlobalInv ==
    /\ global.at <= now
    /\ Keeps(admitted, GlobalBurst * GlobalEvery, GlobalEvery)
    /\ Within(global, admitted, GlobalBurst * GlobalEvery, GlobalEvery)

(* A request that is inside was let in a short time ago, and its key is the *)
(* address of its client.                                                  *)
InsideInv ==
    \A r \in Requests :
        /\ pc[r] \in {"get", "allow"} =>
              seen[r] <= now /\ now <= seen[r] + Stall
        /\ pc[r] \in {"get", "allow", "served", "limited"} =>
              client[r] \in Clients /\ key[r] = client[r]

(* The bucket a request was given is still its client's.                   *)
HeldInv ==
    \A r \in Requests : pc[r] = "allow" =>
        /\ held[r] \in Requests /\ entry[key[r]] = held[r]
        /\ seen[r] <= lastSeen[key[r]] + Stall

(* Nobody shares a bucket.                                                 *)
EntryInv ==
    \A k \in Keys : entry[k] # None =>
        key[entry[k]] = k /\ pc[entry[k]] \in {"allow", "served", "limited"}

(* A client that got through was seen at most two stalls before.           *)
SeenInv ==
    \A c \in Clients : \A i \in 1..Len(passed[c]) :
        passed[c][i] <= now /\ passed[c][i] <= lastSeen[c] + 2 * Stall

(* A client without a bucket is as good as one with a full one.            *)
CreditInv ==
    \A c \in Clients :
        /\ Keeps(passed[c], Burst * Every, Every)
        /\ entry[c] = None =>
              \A i \in 1..Len(passed[c]) :
                  Cost(Len(passed[c]) - i + 1, Every) <= now - passed[c][i]
        /\ entry[c] # None =>
              /\ bucket[entry[c]].at <= now
              /\ Within(bucket[entry[c]], passed[c], Burst * Every, Every)
              /\ Spent(bucket[entry[c]], passed[c], Burst * Every, Every)

(* The inductive invariant.                                                *)
RateInv == TypeOK /\ GlobalInv /\ InsideInv /\ HeldInv /\ EntryInv /\ SeenInv /\ CreditInv

-----------------------------------------------------------------------------
(* Token buckets.                                                          *)

(* Cost, without its product.                                              *)
LEMMA CostProperties ==
    ASSUME NEW m \in Int, NEW e \in Int
    PROVE  /\ Cost(m, e) \in Int
           /\ Cost(m + 1, e) = Cost(m, e) + e
           /\ Cost(1, e) = e
  BY DEF Cost

(* A full bucket holds a token.                                            *)
LEMMA CapType ==
    ASSUME NEW burst \in Nat \ {0}, NEW every \in Nat \ {0}
    PROVE  burst * every \in Nat /\ burst * every >= every
<1>1. burst - 1 \in Nat
  OBVIOUS
<1>2. (burst - 1) * every \in Nat
  BY <1>1
<1>3. ((burst - 1) + 1) * every = (burst - 1) * every + every
  BY <1>1
<1>4. (burst - 1) + 1 = burst
  OBVIOUS
<1> QED
  BY <1>2, <1>3, <1>4

(* The property, in terms of a full bucket.                                *)
LEMMA KeepsIsKeepsRate ==
    ASSUME NEW times, NEW burst, NEW every
    PROVE  KeepsRate(times, burst, every) <=> Keeps(times, burst * every, every)
  BY DEF KeepsRate, Keeps, Cost

(* Append, as the proofs below use it.                                     *)
LEMMA Appended ==
    ASSUME NEW S, NEW q \in Seq(S), NEW x \in S
    PROVE  /\ Append(q, x) \in Seq(S) /\ Len(q) \in Nat /\ Len(Append(q, x)) = Len(q) + 1
           /\ \A i \in 1..Len(q) : Append(q, x)[i] = q[i]
           /\ Append(q, x)[Len(q) + 1] = x
           /\ \A i \in 1..Len(q) + 1 : i \in 1..Len(q) \/ i = Len(q) + 1
  BY AppendProperties

(* What a token taken at time t leaves.                                    *)
LEMMA TakeKeepsRate ==
    ASSUME NEW cap \in Int, NEW every \in Int, NEW t \in Nat,
           NEW times \in Seq(Nat), NEW b, b.credit \in Int, b.at \in Int,
           NEW c \in Int, c <= cap, c <= b.credit + (t - b.at), c >= every,
           NEW d, d.credit = c - every, d.at = t,
           Keeps(times, cap, every), Within(b, times, cap, every)
    PROVE  /\ Keeps(Append(times, t), cap, every)
           /\ Within(d, Append(times, t), cap, every)
<1>0. PICK credit, at \in Int : credit = b.credit /\ at = b.at
  OBVIOUS
<1>0a. c <= credit + (t - at) /\ credit \in Int /\ at \in Int /\ t \in Int
  BY <1>0
<1> DEFINE new == Append(times, t)
<1>3. /\ Len(times) \in Nat /\ Len(new) = Len(times) + 1
      /\ \A i \in 1..Len(times) : new[i] = times[i] /\ times[i] \in Nat
      /\ new[Len(times) + 1] = t
      /\ \A i \in 1..Len(new) : i \in 1..Len(times) \/ i = Len(times) + 1
  BY Appended
<1> HIDE DEF new
<1>4. ASSUME NEW i \in 1..Len(new)
      PROVE  (c - every) + Cost(Len(new) - i + 1, every) <= cap + t - new[i]
  <2>1. CASE i \in 1..Len(times)
    <3>0. Len(times) - i + 1 \in Int /\ (Len(times) - i + 1) + 1 = Len(new) - i + 1
      BY <1>3
    <3>1. PICK m \in Int : m = Len(times) - i + 1 /\ m + 1 = Len(new) - i + 1
      BY <3>0
    <3>2. Cost(m, every) \in Int /\ Cost(m + 1, every) = Cost(m, every) + every
      BY CostProperties
    <3>3. credit + Cost(m, every) <= cap + at - times[i]
      BY <1>0, <2>1, <3>1 DEF Within
    <3>4. PICK x \in Int : x = times[i] /\ x = new[i]
      BY <1>3, <2>1
    <3>5. credit + Cost(m, every) <= cap + at - x
      BY <3>3, <3>4
    <3>6. (c - every) + Cost(m + 1, every) <= cap + t - x
      BY ONLY <1>0a, <3>2, <3>5, x \in Int, t \in Int, c \in Int, every \in Int, cap \in Int
    <3> QED
      BY <3>1, <3>4, <3>6
  <2>2. CASE i = Len(times) + 1
    <3>1. Len(new) - i + 1 = 1 /\ new[i] = t
      BY <1>3, <2>2
    <3>2. Cost(1, every) = every
      BY CostProperties
    <3> QED
      BY <3>1, <3>2
  <2> QED
    BY <1>3, <2>1, <2>2
<1>5. Within(d, new, cap, every)
  BY <1>4 DEF Within
<1>6. ASSUME NEW i \in 1..Len(new), NEW j \in 1..Len(new), i <= j
      PROVE  Cost(j - i + 1, every) <= cap + new[j] - new[i]
  <2>1. CASE j \in 1..Len(times)
    <3>1. i \in 1..Len(times)
      BY <1>3, <1>6, <2>1
    <3>2. new[i] = times[i] /\ new[j] = times[j]
      BY <1>3, <2>1, <3>1
    <3>3. Cost(j - i + 1, every) <= cap + times[j] - times[i]
      BY <1>6, <2>1, <3>1 DEF Keeps
    <3> QED
      BY <3>2, <3>3
  <2>2. CASE j = Len(times) + 1
    <3>1. new[j] = t /\ j = Len(new) /\ new[i] \in Nat
      BY <1>3, <2>2
    <3>0. Len(new) - i + 1 \in Int
      BY <1>3
    <3>2. PICK m \in Int : m = Len(new) - i + 1
      BY <3>0
    <3>3. Cost(m, every) \in Int
      BY CostProperties
    <3>4. (c - every) + Cost(m, every) <= cap + t - new[i]
      BY <1>4, <3>2
    <3>5. Cost(m, every) <= cap + t - new[i]
      BY <3>1, <3>3, <3>4
    <3> QED
      BY <3>1, <3>2, <3>5
  <2> QED
    BY <1>3, <2>1, <2>2
<1>7. Keeps(new, cap, every)
  BY <1>6 DEF Keeps
<1> QED
  BY <1>5, <1>7 DEF new

(* A bucket grows to its burst and no further.                             *)
LEMMA Clamped ==
    ASSUME NEW cap \in Nat, NEW grown \in Nat, NEW c, c = IF grown > cap THEN cap ELSE grown
    PROVE  c \in 0..cap /\ c <= grown /\ (c = cap \/ (c = grown /\ c < cap))
  OBVIOUS

(* It takes no more than a token, and a bucket that was full is now known  *)
(* to be spent by the last pass.                                           *)
LEMMA TakeSpends ==
    ASSUME NEW cap \in Int, NEW every \in Int, NEW t \in Nat,
           NEW times \in Seq(Nat), NEW b, b.credit \in Int, b.at \in Int, b.at <= t,
           NEW c \in Int, c = cap \/ (c = b.credit + (t - b.at) /\ c < cap),
           NEW d, d.credit = c - every, d.at = t,
           Spent(b, times, cap, every)
    PROVE  Spent(d, Append(times, t), cap, every)
<1>0. PICK credit, at \in Int : credit = b.credit /\ at = b.at
  OBVIOUS
<1> DEFINE new == Append(times, t)
<1>3. /\ Len(times) \in Nat /\ Len(new) = Len(times) + 1
      /\ \A i \in 1..Len(times) : new[i] = times[i] /\ times[i] \in Nat
      /\ new[Len(times) + 1] = t
  BY Appended
<1> HIDE DEF new
<1>0b. c \in Int /\ every \in Int /\ cap \in Int /\ t \in Int /\ credit \in Int /\ at \in Int
  BY <1>0
<1>4. CASE c = cap
  <2>1. Len(new) \in 1..Len(new) /\ new[Len(new)] = t /\ Len(new) - Len(new) + 1 = 1
    BY <1>3
  <2>2. Cost(1, every) = every
    BY CostProperties
  <2>3. d.credit + Cost(Len(new) - Len(new) + 1, every) >= cap + d.at - new[Len(new)]
    BY <1>4, <2>1, <2>2
  <2> QED
    BY <2>1, <2>3 DEF Spent, new
<1>5. CASE c # cap
  <2>1. c = credit + (t - at) /\ credit # cap
    BY <1>0, <1>5
  <2>2. PICK i \in 1..Len(times) :
           credit + Cost(Len(times) - i + 1, every) >= cap + at - times[i]
    BY <1>0, <2>1 DEF Spent
  <2>30. Len(times) - i + 1 \in Int /\ (Len(times) - i + 1) + 1 = Len(new) - i + 1
    BY <1>3
  <2>3. PICK m \in Int : m = Len(times) - i + 1 /\ m + 1 = Len(new) - i + 1
    BY <2>30
  <2>4. Cost(m, every) \in Int /\ Cost(m + 1, every) = Cost(m, every) + every
    BY CostProperties
  <2>5. i \in 1..Len(new) /\ new[i] = times[i] /\ times[i] \in Nat
    BY <1>3
  <2>6. credit + Cost(m, every) >= cap + at - times[i]
    BY <2>2, <2>3
  <2>7. (c - every) + Cost(m + 1, every) >= cap + t - times[i]
    <3>1. PICK x \in Int : x = times[i]
      BY <2>5
    <3>2. credit + Cost(m, every) >= cap + at - x
      BY <2>6, <3>1
    <3>3. (c - every) + Cost(m + 1, every) >= cap + t - x
      BY ONLY <2>1, <2>4, <3>2, <1>0b, x \in Int
    <3> QED
      BY <3>1, <3>3
  <2>8. d.credit + Cost(Len(new) - i + 1, every) >= cap + d.at - new[i]
    BY <2>3, <2>5, <2>7
  <2> QED
    BY <2>5, <2>8 DEF Spent, new
<1> QED
  BY <1>4, <1>5

(* A fresh bucket, full at time t, for a client whose own would be.        *)
LEMMA FullIsWithin ==
    ASSUME NEW every \in Int, NEW t \in Nat, NEW times \in Seq(Nat), NEW cap \in Int,
           NEW d, d.credit = cap, d.at = t,
           \A i \in 1..Len(times) : Cost(Len(times) - i + 1, every) <= t - times[i]
    PROVE  Within(d, times, cap, every) /\ Spent(d, times, cap, every)
<1>1. ASSUME NEW i \in 1..Len(times)
      PROVE  cap + Cost(Len(times) - i + 1, every) <= cap + t - times[i]
  <2>0. Len(times) \in Nat
    BY LenProperties
  <2>00. Len(times) - i + 1 \in Int
    BY <2>0
  <2>1. PICK m \in Int : m = Len(times) - i + 1
    BY <2>00
  <2>2. Cost(m, every) \in Int
    BY CostProperties
  <2>3. times[i] \in Nat /\ Cost(m, every) <= t - times[i]
    BY <2>1
  <2>4. cap + Cost(m, every) <= cap + t - times[i]
    BY <2>2, <2>3
  <2> QED
    BY <2>1, <2>4
<1> QED
  BY <1>1 DEF Within, Spent

-----------------------------------------------------------------------------
(* Types, the global bucket, and where a request is.                       *)

(* What CreditAt, Allows and Take do with a bucket.                        *)
LEMMA TakeFacts ==
    ASSUME NEW burst \in Nat \ {0}, NEW every \in Nat \ {0},
           NEW b \in Buckets(burst, every), b.at <= now, now \in 0..MaxTime,
           NEW cap, cap = burst * every, NEW c, c = CreditAt(b, burst, every, now)
    PROVE  /\ cap \in Nat /\ every <= cap /\ b.credit \in 0..cap /\ b.at \in 0..MaxTime
           /\ c \in 0..cap /\ c <= b.credit + (now - b.at)
           /\ (c = cap \/ (c = b.credit + (now - b.at) /\ c < cap))
           /\ Take(b, burst, every).credit = c - every /\ Take(b, burst, every).at = now
           /\ Allows(b, burst, every) <=> c >= every
           /\ c >= every => Take(b, burst, every) \in Buckets(burst, every)
<1>1. cap \in Nat /\ every <= cap
  BY CapType
<1>2. b.credit \in 0..cap /\ b.at \in 0..MaxTime
  BY DEF Buckets
<1>3. /\ c \in 0..cap /\ c <= b.credit + (now - b.at)
      /\ (c = cap \/ (c = b.credit + (now - b.at) /\ c < cap))
  <2>0. b.credit + (now - b.at) \in Nat
    BY <1>2, RateAssumption
  <2>1. PICK grown \in Nat : grown = b.credit + (now - b.at)
    BY <2>0
  <2>2. c = IF grown > cap THEN cap ELSE grown
    BY <2>1 DEF CreditAt
  <2> QED
    BY <1>1, <2>1, <2>2, Clamped
<1>4. Take(b, burst, every) = [credit |-> c - every, at |-> now]
  BY DEF Take
<1>5. Allows(b, burst, every) <=> c >= every
  BY DEF Allows
<1>6. ASSUME c >= every PROVE [credit |-> c - every, at |-> now] \in Buckets(burst, every)
  <2>1. c - every \in 0..cap
    BY <1>1, <1>3, <1>6
  <2> QED
    BY <2>1 DEF Buckets
<1> QED
  BY <1>1, <1>2, <1>3, <1>4, <1>5, <1>6

(* The entries a cleanup leaves are entries that were there.               *)
LEMMA KeptEntries ==
    ASSUME TypeOK, NEW t \in 0..MaxTime
    PROVE  /\ Kept(t) \in [Keys -> Requests \cup {None}]
           /\ \A k \in Keys :
                 \/ Kept(t)[k] = entry[k]
                 \/ Kept(t)[k] = None /\ t - lastSeen[k] >= EntryTTL
<1>1. CASE t - lastCleanup >= CleanupEvery
  <2>1. Kept(t) = [k \in Keys |-> IF t - lastSeen[k] >= EntryTTL THEN None ELSE entry[k]]
    BY <1>1 DEF Kept
  <2> QED
    BY <2>1 DEF TypeOK
<1>2. CASE ~(t - lastCleanup >= CleanupEvery)
  BY <1>2 DEF TypeOK, Kept
<1> QED
  BY <1>1, <1>2

(* Every step keeps the types.                                             *)
LEMMA TypeInductive ==
    ASSUME TypeOK, GlobalInv, InsideInv, HeldInv, CreditInv, [Next]_vars
    PROVE  TypeOK'
<1> USE RateAssumption
<1>1. CASE Tick
  BY <1>1 DEF Tick, TypeOK
<1>2. ASSUME NEW r \in Requests, NEW c \in Clients, NEW q \in Arrivals(c), Admit(r, c, q)
      PROVE  TypeOK'
  <2>1. ClientIP(q) = c
    BY DEF ClientIP, Arrivals
  <2>2. global' \in Buckets(GlobalBurst, GlobalEvery)
    BY <1>2, TakeFacts DEF Admit, GlobalTake, TypeOK, GlobalInv
  <2>3. admitted' \in Seq(0..MaxTime)
    BY <1>2 DEF Admit, TypeOK
  <2>4. key' \in [Requests -> Keys \cup {None}] /\ client' \in [Requests -> Clients \cup {None}]
    BY <1>2, <2>1 DEF Admit, TypeOK, Keys
  <2> QED
    BY <1>2, <2>2, <2>3, <2>4 DEF Admit, TypeOK
<1>3. ASSUME NEW r \in Requests, Busy(r) \/ Limit(r) PROVE TypeOK'
  BY <1>3 DEF Busy, Limit, TypeOK
<1>4. ASSUME NEW r \in Requests, Get(r) PROVE TypeOK'
  <2>1. key[r] \in Keys /\ seen[r] \in 0..MaxTime
    BY <1>4 DEF Get, TypeOK, InsideInv, Keys
  <2>2. entry' \in [Keys -> Requests \cup {None}]
    BY <1>4, <2>1, KeptEntries DEF Get
  <2>3. bucket' \in [Requests -> Buckets(Burst, Every)]
    <3>1. Full(Burst, Every, now) \in Buckets(Burst, Every)
      BY CapType DEF Full, Buckets, TypeOK
    <3> QED
      BY <1>4, <3>1 DEF Get, TypeOK
  <2>4. held' \in [Requests -> Requests \cup {None}]
    BY <1>4, <2>1, <2>2 DEF Get, TypeOK
  <2> QED
    BY <1>4, <2>1, <2>2, <2>3, <2>4 DEF Get, Refresh, TypeOK
<1>5. ASSUME NEW r \in Requests, Serve(r) PROVE TypeOK'
  <2>1. held[r] \in Requests /\ client[r] \in Clients /\ entry[client[r]] = held[r]
    BY <1>5 DEF Serve, HeldInv, InsideInv
  <2>2. bucket[held[r]] \in Buckets(Burst, Every) /\ bucket[held[r]].at <= now
    BY <2>1 DEF TypeOK, CreditInv
  <2>3. Take(bucket[held[r]], Burst, Every) \in Buckets(Burst, Every)
    BY <1>5, <2>2, TakeFacts DEF Serve, TypeOK
  <2>4. passed' \in [Clients -> Seq(0..MaxTime)]
    BY <1>5, <2>1 DEF Serve, TypeOK
  <2> QED
    BY <1>5, <2>1, <2>3, <2>4 DEF Serve, TypeOK
<1>6. CASE UNCHANGED vars
  BY <1>6 DEF vars, TypeOK
<1> QED
  BY <1>1, <1>2, <1>3, <1>4, <1>5, <1>6 DEF Next

(* Only Admit charges the global bucket.                                   *)
LEMMA GlobalInductive ==
    ASSUME TypeOK, GlobalInv, [Next]_vars
    PROVE  GlobalInv'
<1> USE RateAssumption
<1>1. ASSUME UNCHANGED <<global, admitted>>, now' = now \/ now' = now + 1
      PROVE  GlobalInv'
  BY <1>1 DEF GlobalInv, TypeOK, Buckets
<1>2. ASSUME NEW r \in Requests, NEW c \in Clients, NEW q \in Arrivals(c), Admit(r, c, q)
      PROVE  GlobalInv'
  <2>1. /\ global' = Take(global, GlobalBurst, GlobalEvery) /\ admitted' = Append(admitted, now)
        /\ Allows(global, GlobalBurst, GlobalEvery) /\ now' = now
    BY <1>2 DEF Admit, GlobalTake
  <2>2. /\ global \in Buckets(GlobalBurst, GlobalEvery) /\ global.at <= now /\ now \in 0..MaxTime
        /\ GlobalBurst \in Nat \ {0} /\ GlobalEvery \in Nat \ {0}
    BY DEF TypeOK, GlobalInv
  <2>3. PICK cap, k : cap = GlobalBurst * GlobalEvery
                      /\ k = CreditAt(global, GlobalBurst, GlobalEvery, now)
    OBVIOUS
  <2>4. /\ cap \in Nat /\ global.credit \in 0..cap /\ global.at \in 0..MaxTime
        /\ k \in 0..cap /\ k <= global.credit + (now - global.at) /\ k >= GlobalEvery
        /\ global'.credit = k - GlobalEvery /\ global'.at = now
    BY <2>1, <2>2, <2>3, TakeFacts
  <2>5. admitted \in Seq(Nat) /\ now \in Nat
    BY DEF TypeOK
  <2>6. Keeps(admitted, cap, GlobalEvery) /\ Within(global, admitted, cap, GlobalEvery)
    BY <2>3 DEF GlobalInv
  <2>7. Keeps(admitted', cap, GlobalEvery) /\ Within(global', admitted', cap, GlobalEvery)
    <3>1. PICK d : d = global' /\ d.credit = k - GlobalEvery /\ d.at = now
      BY <2>4
    <3>2. /\ global.credit \in Int /\ global.at \in Int /\ cap \in Int /\ k \in Int
          /\ GlobalEvery \in Int
          /\ k <= cap
      BY <2>2, <2>4
    <3>3. /\ Keeps(Append(admitted, now), cap, GlobalEvery)
          /\ Within(d, Append(admitted, now), cap, GlobalEvery)
      BY <2>4, <2>5, <2>6, <3>1, <3>2, TakeKeepsRate
    <3> QED
      BY <2>1, <3>1, <3>3
  <2> QED
    BY <2>1, <2>2, <2>3, <2>4, <2>7 DEF GlobalInv
<1> QED
  BY <1>1, <1>2 DEF Next, Tick, Busy, Get, Serve, Limit, vars

(* The clock does not leave a request behind.                              *)
LEMMA InsideInductive ==
    ASSUME TypeOK, InsideInv, [Next]_vars
    PROVE  InsideInv'
<1> USE RateAssumption
<1>1. CASE Tick
  BY <1>1 DEF Tick, InsideInv, TypeOK
<1>2. ASSUME NEW r \in Requests, NEW c \in Clients, NEW q \in Arrivals(c), Admit(r, c, q)
      PROVE  InsideInv'
  <2>1. ClientIP(q) = c
    BY DEF ClientIP, Arrivals
  <2> QED
    BY <1>2, <2>1 DEF Admit, InsideInv, TypeOK
<1>3. ASSUME NEW r \in Requests, Busy(r) \/ Get(r) \/ Serve(r) \/ Limit(r) PROVE InsideInv'
  <2>1. /\ UNCHANGED <<now, seen, client, key>>
        /\ \A q \in Requests : q # r => pc'[q] = pc[q]
        /\ pc'[r] \in {"get", "allow"} => pc[r] \in {"get", "allow"}
        /\ pc'[r] \in {"get", "allow", "served", "limited"} => pc[r] \in {"get", "allow"}
    BY <1>3 DEF Busy, Get, Serve, Limit, TypeOK
  <2> QED
    BY <2>1 DEF InsideInv
<1>4. CASE UNCHANGED vars
  BY <1>4 DEF vars, InsideInv
<1> QED
  BY <1>1, <1>2, <1>3, <1>4 DEF Next

-----------------------------------------------------------------------------
(* The map of buckets, and what a request holds across its unlock.         *)

(* What is inside, in one place.                                           *)
LEMMA InsideFacts ==
    ASSUME TypeOK, InsideInv, HeldInv, NEW r \in Requests, pc[r] \in {"get", "allow"}
    PROVE  /\ client[r] \in Clients /\ client[r] \in Keys /\ key[r] = client[r]
           /\ seen[r] \in 0..MaxTime /\ now \in 0..MaxTime
           /\ seen[r] <= now /\ now <= seen[r] + Stall
           /\ lastSeen[client[r]] \in 0..MaxTime
           /\ pc[r] = "allow" =>
                 /\ held[r] \in Requests /\ entry[client[r]] = held[r] /\ held[r] # None
                 /\ seen[r] <= lastSeen[client[r]] + Stall
  BY RateAssumption DEF TypeOK, InsideInv, HeldInv, Keys

(* get does not forget a client that has a request waiting for its bucket. *)
LEMMA HeldIsKept ==
    ASSUME TypeOK, InsideInv, HeldInv, NEW r \in Requests, pc[r] = "get",
           NEW q \in Requests, pc[q] = "allow"
    PROVE  Kept(seen[r])[key[q]] = entry[key[q]]
<1>1. /\ key[q] \in Keys /\ seen[q] <= lastSeen[key[q]] + Stall /\ now <= seen[q] + Stall
      /\ lastSeen[key[q]] \in Int /\ seen[q] \in Int /\ now \in Int
  BY InsideFacts
<1>2. seen[r] \in 0..MaxTime /\ seen[r] <= now
  BY InsideFacts
<1>3. PICK cap \in Nat : cap = Burst * Every /\ cap >= Every
  BY CapType, RateAssumption
<1>4. EntryTTL >= cap + 2 * Stall /\ EntryTTL \in Nat /\ Stall \in Nat /\ cap > 0
  BY <1>3, RateAssumption
<1>5. ~ (seen[r] - lastSeen[key[q]] >= EntryTTL)
  BY <1>1, <1>2, <1>4
<1> QED
  BY <1>1, <1>2, <1>5, KeptEntries

(* What get does to the entries: one client gets a bucket, the others keep *)
(* theirs or are forgotten.                                                *)
LEMMA GetEntries ==
    ASSUME TypeOK, InsideInv, HeldInv, NEW r \in Requests, Get(r)
    PROVE  /\ \A k \in Keys : k # key[r] => entry'[k] = Kept(seen[r])[k]
           /\ entry'[key[r]] # None
           /\ \/ /\ Kept(seen[r])[key[r]] # None /\ entry'[key[r]] = Kept(seen[r])[key[r]]
                 /\ bucket' = bucket
              \/ /\ Kept(seen[r])[key[r]] = None /\ entry'[key[r]] = r
                 /\ bucket' = [bucket EXCEPT ![r] = Full(Burst, Every, now)]
           /\ held' = [held EXCEPT ![r] = entry'[key[r]]]
           /\ lastSeen' = [lastSeen EXCEPT ![key[r]] = seen[r]]
           /\ pc[r] = "get" /\ pc' = [pc EXCEPT ![r] = "allow"]
           /\ UNCHANGED <<now, key, client, seen, passed>>
<1>1. key[r] \in Keys /\ seen[r] \in 0..MaxTime
  BY InsideFacts DEF Get
<1>2. Kept(seen[r]) \in [Keys -> Requests \cup {None}]
  BY <1>1, KeptEntries
<1>3. r # None
  BY RateAssumption
<1> QED
  BY <1>1, <1>2, <1>3 DEF Get, Refresh

(* A bucket that a request was given stays in the map until the request    *)
(* has used it.                                                            *)
LEMMA HeldInductive ==
    ASSUME TypeOK, InsideInv, HeldInv, [Next]_vars
    PROVE  HeldInv'
<1> USE RateAssumption
<1>1. ASSUME UNCHANGED <<entry, lastSeen, held>>,
             \A q \in Requests : pc'[q] = "allow" =>
                 pc[q] = "allow" /\ key'[q] = key[q] /\ seen'[q] = seen[q]
      PROVE  HeldInv'
  BY <1>1 DEF HeldInv
<1>2. CASE Tick \/ UNCHANGED vars
  BY <1>1, <1>2 DEF Tick, vars
<1>3. ASSUME NEW r \in Requests, NEW c \in Clients, NEW q \in Arrivals(c), Admit(r, c, q)
      PROVE  HeldInv'
  BY <1>1, <1>3 DEF Admit, TypeOK
<1>4. ASSUME NEW r \in Requests, Busy(r) \/ Serve(r) \/ Limit(r) PROVE HeldInv'
  BY <1>1, <1>4 DEF Busy, Serve, Limit, TypeOK
<1>5. ASSUME NEW r \in Requests, Get(r) PROVE HeldInv'
  <2> DEFINE t == seen[r]
  <2>1. /\ pc[r] = "get" /\ key[r] \in Keys /\ t <= now /\ now <= t + Stall /\ t \in 0..MaxTime
        /\ now \in Int
    BY <1>5, InsideFacts DEF Get
  <2>2. /\ \A k \in Keys : k # key[r] => entry'[k] = Kept(t)[k]
        /\ entry'[key[r]] # None
        /\ Kept(t)[key[r]] # None => entry'[key[r]] = Kept(t)[key[r]]
        /\ UNCHANGED <<key, seen>>
        /\ \A q \in Requests : q # r => pc'[q] = pc[q] /\ held'[q] = held[q]
        /\ held'[r] = entry'[key[r]]
        /\ \A k \in Keys : lastSeen'[k] = IF k = key[r] THEN t ELSE lastSeen[k]
    BY <1>5, <2>1, GetEntries DEF TypeOK
  <2>3. Kept(t) \in [Keys -> Requests \cup {None}]
    BY <2>1, KeptEntries
  <2>4. held'[r] \in Requests
    BY <1>5, <2>1, <2>2, <2>3, GetEntries
  <2>5. ASSUME NEW q \in Requests, q # r, pc[q] = "allow"
        PROVE  /\ held'[q] \in Requests /\ entry'[key[q]] = held'[q]
               /\ seen[q] <= lastSeen'[key[q]] + Stall
    <3>1. /\ key[q] \in Keys /\ held[q] \in Requests /\ entry[key[q]] = held[q] /\ held[q] # None
          /\ seen[q] <= lastSeen[key[q]] + Stall /\ seen[q] <= now /\ seen[q] \in Int
      BY <2>5, InsideFacts
    <3>2. Kept(t)[key[q]] = entry[key[q]]
      BY <2>1, <2>5, HeldIsKept
    <3>3. entry'[key[q]] = entry[key[q]]
      BY <2>2, <3>1, <3>2
    <3>4. seen[q] <= t + Stall
      BY <2>1, <3>1
    <3> QED
      BY <2>2, <2>5, <3>1, <3>3, <3>4
  <2>6. seen[r] <= lastSeen'[key[r]] + Stall
    BY <2>1, <2>2
  <2> HIDE DEF t
  <2> QED
    BY <2>2, <2>4, <2>5, <2>6 DEF HeldInv
<1> QED
  BY <1>2, <1>3, <1>4, <1>5 DEF Next

(* Each client has the bucket of one of its own requests.                  *)
LEMMA EntryInductive ==
    ASSUME TypeOK, InsideInv, HeldInv, EntryInv, [Next]_vars
    PROVE  EntryInv'
<1> USE RateAssumption
<1>0. entry \in [Keys -> Requests \cup {None}]
  BY DEF TypeOK
<1>1. ASSUME UNCHANGED entry,
             \A q \in Requests : pc[q] \in {"allow", "served", "limited"} =>
                 pc'[q] \in {"allow", "served", "limited"} /\ key'[q] = key[q]
      PROVE  EntryInv'
  BY <1>0, <1>1 DEF EntryInv
<1>2. CASE Tick \/ UNCHANGED vars
  BY <1>1, <1>2 DEF Tick, vars
<1>3. ASSUME NEW r \in Requests, NEW c \in Clients, NEW q \in Arrivals(c), Admit(r, c, q)
      PROVE  EntryInv'
  BY <1>1, <1>3 DEF Admit, TypeOK
<1>4. ASSUME NEW r \in Requests, Busy(r) \/ Serve(r) \/ Limit(r) PROVE EntryInv'
  BY <1>1, <1>4 DEF Busy, Serve, Limit, TypeOK
<1>5. ASSUME NEW r \in Requests, Get(r) PROVE EntryInv'
  <2>1. seen[r] \in 0..MaxTime /\ key[r] \in Keys
    BY <1>5, InsideFacts DEF Get
  <2>2. \A k \in Keys : entry'[k] \in {entry[k], None} \/ (k = key[r] /\ entry'[k] = r)
    BY <1>5, <2>1, GetEntries, KeptEntries
  <2>3. /\ pc'[r] = "allow" /\ key' = key
        /\ \A q \in Requests : q # r => pc'[q] = pc[q]
    BY <1>5, GetEntries DEF TypeOK
  <2>4. ASSUME NEW k \in Keys, entry'[k] # None
        PROVE  key'[entry'[k]] = k /\ pc'[entry'[k]] \in {"allow", "served", "limited"}
    <3>1. CASE entry'[k] = entry[k]
      <4>1. /\ entry[k] \in Requests /\ key[entry[k]] = k
            /\ pc[entry[k]] \in {"allow", "served", "limited"}
        BY <1>0, <2>4, <3>1 DEF EntryInv
      <4> QED
        BY <2>3, <3>1, <4>1
    <3>2. CASE k = key[r] /\ entry'[k] = r
      BY <2>3, <3>2
    <3> QED
      BY <2>2, <2>4, <3>1, <3>2
  <2> QED
    BY <2>4 DEF EntryInv
<1> QED
  BY <1>2, <1>3, <1>4, <1>5 DEF Next

(* lastSeen is never far behind the last pass.                             *)
LEMMA SeenInductive ==
    ASSUME TypeOK, InsideInv, HeldInv, SeenInv, [Next]_vars
    PROVE  SeenInv'
<1> USE RateAssumption
<1>0. /\ now \in Int /\ Stall \in Nat /\ lastSeen \in [Keys -> 0..MaxTime]
      /\ passed \in [Clients -> Seq(0..MaxTime)]
  BY DEF TypeOK
<1>s. now \in Int /\ Stall \in Nat
  BY <1>0
<1>1. ASSUME UNCHANGED <<lastSeen, passed>>, now' = now \/ now' = now + 1
      PROVE  SeenInv'
  <2> SUFFICES ASSUME NEW c \in Clients, NEW i \in 1..Len(passed[c])
               PROVE  passed[c][i] <= now' /\ passed[c][i] <= lastSeen[c] + 2 * Stall
    BY <1>1 DEF SeenInv
  <2>1. passed[c][i] \in Int /\ passed[c][i] <= now /\ passed[c][i] <= lastSeen[c] + 2 * Stall
    BY <1>0 DEF SeenInv
  <2> QED
    BY <1>0, <1>1, <2>1
<1>2. ASSUME NEW r \in Requests, Get(r) PROVE SeenInv'
  <2>1. /\ seen[r] \in Int /\ seen[r] <= now /\ now <= seen[r] + Stall /\ key[r] \in Keys
    BY <1>2, InsideFacts DEF Get
  <2>2. /\ now' = now /\ passed' = passed
        /\ \A k \in Keys : lastSeen'[k] = IF k = key[r] THEN seen[r] ELSE lastSeen[k]
    BY <1>0, <1>2, <2>1, GetEntries
  <2> SUFFICES ASSUME NEW c \in Clients, NEW i \in 1..Len(passed[c])
               PROVE  passed[c][i] <= now /\ passed[c][i] <= lastSeen'[c] + 2 * Stall
    BY <2>2 DEF SeenInv
  <2>3. passed[c][i] \in Int /\ passed[c][i] <= now /\ passed[c][i] <= lastSeen[c] + 2 * Stall
    BY <1>0 DEF SeenInv
  <2>4. c \in Keys
    BY DEF Keys
  <2>5. CASE c = key[r]
    <3>1. PICK x, s \in Int : x = passed[c][i] /\ s = seen[r] /\ s = lastSeen'[c]
      BY <2>1, <2>2, <2>3, <2>4, <2>5
    <3>2. x <= now /\ now <= s + Stall
      BY <2>1, <2>3, <3>1
    <3>3. x <= s + 2 * Stall
      BY ONLY <3>2, <1>s, x \in Int, s \in Int
    <3> QED
      BY <3>1, <3>2, <3>3
  <2>6. CASE c # key[r]
    BY <2>2, <2>3, <2>4, <2>6
  <2> QED
    BY <2>5, <2>6
<1>3. ASSUME NEW r \in Requests, Serve(r) PROVE SeenInv'
  <2>1. PICK c \in Clients : c = client[r]
    BY <1>3, InsideFacts DEF Serve
  <2>2. /\ now <= lastSeen[c] + 2 * Stall /\ lastSeen' = lastSeen /\ now' = now
    <3>1. /\ seen[r] \in Int /\ lastSeen[c] \in Int
          /\ now <= seen[r] + Stall /\ seen[r] <= lastSeen[c] + Stall
      BY <1>3, <2>1, InsideFacts DEF Serve
    <3>2. PICK s, l \in Int : s = seen[r] /\ l = lastSeen[c]
      BY <3>1
    <3>3. now <= s + Stall /\ s <= l + Stall
      BY <3>1, <3>2
    <3>4. now <= l + 2 * Stall
      BY <1>0, <3>2, <3>3
    <3> QED
      BY <1>3, <3>2, <3>4 DEF Serve
  <2>3. \A d \in Clients : passed'[d] = IF d = c THEN Append(passed[d], now) ELSE passed[d]
    BY <1>0, <1>3, <2>1 DEF Serve
  <2> SUFFICES ASSUME NEW d \in Clients, NEW i \in 1..Len(passed'[d])
               PROVE  passed'[d][i] <= now /\ passed'[d][i] <= lastSeen[d] + 2 * Stall
    BY <2>2 DEF SeenInv
  <2>4. CASE passed'[d] = passed[d]
    BY <2>4 DEF SeenInv
  <2>5. CASE d = c /\ passed'[d] = Append(passed[d], now)
    <3>1. passed[d] \in Seq(Int)
      BY <1>0
    <3>2. CASE i \in 1..Len(passed[d]) /\ passed'[d][i] = passed[d][i]
      BY <3>2 DEF SeenInv
    <3>3. CASE passed'[d][i] = now
      BY <1>0, <2>2, <2>5, <3>3
    <3> QED
      BY <1>0, <2>5, <3>1, <3>2, <3>3, Appended
  <2> QED
    BY <2>3, <2>4, <2>5
<1> QED
  BY <1>0, <1>1, <1>2, <1>3 DEF Next, Tick, Admit, Busy, Limit, vars

-----------------------------------------------------------------------------
(* The credit of a client.                                                 *)

(* CreditInv, for one client.                                              *)
Credits(c) ==
    /\ Keeps(passed[c], Burst * Every, Every)
    /\ entry[c] = None =>
          \A i \in 1..Len(passed[c]) :
              Cost(Len(passed[c]) - i + 1, Every) <= now - passed[c][i]
    /\ entry[c] # None =>
          /\ bucket[entry[c]].at <= now
          /\ Within(bucket[entry[c]], passed[c], Burst * Every, Every)
          /\ Spent(bucket[entry[c]], passed[c], Burst * Every, Every)

(* A client that is forgotten would have a full bucket: it has been idle   *)
(* for as long as its own takes to fill.                                   *)
LEMMA ForgottenIsFull ==
    ASSUME TypeOK, InsideInv, HeldInv, SeenInv, NEW r \in Requests, pc[r] = "get",
           NEW c \in Clients, Credits(c), Kept(seen[r])[c] = None
    PROVE  \A i \in 1..Len(passed[c]) :
              Cost(Len(passed[c]) - i + 1, Every) <= now - passed[c][i]
<1>0. /\ c \in Keys /\ passed[c] \in Seq(Int) /\ now \in Int /\ lastSeen[c] \in Int
      /\ seen[r] \in 0..MaxTime /\ seen[r] \in Int /\ seen[r] <= now
  <2>1. c \in Keys
    BY DEF Keys
  <2>2. now \in Int /\ lastSeen[c] \in 0..MaxTime /\ lastSeen[c] \in Int
    BY <2>1, RateAssumption DEF TypeOK
  <2>3. seen[r] \in 0..MaxTime /\ seen[r] \in Int /\ seen[r] <= now
    <3>1. seen[r] \in 0..MaxTime /\ seen[r] <= now
      BY InsideFacts
    <3> QED
      BY <3>1, RateAssumption
  <2>4. passed[c] \in Seq(0..MaxTime)
    BY DEF TypeOK
  <2>5. passed[c] \in Seq(Int)
    BY RateAssumption DEF TypeOK
  <2> QED
    BY <2>1, <2>2, <2>3, <2>5
<1>1. CASE entry[c] = None
  BY <1>1 DEF Credits
<1>2. CASE seen[r] - lastSeen[c] >= EntryTTL
  <2>1. PICK cap \in Nat : cap = Burst * Every
    BY CapType, RateAssumption
  <2>2. PICK s, l \in Int : s = seen[r] /\ l = lastSeen[c]
    BY <1>0
  <2>3. s - l >= cap + 2 * Stall /\ s <= now /\ Stall \in Int /\ now \in Int
    <3>1. s - l >= EntryTTL /\ EntryTTL >= cap + 2 * Stall /\ EntryTTL \in Int /\ Stall \in Int
      BY <1>2, <2>1, <2>2, RateAssumption
    <3> QED
      BY <1>0, <2>2, <3>1
  <2>4. \A i \in 1..Len(passed[c]) : passed[c][i] \in Int /\ passed[c][i] <= l + 2 * Stall
    BY <1>0, <2>2 DEF SeenInv
  <2>5. ASSUME NEW i \in 1..Len(passed[c])
        PROVE  Cost(Len(passed[c]) - i + 1, Every) <= now - passed[c][i]
    <3>1. Len(passed[c]) \in Nat /\ Len(passed[c]) \in 1..Len(passed[c]) /\ i <= Len(passed[c])
      BY <1>0
    <3>2. PICK n \in 1..Len(passed[c]) : n = Len(passed[c])
      BY <3>1
    <3>3. PICK x, y \in Int : x = passed[c][i] /\ y = passed[c][n]
      BY <2>4
    <3>4. Cost(n - i + 1, Every) <= cap + y - x
      BY <2>1, <3>1, <3>2, <3>3 DEF Credits, Keeps
    <3>5. y <= l + 2 * Stall
      BY <2>4, <3>3
    <3>6. PICK w \in Int : w = Cost(n - i + 1, Every)
      <4>1. n - i + 1 \in Int /\ Every \in Int
        BY <3>1, <3>2, RateAssumption
      <4> QED
        BY <4>1, CostProperties
    <3>7. w <= now - x
      BY ONLY <2>3, <3>4, <3>5, <3>6, x \in Int, y \in Int, s \in Int, l \in Int, cap \in Nat
    <3> QED
      BY <3>2, <3>3, <3>6, <3>7
  <2> QED
    BY <2>5
<1> QED
  BY <1>0, <1>1, <1>2, KeptEntries

(* CreditInv is inductive.                                                 *)
LEMMA CreditInductive ==
    ASSUME RateInv, [Next]_vars
    PROVE  CreditInv'
<1> USE RateAssumption DEF RateInv
<1>0. /\ now \in 0..MaxTime /\ now \in Nat /\ passed \in [Clients -> Seq(0..MaxTime)]
      /\ passed \in [Clients -> Seq(Nat)]
      /\ bucket \in [Requests -> Buckets(Burst, Every)]
      /\ entry \in [Keys -> Requests \cup {None}] /\ Clients \subseteq Keys
  <2>1. \A c \in Clients : passed[c] \in Seq(Nat)
    BY DEF TypeOK
  <2> QED
    BY <2>1 DEF TypeOK, Keys
<1>00. PICK cap \in Nat : cap = Burst * Every /\ cap >= Every
  BY CapType
<1>c. \A c \in Clients : Credits(c)
  BY DEF CreditInv, Credits
<1> SUFFICES ASSUME NEW c \in Clients PROVE Credits(c)'
  BY DEF CreditInv, Credits
<1>p. /\ passed[c] \in Seq(Nat) /\ entry[c] \in Requests \cup {None} /\ c \in Keys
      /\ Credits(c) /\ \A i \in 1..Len(passed[c]) : passed[c][i] \in Nat
      /\ Len(passed[c]) \in Nat
  BY <1>0, <1>c
<1>1. ASSUME passed'[c] = passed[c], entry'[c] = entry[c], now' \in {now, now + 1},
             entry[c] # None => bucket'[entry[c]] = bucket[entry[c]]
      PROVE  Credits(c)'
  <2>1. CASE entry[c] = None
    <3>1. ASSUME NEW i \in 1..Len(passed[c])
          PROVE  Cost(Len(passed[c]) - i + 1, Every) <= now' - passed[c][i]
      <4>1. PICK w, x \in Int : w = Cost(Len(passed[c]) - i + 1, Every) /\ x = passed[c][i]
        <5>1. Len(passed[c]) - i + 1 \in Int /\ Every \in Int
          BY <1>p
        <5>2. Cost(Len(passed[c]) - i + 1, Every) \in Int
          BY ONLY <5>1, CostProperties
        <5>3. passed[c][i] \in Int
          BY <1>p
        <5> QED
          BY <5>2, <5>3
      <4>2. w <= now - x
        BY <1>p, <2>1, <4>1 DEF Credits
      <4>3. w <= now' - x
        <5>1. PICK n, m \in Int : n = now /\ m = now' /\ n <= m
          BY <1>0, <1>1
        <5>2. w <= n - x
          BY <4>2, <5>1
        <5>4. n <= m
          BY <5>1
        <5>3. w <= m - x
          BY ONLY <5>4, <5>2, w \in Int, x \in Int, n \in Int, m \in Int
        <5> QED
          BY <5>1, <5>3
      <4> QED
        BY <4>1, <4>3
    <3> QED
      BY <1>1, <1>p, <2>1, <3>1 DEF Credits
  <2>2. CASE entry[c] # None
    <3>1. entry[c] \in Requests
      BY <1>p, <2>2
    <3>2. bucket[entry[c]].at \in Int /\ bucket[entry[c]].at <= now
      BY <1>0, <1>p, <2>2, <3>1 DEF Credits, Buckets
    <3>3. bucket[entry[c]].at <= now'
      BY <1>0, <1>1, <3>2
    <3> QED
      BY <1>1, <1>p, <2>2, <3>3 DEF Credits
  <2> QED
    BY <2>1, <2>2
<1>2. ASSUME NEW r \in Requests, Get(r)
      PROVE  Credits(c)'
  <2> DEFINE t == seen[r]
  <2>1. /\ pc[r] = "get" /\ key[r] \in Keys /\ t \in 0..MaxTime
    BY <1>2, InsideFacts DEF Get
  <2>2. /\ c # key[r] => entry'[c] = Kept(t)[c]
        /\ passed' = passed /\ now' = now
        /\ \/ /\ Kept(t)[key[r]] # None /\ entry'[key[r]] = Kept(t)[key[r]]
              /\ bucket' = bucket
           \/ /\ Kept(t)[key[r]] = None /\ entry'[key[r]] = r
              /\ bucket' = [bucket EXCEPT ![r] = Full(Burst, Every, now)]
    BY <1>2, <1>p, GetEntries
  <2>3. Kept(t)[c] = entry[c] \/ Kept(t)[c] = None
    BY <1>p, <2>1, KeptEntries
  <2>4. entry[c] # r
    BY <1>p, <2>1 DEF EntryInv
  <2>5. CASE entry'[c] = entry[c] /\ entry[c] # None
    <3>1. bucket'[entry[c]] = bucket[entry[c]]
      BY <1>0, <1>p, <2>2, <2>4, <2>5
    <3> QED
      BY <1>0, <1>1, <2>2, <2>5, <3>1
  <2>6. CASE Kept(t)[c] = None /\ entry'[c] = None
    <3>1. \A i \in 1..Len(passed[c]) : Cost(Len(passed[c]) - i + 1, Every) <= now - passed[c][i]
      BY <1>p, <2>1, <2>6, ForgottenIsFull
    <3> QED
      BY <1>p, <2>2, <2>6, <3>1 DEF Credits
  <2>7. CASE /\ Kept(t)[c] = None /\ entry'[c] = r
             /\ bucket' = [bucket EXCEPT ![r] = Full(Burst, Every, now)]
    <3>1. \A i \in 1..Len(passed[c]) : Cost(Len(passed[c]) - i + 1, Every) <= now - passed[c][i]
      BY <1>p, <2>1, <2>7, ForgottenIsFull
    <3>2. PICK d : d = bucket'[r] /\ d.credit = cap /\ d.at = now
      BY <1>0, <1>00, <2>7 DEF Full
    <3>3. Within(d, passed[c], cap, Every) /\ Spent(d, passed[c], cap, Every)
      <4>1. Every \in Int /\ cap \in Int /\ now \in Nat /\ passed[c] \in Seq(Nat)
        BY <1>0, <1>p
      <4> QED
        BY <3>1, <3>2, <4>1, FullIsWithin
    <3>4. r # None /\ now <= now
      BY <1>0
    <3> QED
      BY <1>p, <1>00, <2>2, <2>7, <3>2, <3>3, <3>4 DEF Credits
  <2> HIDE DEF t
  <2> QED
    BY <2>2, <2>3, <2>5, <2>6, <2>7
<1>3. ASSUME NEW r \in Requests, Serve(r)
      PROVE  Credits(c)'
  <2>1. PICK b \in Requests : b = held[r]
    BY <1>3, InsideFacts DEF Serve
  <2>2. /\ client[r] \in Clients /\ entry[client[r]] = b /\ b # None
        /\ pc[r] = "allow" /\ Allows(bucket[b], Burst, Every)
        /\ bucket' = [bucket EXCEPT ![b] = Take(bucket[b], Burst, Every)]
        /\ passed' = [passed EXCEPT ![client[r]] = Append(passed[client[r]], now)]
        /\ entry' = entry /\ now' = now
    BY <1>3, <2>1, InsideFacts DEF Serve
  <2>3. CASE c # client[r]
    <3>1. entry[c] # b
      BY <1>0, <1>p, <2>2, <2>3 DEF EntryInv
    <3>2. passed'[c] = passed[c] /\ (entry[c] # None => bucket'[entry[c]] = bucket[entry[c]])
      BY <1>0, <1>p, <2>2, <2>3, <3>1
    <3> QED
      BY <1>0, <1>1, <2>2, <3>2
  <2>4. CASE c = client[r]
    <3>1. /\ bucket[b] \in Buckets(Burst, Every) /\ bucket[b].at <= now
          /\ Within(bucket[b], passed[c], cap, Every) /\ Spent(bucket[b], passed[c], cap, Every)
          /\ Keeps(passed[c], cap, Every)
      BY <1>0, <1>p, <1>00, <2>2, <2>4 DEF Credits
    <3>2. PICK k : k = CreditAt(bucket[b], Burst, Every, now)
      OBVIOUS
    <3>3. PICK e : e = bucket[b]
      OBVIOUS
    <3>4. PICK d : d = Take(bucket[b], Burst, Every) /\ d = bucket'[b]
      BY <1>0, <2>2
    <3>5. /\ e.credit \in 0..cap /\ e.at \in 0..MaxTime /\ k \in 0..cap
          /\ k <= e.credit + (now - e.at)
          /\ (k = cap \/ (k = e.credit + (now - e.at) /\ k < cap))
          /\ d.credit = k - Every /\ d.at = now /\ k >= Every
      <4>1. /\ e \in Buckets(Burst, Every) /\ e.at <= now /\ now \in 0..MaxTime
            /\ Burst \in Nat \ {0} /\ Every \in Nat \ {0}
            /\ k = CreditAt(e, Burst, Every, now) /\ d = Take(e, Burst, Every)
            /\ Allows(e, Burst, Every)
        BY <1>0, <2>2, <3>1, <3>2, <3>3, <3>4
      <4> QED
        BY ONLY <4>1, <1>00, TakeFacts
    <3>6. e.credit \in Int /\ e.at \in Int /\ e.at <= now /\ k \in Int /\ k <= cap
          /\ Every \in Int /\ cap \in Int /\ now \in Nat
      BY <1>0, <3>1, <3>3, <3>5
    <3>7. /\ Keeps(Append(passed[c], now), cap, Every)
          /\ Within(d, Append(passed[c], now), cap, Every)
      BY <1>p, <3>1, <3>3, <3>5, <3>6, TakeKeepsRate
    <3>8. Spent(d, Append(passed[c], now), cap, Every)
      BY <1>p, <3>1, <3>3, <3>5, <3>6, TakeSpends
    <3>9. passed'[c] = Append(passed[c], now) /\ entry'[c] = b /\ bucket'[b] = d
      BY <1>0, <2>2, <2>4, <3>4
    <3>10. d.at <= now' /\ b # None
      BY <2>2, <3>5, <3>6
    <3> QED
      BY <1>00, <3>7, <3>8, <3>9, <3>10 DEF Credits
  <2> QED
    BY <2>3, <2>4
<1>4. CASE UNCHANGED <<passed, entry, bucket>> /\ now' \in {now, now + 1}
  BY <1>1, <1>4
<1> QED
  BY <1>2, <1>3, <1>4 DEF Next, Tick, Admit, Busy, Limit, vars

-----------------------------------------------------------------------------
(* The theorems.                                                           *)

(* RateInv holds when the server starts.                                   *)
LEMMA RateInitial ==
    ASSUME Init
    PROVE  RateInv
<1> USE RateAssumption DEF Init
<1>1. now = 0 /\ now \in 0..MaxTime /\ None \notin Requests
  OBVIOUS
<1>2. /\ Full(Burst, Every, 0) \in Buckets(Burst, Every)
      /\ Full(GlobalBurst, GlobalEvery, 0) \in Buckets(GlobalBurst, GlobalEvery)
  BY CapType DEF Full, Buckets
<1>3. <<>> \in Seq(0..MaxTime) /\ Len(<<>>) = 0
  OBVIOUS
<1>4. TypeOK
  BY <1>2, <1>3 DEF TypeOK
<1>5. GlobalInv
  <2>1. global.at = 0 /\ admitted = <<>>
    BY DEF Full
  <2> QED
    BY <2>1, <1>3 DEF GlobalInv, Keeps, Within
<1>6. \A c \in Clients : passed[c] = <<>> /\ Len(passed[c]) = 0 /\ entry[c] = None
  BY DEF Keys
<1>7. SeenInv /\ CreditInv
  BY <1>6 DEF SeenInv, CreditInv, Keeps
<1>8. InsideInv /\ HeldInv /\ EntryInv
  BY DEF InsideInv, HeldInv, EntryInv
<1> QED
  BY <1>4, <1>5, <1>7, <1>8 DEF RateInv

(* RateInv is inductive.                                                   *)
LEMMA RateInductive ==
    ASSUME RateInv, [Next]_vars
    PROVE  RateInv'
<1>1. TypeOK'
  BY TypeInductive DEF RateInv
<1>2. GlobalInv'
  BY GlobalInductive DEF RateInv
<1>3. InsideInv'
  BY InsideInductive DEF RateInv
<1>4. HeldInv'
  BY HeldInductive DEF RateInv
<1>5. EntryInv'
  BY EntryInductive DEF RateInv
<1>6. SeenInv'
  BY SeenInductive DEF RateInv
<1>7. CreditInv'
  BY CreditInductive
<1> QED
  BY <1>1, <1>2, <1>3, <1>4, <1>5, <1>6, <1>7 DEF RateInv

(* The global bucket (ratelimit.go, global.Allow) lets through, in any     *)
(* window, no more than its burst and its rate.                            *)
THEOREM ServiceStaysInRate == Spec => []ServiceKeepsRate
<1>1. RateInv => ServiceKeepsRate
  BY KeepsIsKeepsRate DEF RateInv, GlobalInv, ServiceKeepsRate
<1> QED
  BY <1>1, RateInitial, RateInductive, PTL DEF Spec

(* However eviction in get, stale times and concurrent requests            *)
(* interleave, no client gets more than its burst and its rate.            *)
THEOREM ClientsStayInRate == Spec => []ClientsKeepRate
<1>1. RateInv => ClientsKeepRate
  <2> SUFFICES ASSUME RateInv, NEW c \in Clients
               PROVE  KeepsRate(passed[c], Burst, Every)
    BY DEF ClientsKeepRate
  <2>1. Keeps(passed[c], Burst * Every, Every)
    BY DEF RateInv, CreditInv
  <2> QED
    BY <2>1, KeepsIsKeepsRate
<1> QED
  BY <1>1, RateInitial, RateInductive, PTL DEF Spec

(* A client whose bucket does not allow a request has used its tokens up.  *)
LEMMA LimitIsSpent ==
    ASSUME RateInv, NEW r \in Requests, Limit(r)
    PROVE  \E i \in 1..Len(passed[client[r]]) :
              Earned(passed[client[r]], i, Burst, Every) < Every
<1> USE RateAssumption
<1>1. PICK c \in Clients, b \in Requests :
          c = client[r] /\ b = held[r] /\ entry[c] = b /\ b # None
  BY InsideFacts DEF RateInv, Limit
<1>2. PICK cap \in Nat : cap = Burst * Every /\ cap >= Every
  BY CapType
<1>3. /\ now \in 0..MaxTime /\ passed[c] \in Seq(Nat) /\ bucket[b] \in Buckets(Burst, Every)
      /\ Burst \in Nat \ {0} /\ Every \in Nat \ {0}
  BY DEF RateInv, TypeOK
<1>4. bucket[b].at <= now /\ Spent(bucket[b], passed[c], cap, Every)
  BY <1>1, <1>2 DEF RateInv, CreditInv
<1>5. PICK k : k = CreditAt(bucket[b], Burst, Every, now)
  OBVIOUS
<1>6. /\ bucket[b].credit \in 0..cap /\ bucket[b].at \in 0..MaxTime /\ k \in 0..cap
      /\ k = cap \/ (k = bucket[b].credit + (now - bucket[b].at) /\ k < cap)
      /\ Allows(bucket[b], Burst, Every) <=> k >= Every
  BY ONLY <1>2, <1>3, <1>4, <1>5, TakeFacts
<1>7. k < Every
  BY <1>1, <1>2, <1>3, <1>6 DEF Limit
<1>8. PICK u, a, n \in Int : u = bucket[b].credit /\ a = bucket[b].at /\ n = now
  BY <1>3, <1>6
<1>9. u + (n - a) < Every /\ a <= n /\ u < cap
  <2>1. k = u + (n - a)
    BY <1>2, <1>3, <1>6, <1>7, <1>8
  <2>2. a <= n
    BY <1>4, <1>8
  <2>3. k \in Int /\ k < Every /\ Every <= cap /\ cap \in Int /\ Every \in Int
    BY <1>2, <1>3, <1>6, <1>7
  <2> QED
    BY ONLY <2>1, <2>2, <2>3, u \in Int, a \in Int, n \in Int
<1>10. PICK i \in 1..Len(passed[c]) :
          u + Cost(Len(passed[c]) - i + 1, Every) >= cap + a - passed[c][i]
  BY <1>4, <1>8, <1>9 DEF Spent
<1>11. Len(passed[c]) - i + 1 \in Int /\ passed[c][i] \in Int /\ Every \in Int
  BY <1>3
<1>12. Cost(Len(passed[c]) - i + 1, Every) \in Int
  BY ONLY <1>11, CostProperties
<1>13. PICK w, x \in Int : w = Cost(Len(passed[c]) - i + 1, Every) /\ x = passed[c][i]
  BY <1>11, <1>12
<1>14. u + w >= cap + a - x
  BY <1>10, <1>13
<1>15. cap + n - x - w < Every
  <2>1. Every \in Int
    BY <1>11
  <2> QED
    BY ONLY <1>9, <1>14, <2>1, u \in Int, a \in Int, n \in Int, w \in Int, x \in Int, cap \in Nat
<1>16. Earned(passed[c], i, Burst, Every) = cap + n - x - w
  BY <1>2, <1>8, <1>13 DEF Earned, Cost
<1> QED
  BY <1>1, <1>15, <1>16

(* Nobody is answered 429 for its own limit while one bucket of its own    *)
(* would have had a token left: neither a shared bucket nor an evicted one *)
(* takes a token away.                                                     *)
THEOREM OnlySpentAreLimited == Spec => LimitedOnlyWhenSpent
<1>1. ASSUME RateInv, [Next]_vars
      PROVE  [\A r \in Requests :
                 pc[r] = "allow" /\ pc'[r] = "limited" =>
                     \E i \in 1..Len(passed[client[r]]) :
                         Earned(passed[client[r]], i, Burst, Every) < Every]_vars
  <2> SUFFICES ASSUME NEW r \in Requests, pc[r] = "allow", pc'[r] = "limited"
               PROVE  \E i \in 1..Len(passed[client[r]]) :
                         Earned(passed[client[r]], i, Burst, Every) < Every
    OBVIOUS
  <2>1. Limit(r)
    <3>1. ASSUME NEW q \in Requests, q # r, pc' = [pc EXCEPT ![q] = pc'[q]]
          PROVE  FALSE
      BY <1>1, <3>1 DEF RateInv, TypeOK
    <3> QED
      BY <1>1, <3>1 DEF Next, Tick, Admit, Busy, Get, Serve, Limit, vars, RateInv, TypeOK
  <2> QED
    BY <1>1, <2>1, LimitIsSpent
<1> QED
  BY <1>1, RateInitial, RateInductive, PTL DEF Spec, LimitedOnlyWhenSpent
=============================================================================
