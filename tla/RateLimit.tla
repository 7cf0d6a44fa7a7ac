----------------------------- MODULE RateLimit -----------------------------
(***************************************************************************)
(* The rate limiting middleware, internal/shared/ratelimit.go, as the      *)
(* routes of cmd/server/main.go use it: one token bucket for the service,  *)
(* one for each client, and client buckets that are forgotten when they    *)
(* have been idle.  The buckets are golang.org/x/time/rate limiters.       *)
(*                                                                         *)
(* Requests run concurrently: the global bucket, the map of buckets and    *)
(* the client's bucket are three steps with a lock of their own each.      *)
(***************************************************************************)
EXTENDS Integers, Sequences

CONSTANTS
    Clients,       \* addresses of clients
    Proxy,         \* the address of the Cloudflare proxy
    Requests,      \* requests, each with a goroutine of its own
    None,          \* no bucket
    Burst,         \* of a client's bucket, in tokens
    Every,         \* clock ticks in which a client's bucket gains a token
    GlobalBurst,   \* the same for the global bucket
    GlobalEvery,
    EntryTTL,      \* limiterEntryTTL, in ticks
    CleanupEvery,  \* the time between two cleanups: a minute in the code
    Stall,         \* bound: ticks a request spends inside the middleware
    MaxTime        \* bound of the model: the clock stops here

ASSUME RateAssumption ==
    /\ None \notin Requests /\ None \notin Clients /\ Proxy \notin Clients
    /\ Burst \in Nat \ {0} /\ Every \in Nat \ {0}
    /\ GlobalBurst \in Nat \ {0} /\ GlobalEvery \in Nat \ {0}
    /\ CleanupEvery \in Nat /\ Stall \in Nat /\ MaxTime \in Nat
    \* 15 minutes against the minute an empty bucket takes to fill; twice
    \* Stall, for lastSeen may go back by one and a request pass one later
    /\ EntryTTL \in Nat /\ EntryTTL >= Burst * Every + 2 * Stall

VARIABLES
    secret,        \* CloudflareOriginSecret is configured
    now,           \* the clock
    bucket,        \* the client buckets made so far, by the request that made
                   \* them: the credit of a bucket and the time it was counted
    global,        \* the global bucket
    entry,         \* RateLimiter.ips: the bucket of each client, or None
    lastSeen,      \* ipLimiter.lastSeen
    lastCleanup,   \* RateLimiter.lastCleanup
    pc,            \* where a request is
    client,        \* the client it comes from
    key,           \* the key of its bucket, as ClientIP computes it
    seen,          \* the "now" it passes to get
    held,          \* the bucket get gave it
    passed,        \* history: the times at which a client's requests passed
    admitted       \* history: the times at which the global bucket let one in

vars == <<secret, now, bucket, global, entry, lastSeen, lastCleanup, pc, client, key,
          seen, held, passed, admitted>>

Keys == Clients \cup {Proxy}    \* of RateLimiter.ips

(* Credit is counted in ticks: a token of the client's is Every of them.   *)
Buckets(burst, every) == [credit : 0..burst * every, at : 0..MaxTime]

TypeOK ==
    /\ secret \in BOOLEAN
    /\ now \in 0..MaxTime
    /\ bucket \in [Requests -> Buckets(Burst, Every)]
    /\ global \in Buckets(GlobalBurst, GlobalEvery)
    /\ entry \in [Keys -> Requests \cup {None}]
    /\ lastSeen \in [Keys -> 0..MaxTime]
    /\ lastCleanup \in 0..MaxTime
    /\ pc \in [Requests -> {"idle", "get", "allow", "served", "busy", "limited"}]
    /\ client \in [Requests -> Clients \cup {None}]
    /\ key \in [Requests -> Keys \cup {None}]
    /\ seen \in [Requests -> 0..MaxTime]
    /\ held \in [Requests -> Requests \cup {None}]
    /\ passed \in [Clients -> Seq(0..MaxTime)]
    /\ admitted \in Seq(0..MaxTime)

Full(burst, every, t) == [credit |-> burst * every, at |-> t]

Init ==
    /\ secret \in BOOLEAN
    /\ now = 0
    /\ bucket = [r \in Requests |-> Full(Burst, Every, 0)]
    /\ global = Full(GlobalBurst, GlobalEvery, 0)
    /\ entry = [k \in Keys |-> None]
    /\ lastSeen = [k \in Keys |-> 0]
    /\ lastCleanup = 0
    /\ pc = [r \in Requests |-> "idle"]
    /\ client = [r \in Requests |-> None]
    /\ key = [r \in Requests |-> None]
    /\ seen = [r \in Requests |-> 0]
    /\ held = [r \in Requests |-> None]
    /\ passed = [c \in Clients |-> <<>>]
    /\ admitted = <<>>

-----------------------------------------------------------------------------
(* rate.Limiter: the credit a bucket has at time t, and Allow.             *)

CreditAt(b, burst, every, t) ==
    LET grown == b.credit + (t - b.at)
    IN  IF grown > burst * every THEN burst * every ELSE grown

Allows(b, burst, every) == CreditAt(b, burst, every, now) >= every

Take(b, burst, every) ==
    [credit |-> CreditAt(b, burst, every, now) - every, at |-> now]

(* Mutant: Allow asks for a token and does not take it.                    *)
TakeNothing(b, burst, every) ==
    [credit |-> CreditAt(b, burst, every, now), at |-> now]

-----------------------------------------------------------------------------
(* Middleware.                                                             *)

(* Time passes, but a request is never inside for longer than Stall.       *)
Tick ==
    /\ now < MaxTime
    /\ \A r \in Requests : pc[r] \in {"get", "allow"} => now - seen[r] < Stall
    /\ now' = now + 1
    /\ UNCHANGED <<secret, bucket, global, entry, lastSeen, lastCleanup, pc,
                   client, key, seen, held, passed, admitted>>

(* How a request of client c arrives.  OriginVerification, in front of the *)
(* limiter, lets only those through that carry the secret, if there is one:*)
(* they come from the proxy, which names the client in a header.  Without a*)
(* secret there is no proxy, and the header is whatever the client sent.   *)
Arrivals(c) ==
    IF secret THEN {[peer |-> Proxy, header |-> c]}
    ELSE {[peer |-> c, header |-> h] : h \in Clients \cup {None}}

(* Mutant: the header is believed without OriginVerified.                  *)
ClientIPUnverified(q) == IF q.header # None THEN q.header ELSE q.peer

ClientIP(q) == IF secret /\ q.header # None THEN q.header ELSE q.peer

(* Mutant: the global bucket is asked, and not charged.                    *)
GlobalTakeNothing == TakeNothing(global, GlobalBurst, GlobalEvery)

GlobalTake == Take(global, GlobalBurst, GlobalEvery)

(* global.Allow, ClientIP and the time.Now() of the call of get.           *)
Admit(r, c, q) ==
    /\ pc[r] = "idle"
    /\ Allows(global, GlobalBurst, GlobalEvery)
    /\ global' = GlobalTake
    /\ admitted' = Append(admitted, now)
    /\ pc' = [pc EXCEPT ![r] = "get"]
    /\ client' = [client EXCEPT ![r] = c]
    /\ key' = [key EXCEPT ![r] = ClientIP(q)]
    /\ seen' = [seen EXCEPT ![r] = now]
    /\ UNCHANGED <<secret, now, bucket, entry, lastSeen, lastCleanup, held,
                   passed>>

Busy(r) ==
    /\ pc[r] = "idle"
    /\ ~Allows(global, GlobalBurst, GlobalEvery)
    /\ pc' = [pc EXCEPT ![r] = "busy"]
    /\ UNCHANGED <<secret, now, bucket, global, entry, lastSeen, lastCleanup,
                   client, key, seen, held, passed, admitted>>

(* The entries left after get's cleanup, when it is due at time t.         *)
Kept(t) ==
    IF t - lastCleanup >= CleanupEvery
    THEN [k \in Keys |->
             IF t - lastSeen[k] >= EntryTTL THEN None ELSE entry[k]]
    ELSE entry

(* Mutant: an entry keeps the time of its creation.                        *)
RefreshNew(c, t) ==
    lastSeen' = [lastSeen EXCEPT ![c] = IF Kept(t)[c] = None THEN t ELSE @]

Refresh(c, t) == lastSeen' = [lastSeen EXCEPT ![c] = t]

(* get, under RateLimiter.mu, with the time read before the lock was taken.*)
Get(r) ==
    LET c == key[r]
        t == seen[r] IN
    /\ pc[r] = "get"
    /\ lastCleanup' = IF t - lastCleanup >= CleanupEvery THEN t ELSE lastCleanup
    /\ \/ /\ Kept(t)[c] # None
          /\ entry' = Kept(t)
          /\ UNCHANGED bucket
       \/ /\ Kept(t)[c] = None
          /\ entry' = [Kept(t) EXCEPT ![c] = r]
          /\ bucket' = [bucket EXCEPT ![r] = Full(Burst, Every, now)]
    /\ Refresh(c, t)
    /\ held' = [held EXCEPT ![r] = entry'[c]]
    /\ pc' = [pc EXCEPT ![r] = "allow"]
    /\ UNCHANGED <<secret, now, global, client, key, seen, passed, admitted>>

(* Allow on the bucket get returned, which may have left the map since.    *)
Serve(r) ==
    LET b == held[r] IN
    /\ pc[r] = "allow"
    /\ Allows(bucket[b], Burst, Every)
    /\ bucket' = [bucket EXCEPT ![b] = Take(@, Burst, Every)]
    /\ passed' = [passed EXCEPT ![client[r]] = Append(@, now)]
    /\ pc' = [pc EXCEPT ![r] = "served"]
    /\ UNCHANGED <<secret, now, global, entry, lastSeen, lastCleanup, client,
                   key, seen, held, admitted>>

Limit(r) ==
    /\ pc[r] = "allow"
    /\ ~Allows(bucket[held[r]], Burst, Every)
    /\ pc' = [pc EXCEPT ![r] = "limited"]
    /\ UNCHANGED <<secret, now, bucket, global, entry, lastSeen, lastCleanup,
                   client, key, seen, held, passed, admitted>>

Next ==
    \/ Tick
    \/ \E r \in Requests :
          \/ \E c \in Clients : \E q \in Arrivals(c) : Admit(r, c, q)
          \/ Busy(r) \/ Get(r) \/ Serve(r) \/ Limit(r)

Spec == Init /\ [][Next]_vars

-----------------------------------------------------------------------------
(* Properties.                                                             *)

(* The times of a bucket that is never forgotten: in any window it lets    *)
(* through at most its burst and a token for each "every" ticks.           *)
KeepsRate(times, burst, every) ==
    \A i, j \in 1..Len(times) :
        i <= j => (j - i + 1) * every <= burst * every + times[j] - times[i]

(* Forgetting an idle client never gives it tokens back: however eviction, *)
(* lookups with an old time and requests of the client interleave, a       *)
(* client gets through no more than one bucket would have allowed.         *)
ClientsKeepRate ==
    \A c \in Clients : KeepsRate(passed[c], Burst, Every)

(* All clients together stay within the global bucket.                     *)
ServiceKeepsRate == KeepsRate(admitted, GlobalBurst, GlobalEvery)

Earned(times, i, burst, every) ==
    burst * every + now - times[i] - (Len(times) - i + 1) * every

(* A request is limited only when its client really has used its tokens up,*)
(* whatever happened to its bucket and to the other clients.               *)
LimitedOnlyWhenSpent ==
    [][\A r \in Requests :
          pc[r] = "allow" /\ pc'[r] = "limited" =>
              \E i \in 1..Len(passed[client[r]]) :
                  Earned(passed[client[r]], i, Burst, Every) < Every]_vars
=============================================================================
