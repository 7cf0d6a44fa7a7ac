------------------------------- MODULE Lookup -------------------------------
(***************************************************************************)
(* Indicator lookups: the four handlers of internal/enrichment/handlers,   *)
(* the sources they fan out to (internal/enrichment/services) and the      *)
(* cache they share (internal/shared/cache.go).                            *)
(*                                                                         *)
(* A lookup reads the cache, starts one goroutine per source if it misses, *)
(* waits for all of them and stores its result.  The goroutines of all     *)
(* lookups share the slots of one semaphore.  Two lookups of one indicator *)
(* know nothing of each other: both may miss, fetch and store.             *)
(***************************************************************************)
EXTENDS Integers, FiniteSets

CONSTANTS
    Requests,     \* lookups, each a request with a goroutine of its own
    Keys,         \* indicators, as in the keys of the cache
    KindOf,       \* the kind of an indicator: "ip", "domain", "hash", "url"
    None,         \* nil
    Slots,        \* the capacity of services.sem
    TTLFull,      \* ttlFull and ttlPartial, in clock ticks
    TTLPartial,
    MaxTime       \* bound of the model: the clock stops here

ASSUME LookupAssumption ==
    /\ KindOf \in [Keys -> {"ip", "domain", "hash", "url"}]
    /\ Slots \in Nat \ {0}
    /\ TTLFull \in Nat \ {0} /\ TTLPartial \in 1..TTLFull
    /\ MaxTime \in Nat

VARIABLES
    now,          \* the clock
    entry,        \* Cache.entries: a result and its expiry, or None
    pc,           \* where a request is
    key,          \* the indicator it asks for
    optIn,        \* submit_urlscan, with active submission enabled
    fetch,        \* the state of its goroutine for each source
    response      \* what it has answered, or None

vars == <<now, entry, pc, key, optIn, fetch, response>>

(* The sources a handler starts for a kind of indicator.                   *)
SourcesOf(kind, active) ==
    CASE kind = "ip"     -> {"ipinfo", "abuseipdb", "virustotal"}
      [] kind = "domain" -> {"whois", "dns", "ssl", "virustotal", "alienvault_otx"}
      [] kind = "hash"   -> {"virustotal", "malwarebazaar", "circl_hashlookup"}
      [] kind = "url"    -> {"google_safe_browsing", "virustotal"}
                                \cup (IF active THEN {"urlscan"} ELSE {})

Sources == UNION {SourcesOf(KindOf[k], TRUE) : k \in Keys}

(* FetchDNS takes no slot of the semaphore.                                *)
Unlimited == {"dns"}

(* A result: the sources that were asked, the ones that answered, the ones *)
(* whose SourceMetadata says Success, and when it was made.                *)
Results == [asked : SUBSET Sources, answered : SUBSET Sources,
            success : SUBSET Sources, made : 0..MaxTime]

Responses == [result : Results, at : 0..MaxTime]

TypeOK ==
    /\ now \in 0..MaxTime
    /\ entry \in [Keys -> [result : Results, expiry : 1..MaxTime + TTLFull] \cup {None}]
    /\ pc \in [Requests -> {"idle", "fetching", "done"}]
    /\ key \in [Requests -> Keys \cup {None}]
    /\ optIn \in [Requests -> BOOLEAN]
    /\ fetch \in [Requests -> [Sources -> {"off", "waiting", "running", "ok", "failed"}]]
    /\ response \in [Requests -> Responses \cup {None}]

Init ==
    /\ now = 0
    /\ entry = [k \in Keys |-> None]
    /\ pc = [r \in Requests |-> "idle"]
    /\ key = [r \in Requests |-> None]
    /\ optIn = [r \in Requests |-> FALSE]
    /\ fetch = [r \in Requests |-> [s \in Sources |-> "off"]]
    /\ response = [r \in Requests |-> None]

Tick ==
    /\ now < MaxTime
    /\ now' = now + 1
    /\ UNCHANGED <<entry, pc, key, optIn, fetch, response>>

-----------------------------------------------------------------------------
(* The cache.                                                              *)

(* Cache.Get: an entry is usable up to and including its expiry.           *)
Usable(e) == e # None /\ now <= e.expiry

(* Mutants: the expiry is not looked at; any answer makes a result full;   *)
(* a total failure is cached like a partial one.                           *)
UsableForever(e) == e # None
SelectTTLAnyFull(asked, success) == IF success = {} THEN 0 ELSE TTLFull
SelectTTLNoZero(asked, success)  == IF success = asked THEN TTLFull ELSE TTLPartial

SelectTTL(asked, success) ==
    IF success = {} THEN 0
    ELSE IF success # asked THEN TTLPartial ELSE TTLFull

(* Mutant: storing a result again adds to the lifetime of the entry.       *)
StoredExtends(k, result) ==
    LET ttl == SelectTTL(result.asked, result.success)
        from == IF entry[k] = None THEN now ELSE entry[k].expiry
    IN  IF ttl = 0 THEN entry
        ELSE [entry EXCEPT ![k] = [result |-> result, expiry |-> from + ttl]]

(* Cache.Set.                                                              *)
Stored(k, result) ==
    LET ttl == SelectTTL(result.asked, result.success)
    IN  IF ttl = 0 THEN entry
        ELSE [entry EXCEPT ![k] = [result |-> result, expiry |-> now + ttl]]

(* Cache.cleanup, every ten minutes.                                       *)
Cleanup ==
    /\ entry' = [k \in Keys |-> IF Usable(entry[k]) THEN entry[k] ELSE None]
    /\ UNCHANGED <<now, pc, key, optIn, fetch, response>>

-----------------------------------------------------------------------------
(* The handlers.                                                           *)

(* A request for k that the cache answers.                                 *)
Hit(r, k, active) ==
    /\ pc[r] = "idle"
    /\ active => KindOf[k] = "url"
    /\ Usable(entry[k])
    /\ pc' = [pc EXCEPT ![r] = "done"]
    /\ key' = [key EXCEPT ![r] = k]
    /\ optIn' = [optIn EXCEPT ![r] = active]
    /\ response' = [response EXCEPT ![r] = [result |-> entry[k].result, at |-> now]]
    /\ UNCHANGED <<now, entry, fetch>>

(* A request for k that it does not: a goroutine for each source.          *)
Miss(r, k, active) ==
    /\ pc[r] = "idle"
    /\ active => KindOf[k] = "url"
    /\ ~Usable(entry[k])
    /\ pc' = [pc EXCEPT ![r] = "fetching"]
    /\ key' = [key EXCEPT ![r] = k]
    /\ optIn' = [optIn EXCEPT ![r] = active]
    /\ fetch' = [fetch EXCEPT ![r] = [s \in Sources |->
                    IF s \in SourcesOf(KindOf[k], active) THEN "waiting" ELSE "off"]]
    /\ UNCHANGED <<now, entry, response>>

(* Mutant: an error return that does not give the slot back.               *)
HoldingFailed ==
    {p \in Requests \X (Sources \ Unlimited) : fetch[p[1]][p[2]] \in {"running", "failed"}}

(* The calls that hold a slot of the semaphore.                            *)
Holding == {p \in Requests \X (Sources \ Unlimited) : fetch[p[1]][p[2]] = "running"}

SetFetch(r, s, state) ==
    /\ fetch' = [fetch EXCEPT ![r][s] = state]
    /\ UNCHANGED <<now, entry, pc, key, optIn, response>>

(* A Fetch function takes a slot (acquireSem) and keeps it to its return.  *)
Start(r, s) ==
    /\ fetch[r][s] = "waiting"
    /\ s \notin Unlimited => Cardinality(Holding) < Slots
    /\ SetFetch(r, s, "running")

(* It returns data, or an error or a timeout, and gives the slot back      *)
(* (FetchWHOIS does so before it parses the answer, which takes no time).  *)
Answer(r, s) == fetch[r][s] = "running" /\ SetFetch(r, s, "ok")

Fail(r, s) == fetch[r][s] = "running" /\ SetFetch(r, s, "failed")

Asked(r)    == {s \in Sources : fetch[r][s] # "off"}
Answered(r) == {s \in Sources : fetch[r][s] = "ok"}

(* SourceMetadata.Success.  FetchDNS sets it whatever its lookups returned.*)
Succeeded(r) == Answered(r) \cup (Asked(r) \cap {"dns"})

Result(r) == [asked |-> Asked(r), answered |-> Answered(r),
              success |-> Succeeded(r), made |-> now]

Finished(r) == \A s \in Asked(r) : fetch[r][s] \in {"ok", "failed"}

(* wg.Wait returns: cache.Set, and the response.                           *)
Respond(r) ==
    /\ pc[r] = "fetching"
    /\ Finished(r)
    /\ entry' = Stored(key[r], Result(r))
    /\ response' = [response EXCEPT ![r] = [result |-> Result(r), at |-> now]]
    /\ pc' = [pc EXCEPT ![r] = "done"]
    /\ UNCHANGED <<now, key, optIn, fetch>>

Lookups(r) == \E k \in Keys, active \in BOOLEAN : Hit(r, k, active) \/ Miss(r, k, active)

Fetches(r, s) == Start(r, s) \/ Answer(r, s) \/ Fail(r, s)

Next ==
    \/ Tick \/ Cleanup
    \/ \E r \in Requests :
          \/ Lookups(r) \/ Respond(r)
          \/ \E s \in Sources : Fetches(r, s)

Spec == Init /\ [][Next]_vars

(* Goroutines run; a channel send waits its turn, first come first served; *)
(* a source answers or the client's timeout (10 s) ends its call.          *)
Fairness ==
    /\ \A r \in Requests : WF_vars(Respond(r))
    /\ \A r \in Requests : \A s \in Sources :
          /\ SF_vars(Start(r, s))
          /\ WF_vars(Answer(r, s) \/ Fail(r, s))

FairSpec == Spec /\ Fairness

-----------------------------------------------------------------------------
(* Properties.                                                             *)

(* How long a result may be used, as cache.go:54-56 and the privacy page   *)
(* state it, by what its sources reported.                                 *)
Lifetime(result) ==
    CASE result.success = result.asked -> TTLFull
      [] result.success = {}           -> 0
      [] OTHER                         -> TTLPartial

(* No response is older than its result may be, although an entry can be   *)
(* overwritten by a slower lookup and outlive its expiry until a cleanup.  *)
NoStaleResponse ==
    \A r \in Requests :
        response[r] # None =>
            response[r].at - response[r].result.made <= Lifetime(response[r].result)

(* A lookup of an address, a hash or a URL that no source answered leaves  *)
(* nothing for a later one: what the cache serves was answered by a source *)
(* in truth, not only by its own account.  Of a domain the code does not   *)
(* keep this, for FetchDNS claims success always: TotalFailureNotCached.   *)
FailuresNotServed ==
    \A r \in Requests :
        response[r] # None /\ Asked(r) = {} /\ KindOf[key[r]] # "domain" =>
            response[r].result.answered # {}

(* Every lookup is answered: a full semaphore drains and no lookup waits   *)
(* for slots while holding some.                                           *)
LookupsAnswered ==
    \A r \in Requests : pc[r] = "fetching" ~> pc[r] = "done"

(* cache.go:56, "all sources failed -> not cached", against what really    *)
(* came back instead of what the sources report of themselves.             *)
TotalFailureNotCached ==
    \A k \in Keys : entry[k] # None => entry[k].result.answered # {}

(* frontend/enrichment/index.html:86, "Also submit this URL to URLScan for *)
(* an active third-party scan": a lookup that opted in asks URLScan.       *)
OptInIsSubmitted ==
    \A r \in Requests :
        pc[r] = "done" /\ optIn[r] => "urlscan" \in response[r].result.asked
=============================================================================
