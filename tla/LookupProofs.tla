---------------------------- MODULE LookupProofs ----------------------------
(***************************************************************************)
(* Proofs about the indicator lookups and their telemetry: what a lookup   *)
(* may answer from the cache, and where a logged query can be.             *)
(*                                                                         *)
(* LookupInv ties an entry of the cache to its result: it expires when its *)
(* result has lived as long as the success of its sources allows, and,     *)
(* domains excepted, a source answered the lookup it comes from.           *)
(* LogInv says that an entry of the telemetry is in one place only; the    *)
(* counts follow from it, one step at a time, as sets that gain or lose    *)
(* one element.                                                            *)
(***************************************************************************)
EXTENDS LookupService, FiniteSetTheorems, SequenceTheorems, TLAPS

-----------------------------------------------------------------------------
(* Lookups and the cache.                                                  *)

(* Every handler starts at least one source, and only known ones.          *)
LEMMA SourcesKnown ==
    ASSUME NEW k \in Keys, NEW active \in BOOLEAN
    PROVE  SourcesOf(KindOf[k], active) \subseteq Sources /\ SourcesOf(KindOf[k], active) # {}
<1>1. KindOf[k] \in {"ip", "domain", "hash", "url"}
  BY LookupAssumption
<1>2. SourcesOf(KindOf[k], active) \subseteq SourcesOf(KindOf[k], TRUE)
  BY <1>1 DEF SourcesOf
<1>3. SourcesOf(KindOf[k], active) # {}
  BY <1>1 DEF SourcesOf
<1>4. SourcesOf(KindOf[k], TRUE) \subseteq Sources
  BY DEF Sources
<1> QED
  BY <1>2, <1>3, <1>4

(* A lookup that has not started has asked nobody; one that is fetching    *)
(* has asked somebody, and the resolver only for a domain.                 *)
RequestInv ==
    \A r \in Requests :
        /\ pc[r] = "idle" => response[r] = None /\ \A s \in Sources : fetch[r][s] = "off"
        /\ pc[r] = "fetching" =>
              /\ key[r] \in Keys
              /\ Asked(r) # {}
              /\ "dns" \in Asked(r) => KindOf[key[r]] = "domain"

(* A cached result has a source behind it, in truth unless it is about a   *)
(* domain, and expires at the end of its lifetime, counted from when it    *)
(* was made.                                                               *)
EntryInv ==
    \A k \in Keys :
        entry[k] # None =>
            LET result == entry[k].result
            IN  /\ result.success # {}
                /\ KindOf[k] # "domain" => result.answered # {}
                /\ result.made <= now
                /\ entry[k].expiry = result.made + Lifetime(result)

LookupInv == TypeOK /\ RequestInv /\ EntryInv

(* A lifetime is at most that of a full result.                            *)
LEMMA LifetimeType ==
    ASSUME NEW result
    PROVE  Lifetime(result) \in 0..TTLFull
  BY LookupAssumption DEF Lifetime

(* For a result with a source behind it, selectTTL gives the lifetime that *)
(* is documented.                                                          *)
LEMMA SelectTTLIsLifetime ==
    ASSUME NEW result, result.success # {}
    PROVE  /\ SelectTTL(result.asked, result.success) = Lifetime(result)
           /\ Lifetime(result) \in 1..TTLFull
  BY LookupAssumption DEF Lifetime, SelectTTL

(* A result is made of the sources, now.                                   *)
LEMMA ResultType ==
    ASSUME TypeOK, NEW r \in Requests
    PROVE  Result(r) \in Results /\ Result(r).made = now
  BY DEF TypeOK, Result, Results, Asked, Answered, Succeeded

(* cache.Set stores nothing, or the result until its lifetime ends.        *)
LEMMA StoredEntries ==
    ASSUME TypeOK, NEW r \in Requests, NEW k \in Keys
    PROVE  \/ Stored(k, Result(r)) = entry
           \/ /\ Result(r).success # {}
              /\ Lifetime(Result(r)) \in 1..TTLFull
              /\ Stored(k, Result(r)) =
                    [entry EXCEPT ![k] = [result |-> Result(r),
                                          expiry |-> now + Lifetime(Result(r))]]
<1>1. CASE Result(r).success = {}
  BY <1>1 DEF Stored, SelectTTL
<1>2. CASE Result(r).success # {}
  <2>1. /\ SelectTTL(Result(r).asked, Result(r).success) = Lifetime(Result(r))
        /\ Lifetime(Result(r)) \in 1..TTLFull
    BY <1>2, SelectTTLIsLifetime
  <2>2. Lifetime(Result(r)) # 0
    BY <2>1, LookupAssumption
  <2> QED
    BY <1>2, <2>1, <2>2 DEF Stored
<1> QED
  BY <1>1, <1>2

(* A call moves between states of its own; whether it was asked does not change. *)
LEMMA FetchMoves ==
    ASSUME TypeOK, NEW r \in Requests, NEW s \in Sources, Fetches(r, s)
    PROVE  /\ UNCHANGED <<now, entry, pc, key, optIn, response>>
           /\ fetch' \in [Requests -> [Sources -> {"off", "waiting", "running", "ok", "failed"}]]
           /\ \A q \in Requests : \A t \in Sources : fetch'[q][t] = "off" <=> fetch[q][t] = "off"
<1>1. PICK state \in {"running", "ok", "failed"} : SetFetch(r, s, state)
  BY DEF Fetches, Start, Answer, Fail
<1>2. fetch[r][s] # "off"
  BY DEF Fetches, Start, Answer, Fail
<1>3. fetch \in [Requests -> [Sources -> {"off", "waiting", "running", "ok", "failed"}]]
  BY DEF TypeOK
<1>4. fetch' = [fetch EXCEPT ![r] = [@ EXCEPT ![s] = state]]
  BY <1>1 DEF SetFetch
<1>5. [fetch[r] EXCEPT ![s] = state] \in [Sources -> {"off", "waiting", "running", "ok", "failed"}]
  BY <1>3
<1>6. \A q \in Requests : \A t \in Sources :
         fetch'[q][t] = IF q = r /\ t = s THEN state ELSE fetch[q][t]
  BY <1>3, <1>4
<1> QED
  BY <1>1, <1>2, <1>3, <1>4, <1>5, <1>6 DEF SetFetch

(* Every step keeps the types.                                             *)
LEMMA TypeInductive ==
    ASSUME TypeOK, RequestInv, [Next]_vars
    PROVE  TypeOK'
<1> USE LookupAssumption
<1>1. CASE Tick
  BY <1>1 DEF Tick, TypeOK
<1>2. CASE Cleanup
  BY <1>2 DEF Cleanup, TypeOK
<1>3. ASSUME NEW r \in Requests, NEW k \in Keys, NEW active \in BOOLEAN, Hit(r, k, active)
      PROVE  TypeOK'
  <2>1. [result |-> entry[k].result, at |-> now] \in Responses
    BY <1>3 DEF Hit, Usable, TypeOK, Responses
  <2> QED
    BY <1>3, <2>1 DEF Hit, TypeOK
<1>4. ASSUME NEW r \in Requests, NEW k \in Keys, NEW active \in BOOLEAN, Miss(r, k, active)
      PROVE  TypeOK'
  BY <1>4 DEF Miss, TypeOK
<1>5. ASSUME NEW r \in Requests, NEW s \in Sources, Fetches(r, s)
      PROVE  TypeOK'
  BY <1>5, FetchMoves DEF TypeOK
<1>6. ASSUME NEW r \in Requests, Respond(r)
      PROVE  TypeOK'
  <2>1. key[r] \in Keys
    BY <1>6 DEF Respond, RequestInv
  <2>2. Result(r) \in Results
    BY ResultType
  <2>3. entry' \in [Keys -> [result : Results, expiry : 1..MaxTime + TTLFull] \cup {None}]
    <3>1. CASE entry' = entry
      BY <3>1 DEF TypeOK
    <3>2. CASE /\ Lifetime(Result(r)) \in 1..TTLFull
               /\ entry' = [entry EXCEPT ![key[r]] =
                              [result |-> Result(r), expiry |-> now + Lifetime(Result(r))]]
      <4>1. now + Lifetime(Result(r)) \in 1..MaxTime + TTLFull
        BY <3>2 DEF TypeOK
      <4> QED
        BY <2>2, <3>2, <4>1 DEF TypeOK
    <3> QED
      BY <1>6, <2>1, <3>1, <3>2, StoredEntries DEF Respond
  <2>4. [result |-> Result(r), at |-> now] \in Responses
    BY <2>2 DEF Responses, TypeOK
  <2> QED
    BY <1>6, <2>3, <2>4 DEF Respond, TypeOK
<1>7. CASE UNCHANGED vars
  BY <1>7 DEF vars, TypeOK
<1> QED
  BY <1>1, <1>2, <1>3, <1>4, <1>5, <1>6, <1>7 DEF Next, Lookups

(* RequestInv is inductive.                                                *)
LEMMA RequestInductive ==
    ASSUME TypeOK, RequestInv, [Next]_vars
    PROVE  RequestInv'
<1>1. CASE Tick \/ Cleanup \/ UNCHANGED vars
  BY <1>1 DEF Tick, Cleanup, vars, RequestInv, Asked
<1>2. ASSUME NEW r \in Requests, NEW k \in Keys, NEW active \in BOOLEAN, Hit(r, k, active)
      PROVE  RequestInv'
  BY <1>2 DEF Hit, TypeOK, RequestInv, Asked
<1>3. ASSUME NEW r \in Requests, NEW k \in Keys, NEW active \in BOOLEAN, Miss(r, k, active)
      PROVE  RequestInv'
  <2>1. PICK s \in Sources : s \in SourcesOf(KindOf[k], active)
    BY SourcesKnown
  <2>2. /\ pc' = [pc EXCEPT ![r] = "fetching"] /\ key' = [key EXCEPT ![r] = k]
        /\ \A q \in Requests : q # r => fetch'[q] = fetch[q]
        /\ fetch'[r][s] = "waiting" /\ response' = response
    BY <1>3, <2>1, SourcesKnown DEF Miss, TypeOK
  <2>3. s \in Sources
    BY <2>1, SourcesKnown
  <2>4. KindOf[k] \in {"ip", "domain", "hash", "url"}
    BY LookupAssumption
  <2>5. "dns" \in SourcesOf(KindOf[k], active) => KindOf[k] = "domain"
    BY <2>4 DEF SourcesOf
  <2>6. "dns" \in Asked(r)' => KindOf[k] = "domain"
    BY <1>3, <2>5 DEF Miss, TypeOK, Asked
  <2>7. Asked(r)' # {}
    BY <2>2, <2>3 DEF Asked
  <2>8. pc'[r] = "fetching" /\ key'[r] = k /\ KindOf[key'[r]] = KindOf[k]
    BY <2>2 DEF TypeOK
  <2>9. \A q \in Requests : q # r => /\ pc'[q] = pc[q] /\ key'[q] = key[q]
                                    /\ Asked(q)' = Asked(q) /\ fetch'[q] = fetch[q]
    BY <2>2 DEF TypeOK, Asked
  <2> QED
    BY <2>2, <2>6, <2>7, <2>8, <2>9 DEF RequestInv
<1>4. ASSUME NEW r \in Requests, NEW s \in Sources, Fetches(r, s)
      PROVE  RequestInv'
  <2>1. \A q \in Requests : Asked(q)' = Asked(q)
    BY <1>4, FetchMoves DEF Asked
  <2> QED
    BY <1>4, <2>1, FetchMoves DEF RequestInv
<1>5. ASSUME NEW r \in Requests, Respond(r)
      PROVE  RequestInv'
  <2>1. \A q \in Requests : Asked(q)' = Asked(q)
    BY <1>5 DEF Respond, Asked
  <2> QED
    BY <1>5, <2>1 DEF Respond, TypeOK, RequestInv
<1> QED
  BY <1>1, <1>2, <1>3, <1>4, <1>5 DEF Next, Lookups

(* EntryInv is inductive: only a lookup that ends writes an entry, and the *)
(* cleanup only removes.                                                   *)
LEMMA EntryInductive ==
    ASSUME TypeOK, RequestInv, EntryInv, [Next]_vars
    PROVE  EntryInv'
<1>1. ASSUME entry' = entry, now' >= now
      PROVE  EntryInv'
  <2> SUFFICES ASSUME NEW k \in Keys, entry[k] # None
               PROVE  /\ entry[k].result.success # {}
                      /\ KindOf[k] # "domain" => entry[k].result.answered # {}
                      /\ entry[k].result.made <= now'
                      /\ entry[k].expiry = entry[k].result.made + Lifetime(entry[k].result)
    BY <1>1 DEF EntryInv, Lifetime
  <2>1. entry[k].result.made \in Int /\ now \in Int /\ now' \in Int
    BY LookupAssumption, TypeInductive DEF TypeOK, Results
  <2> QED
    BY <1>1, <2>1 DEF EntryInv
<1>2. CASE UNCHANGED <<now, entry>>
  BY <1>1, <1>2 DEF TypeOK
<1>3. CASE Tick
  BY <1>1, <1>3 DEF Tick, TypeOK
<1>4. CASE Cleanup
  BY <1>4 DEF Cleanup, EntryInv, Lifetime
<1>5. ASSUME NEW r \in Requests, Respond(r)
      PROVE  EntryInv'
  <2>1. key[r] \in Keys /\ UNCHANGED now
    BY <1>5 DEF Respond, RequestInv
  <2>2. CASE entry' = entry
    BY <1>2, <2>1, <2>2
  <2>3. CASE /\ Result(r).success # {}
             /\ entry' = [entry EXCEPT ![key[r]] =
                            [result |-> Result(r), expiry |-> now + Lifetime(Result(r))]]
    <3>0. KindOf[key[r]] # "domain" => Result(r).answered # {}
      BY <1>5, <2>3 DEF Respond, RequestInv, Result, Succeeded
    <3>1. PICK result : /\ result = Result(r) /\ result.success # {} /\ result.made = now
                        /\ KindOf[key[r]] # "domain" => result.answered # {}
      BY <2>3, <3>0, ResultType
    <3>2. \A k \in Keys : entry'[k] = IF k = key[r]
                                       THEN [result |-> result, expiry |-> now + Lifetime(result)]
                                       ELSE entry[k]
      BY <2>1, <2>3, <3>1 DEF TypeOK
    <3>3. now \in Int
      BY DEF TypeOK
    <3>4. ASSUME NEW k \in Keys, entry'[k] # None
          PROVE  /\ entry'[k].result.success # {}
                 /\ KindOf[k] # "domain" => entry'[k].result.answered # {}
                 /\ entry'[k].result.made <= now
                 /\ entry'[k].expiry = entry'[k].result.made + Lifetime(entry'[k].result)
      <4>1. CASE k = key[r]
        <5>1. entry'[k].result = result /\ entry'[k].expiry = now + Lifetime(result)
          BY <3>2, <4>1
        <5> QED
          BY <3>1, <3>3, <4>1, <5>1
      <4>2. CASE k # key[r]
        BY <3>2, <3>4, <4>2 DEF EntryInv
      <4> QED
        BY <4>1, <4>2
    <3> QED
      BY <2>1, <3>4 DEF EntryInv, Lifetime
  <2> QED
    BY <1>5, <2>1, <2>2, <2>3, StoredEntries DEF Respond
<1>6. ASSUME NEW r \in Requests, Lookups(r)
      PROVE  EntryInv'
  BY <1>2, <1>6 DEF Lookups, Hit, Miss
<1>7. ASSUME NEW r \in Requests, NEW s \in Sources, Fetches(r, s)
      PROVE  EntryInv'
  BY <1>2, <1>7, FetchMoves
<1> QED
  BY <1>2, <1>3, <1>4, <1>5, <1>6, <1>7 DEF Next, vars

(* The whole invariant is inductive.                                       *)
LEMMA LookupInductive == LookupInv /\ [Next]_vars => LookupInv'
  BY TypeInductive, RequestInductive, EntryInductive DEF LookupInv

(* It holds when the server starts.                                        *)
LEMMA LookupInitial == Init => LookupInv
  BY LookupAssumption DEF Init, LookupInv, TypeOK, RequestInv, EntryInv

(* Every reachable state of the lookups is well typed; in particular every *)
(* expiry is in range.                                                     *)
THEOREM LookupTypeCorrect == Spec => []TypeOK
<1>1. LookupInv => TypeOK
  BY DEF LookupInv
<1> QED
  BY <1>1, LookupInitial, LookupInductive, PTL DEF Spec

(* The response of a lookup that the step does not answer stays what it was*)
LEMMA FreshInductive ==
    ASSUME LookupInv, NoStaleResponse, [Next]_vars
    PROVE  NoStaleResponse'
<1> USE DEF LookupInv
<1>1. CASE UNCHANGED response
  BY <1>1 DEF NoStaleResponse, Lifetime
<1>2. ASSUME NEW r \in Requests, NEW result, NEW at,
             response' = [response EXCEPT ![r] = [result |-> result, at |-> at]],
             at - result.made <= Lifetime(result)
      PROVE  NoStaleResponse'
  <2>1. \A q \in Requests :
           response'[q] = IF q = r THEN [result |-> result, at |-> at] ELSE response[q]
    BY <1>2 DEF TypeOK
  <2> QED
    BY <1>2, <2>1 DEF NoStaleResponse, Lifetime
<1>3. ASSUME NEW r \in Requests, NEW k \in Keys, NEW active \in BOOLEAN, Hit(r, k, active)
      PROVE  NoStaleResponse'
  <2>1. PICK result : result = entry[k].result
    OBVIOUS
  <2>2. /\ entry[k] # None /\ now <= entry[k].expiry
        /\ entry[k].expiry = result.made + Lifetime(result)
    BY <1>3, <2>1 DEF Hit, Usable, EntryInv
  <2>3. now \in Int /\ result.made \in Int /\ Lifetime(result) \in Int
    BY <2>1, <2>2, LifetimeType, LookupAssumption DEF TypeOK, Results
  <2>4. now - result.made <= Lifetime(result)
    BY <2>2, <2>3
  <2> QED
    BY <1>2, <1>3, <2>1, <2>4 DEF Hit
<1>4. ASSUME NEW r \in Requests, Respond(r)
      PROVE  NoStaleResponse'
  <2>1. Result(r).made = now /\ now \in Int
    BY ResultType DEF TypeOK
  <2>2. Lifetime(Result(r)) \in 0..TTLFull
    BY LifetimeType
  <2>3. now - Result(r).made <= Lifetime(Result(r))
    BY <2>1, <2>2, LookupAssumption
  <2> QED
    BY <1>2, <1>4, <2>3 DEF Respond
<1>5. ASSUME NEW r \in Requests, NEW s \in Sources, Fetches(r, s)
      PROVE  NoStaleResponse'
  BY <1>1, <1>5, FetchMoves
<1> QED
  BY <1>1, <1>3, <1>4, <1>5 DEF Next, Lookups, Tick, Cleanup, Miss, vars

(* No response, from the cache or not, is older than what its sources      *)
(* reported allows, however slow lookups of one indicator overwrite each   *)
(* other and however late the cleanup runs.                                *)
THEOREM NoResponseIsStale == Spec => []NoStaleResponse
<1>1. Init => NoStaleResponse
  BY DEF Init, NoStaleResponse
<1>2. LookupInv /\ NoStaleResponse /\ [Next]_vars => NoStaleResponse'
  BY FreshInductive
<1> QED
  BY <1>1, <1>2, LookupInitial, LookupInductive, PTL DEF Spec

(* No step serves a result that no source answered a second time.          *)
LEMMA FailuresInductive ==
    ASSUME LookupInv, FailuresNotServed, [Next]_vars
    PROVE  FailuresNotServed'
<1> USE DEF LookupInv
<1>1. CASE /\ UNCHANGED response
           /\ \A q \in Requests : response[q] # None => key'[q] = key[q]
           /\ \A q \in Requests : \A s \in Sources :
                 fetch'[q][s] = "off" => fetch[q][s] = "off"
  BY <1>1 DEF FailuresNotServed, Asked
<1>2. CASE Tick \/ Cleanup \/ UNCHANGED vars
  BY <1>1, <1>2 DEF Tick, Cleanup, vars
<1>3. ASSUME NEW r \in Requests, NEW k \in Keys, NEW active \in BOOLEAN, Hit(r, k, active)
      PROVE  FailuresNotServed'
  <2>1. KindOf[k] # "domain" => entry[k].result.answered # {}
    BY <1>3 DEF Hit, Usable, EntryInv
  <2>2. /\ fetch' = fetch
        /\ \A q \in Requests : q # r => response'[q] = response[q] /\ key'[q] = key[q]
        /\ response'[r].result = entry[k].result /\ key'[r] = k
    BY <1>3 DEF Hit, TypeOK
  <2> QED
    BY <2>1, <2>2 DEF FailuresNotServed, Asked
<1>4. ASSUME NEW r \in Requests, NEW k \in Keys, NEW active \in BOOLEAN, Miss(r, k, active)
      PROVE  FailuresNotServed'
  <2>1. \A s \in Sources : fetch[r][s] = "off"
    BY <1>4 DEF Miss, RequestInv
  <2>2. /\ UNCHANGED response
        /\ \A q \in Requests : q # r => fetch'[q] = fetch[q] /\ key'[q] = key[q]
    BY <1>4 DEF Miss, TypeOK
  <2>3. response[r] = None
    BY <1>4 DEF Miss, RequestInv
  <2> QED
    BY <1>1, <2>1, <2>2, <2>3
<1>5. ASSUME NEW r \in Requests, NEW s \in Sources, Fetches(r, s)
      PROVE  FailuresNotServed'
  BY <1>1, <1>5, FetchMoves
<1>6. ASSUME NEW r \in Requests, Respond(r)
      PROVE  FailuresNotServed'
  <2>1. Asked(r)' # {}
    BY <1>6 DEF Respond, RequestInv, Asked
  <2>2. /\ fetch' = fetch /\ key' = key
        /\ \A q \in Requests : q # r => response'[q] = response[q]
    BY <1>6 DEF Respond, TypeOK
  <2> QED
    BY <2>1, <2>2 DEF FailuresNotServed, Asked
<1> QED
  BY <1>2, <1>3, <1>4, <1>5, <1>6 DEF Next, Lookups

(* A lookup of an address, a hash or a URL that no source answered leaves  *)
(* nothing behind: what the cache serves, a source answered.  The theorem  *)
(* says nothing of domains, where the code keeps a total failure.          *)
THEOREM FailuresAreNotServed == Spec => []FailuresNotServed
<1>1. Init => FailuresNotServed
  BY DEF Init, FailuresNotServed
<1>2. LookupInv /\ FailuresNotServed /\ [Next]_vars => FailuresNotServed'
  BY FailuresInductive
<1> QED
  BY <1>1, <1>2, LookupInitial, LookupInductive, PTL DEF Spec

-----------------------------------------------------------------------------
(* Query telemetry.                                                        *)

(* The entries in the queue, those the workers write, the workers that     *)
(* write, and the entries that were not dropped.                           *)
Waiting == {queue[i] : i \in 1..Len(queue)}
Held    == {writing[w] : w \in Workers} \ {None}
Busy    == {w \in Workers : writing[w] # None}
Kept    == logged \ dropped

(* No entry is in two places, nor twice in one.                            *)
EntriesApart ==
    /\ \A i, j \in 1..Len(queue) : queue[i] = queue[j] => i = j
    /\ \A v, w \in Workers : writing[v] # None /\ writing[v] = writing[w] => v = w
    /\ Waiting \cap (Held \cup ended \cup dropped) = {}
    /\ Held \cap (ended \cup dropped) = {}
    /\ ended \cap dropped = {}
    /\ logged = Waiting \cup Held \cup ended \cup dropped
    /\ \A r \in Requests : rows[r] <= 1 /\ (rows[r] = 1 => r \in ended)

(* As many entries as the places they are in; nothing is dropped before    *)
(* the queue was full of kept ones.                                        *)
EntriesCounted ==
    /\ IsFiniteSet(logged) /\ IsFiniteSet(dropped) /\ IsFiniteSet(ended)
    /\ IsFiniteSet(Busy) /\ IsFiniteSet(Kept)
    /\ Cardinality(logged) = Cardinality(Kept) + Cardinality(dropped)
    /\ Cardinality(Kept) = Len(queue) + Cardinality(Busy) + Cardinality(ended)
    /\ dropped # {} => Cardinality(Kept) >= QueueSize

(* The inductive invariant of the telemetry.                               *)
LogInv == Log!TypeOK /\ EntriesApart /\ EntriesCounted

(* With the lookups: only a lookup that has answered is logged, so none is *)
(* logged twice.                                                           *)
ServiceInv == LogInv /\ \A r \in logged : pc[r] = "done"

(* What a send on the channel adds.                                        *)
LEMMA QueuedAppend ==
    ASSUME NEW q \in Seq(Requests), NEW r \in Requests
    PROVE  /\ Append(q, r) \in Seq(Requests) /\ Len(Append(q, r)) = Len(q) + 1
           /\ \A i \in 1..Len(q) : Append(q, r)[i] = q[i]
           /\ Append(q, r)[Len(q) + 1] = r
           /\ {Append(q, r)[i] : i \in 1..Len(Append(q, r))} = {q[i] : i \in 1..Len(q)} \cup {r}
<1>1. /\ Append(q, r) \in Seq(Requests) /\ Len(Append(q, r)) = Len(q) + 1 /\ Len(q) \in Nat
      /\ \A i \in 1..Len(q) : Append(q, r)[i] = q[i]
      /\ Append(q, r)[Len(q) + 1] = r
  BY AppendProperties
<1>2. \A i : i \in 1..Len(Append(q, r)) <=> i \in 1..Len(q) \/ i = Len(q) + 1
  BY <1>1
<1> QED
  BY <1>1, <1>2

(* What a receive takes off the channel.                                   *)
LEMMA QueuedTail ==
    ASSUME NEW q \in Seq(Requests), q # <<>>,
           \A i, j \in 1..Len(q) : q[i] = q[j] => i = j
    PROVE  /\ Tail(q) \in Seq(Requests) /\ Len(Tail(q)) = Len(q) - 1
           /\ Head(q) \in Requests /\ Head(q) \in {q[i] : i \in 1..Len(q)}
           /\ \A i, j \in 1..Len(Tail(q)) : Tail(q)[i] = Tail(q)[j] => i = j
           /\ {Tail(q)[i] : i \in 1..Len(Tail(q))} = {q[i] : i \in 1..Len(q)} \ {Head(q)}
<1>1. /\ Tail(q) \in Seq(Requests) /\ Len(Tail(q)) = Len(q) - 1 /\ Len(q) \in Nat \ {0}
      /\ Head(q) = q[1] /\ q[1] \in Requests
      /\ \A i \in 1..Len(q) - 1 : Tail(q)[i] = q[i + 1]
  BY HeadTailProperties, EmptySeq
<1>2. \A i : i \in 1..Len(q) <=> i = 1 \/ (i - 1 \in 1..Len(q) - 1 /\ i \in Int)
  BY <1>1
<1>3. \A i \in 1..Len(q) - 1 : i + 1 \in 1..Len(q) /\ i + 1 # 1
  BY <1>1
<1>4. ASSUME NEW i \in 1..Len(Tail(q)), NEW j \in 1..Len(Tail(q)), Tail(q)[i] = Tail(q)[j]
      PROVE  i = j
  <2>1. q[i + 1] = q[j + 1] /\ i + 1 \in 1..Len(q) /\ j + 1 \in 1..Len(q)
    BY <1>1, <1>3, <1>4
  <2>2. i + 1 = j + 1
    BY <2>1
  <2> QED
    BY <1>1, <2>2
<1>5. {Tail(q)[i] : i \in 1..Len(Tail(q))} = {q[i + 1] : i \in 1..Len(q) - 1}
  BY <1>1
<1>6. {q[i + 1] : i \in 1..Len(q) - 1} = {q[i] : i \in 1..Len(q)} \ {Head(q)}
  <2>1. ASSUME NEW i \in 1..Len(q) - 1 PROVE q[i + 1] \in {q[k] : k \in 1..Len(q)} \ {q[1]}
    <3>1. i + 1 \in 1..Len(q) /\ i + 1 # 1 /\ 1 \in 1..Len(q)
      BY <1>1, <1>3
    <3> QED
      BY <3>1
  <2>2. ASSUME NEW i \in 1..Len(q), q[i] # q[1] PROVE q[i] \in {q[k + 1] : k \in 1..Len(q) - 1}
    <3>1. i - 1 \in 1..Len(q) - 1 /\ (i - 1) + 1 = i
      BY <1>1, <2>2
    <3> QED
      BY <3>1
  <2> QED
    BY <1>1, <2>1, <2>2
<1>7. 1 \in 1..Len(q)
  BY <1>1
<1> QED
  BY <1>1, <1>4, <1>5, <1>6, <1>7

(* Steps that leave the telemetry alone keep its invariant.                *)
LEMMA NothingLogged ==
    ASSUME LogInv, UNCHANGED <<db, queue, writing, dropped, logged, ended, rows>>
    PROVE  LogInv'
<1>1. Log!TypeOK'
  BY DEF LogInv, Log!TypeOK
<1>2. Waiting' = Waiting /\ Held' = Held /\ Busy' = Busy /\ Kept' = Kept
  BY DEF Waiting, Held, Busy, Kept
<1>3. EntriesApart'
  BY <1>2 DEF LogInv, EntriesApart
<1>4. EntriesCounted'
  BY <1>2 DEF LogInv, EntriesCounted
<1> QED
  BY <1>1, <1>3, <1>4 DEF LogInv

(* LogQuery puts a new entry in the queue or counts it as dropped.         *)
LEMMA QueryIsLogged ==
    ASSUME LogInv, NEW r \in Requests, r \notin logged, Log!LogQuery(r)
    PROVE  LogInv' /\ logged' \subseteq logged \cup {r}
<1> USE LogAssumption DEF LogInv, Log!TypeOK, Log!QueryLogAssumption
<1>0. Len(queue) \in Nat /\ dropped \subseteq logged /\ r \notin dropped /\ r # None
  BY DEF EntriesApart
<1>1. CASE ~db
  BY <1>1, NothingLogged DEF Log!LogQuery, Log!vars
<1>2. CASE db
  <2>1. /\ logged' = logged \cup {r} /\ UNCHANGED <<db, writing, ended, rows>>
        /\ Log!Enqueue(r)
    BY <1>2 DEF Log!LogQuery
  <2>2. /\ IsFiniteSet(logged') /\ Cardinality(logged') = Cardinality(logged) + 1
    BY <2>1, FS_AddElement DEF EntriesCounted
  <2>3. Held' = Held /\ Busy' = Busy
    BY <2>1 DEF Held, Busy
  <2>4. CASE Len(queue) < QueueSize /\ queue' = Append(queue, r) /\ UNCHANGED dropped
    <3>1. /\ queue' \in Seq(Requests) /\ Len(queue') = Len(queue) + 1
          /\ \A i \in 1..Len(queue) : queue'[i] = queue[i]
          /\ queue'[Len(queue) + 1] = r
          /\ Waiting' = Waiting \cup {r}
      <4>1. /\ Append(queue, r) \in Seq(Requests) /\ Len(Append(queue, r)) = Len(queue) + 1
            /\ \A i \in 1..Len(queue) : Append(queue, r)[i] = queue[i]
            /\ Append(queue, r)[Len(queue) + 1] = r
            /\ {Append(queue, r)[i] : i \in 1..Len(Append(queue, r))} = Waiting \cup {r}
        BY QueuedAppend DEF Waiting
      <4> QED
        BY <2>4, <4>1 DEF Waiting
    <3>2. Log!TypeOK'
      BY <1>0, <2>1, <2>4, <3>1
    <3>3. EntriesApart'
      <4>1. r \notin Waiting /\ r \notin Held /\ r \notin ended
        BY DEF EntriesApart
      <4>2. ASSUME NEW i \in 1..Len(queue'), NEW j \in 1..Len(queue'), queue'[i] = queue'[j]
            PROVE  i = j
        <5>1. \A k \in 1..Len(queue') : k \in 1..Len(queue) \/ k = Len(queue) + 1
          BY <1>0, <3>1
        <5>2. \A k \in 1..Len(queue) : queue[k] # r
          BY <4>1 DEF Waiting
        <5> QED
          BY <3>1, <4>2, <5>1, <5>2 DEF EntriesApart
      <4> QED
        BY <1>0, <2>1, <2>3, <2>4, <3>1, <4>1, <4>2 DEF EntriesApart
    <3>4. Kept' = Kept \cup {r} /\ r \notin Kept
      BY <1>0, <2>1, <2>4 DEF Kept
    <3>5. IsFiniteSet(Kept') /\ Cardinality(Kept') = Cardinality(Kept) + 1
      BY <3>4, FS_AddElement DEF EntriesCounted
    <3>6. /\ Cardinality(Kept) \in Nat /\ Cardinality(dropped) \in Nat
          /\ Cardinality(Busy) \in Nat /\ Cardinality(ended) \in Nat
      BY FS_CardinalityType DEF EntriesCounted
    <3>7. EntriesCounted'
      <4>1. /\ IsFiniteSet(dropped') /\ IsFiniteSet(ended') /\ IsFiniteSet(Busy')
            /\ Cardinality(dropped') = Cardinality(dropped)
            /\ Cardinality(Busy') = Cardinality(Busy) /\ Cardinality(ended') = Cardinality(ended)
        BY <2>1, <2>3, <2>4 DEF EntriesCounted
      <4>2. Cardinality(logged') = Cardinality(Kept') + Cardinality(dropped')
        BY <2>2, <3>5, <3>6, <4>1 DEF EntriesCounted
      <4>3. Cardinality(Kept') = Len(queue') + Cardinality(Busy') + Cardinality(ended')
        BY <1>0, <3>1, <3>5, <3>6, <4>1 DEF EntriesCounted
      <4>4. dropped' # {} => Cardinality(Kept') >= QueueSize
        BY <2>4, <3>5, <3>6 DEF EntriesCounted
      <4> QED
        BY <2>2, <3>5, <4>1, <4>2, <4>3, <4>4 DEF EntriesCounted
    <3> QED
      BY <2>1, <3>2, <3>3, <3>7
  <2>5. CASE Len(queue) = QueueSize /\ dropped' = dropped \cup {r} /\ UNCHANGED queue
    <3>1. Log!TypeOK'
      BY <2>1, <2>5
    <3>2. Waiting' = Waiting
      BY <2>5 DEF Waiting
    <3>3. EntriesApart'
      BY <2>1, <2>3, <2>5, <3>2 DEF EntriesApart
    <3>4. Kept' = Kept
      BY <1>0, <2>1, <2>5 DEF Kept
    <3>5. IsFiniteSet(dropped') /\ Cardinality(dropped') = Cardinality(dropped) + 1
      BY <1>0, <2>5, FS_AddElement DEF EntriesCounted
    <3>6. /\ Cardinality(Kept) \in Nat /\ Cardinality(dropped) \in Nat
          /\ Cardinality(Busy) \in Nat /\ Cardinality(ended) \in Nat
      BY FS_CardinalityType DEF EntriesCounted
    <3>7. EntriesCounted'
      <4>1. /\ IsFiniteSet(ended') /\ IsFiniteSet(Busy') /\ IsFiniteSet(Kept')
            /\ Cardinality(Kept') = Cardinality(Kept) /\ Len(queue') = Len(queue)
            /\ Cardinality(Busy') = Cardinality(Busy) /\ Cardinality(ended') = Cardinality(ended)
        BY <2>1, <2>3, <2>5, <3>4 DEF EntriesCounted
      <4>2. Cardinality(logged') = Cardinality(Kept') + Cardinality(dropped')
        BY <2>2, <3>5, <3>6, <4>1 DEF EntriesCounted
      <4>3. Cardinality(Kept') = Len(queue') + Cardinality(Busy') + Cardinality(ended')
        BY <4>1 DEF EntriesCounted
      <4>4. Cardinality(Kept') >= QueueSize
        BY <2>5, <3>6, <4>1 DEF EntriesCounted
      <4> QED
        BY <2>2, <3>5, <4>1, <4>2, <4>3, <4>4 DEF EntriesCounted
    <3> QED
      BY <2>1, <3>1, <3>3, <3>7
  <2> QED
    BY <2>1, <2>4, <2>5 DEF Log!Enqueue
<1> QED
  BY <1>1, <1>2

(* A worker moves an entry from the queue to its hands, and from there to  *)
(* the ended ones.                                                         *)
LEMMA WorkersKeepEntries ==
    ASSUME LogInv, NEW w \in Workers, Log!Works(w)
    PROVE  LogInv' /\ logged' = logged
<1> USE LogAssumption DEF LogInv, Log!TypeOK, Log!QueryLogAssumption
<1>0. /\ Len(queue) \in Nat /\ None \notin Requests
      /\ Cardinality(Kept) \in Nat /\ Cardinality(dropped) \in Nat
      /\ Cardinality(Busy) \in Nat /\ Cardinality(ended) \in Nat
  BY FS_CardinalityType DEF EntriesCounted
<1>1. CASE Log!Take(w)
  <2>1. /\ writing[w] = None /\ queue # <<>>
        /\ writing' = [writing EXCEPT ![w] = Head(queue)] /\ queue' = Tail(queue)
        /\ UNCHANGED <<db, dropped, logged, ended, rows>>
    BY <1>1 DEF Log!Take
  <2>2. PICK r : r = Head(queue)
    OBVIOUS
  <2>3. /\ queue' \in Seq(Requests) /\ Len(queue') = Len(queue) - 1
        /\ r \in Requests /\ r \in Waiting /\ Waiting' = Waiting \ {r}
        /\ \A i, j \in 1..Len(queue') : queue'[i] = queue'[j] => i = j
    <3>1. /\ queue \in Seq(Requests) /\ queue # <<>>
          /\ \A i, j \in 1..Len(queue) : queue[i] = queue[j] => i = j
      BY <2>1 DEF EntriesApart
    <3>2. /\ Tail(queue) \in Seq(Requests) /\ Len(Tail(queue)) = Len(queue) - 1
          /\ Head(queue) \in Requests /\ Head(queue) \in {queue[i] : i \in 1..Len(queue)}
          /\ \A i, j \in 1..Len(Tail(queue)) : Tail(queue)[i] = Tail(queue)[j] => i = j
          /\ {Tail(queue)[i] : i \in 1..Len(Tail(queue))}
                = {queue[i] : i \in 1..Len(queue)} \ {Head(queue)}
      BY <3>1, QueuedTail
    <3>3. Waiting = {queue[i] : i \in 1..Len(queue)}
          /\ Waiting' = {Tail(queue)[i] : i \in 1..Len(Tail(queue))}
      BY <2>1 DEF Waiting
    <3>4. r \in Waiting /\ Waiting' = Waiting \ {r}
      BY <2>2, <3>2, <3>3, Zenon
    <3> QED
      BY <2>1, <2>2, <3>2, <3>4
  <2>4. \A v \in Workers : writing'[v] = IF v = w THEN r ELSE writing[v]
    BY <2>1, <2>2
  <2>5. Held' = Held \cup {r} /\ Busy' = Busy \cup {w} /\ w \notin Busy
    BY <1>0, <2>1, <2>3, <2>4 DEF Held, Busy
  <2>6. Log!TypeOK'
    BY <1>0, <2>1, <2>2, <2>3
  <2>7. EntriesApart'
    <3>1. \A v \in Workers : writing[v] # r
      BY <2>3, <1>0 DEF EntriesApart, Held
    <3>2. \A u, v \in Workers : writing'[v] # None /\ writing'[v] = writing'[u] => v = u
      BY <2>4, <3>1 DEF EntriesApart
    <3> QED
      BY <2>1, <2>3, <2>5, <3>2 DEF EntriesApart
  <2>8. Kept' = Kept
    BY <2>1 DEF Kept
  <2>9. IsFiniteSet(Busy') /\ Cardinality(Busy') = Cardinality(Busy) + 1
    BY <2>5, FS_AddElement DEF EntriesCounted
  <2>10. EntriesCounted'
    BY <1>0, <2>1, <2>3, <2>8, <2>9 DEF EntriesCounted
  <2> QED
    BY <2>1, <2>6, <2>7, <2>10
<1>2. ASSUME NEW inserted \in BOOLEAN, Log!WriteReturns(w, inserted)
      PROVE  LogInv' /\ logged' = logged
  <2>1. PICK r : r = writing[w]
    OBVIOUS
  <2>2. /\ r # None /\ writing' = [writing EXCEPT ![w] = None]
        /\ ended' = ended \cup {r}
        /\ rows' = [rows EXCEPT ![r] = @ + (IF inserted THEN 1 ELSE 0)]
        /\ UNCHANGED <<db, queue, dropped, logged>>
    BY <1>2, <2>1 DEF Log!WriteReturns
  <2>3. r \in Requests /\ r \in Held /\ r \notin ended /\ r \notin dropped /\ r \notin Waiting
    BY <2>1, <2>2 DEF Held, EntriesApart
  <2>4. \A v \in Workers : writing'[v] = IF v = w THEN None ELSE writing[v]
    BY <2>2
  <2>5. Held' = Held \ {r} /\ Busy' = Busy \ {w} /\ w \in Busy
    <3>1. \A v \in Workers : writing[v] = r => v = w
      BY <2>1, <2>2 DEF EntriesApart
    <3> QED
      BY <2>1, <2>2, <2>4, <3>1 DEF Held, Busy
  <2>6. rows' \in [Requests -> Nat] /\ rows[r] = 0
    BY <2>2, <2>3 DEF EntriesApart
  <2>7. Log!TypeOK'
    BY <2>2, <2>3, <2>6
  <2>8. Waiting' = Waiting
    BY <2>2 DEF Waiting
  <2>9. EntriesApart'
    <3>1. \A q \in Requests : rows'[q] <= 1 /\ (rows'[q] = 1 => q \in ended')
      BY <2>2, <2>3, <2>6 DEF EntriesApart
    <3>2. \A u, v \in Workers : writing'[v] # None /\ writing'[v] = writing'[u] => v = u
      BY <2>4 DEF EntriesApart
    <3> QED
      BY <2>2, <2>3, <2>5, <2>8, <3>1, <3>2 DEF EntriesApart
  <2>10. Kept' = Kept
    BY <2>2 DEF Kept
  <2>11. IsFiniteSet(Busy') /\ Cardinality(Busy') = Cardinality(Busy) - 1
    BY <2>5, FS_RemoveElement DEF EntriesCounted
  <2>12. IsFiniteSet(ended') /\ Cardinality(ended') = Cardinality(ended) + 1
    BY <2>2, <2>3, FS_AddElement DEF EntriesCounted
  <2>13. EntriesCounted'
    <3>1. /\ IsFiniteSet(logged') /\ IsFiniteSet(dropped') /\ IsFiniteSet(Kept')
          /\ Cardinality(Kept') = Cardinality(Kept) /\ Len(queue') = Len(queue)
          /\ Cardinality(logged') = Cardinality(Kept') + Cardinality(dropped')
          /\ dropped' # {} => Cardinality(Kept') >= QueueSize
      BY <2>2, <2>10 DEF EntriesCounted
    <3>2. Cardinality(Kept') = Len(queue') + Cardinality(Busy') + Cardinality(ended')
      BY <1>0, <2>11, <2>12, <3>1 DEF EntriesCounted
    <3> QED
      BY <2>11, <2>12, <3>1, <3>2 DEF EntriesCounted
  <2> QED
    BY <2>2, <2>7, <2>9, <2>13
<1> QED
  BY <1>1, <1>2 DEF Log!Works

(* ServiceInv is inductive.                                                *)
LEMMA ServiceInductive ==
    ASSUME TypeOK, ServiceInv, [ServiceNext]_ServiceVars
    PROVE  ServiceInv'
<1>1. ASSUME UNCHANGED logVars PROVE LogInv'
  BY <1>1, NothingLogged DEF logVars, ServiceInv
<1>2. ASSUME \A r \in Requests : pc[r] = "done" => pc'[r] = "done", UNCHANGED logVars
      PROVE  ServiceInv'
  BY <1>1, <1>2 DEF logVars, ServiceInv, LogInv, Log!TypeOK
<1>3. CASE /\ \/ Tick \/ Cleanup
              \/ \E r \in Requests : Lookups(r) \/ \E s \in Sources : Fetches(r, s)
           /\ UNCHANGED logVars
  <2>1. \A r \in Requests : pc[r] = "done" => pc'[r] = "done"
    BY <1>3 DEF Tick, Cleanup, Lookups, Hit, Miss, Fetches, Start, Answer, Fail, SetFetch, TypeOK
  <2> QED
    BY <1>2, <1>3, <2>1
<1>4. ASSUME NEW r \in Requests, RespondAndLog(r)
      PROVE  ServiceInv'
  <2>1. pc[r] = "fetching" /\ pc' = [pc EXCEPT ![r] = "done"]
    BY <1>4 DEF RespondAndLog, Respond
  <2>2. \A q \in Requests : (pc[q] = "done" \/ q = r) => pc'[q] = "done"
    BY <2>1 DEF TypeOK
  <2>3. CASE UNCHANGED logVars
    BY <1>2, <2>2, <2>3
  <2>4. CASE Log!LogQuery(r)
    <3>1. LogInv' /\ logged' \subseteq logged \cup {r}
      BY <2>1, <2>4, QueryIsLogged DEF ServiceInv
    <3>2. logged \subseteq Requests
      BY DEF ServiceInv, LogInv, Log!TypeOK
    <3> QED
      BY <2>2, <3>1, <3>2 DEF ServiceInv
  <2> QED
    BY <1>4, <2>3, <2>4 DEF RespondAndLog
<1>5. ASSUME NEW w \in Workers, Log!Works(w), UNCHANGED vars
      PROVE  ServiceInv'
  BY <1>5, WorkersKeepEntries DEF ServiceInv, vars
<1>6. CASE UNCHANGED ServiceVars
  BY <1>2, <1>6 DEF ServiceVars, vars
<1> QED
  BY <1>3, <1>4, <1>5, <1>6 DEF ServiceNext

(* It holds when the server starts, with or without a database.            *)
LEMMA ServiceInitial == ServiceInit => ServiceInv
<1> SUFFICES ASSUME ServiceInit PROVE ServiceInv
  OBVIOUS
<1> USE LogAssumption DEF ServiceInit, Log!Init, Log!QueryLogAssumption
<1>1. Log!TypeOK
  BY DEF Log!TypeOK
<1>2. Waiting = {} /\ Held = {} /\ Busy = {} /\ Kept = {} /\ Len(queue) = 0
  BY DEF Waiting, Held, Busy, Kept
<1>3. EntriesApart
  BY <1>2 DEF EntriesApart
<1>4. EntriesCounted
  BY <1>2, FS_EmptySet DEF EntriesCounted
<1> QED
  BY <1>1, <1>3, <1>4 DEF ServiceInv, LogInv

(* A step of the service is one of the lookups, or leaves them alone.      *)
LEMMA ServiceStepIsLookupStep == [ServiceNext]_ServiceVars => [Next]_vars
  BY DEF ServiceNext, ServiceVars, RespondAndLog, Next

(* QueryLog counts with a FiniteSets of its own.                           *)
LEMMA SameCardinality == \A S : Log!Cardinality(S) = Cardinality(S)
  BY DEF Log!Cardinality, Cardinality

(* Every query that was logged waits, is being written, has ended or was   *)
(* counted as dropped, in exactly one of these; no row is written twice.   *)
THEOREM EveryEventIsAccounted == ServiceSpec => []EventsAccounted
<1>1. ServiceInit => LookupInv /\ ServiceInv
  BY LookupInitial, ServiceInitial DEF ServiceInit
<1>2. LookupInv /\ ServiceInv /\ [ServiceNext]_ServiceVars => LookupInv' /\ ServiceInv'
  BY LookupInductive, ServiceInductive, ServiceStepIsLookupStep DEF LookupInv
<1>3. ServiceInv => EventsAccounted
  <2> SUFFICES ASSUME ServiceInv PROVE EventsAccounted
    OBVIOUS
  <2> USE DEF ServiceInv, LogInv
  <2>1. DOMAIN queue = 1..Len(queue)
    BY DEF Log!TypeOK
  <2>2. Log!ToSet(queue) = Waiting /\ Log!InHand = Held
    BY <2>1 DEF Log!ToSet, Log!InHand, Waiting, Held
  <2>3. Kept = logged \ dropped /\ Busy = {w \in Workers : writing[w] # None}
    BY DEF Kept, Busy
  <2>4. /\ Cardinality(Kept) \in Nat /\ Cardinality(dropped) \in Nat /\ Len(queue) \in Nat
        /\ Cardinality(Busy) \in Nat /\ Cardinality(ended) \in Nat
    BY FS_CardinalityType DEF EntriesCounted, Log!TypeOK
  <2>5. logged = Log!ToSet(queue) \cup Log!InHand \cup ended \cup dropped
    BY <2>2 DEF EntriesApart
  <2>6. Cardinality(logged)
           = Len(queue) + Cardinality(Busy) + Cardinality(ended) + Cardinality(dropped)
    BY <2>4 DEF EntriesCounted
  <2>7. \A e \in Requests : rows[e] <= 1 /\ (rows[e] = 1 => e \in ended)
    BY DEF EntriesApart
  <2>8. dropped # {} => Cardinality(logged \ dropped) >= QueueSize
    BY <2>3 DEF EntriesCounted
  <2> QED
    BY <2>3, <2>5, <2>6, <2>7, <2>8, SameCardinality, Zenon DEF EventsAccounted, Log!EventsAccounted
<1> QED
  BY <1>1, <1>2, <1>3, PTL DEF ServiceSpec
=============================================================================
