----------------------------- MODULE Assessment -----------------------------
(***************************************************************************)
(* One lookup in detail: what each source answers and how its Fetch        *)
(* function reads it (internal/enrichment/services), how long that may     *)
(* take, and the verdict drawn from it (internal/enrichment/models).       *)
(* Lookup, which leaves all this out, is the abstraction it implements.    *)
(*                                                                         *)
(* The clock starts with the lookup.  A tick is two seconds, the interval  *)
(* at which URLScan is polled.  A slot may be long in coming: the lookup's *)
(* own calls take Slots at most, and other lookups may have the rest.      *)
(***************************************************************************)
EXTENDS Integers, FiniteSets

CONSTANTS
    None,          \* nil, and a body that is not the JSON expected
    Votes,         \* VirusTotal's statistics of an indicator, see Stats
    Reports,       \* AbuseIPDB's, see AbuseData
    Slots,         \* the capacity of services.sem
    Timeout,       \* of httpClient and of the DNS context, in ticks
    OTXTimeout,    \* of the client in otxGet, rounded up
    WhoisTimeout,  \* of one query of the WHOIS library
    WhoisQueries,  \* it asks so many servers, each named by the one before
    PollEvery,     \* between two polls of URLScan
    PollFor,       \* until a result that is not ready is given up
    MaxWait        \* bound of the model: by then every call has had its slot

Counts == Nat \cup {None}

Stats == [malicious : Counts, harmless : Counts, suspicious : Counts,
          undetected : Counts, label : BOOLEAN]

AbuseData == [score : 0..100, total : Nat, tor : BOOLEAN]

(* What a Fetch function may report; the details of a place and of a       *)
(* registration are of no account, nor are the names of OTX pulses.        *)
Readings ==
    {"place", "registered", 0, 1} \cup Stats \cup AbuseData
        \cup [empty : BOOLEAN] \cup [valid : BOOLEAN] \cup [safe : BOOLEAN]
        \cup [malicious : BOOLEAN] \cup [named : BOOLEAN]
        \cup [found : BOOLEAN, good : BOOLEAN]

Fractions == [num : Nat, den : Nat \ {0}]

Kinds == {"ip", "domain", "hash", "url"}

Rank == [clean |-> 0, low |-> 1, medium |-> 2, review |-> 3, high |-> 4, critical |-> 5]

ASSUME AssessmentAssumption ==
    /\ None \notin Nat \cup Readings \cup Fractions \cup Kinds \cup DOMAIN Rank
                    \cup {"hour", "quarter"}
    /\ Votes \subseteq Stats /\ Reports \subseteq AbuseData
    /\ {Timeout, OTXTimeout, WhoisTimeout, WhoisQueries} \subseteq Nat \ {0}
    /\ {PollEvery, PollFor, Slots} \subseteq Nat \ {0} /\ MaxWait \in Nat

VARIABLES
    kind,          \* the kind of the indicator, None before the request
    active,        \* URLScan is asked too
    now,           \* the clock
    stage,         \* where each source's Fetch function is
    got,           \* history: when it got its slot, while it has it
    began,         \* when its present call or sleep began
    deadline,      \* of the polls of URLScan
    data,          \* what each source's function has returned, or None
    success,       \* the sources whose SourceMetadata says Success
    heard,         \* history: the sources that have answered the question
    response,      \* the verdict of the response, or None
    stored         \* how long the cache keeps it: "hour", "quarter", or None

vars == <<kind, active, now, stage, got, began, deadline, data, success, heard,
          response, stored>>

(* How long one call of a source may take.                                 *)
Limit == [ipinfo |-> Timeout, abuseipdb |-> Timeout, virustotal |-> Timeout,
          whois |-> WhoisQueries * WhoisTimeout, dns |-> Timeout, ssl |-> Timeout,
          alienvault_otx |-> OTXTimeout, malwarebazaar |-> Timeout,
          circl_hashlookup |-> Timeout, google_safe_browsing |-> Timeout,
          urlscan |-> Timeout]

Sources == DOMAIN Limit

Asked == {s \in Sources : stage[s] # "off"}

InCall(s) == stage[s] \in {"calling", "dialing", "polling"}

(* FetchDNS takes no slot of the semaphore; the others keep theirs while   *)
(* they sleep, too.                                                        *)
Unlimited == {"dns"}

Holding == {s \in Sources \ Unlimited : InCall(s) \/ stage[s] = "sleeping"}

Init ==
    /\ kind = None /\ active = FALSE /\ now = 0 /\ deadline = 0
    /\ stage = [s \in Sources |-> "off"]
    /\ got = [s \in Sources |-> 0] /\ began = [s \in Sources |-> 0]
    /\ data = [s \in Sources |-> None]
    /\ success = {} /\ heard = {}
    /\ response = None /\ stored = None

-----------------------------------------------------------------------------
(* What the Fetch functions make of an answer.                             *)

(* An exchange: status 0 if it failed or timed out.                        *)
HTTP(bodies) == [status : {0, 404, 503}, body : {None}]
                    \cup [status : {200}, body : bodies \cup {None}]

Readable(reply) == reply.status = 200 /\ reply.body # None

Failed   == [success |-> FALSE, data |-> None]
Got(d)   == [success |-> TRUE, data |-> d]

Parsed(reply) == IF Readable(reply) THEN Got(reply.body) ELSE Failed

FetchIPInfo(reply)    == Parsed(reply)
FetchAbuseIPDB(reply) == Parsed(reply)
FetchOTXDomain(reply) == Parsed(reply)

(* An IP address, a domain or a URL: the label is of no account.           *)
FetchVirusTotal(reply) ==
    IF Readable(reply) THEN Got([reply.body EXCEPT !.label = FALSE]) ELSE Failed

FetchVirusTotalHash(reply) == Parsed(reply)

(* Mutant: whatever the query status, there is no such sample.             *)
FetchMalwareBazaarLenient(reply) ==
    IF ~Readable(reply) THEN Failed
    ELSE Got([named |-> reply.body.query = "ok" /\ reply.body.named])

(* An unknown sample is an answer; any other query status is an error.     *)
FetchMalwareBazaar(reply) ==
    IF ~Readable(reply) THEN Failed
    ELSE CASE reply.body.query = "ok"             -> Got([named |-> reply.body.named])
           [] reply.body.query = "hash_not_found" -> Got([named |-> FALSE])
           [] OTHER                               -> Failed

(* Not found is an answer.  A known file is good from a trust of 75 on.    *)
FetchCIRCL(reply) ==
    IF reply.status = 404 THEN Got([found |-> FALSE, good |-> FALSE])
    ELSE IF ~Readable(reply) THEN Failed
    ELSE Got([found |-> TRUE, good |-> reply.body.trust # None /\ reply.body.trust >= 75])

FetchSafeBrowsing(reply) ==
    IF Readable(reply) THEN Got([safe |-> reply.body.matches = 0]) ELSE Failed

(* The failure of a query is not looked at.                                *)
FetchDNS(found) == Got([empty |-> ~found])

FetchWHOIS(reply) == IF reply = "domain" THEN Got("registered") ELSE Failed

(* The replies a source may give in its one call, what its function makes  *)
(* of one, and which of them answer the question: not an error of any kind,*)
(* and not a body that cannot be read.                                     *)
Replies(s) ==
    CASE s = "ipinfo"           -> HTTP({"place"})
      [] s = "abuseipdb"        -> HTTP(Reports)
      [] s = "alienvault_otx"   -> HTTP({0, 1})
      [] s = "virustotal"       -> HTTP(Votes)
      [] s = "malwarebazaar"    -> HTTP([query : {"ok", "hash_not_found", "other"},
                                         named : BOOLEAN])
      [] s = "circl_hashlookup" -> HTTP([trust : {None, 74, 75}])
      [] s = "google_safe_browsing" -> HTTP([matches : {0, 1}])
      [] s = "whois"            -> {"error", "unparsable", "empty", "domain"}
      [] s = "dns"              -> BOOLEAN

Fetched(s, reply) ==
    CASE s = "ipinfo"           -> FetchIPInfo(reply)
      [] s = "abuseipdb"        -> FetchAbuseIPDB(reply)
      [] s = "alienvault_otx"   -> FetchOTXDomain(reply)
      [] s = "virustotal"       -> IF kind = "hash" THEN FetchVirusTotalHash(reply)
                                                    ELSE FetchVirusTotal(reply)
      [] s = "malwarebazaar"    -> FetchMalwareBazaar(reply)
      [] s = "circl_hashlookup" -> FetchCIRCL(reply)
      [] s = "google_safe_browsing" -> FetchSafeBrowsing(reply)
      [] s = "whois"            -> FetchWHOIS(reply)
      [] s = "dns"              -> FetchDNS(reply)

IsAnswer(s, reply) ==
    CASE s = "dns"              -> reply
      [] s = "whois"            -> reply = "domain"
      [] s = "circl_hashlookup" -> reply.status = 404 \/ Readable(reply)
      [] s = "malwarebazaar"    -> Readable(reply) /\ reply.body.query # "other"
      [] OTHER                  -> Readable(reply)

-----------------------------------------------------------------------------
(* The verdict: models/verdict.go and models/threat.go.                    *)

IsMaliciousTier(tier) == tier \in {"high", "critical"}

Positive(count) == count # None /\ count > 0

(* A majority against all other categories, none of which may be missing.  *)
Consensus(v) ==
    /\ None \notin {v.malicious, v.harmless, v.suspicious, v.undetected}
    /\ v.malicious > v.harmless + v.suspicious + v.undetected

CountOf(count) == IF count = None THEN 0 ELSE count

(* Mutant: volumes are tested in the other order, so that the smaller bonus*)
(* goes to the larger one.                                                 *)
VolumeBonusSwapped(total) == IF total >= 1000 THEN 5 ELSE IF total >= 100 THEN 15 ELSE 0

VolumeBonus(total) == IF total >= 1000 THEN 15 ELSE IF total >= 100 THEN 5 ELSE 0

(* The score of an address as a fraction, before it is cut and rounded: the*)
(* reports weigh 0.6 and the votes 0.4 where there are both.  None if there*)
(* is no evidence.  (Floating point rounds all of them the same way.)      *)
Composite(abuse, v) ==
    LET total  == v.malicious + CountOf(v.harmless) + CountOf(v.suspicious)
                              + CountOf(v.undetected)
        haveVT == v # None /\ v.malicious # None /\ total > 0
        bonus  == VolumeBonus(abuse.total) + (IF abuse.tor THEN 10 ELSE 0)
    IN  IF abuse # None /\ haveVT
        THEN [num |-> 6 * abuse.score * total + 400 * v.malicious + 10 * total * bonus,
              den |-> 10 * total]
        ELSE IF abuse # None THEN [num |-> abuse.score + bonus, den |-> 1]
        ELSE IF haveVT THEN [num |-> 100 * v.malicious, den |-> total]
        ELSE None

ScoreIPThreat(abuse, v) ==
    LET c == Composite(abuse, v)
    IN  IF c = None THEN 0
        ELSE IF c.num > 100 * c.den THEN 100
        ELSE (2 * c.num + c.den) \div (2 * c.den)

IPVerdict(d) ==
    LET score == ScoreIPThreat(d["abuseipdb"], d["virustotal"])
    IN  IF score >= 80 THEN "critical"
        ELSE IF score >= 50 THEN "high"
        ELSE IF score >= 25 THEN "medium"
        ELSE IF score >= 10 THEN "low" ELSE "clean"

(* Mutant: either kind of evidence is enough for HIGH.                     *)
DomainVerdictEither(d, ok) ==
    LET votes  == "virustotal" \in ok /\ Positive(d["virustotal"].malicious)
        pulses == "alienvault_otx" \in ok /\ Positive(d["alienvault_otx"])
    IN  IF pulses \/ (votes /\ Consensus(d["virustotal"])) THEN "high"
        ELSE IF votes THEN "review" ELSE "clean"

DomainVerdict(d, ok) ==
    LET votes  == "virustotal" \in ok /\ Positive(d["virustotal"].malicious)
        pulses == "alienvault_otx" \in ok /\ Positive(d["alienvault_otx"])
    IN  IF votes /\ Consensus(d["virustotal"]) /\ pulses THEN "high"
        ELSE IF votes \/ pulses THEN "review" ELSE "clean"

VotesVerdict(v) ==
    IF Consensus(v) THEN "high"
    ELSE IF Positive(v.malicious) \/ Positive(v.suspicious) THEN "review" ELSE "clean"

URLVerdict(d, ok) ==
    IF \/ "google_safe_browsing" \in ok /\ ~d["google_safe_browsing"].safe
       \/ "urlscan" \in ok /\ d["urlscan"].malicious
    THEN "high"
    ELSE IF "virustotal" \in ok THEN VotesVerdict(d["virustotal"]) ELSE "clean"

(* Mutant: a file that is known good is clean.                             *)
HashVerdictKnownGood(d, ok) ==
    IF "circl_hashlookup" \in ok /\ d["circl_hashlookup"].good THEN "clean"
    ELSE IF \/ "malwarebazaar" \in ok /\ d["malwarebazaar"].named
            \/ "virustotal" \in ok /\ d["virustotal"].label
    THEN "high"
    ELSE IF "virustotal" \in ok THEN VotesVerdict(d["virustotal"]) ELSE "clean"

HashVerdict(d, ok) ==
    IF \/ "malwarebazaar" \in ok /\ d["malwarebazaar"].named
       \/ "virustotal" \in ok /\ d["virustotal"].label
    THEN "high"
    ELSE IF "virustotal" \in ok THEN VotesVerdict(d["virustotal"]) ELSE "clean"

Tier(k, d, ok) ==
    CASE k = "ip"     -> IPVerdict(d)
      [] k = "domain" -> DomainVerdict(d, ok)
      [] k = "url"    -> URLVerdict(d, ok)
      [] k = "hash"   -> HashVerdict(d, ok)

-----------------------------------------------------------------------------
(* The handler and its goroutines.                                         *)

SourcesOf(k, a) ==
    CASE k = "ip"     -> {"ipinfo", "abuseipdb", "virustotal"}
      [] k = "domain" -> {"whois", "dns", "ssl", "virustotal", "alienvault_otx"}
      [] k = "hash"   -> {"virustotal", "malwarebazaar", "circl_hashlookup"}
      [] k = "url"    -> {"google_safe_browsing", "virustotal"}
                            \cup (IF a THEN {"urlscan"} ELSE {})

(* A request the cache does not answer.                                    *)
Ask(k, a) ==
    /\ kind = None
    /\ a => k = "url"
    /\ kind' = k /\ active' = a
    /\ stage' = [s \in Sources |-> IF s \in SourcesOf(k, a) THEN "waiting" ELSE "off"]
    /\ UNCHANGED <<now, got, began, deadline, data, success, heard, response, stored>>

(* A source's function goes on to another of its steps.                    *)
Enter(s, step) ==
    /\ stage' = [stage EXCEPT ![s] = step]
    /\ began' = [began EXCEPT ![s] = now]
    /\ UNCHANGED <<kind, active, now, data, success, heard, response, stored>>

(* It returns; the handler's goroutine notes data and metadata under mu.   *)
Return(s, outcome, answered) ==
    /\ stage' = [stage EXCEPT ![s] = "done"]
    /\ got' = [got EXCEPT ![s] = 0] /\ began' = [began EXCEPT ![s] = 0]
    /\ data' = [data EXCEPT ![s] = outcome.data]
    /\ success' = IF outcome.success THEN success \cup {s} ELSE success
    /\ heard' = IF answered THEN heard \cup {s} ELSE heard
    /\ UNCHANGED <<kind, active, now, deadline, response, stored>>

(* acquireSem returns.                                                     *)
Start(s) ==
    /\ stage[s] = "waiting"
    /\ s \notin Unlimited => Cardinality(Holding) < Slots
    /\ Enter(s, "calling")
    /\ got' = [got EXCEPT ![s] = now] /\ UNCHANGED deadline

Answers(s) ==
    /\ stage[s] = "calling" /\ s \notin {"ssl", "urlscan"}
    /\ \E reply \in Replies(s) : Return(s, Fetched(s, reply), IsAnswer(s, reply))

(* FetchSSL: every address of the host must be public, then its            *)
(* certificate is fetched.  One that does not verify is an answer, and so  *)
(* is anything else the host says that is not TLS as it should be (an alert*)
(* or another protocol: isCertVerificationErr looks for "tls:").           *)
ResolvePublicTarget(addresses) ==
    /\ stage["ssl"] = "calling"
    /\ IF addresses = {} \/ "special" \in addresses
       THEN Return("ssl", Failed, FALSE)
       ELSE Enter("ssl", "dialing") /\ UNCHANGED <<got, deadline>>

Dial(result) ==
    /\ stage["ssl"] = "dialing"
    /\ Return("ssl", CASE result = "certificate" -> Got([valid |-> TRUE])
                       [] result \in {"unverified", "other"} -> Got([valid |-> FALSE])
                       [] result = "unreachable" -> Failed,
                     result # "unreachable")

(* FetchURLScan.  A scan that is already queued is answered with 400.      *)
Submit(status, uuid) ==
    /\ stage["urlscan"] = "calling"
    /\ IF status \in {200, 400} /\ uuid
       THEN Enter("urlscan", "sleeping") /\ deadline' = now + PollFor /\ UNCHANGED got
       ELSE Return("urlscan", Failed, FALSE)

Wake ==
    /\ stage["urlscan"] = "sleeping" /\ now = began["urlscan"] + PollEvery
    /\ Enter("urlscan", "polling") /\ UNCHANGED <<got, deadline>>

(* Mutant: the time asleep does not count.                                 *)
GivesUpLater == now > deadline + PollEvery

GivesUp == now > deadline

Poll(reply) ==
    /\ stage["urlscan"] = "polling"
    /\ IF reply.status \in {0, 200} THEN Return("urlscan", Parsed(reply), Readable(reply))
       ELSE IF GivesUp THEN Return("urlscan", Failed, FALSE)
       ELSE Enter("urlscan", "sleeping") /\ UNCHANGED <<got, deadline>>

(* selectTTL, over the metadata of the sources that were asked.            *)
SelectTTL ==
    IF \A s \in Asked : s \notin success THEN None
    ELSE IF \E s \in Asked : s \notin success THEN "quarter" ELSE "hour"

(* wg.Wait returns: the verdict, Cache.Set, and the response.              *)
Respond ==
    /\ kind # None /\ response = None
    /\ \A s \in Asked : stage[s] = "done"
    /\ response' = Tier(kind, data, success)
    /\ stored' = SelectTTL
    /\ UNCHANGED <<kind, active, now, stage, got, began, deadline, data, success, heard>>

(* A call ends by its limit, a sleep when it is over.                      *)
Tick ==
    /\ Asked # {} /\ \E s \in Asked : stage[s] # "done"
    /\ \A s \in Asked :
          /\ stage[s] = "waiting" => s \notin Unlimited /\ now < MaxWait
          /\ InCall(s) => now < began[s] + Limit[s]
          /\ stage[s] = "sleeping" => now < began[s] + PollEvery
    /\ now' = now + 1
    /\ UNCHANGED <<kind, active, stage, got, began, deadline, data, success, heard,
                   response, stored>>

Next ==
    \/ \E k \in Kinds, a \in BOOLEAN : Ask(k, a)
    \/ \E s \in Sources : Start(s) \/ Answers(s)
    \/ \E addresses \in SUBSET {"public", "special"} : ResolvePublicTarget(addresses)
    \/ \E result \in {"certificate", "unverified", "other", "unreachable"} : Dial(result)
    \/ \E status \in {0, 200, 400, 503}, uuid \in BOOLEAN : Submit(status, uuid)
    \/ Wake
    \/ \E reply \in HTTP([malicious : BOOLEAN]) : Poll(reply)
    \/ Respond \/ Tick

Spec == Init /\ [][Next]_vars

-----------------------------------------------------------------------------
(* Properties.                                                             *)

TypeOK ==
    /\ kind \in Kinds \cup {None} /\ active \in BOOLEAN
    /\ now \in Nat /\ deadline \in Nat
    /\ got \in [Sources -> Nat] /\ began \in [Sources -> Nat]
    /\ stage \in [Sources -> {"off", "waiting", "calling", "dialing", "sleeping",
                              "polling", "done"}]
    /\ DOMAIN data = Sources /\ \A s \in Sources : data[s] # None => stage[s] = "done"
    /\ success = {s \in Sources : data[s] # None} /\ heard \subseteq Sources
    /\ response \in DOMAIN Rank \cup {None}
    /\ stored \in {"hour", "quarter", None}

(* The calls and sleeps of a Fetch function, one after the other.          *)
LongestStay(s) ==
    CASE s = "ssl"     -> 2 * Timeout
      [] s = "urlscan" -> 2 * Timeout + PollFor + PollEvery
      [] OTHER         -> Limit[s]

(* No slot is kept for long, whatever a source does: a Fetch function that *)
(* has got one returns, and gives it back, within the limits of the calls  *)
(* it makes, URLScan's polls, which only end after the deadline has passed,*)
(* included.  So a lookup whose calls have their slots is answered, and the*)
(* lookups in the queue for slots advance.  It may be too late all the same*)
(* for the server's write timeout (main.go:38): see the README.            *)
SlotsComeBack ==
    \A s \in Sources :
        InCall(s) \/ stage[s] = "sleeping" => now <= got[s] + LongestStay(s)

(* Evidence is only added to: no further answer, from a source that knows  *)
(* nothing, that failed or that thinks the file is good, lowers the tier   *)
(* that the answers so far justify (verdict.go:37 and 93).  An address is  *)
(* an exception, its score is an average.                                  *)
EvidenceNeverWithdrawn ==
    [][kind # None /\ kind # "ip"
          => Rank[Tier(kind, data, success)] <= Rank[Tier(kind, data', success')]]_vars

(* A domain is malicious only on corroborated evidence (verdict.go:36): of *)
(* the answers it rests on, none would be enough alone.                    *)
HighIsCorroborated ==
    kind = "domain" /\ response # None /\ IsMaliciousTier(response)
        => \A s \in success : ~IsMaliciousTier(Tier(kind, data, {s}))

(* The score of an address stays within 0 and 100, between those of its two*)
(* sources before the bonus, and never falls if a source reports more.     *)
ScoreOrdersEvidence ==
    kind = "ip" =>
        LET a == data["abuseipdb"]
            v == data["virustotal"]
            plain == IF a = None THEN None ELSE [a EXCEPT !.total = 0, !.tor = FALSE]
            score == ScoreIPThreat(a, v)
        IN  /\ score \in 0..100
            /\ a # None /\ Composite(None, v) # None =>
                  LET one == ScoreIPThreat(plain, None)
                      two == ScoreIPThreat(None, v)
                      both == ScoreIPThreat(plain, v)
                  IN  (one <= both /\ both <= two) \/ (two <= both /\ both <= one)
            /\ \A more \in Reports :
                  a # None /\ more.score >= a.score /\ more.total >= a.total
                           /\ (a.tor => more.tor)
                     => ScoreIPThreat(more, v) >= score

-----------------------------------------------------------------------------
(* The abstraction.                                                        *)

LookupResult == [asked |-> Asked, answered |-> heard, success |-> success, made |-> 0]

(* Every step of this lookup is one of Lookup, for one request and an empty*)
(* cache.  So no Fetch function takes an error for an answer or an answer  *)
(* for an error: what the metadata say of the sources, and how long the    *)
(* result is kept, is what Lookup makes of the sources that have really    *)
(* answered (DNS being the one that always succeeds).                      *)
Abstract == INSTANCE Lookup WITH
    Requests   <- {"r"},
    Keys       <- Kinds,
    KindOf     <- [k \in Kinds |-> k],
    TTLFull    <- 2,
    TTLPartial <- 1,
    MaxTime    <- 0,
    now   <- 0,
    entry <- [k \in Kinds |->
                IF stored = None \/ k # kind THEN None
                ELSE [result |-> LookupResult, expiry |-> IF stored = "hour" THEN 2 ELSE 1]],
    pc    <- [r \in {"r"} |-> IF kind = None THEN "idle"
                              ELSE IF response = None THEN "fetching" ELSE "done"],
    key   <- [r \in {"r"} |-> kind],
    optIn <- [r \in {"r"} |-> active],
    fetch <- [r \in {"r"} |-> [s \in Sources |->
                CASE stage[s] \in {"off", "waiting"} -> stage[s]
                  [] stage[s] = "done" -> IF s \in heard THEN "ok" ELSE "failed"
                  [] OTHER -> "running"]],
    response <- [r \in {"r"} |-> IF response = None THEN None
                                 ELSE [result |-> LookupResult, at |-> 0]]

ImplementsLookup == Abstract!Spec
=============================================================================
