# Verification of Ahlyx Labs

TLA+ specifications of the parts of this repository that keep state or decide, TLC
runs that check them on small instances, and TLAPS proofs of their safety properties
for every instance.

Run `tlc -config X.cfg M.tla` for the runs in the table below (module and
configuration are named there) and `tlapm XProofs.tla` for the proofs, which take
one to three minutes a module.

## 1. Inventory

One Go process (`cmd/server`) serves every API; the browser pages are static and
talk to it, the PCAP page also to an agent on the visitor's machine. No state
survives a restart except aggregate telemetry rows in a database, and nothing reads
those back, so there is no crash recovery to verify.

| part | state | operations | interacts with | what is hard | what makes it correct |
|---|---|---|---|---|---|
| PCAP relay (`internal/pcap`) | session map; per session tokens, bound flags, two connections, buffer, two mutexes | create, reserve, release, attach agent/viewer, forward, touch, delete, sweep | agent and viewer by WebSocket; telemetry | one goroutine per request, one sweeper; lookup, reservation, upgrade and attachment are separate critical sections; sockets close underneath their readers | one binding per role; no late reservation; no lost connection; frames in order, buffer in its limits; sessions end and end for both |
| rate limiter, origin verification (`internal/shared`) | global bucket, map of client buckets with last use | admit, look up/evict, allow | all routes | time read before the lock, bucket used after it; eviction | no client above its rate, no client limited for another's use |
| lookups and cache (`internal/enrichment/handlers`, `shared/cache.go`, `services/client.go`) | cache entries, semaphore, goroutines of each lookup | hit, miss, fetch, store, clean up | 11 external services | stampedes, overwriting, partial failure, a shared pool of slots | nothing stale served, total failures not cached, every lookup answered |
| source clients (`services/*.go`) | none of their own; URLScan's deadline | one Fetch each | the internet | failures, "not known" against "failed", timeouts, polling | `Success` says what happened, errors are not taken for answers; slots come back |
| verdicts (`models`) | none | pure | lookups, telemetry | combinations of missing data | evidence adds up, HIGH is corroborated, the score is ordered |
| telemetry (`shared/db.go`) | bounded queue, drop counter | log, write | database | full queue, slow database | no entry lost unaccounted, no request held up |
| scanner (`internal/scanner`) | channels of one scan | check, enumerate, scan | private network | two channels, fifty workers, a closer; address arithmetic | terminates, every port once, nothing reported lost; only private hosts |
| hardware API (`internal/hardware`) | none | read | host | - | - |
| PCAP page (`frontend/pcap`) | socket, timer, counters; flow table, pending queue, alerts | connect, events, timers; messages, scrolling | agent or relay | late events, retries of a single-use token; late scroll events, full queues | never stranded, status true; no gaps, no lost update |
| hardware page (`frontend/hardware`) | interval, runs of `fetchAll`, what each panel shows | load, show, hide, poll, answers | hardware API and its limiter | runs side by side, late answers | fresh figures, polling within the limit |
| enrichment page (`frontend/enrichment`) | tab, consent, searches, results, history | type, search, confirm, answer, clear | lookup API | overlapping searches, a page that outlives its server | a page at rest is true, no URL kept, nothing submitted unasked |
| analytics consent (`frontend/assets/analytics.js`) | one stored choice | accept, decline | - | - | - |

`PROJECT.json` lists the same parts with their source files and, under "hazards", 40
places where this code can go wrong in a way a test would hardly reach; each names
the properties that watch it or says why none does.

## 2. Modules

| module | models | abstract from |
|---|---|---|
| `Relay` | `session.go`, `handlers/relay.go`, `handlers/session.go` | frame contents, tokens, HTTP details |
| `RelayChannel` | nothing in the code: the first-in first-out channel a session promises | - |
| `MCRelay` | symmetry and frame sizes for TLC | - |
| `RateLimit`, `MCRateLimit` | `ratelimit.go`, `origin_verify.go`, the limiters of `main.go` | `x/time/rate` by its use |
| `Lookup`, `MCLookup` | the four lookup handlers, the cache, the semaphore | what sources say beyond "answered" and `Success` |
| `PcapViewer` | connection handling of `frontend/pcap/app.js`, with the relay and the agent as its environment | delays |
| `Scanner`, `MCScanner` | `scanner.go`, `handlers/scan.go` (the controlled handler) | address width, the list of ports, names of services |
| `PcapTables` | flow table, alerts and threat marking of `app.js` | the other panels, formatting |
| `Assessment`, `MCAssessment` | one lookup in detail: `services/*.go`, `models/verdict.go`, `models/threat.go` | bodies, beyond what verdicts read; the lookups that hold the other slots |
| `QueryLog` | `shared/db.go` | what a row holds |
| `LookupService`, `MCLookupService` | `Lookup` with its telemetry, `QueryLog` | - |
| `HardwarePage` | `frontend/hardware/script.js` and the route's bucket | what the figures are |
| `EnrichmentPage` | searches, results and history of `frontend/enrichment/app.js` | cards, feedback, texts |
| `Pages`, `MCPages` | the three pages that keep state, one at a time | - |
| `RelayProofs` | bindings, removals and connections of `Relay` | - |
| `RelayChannelProofs` | its frames, and that it implements `RelayChannel` | - |
| `RateLimitProofs` | theorems about `RateLimit` | - |
| `LookupProofs` | theorems about `Lookup` and `LookupService` | - |
| `AssessmentProofs` | theorems about `Assessment`, and that it implements `Lookup` | - |
| `ScannerProofs` | theorems about `Scanner` | - |
| `PagesProofs` | theorems about the three pages | - |
| `PcapTablesProofs` | theorems about `PcapTables` | - |

How they fit together: `Relay` implements `RelayChannel`, `Assessment` implements
`Lookup`, `LookupService` joins `Lookup` with `QueryLog`. `RateLimit` stands in
front of all routes, and `HardwarePage` holds the bucket that concerns it. The pages
see their servers by what they rely on.

### Relay

A handler (one request to `/ws/relay/{id}`) walks through `pc`: `reserve` (found in
the store, not yet reserved), `upgrade`, `bind` (upgraded, not yet attached), then
`serving`; an agent's also through `forward`, `write`, `touch` for each frame, a
viewer's first through `flush`; finally `delete`, `closeBoth`, `closing`. A step is
one critical section or one socket call, so every interleaving the locks allow is
explored. `RelaySession.mu` is never held across a step and needs no variable;
`sendMu` is, and has one. The fields of `RelaySession` are functions on `Sessions`,
which outlive the removal from `store` because handlers keep their pointers. The two
boolean flags `agentBound` and `viewerBound` are the set `bound`.

Connections are named after their handler. `sock` says whether the connection works:
a write succeeds only on an open one, a failed one stays failed, and a connection
closed underneath its reader may still yield frames it had read ahead. `Refuse`
covers every reason for a 401, the presentation of a wrong token among them. The two
histories `sent` and `delivered` exist only for the properties.

`RelayChannel` knows neither handlers nor locks. `ImplementsChannel` maps what is
being flushed, buffered and carried by `Forward`, in this order, to the content of
the channel and checks that every step of the relay is a step of the channel: a
frame is refused only when the limits are reached before the first delivery, and
frames are lost only after the session was closed or its viewer's socket failed.

### RateLimit

A request takes a global token (`Admit`), finds or makes its client's bucket (`Get`,
with the time read before the lock), and asks it (`Serve`, `Limit`). Buckets are
separate from the map, because a request may use one that has been evicted. Credit
is kept in ticks to stay within integers. `Stall` bounds the time a request spends
inside. The code has no such bound, but its margins are minutes: an entry lives 15
minutes, the slowest bucket fills in one, so the code stays correct for stalls up to
seven minutes. The exact condition, `EntryTTL >= Burst * Every + 2 * Stall`, is an
assumption of the module; with one tick less TLC finds a client above its rate.

### Lookup

A lookup hits or misses; a miss starts one fetch per source of the indicator's kind;
each waits for a slot, runs, answers or fails; when all have ended the result is
stored and returned. A result carries which sources were asked, which answered,
which *claim* success and when it was made, which is what the properties need.
`FetchDNS` takes no slot and always claims success.

### PcapViewer

The page has one thread, so one event handler is one step. Both modes are initial
states of one specification. The environment of relay mode is the viewer's half of
`Relay`: a session admits one viewer ever (theorem `OneBindingHolds`) and is gone
when that viewer leaves (`StoreDelete`), also if the page never learned that it had
been admitted.

### PcapTables

Flows are numbered by arrival. The browser's part is `Scroll`, which moves the view
and leaves a scroll event that is handled later; flows may arrive in between. The
numbers 200, 50 and 16 are constants.

### Scanner

`Refuse` and `Scan` are the checks of the controlled handler and of
`resolveTargets`, over every network and address of a small address space,
`EnumerateHosts` with the wrap-around of a `uint32`. Then the handler fills `tasks`,
closes it and drains `results` while the workers dial, in any order and with any
outcome, and the closer waits for them. Both channels have the capacity the code
computes. `hostMap` holds the ports received, by address, and `Hosts` is the loop
that lists it in the order of the addresses. `Block[k]` is the number of addresses
behind a prefix of `Bits - k` bits, a power of two. `dialled` and `open` are
histories.

### Assessment

One lookup from its request to its verdict. An exchange with a source is a status (0
for a failure or a timeout) and the part of the body that Success and the verdicts
read, and each Fetch function is an operator over it: `FetchCIRCL` takes a 404 for
an answer, `FetchMalwareBazaar` an unknown sample, `FetchDNS` anything. `FetchSSL`
has two stages, `FetchURLScan` submits, sleeps and polls.

A source waits for its slot (`acquireSem`, all but DNS) while time passes; other
lookups may hold slots, so the wait may be long, and it is bounded by nothing but
`MaxWait`, the model's own bound. `got` notes when the slot came. A call then takes
any time up to its limit: its client's timeout, or `WhoisQueries * WhoisTimeout` for
WHOIS, since the library follows referrals with up to three queries of 30 s each.
The clock's tick is the two seconds of a polling interval; `OTXTimeout` (5 s) is
rounded up. `SlotsComeBack` bounds the time from the slot on (`LongestStay`): a slot
is what the other lookups wait for. How soon the response comes is not promised;
section 4 says why.

The score of an address is computed in exact fractions. The code uses floating
point; both round alike for all scores, all totals up to 100 and all bonuses
(compared by enumeration), so the fraction is what the code computes there.

Each reply a service may give is marked by `IsAnswer` as an answer to the question
or as an error, apart from what the Fetch function makes of it (`Fetched`); `heard`
is the set of sources that have really answered. `SelectTTL` then decides from the
metadata how long the result is kept (`stored`). `ImplementsLookup` maps a source
that is in `heard` to one that answered in `Lookup`, any other to one that failed,
and the metadata to the success it claims there. So a client that takes an error for
an answer (an unexpected query status of MalwareBazaar for an unknown sample, say),
or an answer for an error, makes no step of `Lookup`. The exception is DNS, which
claims success in both modules. The slots are those of `Lookup`, and in the run they
are fewer than the sources.

For `FetchSSL` a host that was reached and whose certificate was not accepted has
answered: the metadata say success, with `is_valid` false. `isCertVerificationErr`
(`ssl.go`) takes any error with "tls:" in its text for such an answer, alerts of
another kind among them, and `Dial("other")` does the same.

### QueryLog and LookupService

`LogQuery` is the non-blocking send: into the queue if there is room, else counted.
A write may report an error although the row is in the table. The entry is never
tried again, so no row is there twice. `LookupService` adds it to the end of a
lookup (`RespondAndLog`). The scanner (`scan.go:64`, `:128`) and the relay's session
route (`session.go:19`) log in the same way.

### HardwarePage

Each run of `fetchAll` is at one panel and waits for its answer. Load, return to the
page and the interval start runs, and nothing stops one that is under way but a page
that is hidden when the answer comes. `shown` notes when the figures on a panel were
asked for. The bucket gains one token in two seconds, the tick.

The script sets no timeout; `CallLimit` is when the browser or the network ends a
call, and may be any number. If calls take long, the interval starts a run while
those before are under way, and nothing in the page keeps them from piling up.
`polled` marks the runs the interval started, and the history `pile` is the greatest
number of them that were under way at a time. `PollingIsNotLimited` says what a
refusal takes: `openings` of the page, `pile` runs and one more have more calls than
the bucket holds. With calls that end within the interval the pile is 1. With slower
ones polling alone may exhaust the bucket, and a page that is refused keeps its
figures until the next poll. `PanelsAreFresh` bounds their age in terms of
`CallLimit`.

### EnrichmentPage

`PerformSearch` up to its request is one step, the handling by the server one, the
answer or failure one. Enter starts a search whatever is under way, since only the
button is disabled. The visitor may be asked to confirm a URL with a query or
fragment; `chosen` notes what he did. The server validates a value against its type
and has its own `flag`, which `Reconfigure` changes under a page that learned it
once.

### Pages

A browser tab shows one page. `Pages` chooses one and lets it run; the others'
variables stay put, so that one run explores each page by itself. Assumptions on
their constants are restated there (`PagesAssumption`), as TLC evaluates only those
of extended modules.

## 3. Runs

Every passing run explores its whole state space.

| run | module, cfg | bounds | shows |
|---|---|---|---|
| relay_control | MCRelay, RelayControl | 2 sessions, 3 requests, TTL 0, no frames | `OneBinding`, `NoLateReservation`, `NoLostConnection`, `RemovedIsBeingClosed` |
| relay_sessions | MCRelay, RelaySessions | 1 session, agent and viewer, TTL 0, 4 frames of 1, 3, 2 and 0 bytes, buffer of 2 frames or 3 bytes | `FramesInOrder`, `BufferIsSound`, `ImplementsChannel`, `ExpiredIsRemoved`, `PartnerIsClosed`, `HandlersReturn`, types |
| rate_limit | MCRateLimit, RateLimit | 2 clients, 4 requests, 8 instants | `ClientsKeepRate`, `ServiceKeepsRate`, `LimitedOnlyWhenSpent` |
| lookup_cache | MCLookup, LookupCache | 3 lookups of one URL, 2 slots, TTLs 2 and 1, 4 instants | `NoStaleResponse`, `FailuresNotServed`, types |
| lookup_service | MCLookupService, LookupService | 2 lookups of 3 sources, 2 slots; 1 worker, queue of 1, with and without a database | `LookupsAnswered`, `EventsAccounted`, `TelemetryDrains` |
| assessment | MCAssessment, Assessment | every kind, 6 vote records, 24 reports; 2 slots, each had within 4 ticks; timeouts 5, 3 (OTX) and 3 times 15 (WHOIS) ticks, a poll each tick for 4 | `SlotsComeBack`, `HighIsCorroborated`, `ScoreOrdersEvidence`, `EvidenceNeverWithdrawn`, `ImplementsLookup` |
| lookup_domain, lookup_opt_in | MCLookup | 1 domain; 2 lookups of one URL | findings 1 and 2 |
| pages | MCPages, Pages | PCAP: 3 attempts, 2 sockets. Hardware: 2 panels every 2 ticks, bucket of 6, calls of at most 2 ticks, 6 runs, 3 openings by instant 2, 8 instants. Enrichment: 2 searches, an address and a URL with a query, history of 1 | `NeverStranded`, `StatusIsTrue`, `TokenUseIsBounded`, `FindsAgent`; `PollingIsNotLimited`, `PanelsAreFresh`; `HistoryIsSound`, `SettledViewIsTrue`, `SubmissionIsChosen` |
| pcap_tables | PcapTables, PcapTables | table and queue of 2, 4 flows, 3 positions, 2 addresses, 3 alerts for a list of 2 | `TableIsInOrder`, `ThreatsAreMarked`, `AlertsAreListed` |
| pcap_threats | PcapTables, PcapThreats | 1 flow | finding 3 |
| scanner | MCScanner, Scanner | 4-bit addresses, networks of at most 4, 3 allowlists, 3 ports, 2 workers | `ScanIsExact`, `TargetsAreRight`, `ScanReturns` |

Only `Relay` and `Lookup` list their type invariant in a run; that of every other
module documents its state and holds on the instances above.

Why the bounds are enough. Three requests are two for the same role and one for the
other, so that a second binding, a partner and a latecomer are all there. Six dials
exceed what two workers and small channels would hold. The sweeper's list needs two
sessions. Of the four frames one is dropped for its bytes, one fills both limits
exactly and one is dropped for the count alone; or they are flushed in between and
go on live. The clock may pass the TTL of 0 at any time, so a session expires at
every point of a handler's life. Four requests are two bursts of a bucket of one
token, around an eviction. Three lookups are two that race and one that reads what
they left. Four flows overflow a queue of two behind a row of the table, and the
merge cuts the table. The clock of each model stops at `MaxTime` (a bound of the
model), after every deadline of the instance has passed. `MaxFrames`, `MaxArrivals`,
`MaxOpenings`, `RunIds` and the sets of requests and searches bound what the peers
and visitors do. The vote records of `Assessment` lie on both sides of each test of
a verdict (a majority, a tie, suspicions alone, an incomplete majority, a label
alone, nothing), its reports on both sides of each bonus. Its time limits are the
code's own, in ticks; two slots are fewer than any lookup has sources that need one,
so that some wait while others hold theirs. Time passes before a slot comes for at
most `MaxWait` ticks, enough for a wait to end at a different time for each source.
A run of two panels with calls of two ticks lasts four ticks, two intervals, so
polled runs pile up to three; three openings and the polls are more than a bucket of
six holds, and requests are refused. Openings after `LastOpening` are left out: the
page opens, closes and opens again before the first polls, which is when a visitor
costs the most. Six runs are never all under way. Two searches are one that overlaps
another; two values are one that may be kept and one that may not. Symmetry is used
for requests and clients in runs without liveness properties only. Runs whose system
really may stop (all requests served, the clock at its end; a relay page whose
session ended) do not check for deadlock; the relay runs do, its sweeper never
stops.

Fairness. `Relay`: weak fairness of each handler's own steps (the Go scheduler runs
every goroutine that can run and `sync.Mutex` does not starve a waiter; the write
deadline of 10 s ends a write), of the sweeper and of the clock; nothing of the
peers, who may stay silent for ever. `Lookup`: a call that runs ends within the
client's timeout; a goroutine waiting for a slot gets one of those that keep
becoming free (channel senders queue in order), hence strong fairness of `Start`.
`LookupService` repeats it and adds nothing for telemetry: a lookup is answered
whatever the database does. `TelemetryDrains` states the assumption it needs itself,
that workers run and a write ends by its timeout (2 s). `Scanner`: goroutines run
and `dialTimeout` ends every dial. `PcapViewer`: timers fire, the agent that is up
accepts, the browser delivers events; nothing is assumed of the relay or the
visitor. The other two pages promise nothing that must happen, and `Assessment`
bounds its time instead.

Every property of a passing run has a mutant in `PROJECT.json`: a definition of the
module with a plausible mistake (the definitions commented "Mutant") under which TLC
finds the property violated.

## 4. Findings

1. `cache.go:56` and the privacy page say total failures are not cached. A domain
   lookup always has a "successful" DNS source (`dns.go:62`), so it is cached.
2. The URL page offers "Also submit this URL to URLScan"; the cache key
   (`url.go:43`) ignores the choice, so a cached answer suppresses the submission.
3. `app.js:597` says that rows of a threat's address are coloured retroactively; the
   comparison is with the displayed text, which is abbreviated for long IPv6
   addresses, so those rows are not.

Not disagreements of the kind a run refutes, but worth knowing:

* CloseBoth clears the session it finds, and a handler that reserved in time but
  upgrades after it still attaches its socket (`session.go:93`, `:100`). That
  session is out of the store; its bindings and credentials are unaffected
  (`OneBinding`, `RemovedIsBeingClosed`), and the socket is served until its peer
  leaves or misses its pings, never forgotten (`NoLostConnection`).
* A lookup is not sure to be answered within the server's write timeout of 30 s
  (`main.go:38`), after which the client gets nothing although the result is cached.
  `urlscan.go:73` gives up after 8 seconds of polling, but the submission, each poll
  and the last sleep come on top, 30 s in all (`LongestStay("urlscan")`). A WHOIS
  query (`whois.go:17`) follows the referrals of up to three servers with 30 s for
  each. And a source that waits for a slot (`client.go:16`) waits for calls like
  these.
* The hardware page goes on polling whatever its calls take (`script.js:235`); the
  runs of slow calls pile up (HardwarePage above).
* The global token is spent (`ratelimit.go:56`) by a request that its client's
  bucket then refuses, so one client's refused requests count against the service.
* A lookup of which every source failed has the verdict "clean", since verdicts rest
  on evidence only; `sources` in the answer says that none succeeded.
* When searches overlap, the answer that comes last is shown under the query that
  was made last, which need not be its own (`SettledViewIsTrue` says what holds).
* The hash page reads `data.malwarebazaar` (`app.js:426`) where the API says
  `malware_bazaar` (`models.go:212`), so that card stays hidden; a refusal's text is
  looked for in `detail` (`app.js:143`) where the API says `error`. Names of fields
  are not in the models.

## 5. Proofs

Every safety invariant and action property of the passing runs is proved for every
value of the constants, and so are both refinements. `PROJECT.json` lists the
theorems with the property each states.

The proofs rest on the assumptions of the modules alone (`RelayAssumption`,
`RateAssumption`, and so on), which TLC evaluates in the runs. Most say that numbers
are natural and that a marker like `None` is not taken for a value. Those with
something to say about the code:

* `RateAssumption`: a client's entry outlives the time its bucket needs to fill by
  two stalls (`EntryTTL >= Burst * Every + 2 * Stall`; see RateLimit above).
* `AssessmentAssumption`: AbuseIPDB reports scores from 0 to 100. The proof that
  scores lie in their range needs it of the source.
* `ScannerAssumption`: the highest address is not private and a private block is
  wider than the largest network that may be scanned (`scan.go:152`, a `/8`, `/12`
  and `/16` against `/24`). Without the first, `start + 1` could wrap.
* `TablesAssumption`: the queue is as long as the table (`app.js`,
  `MAX_PENDING_FLOWS = MAX_FLOWS`). Without it the merged table could have a gap.
* `HardwareAssumption`: the panels are no more than the ticks of an interval (five
  in ten seconds), so that the bucket gains what a poll asks for. Nothing is assumed
  of how long calls take.

### The relay

`TypeCorrect`: `TypeOK` includes three facts about `pc` that make it inductive: a
handler past `idle` has a session, one that forwards has a frame, one that writes
has a target.

`OneBindingHolds`: `OneBinding` says nothing of handlers between reservation and
upgrade. `BindingInv` speaks of *holders*: a handler holds its role while it is at
`upgrade` or `release` and, from the upgrade on, for good. Holders are in `bound`
(`HeldIsBound`), two holders differ in session or role (`HeldOnce`), and only
holders have sockets, those attached to a session or on the list of a CloseBoth
included. Reserve adds a holder only if the role is free; Release frees the role of
a holder without socket, who is the only holder; CloseBoth and the sweeper free
nothing. `RemovedIsClosed` needs that a session out of the store is removed by
exactly one goroutine until its tokens are gone (`RemovalInv`), `NoConnectionIsLost`
that nobody's list of connections is overwritten before it is empty (`ServedInv`).

`BufferStaysSound` and `RelayImplementsChannel` share `FlowInv`: who holds `sendMu`,
that the frame a `Forward` carries is the last one sent, that it writes to the
viewer that is attached, and that a session with a viewer buffers nothing. Each
action is then a step of `RelayChannel` or none. `FramesStayInOrder` is proved of
the steps of the channel (`OrderInv`: what was delivered, then what is pending, is a
subsequence of what was sent), not of those of the relay: the refinement saves the
case analysis.

### Rate limiter and lookups

`RateInv` compares each bucket with one that is never forgotten. `Within` bounds its
credit from above, `Spent` from below, and `CreditInv` carries both through an
eviction. The two rate theorems follow from the first, `OnlySpentAreLimited` from
the second.

`NoResponseIsStale` and `FailuresAreNotServed` need what a cached entry remembers:
it has a source that succeeded, one that really answered unless it is about a
domain, and expires when its lifetime, counted from when its result was made, is
over (`LookupInv`). For a domain the second part fails, which is finding 1.
`EveryEventIsAccounted` is about sizes; `LogInv` says that queue, hands, ended and
dropped are disjoint and that their counts grow with them, one element at a time.

`AInv` says at each step of a Fetch function how much time may have passed since it
got its slot (`TimeOf`), from which `SlotsAlwaysComeBack` follows, however long the
wait before it. `HeardInv` says that the sources with data are those that have
really answered, but for DNS. `EvidenceStays` and `HighStaysCorroborated` reduce to
facts about the verdict functions (`DomainGrows`, `AloneIsNotEnough`), since answers
are only added. `ScoresStayOrdered` compares fractions: cutting and rounding keep
their order (`ValueOrder`), a weighted mean lies between its parts.
`AssessmentImplementsLookup` maps each step to one of `Lookup`; most of it shows
that a slot is free there exactly when it is here, and that what `Lookup` makes of
those that answered (`HeardInv`) is what the metadata and `stored` say.

### Scanner

`ScanInv` says where each task of the plan is: not yet enqueued, in the channel,
with a worker, or dialled; and each that answered: with a worker, in `results`, or
listed. It is in one place and once, because the plan has no task twice
(`PlanLemma`, by division with remainder) and no two workers have the same one. When
the response is written all places but the last are empty. `HostsLemma` says what
the listing of `hostMap` returns. `TargetsStayRight` needs `HostsOfNetwork`: in a
private network, `EnumerateHosts` yields all addresses between the ends.

### Pages

The pages share nothing, so a step of `Pages` is one of a page or leaves it alone
(`PagesStep`). `ConnectionInv` ties the flags of the PCAP page to the state of its
socket. `EnrichInv` says what a search under way knows (the value and type of its
query, the consent given for it). `PanelsStayFresh`: for a moment *t* in view,
`FreshInv` follows the first poll from *t* on, whose run has either reached a panel
or is on its way there in time. `PollingStaysUnlimited`: the runs under way are no
more than the openings and the polled runs that have piled up (`CountInv`), so the
calls still ahead are bounded (`Within`), and `DebtInv` pays what is missing from
the bucket and what is ahead from these and from the time since the last poll.

`TableInv` computes the number of each row and each waiting flow from its place;
flows are dropped from the queue only when it is as long as the table, which the
queue then fills. The `ThreatsStayMarked` and `AlertsStayListed` proofs follow the
rows through rendering, merging and cutting.

### What stays model-checked

* Liveness, since fairness and `ENABLED` are out of the prover's reach:
  `ExpiredIsRemoved`, `PartnerIsClosed`, `HandlersReturn`, `LookupsAnswered`,
  `TelemetryDrains`, `FindsAgent`, `ScanReturns`.
* The three findings of section 4, which are counterexamples.
* Types of `QueryLog` and the pages are part of their inductive invariants and have
  no theorem of their own.

Recursive functions (`SizeOf`, `Block`, the one in `Hosts`) are proved to be what
their definitions say: the prover sees them as a `CHOOSE`, so each comes with a
lemma that there is such a function, by induction over an interval as a set
(`IntervalInduction`, from well-foundedness of `<`).

## 6. Not modelled

Durations are in `Assessment`, `HardwarePage` and `RateLimit`; elsewhere (the
relay's write deadline, the scanner's dials, reconnect delays) they appear only as
"some time later". The hardware API is stateless I/O; validators are string syntax;
router, configuration and headers are wiring; the static site and the analytics
consent keep at most one stored choice. Of the PCAP page the DNS, MAC, enrichment
and statistics panels only append or replace what they show. Two open pages each
write all of the history they loaded, so the last one wins; one page is modelled, as
no text promises more. Exceptions in the pages are left out: a
`localStorage.setItem` that throws (`app.js:459` of the enrichment page), a result
that cannot be rendered, a malformed `viewer_token` with which `new WebSocket`
throws (`app.js:69` of the PCAP page). `Cache.Delete` and `FetchOTXIP` have no
caller.

## 7. Plan

Done: all components with state or decisions, as listed in section 2; their safety
properties for all instances; the refinements of `RelayChannel` and `Lookup`.

Next:

1. Safety halves of the liveness properties, where they have one: that the scanner
   is never stuck (`Scanner`: before `done` some step of `Handle`, the workers or
   `CloseResults` is possible), that a handler of the relay never waits for a lock
   whose holder waits for it, that a lookup never waits while a slot is free and
   nothing runs.
2. `PcapViewer` joined to `Relay` instead of to an environment of its own.
3. The analytics consent.
