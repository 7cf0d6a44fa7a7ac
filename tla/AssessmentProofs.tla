-------------------------- MODULE AssessmentProofs --------------------------
(***************************************************************************)
(* Proofs about one lookup in detail: for all replies a source may give,   *)
(* all limits of time and numbers of slots that satisfy                    *)
(* AssessmentAssumption, and all statistics and reports.                   *)
(*                                                                         *)
(* AInv, the inductive invariant, says for every step a Fetch function may *)
(* be at how much time may have passed since it got its slot (TimeOf), and *)
(* that what it has returned is a reading of its source, which it is if    *)
(* and only if the source has answered (HeardInv). Steps are classified by *)
(* what they do to one source (StepForms): it goes on, or it returns. The  *)
(* score of an address is a fraction that is cut and rounded; that the     *)
(* order of two scores is the order of their fractions is proved once      *)
(* (ValueOrder) and then used with the fractions at hand.                  *)
(*                                                                         *)
(* At the end, the refinement: every step of a lookup is one of Lookup,    *)
(* for one request, an empty cache and the same slots.                     *)
(***************************************************************************)
EXTENDS Assessment, FiniteSetTheorems, TLAPS

-----------------------------------------------------------------------------
(* Constants, and what the Fetch functions report.                         *)

(* The eleven sources.                                                     *)
LEMMA SourcesAre ==
    Sources = {"ipinfo", "abuseipdb", "virustotal", "whois", "dns", "ssl", "alienvault_otx",
               "malwarebazaar", "circl_hashlookup", "google_safe_browsing", "urlscan"}
BY DEF Sources, Limit

(* The tiers and their ranks.                                              *)
LEMMA TiersAre ==
    /\ DOMAIN Rank = {"clean", "low", "medium", "review", "high", "critical"}
    /\ Rank["clean"] = 0 /\ Rank["low"] = 1 /\ Rank["medium"] = 2
    /\ Rank["review"] = 3 /\ Rank["high"] = 4 /\ Rank["critical"] = 5
BY DEF Rank

(* None is different from everything else.                                 *)
LEMMA NoneIsNothing ==
    /\ None \notin Nat /\ None \notin Readings /\ None \notin Kinds /\ None \notin DOMAIN Rank
    /\ "hour" # None /\ "quarter" # None
BY AssessmentAssumption

(* The limits of the calls.                                                *)
LEMMA LimitsAre ==
    /\ Timeout \in Nat \ {0} /\ PollEvery \in Nat \ {0} /\ PollFor \in Nat \ {0}
    /\ \A s \in Sources : Limit[s] \in Nat \ {0}
    /\ Limit["ssl"] = Timeout /\ Limit["urlscan"] = Timeout
<1>1. /\ Timeout \in Nat \ {0} /\ OTXTimeout \in Nat \ {0} /\ WhoisTimeout \in Nat \ {0}
      /\ PollEvery \in Nat \ {0} /\ PollFor \in Nat \ {0} /\ WhoisQueries \in Nat \ {0}
  BY AssessmentAssumption
<1>2. /\ Limit["ssl"] = Timeout /\ Limit["urlscan"] = Timeout
      /\ Limit["whois"] = WhoisQueries * WhoisTimeout
      /\ Limit["alienvault_otx"] = OTXTimeout
      /\ \A s \in Sources \ {"whois", "alienvault_otx"} : Limit[s] = Timeout
  BY SourcesAre DEF Limit
<1>3. \A m, n \in Nat \ {0} : m * n \in Nat \ {0}
  OBVIOUS
<1>4. WhoisQueries * WhoisTimeout \in Nat \ {0}
  BY <1>1, <1>3
<1> QED
  BY <1>1, <1>2, <1>4

(* What a source may report.                                               *)
Reading(s) ==
    CASE s = "virustotal"     -> Stats
      [] s = "abuseipdb"      -> Reports
      [] s = "alienvault_otx" -> {0, 1}
      [] OTHER                -> Readings

(* What a Fetch function returns: data if the source has answered (a), and *)
(* a failure if not; the one of DNS never fails.                           *)
Reported(o, a, s) ==
    \/ o = Failed /\ s # "dns" /\ a = FALSE
    \/ (\E d \in Reading(s) : o = Got(d)) /\ (s = "dns" \/ a = TRUE)

(* A reading is not None.                                                  *)
LEMMA ReadingIsSomething ==
    ASSUME NEW s, NEW d \in Reading(s)
    PROVE  d \in Readings /\ d # None
<1>1. d \in Readings
  BY AssessmentAssumption DEF Reading, Readings
<1> QED
  BY <1>1, NoneIsNothing

(* A body that is read as it is.                                           *)
LEMMA ParsedReported ==
    ASSUME NEW s \in Sources \ {"dns"}, NEW r \in HTTP(Reading(s))
    PROVE  Reported(Parsed(r), Readable(r), s)
<1>1. Readable(r) => r.body \in Reading(s)
  BY DEF HTTP, Readable
<1>2. CASE Readable(r)
  <2>1. Parsed(r) = Got(r.body)
    BY <1>2 DEF Parsed
  <2>2. Readable(r) = TRUE
    BY <1>2 DEF Readable
  <2> QED
    BY <1>1, <1>2, <2>1, <2>2 DEF Reported
<1>3. CASE ~Readable(r)
  <2>1. Parsed(r) = Failed
    BY <1>3 DEF Parsed
  <2>2. Readable(r) = FALSE
    BY <1>3 DEF Readable
  <2> QED
    BY <2>1, <2>2 DEF Reported
<1> QED
  BY <1>2, <1>3

(* Fewer bodies make fewer replies.                                        *)
LEMMA FewerReplies ==
    ASSUME NEW B, NEW C, B \subseteq C
    PROVE  HTTP(B) \subseteq HTTP(C)
BY DEF HTTP

(* What the functions of one call make of the replies.                     *)
LEMMA FetchedReported ==
    ASSUME NEW s \in Sources \ {"ssl", "urlscan"}, NEW r \in Replies(s)
    PROVE  Reported(Fetched(s, r), IsAnswer(s, r), s)
<1> DEFINE o == Fetched(s, r)
           a == IsAnswer(s, r)
<1>0. \A B : \A q \in HTTP(B) : Readable(q) => q.body \in B
  BY DEF HTTP, Readable
<1>a. \A q : Readable(q) \in BOOLEAN
  BY DEF Readable
<1>b. ASSUME s \in {"ipinfo", "abuseipdb", "alienvault_otx"}
      PROVE  Reported(o, a, s)
  <2>1. o = Parsed(r) /\ a = Readable(r)
    BY <1>b DEF Fetched, IsAnswer, FetchIPInfo, FetchAbuseIPDB, FetchOTXDomain
  <2>2. r \in HTTP(Reading(s))
    <3>1. CASE s = "ipinfo"
      <4>1. {"place"} \subseteq Reading(s)
        BY <3>1 DEF Reading, Readings
      <4>2. r \in HTTP({"place"})
        BY <3>1 DEF Replies
      <4> QED
        BY <4>1, <4>2, FewerReplies
    <3>2. CASE s = "abuseipdb"
      BY <3>2 DEF Reading, Replies
    <3>3. CASE s = "alienvault_otx"
      BY <3>3 DEF Reading, Replies
    <3> QED
      BY <1>b, <3>1, <3>2, <3>3
  <2> QED
    BY <1>b, <2>1, <2>2, ParsedReported
<1>4. ASSUME s = "virustotal"
      PROVE  Reported(o, a, s)
  <2>1. r \in HTTP(Votes) /\ a = Readable(r)
    BY <1>4 DEF Replies, IsAnswer
  <2>2. o = IF kind = "hash" THEN FetchVirusTotalHash(r) ELSE FetchVirusTotal(r)
    BY <1>4 DEF Fetched
  <2>3. Readable(r) => r.body \in Stats
    BY <1>0, <2>1, AssessmentAssumption
  <2>4. \A v \in Stats : [v EXCEPT !.label = FALSE] \in Stats
    BY DEF Stats
  <2>5. IF Readable(r) THEN \E d \in Stats : o = Got(d) ELSE o = Failed
    BY <2>2, <2>3, <2>4 DEF FetchVirusTotalHash, FetchVirusTotal, Parsed
  <2>6. Reading(s) = Stats
    BY <1>4 DEF Reading
  <2> HIDE DEF o, a
  <2> QED
    BY <1>4, <1>a, <2>1, <2>5, <2>6 DEF Reported
<1>5. ASSUME s = "malwarebazaar"
      PROVE  Reported(o, a, s)
  <2> DEFINE B == [query : {"ok", "hash_not_found", "other"}, named : BOOLEAN]
  <2>1. r \in HTTP(B) /\ o = FetchMalwareBazaar(r) /\ a = (Readable(r) /\ r.body.query # "other")
    BY <1>5 DEF Replies, Fetched, IsAnswer
  <2>2. Readable(r) => r.body \in B
    BY <1>0, <2>1
  <2>3. \A b \in BOOLEAN : [named |-> b] \in Readings
    BY DEF Readings
  <2>4. Readable(r) => /\ r.body.named \in BOOLEAN
                      /\ r.body.query \in {"ok", "hash_not_found", "other"}
    BY <2>2
  <2>5. Reading(s) = Readings
    BY <1>5 DEF Reading
  <2> HIDE DEF B, o, a
  <2>6. \/ o = Failed /\ a = FALSE
        \/ Readable(r) /\ o = Got([named |-> FALSE]) /\ a = TRUE
        \/ Readable(r) /\ o = Got([named |-> r.body.named]) /\ a = TRUE
    <3>1. CASE ~Readable(r)
      BY <2>1, <3>1 DEF FetchMalwareBazaar
    <3>2. CASE Readable(r) /\ r.body.query = "ok"
      BY <2>1, <3>2 DEF FetchMalwareBazaar
    <3>3. CASE Readable(r) /\ r.body.query = "hash_not_found"
      BY <2>1, <3>3 DEF FetchMalwareBazaar
    <3>4. CASE Readable(r) /\ r.body.query = "other"
      BY <2>1, <3>4 DEF FetchMalwareBazaar
    <3> QED
      BY <2>4, <3>1, <3>2, <3>3, <3>4
  <2> QED
    BY <1>5, <2>3, <2>4, <2>5, <2>6 DEF Reported
<1>6. ASSUME s = "circl_hashlookup"
      PROVE  Reported(o, a, s)
  <2>1. r \in HTTP([trust : {None, 74, 75}]) /\ o = FetchCIRCL(r)
        /\ a = (r.status = 404 \/ Readable(r))
    BY <1>6 DEF Replies, Fetched, IsAnswer
  <2>3. \A x, y \in BOOLEAN : [found |-> x, good |-> y] \in Readings
    BY DEF Readings
  <2>5. Reading(s) = Readings
    BY <1>6 DEF Reading
  <2> HIDE DEF o, a
  <2>6. PICK good \in BOOLEAN : \/ o = Failed /\ a = FALSE
                                \/ o = Got([found |-> FALSE, good |-> FALSE]) /\ a = TRUE
                                \/ o = Got([found |-> TRUE, good |-> good]) /\ a = TRUE
    <3>1. CASE r.status = 404
      BY <2>1, <3>1 DEF FetchCIRCL
    <3>2. CASE r.status # 404 /\ ~Readable(r)
      <4>1. Readable(r) = FALSE
        BY <3>2 DEF Readable
      <4>2. o = Failed
        BY <2>1, <3>2 DEF FetchCIRCL
      <4>3. a = FALSE
        BY <2>1, <3>2, <4>1
      <4> QED
        BY <4>2, <4>3
    <3>3. CASE r.status # 404 /\ Readable(r)
      <4>1. o = Got([found |-> TRUE, good |-> r.body.trust # None /\ r.body.trust >= 75])
        BY <2>1, <3>3 DEF FetchCIRCL
      <4>2. (r.body.trust # None /\ r.body.trust >= 75) \in BOOLEAN
        OBVIOUS
      <4>3. a = TRUE
        BY <2>1, <3>3
      <4> QED
        BY <4>1, <4>2, <4>3
    <3> QED
      BY <3>1, <3>2, <3>3
  <2> QED
    BY <1>6, <2>3, <2>5, <2>6 DEF Reported
<1>7. ASSUME s = "google_safe_browsing"
      PROVE  Reported(o, a, s)
  <2>1. o = FetchSafeBrowsing(r) /\ a = Readable(r)
    BY <1>7 DEF Fetched, IsAnswer
  <2>3. \A b \in BOOLEAN : [safe |-> b] \in Readings
    BY DEF Readings
  <2>5. Reading(s) = Readings
    BY <1>7 DEF Reading
  <2> HIDE DEF o, a
  <2>6. PICK safe \in BOOLEAN : \/ o = Failed /\ a = FALSE
                                \/ o = Got([safe |-> safe]) /\ a = TRUE
    <3>1. CASE ~Readable(r)
      <4>1. Readable(r) = FALSE
        BY <3>1 DEF Readable
      <4>2. o = Failed
        BY <2>1, <3>1 DEF FetchSafeBrowsing
      <4> QED
        BY <2>1, <4>1, <4>2
    <3>2. CASE Readable(r)
      <4>1. o = Got([safe |-> r.body.matches = 0]) /\ a = TRUE
        BY <1>a, <2>1, <3>2 DEF FetchSafeBrowsing
      <4>2. (r.body.matches = 0) \in BOOLEAN
        OBVIOUS
      <4> QED
        BY <4>1, <4>2
    <3> QED
      BY <3>1, <3>2
  <2> QED
    BY <1>7, <2>3, <2>5, <2>6 DEF Reported
<1>8. ASSUME s = "whois"
      PROVE  Reported(o, a, s)
  <2>1. o = FetchWHOIS(r) /\ a = (r = "domain")
    BY <1>8 DEF Fetched, IsAnswer
  <2>2. "registered" \in Reading(s)
    BY <1>8 DEF Reading, Readings
  <2> HIDE DEF o, a
  <2> QED
    BY <1>8, <2>1, <2>2 DEF FetchWHOIS, Reported
<1>9. ASSUME s = "dns"
      PROVE  Reported(o, a, s)
  <2>1. o = Got([empty |-> ~r]) /\ r \in BOOLEAN
    BY <1>9 DEF Fetched, FetchDNS, Replies
  <2>3. \A b \in BOOLEAN : [empty |-> b] \in Readings
    BY DEF Readings
  <2>4. Reading(s) = Readings
    BY <1>9 DEF Reading
  <2> HIDE DEF o, a
  <2> QED
    BY <1>9, <2>1, <2>3, <2>4 DEF Reported
<1> QED
  BY <1>b, <1>4, <1>5, <1>6, <1>7, <1>8, <1>9, SourcesAre

-----------------------------------------------------------------------------
(* The inductive invariant, and the steps by their form.                   *)

(* A step at which the function of s goes on.                              *)
Moves(s, step) ==
    /\ Enter(s, step)
    /\ \/ /\ stage[s] = "waiting" /\ step = "calling" /\ deadline' = deadline
          /\ s \notin Unlimited => Cardinality(Holding) < Slots
          /\ got' = [got EXCEPT ![s] = now]
       \/ /\ s = "ssl" /\ stage[s] = "calling" /\ step = "dialing"
          /\ deadline' = deadline /\ got' = got
       \/ /\ s = "urlscan" /\ stage[s] = "calling" /\ step = "sleeping"
          /\ deadline' = now + PollFor /\ got' = got
       \/ /\ s = "urlscan" /\ stage[s] = "sleeping" /\ step = "polling"
          /\ deadline' = deadline /\ got' = got
       \/ /\ s = "urlscan" /\ stage[s] = "polling" /\ step = "sleeping"
          /\ deadline' = deadline /\ got' = got /\ ~(now > deadline)

(* A step at which it returns.                                             *)
Returns(s, o, a) == InCall(s) /\ Reported(o, a, s) /\ Return(s, o, a)

(* The sources of the indicator are asked and no other, and nothing is     *)
(* answered or stored before all have returned.                            *)
KindInv ==
    /\ kind = None => \A s \in Sources : stage[s] = "off"
    /\ kind # None => \A s \in Sources : stage[s] # "off" <=> s \in SourcesOf(kind, active)
    /\ active => kind = "url"
    /\ response # None => kind # None /\ \A s \in Sources : stage[s] \in {"off", "done"}
    /\ response = None => stored = None

(* What has been returned are readings.                                    *)
DataInv == \A s \in Sources : data[s] # None => data[s] \in Reading(s)

(* The sources that have answered are those with data, but for DNS, which  *)
(* reports success whatever its queries returned.                          *)
HeardInv ==
    /\ \A s \in Sources : s \in heard => stage[s] = "done"
    /\ \A s \in Sources \ {"dns"} : s \in heard <=> data[s] # None
    /\ stage["dns"] = "done" => data["dns"] # None

(* How much time may have passed at each step of a function.               *)
TimeOf(s) ==
    /\ stage[s] = "calling" => began[s] = got[s] /\ now <= got[s] + Limit[s]
    /\ stage[s] = "dialing" => s = "ssl" /\ began[s] <= got[s] + Timeout
                                 /\ now <= began[s] + Timeout
    /\ stage[s] = "sleeping" => s = "urlscan" /\ began[s] <= deadline
                                  /\ deadline <= got[s] + Timeout + PollFor
                                  /\ now <= began[s] + PollEvery
    /\ stage[s] = "polling" => s = "urlscan" /\ began[s] <= deadline + PollEvery
                                 /\ deadline <= got[s] + Timeout + PollFor
                                 /\ now <= began[s] + Timeout

(* No function takes longer.                                               *)
TimeInv == \A s \in Sources : TimeOf(s)

(* The inductive invariant.                                                *)
AInv == TypeOK /\ KindInv /\ DataInv /\ HeardInv /\ TimeInv

(* Every step is one of these.                                             *)
LEMMA StepForms ==
    ASSUME [Next]_vars
    PROVE  \/ \E k \in Kinds, a \in BOOLEAN : Ask(k, a)
           \/ \E s \in Sources, step \in {"calling", "dialing", "sleeping", "polling"} :
                 Moves(s, step)
           \/ \E s \in Sources : \E o, a : Returns(s, o, a)
           \/ Respond \/ Tick \/ UNCHANGED vars
<1>0. "ssl" \in Sources /\ "urlscan" \in Sources
  BY SourcesAre
<1>2. ASSUME NEW s \in Sources, Start(s)
      PROVE  Moves(s, "calling")
  BY <1>2 DEF Start, Moves
<1>3. ASSUME NEW s \in Sources, Answers(s)
      PROVE  \E o, a : Returns(s, o, a)
  <2>1. PICK r \in Replies(s) : Return(s, Fetched(s, r), IsAnswer(s, r))
    BY <1>3 DEF Answers
  <2>2. stage[s] = "calling" /\ s \in Sources \ {"ssl", "urlscan"}
    BY <1>3 DEF Answers
  <2>3. Reported(Fetched(s, r), IsAnswer(s, r), s)
    BY <2>2, FetchedReported
  <2>4. InCall(s)
    BY <2>2 DEF InCall
  <2>5. Returns(s, Fetched(s, r), IsAnswer(s, r))
    BY <2>1, <2>3, <2>4 DEF Returns
  <2> QED
    BY <2>5
<1>4. Reported(Failed, FALSE, "ssl") /\ Reported(Failed, FALSE, "urlscan")
  BY DEF Reported
<1>5. ASSUME NEW addresses, ResolvePublicTarget(addresses)
      PROVE  Moves("ssl", "dialing") \/ \E o, a : Returns("ssl", o, a)
  <2>1. CASE Enter("ssl", "dialing") /\ UNCHANGED <<got, deadline>>
    BY <1>5, <2>1 DEF ResolvePublicTarget, Moves
  <2>2. CASE Return("ssl", Failed, FALSE)
    BY <1>4, <1>5, <2>2 DEF ResolvePublicTarget, Returns, InCall
  <2> QED
    BY <1>5, <2>1, <2>2 DEF ResolvePublicTarget
<1>6. ASSUME NEW result \in {"certificate", "unverified", "other", "unreachable"}, Dial(result)
      PROVE  \E o, a : Returns("ssl", o, a)
  <2>1. \A b \in BOOLEAN : Reported(Got([valid |-> b]), TRUE, "ssl")
    BY DEF Reported, Reading, Readings
  <2>2. InCall("ssl")
    BY <1>6 DEF Dial, InCall
  <2>3. CASE result = "certificate"
    BY <1>6, <2>1, <2>2, <2>3 DEF Dial, Returns
  <2>4. CASE result \in {"unverified", "other"}
    BY <1>6, <2>1, <2>2, <2>4 DEF Dial, Returns
  <2>5. CASE result = "unreachable"
    BY <1>4, <1>6, <2>2, <2>5 DEF Dial, Returns
  <2> QED
    BY <2>3, <2>4, <2>5
<1>7. ASSUME NEW status, NEW uuid, Submit(status, uuid)
      PROVE  Moves("urlscan", "sleeping") \/ \E o, a : Returns("urlscan", o, a)
  <2>1. CASE Enter("urlscan", "sleeping") /\ deadline' = now + PollFor /\ UNCHANGED got
    BY <1>7, <2>1 DEF Submit, Moves
  <2>2. CASE Return("urlscan", Failed, FALSE)
    BY <1>4, <1>7, <2>2 DEF Submit, Returns, InCall
  <2> QED
    BY <1>7, <2>1, <2>2 DEF Submit
<1>8. ASSUME Wake PROVE Moves("urlscan", "polling")
  BY <1>8 DEF Wake, Moves
<1>9. ASSUME NEW reply \in HTTP([malicious : BOOLEAN]), Poll(reply)
      PROVE  Moves("urlscan", "sleeping") \/ \E o, a : Returns("urlscan", o, a)
  <2>1. [malicious : BOOLEAN] \subseteq Reading("urlscan")
    BY DEF Reading, Readings
  <2>2. Reported(Parsed(reply), Readable(reply), "urlscan")
    <3>1. reply \in HTTP(Reading("urlscan"))
      BY <2>1, FewerReplies
    <3> QED
      BY <1>0, <3>1, ParsedReported
  <2>3. CASE reply.status \in {0, 200}
    BY <1>9, <2>2, <2>3 DEF Poll, Returns, InCall
  <2>4. CASE reply.status \notin {0, 200} /\ GivesUp
    BY <1>4, <1>9, <2>4 DEF Poll, Returns, InCall
  <2>5. CASE reply.status \notin {0, 200} /\ ~GivesUp
    BY <1>9, <2>5 DEF Poll, Moves, GivesUp
  <2> QED
    BY <2>3, <2>4, <2>5
<1> QED
  BY <1>0, <1>2, <1>3, <1>5, <1>6, <1>7, <1>8, <1>9 DEF Next

-----------------------------------------------------------------------------
(* AInv is inductive.                                                      *)

(* A verdict is a tier.                                                    *)
LEMMA TierType ==
    ASSUME NEW k \in Kinds, NEW d, NEW ok
    PROVE  Tier(k, d, ok) \in DOMAIN Rank
<1>1. IPVerdict(d) \in DOMAIN Rank
  BY TiersAre DEF IPVerdict
<1>2. DomainVerdict(d, ok) \in {"high", "review", "clean"}
  BY DEF DomainVerdict
<1>3. \A v : VotesVerdict(v) \in {"high", "review", "clean"}
  BY DEF VotesVerdict
<1>4. URLVerdict(d, ok) \in {"high", "review", "clean"}
  BY <1>3 DEF URLVerdict
<1>5. HashVerdict(d, ok) \in {"high", "review", "clean"}
  BY <1>3 DEF HashVerdict
<1>6. {"high", "review", "clean"} \subseteq DOMAIN Rank
  BY TiersAre
<1> QED
  BY <1>1, <1>2, <1>4, <1>5, <1>6 DEF Tier, Kinds

(* The steps of a Fetch function.                                          *)
Stages == {"off", "waiting", "calling", "dialing", "sleeping", "polling", "done"}

(* AInv holds at first.                                                    *)
LEMMA InitAInv == Init => AInv
<1> SUFFICES ASSUME Init PROVE AInv
  OBVIOUS
<1>1. /\ kind = None /\ active = FALSE /\ now = 0 /\ deadline = 0 /\ response = None
      /\ success = {} /\ heard = {} /\ stored = None
      /\ stage \in [Sources -> Stages] /\ began \in [Sources -> Nat]
      /\ got \in [Sources -> Nat] /\ DOMAIN data = Sources
      /\ \A s \in Sources : stage[s] = "off" /\ data[s] = None
  BY DEF Init, Stages
<1>2. TypeOK
  BY <1>1 DEF TypeOK, Stages
<1>3. KindInv
  BY <1>1 DEF KindInv
<1>4. DataInv /\ HeardInv
  BY <1>1, SourcesAre DEF DataInv, HeardInv
<1>5. TimeInv
  BY <1>1 DEF TimeInv, TimeOf
<1> QED
  BY <1>2, <1>3, <1>4, <1>5 DEF AInv

(* A request keeps AInv.                                                   *)
LEMMA AskStep ==
    ASSUME AInv, NEW k \in Kinds, NEW a \in BOOLEAN, Ask(k, a)
    PROVE  AInv'
<1>1. /\ kind = None /\ response = None
      /\ \A s \in Sources : stage[s] = "off" /\ data[s] = None
  <2>1. response = None
    BY DEF AInv, KindInv, Ask
  <2> QED
    BY <2>1 DEF AInv, KindInv, TypeOK, Ask
<1>2. /\ kind' = k /\ active' = a /\ (a => k = "url")
      /\ \A s \in Sources : stage'[s] = IF s \in SourcesOf(k, a) THEN "waiting" ELSE "off"
      /\ stage' \in [Sources -> Stages]
      /\ UNCHANGED <<now, got, began, deadline, data, success, heard, response, stored>>
  BY DEF Ask, Stages
<1>3. k # None
  BY NoneIsNothing
<1>4. TypeOK'
  BY <1>1, <1>2 DEF AInv, TypeOK, Stages
<1>5. KindInv'
  BY <1>1, <1>2, <1>3 DEF AInv, KindInv
<1>6. DataInv' /\ HeardInv'
  BY <1>1, <1>2, SourcesAre DEF AInv, DataInv, HeardInv
<1>7. TimeInv'
  BY <1>1, <1>2 DEF TimeInv, TimeOf
<1> QED
  BY <1>4, <1>5, <1>6, <1>7 DEF AInv

(* So does a function that goes on: its next step begins now.              *)
LEMMA MoveStep ==
    ASSUME AInv, NEW s \in Sources, NEW step \in {"calling", "dialing", "sleeping", "polling"},
           Moves(s, step)
    PROVE  AInv'
<1>0. /\ stage \in [Sources -> Stages] /\ began \in [Sources -> Nat]
      /\ got \in [Sources -> Nat] /\ now \in Nat /\ deadline \in Nat
  BY DEF AInv, TypeOK, Stages
<1>1. /\ stage' \in [Sources -> Stages] /\ began' \in [Sources -> Nat]
      /\ stage'[s] = step /\ began'[s] = now
      /\ \A x \in Sources \ {s} : stage'[x] = stage[x] /\ began'[x] = began[x]
      /\ UNCHANGED <<kind, active, now, data, success, heard, response, stored>>
  BY <1>0 DEF Moves, Enter, Stages
<1>2. stage[s] \in {"waiting", "calling", "sleeping", "polling"}
  BY DEF Moves
<1>3. deadline' \in Nat /\ got' \in [Sources -> Nat]
      /\ \A x \in Sources \ {s} : got'[x] = got[x]
  BY <1>0, LimitsAre DEF Moves
<1>4. TypeOK'
  BY <1>1, <1>2, <1>3 DEF AInv, TypeOK, Stages
<1>5. KindInv'
  BY <1>1, <1>2 DEF AInv, KindInv
<1>6. DataInv' /\ HeardInv'
  <2>1. \A x \in Sources : stage[x] = "done" <=> stage'[x] = "done"
    BY <1>1, <1>2
  <2> QED
    BY <1>1, <2>1, SourcesAre DEF AInv, DataInv, HeardInv
<1>7. TimeOf(s)'
  <2>0. TimeOf(s) /\ began[s] \in Nat /\ got[s] \in Nat
    BY <1>0 DEF AInv, TimeInv
  <2>1. CASE /\ stage[s] = "waiting" /\ step = "calling" /\ deadline' = deadline
             /\ got' = [got EXCEPT ![s] = now]
    <3>1. now' = now /\ stage'[s] = "calling" /\ began'[s] = now /\ got'[s] = now
      BY <1>0, <1>1, <2>1
    <3>2. now <= now + Limit[s]
      BY <1>0, LimitsAre
    <3> QED
      BY <3>1, <3>2 DEF TimeOf
  <2>2. CASE /\ s = "ssl" /\ stage[s] = "calling" /\ step = "dialing"
             /\ deadline' = deadline /\ got' = got
    <3>1. now <= got[s] + Timeout
      BY <2>0, <2>2, LimitsAre DEF TimeOf
    <3>2. now' = now /\ stage'[s] = "dialing" /\ began'[s] = now
      BY <1>1, <2>2
    <3>3. now <= now + Timeout
      BY <1>0, LimitsAre
    <3> QED
      BY <2>2, <3>1, <3>2, <3>3 DEF TimeOf
  <2>3. CASE /\ s = "urlscan" /\ stage[s] = "calling" /\ step = "sleeping"
             /\ deadline' = now + PollFor /\ got' = got
    <3>1. now <= got[s] + Timeout
      BY <2>0, <2>3, LimitsAre DEF TimeOf
    <3>2. now' = now /\ stage'[s] = "sleeping" /\ began'[s] = now
      BY <1>1, <2>3
    <3>3. /\ now <= now + PollFor /\ now + PollFor <= got[s] + Timeout + PollFor
          /\ now <= now + PollEvery
      BY <1>0, <2>0, <3>1, LimitsAre
    <3> QED
      BY <2>3, <3>2, <3>3 DEF TimeOf
  <2>4. CASE /\ s = "urlscan" /\ stage[s] = "sleeping" /\ step = "polling"
             /\ deadline' = deadline /\ got' = got
    <3>1. /\ began[s] <= deadline /\ deadline <= got[s] + Timeout + PollFor
          /\ now <= began[s] + PollEvery
      BY <2>0, <2>4 DEF TimeOf
    <3>2. now' = now /\ stage'[s] = "polling" /\ began'[s] = now
      BY <1>1, <2>4
    <3>3. now <= deadline + PollEvery /\ now <= now + Timeout
      BY <1>0, <2>0, <3>1, LimitsAre
    <3> QED
      BY <2>4, <3>1, <3>2, <3>3 DEF TimeOf
  <2>5. CASE /\ s = "urlscan" /\ stage[s] = "polling" /\ step = "sleeping"
             /\ deadline' = deadline /\ got' = got /\ ~(now > deadline)
    <3>1. deadline <= got[s] + Timeout + PollFor
      BY <2>0, <2>5 DEF TimeOf
    <3>2. now' = now /\ stage'[s] = "sleeping" /\ began'[s] = now
      BY <1>1, <2>5
    <3>3. now <= deadline /\ now <= now + PollEvery
      BY <1>0, <2>5, LimitsAre
    <3> QED
      BY <2>5, <3>1, <3>2, <3>3 DEF TimeOf
  <2> QED
    BY <2>1, <2>2, <2>3, <2>4, <2>5 DEF Moves
<1>8. ASSUME NEW x \in Sources \ {s} PROVE TimeOf(x)'
  <2>1. TimeOf(x)
    BY DEF AInv, TimeInv
  <2>2. stage'[x] = stage[x] /\ began'[x] = began[x] /\ got'[x] = got[x] /\ now' = now
    BY <1>1, <1>3
  <2>3. stage[x] \in {"sleeping", "polling"} => deadline' = deadline
    <3> HAVE stage[x] \in {"sleeping", "polling"}
    <3>1. x = "urlscan" /\ s # "urlscan"
      BY <2>1 DEF TimeOf
    <3> QED
      BY <3>1 DEF Moves
  <2> QED
    BY <2>1, <2>2, <2>3 DEF TimeOf
<1> QED
  BY <1>4, <1>5, <1>6, <1>7, <1>8 DEF AInv, TimeInv

(* Success means data, and an answer, but for DNS.                         *)
LEMMA ReportedType ==
    ASSUME NEW s, NEW o, NEW a, Reported(o, a, s)
    PROVE  /\ o.success \in BOOLEAN
           /\ o.success = (o.data # None)
           /\ o.data # None => o.data \in Reading(s)
           /\ s # "dns" => (a <=> o.data # None)
           /\ s = "dns" => o.data # None
<1>1. CASE o = Failed /\ s # "dns" /\ a = FALSE
  BY <1>1 DEF Failed
<1>2. CASE (\E d \in Reading(s) : o = Got(d)) /\ (s = "dns" \/ a = TRUE)
  <2>1. PICK d \in Reading(s) : o = Got(d)
    BY <1>2
  <2>2. d # None
    BY ReadingIsSomething
  <2>3. o.success = TRUE /\ o.data = d
    BY <2>1 DEF Got
  <2> QED
    BY <1>2, <2>2, <2>3
<1> QED
  BY <1>1, <1>2 DEF Reported

(* So does one that returns.                                               *)
LEMMA ReturnStep ==
    ASSUME AInv, NEW s \in Sources, NEW o, NEW a, Returns(s, o, a)
    PROVE  AInv'
<1>0. /\ stage \in [Sources -> Stages] /\ began \in [Sources -> Nat]
      /\ got \in [Sources -> Nat] /\ DOMAIN data = Sources
  BY DEF AInv, TypeOK, Stages
<1>1. /\ stage' \in [Sources -> Stages] /\ began' \in [Sources -> Nat]
      /\ got' \in [Sources -> Nat]
      /\ stage'[s] = "done"
      /\ \A x \in Sources \ {s} : stage'[x] = stage[x] /\ began'[x] = began[x]
                                   /\ got'[x] = got[x]
      /\ UNCHANGED <<kind, active, now, deadline, response, stored>>
  BY <1>0 DEF Returns, Return, Stages
<1>2. /\ DOMAIN data' = Sources
      /\ data'[s] = o.data
      /\ \A x \in Sources \ {s} : data'[x] = data[x]
      /\ success' = IF o.success THEN success \cup {s} ELSE success
      /\ heard' = IF a THEN heard \cup {s} ELSE heard
  BY <1>0 DEF Returns, Return
<1>3. /\ o.success = (o.data # None)
      /\ o.data # None => o.data \in Reading(s)
      /\ s # "dns" => (a <=> o.data # None)
      /\ s = "dns" => o.data # None
  BY ReportedType DEF Returns
<1>4. stage[s] \in {"calling", "dialing", "polling"} /\ data[s] = None /\ s \notin heard
  BY DEF Returns, InCall, AInv, TypeOK, HeardInv
<1>5. success' = {x \in Sources : data'[x] # None}
  <2>1. success = {x \in Sources : data[x] # None}
    BY DEF AInv, TypeOK
  <2>2. CASE o.data # None
    BY <1>2, <1>3, <2>1, <2>2
  <2>3. CASE o.data = None
    BY <1>2, <1>3, <1>4, <2>1, <2>3
  <2> QED
    BY <2>2, <2>3
<1>6. TypeOK'
  <2>1. heard' \subseteq Sources
    BY <1>2 DEF AInv, TypeOK
  <2> QED
    BY <1>1, <1>2, <1>5, <2>1 DEF AInv, TypeOK, Stages
<1>7. KindInv'
  BY <1>1, <1>4 DEF AInv, KindInv
<1>8. DataInv'
  BY <1>2, <1>3 DEF AInv, DataInv
<1>9. HeardInv'
  <2>1. \A x \in Sources \ {s} : x \in heard' <=> x \in heard
    BY <1>2
  <2>2. s \in heard' <=> a
    BY <1>2, <1>4
  <2>3. \A x \in Sources \ {"dns"} : x \in heard' <=> data'[x] # None
    <3> SUFFICES ASSUME NEW x \in Sources \ {"dns"}
                 PROVE  x \in heard' <=> data'[x] # None
      OBVIOUS
    <3>1. CASE x = s
      BY <1>2, <1>3, <2>2, <3>1
    <3>2. CASE x # s
      BY <1>2, <2>1, <3>2 DEF AInv, HeardInv
    <3> QED
      BY <3>1, <3>2
  <2>4. \A x \in Sources : x \in heard' => stage'[x] = "done"
    BY <1>1, <2>1 DEF AInv, HeardInv
  <2>5. stage'["dns"] = "done" => data'["dns"] # None
    <3>1. CASE s = "dns"
      BY <1>2, <1>3, <3>1
    <3>2. CASE s # "dns"
      BY <1>1, <1>2, <3>2, SourcesAre DEF AInv, HeardInv
    <3> QED
      BY <3>1, <3>2
  <2> QED
    BY <2>3, <2>4, <2>5 DEF HeardInv
<1>10. TimeInv'
  <2> SUFFICES ASSUME NEW x \in Sources PROVE TimeOf(x)'
    BY DEF TimeInv
  <2>1. CASE x = s
    BY <1>1, <2>1 DEF TimeOf
  <2>2. CASE x # s
    BY <1>1, <2>2 DEF AInv, TimeInv, TimeOf
  <2> QED
    BY <2>1, <2>2
<1> QED
  BY <1>6, <1>7, <1>8, <1>9, <1>10 DEF AInv

(* So does the response.                                                   *)
LEMMA RespondStep ==
    ASSUME AInv, Respond
    PROVE  AInv'
<1>1. /\ kind # None /\ response = None /\ response' = Tier(kind, data, success)
      /\ \A s \in Asked : stage[s] = "done"
      /\ stored' = SelectTTL
      /\ UNCHANGED <<kind, active, now, stage, got, began, deadline, data, success, heard>>
  BY DEF Respond
<1>2. kind \in Kinds
  BY <1>1 DEF AInv, TypeOK
<1>3. response' \in DOMAIN Rank /\ response' # None
  BY <1>1, <1>2, TierType, NoneIsNothing
<1>4. TypeOK'
  <2>1. stored' \in {"hour", "quarter", None}
    BY <1>1 DEF SelectTTL
  <2> QED
    BY <1>1, <1>3, <2>1 DEF AInv, TypeOK
<1>5. KindInv'
  BY <1>1, <1>3 DEF AInv, KindInv, Asked
<1>6. DataInv' /\ HeardInv' /\ TimeInv'
  BY <1>1 DEF AInv, DataInv, HeardInv, TimeInv, TimeOf
<1> QED
  BY <1>4, <1>5, <1>6 DEF AInv

(* So does time, which passes only as far as the limits of all the calls   *)
(* and sleeps under way allow.                                             *)
LEMMA TickStep ==
    ASSUME AInv, Tick
    PROVE  AInv'
<1>0. /\ now \in Nat /\ began \in [Sources -> Nat] /\ deadline \in Nat
      /\ got \in [Sources -> Nat] /\ stage \in [Sources -> Stages]
  BY DEF AInv, TypeOK, Stages
<1>1. /\ now' = now + 1
      /\ UNCHANGED <<kind, active, stage, got, began, deadline, data, success, heard,
                     response, stored>>
      /\ \A s \in Asked :
            /\ InCall(s) => now < began[s] + Limit[s]
            /\ stage[s] = "sleeping" => now < began[s] + PollEvery
  BY DEF Tick
<1>4. TypeOK' /\ KindInv' /\ DataInv' /\ HeardInv'
  BY <1>0, <1>1 DEF AInv, TypeOK, KindInv, DataInv, HeardInv
<1>5. ASSUME NEW s \in Sources
      PROVE  TimeOf(s)'
  <2>1. TimeOf(s) /\ began[s] \in Nat /\ got[s] \in Nat /\ Limit[s] \in Nat
    BY <1>0, LimitsAre DEF AInv, TimeInv
  <2>3. CASE stage[s] = "calling"
    <3>1. now < began[s] + Limit[s] /\ began[s] = got[s]
      BY <1>1, <2>1, <2>3 DEF Asked, InCall, TimeOf
    <3>2. now + 1 <= got[s] + Limit[s]
      BY <1>0, <2>1, <3>1
    <3> QED
      BY <1>1, <2>3, <3>1, <3>2 DEF TimeOf
  <2>4. CASE stage[s] = "dialing"
    <3>1. now < began[s] + Limit[s] /\ s = "ssl" /\ began[s] <= got[s] + Timeout
      BY <1>1, <2>1, <2>4 DEF Asked, InCall, TimeOf
    <3>2. now + 1 <= began[s] + Timeout
      BY <1>0, <2>1, <3>1, LimitsAre
    <3> QED
      BY <1>1, <2>4, <3>1, <3>2 DEF TimeOf
  <2>5. CASE stage[s] = "sleeping"
    <3>1. now < began[s] + PollEvery
      BY <1>1, <2>5 DEF Asked
    <3>2. now + 1 <= began[s] + PollEvery
      BY <1>0, <2>1, <3>1, LimitsAre
    <3> QED
      BY <1>1, <2>1, <2>5, <3>2 DEF TimeOf
  <2>6. CASE stage[s] = "polling"
    <3>1. now < began[s] + Limit[s] /\ s = "urlscan"
      BY <1>1, <2>1, <2>6 DEF Asked, InCall, TimeOf
    <3>2. now + 1 <= began[s] + Timeout
      BY <1>0, <2>1, <3>1, LimitsAre
    <3> QED
      BY <1>1, <2>1, <2>6, <3>1, <3>2 DEF TimeOf
  <2>7. CASE stage[s] \in {"off", "waiting", "done"}
    BY <1>1, <2>7 DEF TimeOf
  <2> QED
    BY <1>0, <2>3, <2>4, <2>5, <2>6, <2>7 DEF Stages
<1> QED
  BY <1>4, <1>5 DEF AInv, TimeInv

(* AInv is inductive.                                                      *)
LEMMA AInvInductive == AInv /\ [Next]_vars => AInv'
<1> SUFFICES ASSUME AInv, [Next]_vars PROVE AInv'
  OBVIOUS
<1>1. CASE UNCHANGED vars
  BY <1>1 DEF vars, AInv, TypeOK, KindInv, DataInv, HeardInv, TimeInv, TimeOf
<1> QED
  BY <1>1, StepForms, AskStep, MoveStep, ReturnStep, RespondStep, TickStep

(* The times of a function's steps add up: no slot is kept longer.         *)
LEMMA StaysEnd == AInv => SlotsComeBack
<1> SUFFICES ASSUME AInv, NEW s \in Sources, InCall(s) \/ stage[s] = "sleeping"
             PROVE  now <= got[s] + LongestStay(s)
  BY DEF SlotsComeBack
<1>1. /\ TimeOf(s) /\ now \in Nat /\ began[s] \in Nat /\ got[s] \in Nat /\ deadline \in Nat
      /\ Limit[s] \in Nat
  BY LimitsAre DEF AInv, TimeInv, TypeOK
<1>2. CASE stage[s] = "calling"
  <2>1. now <= got[s] + Limit[s]
    BY <1>1, <1>2 DEF TimeOf
  <2>2. Limit[s] <= LongestStay(s) /\ LongestStay(s) \in Nat
    BY <1>1, LimitsAre DEF LongestStay
  <2> QED
    BY <1>1, <2>1, <2>2
<1>3. CASE stage[s] = "dialing"
  <2>1. s = "ssl" /\ began[s] <= got[s] + Timeout /\ now <= began[s] + Timeout
    BY <1>1, <1>3 DEF TimeOf
  <2> QED
    BY <1>1, <2>1, LimitsAre DEF LongestStay
<1>4. CASE stage[s] = "sleeping"
  <2>1. /\ s = "urlscan" /\ began[s] <= deadline /\ deadline <= got[s] + Timeout + PollFor
        /\ now <= began[s] + PollEvery
    BY <1>1, <1>4 DEF TimeOf
  <2> QED
    BY <1>1, <2>1, LimitsAre DEF LongestStay
<1>5. CASE stage[s] = "polling"
  <2>1. /\ s = "urlscan" /\ began[s] <= deadline + PollEvery
        /\ deadline <= got[s] + Timeout + PollFor /\ now <= began[s] + Timeout
    BY <1>1, <1>5 DEF TimeOf
  <2> QED
    BY <1>1, <2>1, LimitsAre DEF LongestStay
<1> QED
  BY <1>2, <1>3, <1>4, <1>5 DEF InCall

-----------------------------------------------------------------------------
(* Evidence and tiers.                                                     *)

(* No source alone makes a domain malicious.                               *)
LEMMA AloneIsNotEnough ==
    ASSUME NEW d, NEW s
    PROVE  ~IsMaliciousTier(DomainVerdict(d, {s}))
<1>1. DomainVerdict(d, {s}) \in {"review", "clean"}
  BY DEF DomainVerdict
<1> QED
  BY <1>1 DEF IsMaliciousTier

(* The answers e of ok2 include the answers d of ok.                       *)
More(d, ok, e, ok2) ==
    /\ ok \subseteq ok2
    /\ \A s \in ok : e[s] = d[s]

(* The tiers of domains, URLs and hashes.                                  *)
Tiered == {"high", "review", "clean"}

(* The tier of votes.                                                      *)
LEMMA VotesTier == \A v : VotesVerdict(v) \in Tiered
BY DEF VotesVerdict, Tiered

(* The order of the three.                                                 *)
LEMMA RankOrder ==
    ASSUME NEW a \in Tiered, NEW b \in Tiered,
           a = "high" => b = "high", a = "review" => b # "clean"
    PROVE  Rank[a] <= Rank[b]
BY TiersAre DEF Tiered

(* More answers do not lower the tier of a domain.                         *)
LEMMA DomainGrows ==
    ASSUME NEW d, NEW e, NEW ok, NEW ok2, More(d, ok, e, ok2)
    PROVE  Rank[DomainVerdict(d, ok)] <= Rank[DomainVerdict(e, ok2)]
<1>1. DomainVerdict(d, ok) \in Tiered /\ DomainVerdict(e, ok2) \in Tiered
  BY DEF DomainVerdict, Tiered
<1>2. DomainVerdict(d, ok) = "high" => DomainVerdict(e, ok2) = "high"
  BY DEF DomainVerdict, More
<1>3. DomainVerdict(d, ok) = "review" => DomainVerdict(e, ok2) # "clean"
  BY DEF DomainVerdict, More
<1> QED
  BY <1>1, <1>2, <1>3, RankOrder

(* Nor that of a URL.                                                      *)
LEMMA URLGrows ==
    ASSUME NEW d, NEW e, NEW ok, NEW ok2, More(d, ok, e, ok2)
    PROVE  Rank[URLVerdict(d, ok)] <= Rank[URLVerdict(e, ok2)]
<1>1. URLVerdict(d, ok) \in Tiered /\ URLVerdict(e, ok2) \in Tiered
  BY VotesTier DEF URLVerdict, Tiered
<1>2. URLVerdict(d, ok) = "high" => URLVerdict(e, ok2) = "high"
  BY DEF URLVerdict, More
<1>3. URLVerdict(d, ok) = "review" => URLVerdict(e, ok2) # "clean"
  BY DEF URLVerdict, More
<1> QED
  BY <1>1, <1>2, <1>3, RankOrder

(* Nor that of a hash.                                                     *)
LEMMA HashGrows ==
    ASSUME NEW d, NEW e, NEW ok, NEW ok2, More(d, ok, e, ok2)
    PROVE  Rank[HashVerdict(d, ok)] <= Rank[HashVerdict(e, ok2)]
<1>1. HashVerdict(d, ok) \in Tiered /\ HashVerdict(e, ok2) \in Tiered
  BY VotesTier DEF HashVerdict, Tiered
<1>2. HashVerdict(d, ok) = "high" => HashVerdict(e, ok2) = "high"
  BY DEF HashVerdict, More
<1>3. HashVerdict(d, ok) = "review" => HashVerdict(e, ok2) # "clean"
  BY DEF HashVerdict, More
<1> QED
  BY <1>1, <1>2, <1>3, RankOrder

(* Nor any of them.                                                        *)
LEMMA TierGrows ==
    ASSUME NEW k \in Kinds \ {"ip"}, NEW d, NEW e, NEW ok, NEW ok2, More(d, ok, e, ok2)
    PROVE  Rank[Tier(k, d, ok)] <= Rank[Tier(k, e, ok2)]
<1>1. CASE k = "domain"
  BY <1>1, DomainGrows DEF Tier
<1>2. CASE k = "url"
  BY <1>2, URLGrows DEF Tier
<1>3. CASE k = "hash"
  BY <1>3, HashGrows DEF Tier
<1> QED
  BY <1>1, <1>2, <1>3 DEF Kinds

(* Every step only adds answers.                                           *)
LEMMA EvidenceGrows ==
    ASSUME AInv, [Next]_vars, kind # None
    PROVE  More(data, success, data', success')
<1>1. ASSUME NEW s \in Sources, NEW o, NEW a, Returns(s, o, a)
      PROVE  More(data, success, data', success')
  <2>1. s \notin success
    BY <1>1 DEF AInv, TypeOK, Returns, InCall
  <2>2. success \subseteq Sources /\ DOMAIN data = Sources
    BY DEF AInv, TypeOK
  <2>3. \A x \in Sources \ {s} : data'[x] = data[x]
    BY <1>1, <2>2 DEF Returns, Return
  <2>4. success \subseteq success'
    BY <1>1 DEF Returns, Return
  <2> QED
    BY <2>1, <2>2, <2>3, <2>4 DEF More
<1>2. ASSUME data' = data, success' = success
      PROVE  More(data, success, data', success')
  BY <1>2 DEF More
<1>3. \A s, step : Moves(s, step) => data' = data /\ success' = success
  BY DEF Moves, Enter
<1>4. Respond \/ Tick \/ UNCHANGED vars => data' = data /\ success' = success
  BY DEF Respond, Tick, vars
<1>5. ~\E k, a : Ask(k, a)
  BY DEF Ask
<1> QED
  BY <1>1, <1>2, <1>3, <1>4, <1>5, StepForms

-----------------------------------------------------------------------------
(* Rounding.                                                               *)

(* The quotient is not too large.                                          *)
LEMMA DivIsBetween ==
    ASSUME NEW x \in Nat, NEW y \in Nat \ {0}
    PROVE  x \div y \in Nat /\ (x \div y) * y <= x
OBVIOUS

(* Nor too small.                                                          *)
LEMMA DivIsLargest ==
    ASSUME NEW x \in Nat, NEW y \in Nat \ {0}, NEW q \in Nat, q * y <= x
    PROVE  q <= x \div y
OBVIOUS

(* Multiplication keeps the order.                                         *)
LEMMA TimesOrder ==
    ASSUME NEW x \in Int, NEW y \in Int, x <= y, NEW z \in Nat
    PROVE  x * z <= y * z
OBVIOUS

(* And can be undone.                                                      *)
LEMMA TimesCancels ==
    ASSUME NEW x \in Int, NEW y \in Int, NEW z \in Nat \ {0}, x * z <= y * z
    PROVE  x <= y
OBVIOUS

(* The rules of multiplication, to be cited with their terms.              *)
LEMMA TimesRules ==
    ASSUME NEW x \in Int, NEW y \in Int, NEW z \in Int
    PROVE  /\ x * y \in Int /\ x * y = y * x
           /\ (x * y) * z = x * (y * z) /\ (x + y) * z = x * z + y * z
OBVIOUS

(* Products of natural numbers.                                            *)
LEMMA TimesNat ==
    ASSUME NEW x \in Nat, NEW y \in Nat
    PROVE  x * y \in Nat /\ (x > 0 /\ y > 0 => x * y > 0)
OBVIOUS

(* math.Round of n/d.                                                      *)
Round(n, d) == (2 * n + d) \div (2 * d)

(* Cut at 100, then rounded.                                               *)
Value(n, d) == IF n > 100 * d THEN 100 ELSE Round(n, d)

(* Never above 100.                                                        *)
LEMMA ValueRange ==
    ASSUME NEW n \in Nat, NEW d \in Nat \ {0}
    PROVE  Value(n, d) \in 0..100
<1>1. CASE n > 100 * d
  BY <1>1 DEF Value
<1>2. CASE ~(n > 100 * d)
  <2>1. 2 * n + d \in Nat /\ 2 * d \in Nat \ {0} /\ 2 * n + d < 101 * (2 * d)
    BY <1>2
  <2>2. PICK q \in Nat : q = Round(n, d) /\ q * (2 * d) <= 2 * n + d
    BY <2>1, DivIsBetween DEF Round
  <2>3. ~(101 <= q)
    <3>1. 101 <= q => 101 * (2 * d) <= q * (2 * d)
      BY <2>1, TimesOrder
    <3>2. PICK p \in Int : p = q * (2 * d)
      BY <2>1
    <3> QED
      BY <2>1, <2>2, <3>1, <3>2
  <2> QED
    BY <1>2, <2>2, <2>3 DEF Value
<1> QED
  BY <1>1, <1>2

(* Rounding keeps the order of fractions.                                  *)
LEMMA RoundOrder ==
    ASSUME NEW n \in Nat, NEW d \in Nat \ {0}, NEW m \in Nat, NEW e \in Nat \ {0},
           n * e <= m * d
    PROVE  Round(n, d) <= Round(m, e)
<1>1. 2 * n + d \in Nat /\ 2 * d \in Nat \ {0} /\ 2 * m + e \in Nat /\ 2 * e \in Nat \ {0}
  OBVIOUS
<1>2. PICK q \in Nat : q = Round(n, d) /\ q * (2 * d) <= 2 * n + d
  BY <1>1, DivIsBetween DEF Round
<1>3. PICK qd \in Nat, qe \in Nat, ne \in Nat, md \in Nat, de \in Nat :
         qd = q * d /\ qe = q * e /\ ne = n * e /\ md = m * d /\ de = d * e
  BY TimesNat
<1>4. q * (2 * d) = 2 * qd /\ q * (2 * e) = 2 * qe
  BY <1>3
<1>5. qd * e = qe * d
  <2>1. qd * e = q * (d * e)
    BY <1>3, TimesRules
  <2>2. qe * d = q * (e * d)
    BY <1>3, TimesRules
  <2> QED
    BY <2>1, <2>2, TimesRules
<1>6. 2 * qd <= 2 * n + d
  BY <1>2, <1>4
<1>7. (2 * qd) * e <= (2 * n + d) * e
  BY <1>6, TimesOrder
<1>8. (2 * qd) * e = 2 * (qd * e) /\ (2 * n + d) * e = 2 * ne + de
  BY <1>3, TimesRules
<1>9. (2 * qe) * d <= (2 * m + e) * d
  <2>1. (2 * qe) * d = 2 * (qe * d)
    BY TimesRules
  <2>2. (2 * m + e) * d = 2 * md + de
    BY <1>3, TimesRules
  <2>3. ne <= md
    BY <1>3
  <2>4. PICK p \in Int : p = qe * d
    OBVIOUS
  <2>5. 2 * p <= 2 * ne + de
    BY <1>5, <1>7, <1>8, <2>4
  <2>6. 2 * p <= 2 * md + de
    BY <2>3, <2>5
  <2> QED
    BY <2>1, <2>2, <2>4, <2>6
<1>10. 2 * qe <= 2 * m + e
  BY <1>9, TimesCancels
<1>11. q * (2 * e) <= 2 * m + e
  BY <1>4, <1>10
<1> QED
  BY <1>1, <1>2, <1>11, DivIsLargest DEF Round

(* Cutting does too.                                                       *)
LEMMA ValueOrder ==
    ASSUME NEW n \in Nat, NEW d \in Nat \ {0}, NEW m \in Nat, NEW e \in Nat \ {0},
           n * e <= m * d
    PROVE  Value(n, d) <= Value(m, e)
<1>1. Value(n, d) \in 0..100
  BY ValueRange
<1>2. CASE m > 100 * e
  BY <1>1, <1>2 DEF Value
<1>3. CASE ~(m > 100 * e)
  <2>1. m <= 100 * e
    BY <1>3
  <2>2. m * d <= (100 * e) * d
    BY <2>1, TimesOrder
  <2>3. (100 * e) * d = (100 * d) * e
    BY TimesRules
  <2>4. n * e <= (100 * d) * e
    BY <2>2, <2>3
  <2>5. n <= 100 * d
    BY <2>4, TimesCancels
  <2>6. ~(n > 100 * d)
    BY <2>5
  <2> QED
    BY <1>3, <2>6, RoundOrder DEF Value
<1> QED
  BY <1>2, <1>3

-----------------------------------------------------------------------------
(* The score of an address.                                                *)

(* The number of votes.                                                    *)
TotalOf(v) ==
    v.malicious + CountOf(v.harmless) + CountOf(v.suspicious) + CountOf(v.undetected)

(* There are votes to score.                                               *)
HaveVT(v) == v # None /\ v.malicious # None /\ TotalOf(v) > 0

(* The bonus of a report.                                                  *)
Bonus(a) == VolumeBonus(a.total) + (IF a.tor THEN 10 ELSE 0)

(* Their numbers.                                                          *)
LEMMA HaveVTType ==
    ASSUME NEW v \in Stats \cup {None}, HaveVT(v)
    PROVE  v.malicious \in Nat /\ TotalOf(v) \in Nat \ {0}
<1>1. v \in Stats
  BY DEF HaveVT
<1>2. v.malicious \in Nat
  BY <1>1 DEF HaveVT, Stats, Counts
<1>3. \A c \in Counts : CountOf(c) \in Nat
  BY DEF CountOf, Counts
<1>4. CountOf(v.harmless) \in Nat /\ CountOf(v.suspicious) \in Nat /\ CountOf(v.undetected) \in Nat
  BY <1>1, <1>3 DEF Stats
<1>5. TotalOf(v) \in Nat
  BY <1>2, <1>4 DEF TotalOf
<1> QED
  BY <1>2, <1>5 DEF HaveVT

(* The numbers of a report.                                                *)
LEMMA BonusType ==
    ASSUME NEW a \in AbuseData
    PROVE  a.score \in 0..100 /\ a.total \in Nat /\ Bonus(a) \in Nat
BY DEF AbuseData, Bonus, VolumeBonus

(* More reports earn no smaller a bonus.                                   *)
LEMMA BonusOrder ==
    ASSUME NEW a \in AbuseData, NEW b \in AbuseData, b.total >= a.total, a.tor => b.tor
    PROVE  Bonus(a) <= Bonus(b)
<1>1. a.total \in Nat /\ b.total \in Nat
  BY BonusType
<1>2. VolumeBonus(a.total) <= VolumeBonus(b.total) /\ VolumeBonus(a.total) \in Nat
         /\ VolumeBonus(b.total) \in Nat
  BY <1>1 DEF VolumeBonus
<1> QED
  BY <1>2 DEF Bonus

(* The score is the value of the composite fraction.                       *)
LEMMA FractionValue ==
    ASSUME NEW n \in Nat, NEW d \in Nat \ {0}, NEW a, NEW v,
           Composite(a, v) = [num |-> n, den |-> d]
    PROVE  ScoreIPThreat(a, v) = Value(n, d)
<1>1. [num |-> n, den |-> d] # None
  BY AssessmentAssumption DEF Fractions
<1> QED
  BY <1>1 DEF ScoreIPThreat, Value, Round

(* The score by reports and votes.                                         *)
LEMMA ScoreOfBoth ==
    ASSUME NEW a \in AbuseData, NEW v \in Stats \cup {None}, HaveVT(v),
           NEW t \in Nat \ {0}, t = TotalOf(v), NEW m \in Nat, m = v.malicious
    PROVE  LET n == 6 * (a.score * t) + 400 * m + 10 * (t * Bonus(a))
           IN  n \in Nat /\ ScoreIPThreat(a, v) = Value(n, 10 * t)
<1>1. a.score \in Nat /\ Bonus(a) \in Nat
  BY BonusType
<1>2. a # None
  BY AssessmentAssumption DEF Readings
<1>3. Composite(a, v) = [num |-> 6 * a.score * t + 400 * m + 10 * t * Bonus(a), den |-> 10 * t]
  BY <1>2 DEF Composite, HaveVT, TotalOf, Bonus
<1>4. PICK s \in Nat, b \in Nat : s = a.score /\ b = Bonus(a)
  BY <1>1
<1>5. 6 * s * t = 6 * (s * t) /\ 10 * t * b = 10 * (t * b) /\ s * t \in Nat /\ t * b \in Nat
  BY TimesNat
<1>6. 6 * (s * t) + 400 * m + 10 * (t * b) \in Nat
  BY <1>5
<1>7. 10 * t \in Nat \ {0}
  OBVIOUS
<1>8. Composite(a, v) = [num |-> 6 * (s * t) + 400 * m + 10 * (t * b), den |-> 10 * t]
  BY <1>3, <1>4, <1>5
<1> QED
  BY <1>4, <1>6, <1>7, <1>8, FractionValue

(* The score by reports alone.                                             *)
LEMMA ScoreOfAbuse ==
    ASSUME NEW a \in AbuseData, NEW v, ~HaveVT(v)
    PROVE  a.score + Bonus(a) \in Nat /\ ScoreIPThreat(a, v) = Value(a.score + Bonus(a), 1)
<1>1. a.score + Bonus(a) \in Nat
  BY BonusType
<1>2. a # None
  BY AssessmentAssumption DEF Readings
<1>3. Composite(a, v) = [num |-> a.score + Bonus(a), den |-> 1]
  BY <1>2 DEF Composite, HaveVT, TotalOf, Bonus
<1> QED
  BY <1>1, <1>3, FractionValue

(* The score by votes alone.                                               *)
LEMMA ScoreOfVotes ==
    ASSUME NEW v \in Stats \cup {None}, HaveVT(v)
    PROVE  ScoreIPThreat(None, v) = Value(100 * v.malicious, TotalOf(v))
<1>1. v.malicious \in Nat /\ TotalOf(v) \in Nat \ {0}
  BY HaveVTType
<1>2. Composite(None, v) = [num |-> 100 * v.malicious, den |-> TotalOf(v)]
  BY DEF Composite, HaveVT, TotalOf
<1> QED
  BY <1>1, <1>2, FractionValue

(* The score by nothing.                                                   *)
LEMMA NoneHasNoScore ==
    ASSUME NEW v, ~HaveVT(v)
    PROVE  Composite(None, v) = None /\ ScoreIPThreat(None, v) = 0
<1>1. Composite(None, v) = None
  BY DEF Composite, HaveVT, TotalOf
<1> QED
  BY <1>1 DEF ScoreIPThreat

(* A score is between 0 and 100.                                           *)
LEMMA ScoreInRange ==
    ASSUME NEW a \in AbuseData \cup {None}, NEW v \in Stats \cup {None}
    PROVE  ScoreIPThreat(a, v) \in 0..100
<1>1. CASE a \in AbuseData /\ HaveVT(v)
  <2>1. PICK t \in Nat \ {0}, m \in Nat : t = TotalOf(v) /\ m = v.malicious
    BY <1>1, HaveVTType
  <2>2. PICK n \in Nat : ScoreIPThreat(a, v) = Value(n, 10 * t)
    BY <1>1, <2>1, ScoreOfBoth
  <2>3. 10 * t \in Nat \ {0}
    OBVIOUS
  <2> QED
    BY <2>2, <2>3, ValueRange
<1>2. CASE a \in AbuseData /\ ~HaveVT(v)
  <2>1. PICK n \in Nat : ScoreIPThreat(a, v) = Value(n, 1)
    BY <1>2, ScoreOfAbuse
  <2> QED
    BY <2>1, ValueRange
<1>3. CASE a = None /\ HaveVT(v)
  <2>1. PICK n \in Nat, d \in Nat \ {0} : n = 100 * v.malicious /\ d = TotalOf(v)
    BY <1>3, HaveVTType
  <2>2. ScoreIPThreat(a, v) = Value(n, d)
    BY <1>3, <2>1, ScoreOfVotes
  <2> QED
    BY <2>2, ValueRange
<1>4. CASE a = None /\ ~HaveVT(v)
  BY <1>4, NoneHasNoScore
<1> QED
  BY <1>1, <1>2, <1>3, <1>4

(* The weighted score is between those of its sources.                     *)
LEMMA ScoreIsBetween ==
    ASSUME NEW p \in AbuseData, Bonus(p) = 0, NEW v \in Stats \cup {None}, HaveVT(v)
    PROVE  LET one  == ScoreIPThreat(p, None)
               two  == ScoreIPThreat(None, v)
               both == ScoreIPThreat(p, v)
           IN  (one <= both /\ both <= two) \/ (two <= both /\ both <= one)
<1>1. PICK t \in Nat \ {0}, m \in Nat : t = TotalOf(v) /\ m = v.malicious
  BY HaveVTType
<1>2. PICK s \in Nat : s = p.score
  BY BonusType
<1>3. PICK w \in Nat : w = s * t
  BY TimesNat
<1>4. PICK n \in Nat : n = 6 * w + 400 * m /\ ScoreIPThreat(p, v) = Value(n, 10 * t)
  <2>1. t * Bonus(p) = 0
    OBVIOUS
  <2> QED
    BY <1>1, <1>2, <1>3, <2>1, ScoreOfBoth
<1>5. ScoreIPThreat(p, None) = Value(s, 1)
  <2>1. ~HaveVT(None)
    BY DEF HaveVT
  <2>2. s + 0 = s
    OBVIOUS
  <2> QED
    BY <1>2, <2>1, <2>2, ScoreOfAbuse
<1>6. ScoreIPThreat(None, v) = Value(100 * m, t)
  BY <1>1, ScoreOfVotes
<1>7. 10 * t \in Nat \ {0} /\ 100 * m \in Nat /\ 1 \in Nat \ {0}
  OBVIOUS
<1>8. s * (10 * t) = 10 * w /\ n * 1 = n
  BY <1>3
<1>9. PICK x \in Nat, y \in Nat : x = w * t /\ y = m * t
  BY TimesNat
<1>10. n * t = 6 * x + 400 * y /\ (100 * m) * (10 * t) = 1000 * y
  <2>1. n * t = (6 * w) * t + (400 * m) * t
    BY <1>4, TimesRules
  <2> QED
    BY <1>9, <2>1
<1>11. w <= 100 * m => x <= 100 * y
  <2> HAVE w <= 100 * m
  <2>1. w * t <= (100 * m) * t
    BY TimesOrder
  <2>2. (100 * m) * t = 100 * (m * t)
    BY TimesRules
  <2> QED
    BY <1>9, <2>1, <2>2
<1>12. 100 * m <= w => 100 * y <= x
  <2> HAVE 100 * m <= w
  <2>1. (100 * m) * t <= w * t
    BY TimesOrder
  <2>2. (100 * m) * t = 100 * (m * t)
    BY TimesRules
  <2> QED
    BY <1>9, <2>1, <2>2
<1>13. CASE w <= 100 * m
  <2>1. s * (10 * t) <= n * 1
    BY <1>4, <1>8, <1>13
  <2>2. n * t <= (100 * m) * (10 * t)
    BY <1>10, <1>11, <1>13
  <2>3. Value(s, 1) <= Value(n, 10 * t)
    BY <1>7, <2>1, ValueOrder
  <2>4. Value(n, 10 * t) <= Value(100 * m, t)
    BY <1>7, <2>2, ValueOrder
  <2> QED
    BY <1>4, <1>5, <1>6, <2>3, <2>4
<1>14. CASE 100 * m <= w
  <2>1. n * 1 <= s * (10 * t)
    BY <1>4, <1>8, <1>14
  <2>2. (100 * m) * (10 * t) <= n * t
    BY <1>10, <1>12, <1>14
  <2>3. Value(n, 10 * t) <= Value(s, 1)
    BY <1>7, <2>1, ValueOrder
  <2>4. Value(100 * m, t) <= Value(n, 10 * t)
    BY <1>7, <2>2, ValueOrder
  <2> QED
    BY <1>4, <1>5, <1>6, <2>3, <2>4
<1> QED
  BY <1>13, <1>14

(* A report that says more does not lower the score.                       *)
LEMMA MoreScoresMore ==
    ASSUME NEW a \in AbuseData, NEW b \in AbuseData, NEW v \in Stats \cup {None},
           b.score >= a.score, b.total >= a.total, a.tor => b.tor
    PROVE  ScoreIPThreat(a, v) <= ScoreIPThreat(b, v)
<1>1. PICK s \in Nat, s2 \in Nat, g \in Nat, g2 \in Nat :
         s = a.score /\ s2 = b.score /\ g = Bonus(a) /\ g2 = Bonus(b)
  <2>1. a.score \in Nat /\ Bonus(a) \in Nat
    BY BonusType
  <2>2. b.score \in Nat /\ Bonus(b) \in Nat
    BY BonusType
  <2> QED
    BY <2>1, <2>2
<1>2. s <= s2 /\ g <= g2
  BY <1>1, BonusOrder
<1>3. CASE HaveVT(v)
  <2>1. PICK t \in Nat \ {0}, m \in Nat : t = TotalOf(v) /\ m = v.malicious
    BY <1>3, HaveVTType
  <2>2. PICK n \in Nat : n = 6 * (s * t) + 400 * m + 10 * (t * g)
                            /\ ScoreIPThreat(a, v) = Value(n, 10 * t)
    BY <1>1, <1>3, <2>1, ScoreOfBoth
  <2>3. PICK n2 \in Nat : n2 = 6 * (s2 * t) + 400 * m + 10 * (t * g2)
                             /\ ScoreIPThreat(b, v) = Value(n2, 10 * t)
    BY <1>1, <1>3, <2>1, ScoreOfBoth
  <2>4. n <= n2
    <3>1. PICK x \in Nat, x2 \in Nat, y \in Nat, y2 \in Nat :
             x = s * t /\ x2 = s2 * t /\ y = t * g /\ y2 = t * g2
      BY TimesNat
    <3>2. x <= x2
      BY <1>2, <3>1, TimesOrder
    <3>3. y <= y2
      <4>1. t * g = g * t /\ t * g2 = g2 * t
        BY TimesRules
      <4> QED
        BY <1>2, <3>1, <4>1, TimesOrder
    <3> QED
      BY <2>2, <2>3, <3>1, <3>2, <3>3
  <2>5. 10 * t \in Nat \ {0}
    OBVIOUS
  <2>6. n * (10 * t) <= n2 * (10 * t)
    BY <2>4, <2>5, TimesOrder
  <2> QED
    BY <2>2, <2>3, <2>5, <2>6, ValueOrder
<1>4. CASE ~HaveVT(v)
  <2>1. ScoreIPThreat(a, v) = Value(s + g, 1) /\ ScoreIPThreat(b, v) = Value(s2 + g2, 1)
    BY <1>1, <1>4, ScoreOfAbuse
  <2>2. (s + g) * 1 <= (s2 + g2) * 1 /\ s + g \in Nat /\ s2 + g2 \in Nat
    BY <1>2
  <2> QED
    BY <2>1, <2>2, ValueOrder
<1> QED
  BY <1>3, <1>4

-----------------------------------------------------------------------------
(* The theorems about the verdict.                                         *)

(* The response is the verdict on everything returned: nothing returns     *)
(* after it.                                                               *)
ResponseInv == response # None => response = Tier(kind, data, success)

(* What a malicious domain has against it: a consensus of the engines and  *)
(* a pulse.                                                                *)
HighNeedsBoth ==
    kind = "domain" /\ response # None /\ IsMaliciousTier(response)
        => /\ {"virustotal", "alienvault_otx"} \subseteq success
           /\ Consensus(data["virustotal"]) /\ Positive(data["alienvault_otx"])

(* ResponseInv is inductive.                                               *)
LEMMA ResponseInductive == AInv /\ ResponseInv /\ [Next]_vars => ResponseInv'
<1> SUFFICES ASSUME AInv, ResponseInv, [Next]_vars PROVE ResponseInv'
  OBVIOUS
<1>1. ASSUME NEW k, NEW a, Ask(k, a) PROVE ResponseInv'
  <2>1. response = None
    BY <1>1 DEF AInv, KindInv, Ask
  <2> QED
    BY <1>1, <2>1 DEF Ask, ResponseInv
<1>2. ASSUME NEW s, NEW step, Moves(s, step) PROVE ResponseInv'
  BY <1>2 DEF Moves, Enter, ResponseInv
<1>3. ASSUME NEW s \in Sources, NEW o, NEW a, Returns(s, o, a) PROVE ResponseInv'
  <2>1. response = None
    BY <1>3 DEF AInv, KindInv, Returns, InCall
  <2> QED
    BY <1>3, <2>1 DEF Returns, Return, ResponseInv
<1>4. CASE Respond
  BY <1>4 DEF Respond, ResponseInv
<1>5. CASE Tick
  BY <1>5 DEF Tick, ResponseInv
<1>6. CASE UNCHANGED vars
  BY <1>6 DEF vars, ResponseInv
<1> QED
  BY <1>1, <1>2, <1>3, <1>4, <1>5, <1>6, StepForms

(* A malicious domain has both.                                            *)
LEMMA ResponseIsExplained == AInv /\ ResponseInv => HighNeedsBoth
<1> SUFFICES ASSUME AInv, ResponseInv, kind = "domain", response # None,
                    IsMaliciousTier(response)
             PROVE  /\ {"virustotal", "alienvault_otx"} \subseteq success
                    /\ Consensus(data["virustotal"]) /\ Positive(data["alienvault_otx"])
  BY DEF HighNeedsBoth
<1>1. response = DomainVerdict(data, success)
  BY DEF ResponseInv, Tier
<1>2. response \in {"high", "critical"}
  BY DEF IsMaliciousTier
<1> QED
  BY <1>1, <1>2 DEF DomainVerdict

(* ScoreOrdersEvidence follows from the types.                             *)
LEMMA ScoresAreOrdered == AInv => ScoreOrdersEvidence
<1> SUFFICES ASSUME AInv, kind = "ip" PROVE ScoreOrdersEvidence
  BY DEF ScoreOrdersEvidence
<1> DEFINE a == data["abuseipdb"]
           v == data["virustotal"]
           plain == IF a = None THEN None ELSE [a EXCEPT !.total = 0, !.tor = FALSE]
<1>1. a \in Reports \cup {None} /\ v \in Stats \cup {None}
  BY SourcesAre DEF AInv, DataInv, Reading
<1>2. Reports \subseteq AbuseData
  BY AssessmentAssumption
<1> HIDE DEF a, v
<1>3. ScoreIPThreat(a, v) \in 0..100
  BY <1>1, <1>2, ScoreInRange
<1>4. ASSUME a # None, Composite(None, v) # None
      PROVE  LET one == ScoreIPThreat(plain, None)
                 two == ScoreIPThreat(None, v)
                 both == ScoreIPThreat(plain, v)
             IN  (one <= both /\ both <= two) \/ (two <= both /\ both <= one)
  <2>1. HaveVT(v)
    BY <1>4, NoneHasNoScore
  <2>2. plain \in AbuseData /\ plain.total = 0 /\ plain.tor = FALSE
    BY <1>1, <1>2, <1>4 DEF AbuseData
  <2>3. Bonus(plain) = 0
    BY <2>2 DEF Bonus, VolumeBonus
  <2> HIDE DEF plain
  <2> QED
    BY <1>1, <2>1, <2>2, <2>3, ScoreIsBetween
<1>5. ASSUME NEW more \in Reports, a # None, more.score >= a.score, more.total >= a.total,
             a.tor => more.tor
      PROVE  ScoreIPThreat(more, v) >= ScoreIPThreat(a, v)
  <2>1. a \in AbuseData /\ more \in AbuseData
    BY <1>1, <1>2, <1>5
  <2>2. ScoreIPThreat(a, v) <= ScoreIPThreat(more, v)
    BY <1>1, <1>5, <2>1, MoreScoresMore
  <2>3. ScoreIPThreat(a, v) \in 0..100 /\ ScoreIPThreat(more, v) \in 0..100
    BY <1>1, <2>1, ScoreInRange
  <2> QED
    BY <2>2, <2>3
<1> QED
  BY <1>3, <1>4, <1>5 DEF ScoreOrdersEvidence, a, v

(* The variables have their types: a source has succeeded if and only if   *)
(* it has returned data.                                                   *)
THEOREM AssessmentTypeCorrect == Spec => []TypeOK
<1>1. AInv => TypeOK
  BY DEF AInv
<1> QED
  BY <1>1, InitAInv, AInvInductive, PTL DEF Spec

(* Whatever its source does and however long the other lookups keep it     *)
(* waiting, a Fetch function that has its slot gives it back within the    *)
(* limits of the calls it makes, several in the case of FetchWHOIS,        *)
(* FetchSSL and FetchURLScan (httpClient, otxGet, acquireSem).             *)
THEOREM SlotsAlwaysComeBack == Spec => []SlotsComeBack
BY StaysEnd, InitAInv, AInvInductive, PTL DEF Spec

(* A domain is reported as malicious only if two sources agree, none of    *)
(* which would have been enough (DomainVerdict).                           *)
THEOREM HighStaysCorroborated == Spec => [](HighIsCorroborated /\ HighNeedsBoth)
<1>1. HighIsCorroborated
  BY AloneIsNotEnough DEF HighIsCorroborated, Tier
<1>2. Init => AInv /\ ResponseInv
  BY InitAInv DEF Init, ResponseInv
<1>3. AInv /\ ResponseInv /\ [Next]_vars => AInv' /\ ResponseInv'
  BY AInvInductive, ResponseInductive
<1>4. AInv /\ ResponseInv => HighIsCorroborated /\ HighNeedsBoth
  BY <1>1, ResponseIsExplained
<1> QED
  BY <1>2, <1>3, <1>4, PTL DEF Spec

(* No answer lowers the tier the others justify (DomainVerdict,            *)
(* URLVerdict, HashVerdict), in whatever order they come in.               *)
THEOREM EvidenceStays == Spec => EvidenceNeverWithdrawn
<1>1. AInv /\ [Next]_vars =>
         [kind # None /\ kind # "ip"
            => Rank[Tier(kind, data, success)] <= Rank[Tier(kind, data', success')]]_vars
  <2> SUFFICES ASSUME AInv, [Next]_vars, kind # None, kind # "ip"
               PROVE  Rank[Tier(kind, data, success)] <= Rank[Tier(kind, data', success')]
    OBVIOUS
  <2>1. kind \in Kinds \ {"ip"}
    BY DEF AInv, TypeOK
  <2> QED
    BY <2>1, EvidenceGrows, TierGrows
<1> QED
  BY <1>1, InitAInv, AInvInductive, PTL DEF Spec, EvidenceNeverWithdrawn

(* The score of an address is in its range, between those of its sources,  *)
(* and does not fall if a source reports more (ScoreIPThreat).             *)
THEOREM ScoresStayOrdered == Spec => []ScoreOrdersEvidence
BY ScoresAreOrdered, InitAInv, AInvInductive, PTL DEF Spec

-----------------------------------------------------------------------------
(* The state of Lookup that this one stands for.                           *)

(* Its variables: the cache,                                               *)
AEntry == [k \in Kinds |->
              IF stored = None \/ k # kind THEN None
              ELSE [result |-> LookupResult, expiry |-> IF stored = "hour" THEN 2 ELSE 1]]

(* where the request is,                                                   *)
APc == [r \in {"r"} |-> IF kind = None THEN "idle"
                        ELSE IF response = None THEN "fetching" ELSE "done"]

(* its indicator,                                                          *)
AKey == [r \in {"r"} |-> kind]

(* whether it submits a URL,                                               *)
AOptIn == [r \in {"r"} |-> active]

(* its sources,                                                            *)
FetchOf(s) == CASE stage[s] \in {"off", "waiting"} -> stage[s]
                [] stage[s] = "done" -> IF s \in heard THEN "ok" ELSE "failed"
                [] OTHER -> "running"

(* all of them,                                                            *)
AFetch == [r \in {"r"} |-> [s \in Sources |-> FetchOf(s)]]

(* and its response.                                                       *)
AResponse == [r \in {"r"} |-> IF response = None THEN None
                              ELSE [result |-> LookupResult, at |-> 0]]

(* These are the variables of Lookup.                                      *)
LEMMA AbstractVars ==
    Abstract!vars = <<0, AEntry, APc, AKey, AOptIn, AFetch, AResponse>>
BY DEF Abstract!vars, AEntry, APc, AKey, AOptIn, AFetch, AResponse, FetchOf

(* The sources of both are the same.                                       *)
LEMMA AbstractSources ==
    /\ \A k, a : Abstract!SourcesOf(k, a) = SourcesOf(k, a)
    /\ Abstract!Sources = Sources
<1>1. \A k, a : Abstract!SourcesOf(k, a) = SourcesOf(k, a)
  BY DEF Abstract!SourcesOf, SourcesOf
<1>2. Abstract!Sources = UNION {SourcesOf(k, TRUE) : k \in Kinds}
  BY <1>1 DEF Abstract!Sources
<1>3. UNION {SourcesOf(k, TRUE) : k \in Kinds}
         = SourcesOf("ip", TRUE) \cup SourcesOf("domain", TRUE) \cup SourcesOf("hash", TRUE)
              \cup SourcesOf("url", TRUE)
  BY DEF Kinds
<1>4. /\ SourcesOf("ip", TRUE) = {"ipinfo", "abuseipdb", "virustotal"}
      /\ SourcesOf("domain", TRUE) = {"whois", "dns", "ssl", "virustotal", "alienvault_otx"}
      /\ SourcesOf("hash", TRUE) = {"virustotal", "malwarebazaar", "circl_hashlookup"}
      /\ SourcesOf("url", TRUE) = {"google_safe_browsing", "virustotal"} \cup {"urlscan"}
  BY DEF SourcesOf
<1> QED
  BY <1>1, <1>2, <1>3, <1>4, SourcesAre

(* The initial states.                                                     *)
LEMMA AbstractInit == Init => Abstract!Init
<1> SUFFICES ASSUME Init PROVE Abstract!Init
  OBVIOUS
<1>1. /\ kind = None /\ active = FALSE /\ response = None /\ stored = None
      /\ \A s \in Sources : stage[s] = "off"
  BY DEF Init
<1>2. AEntry = [k \in Kinds |-> None] /\ APc = [r \in {"r"} |-> "idle"]
      /\ AKey = [r \in {"r"} |-> None] /\ AOptIn = [r \in {"r"} |-> FALSE]
      /\ AFetch = [r \in {"r"} |-> [s \in Abstract!Sources |-> "off"]]
      /\ AResponse = [r \in {"r"} |-> None]
  BY <1>1, AbstractSources DEF AEntry, APc, AKey, AOptIn, AFetch, FetchOf, AResponse
<1> QED
  BY <1>2 DEF Abstract!Init, AEntry, APc, AKey, AOptIn, AFetch, FetchOf, AResponse

-----------------------------------------------------------------------------
(* The steps of Lookup.                                                    *)

(* A step of Lookup, or none.                                              *)
AStep == Abstract!Next \/ Abstract!vars' = Abstract!vars

(* A step that changes nothing of it.                                      *)
LEMMA Stutters ==
    ASSUME UNCHANGED <<AEntry, APc, AKey, AOptIn, AFetch, AResponse>>
    PROVE  AStep
BY AbstractVars DEF AStep, Abstract!vars, AEntry, APc, AKey, AOptIn, AFetch, AResponse, FetchOf

(* A request the cache does not answer.                                    *)
LEMMA MissIsNext ==
    ASSUME NEW k \in Kinds, NEW a \in BOOLEAN,
           APc["r"] = "idle", a => k = "url", AEntry[k] = None,
           APc' = [APc EXCEPT !["r"] = "fetching"],
           AKey' = [AKey EXCEPT !["r"] = k],
           AOptIn' = [AOptIn EXCEPT !["r"] = a],
           AFetch' = [AFetch EXCEPT !["r"] = [s \in Sources |->
                         IF s \in SourcesOf(k, a) THEN "waiting" ELSE "off"]],
           UNCHANGED <<AEntry, AResponse>>
    PROVE  AStep
<1>1. Abstract!Miss("r", k, a)
  <2>1. ~Abstract!Usable(AEntry[k])
    BY DEF Abstract!Usable
  <2>2. [x \in Kinds |-> x][k] = k
    OBVIOUS
  <2> QED
    BY <2>1, <2>2, AbstractSources
       DEF Abstract!Miss, AEntry, APc, AKey, AOptIn, AFetch, FetchOf, AResponse
<1>2. Abstract!Lookups("r")
  BY <1>1 DEF Abstract!Lookups
<1> QED
  BY <1>2 DEF AStep, Abstract!Next

(* There are finitely many sources.                                        *)
LEMMA SourcesAreFinite == IsFiniteSet(Sources)
<1> DEFINE f == [i \in 1..11 |->
                   CASE i = 1 -> "ipinfo" [] i = 2 -> "abuseipdb" [] i = 3 -> "virustotal"
                     [] i = 4 -> "whois" [] i = 5 -> "dns" [] i = 6 -> "ssl"
                     [] i = 7 -> "alienvault_otx" [] i = 8 -> "malwarebazaar"
                     [] i = 9 -> "circl_hashlookup" [] i = 10 -> "google_safe_browsing"
                     [] i = 11 -> "urlscan"]
<1>1. /\ f[1] = "ipinfo" /\ f[2] = "abuseipdb" /\ f[3] = "virustotal" /\ f[4] = "whois"
      /\ f[5] = "dns" /\ f[6] = "ssl" /\ f[7] = "alienvault_otx" /\ f[8] = "malwarebazaar"
      /\ f[9] = "circl_hashlookup" /\ f[10] = "google_safe_browsing" /\ f[11] = "urlscan"
  OBVIOUS
<1>2. \A i \in 1..11 : f[i] \in Sources
  BY SourcesAre
<1>3. DOMAIN f = 1..11 /\ f = [i \in 1..11 |-> f[i]]
  OBVIOUS
<1> HIDE DEF f
<1>4. f \in [1..11 -> Sources]
  BY <1>2, <1>3
<1>5. \A s \in Sources : \E i \in 1..11 : f[i] = s
  BY <1>1, SourcesAre
<1>6. f \in Surjection(1..11, Sources)
  BY <1>4, <1>5 DEF Surjection
<1>7. IsFiniteSet(1..11) /\ Cardinality(1..11) = 11
  <2>1. 1 \in Int /\ 11 \in Int
    OBVIOUS
  <2>2. /\ IsFiniteSet(1..11)
        /\ Cardinality(1..11) = IF 1 > 11 THEN 0 ELSE 11 - 1 + 1
    BY <2>1, FS_Interval, Zenon
  <2> QED
    BY <2>2
<1> QED
  BY <1>6, <1>7, FS_Surjection

(* Cardinality means the same in both modules.                             *)
LEMMA SameCount == \A S : Abstract!Cardinality(S) = Cardinality(S)
BY DEF Abstract!Cardinality, Cardinality

(* The calls of Lookup that hold a slot are those that do here, and there  *)
(* are as many of them.                                                    *)
LEMMA SlotsAreTheirs ==
    ASSUME AInv
    PROVE  Abstract!Cardinality(Abstract!Holding) = Cardinality(Holding)
<1>1. \A s \in Sources : AFetch["r"][s] = "running" <=> InCall(s) \/ stage[s] = "sleeping"
  BY DEF AInv, TypeOK, AFetch, FetchOf, InCall
<1>2. Abstract!Holding = {p \in {"r"} \X (Sources \ {"dns"}) : AFetch[p[1]][p[2]] = "running"}
  BY AbstractSources DEF Abstract!Holding, Abstract!Unlimited, AFetch, FetchOf
<1>3. Abstract!Holding = {"r"} \X Holding
  BY <1>1, <1>2 DEF Holding, Unlimited
<1>4. IsFiniteSet(Holding)
  <2>1. IsFiniteSet(Sources)
    BY SourcesAreFinite
  <2>2. Holding \subseteq Sources
    BY DEF Holding
  <2> QED
    BY <2>1, <2>2, FS_Subset
<1>5. IsFiniteSet({"r"}) /\ Cardinality({"r"}) = 1
  BY FS_Singleton
<1>6. Cardinality({"r"} \X Holding) = Cardinality({"r"}) * Cardinality(Holding)
  BY <1>4, <1>5, FS_Product
<1>7. Cardinality(Holding) \in Nat
  BY <1>4, FS_CardinalityType
<1>8. 1 * Cardinality(Holding) = Cardinality(Holding)
  BY <1>7
<1> QED
  BY <1>3, <1>5, <1>6, <1>8, SameCount

(* A call of a source that starts or ends.                                 *)
LEMMA FetchIsNext ==
    ASSUME AInv, NEW s \in Sources, NEW from, NEW to,
           \/ /\ from = "waiting" /\ to = "running"
              /\ s \notin Unlimited => Cardinality(Holding) < Slots
           \/ from = "running" /\ to \in {"ok", "failed"},
           AFetch["r"][s] = from,
           AFetch' = [AFetch EXCEPT !["r"][s] = to],
           UNCHANGED <<AEntry, APc, AKey, AOptIn, AResponse>>
    PROVE  AStep
<1>1. Abstract!SetFetch("r", s, to)
  BY DEF Abstract!SetFetch, AEntry, APc, AKey, AOptIn, AFetch, FetchOf, AResponse
<1>2. CASE from = "waiting"
  <2>1. Abstract!Start("r", s)
    <3>1. AFetch["r"][s] = "waiting" /\ to = "running"
      BY <1>2
    <3>2. s \notin Abstract!Unlimited => Abstract!Cardinality(Abstract!Holding) < Slots
      BY <1>2, SlotsAreTheirs DEF Abstract!Unlimited, Unlimited
    <3>3. Abstract!SetFetch("r", s, "running")
      BY <1>1, <3>1
    <3> QED
      BY <3>1, <3>2, <3>3, Zenon DEF Abstract!Start, AFetch, FetchOf
  <2> QED
    BY <2>1, AbstractSources DEF AStep, Abstract!Next, Abstract!Fetches
<1>3. CASE from = "running" /\ to = "ok"
  <2>1. Abstract!Answer("r", s)
    BY <1>1, <1>3 DEF Abstract!Answer, AFetch, FetchOf
  <2> QED
    BY <2>1, AbstractSources DEF AStep, Abstract!Next, Abstract!Fetches
<1>4. CASE from = "running" /\ to = "failed"
  <2>1. Abstract!Fail("r", s)
    BY <1>1, <1>4 DEF Abstract!Fail, AFetch, FetchOf
  <2> QED
    BY <2>1, AbstractSources DEF AStep, Abstract!Next, Abstract!Fetches
<1> QED
  BY <1>2, <1>3, <1>4

-----------------------------------------------------------------------------
(* Each step of the lookup is one of Lookup.                               *)

(* Before the response, nothing is stored.                                 *)
LEMMA NothingStored ==
    ASSUME response = None, stored = None
    PROVE  /\ AEntry = [k \in Kinds |-> None] /\ AResponse = [r \in {"r"} |-> None]
           /\ \A k \in Kinds : AEntry[k] = None
BY DEF AEntry, AResponse

(* Ask is Miss.                                                            *)
LEMMA AskIsMiss ==
    ASSUME AInv, NEW k \in Kinds, NEW a \in BOOLEAN, Ask(k, a)
    PROVE  AStep
<1>1. kind = None /\ response = None /\ stored = None /\ \A s \in Sources : stage[s] = "off"
  <2>1. kind = None
    BY DEF Ask
  <2> QED
    BY <2>1 DEF AInv, KindInv
<1>2. /\ kind' = k /\ k # None /\ active' = a /\ response' = None /\ stored' = None
      /\ (a => k = "url")
  BY <1>1, NoneIsNothing DEF Ask
<1>3. APc["r"] = "idle" /\ APc' = [APc EXCEPT !["r"] = "fetching"]
  BY <1>1, <1>2 DEF APc
<1>4. AKey' = [AKey EXCEPT !["r"] = k] /\ AOptIn' = [AOptIn EXCEPT !["r"] = a]
  BY <1>2 DEF AKey, AOptIn
<1>5. AFetch' = [AFetch EXCEPT !["r"] = [s \in Sources |->
                    IF s \in SourcesOf(k, a) THEN "waiting" ELSE "off"]]
  <2>1. \A s \in Sources : FetchOf(s)' = IF s \in SourcesOf(k, a) THEN "waiting" ELSE "off"
    BY DEF FetchOf, Ask
  <2> QED
    BY <2>1 DEF AFetch
<1>6. AEntry[k] = None /\ UNCHANGED <<AEntry, AResponse>>
  <2>1. AEntry' = [x \in Kinds |-> None] /\ AResponse' = [r \in {"r"} |-> None]
    BY <1>2 DEF AEntry, AResponse
  <2> QED
    BY <1>1, <2>1, NothingStored
<1> QED
  BY <1>2, <1>3, <1>4, <1>5, <1>6, MissIsNext

(* One source changes.                                                     *)
LEMMA OneFetchChanges ==
    ASSUME NEW s \in Sources,
           \A x \in Sources \ {s} : FetchOf(x)' = FetchOf(x)
    PROVE  AFetch' = [AFetch EXCEPT !["r"][s] = FetchOf(s)']
BY DEF AFetch

(* The rest does not.                                                      *)
LEMMA NoAnswerYet ==
    ASSUME response = None, response' = None, stored = None, stored' = None,
           UNCHANGED <<kind, active>>
    PROVE  UNCHANGED <<AEntry, APc, AKey, AOptIn, AResponse>>
<1>1. AEntry' = [x \in Kinds |-> None] /\ AResponse' = [r \in {"r"} |-> None]
  BY DEF AEntry, AResponse
<1>2. UNCHANGED <<APc, AKey, AOptIn>>
  BY DEF APc, AKey, AOptIn
<1> QED
  BY <1>1, <1>2, NothingStored

(* A function that goes on starts its call, or nothing of it shows.        *)
LEMMA MoveIsNext ==
    ASSUME AInv, NEW s \in Sources, NEW step \in {"calling", "dialing", "sleeping", "polling"},
           Moves(s, step)
    PROVE  AStep
<1>1. /\ response = None /\ response' = None /\ stored = None /\ stored' = None
      /\ UNCHANGED <<kind, active, heard>>
  BY DEF AInv, KindInv, Moves, Enter
<1>2. stage \in [Sources -> Stages] /\ stage' = [stage EXCEPT ![s] = step]
  BY DEF AInv, TypeOK, Stages, Moves, Enter
<1>3. UNCHANGED <<AEntry, APc, AKey, AOptIn, AResponse>>
  BY <1>1, NoAnswerYet
<1>4. \A x \in Sources \ {s} : FetchOf(x)' = FetchOf(x)
  BY <1>1, <1>2 DEF FetchOf
<1>5. FetchOf(s)' = "running"
  BY <1>2 DEF FetchOf
<1>6. AFetch["r"][s] = FetchOf(s) /\ AFetch' = [AFetch EXCEPT !["r"][s] = "running"]
  BY <1>4, <1>5, OneFetchChanges DEF AFetch
<1>7. CASE stage[s] = "waiting"
  <2>1. FetchOf(s) = "waiting"
    BY <1>7 DEF FetchOf
  <2>2. s \notin Unlimited => Cardinality(Holding) < Slots
    BY <1>7 DEF Moves
  <2> QED
    BY <1>3, <1>6, <2>1, <2>2, FetchIsNext
<1>8. CASE stage[s] # "waiting"
  <2>1. FetchOf(s) = "running"
    BY <1>8 DEF FetchOf, Moves
  <2>2. \A x \in Sources : FetchOf(x)' = FetchOf(x)
    BY <1>4, <1>5, <2>1
  <2>3. AFetch' = AFetch
    BY <2>2 DEF AFetch
  <2> QED
    BY <1>3, <2>3, Stutters
<1> QED
  BY <1>7, <1>8

(* One that returns answers or fails.                                      *)
LEMMA ReturnIsNext ==
    ASSUME AInv, NEW s \in Sources, NEW o, NEW a, Returns(s, o, a)
    PROVE  AStep
<1>1. /\ response = None /\ response' = None /\ stored = None /\ stored' = None
      /\ UNCHANGED <<kind, active>>
  BY DEF AInv, KindInv, Returns, Return, InCall
<1>2. /\ stage \in [Sources -> Stages] /\ stage' = [stage EXCEPT ![s] = "done"]
      /\ \A x \in Sources \ {s} : x \in heard' <=> x \in heard
  BY DEF AInv, TypeOK, Stages, Returns, Return
<1>3. UNCHANGED <<AEntry, APc, AKey, AOptIn, AResponse>>
  BY <1>1, NoAnswerYet
<1>4. \A x \in Sources \ {s} : FetchOf(x)' = FetchOf(x)
  BY <1>2 DEF FetchOf
<1>5. FetchOf(s)' \in {"ok", "failed"}
  BY <1>2 DEF FetchOf
<1>6. AFetch["r"][s] = FetchOf(s) /\ AFetch' = [AFetch EXCEPT !["r"][s] = FetchOf(s)']
  BY <1>4, OneFetchChanges DEF AFetch
<1>7. FetchOf(s) = "running"
  BY DEF FetchOf, Returns, InCall
<1> QED
  BY <1>3, <1>5, <1>6, <1>7, FetchIsNext

-----------------------------------------------------------------------------
(* The refinement.                                                         *)

(* The result is the one Lookup makes of its sources.                      *)
LEMMA ResultIsTheirs ==
    ASSUME AInv, \A s \in Asked : stage[s] = "done"
    PROVE  Abstract!Result("r") = LookupResult /\ Abstract!Finished("r")
<1>1. \A s \in Sources : AFetch["r"][s] = FetchOf(s)
  BY DEF AFetch
<1>2. /\ \A s \in Sources : (FetchOf(s) # "off" <=> stage[s] # "off")
      /\ \A s \in Asked : FetchOf(s) = IF s \in heard THEN "ok" ELSE "failed"
      /\ \A s \in Sources : FetchOf(s) = "ok" => s \in Asked
  BY DEF FetchOf, Asked
<1>3. Abstract!Asked("r") = Asked
  <2>1. Abstract!Asked("r") = {s \in Sources : AFetch["r"][s] # "off"}
    BY AbstractSources DEF Abstract!Asked, AFetch, FetchOf
  <2> QED
    BY <1>1, <1>2, <2>1 DEF Asked
<1>4. Abstract!Answered("r") = heard
  <2>1. Abstract!Answered("r") = {s \in Sources : AFetch["r"][s] = "ok"}
    BY AbstractSources DEF Abstract!Answered, AFetch, FetchOf
  <2>2. heard \subseteq Asked /\ Asked \subseteq Sources
    BY DEF AInv, TypeOK, HeardInv, Asked
  <2> QED
    BY <1>1, <1>2, <2>1, <2>2
<1>5. Abstract!Succeeded("r") = success
  <2>1. success = {s \in Sources : data[s] # None}
        /\ \A s \in Sources : data[s] # None => s \in Asked
    BY DEF AInv, TypeOK, Asked
  <2>2. /\ heard \subseteq Sources /\ \A s \in Sources \ {"dns"} : s \in heard <=> data[s] # None
        /\ "dns" \in Asked => data["dns"] # None
    BY DEF AInv, TypeOK, HeardInv
  <2>3. \A s \in Sources : s \in heard => s \in Asked
    BY DEF AInv, HeardInv, Asked
  <2>4. Abstract!Succeeded("r") = heard \cup (Asked \cap {"dns"})
    BY <1>3, <1>4 DEF Abstract!Succeeded
  <2>5. \A s \in Sources : s \in success <=> s \in heard \cup (Asked \cap {"dns"})
    <3> SUFFICES ASSUME NEW s \in Sources
                 PROVE  s \in success <=> s \in heard \cup (Asked \cap {"dns"})
      OBVIOUS
    <3>1. CASE s = "dns"
      BY <2>1, <2>2, <2>3, <3>1
    <3>2. CASE s # "dns"
      BY <2>1, <2>2, <3>2
    <3> QED
      BY <3>1, <3>2
  <2>6. success \subseteq Sources /\ heard \cup (Asked \cap {"dns"}) \subseteq Sources
    BY <2>1, <2>2 DEF Asked
  <2> QED
    BY <2>4, <2>5, <2>6
<1>6. Abstract!Result("r") = LookupResult
  BY <1>3, <1>4, <1>5 DEF Abstract!Result, LookupResult
<1>7. Abstract!Finished("r")
  <2>1. Abstract!Finished("r") <=> \A s \in Asked : AFetch["r"][s] \in {"ok", "failed"}
    BY <1>3 DEF Abstract!Finished, AFetch, FetchOf
  <2>2. \A s \in Asked : s \in Sources
    BY DEF Asked
  <2> QED
    BY <1>1, <1>2, <2>1, <2>2
<1> QED
  BY <1>6, <1>7

(* It is stored for the time Lookup gives it.                              *)
LEMMA StoredIsTheirs ==
    ASSUME success \subseteq Asked, response = None, stored = None, kind \in Kinds
    PROVE  Abstract!Stored(kind, LookupResult)
              = IF SelectTTL = None THEN AEntry
                ELSE [AEntry EXCEPT ![kind] = [result |-> LookupResult,
                         expiry |-> IF SelectTTL = "hour" THEN 2 ELSE 1]]
<1>1. LookupResult.asked = Asked /\ LookupResult.success = success
  BY DEF LookupResult
<1>2. Abstract!SelectTTL(Asked, success) = IF success = {} THEN 0
                                           ELSE IF success # Asked THEN 1 ELSE 2
  BY DEF Abstract!SelectTTL
<1>3. Abstract!Stored(kind, LookupResult)
         = IF Abstract!SelectTTL(Asked, success) = 0 THEN AEntry
           ELSE [AEntry EXCEPT ![kind] = [result |-> LookupResult,
                    expiry |-> 0 + Abstract!SelectTTL(Asked, success)]]
  BY <1>1 DEF Abstract!Stored, AEntry
<1>4. CASE success = {}
  <2>1. SelectTTL = None
    BY <1>4 DEF SelectTTL
  <2> QED
    BY <1>2, <1>3, <1>4, <2>1
<1>5. CASE success # {}
  <2>1. SelectTTL = IF success = Asked THEN "hour" ELSE "quarter"
    BY <1>5 DEF SelectTTL
  <2>2. SelectTTL # None
    BY <2>1, NoneIsNothing
  <2>3. /\ Abstract!SelectTTL(Asked, success) = IF SelectTTL = "hour" THEN 2 ELSE 1
        /\ Abstract!SelectTTL(Asked, success) # 0
        /\ 0 + Abstract!SelectTTL(Asked, success) = IF SelectTTL = "hour" THEN 2 ELSE 1
    BY <1>2, <1>5, <2>1
  <2> QED
    BY <1>3, <2>2, <2>3
<1> QED
  BY <1>4, <1>5

(* Respond is Respond.                                                     *)
LEMMA RespondIsNext ==
    ASSUME AInv, AInv', Respond
    PROVE  AStep
<1>1. /\ kind \in Kinds /\ response = None /\ response' # None
      /\ \A s \in Asked : stage[s] = "done"
      /\ stored = None /\ stored' = SelectTTL
      /\ UNCHANGED <<kind, active, now, stage, data, success, heard>>
  <2>1. kind \in Kinds /\ stored = None /\ \A s \in Asked : stage[s] = "done"
    BY DEF AInv, TypeOK, KindInv, Respond
  <2>2. response' \in DOMAIN Rank
    BY <2>1, TierType DEF Respond
  <2> QED
    BY <2>1, <2>2, NoneIsNothing DEF Respond
<1>2. LookupResult' = LookupResult /\ Asked' = Asked
  BY <1>1 DEF LookupResult, Asked
<1>3. kind # None
  BY <1>1, NoneIsNothing
<1>4. APc["r"] = "fetching" /\ APc' = [APc EXCEPT !["r"] = "done"]
  BY <1>1, <1>3 DEF APc
<1>5. UNCHANGED <<AKey, AOptIn, AFetch>> /\ AKey["r"] = kind
  BY <1>1 DEF AKey, AOptIn, AFetch, FetchOf
<1>6. AEntry' = Abstract!Stored(kind, LookupResult)
  <2>1. AEntry' = [k \in Kinds |-> IF SelectTTL = None \/ k # kind THEN None
                     ELSE [result |-> LookupResult,
                           expiry |-> IF SelectTTL = "hour" THEN 2 ELSE 1]]
    BY <1>1, <1>2 DEF AEntry
  <2>2. AEntry = [k \in Kinds |-> None]
    BY <1>1, NothingStored
  <2>3. success \subseteq Asked
    BY DEF AInv, TypeOK, Asked
  <2> QED
    BY <1>1, <2>1, <2>2, <2>3, StoredIsTheirs
<1>7. AResponse' = [AResponse EXCEPT !["r"] = [result |-> LookupResult, at |-> 0]]
  <2>1. AResponse' = [r \in {"r"} |-> [result |-> LookupResult, at |-> 0]]
    BY <1>1, <1>2 DEF AResponse
  <2> QED
    BY <1>1, <2>1, NothingStored
<1>8. Abstract!Respond("r")
  <2>1. Abstract!Result("r") = LookupResult /\ Abstract!Finished("r")
    BY <1>1, ResultIsTheirs
  <2>2. Abstract!Respond("r") <=>
           /\ APc["r"] = "fetching" /\ Abstract!Finished("r")
           /\ AEntry' = Abstract!Stored(AKey["r"], Abstract!Result("r"))
           /\ AResponse' = [AResponse EXCEPT !["r"] = [result |-> Abstract!Result("r"), at |-> 0]]
           /\ APc' = [APc EXCEPT !["r"] = "done"]
           /\ UNCHANGED <<AKey, AOptIn, AFetch>>
    BY Zenon DEF Abstract!Respond, AEntry, APc, AKey, AOptIn, AFetch, FetchOf, AResponse
  <2> QED
    BY <1>4, <1>5, <1>6, <1>7, <2>1, <2>2
<1> QED
  BY <1>8 DEF AStep, Abstract!Next

(* Every step is one of Lookup.                                            *)
LEMMA StepIsNext == AInv /\ AInv' /\ [Next]_vars => AStep
<1> SUFFICES ASSUME AInv, AInv', [Next]_vars PROVE AStep
  OBVIOUS
<1>1. CASE Tick
  <2>1. UNCHANGED <<kind, active, stage, success, heard, response, stored>>
    BY <1>1 DEF Tick
  <2> QED
    BY <2>1, Stutters DEF AEntry, APc, AKey, AOptIn, AFetch, FetchOf, AResponse,
                          LookupResult, Asked
<1>2. CASE UNCHANGED vars
  <2>1. UNCHANGED <<kind, active, stage, success, heard, response, stored>>
    BY <1>2 DEF vars
  <2> QED
    BY <2>1, Stutters DEF AEntry, APc, AKey, AOptIn, AFetch, FetchOf, AResponse,
                          LookupResult, Asked
<1> QED
  BY <1>1, <1>2, AskIsMiss, MoveIsNext, ReturnIsNext, RespondIsNext, StepForms

(* A lookup in detail behaves as Lookup says, for one request and an empty *)
(* cache: what Lookup shows of lookups assumes no more of the sources than *)
(* they do, no Fetch function takes an error for an answer or the other way*)
(* round, and only DNS succeeds without one (the Fetch functions, selectTTL*)
(* and the handlers of internal/enrichment).                               *)
THEOREM AssessmentImplementsLookup == Spec => ImplementsLookup
<1>1. AInv /\ AInv' /\ [Next]_vars => [Abstract!Next]_(Abstract!vars)
  BY StepIsNext DEF AStep
<1> QED
  BY AbstractInit, InitAInv, AInvInductive, <1>1, PTL DEF Spec, ImplementsLookup, Abstract!Spec
=============================================================================
