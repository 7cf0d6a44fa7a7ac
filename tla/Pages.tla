-------------------------------- MODULE Pages --------------------------------
(***************************************************************************)
(* The pages of the site that keep state: the PCAP page's connection, the  *)
(* hardware dashboard and the enrichment page.  A browser shows one of     *)
(* them; they share nothing, so each is followed by itself.                *)
(***************************************************************************)
EXTENDS Naturals, Sequences

CONSTANTS
    None, Failure,
    Sockets, MaxAttempts,
    Panels, PollEvery, Burst, CallLimit, RunIds, MaxTime, MaxOpenings, LastOpening,
    Values, TypeOf, Private, Searches, HistoryMax

VARIABLES
    page,
    relayMode, booted, ws, readyState, accepted, timer, retrying, attempts,
    relayOpened, status, up, session, wasOpen,
    now, open, visible, pollingTimer, runs, shown, tokens, openings, pile,
    refused, since,
    loaded, currentType, urlscanActiveSubmission, asked, consent, search, resultsQuery,
    loading, disabled, content, history, storage, flag, submitted, overlapped

Pcap       == INSTANCE PcapViewer
Hardware   == INSTANCE HardwarePage
Enrichment == INSTANCE EnrichmentPage

ASSUME PagesAssumption ==
    /\ Pcap!ViewerAssumption
    /\ Hardware!HardwareAssumption
    /\ Enrichment!EnrichmentAssumption

pcapVars == <<relayMode, booted, ws, readyState, accepted, timer, retrying, attempts,
              relayOpened, status, up, session, wasOpen>>
hardwareVars == <<now, open, visible, pollingTimer, runs, shown, tokens, openings,
                  pile, refused, since>>
enrichmentVars == <<loaded, currentType, urlscanActiveSubmission, asked, consent, search,
                    resultsQuery, loading, disabled, content, history, storage, flag,
                    submitted, overlapped>>
vars == <<page, pcapVars, hardwareVars, enrichmentVars>>

Init ==
    /\ page \in {"pcap", "hardware", "enrichment"}
    /\ Pcap!Init /\ Hardware!Init /\ Enrichment!Init
    /\ page # "pcap" => ~relayMode /\ ~up
    /\ page # "enrichment" => ~flag

Next ==
    /\ UNCHANGED page
    /\ \/ page = "pcap" /\ Pcap!Next /\ UNCHANGED <<hardwareVars, enrichmentVars>>
       \/ page = "hardware" /\ Hardware!Next /\ UNCHANGED <<pcapVars, enrichmentVars>>
       \/ page = "enrichment" /\ Enrichment!Next /\ UNCHANGED <<pcapVars, hardwareVars>>

(* The fairness of PcapViewer: only the PCAP page waits for something that *)
(* must happen.                                                            *)
Fairness ==
    /\ WF_pcapVars(page = "pcap" /\ Pcap!Boot)
    /\ WF_pcapVars(page = "pcap" /\ Pcap!TimerFires)
    /\ \A s \in Sockets :
          /\ WF_pcapVars(page = "pcap" /\ Pcap!Opens(s))
          /\ WF_pcapVars(page = "pcap" /\ Pcap!Accept(s))
          /\ WF_pcapVars(page = "pcap" /\ Pcap!Breaks(s))

Spec == Init /\ [][Next]_vars /\ Fairness

-----------------------------------------------------------------------------
(* The pages' properties, by the modules that define and explain them.     *)

(* The bucket is enough for the polls of a page (script.js:9), and what a  *)
(* refusal takes: views of the page and slow runs that have piled up.      *)
PollingIsNotLimited == Hardware!PollingIsNotLimited

(* A page in view shows recent figures, late answers or not (script.js:203)*)
PanelsAreFresh == Hardware!PanelsAreFresh

(* No full URL is kept in the browser (app.js:186).                        *)
HistoryIsSound == Enrichment!HistoryIsSound

(* A page at rest shows what its header says (app.js:95).                  *)
SettledViewIsTrue == Enrichment!SettledViewIsTrue

(* Nothing is submitted to URLScan unasked (app.js:121).                   *)
SubmissionIsChosen == Enrichment!SubmissionIsChosen

(* The PCAP page never gives up silently (app.js:94).                      *)
NeverStranded == Pcap!NeverStranded

(* The PCAP page's status is that of its socket (app.js:94).               *)
StatusIsTrue == Pcap!StatusIsTrue

(* A relay token is used a limited number of times (app.js:135).           *)
TokenUseIsBounded == Pcap!TokenUseIsBounded

(* A page waiting for the local agent finds it (app.js:124).               *)
FindsAgent == page = "pcap" => Pcap!FindsAgent

PagesTypeOK == Pcap!TypeOK /\ Hardware!TypeOK /\ Enrichment!TypeOK
=============================================================================
