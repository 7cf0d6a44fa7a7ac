---------------------------- MODULE PagesProofs -----------------------------
(***************************************************************************)
(* Proofs about the pages of the site, for any number of sockets,          *)
(* attempts, panels, runs, values and searches and any bounds.             *)
(*                                                                         *)
(* The pages share nothing, so each has an inductive invariant of its own. *)
(* ConnectionInv ties the flags of the PCAP page to its socket. EnrichInv  *)
(* says what a search that is under way knows, so that what its answer     *)
(* changes can be told from what was shown before. Of the hardware         *)
(* dashboard, FreshInv follows a moment t to the first poll from then on,  *)
(* whose run has either reached a panel or is on its way there in time;    *)
(* DebtInv pays for every call from the tokens that a new view or the time *)
(* since the last poll has brought.                                        *)
(***************************************************************************)
EXTENDS Pages, Integers, FiniteSetTheorems, SequenceTheorems, TLAPS

-----------------------------------------------------------------------------
(* The connection of the PCAP page.                                        *)

(* The page's flags against its socket: it holds a socket exactly while one *)
(* is not closed, a relay viewer remembers having been connected, and the  *)
(* two final states of a relay session are final.                          *)
ConnectionInv ==
    /\ Pcap!TypeOK
    /\ ws # None => readyState[ws] # "closed"
    /\ relayMode => (relayOpened <=> wasOpen)
    /\ ~booted => ws = None /\ attempts = 0 /\ ~wasOpen /\ ~timer
    /\ status = "connected" <=> (ws # None /\ readyState[ws] = "open")
    /\ status = "connected" => wasOpen
    /\ status = "relay-ended" => relayMode /\ wasOpen /\ ws = None
    /\ status = "relay-unavailable" =>
          relayMode /\ ~wasOpen /\ ws = None /\ attempts = MaxAttempts
    /\ relayMode /\ wasOpen /\ ws = None => status = "relay-ended"
    /\ booted /\ ws = None /\ ~timer =>
          relayMode /\ status \in {"relay-ended", "relay-unavailable"}

(* It holds when the page is loaded.                                       *)
LEMMA ConnectionInitial ==
    ASSUME Pcap!Init
    PROVE  ConnectionInv
<1>1. attempts = 0 /\ 0 \in 0..MaxAttempts
  BY PagesAssumption DEF Pcap!Init, Pcap!ViewerAssumption
<1>2. Pcap!TypeOK
  BY <1>1 DEF Pcap!Init, Pcap!TypeOK, Pcap!Statuses
<1> QED
  BY <1>1, <1>2 DEF Pcap!Init, ConnectionInv

(* connect, with its three early returns, keeps it.                        *)
LEMMA ConnectKeeps ==
    ASSUME ConnectionInv, Pcap!Connect, timer' = FALSE, booted' = TRUE
    PROVE  ConnectionInv'
<1> USE PagesAssumption DEF Pcap!ViewerAssumption
<1>0. /\ UNCHANGED <<relayMode, retrying, relayOpened, up, session, wasOpen>>
  BY DEF Pcap!Connect
<1>1. CASE Pcap!Busy \/ (relayMode /\ relayOpened)
  <2>1. UNCHANGED <<ws, readyState, accepted, attempts, status>>
    BY <1>1 DEF Pcap!Connect
  <2> QED
    BY <1>0, <1>1, <2>1 DEF ConnectionInv, Pcap!TypeOK, Pcap!Busy
<1>2. CASE ~Pcap!Busy /\ ~(relayMode /\ relayOpened) /\ Pcap!AttemptsSpent
  <2>1. status' = "relay-unavailable" /\ UNCHANGED <<ws, readyState, accepted, attempts>>
    BY <1>2 DEF Pcap!Connect
  <2>2. relayMode /\ attempts = MaxAttempts /\ ws = None /\ ~wasOpen
    BY <1>2 DEF ConnectionInv, Pcap!TypeOK, Pcap!AttemptsSpent, Pcap!Busy
  <2> QED
    BY <1>0, <2>1, <2>2 DEF ConnectionInv, Pcap!TypeOK, Pcap!Statuses
<1>3. CASE ~Pcap!Busy /\ ~(relayMode /\ relayOpened) /\ ~Pcap!AttemptsSpent
  <2>1. PICK s \in Sockets : Pcap!NewSocket(s)
    BY <1>3 DEF Pcap!Connect
  <2>2. /\ ws' = s /\ readyState' = [readyState EXCEPT ![s] = "connecting"]
        /\ accepted' = accepted \ {s} /\ status' \in {status, "connecting"}
        /\ relayMode => status' = "connecting"
        /\ attempts' = IF relayMode THEN attempts + 1 ELSE attempts
    BY <2>1 DEF Pcap!NewSocket
  <2>3. ws = None /\ \A t \in Sockets : readyState[t] = "closed"
    BY <1>3 DEF ConnectionInv, Pcap!TypeOK, Pcap!Busy
  <2>4. readyState'[s] = "connecting" /\ s # None
    BY <2>2 DEF ConnectionInv, Pcap!TypeOK
  <2>5. attempts' \in 0..MaxAttempts
    BY <1>3, <2>2 DEF ConnectionInv, Pcap!TypeOK, Pcap!AttemptsSpent
  <2>6. Pcap!TypeOK'
    BY <1>0, <2>2, <2>3, <2>5 DEF ConnectionInv, Pcap!TypeOK, Pcap!Statuses
  <2>7. relayMode => ~wasOpen
    BY <1>3 DEF ConnectionInv
  <2>8. status # "connected"
    BY <2>3 DEF ConnectionInv
  <2> QED
    BY <1>0, <2>2, <2>3, <2>4, <2>6, <2>7, <2>8 DEF ConnectionInv
<1> QED
  BY <1>1, <1>2, <1>3

(* Every event handler, and the other side, keep it.                       *)
LEMMA ConnectionInductive ==
    ASSUME ConnectionInv, [Pcap!Next]_(pcapVars)
    PROVE  ConnectionInv'
<1> USE PagesAssumption DEF Pcap!ViewerAssumption
<1>1. CASE Pcap!Boot
  <2>1. attempts = 0 /\ ~wasOpen /\ ws = None /\ (relayMode => ~relayOpened) /\ ~Pcap!AttemptsSpent
    BY <1>1 DEF Pcap!Boot, ConnectionInv, Pcap!AttemptsSpent
  <2> QED
    BY <1>1, ConnectKeeps DEF Pcap!Boot
<1>2. CASE Pcap!TimerFires
  BY <1>2, ConnectKeeps DEF Pcap!TimerFires, ConnectionInv
<1>3. ASSUME NEW s \in Sockets, Pcap!Opens(s) PROVE ConnectionInv'
  <2>1. /\ ws = s /\ s # None /\ readyState[s] = "connecting"
        /\ readyState' = [readyState EXCEPT ![s] = "open"] /\ status' = "connected"
        /\ relayOpened' = relayMode /\ wasOpen' = TRUE /\ timer' = FALSE /\ retrying' = FALSE
        /\ UNCHANGED <<relayMode, booted, ws, attempts, accepted, up, session>>
    BY <1>3 DEF Pcap!Opens, Pcap!OnOpen
  <2>2. booted
    BY <2>1 DEF ConnectionInv
  <2> QED
    BY <2>1, <2>2 DEF ConnectionInv, Pcap!TypeOK, Pcap!Statuses
<1>4. ASSUME NEW s \in Sockets, Pcap!Breaks(s) PROVE ConnectionInv'
  <2>1. Pcap!Closes(s)
    BY <1>4 DEF Pcap!Breaks
  <2>2. /\ ws = s /\ s # None /\ ws' = None
        /\ readyState' = [readyState EXCEPT ![s] = "closed"]
        /\ session' \in {session, "gone"}
        /\ UNCHANGED <<relayMode, booted, attempts, relayOpened, accepted, up, wasOpen>>
    BY <2>1 DEF Pcap!Closes, Pcap!OnClose
  <2>3. booted /\ \A t \in Sockets : readyState'[t] = "closed"
    BY <2>2 DEF ConnectionInv, Pcap!TypeOK
  <2>4. CASE relayMode /\ (relayOpened \/ Pcap!AttemptsSpent)
    <3>1. /\ status' = IF relayOpened THEN "relay-ended" ELSE "relay-unavailable"
          /\ timer' = FALSE /\ retrying' = retrying
      BY <2>1, <2>4 DEF Pcap!Closes, Pcap!OnClose
    <3>2. ~relayOpened => attempts = MaxAttempts
      BY <2>4 DEF Pcap!AttemptsSpent, ConnectionInv, Pcap!TypeOK
    <3> QED
      BY <2>2, <2>3, <2>4, <3>1, <3>2 DEF ConnectionInv, Pcap!TypeOK, Pcap!Statuses
  <2>5. CASE ~(relayMode /\ (relayOpened \/ Pcap!AttemptsSpent))
    <3>1. /\ status' = IF relayMode THEN status ELSE "local-unavailable"
          /\ timer' = TRUE /\ retrying' = TRUE
      BY <2>1, <2>5 DEF Pcap!Closes, Pcap!OnClose, Pcap!Schedule
    <3>2. relayMode => ~wasOpen /\ status # "connected"
      BY <2>5 DEF ConnectionInv
    <3> QED
      BY <2>2, <2>3, <2>5, <3>1, <3>2 DEF ConnectionInv, Pcap!TypeOK, Pcap!Statuses
  <2> QED
    BY <2>4, <2>5
<1>5. ASSUME NEW s \in Sockets, Pcap!Accept(s) PROVE ConnectionInv'
  <2>1. /\ UNCHANGED <<relayMode, booted, ws, timer, retrying, attempts, relayOpened, status,
                       readyState, up, wasOpen>>
        /\ accepted' = accepted \cup {s} /\ session' \in {session, "bound"}
    BY <1>5 DEF Pcap!Accept, Pcap!pageVars
  <2> QED
    BY <2>1 DEF ConnectionInv, Pcap!TypeOK
<1>6. CASE Pcap!SessionEnds \/ Pcap!AgentToggles
  <2>1. /\ UNCHANGED <<relayMode, booted, ws, timer, retrying, attempts, relayOpened, status,
                       readyState, accepted, wasOpen>>
        /\ up' \in {up, ~up} /\ session' \in {session, "gone"}
    BY <1>6 DEF Pcap!SessionEnds, Pcap!AgentToggles, Pcap!pageVars
  <2> QED
    BY <2>1 DEF ConnectionInv, Pcap!TypeOK
<1>7. CASE UNCHANGED pcapVars
  BY <1>7 DEF pcapVars, ConnectionInv, Pcap!TypeOK
<1> QED
  BY <1>1, <1>2, <1>3, <1>4, <1>5, <1>6, <1>7 DEF Pcap!Next

(* A step of a page leaves the others alone.                               *)
LEMMA PagesStep ==
    ASSUME [Next]_vars
    PROVE  /\ [Pcap!Next]_(pcapVars)
           /\ [Hardware!Next]_(hardwareVars)
           /\ [Enrichment!Next]_(enrichmentVars)
  BY DEF Next, vars

(* What the PCAP page says of its connection is the state of its socket,   *)
(* and the final states of a relay session are said only when they are     *)
(* true (app.js, onopen and onclose).                                      *)
THEOREM StatusStaysTrue == Spec => []StatusIsTrue
<1>1. Init => ConnectionInv
  BY ConnectionInitial DEF Init
<1>2. ConnectionInv /\ [Next]_vars => ConnectionInv'
  BY ConnectionInductive, PagesStep
<1>3. ConnectionInv => StatusIsTrue
  BY DEF ConnectionInv, StatusIsTrue, Pcap!StatusIsTrue
<1> QED
  BY <1>1, <1>2, <1>3, PTL DEF Spec

(* Whatever fails, in whatever order, the PCAP page has a socket, a timer, *)
(* or a final state on the screen.                                         *)
THEOREM NeverLeftStranded == Spec => []NeverStranded
<1>1. Init => ConnectionInv
  BY ConnectionInitial DEF Init
<1>2. ConnectionInv /\ [Next]_vars => ConnectionInv'
  BY ConnectionInductive, PagesStep
<1>3. ConnectionInv => NeverStranded
  BY DEF ConnectionInv, NeverStranded, Pcap!NeverStranded
<1> QED
  BY <1>1, <1>2, <1>3, PTL DEF Spec

(* A relay token is used for MaxAttempts connections at most, and for none *)
(* after one that was open (app.js, connect).                              *)
THEOREM TokenUseStaysBounded == Spec => TokenUseIsBounded
<1>1. Init => ConnectionInv
  BY ConnectionInitial DEF Init
<1>2. ConnectionInv /\ [Next]_vars => ConnectionInv'
  BY ConnectionInductive, PagesStep
<1>3. ASSUME ConnectionInv, [Next]_vars
      PROVE  [relayMode /\ ws' # None /\ ws' # ws => ~wasOpen /\ attempts < MaxAttempts]_(Pcap!vars)
  <2>1. [Pcap!Next]_(pcapVars)
    BY <1>3, PagesStep
  <2>2. CASE Pcap!Boot \/ Pcap!TimerFires
    <3>1. Pcap!Connect
      BY <2>2 DEF Pcap!Boot, Pcap!TimerFires
    <3>2. ws' = ws \/ (~(relayMode /\ relayOpened) /\ ~Pcap!AttemptsSpent)
      BY <3>1 DEF Pcap!Connect
    <3> QED
      BY <1>3, <3>2, PagesAssumption
         DEF ConnectionInv, Pcap!AttemptsSpent, Pcap!TypeOK, Pcap!ViewerAssumption
  <2>3. CASE ~(Pcap!Boot \/ Pcap!TimerFires)
    <3>1. ws' = ws \/ ws' = None
      BY <2>1, <2>3 DEF Pcap!Next, Pcap!Opens, Pcap!Accept, Pcap!Breaks, Pcap!Closes, Pcap!OnClose,
            Pcap!SessionEnds, Pcap!AgentToggles, Pcap!pageVars, pcapVars
    <3> QED
      BY <3>1
  <2> QED
    BY <2>2, <2>3
<1> QED
  BY <1>1, <1>2, <1>3, PTL DEF Spec, TokenUseIsBounded, Pcap!TokenUseIsBounded

-----------------------------------------------------------------------------
(* The enrichment page.                                                    *)

(* A search under way belongs to the page that is open, and a page that is *)
(* not open shows nothing.                                                 *)
SearchInv ==
    /\ currentType \in Enrichment!Types
    /\ search \in [Searches -> Enrichment!Search \cup {None}]
    /\ resultsQuery \in Values \cup {None}
    /\ content \in Seq(Enrichment!Parts)
    /\ ~loaded => resultsQuery = None /\ ~loading /\ ~disabled
    /\ \A s \in Searches : search[s] # None => loaded

(* Entries that may be kept in the browser.                                *)
Keepable == {e \in Enrichment!Entry : TypeOf[e.value] # "url"}

HistoryInv ==
    /\ storage \in Seq(Keepable)
    /\ history = IF loaded THEN storage ELSE <<>>

ChosenInv ==
    /\ \A s \in Searches : search[s] # None /\ search[s].submit => search[s].chosen
    /\ SubmissionIsChosen

(* What the page shows of the last search, ended or not.                   *)
ViewInv ==
    /\ ~overlapped =>
          \A s \in Searches : search[s] # None =>
              /\ content = <<>> /\ search[s].value = resultsQuery
              /\ \A t \in Searches : search[t] # None => t = s
    /\ SettledViewIsTrue

(* The inductive invariant.                                                *)
EnrichInv == SearchInv /\ HistoryInv /\ ChosenInv /\ ViewInv

(* It holds when the page is first loaded.                                 *)
LEMMA EnrichInitial ==
    ASSUME Enrichment!Init
    PROVE  EnrichInv
<1>1. SearchInv
  BY DEF Enrichment!Init, SearchInv, Enrichment!Types
<1>2. HistoryInv
  BY DEF Enrichment!Init, HistoryInv
<1>3. ChosenInv
  BY DEF Enrichment!Init, ChosenInv, SubmissionIsChosen, Enrichment!SubmissionIsChosen
<1>4. ViewInv
  BY DEF Enrichment!Init, ViewInv, SettledViewIsTrue, Enrichment!SettledViewIsTrue
<1> QED
  BY <1>1, <1>2, <1>3, <1>4 DEF EnrichInv

(* How a search starts, cancelled or not.                                  *)
Starts(s, v) ==
    /\ search[s] = None /\ resultsQuery' = v
    /\ overlapped' = (\E t \in Searches : search[t] # None)
    /\ UNCHANGED <<loaded, history, storage, flag, submitted>>
    /\ \/ /\ search' = search /\ ~loading' /\ ~disabled'
          /\ content' = <<[of |-> v, ok |-> FALSE]>>
       \/ /\ content' = <<>>
          /\ \E e \in Enrichment!Search :
                /\ search' = [search EXCEPT ![s] = e]
                /\ e # None /\ e.value = v /\ (e.submit => e.chosen)

(* The two ways performSearch begins.                                      *)
LEMMA SearchStarted ==
    ASSUME EnrichInv, NEW s \in Searches, NEW v \in Values, NEW type \in Enrichment!Types,
           NEW confirms \in BOOLEAN, Enrichment!PerformSearch(s, v, type, confirms)
    PROVE  Starts(s, v)
<1> DEFINE submit == type = "url" /\ urlscanActiveSubmission /\ consent
           cancel == submit /\ v \in Private /\ ~confirms
           e == [value |-> v, type |-> type, submit |-> submit, handled |-> FALSE,
                 chosen |-> consent /\ (v \in Private => confirms)]
<1>1. /\ search[s] = None /\ resultsQuery' = v /\ overlapped' = (Enrichment!Pending # {})
      /\ UNCHANGED <<loaded, history, storage, flag, submitted>>
  BY DEF Enrichment!PerformSearch, Enrichment!kept, Enrichment!server
<1>2. (Enrichment!Pending # {}) <=> (\E t \in Searches : search[t] # None)
  BY DEF Enrichment!Pending
<1>3. CASE cancel
  BY <1>1, <1>2, <1>3 DEF Enrichment!PerformSearch, Starts
<1>4. CASE ~cancel
  <2>1. content' = <<>> /\ search' = [search EXCEPT ![s] = e]
    BY <1>4 DEF Enrichment!PerformSearch
  <2>2. e \in Enrichment!Search /\ e # None
    <3>1. submit \in BOOLEAN /\ (consent /\ (v \in Private => confirms)) \in BOOLEAN
      OBVIOUS
    <3>2. ASSUME NEW a \in BOOLEAN, NEW b \in BOOLEAN
          PROVE  [value |-> v, type |-> type, submit |-> a, handled |-> FALSE, chosen |-> b]
                    \in Enrichment!Search
      BY DEF Enrichment!Search
    <3>3. e \in Enrichment!Search
      BY <3>1, <3>2
    <3> QED
      BY <3>3, PagesAssumption DEF Enrichment!EnrichmentAssumption
  <2>3. e.value = v /\ (e.submit => e.chosen)
    BY <1>4
  <2> QED
    BY <1>1, <1>2, <2>1, <2>2, <2>3 DEF Starts
<1> QED
  BY <1>3, <1>4

(* performSearch up to its request.                                        *)
LEMMA StartKeeps ==
    ASSUME EnrichInv, NEW s \in Searches, NEW v \in Values, NEW type \in Enrichment!Types,
           NEW confirms \in BOOLEAN, Enrichment!PerformSearch(s, v, type, confirms),
           loaded, currentType' \in Enrichment!Types
    PROVE  EnrichInv'
<1>s. Starts(s, v)
  BY SearchStarted
<1>0. /\ search[s] = None /\ resultsQuery' = v
      /\ overlapped' = (\E t \in Searches : search[t] # None)
      /\ UNCHANGED <<loaded, history, storage, flag, submitted>>
  BY <1>s DEF Starts
<1>1. HistoryInv'
  BY <1>0 DEF EnrichInv, HistoryInv
<1>2. CASE /\ search' = search /\ ~loading' /\ ~disabled'
           /\ content' = <<[of |-> v, ok |-> FALSE]>>
  <2>1. content' \in Seq(Enrichment!Parts) /\ Len(content') = 1 /\ content'[1].of = v
        /\ content' # <<>>
    BY <1>2 DEF Enrichment!Parts
  <2>2. SearchInv'
    BY <1>0, <1>2, <2>1 DEF EnrichInv, SearchInv
  <2>3. ChosenInv'
    BY <1>0, <1>2 DEF EnrichInv, ChosenInv, SubmissionIsChosen, Enrichment!SubmissionIsChosen
  <2>4. ViewInv'
    BY <1>0, <1>2, <2>1 DEF EnrichInv, ViewInv, SettledViewIsTrue, Enrichment!SettledViewIsTrue
  <2> QED
    BY <1>1, <2>2, <2>3, <2>4 DEF EnrichInv
<1>3. ASSUME NEW e \in Enrichment!Search, search' = [search EXCEPT ![s] = e], content' = <<>>,
             e # None, e.value = v, e.submit => e.chosen
      PROVE  EnrichInv'
  <2>1. \A t \in Searches : search'[t] = IF t = s THEN e ELSE search[t]
    BY <1>3 DEF EnrichInv, SearchInv
  <2>2. SearchInv'
    <3>1. search' \in [Searches -> Enrichment!Search \cup {None}]
      BY <1>3 DEF EnrichInv, SearchInv
    <3>2. <<>> \in Seq(Enrichment!Parts)
      OBVIOUS
    <3> QED
      BY <1>0, <1>3, <2>1, <3>1, <3>2 DEF EnrichInv, SearchInv
  <2>3. ChosenInv'
    <3>1. \A t \in Searches : search'[t] # None /\ search'[t].submit => search'[t].chosen
      BY <1>3, <2>1 DEF EnrichInv, ChosenInv
    <3> QED
      BY <1>0, <3>1 DEF EnrichInv, ChosenInv, SubmissionIsChosen, Enrichment!SubmissionIsChosen
  <2>4. ViewInv'
    <3>1. s \in Enrichment!Pending'
      BY <1>3, <2>1 DEF Enrichment!Pending
    <3>2. SettledViewIsTrue'
      BY <3>1 DEF SettledViewIsTrue, Enrichment!SettledViewIsTrue
    <3>3. ASSUME ~overlapped', NEW t \in Searches, search'[t] # None
          PROVE  /\ content' = <<>> /\ search'[t].value = resultsQuery'
                 /\ \A u \in Searches : search'[u] # None => u = t
      BY <1>0, <1>3, <2>1, <3>3
    <3> QED
      BY <3>2, <3>3 DEF ViewInv
  <2> QED
    BY <1>1, <2>2, <2>3, <2>4 DEF EnrichInv
<1> QED
  BY <1>s, <1>2, <1>3 DEF Starts

(* Steps that touch neither the searches nor what is shown of them.        *)
LEMMA ViewIsKept ==
    ASSUME EnrichInv,
           UNCHANGED <<loaded, search, resultsQuery, loading, disabled, content, overlapped,
                       submitted>>,
           currentType' \in Enrichment!Types, HistoryInv'
    PROVE  EnrichInv'
<1>1. SearchInv'
  BY DEF EnrichInv, SearchInv
<1>2. ChosenInv'
  BY DEF EnrichInv, ChosenInv, SubmissionIsChosen, Enrichment!SubmissionIsChosen
<1>3. ViewInv'
  BY DEF EnrichInv, ViewInv, SettledViewIsTrue, Enrichment!SettledViewIsTrue, Enrichment!Pending
<1> QED
  BY <1>1, <1>2, <1>3 DEF EnrichInv

(* How a search ends: it leaves the page ready, and showing something.     *)
LEMMA EndKeeps ==
    ASSUME EnrichInv, NEW s \in Searches, search[s] # None, HistoryInv',
           search' = [search EXCEPT ![s] = None], ~loading', ~disabled',
           content' \in Seq(Enrichment!Parts), Len(content') >= 1,
           content = <<>> => Len(content') = 1 /\ content'[1].of = search[s].value,
           UNCHANGED <<loaded, currentType, resultsQuery, submitted, overlapped>>
    PROVE  EnrichInv'
<1>1. \A t \in Searches : search'[t] = IF t = s THEN None ELSE search[t]
  BY DEF EnrichInv, SearchInv
<1>2. SearchInv'
  BY <1>1 DEF EnrichInv, SearchInv
<1>3. ChosenInv'
  BY <1>1 DEF EnrichInv, ChosenInv, SubmissionIsChosen, Enrichment!SubmissionIsChosen
<1>4. ViewInv'
  <2>1. content' # <<>>
    OBVIOUS
  <2>2. ASSUME ~overlapped
        PROVE  /\ content = <<>> /\ search[s].value = resultsQuery
               /\ \A t \in Searches : search'[t] = None
    BY <1>1, <2>2 DEF EnrichInv, ViewInv
  <2> QED
    BY <2>1, <2>2 DEF ViewInv, SettledViewIsTrue, Enrichment!SettledViewIsTrue
<1> QED
  BY <1>2, <1>3, <1>4 DEF EnrichInv

(* A result, rendered and remembered.                                      *)
LEMMA AnswerKeeps ==
    ASSUME EnrichInv, NEW s \in Searches, Enrichment!Answer(s)
    PROVE  EnrichInv'
<1> DEFINE e == [value |-> search[s].value, type |-> search[s].type]
<1>1. /\ search[s] # None /\ search[s] \in Enrichment!Search
      /\ search[s].type = TypeOf[search[s].value]
      /\ content' = <<[of |-> search[s].value, ok |-> TRUE]>> /\ ~loading' /\ ~disabled'
      /\ history' = Enrichment!Remembered(s)
      /\ storage' = IF search[s].type = "url" THEN storage ELSE history'
      /\ search' = [search EXCEPT ![s] = None]
      /\ UNCHANGED <<loaded, currentType, resultsQuery, submitted, overlapped>>
  BY DEF Enrichment!Answer, Enrichment!Pending, Enrichment!server, EnrichInv, SearchInv
<1>2. /\ content' \in Seq(Enrichment!Parts) /\ Len(content') >= 1
      /\ Len(content') = 1 /\ content'[1].of = search[s].value
  BY <1>1 DEF Enrichment!Parts, Enrichment!Search
<1>3. loaded /\ history = storage /\ storage \in Seq(Keepable)
  BY <1>1 DEF EnrichInv, SearchInv, HistoryInv
<1>4. HistoryInv'
  <2>1. CASE search[s].type = "url"
    BY <1>1, <1>3, <2>1 DEF Enrichment!Remembered, HistoryInv
  <2>2. CASE search[s].type # "url"
    <3>1. e \in Keepable
      BY <1>1, <2>2 DEF Keepable, Enrichment!Entry, Enrichment!Search
    <3>2. <<e>> \in Seq(Keepable) /\ <<e>> \o history \in Seq(Keepable)
      BY <1>3, <3>1
    <3>3. history' = Enrichment!Truncated(<<e>> \o history)
      BY <1>1, <2>2 DEF Enrichment!Remembered
    <3>4. history' \in Seq(Keepable)
      <4>1. HistoryMax \in Nat
        BY PagesAssumption DEF Enrichment!EnrichmentAssumption
      <4>2. ASSUME NEW q \in Seq(Keepable) PROVE Enrichment!Truncated(q) \in Seq(Keepable)
        BY <4>1 DEF Enrichment!Truncated
      <4> QED
        BY <3>2, <3>3, <4>2
    <3> QED
      BY <1>1, <1>3, <2>2, <3>4 DEF HistoryInv
  <2> QED
    BY <2>1, <2>2
<1> QED
  BY <1>1, <1>2, <1>4, EndKeeps

(* A refusal, or an exchange that failed.                                  *)
LEMMA FailsKeeps ==
    ASSUME EnrichInv, NEW s \in Searches, Enrichment!Fails(s)
    PROVE  EnrichInv'
<1>1. /\ search[s] # None /\ search[s] \in Enrichment!Search
      /\ content' = Append(content, [of |-> search[s].value, ok |-> FALSE])
      /\ ~loading' /\ ~disabled'
      /\ search' = [search EXCEPT ![s] = None]
      /\ UNCHANGED <<loaded, currentType, resultsQuery, submitted, overlapped, history, storage>>
  BY DEF Enrichment!Fails, Enrichment!FailureEnables, Enrichment!Pending, Enrichment!server,
         Enrichment!kept, EnrichInv, SearchInv
<1>2. /\ content \in Seq(Enrichment!Parts)
      /\ [of |-> search[s].value, ok |-> FALSE] \in Enrichment!Parts
  BY <1>1 DEF EnrichInv, SearchInv, Enrichment!Parts, Enrichment!Search
<1>3. /\ content' \in Seq(Enrichment!Parts) /\ Len(content') >= 1
      /\ content = <<>> => Len(content') = 1 /\ content'[1].of = search[s].value
  BY <1>1, <1>2
<1>4. HistoryInv'
  BY <1>1 DEF EnrichInv, HistoryInv
<1> QED
  BY <1>1, <1>3, <1>4, EndKeeps

(* The server sees the consent of the search, not that of the page.        *)
LEMMA HandleKeeps ==
    ASSUME EnrichInv, NEW s \in Searches, Enrichment!Handle(s)
    PROVE  EnrichInv'
<1>1. /\ search[s] # None /\ search[s] \in Enrichment!Search
      /\ search' = [search EXCEPT ![s].handled = TRUE]
      /\ UNCHANGED <<loaded, currentType, resultsQuery, loading, disabled, content, overlapped,
                     history, storage>>
      /\ \/ submitted' = submitted
         \/ /\ flag /\ search[s].submit
            /\ submitted' = submitted \cup {[value |-> search[s].value,
                                             chosen |-> search[s].chosen, flag |-> flag]}
  BY DEF Enrichment!Handle, Enrichment!Pending, Enrichment!Submits, Enrichment!kept,
         Enrichment!view, EnrichInv, SearchInv
<1>2. PICK e \in Enrichment!Search :
          /\ search' = [search EXCEPT ![s] = e] /\ e # None
          /\ e.value = search[s].value /\ e.submit = search[s].submit
          /\ e.chosen = search[s].chosen
  <2>1. [search[s] EXCEPT !.handled = TRUE] \in Enrichment!Search
    BY <1>1 DEF Enrichment!Search
  <2>2. [search[s] EXCEPT !.handled = TRUE] # None
    BY <2>1, PagesAssumption DEF Enrichment!EnrichmentAssumption
  <2>3. [search[s] EXCEPT !.handled = TRUE].value = search[s].value
        /\ [search[s] EXCEPT !.handled = TRUE].submit = search[s].submit
        /\ [search[s] EXCEPT !.handled = TRUE].chosen = search[s].chosen
    BY <1>1 DEF Enrichment!Search
  <2>4. search' = [search EXCEPT ![s] = [search[s] EXCEPT !.handled = TRUE]]
    BY <1>1
  <2> QED
    BY <2>1, <2>2, <2>3, <2>4
<1>3. \A t \in Searches : search'[t] = IF t = s THEN e ELSE search[t]
  BY <1>2 DEF EnrichInv, SearchInv
<1>4. SearchInv'
  <2>1. search' \in [Searches -> Enrichment!Search \cup {None}]
    BY <1>2 DEF EnrichInv, SearchInv
  <2> QED
    BY <1>1, <1>3, <2>1 DEF EnrichInv, SearchInv
<1>5. HistoryInv'
  BY <1>1 DEF EnrichInv, HistoryInv
<1>6. ChosenInv'
  <2>1. \A t \in Searches : search'[t] # None /\ search'[t].submit => search'[t].chosen
    BY <1>1, <1>2, <1>3 DEF EnrichInv, ChosenInv
  <2>2. flag /\ search[s].submit => search[s].chosen
    BY <1>1 DEF EnrichInv, ChosenInv
  <2> QED
    BY <1>1, <2>1, <2>2 DEF EnrichInv, ChosenInv, SubmissionIsChosen, Enrichment!SubmissionIsChosen
<1>7. ViewInv'
  <2>1. \A t \in Searches : (search'[t] # None <=> search[t] # None)
                            /\ (search[t] # None => search'[t].value = search[t].value)
    BY <1>1, <1>2, <1>3
  <2>2. Enrichment!Pending' = Enrichment!Pending
    BY <2>1 DEF Enrichment!Pending
  <2> QED
    BY <1>1, <2>1, <2>2 DEF EnrichInv, ViewInv, SettledViewIsTrue, Enrichment!SettledViewIsTrue
<1> QED
  BY <1>4, <1>5, <1>6, <1>7 DEF EnrichInv

(* EnrichInv is inductive.                                                 *)
LEMMA EnrichInductive ==
    ASSUME EnrichInv, [Enrichment!Next]_(enrichmentVars)
    PROVE  EnrichInv'
<1> USE DEF Enrichment!view, Enrichment!kept, Enrichment!server, Enrichment!capabilities
<1>1. CASE Enrichment!Load
  <2>1. /\ ~loaded /\ loaded' /\ history' = storage
        /\ UNCHANGED <<search, resultsQuery, loading, disabled, content, overlapped, submitted,
                       storage, currentType>>
    BY <1>1 DEF Enrichment!Load
  <2>2. SearchInv' /\ HistoryInv' /\ ChosenInv'
    BY <2>1 DEF EnrichInv, SearchInv, HistoryInv, ChosenInv, SubmissionIsChosen,
                Enrichment!SubmissionIsChosen
  <2>3. ViewInv'
    BY <2>1 DEF EnrichInv, SearchInv, ViewInv, SettledViewIsTrue, Enrichment!SettledViewIsTrue
  <2> QED
    BY <2>2, <2>3 DEF EnrichInv
<1>2. CASE Enrichment!Unload
  <2>1. /\ loaded /\ ~loaded' /\ currentType' = "ip"
        /\ search' = [s \in Searches |-> None]
        /\ resultsQuery' = None /\ ~loading' /\ ~disabled'
        /\ content' = <<>> /\ history' = <<>> /\ storage' = storage /\ submitted' = submitted
    BY <1>2 DEF Enrichment!Unload
  <2>2. SearchInv' /\ HistoryInv' /\ ChosenInv' /\ ViewInv'
    BY <2>1 DEF EnrichInv, SearchInv, HistoryInv, ChosenInv, SubmissionIsChosen, ViewInv,
                Enrichment!SubmissionIsChosen, SettledViewIsTrue, Enrichment!SettledViewIsTrue,
                Enrichment!Types
  <2> QED
    BY <2>2 DEF EnrichInv
<1>3. CASE Enrichment!ClearHistory
  <2>1. HistoryInv'
    BY <1>3 DEF Enrichment!ClearHistory, HistoryInv
  <2> QED
    BY <1>3, <2>1, ViewIsKept DEF Enrichment!ClearHistory, EnrichInv, SearchInv
<1>4. CASE Enrichment!Reconfigure \/ Enrichment!ToggleConsent
  <2>1. HistoryInv'
    BY <1>4 DEF Enrichment!Reconfigure, Enrichment!ToggleConsent, EnrichInv, HistoryInv
  <2> QED
    BY <1>4, <2>1, ViewIsKept
       DEF Enrichment!Reconfigure, Enrichment!ToggleConsent, EnrichInv, SearchInv
<1>5. ASSUME NEW answered \in BOOLEAN, Enrichment!Capabilities(answered) PROVE EnrichInv'
  <2>1. HistoryInv'
    BY <1>5 DEF Enrichment!Capabilities, EnrichInv, HistoryInv
  <2> QED
    BY <1>5, <2>1, ViewIsKept DEF Enrichment!Capabilities, EnrichInv, SearchInv
<1>6. ASSUME NEW t \in Enrichment!Types, Enrichment!SwitchTab(t) PROVE EnrichInv'
  <2>1. HistoryInv'
    BY <1>6 DEF Enrichment!SwitchTab, EnrichInv, HistoryInv
  <2> QED
    BY <1>6, <2>1, ViewIsKept DEF Enrichment!SwitchTab
<1>7. ASSUME NEW s \in Searches,
             Enrichment!Handle(s) \/ Enrichment!Answer(s) \/ Enrichment!Fails(s)
      PROVE  EnrichInv'
  BY <1>7, HandleKeeps, AnswerKeeps, FailsKeeps
<1>8. ASSUME NEW s \in Searches, NEW confirms \in BOOLEAN, NEW v \in Values,
             Enrichment!Enter(s, v, confirms)
      PROVE  EnrichInv'
  <2>1. currentType \in Enrichment!Types
    BY DEF EnrichInv, SearchInv
  <2> QED
    BY <1>8, <2>1, StartKeeps DEF Enrichment!Enter
<1>9. ASSUME NEW s \in Searches, NEW confirms \in BOOLEAN, NEW i \in 1..Len(history),
             Enrichment!FromHistory(s, i, confirms)
      PROVE  EnrichInv'
  <2>1. loaded /\ history \in Seq(Keepable)
    BY <1>9 DEF Enrichment!FromHistory, EnrichInv, HistoryInv
  <2>2. history[i] \in Keepable
    BY <2>1
  <2>3. history[i].value \in Values /\ history[i].type \in Enrichment!Types
    BY <2>2 DEF Keepable, Enrichment!Entry
  <2> QED
    BY <1>9, <2>1, <2>3, StartKeeps DEF Enrichment!FromHistory
<1>10. CASE UNCHANGED enrichmentVars
  <2>1. HistoryInv'
    BY <1>10 DEF enrichmentVars, EnrichInv, HistoryInv
  <2> QED
    BY <1>10, <2>1, ViewIsKept DEF enrichmentVars, EnrichInv, SearchInv
<1> QED
  BY <1>1, <1>2, <1>3, <1>4, <1>5, <1>6, <1>7, <1>8, <1>9, <1>10 DEF Enrichment!Next

(* No URL is submitted to URLScan that the visitor did not choose to       *)
(* submit, while the operator does not allow it: the consent is taken when *)
(* the search starts, the permission when the server handles it.           *)
THEOREM SubmissionStaysChosen == Spec => []SubmissionIsChosen
<1>1. Init => EnrichInv
  BY EnrichInitial DEF Init
<1>2. EnrichInv /\ [Next]_vars => EnrichInv'
  BY EnrichInductive, PagesStep
<1>3. EnrichInv => SubmissionIsChosen
  BY DEF EnrichInv, ChosenInv
<1> QED
  BY <1>1, <1>2, <1>3, PTL DEF Spec

(* Whatever is typed under whatever tab, no URL is kept in the browser,    *)
(* and the page shows what is kept.                                        *)
THEOREM HistoryStaysSound == Spec => []HistoryIsSound
<1>1. Init => EnrichInv
  BY EnrichInitial DEF Init
<1>2. EnrichInv /\ [Next]_vars => EnrichInv'
  BY EnrichInductive, PagesStep
<1>3. EnrichInv => HistoryIsSound
  <2>1. ASSUME NEW q \in Seq(Keepable), NEW i \in 1..Len(q) PROVE TypeOf[q[i].value] # "url"
    BY DEF Keepable
  <2> QED
    BY <2>1 DEF EnrichInv, HistoryInv, HistoryIsSound, Enrichment!HistoryIsSound
<1> QED
  BY <1>1, <1>2, <1>3, PTL DEF Spec

(* However searches overlap, a page at rest is ready for the next one and  *)
(* shows an outcome, that of its header if no search was started over      *)
(* another.                                                                *)
THEOREM SettledViewStaysTrue == Spec => []SettledViewIsTrue
<1>1. Init => EnrichInv
  BY EnrichInitial DEF Init
<1>2. EnrichInv /\ [Next]_vars => EnrichInv'
  BY EnrichInductive, PagesStep
<1>3. EnrichInv => SettledViewIsTrue
  BY DEF EnrichInv, ViewInv
<1> QED
  BY <1>1, <1>2, <1>3, PTL DEF Spec

-----------------------------------------------------------------------------
(* The hardware dashboard: its steps, and what a panel shows.              *)

(* The time that n calls may take.                                         *)
Calls(n) == n * CallLimit

(* The timer runs exactly while the page is in view, and no call is late.  *)
ClockInv ==
    /\ Hardware!TypeOK
    /\ since <= now
    /\ (pollingTimer = None) <=> ~visible
    /\ visible => open
    /\ \A r \in RunIds : runs[r] # None =>
          runs[r].sent <= now /\ now <= runs[r].sent + CallLimit

(* Panel p shows figures of a call made at time t, but for a late answer.  *)
Delivered(p, t) == shown[p] \in Nat /\ t <= shown[p] + CallLimit

(* Run r, of the first poll from time t on, has yet to replace panel p's.  *)
OnItsWay(r, p, t) ==
    /\ runs[r] # None /\ runs[r].panel <= p
    /\ t <= runs[r].sent /\ runs[r].sent < t + PollEvery + Calls(runs[r].panel - 1)

(* One of the two.                                                         *)
Reaches(p, t) == Delivered(p, t) \/ \E r \in RunIds : OnItsWay(r, p, t)

(* Every moment in view, up to the last poll, has been followed up.        *)
FreshInv ==
    visible =>
        \A p \in Hardware!PanelIds : \A t \in since + 1 .. (now + pollingTimer) - PollEvery :
            Reaches(p, t)

(* What is assumed of the constants.                                       *)
LEMMA HardwareFacts ==
    /\ Panels \in Nat \ {0} /\ PollEvery \in Nat \ {0} /\ CallLimit \in Nat \ {0}
    /\ Burst \in Nat /\ MaxTime \in Nat /\ MaxOpenings \in Nat /\ RunIds \subseteq Nat
    /\ None \notin Nat /\ None \notin Hardware!Run /\ Hardware!PanelIds = 1..Panels
    /\ Panels <= PollEvery
  BY PagesAssumption DEF Hardware!HardwareAssumption, Hardware!PanelIds

(* HardwarePage counts with a FiniteSets of its own, and has few runs.     *)
LEMMA RunsAreFinite ==
    /\ IsFiniteSet(RunIds) /\ \A S : Hardware!Cardinality(S) = Cardinality(S)
    /\ \A S \in SUBSET RunIds : IsFiniteSet(S) /\ Cardinality(S) \in Nat
<1>1. IsFiniteSet(RunIds)
  BY PagesAssumption DEF Hardware!HardwareAssumption, Hardware!IsFiniteSet, IsFiniteSet
<1>2. \A S : Hardware!Cardinality(S) = Cardinality(S)
  BY DEF Hardware!Cardinality, Cardinality
<1>3. ASSUME NEW S \in SUBSET RunIds
      PROVE  IsFiniteSet(S) /\ Cardinality(S) \in Nat
  BY <1>1, FS_Subset, FS_CardinalityType
<1> QED
  BY <1>1, <1>2, <1>3

(* Calls, without its product.                                             *)
LEMMA CallsProperties ==
    ASSUME NEW n \in Int
    PROVE  /\ Calls(n) \in Int /\ Calls(n + 1) = Calls(n) + CallLimit
           /\ Calls(0) = 0 /\ Calls(1) = CallLimit
  BY HardwareFacts DEF Calls

(* More calls take longer.                                                 *)
LEMMA CallsMonotone ==
    ASSUME NEW m \in Int, NEW n \in Int, m <= n
    PROVE  Calls(m) <= Calls(n)
<1>1. PICK d \in Nat : n = m + d
  <2>1. n - m \in Nat /\ n = m + (n - m)
    OBVIOUS
  <2> QED
    BY <2>1
<1>2. d * CallLimit \in Nat
  BY HardwareFacts
<1>3. (m + d) * CallLimit = m * CallLimit + d * CallLimit
  BY HardwareFacts
<1>4. m * CallLimit \in Int
  BY HardwareFacts
<1> QED
  BY <1>1, <1>2, <1>3, <1>4 DEF Calls

(* A run, and what is known of it.                                         *)
LEMMA RunFacts ==
    ASSUME ClockInv, NEW r \in RunIds, runs[r] # None
    PROVE  /\ runs[r] \in Hardware!Run
           /\ runs[r].panel \in 1..Panels /\ runs[r].sent \in Nat /\ runs[r].sent \in 0..MaxTime
           /\ runs[r].polled \in BOOLEAN
           /\ runs[r].sent <= now /\ now <= runs[r].sent + CallLimit /\ now \in Nat
<1>1. runs[r] \in Hardware!Run
  BY DEF ClockInv, Hardware!TypeOK
<1>2. /\ runs[r].panel \in Hardware!PanelIds /\ runs[r].sent \in 0..MaxTime
      /\ runs[r].polled \in BOOLEAN
  BY <1>1 DEF Hardware!Run
<1> QED
  BY <1>1, <1>2, HardwareFacts DEF ClockInv, Hardware!TypeOK

(* The numbers of the page.                                                *)
LEMMA ClockFacts ==
    ASSUME ClockInv
    PROVE  /\ now \in Nat /\ now \in 0..MaxTime /\ since \in Nat /\ since <= now
           /\ openings \in Nat /\ pile \in Nat
           /\ tokens \in Nat /\ tokens <= Burst
           /\ runs \in [RunIds -> Hardware!Run \cup {None}]
           /\ shown \in [Hardware!PanelIds -> 0..MaxTime \cup {None, Failure}]
           /\ visible => pollingTimer \in Nat /\ pollingTimer <= PollEvery
  BY HardwareFacts DEF ClockInv, Hardware!TypeOK

(* What a call of panel p changes.                                         *)
LEMMA CallFacts ==
    ASSUME ClockInv, NEW r \in RunIds, NEW p \in 1..Panels, NEW polled \in BOOLEAN,
           Hardware!Call(r, p, polled)
    PROVE  /\ runs' \in [RunIds -> Hardware!Run \cup {None}]
           /\ \A q \in RunIds : q # r => runs'[q] = runs[q]
           /\ runs'[r] # None /\ runs'[r].panel = p /\ runs'[r].sent = now
           /\ runs'[r].polled = polled
           /\ tokens' \in 0..Burst /\ refused' \in BOOLEAN
           /\ (tokens > 0 => tokens' = tokens - 1) /\ (tokens = 0 => tokens' = 0)
           /\ refused' = (refused \/ tokens = 0)
<1> DEFINE e == [panel |-> p, sent |-> now, admitted |-> tokens > 0, polled |-> polled]
<1>1. e \in Hardware!Run
  <2>1. p \in Hardware!PanelIds /\ now \in 0..MaxTime
    BY HardwareFacts, ClockFacts
  <2>2. ASSUME NEW a \in BOOLEAN
        PROVE  [panel |-> p, sent |-> now, admitted |-> a, polled |-> polled] \in Hardware!Run
    BY <2>1 DEF Hardware!Run
  <2>3. (tokens > 0) \in BOOLEAN
    OBVIOUS
  <2> QED
    BY <2>2, <2>3
<1>2. e # None /\ e.panel = p /\ e.sent = now /\ e.polled = polled
  BY <1>1, HardwareFacts
<1>3. runs' = [runs EXCEPT ![r] = e]
  BY DEF Hardware!Call
<1>4. /\ runs' \in [RunIds -> Hardware!Run \cup {None}]
      /\ \A q \in RunIds : q # r => runs'[q] = runs[q]
      /\ runs'[r] = e
  BY <1>1, <1>3, ClockFacts
<1>5. /\ tokens' \in 0..Burst /\ refused' \in BOOLEAN
      /\ (tokens > 0 => tokens' = tokens - 1) /\ (tokens = 0 => tokens' = 0)
      /\ refused' = (refused \/ tokens = 0)
  BY ClockFacts, HardwareFacts DEF Hardware!Call, ClockInv, Hardware!TypeOK
<1> HIDE DEF e
<1> QED
  BY <1>2, <1>4, <1>5

(* The page comes into view.                                               *)
Opens(r) ==
    /\ runs[r] = None /\ Hardware!Call(r, 1, FALSE) /\ pile' = pile
    /\ pollingTimer' = PollEvery /\ openings' = openings + 1 /\ openings < MaxOpenings
    /\ since' = now /\ now' = now /\ ~visible /\ visible' /\ open' /\ shown' = shown

(* The interval fires.                                                     *)
Polls(r) ==
    /\ runs[r] = None /\ Hardware!Call(r, 1, TRUE)
    /\ pile' = LET n == Hardware!Cardinality(Hardware!PolledRuns')
               IN  IF n > pile THEN n ELSE pile
    /\ pollingTimer = 0 /\ pollingTimer' = PollEvery /\ visible
    /\ UNCHANGED <<now, open, visible, shown, openings, since>>

(* A call is answered and the run ends, or goes on to its next panel.      *)
Answers(r, reply) ==
    /\ runs[r] # None
    /\ UNCHANGED <<now, open, visible, pollingTimer, openings, pile>>
    /\ \/ reply = "figures" /\ since' = since
          /\ shown' = [shown EXCEPT ![runs[r].panel] = runs[r].sent]
       \/ reply # "figures" /\ since' = now
          /\ shown' \in {shown, [shown EXCEPT ![runs[r].panel] = Failure]}

(* The run ends.                                                           *)
Ends(r) == runs' = [runs EXCEPT ![r] = None] /\ UNCHANGED <<tokens, refused>>

(* It goes on.                                                             *)
GoesOn(r) ==
    visible /\ runs[r].panel < Panels /\ Hardware!Call(r, runs[r].panel + 1, runs[r].polled)

(* The page leaves the view, or was never in it, or is gone.               *)
Leaves ==
    /\ visible' = FALSE /\ pollingTimer' = None
    /\ runs' \in {runs, Hardware!Idle}
    /\ shown' \in {shown, [p \in Hardware!PanelIds |-> None]}
    /\ open' \in BOOLEAN
    /\ UNCHANGED <<now, tokens, openings, pile, refused, since>>

(* A step of the page, by what it does to the runs.                        *)
LEMMA HardwareStep ==
    ASSUME ClockInv, [Hardware!Next]_(hardwareVars)
    PROVE  \/ \E r \in RunIds : Opens(r) \/ Polls(r)
           \/ \E r \in RunIds, reply \in {"figures", "error", "limited"} :
                 /\ Answers(r, reply)
                 /\ (Ends(r) /\ ~(visible /\ runs[r].panel < Panels)) \/ GoesOn(r)
           \/ Leaves
           \/ Hardware!Tick
           \/ UNCHANGED hardwareVars
<1> USE DEF ClockInv
<1>1. ASSUME NEW inView \in BOOLEAN, Hardware!Load(inView)
      PROVE  Leaves \/ \E r \in RunIds : Opens(r)
  <2>0. ~visible /\ pollingTimer = None
    BY <1>1 DEF Hardware!Load
  <2>1. CASE inView
    <3>1. PICK r \in RunIds : runs[r] = None /\ Hardware!Call(r, 1, FALSE)
      BY <1>1, <2>1 DEF Hardware!Load, Hardware!ComesIntoView, Hardware!FetchAll
    <3>2. Opens(r)
      BY <1>1, <2>0, <2>1, <3>1
         DEF Opens, Hardware!Load, Hardware!ComesIntoView, Hardware!StartPolling
    <3> QED
      BY <3>2
  <2>2. CASE ~inView
    BY <1>1, <2>0, <2>2 DEF Leaves, Hardware!Load
  <2> QED
    BY <2>1, <2>2
<1>2. CASE Hardware!Show
  <2>0. pollingTimer = None
    BY <1>2 DEF Hardware!Show
  <2>1. PICK r \in RunIds : runs[r] = None /\ Hardware!Call(r, 1, FALSE)
    BY <1>2 DEF Hardware!Show, Hardware!ComesIntoView, Hardware!FetchAll
  <2>2. Opens(r)
    BY <1>2, <2>0, <2>1 DEF Opens, Hardware!Show, Hardware!ComesIntoView, Hardware!StartPolling
  <2> QED
    BY <2>2
<1>3. CASE Hardware!Hide \/ Hardware!Unload
  BY <1>3 DEF Leaves, Hardware!Hide, Hardware!Unload, Hardware!StopPolling, Hardware!TypeOK
<1>4. CASE Hardware!IntervalFires
  <2>0. visible
    BY <1>4, HardwareFacts DEF Hardware!IntervalFires
  <2>1. PICK r \in RunIds : runs[r] = None /\ Hardware!Call(r, 1, TRUE)
    BY <1>4, <2>0 DEF Hardware!IntervalFires, Hardware!Poll, Hardware!FetchAll
  <2>2. Polls(r)
    BY <1>4, <2>0, <2>1 DEF Polls, Hardware!IntervalFires, Hardware!Poll
  <2> QED
    BY <2>2
<1>5. ASSUME NEW r \in RunIds, NEW reply \in {"figures", "error", "limited"},
             Hardware!Answer(r, reply)
      PROVE  /\ Answers(r, reply)
             /\ (Ends(r) /\ ~(visible /\ runs[r].panel < Panels)) \/ GoesOn(r)
  <2>1. Answers(r, reply)
    BY <1>5 DEF Answers, Hardware!Answer
  <2>2. (Ends(r) /\ ~(visible /\ runs[r].panel < Panels)) \/ GoesOn(r)
    BY <1>5 DEF Hardware!Answer, Ends, GoesOn, Hardware!GoesOn
  <2> QED
    BY <2>1, <2>2
<1> QED
  BY <1>1, <1>2, <1>3, <1>4, <1>5 DEF Hardware!Next

(* ClockInv is inductive.                                                  *)
LEMMA ClockInductive ==
    ASSUME ClockInv, [Hardware!Next]_(hardwareVars)
    PROVE  ClockInv'
<1>t. /\ now \in Nat /\ now \in 0..MaxTime /\ since \in Nat /\ since <= now
      /\ tokens \in Nat /\ tokens <= Burst
      /\ runs \in [RunIds -> Hardware!Run \cup {None}]
      /\ shown \in [Hardware!PanelIds -> 0..MaxTime \cup {None, Failure}]
      /\ Panels \in Nat \ {0} /\ PollEvery \in Nat /\ CallLimit \in Nat /\ Burst \in Nat
      /\ MaxTime \in Nat /\ MaxOpenings \in Nat /\ None \notin Nat /\ 1 \in 1..Panels
      /\ pile \in Nat
  BY ClockFacts, HardwareFacts
(* Runs after a call of run r.                                             *)
<1>c. ASSUME NEW r \in RunIds, NEW p \in 1..Panels, NEW polled \in BOOLEAN,
             Hardware!Call(r, p, polled), now' = now
      PROVE  \A q \in RunIds : runs'[q] # None =>
                runs'[q].sent <= now' /\ now' <= runs'[q].sent + CallLimit
  BY <1>c, <1>t, CallFacts DEF ClockInv
<1>1. ASSUME NEW r \in RunIds, Opens(r) \/ Polls(r) PROVE ClockInv'
  <2>0. PICK polled \in BOOLEAN : Hardware!Call(r, 1, polled)
    BY <1>1 DEF Opens, Polls
  <2>1. /\ now' = now /\ visible' /\ open' /\ pollingTimer' = PollEvery
        /\ shown' = shown /\ since' \in {since, now}
        /\ openings' \in {openings, openings + 1}
        /\ (openings' # openings => openings < MaxOpenings)
        /\ open' \in BOOLEAN /\ visible' \in BOOLEAN
    <3>1. CASE Opens(r)
      BY <3>1 DEF Opens
    <3>2. CASE Polls(r)
      BY <3>2 DEF Polls, ClockInv, Hardware!TypeOK
    <3> QED
      BY <1>1, <3>1, <3>2
  <2>p. pile' \in Nat
    <3>1. CASE Opens(r)
      BY <3>1, <1>t DEF Opens
    <3>2. CASE Polls(r)
      <4>1. Hardware!PolledRuns' \in SUBSET RunIds
        BY DEF Hardware!PolledRuns
      <4>2. Hardware!Cardinality(Hardware!PolledRuns') \in Nat
        BY <4>1, RunsAreFinite
      <4> QED
        BY <3>2, <1>t, <4>2 DEF Polls
    <3> QED
      BY <1>1, <3>1, <3>2
  <2>2. /\ runs' \in [RunIds -> Hardware!Run \cup {None}] /\ tokens' \in 0..Burst
        /\ refused' \in BOOLEAN
    BY <1>t, <2>0, <2>1, CallFacts
  <2>3. openings' \in 0..MaxOpenings
    BY <1>t, <2>1 DEF ClockInv, Hardware!TypeOK
  <2>4. since' \in 0..MaxTime /\ since' <= now'
    BY <1>t, <2>1 DEF ClockInv, Hardware!TypeOK
  <2>5. Hardware!TypeOK'
    BY <1>t, <2>1, <2>p, <2>2, <2>3, <2>4 DEF Hardware!TypeOK
  <2>6. \A q \in RunIds : runs'[q] # None =>
           runs'[q].sent <= now' /\ now' <= runs'[q].sent + CallLimit
    BY <1>c, <1>t, <2>0, <2>1
  <2> QED
    BY <1>t, <2>1, <2>4, <2>5, <2>6 DEF ClockInv
<1>2. ASSUME NEW r \in RunIds, NEW reply \in {"figures", "error", "limited"}, Answers(r, reply),
             Ends(r) \/ GoesOn(r)
      PROVE  ClockInv'
  <2>1. /\ runs[r] # None /\ UNCHANGED <<now, open, visible, pollingTimer, openings, pile>>
        /\ since' \in {since, now}
    BY <1>2 DEF Answers
  <2>2. /\ runs[r].panel \in Hardware!PanelIds /\ runs[r].panel \in 1..Panels
        /\ runs[r].sent \in 0..MaxTime
    BY <2>1, RunFacts, HardwareFacts
  <2>3. shown' \in [Hardware!PanelIds -> 0..MaxTime \cup {None, Failure}]
    BY <1>2, <1>t, <2>2 DEF Answers
  <2>4. since' \in 0..MaxTime /\ since' <= now'
    BY <1>t, <2>1 DEF ClockInv, Hardware!TypeOK
  <2>5. /\ runs' \in [RunIds -> Hardware!Run \cup {None}] /\ tokens' \in 0..Burst
        /\ refused' \in BOOLEAN
        /\ \A q \in RunIds : runs'[q] # None =>
              runs'[q].sent <= now' /\ now' <= runs'[q].sent + CallLimit
    <3>1. CASE Ends(r)
      BY <1>t, <2>1, <3>1 DEF Ends, ClockInv, Hardware!TypeOK
    <3>2. CASE GoesOn(r)
      <4>1. /\ runs[r].panel + 1 \in 1..Panels /\ runs[r].polled \in BOOLEAN
            /\ Hardware!Call(r, runs[r].panel + 1, runs[r].polled)
        BY <1>t, <2>1, <2>2, <3>2, RunFacts DEF GoesOn
      <4> QED
        BY <1>c, <2>1, <4>1, CallFacts
    <3> QED
      BY <1>2, <3>1, <3>2
  <2> QED
    BY <1>t, <2>1, <2>3, <2>4, <2>5 DEF ClockInv, Hardware!TypeOK
<1>3. CASE Leaves
  <2>1. runs' \in [RunIds -> Hardware!Run \cup {None}]
        /\ \A q \in RunIds : runs'[q] # None => runs'[q] = runs[q]
    BY <1>t, <1>3 DEF Leaves, Hardware!Idle
  <2>2. shown' \in [Hardware!PanelIds -> 0..MaxTime \cup {None, Failure}]
    BY <1>t, <1>3 DEF Leaves
  <2>3. /\ ~visible' /\ visible' \in BOOLEAN /\ pollingTimer' = None /\ open' \in BOOLEAN
        /\ UNCHANGED <<now, tokens, openings, pile, refused, since>>
    BY <1>3 DEF Leaves
  <2>4. Hardware!TypeOK'
    BY <1>t, <2>1, <2>2, <2>3 DEF ClockInv, Hardware!TypeOK
  <2> QED
    BY <1>t, <2>1, <2>3, <2>4 DEF ClockInv
<1>4. CASE Hardware!Tick
  <2>1. /\ now < MaxTime /\ now' = now + 1 /\ pollingTimer # 0
        /\ UNCHANGED <<open, visible, runs, shown, openings, pile, refused, since>>
        /\ pollingTimer' = IF pollingTimer = None THEN None ELSE pollingTimer - 1
        /\ \A r \in RunIds : runs[r] # None => now < runs[r].sent + CallLimit
    BY <1>4 DEF Hardware!Tick
  <2>2. tokens' \in 0..Burst
    BY <1>4, <1>t DEF Hardware!Tick, Hardware!Refilled
  <2>3. pollingTimer' \in 0..PollEvery \cup {None} /\ (pollingTimer' = None <=> pollingTimer = None)
    BY <1>t, <2>1 DEF ClockInv, Hardware!TypeOK
  <2>4. \A r \in RunIds : runs'[r] # None =>
           runs'[r].sent <= now' /\ now' <= runs'[r].sent + CallLimit
    BY <1>t, <2>1, RunFacts
  <2>5. Hardware!TypeOK'
    BY <1>t, <2>1, <2>2, <2>3 DEF ClockInv, Hardware!TypeOK
  <2> QED
    BY <1>t, <2>1, <2>3, <2>4, <2>5 DEF ClockInv
<1>5. CASE UNCHANGED hardwareVars
  BY <1>5 DEF hardwareVars, ClockInv, Hardware!TypeOK
<1> QED
  BY <1>1, <1>2, <1>3, <1>4, <1>5, HardwareStep

(* What a panel was sent for does not go back by more than a late answer.  *)
LEMMA ReachesAfterAnswer ==
    ASSUME ClockInv, NEW r \in RunIds, Answers(r, "figures"), visible,
           (Ends(r) /\ ~(visible /\ runs[r].panel < Panels)) \/ GoesOn(r),
           NEW p \in 1..Panels, NEW t \in Nat, t <= now, Reaches(p, t)
    PROVE  Reaches(p, t)'
<1>1. /\ runs[r] # None /\ now' = now /\ now \in Nat
      /\ shown' = [shown EXCEPT ![runs[r].panel] = runs[r].sent]
      /\ runs[r].panel \in 1..Panels /\ runs[r].sent \in Nat
      /\ runs[r].sent <= now /\ now <= runs[r].sent + CallLimit
      /\ Hardware!PanelIds = 1..Panels /\ Panels \in Nat \ {0} /\ CallLimit \in Nat \ {0}
      /\ PollEvery \in Nat
  BY RunFacts, HardwareFacts DEF Answers
<1>2. PICK n \in 1..Panels, s \in Nat : n = runs[r].panel /\ s = runs[r].sent
  BY <1>1
<1>3. \A q \in 1..Panels : shown'[q] = IF q = n THEN s ELSE shown[q]
  BY <1>1, <1>2, ClockFacts
<1>4. \A q \in RunIds : q # r => runs'[q] = runs[q]
  <2>1. CASE Ends(r)
    BY <2>1, ClockFacts DEF Ends
  <2>2. CASE GoesOn(r)
    <3>1. /\ n + 1 \in 1..Panels /\ runs[r].polled \in BOOLEAN
          /\ Hardware!Call(r, n + 1, runs[r].polled)
      BY <1>1, <1>2, <2>2, RunFacts DEF GoesOn
    <3> QED
      BY <3>1, CallFacts
  <2> QED
    BY <2>1, <2>2
<1>5. CASE Delivered(p, t)
  <2>1. t <= s + CallLimit
    BY <1>1, <1>2
  <2> QED
    BY <1>1, <1>2, <1>3, <1>5, <2>1 DEF Reaches, Delivered
<1>6. ASSUME NEW q \in RunIds, q # r, OnItsWay(q, p, t)
      PROVE  OnItsWay(q, p, t)'
  BY <1>4, <1>6 DEF OnItsWay
<1>7. CASE OnItsWay(r, p, t)
  <2>1. n <= p /\ t <= s /\ s < t + PollEvery + Calls(n - 1)
    BY <1>2, <1>7 DEF OnItsWay
  <2>2. CASE n = p
    <3>1. shown'[p] = s /\ t <= s + CallLimit
      BY <1>1, <1>3, <2>1, <2>2
    <3> QED
      BY <3>1 DEF Reaches, Delivered
  <2>3. CASE n < p
    <3>1. n + 1 \in 1..Panels /\ n + 1 <= p /\ n < Panels
      BY <1>1, <2>3
    <3>2. Hardware!Call(r, n + 1, runs[r].polled) /\ runs[r].polled \in BOOLEAN
      BY <1>1, <1>2, <3>1, RunFacts DEF GoesOn
    <3>3. runs'[r] # None /\ runs'[r].panel = n + 1 /\ runs'[r].sent = now
      BY <3>1, <3>2, CallFacts
    <3>4. now < t + PollEvery + Calls(n)
      <4>1. n - 1 \in Int /\ (n - 1) + 1 = n
        OBVIOUS
      <4>2. Calls(n - 1) \in Int /\ Calls((n - 1) + 1) = Calls(n - 1) + CallLimit
        BY <4>1, CallsProperties
      <4>3. PICK u \in Int : u = Calls(n - 1) /\ Calls(n) = u + CallLimit
        BY <4>1, <4>2
      <4>4. s < t + PollEvery + u /\ now <= s + CallLimit
        BY <1>1, <1>2, <2>1, <4>3
      <4>5. now < t + PollEvery + (u + CallLimit)
        BY <1>1, <4>4
      <4> QED
        BY <4>3, <4>5
    <3>5. OnItsWay(r, p, t)'
      <4>1. (n + 1) - 1 = n
        OBVIOUS
      <4> QED
        BY <3>1, <3>3, <3>4, <4>1 DEF OnItsWay
    <3> QED
      BY <3>5 DEF Reaches
  <2> QED
    BY <2>1, <2>2, <2>3
<1> QED
  BY <1>5, <1>6, <1>7 DEF Reaches

(* FreshInv is inductive: a poll follows up the moments since the last     *)
(* one, and an answer that fails begins anew.                              *)
LEMMA FreshInductive ==
    ASSUME ClockInv, FreshInv, [Hardware!Next]_(hardwareVars)
    PROVE  FreshInv'
<1>t. /\ now \in Nat /\ since \in Nat /\ since <= now /\ 1 \in 1..Panels
      /\ PollEvery \in Nat \ {0} /\ CallLimit \in Nat \ {0} /\ Hardware!PanelIds = 1..Panels
      /\ visible => pollingTimer \in Nat /\ pollingTimer <= PollEvery
      /\ None \notin Nat
  BY ClockFacts, HardwareFacts
<1>1. ASSUME NEW r \in RunIds, Opens(r) PROVE FreshInv'
  <2>1. \A t \in since' + 1 .. (now' + pollingTimer') - PollEvery : FALSE
    BY <1>1, <1>t DEF Opens
  <2> QED
    BY <2>1 DEF FreshInv
<1>2. ASSUME NEW r \in RunIds, Polls(r) PROVE FreshInv'
  <2>1. /\ runs[r] = None /\ pollingTimer = 0 /\ pollingTimer' = PollEvery /\ visible
        /\ UNCHANGED <<now, shown, since>>
    BY <1>2 DEF Polls
  <2>2. /\ runs'[r] # None /\ runs'[r].panel = 1 /\ runs'[r].sent = now
        /\ \A q \in RunIds : q # r => runs'[q] = runs[q]
    BY <1>2, <1>t, CallFacts DEF Polls
  <2> SUFFICES ASSUME NEW p \in 1..Panels, NEW t \in since + 1 .. now PROVE Reaches(p, t)'
    <3>1. (now' + pollingTimer') - PollEvery = now /\ since' + 1 = since + 1
      BY <1>t, <2>1
    <3> QED
      BY <1>t, <3>1 DEF FreshInv
  <2>3. CASE t <= (now + pollingTimer) - PollEvery
    <3>1. Reaches(p, t)
      BY <1>t, <2>1, <2>3 DEF FreshInv
    <3> QED
      BY <2>1, <2>2, <3>1 DEF Reaches, Delivered, OnItsWay
  <2>4. CASE ~(t <= (now + pollingTimer) - PollEvery)
    <3>1. now < t + PollEvery /\ t <= now
      BY <1>t, <2>1, <2>4
    <3>2. Calls(1 - 1) = 0
      BY CallsProperties
    <3>3. OnItsWay(r, p, t)'
      BY <1>t, <2>2, <3>1, <3>2 DEF OnItsWay
    <3> QED
      BY <3>3 DEF Reaches
  <2> QED
    BY <2>3, <2>4
<1>3. ASSUME NEW r \in RunIds, NEW reply \in {"figures", "error", "limited"}, Answers(r, reply),
             (Ends(r) /\ ~(visible /\ runs[r].panel < Panels)) \/ GoesOn(r)
      PROVE  FreshInv'
  <2> SUFFICES ASSUME visible', NEW p \in 1..Panels,
                      NEW t \in since' + 1 .. (now' + pollingTimer') - PollEvery
               PROVE  Reaches(p, t)'
    BY <1>t DEF FreshInv
  <2>1. UNCHANGED <<now, visible, pollingTimer>> /\ visible
    BY <1>3 DEF Answers
  <2>2. CASE reply = "figures"
    <3>1. since' = since
      BY <1>3, <2>2 DEF Answers
    <3>2. t \in Nat /\ t <= now /\ t \in since + 1 .. (now + pollingTimer) - PollEvery
      BY <1>t, <2>1, <3>1
    <3>3. Reaches(p, t)
      BY <1>t, <2>1, <3>2 DEF FreshInv
    <3> QED
      BY <1>3, <2>1, <2>2, <3>2, <3>3, ReachesAfterAnswer
  <2>3. CASE reply # "figures"
    <3>1. since' = now
      BY <1>3, <2>3 DEF Answers
    <3> QED
      BY <1>t, <2>1, <3>1
  <2> QED
    BY <2>2, <2>3
<1>4. CASE Leaves
  BY <1>4 DEF Leaves, FreshInv
<1>5. CASE Hardware!Tick
  <2>1. /\ now' = now + 1 /\ pollingTimer # 0 /\ UNCHANGED <<visible, runs, shown, since>>
        /\ pollingTimer' = IF pollingTimer = None THEN None ELSE pollingTimer - 1
    BY <1>5 DEF Hardware!Tick
  <2>2. visible => (now' + pollingTimer') - PollEvery = (now + pollingTimer) - PollEvery
    BY <1>t, <2>1
  <2> QED
    BY <2>1, <2>2 DEF FreshInv, Reaches, Delivered, OnItsWay
<1>6. CASE UNCHANGED hardwareVars
  BY <1>6 DEF hardwareVars, FreshInv, Reaches, Delivered, OnItsWay
<1> QED
  BY <1>1, <1>2, <1>3, <1>4, <1>5, <1>6, HardwareStep

(* At the end of the time a panel is given, the poll has reached it.       *)
LEMMA FreshMeansFresh ==
    ASSUME ClockInv, FreshInv
    PROVE  PanelsAreFresh
<1>t. /\ now \in Nat /\ since \in Nat /\ since <= now
      /\ PollEvery \in Nat \ {0} /\ CallLimit \in Nat \ {0} /\ Hardware!PanelIds = 1..Panels
      /\ visible => pollingTimer \in Nat
  BY ClockFacts, HardwareFacts
<1> SUFFICES ASSUME NEW p \in 1..Panels, visible, now - since > p * CallLimit + PollEvery
             PROVE  shown[p] \in Nat /\ now - shown[p] <= 2 * p * CallLimit + PollEvery
  BY <1>t DEF PanelsAreFresh, Hardware!PanelsAreFresh
<1>1. PICK c \in Int : c = Calls(p) /\ c = p * CallLimit /\ 2 * p * CallLimit = 2 * c
  BY <1>t DEF Calls
<1>2. c >= CallLimit
  <2>1. 1 \in Int /\ p \in Int /\ 1 <= p
    OBVIOUS
  <2>2. Calls(1) <= Calls(p)
    BY <2>1, CallsMonotone
  <2>3. Calls(1) = CallLimit
    BY <2>1, CallsProperties
  <2> QED
    BY <1>1, <2>2, <2>3
<1>3. PICK t \in Int : t = (now - c) - PollEvery
  BY <1>t
<1>4. t > since /\ t <= (now + pollingTimer) - PollEvery
  BY <1>t, <1>1, <1>2, <1>3
<1>5. t \in since + 1 .. (now + pollingTimer) - PollEvery
  BY <1>t, <1>4
<1>6. Reaches(p, t)
  BY <1>t, <1>5 DEF FreshInv
<1>7. ASSUME NEW r \in RunIds, OnItsWay(r, p, t)
      PROVE  FALSE
  <2>1. /\ runs[r] # None /\ runs[r].panel <= p
        /\ runs[r].sent < t + PollEvery + Calls(runs[r].panel - 1)
    BY <1>7 DEF OnItsWay
  <2>2. PICK n \in 1..Panels, s \in Nat :
            n = runs[r].panel /\ s = runs[r].sent /\ now <= s + CallLimit
    BY <2>1, RunFacts
  <2>3. n - 1 \in Int /\ p - 1 \in Int /\ n - 1 <= p - 1 /\ (p - 1) + 1 = p
    BY <2>1, <2>2
  <2>4. Calls(n - 1) \in Int /\ Calls(p - 1) \in Int /\ Calls(n - 1) <= Calls(p - 1)
    BY <2>3, CallsMonotone, CallsProperties
  <2>5. c = Calls(p - 1) + CallLimit
    <3>1. Calls((p - 1) + 1) = Calls(p - 1) + CallLimit
      BY <2>3, CallsProperties
    <3> QED
      BY <1>1, <2>3, <3>1
  <2>6. PICK u, w \in Int : u = Calls(n - 1) /\ w = Calls(p - 1)
    BY <2>4
  <2>7. s < t + PollEvery + u /\ u <= w /\ c = w + CallLimit /\ now <= s + CallLimit
    BY <2>1, <2>2, <2>4, <2>5, <2>6
  <2> QED
    BY <1>t, <1>3, <2>7
<1>8. shown[p] \in Nat /\ t <= shown[p] + CallLimit
  BY <1>6, <1>7 DEF Reaches, Delivered
<1>9. PICK x \in Nat : x = shown[p] /\ t <= x + CallLimit
  BY <1>8
<1>10. now - x <= 2 * c + PollEvery
  BY <1>t, <1>2, <1>3, <1>9
<1> QED
  BY <1>1, <1>9, <1>10

-----------------------------------------------------------------------------
(* The hardware dashboard: its calls against its bucket.                   *)

(* What n runs ask for.                                                    *)
Batches(n) == n * Panels

(* The calls that the runs under way may still make.                       *)
Ahead == {c \in RunIds \X (1..Panels) : runs[c[1]] # None /\ runs[c[1]].panel < c[2]}

(* The runs under way that no poll started.                                *)
Viewed == {r \in RunIds : runs[r] # None /\ ~runs[r].polled}

(* Each of them has its view of the page, and no more polls are under way  *)
(* than ever were.                                                         *)
CountInv ==
    /\ Cardinality(Viewed) <= openings
    /\ Cardinality(Hardware!PolledRuns) <= pile

(* The tokens that a poll may yet ask for before the next one.             *)
Slack == IF visible /\ pollingTimer < Panels THEN pollingTimer ELSE Panels

(* The calls ahead are finitely many, and those of so many runs.           *)
Within == IsFiniteSet(Ahead) /\ Cardinality(Ahead) <= Batches(openings + pile)

(* What is missing from the bucket and what may yet be asked for.          *)
DebtInv ==
    /\ (Burst - tokens) + Cardinality(Ahead) <= Batches(openings + pile) + Slack
    /\ PollingIsNotLimited

(* Batches, without its product.                                           *)
LEMMA BatchesProperties ==
    ASSUME NEW n \in Nat
    PROVE  Batches(n) \in Nat /\ Batches(n + 1) = Batches(n) + Panels /\ Panels \in Nat \ {0}
  BY HardwareFacts DEF Batches

(* More runs ask for more.                                                 *)
LEMMA BatchesMonotone ==
    ASSUME NEW m \in Nat, NEW n \in Nat, m <= n
    PROVE  Batches(m) <= Batches(n)
<1>1. PICK d \in Nat : n = m + d
  <2>1. n - m \in Nat /\ n = m + (n - m)
    OBVIOUS
  <2> QED
    BY <2>1
<1>2. d * Panels \in Nat /\ m * Panels \in Nat
  BY HardwareFacts
<1>3. (m + d) * Panels = m * Panels + d * Panels
  BY HardwareFacts
<1> QED
  BY <1>1, <1>2, <1>3 DEF Batches

(* The runs under way are sets of run numbers.                             *)
LEMMA RunSets ==
    /\ Viewed \in SUBSET RunIds /\ Hardware!PolledRuns \in SUBSET RunIds
    /\ IsFiniteSet(Viewed) /\ Cardinality(Viewed) \in Nat
    /\ IsFiniteSet(Hardware!PolledRuns) /\ Cardinality(Hardware!PolledRuns) \in Nat
    /\ Viewed' \in SUBSET RunIds /\ Hardware!PolledRuns' \in SUBSET RunIds
    /\ IsFiniteSet(Viewed') /\ Cardinality(Viewed') \in Nat
    /\ IsFiniteSet(Hardware!PolledRuns') /\ Cardinality(Hardware!PolledRuns') \in Nat
<1>1. /\ Viewed \in SUBSET RunIds /\ Hardware!PolledRuns \in SUBSET RunIds
      /\ Viewed' \in SUBSET RunIds /\ Hardware!PolledRuns' \in SUBSET RunIds
  BY DEF Viewed, Hardware!PolledRuns
<1> QED
  BY <1>1, RunsAreFinite

(* The calls ahead are those of the runs under way.                        *)
LEMMA AheadIsBounded == ClockInv /\ CountInv => Within
<1> SUFFICES ASSUME ClockInv, CountInv PROVE Within
  OBVIOUS
<1>t. openings \in Nat /\ pile \in Nat /\ Panels \in Nat \ {0}
  BY ClockFacts, HardwareFacts
<1>1. PICK V, W \in SUBSET RunIds : V = Viewed /\ W = Hardware!PolledRuns
  BY RunSets
<1>2. /\ IsFiniteSet(V) /\ IsFiniteSet(W)
      /\ Cardinality(V) \in Nat /\ Cardinality(W) \in Nat
      /\ Cardinality(V) <= openings /\ Cardinality(W) <= pile
  BY <1>1, RunSets DEF CountInv
<1>3. /\ IsFiniteSet(V \cup W) /\ IsFiniteSet(V \cap W)
      /\ Cardinality(V \cup W) = Cardinality(V) + Cardinality(W) - Cardinality(V \cap W)
  BY <1>2, FS_Union, FS_Intersection
<1>4. Cardinality(V \cap W) \in Nat /\ Cardinality(V \cup W) \in Nat
  BY <1>3, FS_CardinalityType
<1>5. Cardinality(V \cup W) <= openings + pile
  BY <1>t, <1>2, <1>3, <1>4
<1>6. IsFiniteSet(1..Panels) /\ Cardinality(1..Panels) = Panels
  BY <1>t, FS_Interval
<1>7. /\ IsFiniteSet((V \cup W) \X (1..Panels))
      /\ Cardinality((V \cup W) \X (1..Panels)) = Batches(Cardinality(V \cup W))
  BY <1>3, <1>6, FS_Product DEF Batches
<1>8. Batches(Cardinality(V \cup W)) <= Batches(openings + pile)
  <2>1. openings + pile \in Nat
    BY <1>t
  <2> QED
    BY <1>4, <1>5, <2>1, BatchesMonotone
<1>9. Ahead \subseteq (V \cup W) \X (1..Panels)
  <2>1. \A r \in RunIds : runs[r] # None => r \in V \cup W
    BY <1>1 DEF Viewed, Hardware!PolledRuns
  <2> QED
    BY <2>1 DEF Ahead
<1>10. IsFiniteSet(Ahead) /\ Cardinality(Ahead) <= Cardinality((V \cup W) \X (1..Panels))
  BY <1>7, <1>9, FS_Subset
<1>11. Cardinality(Ahead) \in Nat
  BY <1>10, FS_CardinalityType
<1>12. Batches(openings + pile) \in Nat /\ Batches(Cardinality(V \cup W)) \in Nat
  BY <1>t, <1>4, BatchesProperties
<1> QED
  BY <1>7, <1>8, <1>10, <1>11, <1>12 DEF Within

(* CountInv is inductive.                                                  *)
LEMMA CountInductive ==
    ASSUME ClockInv, CountInv, [Hardware!Next]_(hardwareVars)
    PROVE  CountInv'
<1>t. /\ openings \in Nat /\ pile \in Nat /\ 1 \in 1..Panels
      /\ Cardinality(Viewed) <= openings /\ Cardinality(Hardware!PolledRuns) <= pile
  BY ClockFacts, HardwareFacts DEF CountInv
<1>s. /\ IsFiniteSet(Viewed) /\ IsFiniteSet(Hardware!PolledRuns)
      /\ Cardinality(Viewed) \in Nat /\ Cardinality(Hardware!PolledRuns) \in Nat
      /\ Cardinality(Viewed') \in Nat /\ Cardinality(Hardware!PolledRuns') \in Nat
  BY RunSets
(* It is enough that no run is new.                                        *)
<1>a. ASSUME openings' = openings, pile' = pile,
             \A r \in RunIds : runs'[r] # None => runs[r] # None /\ runs'[r].polled = runs[r].polled
      PROVE  CountInv'
  <2>1. Viewed' \subseteq Viewed /\ Hardware!PolledRuns' \subseteq Hardware!PolledRuns
    BY <1>a DEF Viewed, Hardware!PolledRuns
  <2>2. /\ Cardinality(Viewed') <= Cardinality(Viewed)
        /\ Cardinality(Hardware!PolledRuns') <= Cardinality(Hardware!PolledRuns)
    BY <1>s, <2>1, FS_Subset
  <2> QED
    BY <1>a, <1>s, <1>t, <2>2 DEF CountInv
<1>1. ASSUME NEW r \in RunIds, Opens(r) PROVE CountInv'
  <2>1. /\ runs[r] = None /\ runs'[r] # None /\ ~runs'[r].polled
        /\ \A q \in RunIds : q # r => runs'[q] = runs[q]
        /\ openings' = openings + 1 /\ pile' = pile
    BY <1>1, <1>t, CallFacts DEF Opens
  <2>2. Viewed' = Viewed \cup {r} /\ r \notin Viewed
        /\ Hardware!PolledRuns' = Hardware!PolledRuns
    BY <2>1 DEF Viewed, Hardware!PolledRuns
  <2>3. Cardinality(Viewed') = Cardinality(Viewed) + 1
    BY <1>s, <2>2, FS_AddElement
  <2> QED
    BY <1>s, <1>t, <2>1, <2>2, <2>3 DEF CountInv
<1>2. ASSUME NEW r \in RunIds, Polls(r) PROVE CountInv'
  <2>1. /\ runs[r] = None /\ runs'[r] # None /\ runs'[r].polled
        /\ \A q \in RunIds : q # r => runs'[q] = runs[q]
        /\ openings' = openings
    BY <1>2, <1>t, CallFacts DEF Polls
  <2>2. Viewed' = Viewed
    BY <2>1 DEF Viewed
  <2>3. Hardware!Cardinality(Hardware!PolledRuns') = Cardinality(Hardware!PolledRuns')
    BY RunsAreFinite
  <2>4. Cardinality(Hardware!PolledRuns') <= pile'
    BY <1>2, <1>s, <1>t, <2>3 DEF Polls
  <2> QED
    BY <1>t, <2>1, <2>2, <2>4 DEF CountInv
<1>3. ASSUME NEW r \in RunIds, NEW reply \in {"figures", "error", "limited"}, Answers(r, reply),
             Ends(r) \/ GoesOn(r)
      PROVE  CountInv'
  <2>1. openings' = openings /\ pile' = pile /\ runs[r] # None
    BY <1>3 DEF Answers
  <2>2. /\ \A q \in RunIds : q # r => runs'[q] = runs[q]
        /\ runs'[r] # None => runs'[r].polled = runs[r].polled
    <3>1. CASE Ends(r)
      BY <3>1, ClockFacts DEF Ends
    <3>2. CASE GoesOn(r)
      <4>1. /\ runs[r].panel + 1 \in 1..Panels /\ runs[r].polled \in BOOLEAN
            /\ Hardware!Call(r, runs[r].panel + 1, runs[r].polled)
        BY <2>1, <3>2, RunFacts, HardwareFacts DEF GoesOn
      <4> QED
        BY <4>1, CallFacts
    <3> QED
      BY <1>3, <3>1, <3>2
  <2> QED
    BY <1>a, <2>1, <2>2
<1>4. CASE Leaves \/ Hardware!Tick \/ UNCHANGED hardwareVars
  <2>1. openings' = openings /\ pile' = pile
    BY <1>4 DEF Leaves, Hardware!Tick, hardwareVars
  <2>2. \A q \in RunIds : runs'[q] = runs[q] \/ runs'[q] = None
    BY <1>4 DEF Leaves, Hardware!Tick, hardwareVars, Hardware!Idle
  <2> QED
    BY <1>a, <2>1, <2>2
<1> QED
  BY <1>1, <1>2, <1>3, <1>4, HardwareStep

(* The calls ahead after a call of run r: those of a new run, or one less. *)
LEMMA AheadAfterCall ==
    ASSUME ClockInv, Within, NEW r \in RunIds, NEW p \in 1..Panels,
           NEW polled \in BOOLEAN, Hardware!Call(r, p, polled)
    PROVE  /\ runs[r] = None /\ p = 1 =>
                 /\ Cardinality(Ahead') \in Nat
                 /\ Cardinality(Ahead') <= Cardinality(Ahead) + (Panels - 1)
           /\ runs[r] # None /\ runs[r].panel + 1 = p =>
                 /\ Cardinality(Ahead') \in Nat /\ Cardinality(Ahead') = Cardinality(Ahead) - 1
                 /\ Cardinality(Ahead) >= 1
<1>t. Panels \in Nat \ {0} /\ IsFiniteSet(Ahead) /\ Cardinality(Ahead) \in Nat
  BY HardwareFacts, FS_CardinalityType DEF Within
<1>1. /\ runs'[r] # None /\ runs'[r].panel = p
      /\ \A q \in RunIds : q # r => runs'[q] = runs[q]
  BY CallFacts
<1>2. ASSUME runs[r] = None, p = 1
      PROVE  Cardinality(Ahead') \in Nat /\ Cardinality(Ahead') <= Cardinality(Ahead) + (Panels - 1)
  <2> DEFINE New == {r} \X (2..Panels)
  <2>1. Ahead' \subseteq Ahead \cup New
    <3>1. ASSUME NEW q \in RunIds, NEW x \in 1..Panels, runs'[q] # None, runs'[q].panel < x
          PROVE  (runs[q] # None /\ runs[q].panel < x) \/ (q = r /\ x \in 2..Panels)
      BY <1>1, <1>2, <3>1
    <3> QED
      BY <3>1 DEF Ahead
  <2>2. IsFiniteSet(New) /\ Cardinality(New) = Panels - 1
    <3>1. 2 \in Int /\ Panels \in Int /\ Panels >= 1
      BY <1>t
    <3>2. IsFiniteSet(2..Panels) /\ Cardinality(2..Panels) = Panels - 1
      <4>1. /\ IsFiniteSet(2..Panels)
            /\ Cardinality(2..Panels) = IF 2 > Panels THEN 0 ELSE Panels - 2 + 1
        BY ONLY <3>1, FS_Interval
      <4> QED
        BY <3>1, <4>1
    <3>3. IsFiniteSet({r}) /\ Cardinality({r}) = 1
      BY FS_Singleton
    <3>4. IsFiniteSet(New) /\ Cardinality(New) = Cardinality({r}) * Cardinality(2..Panels)
      BY <3>2, <3>3, FS_Product
    <3>5. 1 * (Panels - 1) = Panels - 1
      BY <3>1
    <3> QED
      BY <3>2, <3>3, <3>4, <3>5
  <2>3. /\ IsFiniteSet(Ahead \cup New) /\ IsFiniteSet(Ahead \cap New)
        /\ Cardinality(Ahead \cup New) =
              Cardinality(Ahead) + Cardinality(New) - Cardinality(Ahead \cap New)
    BY <1>t, <2>2, FS_Union, FS_Intersection
  <2>4. Cardinality(Ahead \cap New) \in Nat
    BY <2>3, FS_CardinalityType
  <2>5. IsFiniteSet(Ahead') /\ Cardinality(Ahead') \in Nat
        /\ Cardinality(Ahead') <= Cardinality(Ahead \cup New)
    BY <2>1, <2>3, FS_Subset, FS_CardinalityType
  <2>6. PICK a, b, c, d \in Int :
            /\ a = Cardinality(Ahead') /\ b = Cardinality(Ahead \cup New)
            /\ c = Cardinality(Ahead) /\ d = Cardinality(Ahead \cap New) /\ d >= 0
    BY <1>t, <2>2, <2>3, <2>4, <2>5
  <2>7. a <= c + (Panels - 1)
    <3>1. b = c + (Panels - 1) - d /\ a <= b
      BY <2>2, <2>3, <2>5, <2>6
    <3> QED
      BY <1>t, <2>6, <3>1
  <2> QED
    BY <2>5, <2>6, <2>7
<1>3. ASSUME runs[r] # None, runs[r].panel + 1 = p
      PROVE  /\ Cardinality(Ahead') \in Nat /\ Cardinality(Ahead') = Cardinality(Ahead) - 1
             /\ Cardinality(Ahead) >= 1
  <2>0. PICK n \in 1..Panels : n = runs[r].panel /\ n + 1 = p
    BY <1>3, RunFacts
  <2>1. \A q \in RunIds : \A x \in 1..Panels :
           (runs'[q] # None /\ runs'[q].panel < x)
              <=> (runs[q] # None /\ runs[q].panel < x /\ <<q, x>> # <<r, p>>)
    <3>1. ASSUME NEW x \in 1..Panels
          PROVE  (p < x) <=> (n < x /\ x # p)
      BY <2>0
    <3> QED
      BY <1>1, <1>3, <2>0, <3>1
  <2>2. Ahead' = Ahead \ {<<r, p>>}
    BY <2>1 DEF Ahead
  <2>3. <<r, p>> \in Ahead
    BY <1>3, <2>0 DEF Ahead
  <2>4. IsFiniteSet(Ahead') /\ Cardinality(Ahead') = Cardinality(Ahead) - 1
    BY <1>t, <2>2, <2>3, FS_RemoveElement
  <2>5. Cardinality(Ahead') \in Nat
    BY <2>4, FS_CardinalityType
  <2> QED
    BY <1>t, <2>4, <2>5
<1> QED
  BY <1>2, <1>3

(* What a call costs, or that the bucket is found empty.                   *)
LEMMA CallCosts ==
    ASSUME ClockInv, NEW r \in RunIds, NEW p \in 1..Panels, NEW polled \in BOOLEAN,
           Hardware!Call(r, p, polled)
    PROVE  /\ tokens' \in Nat /\ tokens' <= Burst /\ tokens' + 1 >= tokens
           /\ refused' => refused \/ tokens = 0
  BY CallFacts, ClockFacts, HardwareFacts

(* The bound of DebtInv, and the property that follows from it.            *)
LEMMA EmptyMeansOpened ==
    ASSUME NEW o \in Nat, NEW b \in Nat, b < Batches(o) + Panels
    PROVE  (o + 1) * Panels > b
<1>1. Batches(o + 1) = Batches(o) + Panels
  BY BatchesProperties
<1>2. Batches(o + 1) = (o + 1) * Panels
  BY DEF Batches
<1> QED
  BY <1>1, <1>2

(* DebtInv is inductive.                                                   *)
LEMMA DebtInductive ==
    ASSUME ClockInv, Within, Within', DebtInv, [Hardware!Next]_(hardwareVars)
    PROVE  DebtInv'
<1>m. PICK m \in Nat : m = openings + pile
  BY ClockFacts
<1>t. /\ openings \in Nat /\ pile \in Nat /\ 1 \in 1..Panels /\ Panels \in Nat \ {0}
      /\ Burst \in Nat /\ PollEvery \in Nat \ {0} /\ Panels <= PollEvery
      /\ tokens \in Nat /\ tokens <= Burst
      /\ visible => pollingTimer \in Nat /\ pollingTimer <= PollEvery
      /\ None \notin Nat
      /\ Cardinality(Ahead) \in Nat /\ Cardinality(Ahead') \in Nat
      /\ Batches(m) \in Nat /\ Batches(m + 1) = Batches(m) + Panels
  <2>1. Cardinality(Ahead) \in Nat /\ Cardinality(Ahead') \in Nat
    BY FS_CardinalityType DEF Within
  <2>2. Batches(m) \in Nat /\ Batches(m + 1) = Batches(m) + Panels
    BY BatchesProperties
  <2>3. /\ openings \in Nat /\ pile \in Nat /\ tokens \in Nat /\ tokens <= Burst
        /\ visible => pollingTimer \in Nat /\ pollingTimer <= PollEvery
    BY ClockFacts
  <2>4. /\ 1 \in 1..Panels /\ Panels \in Nat \ {0} /\ Burst \in Nat
        /\ PollEvery \in Nat \ {0} /\ Panels <= PollEvery /\ None \notin Nat
    BY HardwareFacts
  <2> QED
    BY <2>1, <2>2, <2>3, <2>4
<1>s. /\ Slack \in Nat /\ Slack <= Panels
      /\ ~visible => Slack = Panels
      /\ visible /\ pollingTimer = 0 => Slack = 0
  BY <1>t DEF Slack
<1>p. PICK a, k, b, s \in Nat : /\ a = Cardinality(Ahead) /\ k = tokens /\ b = Batches(m)
                                /\ s = Slack
  BY <1>t, <1>s
<1>d. (Burst - k) + a <= b + s /\ (refused => (m + 1) * Panels > Burst)
  BY <1>m, <1>p DEF DebtInv, PollingIsNotLimited, Hardware!PollingIsNotLimited
<1>e. (Burst - k) + a <= b + s
  BY <1>d
<1>n. Burst \in Nat /\ Panels \in Nat \ {0}
  BY <1>t
<1>q. ASSUME NEW n \in Nat, n >= m, (m + 1) * Panels > Burst
      PROVE  (n + 1) * Panels > Burst
  <2>1. Batches(m + 1) <= Batches(n + 1)
    BY <1>q, BatchesMonotone
  <2>2. Batches(m + 1) \in Nat /\ Batches(n + 1) \in Nat
    BY BatchesProperties
  <2> QED
    BY <1>t, <1>q, <2>1, <2>2 DEF Batches
<1>1. ASSUME NEW r \in RunIds, Opens(r) PROVE DebtInv'
  <2>0. openings' = openings + 1 /\ pile' = pile
    BY <1>1 DEF Opens
  <2>01. openings' + pile' = m + 1
    BY <1>m, <1>t, <2>0
  <2>1. /\ runs[r] = None /\ Hardware!Call(r, 1, FALSE)
        /\ ~visible /\ visible' /\ pollingTimer' = PollEvery
    BY <1>1 DEF Opens
  <2>2. PICK c, l \in Nat : c = Cardinality(Ahead') /\ c <= a + (Panels - 1)
                            /\ l = tokens' /\ l <= Burst /\ l + 1 >= k
    <3>1. Cardinality(Ahead') <= Cardinality(Ahead) + (Panels - 1)
      BY <1>t, <2>1, AheadAfterCall
    <3>2. tokens' \in Nat /\ tokens' <= Burst /\ tokens' + 1 >= tokens
      BY <1>t, <2>1, CallCosts
    <3> QED
      BY <1>t, <1>p, <3>1, <3>2
  <2>3. Slack' = Panels /\ s = Panels
    BY <1>t, <1>s, <1>p, <2>1 DEF Slack
  <2>4. (Burst - l) + c <= (b + Panels) + Panels
    <3>1. c <= a + (Panels - 1) /\ l + 1 >= k /\ s = Panels
      BY <2>2, <2>3
    <3> QED
      BY ONLY <1>n, <1>e, <3>1, a \in Nat, b \in Nat, k \in Nat, s \in Nat, c \in Nat, l \in Nat
  <2>5. refused' => ((m + 1) + 1) * Panels > Burst
    <3>1. CASE tokens = 0
      <4>1. Burst < Batches(m + 1) + Panels
        BY <1>t, <1>p, <1>d, <2>3, <3>1
      <4> QED
        BY <1>t, <4>1, EmptyMeansOpened
    <3>2. CASE refused
      BY <1>d, <1>q, <3>2
    <3> QED
      BY <1>t, <2>1, <3>1, <3>2, CallCosts
  <2> QED
    BY <1>t, <1>p, <2>01, <2>1, <2>2, <2>3, <2>4, <2>5
       DEF DebtInv, PollingIsNotLimited, Hardware!PollingIsNotLimited
<1>2. ASSUME NEW r \in RunIds, Polls(r) PROVE DebtInv'
  <2>0. PICK n \in Nat : n = openings' + pile' /\ n >= m
    <3>1. pile' \in Nat /\ pile' >= pile /\ openings' = openings
      <4>1. Hardware!Cardinality(Hardware!PolledRuns') \in Nat
        BY RunSets, RunsAreFinite
      <4> QED
        BY <1>2, <1>t, <4>1 DEF Polls
    <3>2. PICK o, x, y \in Nat : o = openings /\ x = pile /\ y = pile' /\ y >= x
      BY <1>t, <3>1
    <3>3. y >= x
      BY <3>2
    <3>4. o + y \in Nat /\ o + y >= o + x
      BY ONLY <3>3, o \in Nat, x \in Nat, y \in Nat
    <3> QED
      BY <1>m, <3>1, <3>2, <3>4
  <2>01. PICK e \in Nat : e = Batches(n) /\ e >= b
    <3>1. Batches(m) <= Batches(n)
      BY <2>0, BatchesMonotone
    <3> QED
      BY <1>p, <3>1, BatchesProperties
  <2>1. /\ runs[r] = None /\ Hardware!Call(r, 1, TRUE) /\ visible
        /\ visible' = visible /\ pollingTimer = 0 /\ pollingTimer' = PollEvery
    BY <1>2 DEF Polls
  <2>2. PICK c, l \in Nat : c = Cardinality(Ahead') /\ c <= a + (Panels - 1)
                            /\ l = tokens' /\ l <= Burst /\ l + 1 >= k
    <3>1. Cardinality(Ahead') <= Cardinality(Ahead) + (Panels - 1)
      BY <1>t, <2>1, AheadAfterCall
    <3>2. tokens' \in Nat /\ tokens' <= Burst /\ tokens' + 1 >= tokens
      BY <1>t, <2>1, CallCosts
    <3> QED
      BY <1>t, <1>p, <3>1, <3>2
  <2>3. Slack' = Panels /\ s = 0
    BY <1>t, <1>s, <1>p, <2>1 DEF Slack
  <2>4. (Burst - l) + c <= e + Panels
    <3>1. c <= a + (Panels - 1) /\ l + 1 >= k /\ s = 0 /\ e >= b
      BY <2>01, <2>2, <2>3
    <3> QED
      BY ONLY <1>n, <1>e, <3>1, a \in Nat, b \in Nat, e \in Nat, k \in Nat, s \in Nat,
              c \in Nat, l \in Nat
  <2>5. refused' => (n + 1) * Panels > Burst
    <3>1. CASE tokens = 0
      <4>1. Burst < Batches(n) + Panels
        BY <1>t, <1>p, <1>d, <2>01, <2>3, <3>1
      <4> QED
        BY <1>t, <4>1, EmptyMeansOpened
    <3>2. CASE refused
      BY <1>d, <1>q, <2>0, <3>2
    <3> QED
      BY <1>t, <2>1, <3>1, <3>2, CallCosts
  <2> QED
    BY <1>t, <1>p, <2>0, <2>01, <2>1, <2>2, <2>3, <2>4, <2>5
       DEF DebtInv, PollingIsNotLimited, Hardware!PollingIsNotLimited
<1>3. ASSUME NEW r \in RunIds, NEW reply \in {"figures", "error", "limited"}, Answers(r, reply),
             GoesOn(r)
      PROVE  DebtInv'
  <2>1. PICK p \in 1..Panels, polled \in BOOLEAN :
            runs[r].panel + 1 = p /\ Hardware!Call(r, p, polled)
    BY <1>3, <1>t, RunFacts DEF Answers, GoesOn
  <2>2. UNCHANGED <<openings, pile, visible, pollingTimer>> /\ runs[r] # None
    BY <1>3 DEF Answers
  <2>3. PICK c, l \in Nat : c = Cardinality(Ahead') /\ c = a - 1 /\ a >= 1
                            /\ l = tokens' /\ l <= Burst /\ l + 1 >= k
    <3>1. Cardinality(Ahead') = Cardinality(Ahead) - 1 /\ Cardinality(Ahead) >= 1
      BY <2>1, <2>2, AheadAfterCall
    <3>2. tokens' \in Nat /\ tokens' <= Burst /\ tokens' + 1 >= tokens
      BY <2>1, CallCosts
    <3> QED
      BY <1>t, <1>p, <3>1, <3>2
  <2>4. Slack' = s
    BY <1>p, <2>2 DEF Slack
  <2>5. (Burst - l) + c <= b + s
    <3>1. c = a - 1 /\ l + 1 >= k
      BY <2>3
    <3> QED
      BY ONLY <1>n, <1>e, <3>1, a \in Nat, b \in Nat, k \in Nat, s \in Nat, c \in Nat, l \in Nat
  <2>6. refused' => (m + 1) * Panels > Burst
    <3>1. CASE tokens = 0
      <4>1. Burst < Batches(m) + Panels
        BY <1>t, <1>s, <1>p, <1>d, <2>3, <3>1
      <4> QED
        BY <1>t, <4>1, EmptyMeansOpened
    <3> QED
      BY <1>d, <2>1, <3>1, CallCosts
  <2> QED
    BY <1>m, <1>t, <1>p, <2>2, <2>3, <2>4, <2>5, <2>6
       DEF DebtInv, PollingIsNotLimited, Hardware!PollingIsNotLimited
(* Steps without a call, in which no time passes.                          *)
<1>4. ASSUME UNCHANGED <<tokens, openings, pile, refused>>, Slack' >= Slack, Slack' \in Nat,
             \A r \in RunIds : runs'[r] = runs[r] \/ runs'[r] = None
      PROVE  DebtInv'
  <2>1. Ahead' \subseteq Ahead
    BY <1>4 DEF Ahead
  <2>2. Cardinality(Ahead') <= Cardinality(Ahead)
    BY <2>1, FS_Subset DEF Within
  <2>3. PICK c, z \in Nat : c = Cardinality(Ahead') /\ c <= a /\ z = Slack' /\ z >= s
    BY <1>t, <1>p, <1>4, <2>2
  <2>4. (Burst - k) + c <= b + z
    BY <1>t, <1>d, <2>3
  <2> QED
    BY <1>d, <1>m, <1>p, <1>4, <2>3, <2>4
       DEF DebtInv, PollingIsNotLimited, Hardware!PollingIsNotLimited
<1>5. ASSUME NEW r \in RunIds, NEW reply \in {"figures", "error", "limited"}, Answers(r, reply),
             Ends(r)
      PROVE  DebtInv'
  <2>1. Slack' = Slack /\ UNCHANGED <<tokens, openings, pile, refused>>
    BY <1>5 DEF Answers, Ends, Slack
  <2>2. \A q \in RunIds : runs'[q] = runs[q] \/ runs'[q] = None
    BY <1>5, ClockFacts DEF Ends
  <2> QED
    BY <1>s, <1>4, <2>1, <2>2
<1>6. CASE Leaves
  <2>1. Slack' = Panels /\ UNCHANGED <<tokens, openings, pile, refused>>
    BY <1>6 DEF Leaves, Slack
  <2>2. \A q \in RunIds : runs'[q] = runs[q] \/ runs'[q] = None
    BY <1>6 DEF Leaves, Hardware!Idle
  <2> QED
    BY <1>t, <1>s, <1>4, <2>1, <2>2
<1>7. CASE Hardware!Tick
  <2>1. UNCHANGED <<visible, runs, openings, pile, refused>> /\ pollingTimer # 0
        /\ pollingTimer' = (IF pollingTimer = None THEN None ELSE pollingTimer - 1)
        /\ tokens' = IF tokens < Burst THEN tokens + 1 ELSE tokens
    BY <1>7 DEF Hardware!Tick, Hardware!Refilled
  <2>2. Ahead' = Ahead
    BY <2>1 DEF Ahead
  <2>3. PICK z \in Nat : z = Slack' /\ z + 1 >= s
    BY <1>t, <1>p, <2>1 DEF Slack
  <2>4. CASE k < Burst
    <3>1. tokens' = k + 1
      BY <1>p, <2>1, <2>4
    <3>2. (Burst - (k + 1)) + a <= b + z
      <4>1. z + 1 >= s
        BY <2>3
      <4> QED
        BY ONLY <1>n, <1>e, <4>1, a \in Nat, b \in Nat, k \in Nat, s \in Nat, z \in Nat
    <3> QED
      BY <1>d, <1>m, <1>p, <2>1, <2>2, <2>3, <3>1, <3>2
         DEF DebtInv, PollingIsNotLimited, Hardware!PollingIsNotLimited
  <2>5. CASE k = Burst
    <3>1. tokens' = Burst
      BY <1>p, <1>t, <2>1, <2>5
    <3>2. a <= b + z
      BY <1>m, <1>t, <1>p, <2>1, <2>2, <2>3 DEF Within
    <3>3. (Burst - Burst) + a <= b + z
      BY <1>t, <3>2
    <3> QED
      BY <1>d, <1>m, <1>p, <2>1, <2>2, <2>3, <3>1, <3>3
         DEF DebtInv, PollingIsNotLimited, Hardware!PollingIsNotLimited
  <2> QED
    BY <1>t, <1>p, <2>4, <2>5
<1>8. CASE UNCHANGED hardwareVars
  BY <1>s, <1>4, <1>8 DEF hardwareVars, Slack
<1> QED
  BY <1>1, <1>2, <1>3, <1>5, <1>6, <1>7, <1>8, HardwareStep

(* All of it holds before the page is loaded.                              *)
LEMMA HardwareInitial ==
    ASSUME Hardware!Init
    PROVE  ClockInv /\ FreshInv /\ CountInv /\ DebtInv
<1>t. /\ Panels \in Nat \ {0} /\ PollEvery \in Nat /\ Burst \in Nat /\ MaxTime \in Nat
      /\ MaxOpenings \in Nat /\ 0 \in 0..MaxTime /\ 0 \in 0..MaxOpenings /\ Burst \in 0..Burst
  BY HardwareFacts
<1>1. \A r \in RunIds : runs[r] = None
  BY DEF Hardware!Init, Hardware!Idle
<1>2. Hardware!TypeOK
  BY <1>t DEF Hardware!Init, Hardware!TypeOK, Hardware!Idle
<1>3. ClockInv
  BY <1>t, <1>1, <1>2 DEF Hardware!Init, ClockInv
<1>4. FreshInv
  BY DEF Hardware!Init, FreshInv
<1>5. CountInv
  <2>1. Viewed = {} /\ Hardware!PolledRuns = {}
    BY <1>1 DEF Viewed, Hardware!PolledRuns
  <2> QED
    BY <2>1, FS_EmptySet DEF Hardware!Init, CountInv
<1>6. DebtInv
  <2>1. Ahead = {}
    BY <1>1 DEF Ahead
  <2>2. Cardinality(Ahead) = 0 /\ tokens = Burst /\ ~refused
        /\ openings = 0 /\ pile = 0 /\ Slack = Panels
    BY <2>1, FS_EmptySet DEF Hardware!Init, Slack
  <2>3. Batches(0) = 0
    BY <1>t DEF Batches
  <2> QED
    BY <1>t, <2>2, <2>3 DEF DebtInv, PollingIsNotLimited, Hardware!PollingIsNotLimited
<1> QED
  BY <1>3, <1>4, <1>5, <1>6

(* A dashboard in view whose calls are answered shows figures of every     *)
(* panel that are not older than the calls of two runs and a poll,         *)
(* although late answers of earlier runs replace newer ones (script.js,    *)
(* fetchAll).                                                              *)
THEOREM PanelsStayFresh == Spec => []PanelsAreFresh
<1>1. Init => ClockInv /\ FreshInv
  BY HardwareInitial DEF Init
<1>2. ClockInv /\ FreshInv /\ [Next]_vars => ClockInv' /\ FreshInv'
  BY ClockInductive, FreshInductive, PagesStep
<1>3. ClockInv /\ FreshInv => PanelsAreFresh
  BY FreshMeansFresh
<1> QED
  BY <1>1, <1>2, <1>3, PTL DEF Spec

(* However long the calls take and however many runs the polls of a slow   *)
(* dashboard pile up, a request of it is refused only if the runs of its   *)
(* openings, the runs that were piled up and one more come to more than    *)
(* the bucket of main.go holds: by themselves, polls that end in time      *)
(* never empty it.                                                         *)
THEOREM PollingStaysUnlimited == Spec => []PollingIsNotLimited
<1>1. Init => ClockInv /\ CountInv /\ DebtInv
  BY HardwareInitial DEF Init
<1>2. ClockInv /\ CountInv => Within
  BY AheadIsBounded
<1>3. ClockInv /\ CountInv /\ [Next]_vars => ClockInv' /\ CountInv'
  BY ClockInductive, CountInductive, PagesStep
<1>4. ClockInv /\ Within /\ Within' /\ DebtInv /\ [Next]_vars => DebtInv'
  BY DebtInductive, PagesStep
<1>5. DebtInv => PollingIsNotLimited
  BY DEF DebtInv
<1> QED
  BY <1>1, <1>2, <1>3, <1>4, <1>5, PTL DEF Spec
=============================================================================
