--------------------------- MODULE EnrichmentPage ---------------------------
(***************************************************************************)
(* The enrichment page, frontend/enrichment/app.js: searches, what is shown*)
(* of them, and the history kept in the browser.  The page runs on one     *)
(* thread; a search that waits for its answer does not keep others from    *)
(* being started by the Enter key or from the history, for only the button *)
(* is disabled.                                                            *)
(*                                                                         *)
(* The server is there by what the page relies on: it validates the value  *)
(* of a query against its type and submits to URLScan only if its operator *)
(* has enabled it.                                                         *)
(***************************************************************************)
EXTENDS Naturals, Sequences

CONSTANTS
    Values,        \* what a visitor may type
    TypeOf,        \* the type under which the server accepts a value
    Private,       \* the values with a query or a fragment
    Searches,      \* calls of performSearch under way at a time
    HistoryMax,    \* 15
    None           \* null

Types  == {"ip"} \cup {TypeOf[v] : v \in Values}    \* of the tabs; the first is "ip"
Entry  == [value : Values, type : Types]
Parts  == [of : Values, ok : BOOLEAN]
Search == [value : Values, type : Types, submit : BOOLEAN, chosen : BOOLEAN, handled : BOOLEAN]

EnrichmentAssumption ==
    /\ TypeOf \in [Values -> {"ip", "domain", "hash", "url"}]
    /\ Private \subseteq Values
    /\ HistoryMax \in Nat \ {0} /\ None \notin Values \cup Search

VARIABLES
    loaded,        \* the script runs
    currentType,   \* the active tab
    urlscanActiveSubmission,
    asked,         \* the answer of /capabilities is outstanding
    consent,       \* the checkbox urlscanConsent
    search,        \* the searches under way, or None
    resultsQuery,  \* the value in the header of the results
    loading,       \* the spinner is shown
    disabled,      \* the button is
    content,       \* the parts of resultsContent: whose, and result or error
    history,       \* what the page shows as recent queries, newest first
    storage,       \* localStorage.searchHistory
    flag,          \* the operator's URLSCAN_ACTIVE_SUBMISSION
    submitted,     \* history: the URLs the server has submitted to URLScan
    overlapped     \* history: a search was started while another was under way

capabilities == <<urlscanActiveSubmission, asked>>
view   == <<resultsQuery, loading, disabled, content>>
kept   == <<history, storage>>
server == <<flag, submitted>>
vars   == <<loaded, currentType, capabilities, consent, search, view, kept, server, overlapped>>

Pending == {s \in Searches : search[s] # None}

TypeOK ==
    /\ loaded \in BOOLEAN /\ currentType \in Types
    /\ urlscanActiveSubmission \in BOOLEAN /\ asked \in BOOLEAN /\ consent \in BOOLEAN
    /\ search \in [Searches -> Search \cup {None}]
    /\ resultsQuery \in Values \cup {None}
    /\ loading \in BOOLEAN /\ disabled \in BOOLEAN /\ overlapped \in BOOLEAN
    /\ content \in Seq(Parts)
    /\ history \in Seq(Entry) /\ Len(history) <= HistoryMax
    /\ storage \in Seq(Entry) /\ Len(storage) <= HistoryMax
    /\ flag \in BOOLEAN
    /\ submitted \subseteq [value : Values, chosen : BOOLEAN, flag : BOOLEAN]

Init ==
    /\ loaded = FALSE /\ currentType = "ip" /\ urlscanActiveSubmission = FALSE
    /\ asked = FALSE /\ consent = FALSE
    /\ search = [s \in Searches |-> None]
    /\ resultsQuery = None /\ loading = FALSE /\ disabled = FALSE
    /\ content = <<>> /\ history = <<>> /\ overlapped = FALSE
    /\ storage = <<>> /\ flag \in BOOLEAN /\ submitted = {}

-----------------------------------------------------------------------------
(* Controls.                                                               *)

(* The script reads the persisted history and asks for the capabilities.   *)
Load ==
    /\ ~loaded /\ loaded' = TRUE
    /\ history' = storage
    /\ asked' = TRUE
    /\ UNCHANGED <<currentType, urlscanActiveSubmission, consent, search, view, storage,
                   server, overlapped>>

(* checkCapabilities: an answer, unless it fails.                          *)
Capabilities(answered) ==
    /\ asked /\ asked' = FALSE
    /\ urlscanActiveSubmission' = (answered /\ flag)
    /\ UNCHANGED <<loaded, currentType, consent, search, view, kept, server, overlapped>>

SwitchTab(t) ==
    /\ loaded /\ currentType' = t
    /\ UNCHANGED <<loaded, capabilities, consent, search, view, kept, server, overlapped>>

(* The checkbox can be seen: urlControlState.                              *)
ShowActiveSubmission == currentType = "url" /\ urlscanActiveSubmission

ToggleConsent ==
    /\ loaded /\ ShowActiveSubmission /\ consent' = ~consent
    /\ UNCHANGED <<loaded, currentType, capabilities, search, view, kept, server, overlapped>>

-----------------------------------------------------------------------------
(* Searches.                                                               *)

(* performSearch up to its request: the old results go, and the visitor may*)
(* have to confirm a submission.  If he does not, that is an error at once.*)
PerformSearch(s, v, type, confirms) ==
    LET submit == type = "url" /\ urlscanActiveSubmission /\ consent
        cancel == submit /\ v \in Private /\ ~confirms
    IN  /\ search[s] = None
        /\ resultsQuery' = v
        /\ loading' = ~cancel /\ disabled' = ~cancel
        /\ content' = IF cancel THEN <<[of |-> v, ok |-> FALSE]>> ELSE <<>>
        /\ search' = IF cancel THEN search
                     ELSE [search EXCEPT ![s] =
                              [value |-> v, type |-> type, submit |-> submit, handled |-> FALSE,
                               chosen |-> consent /\ (v \in Private => confirms)]]
        /\ overlapped' = (Pending # {})
        /\ UNCHANGED <<loaded, capabilities, consent, kept, server>>

(* Enter takes the value and the active tab, the button too if it is       *)
(* enabled; an entry of the history brings its own type.                   *)
Enter(s, v, confirms) ==
    loaded /\ PerformSearch(s, v, currentType, confirms) /\ UNCHANGED currentType

FromHistory(s, i, confirms) ==
    /\ loaded
    /\ currentType' = history[i].type
    /\ PerformSearch(s, history[i].value, history[i].type, confirms)

(* Mutant: the server takes the page's word for it.                        *)
SubmitsIfAsked(s) == search[s].submit /\ search[s].type = TypeOf[search[s].value]

(* The handler's condition, after validation.                              *)
Submits(s) == flag /\ search[s].submit /\ search[s].type = TypeOf[search[s].value]

(* The server handles the request; its answer may still be lost.           *)
Handle(s) ==
    /\ s \in Pending /\ ~search[s].handled
    /\ search' = [search EXCEPT ![s].handled = TRUE]
    /\ submitted' = IF Submits(s)
                    THEN submitted \cup {[value |-> search[s].value,
                                          chosen |-> search[s].chosen, flag |-> flag]}
                    ELSE submitted
    /\ UNCHANGED <<loaded, currentType, capabilities, consent, view, kept, flag, overlapped>>

Truncated(seq) == IF Len(seq) > HistoryMax THEN SubSeq(seq, 1, HistoryMax) ELSE seq

(* Mutant: every result is remembered.                                     *)
RememberedAll(s) ==
    Truncated(<<[value |-> search[s].value, type |-> search[s].type]>> \o history)

(* addToHistory, for any type but a URL.                                   *)
Remembered(s) ==
    IF search[s].type = "url" THEN history
    ELSE Truncated(<<[value |-> search[s].value, type |-> search[s].type]>> \o history)

(* The result replaces what is shown, whatever the header says.            *)
Answer(s) ==
    /\ s \in Pending /\ search[s].handled
    /\ search[s].type = TypeOf[search[s].value]
    /\ content' = <<[of |-> search[s].value, ok |-> TRUE]>>
    /\ loading' = FALSE /\ disabled' = FALSE
    /\ history' = Remembered(s)
    /\ storage' = IF search[s].type = "url" THEN storage ELSE history'
    /\ search' = [search EXCEPT ![s] = None]
    /\ UNCHANGED <<loaded, currentType, capabilities, consent, resultsQuery, server, overlapped>>

(* Mutant: the button is enabled where the results are rendered.           *)
FailureKeepsDisabled == loading' = FALSE /\ UNCHANGED disabled

FailureEnables == loading' = FALSE /\ disabled' = FALSE

(* A refusal of the server or the failure of the exchange adds a banner.   *)
Fails(s) ==
    /\ s \in Pending
    /\ content' = Append(content, [of |-> search[s].value, ok |-> FALSE])
    /\ FailureEnables
    /\ search' = [search EXCEPT ![s] = None]
    /\ UNCHANGED <<loaded, currentType, capabilities, consent, resultsQuery, kept, server,
                   overlapped>>

ClearHistory ==
    /\ loaded /\ history' = <<>> /\ storage' = <<>>
    /\ UNCHANGED <<loaded, currentType, capabilities, consent, search, view, server, overlapped>>

(* The page is left; the answers of its requests go nowhere.               *)
Unload ==
    /\ loaded /\ loaded' = FALSE /\ currentType' = "ip" /\ urlscanActiveSubmission' = FALSE
    /\ asked' = FALSE /\ consent' = FALSE
    /\ search' = [s \in Searches |-> None]
    /\ resultsQuery' = None /\ loading' = FALSE /\ disabled' = FALSE
    /\ content' = <<>> /\ history' = <<>> /\ overlapped' = FALSE
    /\ UNCHANGED <<storage, server>>

(* The server is started anew with another configuration.                  *)
Reconfigure ==
    /\ flag' = ~flag
    /\ UNCHANGED <<loaded, currentType, capabilities, consent, search, view, kept,
                   submitted, overlapped>>

Next ==
    \/ Load \/ Unload \/ ClearHistory \/ Reconfigure \/ ToggleConsent
    \/ \E answered \in BOOLEAN : Capabilities(answered)
    \/ \E t \in Types : SwitchTab(t)
    \/ \E s \in Searches :
          \/ Handle(s) \/ Answer(s) \/ Fails(s)
          \/ \E confirms \in BOOLEAN :
                \/ \E v \in Values : Enter(s, v, confirms)
                \/ \E i \in 1..Len(history) : FromHistory(s, i, confirms)

Spec == Init /\ [][Next]_vars

-----------------------------------------------------------------------------
(* Properties.                                                             *)

(* Full URLs are never kept in the browser (privacy.html:38), under any tab*)
(* they are typed, and a page opened again shows what was shown before.    *)
HistoryIsSound ==
    /\ \A i \in 1..Len(storage) : TypeOf[storage[i].value] # "url"
    /\ loaded => history = storage

(* When no search is under way the page is ready and shows an outcome, that*)
(* of the query in its header unless searches overlapped.                  *)
SettledViewIsTrue ==
    loaded /\ Pending = {} =>
        /\ ~loading /\ ~disabled
        /\ resultsQuery # None =>
              /\ content # <<>>
              /\ ~overlapped => Len(content) = 1 /\ content[1].of = resultsQuery

(* A URL is submitted to URLScan only while the operator has enabled it and*)
(* after the visitor has chosen it, whatever the page believes of the      *)
(* operator's choice (privacy.html:42).                                    *)
SubmissionIsChosen == \A u \in submitted : u.chosen /\ u.flag
=============================================================================
