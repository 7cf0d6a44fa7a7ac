---------------------------- MODULE HardwarePage ----------------------------
(***************************************************************************)
(* The hardware dashboard, frontend/hardware/script.js: fetchAll asks for  *)
(* one panel after the other, and runs of it that a timer, a return to the *)
(* page and slow answers start or delay go on side by side.  The other     *)
(* side is the client's bucket of the server's hardware limiter (main.go). *)
(*                                                                         *)
(* A tick is two seconds, in which the bucket gains a token.               *)
(***************************************************************************)
EXTENDS Naturals, FiniteSets

CONSTANTS
    Panels,        \* fetchAll asks for panels 1 to Panels
    PollEvery,     \* POLLING_INTERVAL_MS, in ticks
    Burst,         \* of the bucket
    CallLimit,     \* a call is answered or fails within this many ticks,
                   \* how many is up to the browser and the network
    RunIds,        \* runs of fetchAll under way at a time, a set of numbers
    MaxTime,       \* bound of the model: the clock stops here
    MaxOpenings,   \* bound of the model: how often the page comes into view
    LastOpening,   \* bound of the model: when it does so for the last time
    None,          \* null
    Failure        \* "Error fetching data"

PanelIds == 1..Panels

(* A run, which the interval started or a view of the page, waits for the  *)
(* answer to a call, which the bucket admitted or not.                     *)
Run == [panel : PanelIds, sent : 0..MaxTime, admitted : BOOLEAN, polled : BOOLEAN]

(* Five panels every ten seconds are one for a tick.                       *)
HardwareAssumption ==
    /\ Panels \in Nat \ {0} /\ PollEvery \in Nat \ {0} /\ Panels <= PollEvery
    /\ CallLimit \in Nat \ {0}
    /\ Burst \in Nat /\ RunIds \subseteq Nat /\ IsFiniteSet(RunIds) /\ None \notin Nat \cup Run
    /\ MaxTime \in Nat /\ MaxOpenings \in Nat /\ LastOpening \in Nat

VARIABLES
    now,           \* the clock
    open,          \* the script runs
    visible,       \* document.visibilityState
    pollingTimer,  \* ticks until the interval fires next, or None
    runs,          \* the runs of fetchAll: at which panel, waiting for what
    shown,         \* per panel: when its figures were asked for, or an error
    tokens,        \* of the bucket
    openings,      \* history: how often the page has come into view
    pile,          \* history: the most runs of polls under way at a time
    refused,       \* history: the bucket has been empty
    since          \* history: in view and without a failed answer since then

vars == <<now, open, visible, pollingTimer, runs, shown, tokens,
          openings, pile, refused, since>>

TypeOK ==
    /\ now \in 0..MaxTime /\ since \in 0..MaxTime
    /\ open \in BOOLEAN /\ visible \in BOOLEAN /\ refused \in BOOLEAN
    /\ pollingTimer \in 0..PollEvery \cup {None}
    /\ runs \in [RunIds -> Run \cup {None}]
    /\ shown \in [PanelIds -> 0..MaxTime \cup {None, Failure}]
    /\ tokens \in 0..Burst
    /\ openings \in 0..MaxOpenings /\ pile \in Nat

Idle == [r \in RunIds |-> None]

Init ==
    /\ now = 0 /\ open = FALSE /\ visible = FALSE /\ pollingTimer = None
    /\ runs = Idle
    /\ shown = [p \in PanelIds |-> None]
    /\ tokens = Burst
    /\ openings = 0 /\ pile = 0 /\ refused = FALSE /\ since = 0

-----------------------------------------------------------------------------
(* The page.                                                               *)

(* A request for a panel: fetchSystem and its four fellows.                *)
Call(r, p, polled) ==
    /\ runs' = [runs EXCEPT ![r] = [panel |-> p, sent |-> now, admitted |-> tokens > 0,
                                    polled |-> polled]]
    /\ tokens' = IF tokens > 0 THEN tokens - 1 ELSE 0
    /\ refused' = (refused \/ tokens = 0)

(* fetchAll, called while the page is in view.                             *)
FetchAll(polled) ==
    \E r \in RunIds :
        /\ runs[r] = None /\ \A q \in RunIds : q < r => runs[q] # None
        /\ Call(r, 1, polled)

(* Mutant: the page starts polling only when it is loaded.                 *)
StartPollingOnce ==
    pollingTimer' = IF pollingTimer = None /\ openings = 0 THEN PollEvery ELSE pollingTimer

StartPolling == pollingTimer' = IF pollingTimer = None THEN PollEvery ELSE pollingTimer

StopPolling == pollingTimer' = None

(* The page comes into view: the script starts, or handleVisibilityChange. *)
ComesIntoView ==
    /\ openings < MaxOpenings /\ now <= LastOpening
    /\ FetchAll(FALSE) /\ StartPolling
    /\ openings' = openings + 1 /\ since' = now
    /\ UNCHANGED pile

Load(inView) ==
    /\ ~open /\ open' = TRUE /\ visible' = inView
    /\ IF inView THEN ComesIntoView
                 ELSE UNCHANGED <<pollingTimer, runs, tokens, openings, pile, refused, since>>
    /\ UNCHANGED <<now, shown>>

Show ==
    /\ open /\ ~visible /\ visible' = TRUE
    /\ ComesIntoView
    /\ UNCHANGED <<now, open, shown>>

Hide ==
    /\ open /\ visible /\ visible' = FALSE
    /\ StopPolling
    /\ UNCHANGED <<now, open, runs, shown, tokens, openings, pile, refused, since>>

(* The runs under way that the interval started.                           *)
PolledRuns == {r \in RunIds : runs[r] # None /\ runs[r].polled}

(* The interval starts a run whether those before have ended or not.       *)
Poll ==
    /\ FetchAll(TRUE)
    /\ pile' = IF Cardinality(PolledRuns') > pile THEN Cardinality(PolledRuns') ELSE pile

IntervalFires ==
    /\ pollingTimer = 0 /\ pollingTimer' = PollEvery
    /\ IF visible THEN Poll ELSE UNCHANGED <<runs, tokens, pile, refused>>
    /\ UNCHANGED <<now, open, visible, shown, openings, since>>

(* After an answer, whatever it is, a run goes on to its next panel if the *)
(* page is in view.                                                        *)
GoesOn(r) == visible /\ runs[r].panel < Panels

(* Figures replace what the panel shows, and so does an error; a status of *)
(* 429, of the bucket or of the global limiter, leaves them.  The delay of *)
(* 200 ms before the next panel is within the step: a change of visibility *)
(* during it is one that came just before the answer.                      *)
Answer(r, reply) ==
    /\ runs[r] # None
    /\ ~runs[r].admitted => reply = "limited"
    /\ shown' = CASE reply = "figures" -> [shown EXCEPT ![runs[r].panel] = runs[r].sent]
                  [] reply = "error"   -> [shown EXCEPT ![runs[r].panel] = Failure]
                  [] reply = "limited" -> shown
    /\ since' = IF reply = "figures" THEN since ELSE now
    /\ IF GoesOn(r) THEN Call(r, runs[r].panel + 1, runs[r].polled)
       ELSE runs' = [runs EXCEPT ![r] = None] /\ UNCHANGED <<tokens, refused>>
    /\ UNCHANGED <<now, open, visible, pollingTimer, openings, pile>>

(* The page is left: its timers and requests are gone.                     *)
Unload ==
    /\ open /\ open' = FALSE /\ visible' = FALSE /\ pollingTimer' = None
    /\ runs' = Idle
    /\ shown' = [p \in PanelIds |-> None]
    /\ UNCHANGED <<now, tokens, openings, pile, refused, since>>

(* Mutant: the bucket is filled up once a minute and not token by token.   *)
RefilledAtOnce == IF now % 30 = 29 THEN Burst ELSE tokens

(* hwRL in main.go: a token for a tick.                                    *)
Refilled == IF tokens < Burst THEN tokens + 1 ELSE tokens

(* Time does not pass a timer that is due or the limit of a call.          *)
Tick ==
    /\ now < MaxTime
    /\ pollingTimer # 0
    /\ \A r \in RunIds : runs[r] # None => now < runs[r].sent + CallLimit
    /\ now' = now + 1
    /\ pollingTimer' = IF pollingTimer = None THEN None ELSE pollingTimer - 1
    /\ tokens' = Refilled
    /\ UNCHANGED <<open, visible, runs, shown, openings, pile, refused, since>>

Next ==
    \/ \E inView \in BOOLEAN : Load(inView)
    \/ Show \/ Hide \/ Unload \/ IntervalFires \/ Tick
    \/ \E r \in RunIds, reply \in {"figures", "error", "limited"} : Answer(r, reply)

Spec == Init /\ [][Next]_vars

-----------------------------------------------------------------------------
(* Properties.                                                             *)

(* The polls of a page do not exhaust its bucket by themselves: five       *)
(* requests in ten seconds are just what it gains.  A request is limited   *)
(* only if the runs of a visitor who keeps coming back, the runs of polls  *)
(* that slow answers have piled up, and one more, come to more than the    *)
(* bucket holds.  Nothing in the page keeps runs from piling up.           *)
PollingIsNotLimited == refused => (openings + pile + 1) * Panels > Burst

(* A page that has been in view for long enough, with no failed answer,    *)
(* shows every panel, and figures that are not old, although a late answer *)
(* of an earlier run may replace those of a later one.                     *)
PanelsAreFresh ==
    \A p \in PanelIds :
        open /\ visible /\ now - since > p * CallLimit + PollEvery
            => /\ shown[p] \in Nat
               /\ now - shown[p] <= 2 * p * CallLimit + PollEvery
=============================================================================
