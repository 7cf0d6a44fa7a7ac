----------------------------- MODULE PcapViewer -----------------------------
(***************************************************************************)
(* The connection of the PCAP page, frontend/pcap/app.js: one WebSocket,   *)
(* to the agent on the visitor's own machine or to the relay, and a timer  *)
(* that tries again.  The page runs on one thread: a step is one event     *)
(* handler, the other side and the network act between them.               *)
(*                                                                         *)
(* In relay mode the other side is the viewer's end of a session of Relay: *)
(* it binds one viewer ever, and is gone once that viewer has left.        *)
(***************************************************************************)
EXTENDS Naturals, FiniteSets

CONSTANTS
    Sockets,       \* WebSocket objects; one that is closed is used again
    None,          \* null
    MaxAttempts    \* MAX_INITIAL_RELAY_ATTEMPTS

ViewerAssumption ==
    /\ None \notin Sockets
    /\ MaxAttempts \in Nat \ {0}

VARIABLES
    relayMode,     \* SESSION_ID is set: bootstrap.js found both credentials
    booted,        \* the script has run to its end
    ws,            \* the socket the page considers its own
    readyState,    \* of each socket
    accepted,      \* the sockets whose handshake the other side has completed
    timer,         \* reconnectTimer is set, and the timer is pending
    retrying,      \* reconnectAttempts > 0
    attempts,      \* relayConnectionAttempts
    relayOpened,
    status,        \* the last argument of setStatus
    up,            \* local mode: the agent is running
    session,       \* relay mode: "free", "bound" by a viewer, or "gone"
    wasOpen        \* history: a socket has been open

pageVars == <<relayMode, booted, ws, timer, retrying, attempts, relayOpened, status>>
vars == <<pageVars, readyState, accepted, up, session, wasOpen>>

Statuses == {"none", "connecting", "connected", "local-unavailable",
             "relay-ended", "relay-unavailable"}

TypeOK ==
    /\ relayMode \in BOOLEAN /\ booted \in BOOLEAN /\ timer \in BOOLEAN /\ retrying \in BOOLEAN
    /\ relayOpened \in BOOLEAN /\ up \in BOOLEAN /\ wasOpen \in BOOLEAN
    /\ ws \in Sockets \cup {None}
    /\ readyState \in [Sockets -> {"connecting", "open", "closed"}]
    /\ accepted \subseteq Sockets
    /\ attempts \in 0..MaxAttempts
    /\ status \in Statuses
    /\ session \in {"free", "bound", "gone"}
    /\ \A s \in Sockets : readyState[s] # "closed" => s = ws

Init ==
    /\ booted = FALSE /\ ws = None /\ timer = FALSE /\ retrying = FALSE
    /\ attempts = 0 /\ relayOpened = FALSE /\ status = "none"
    /\ readyState = [s \in Sockets |-> "closed"]
    /\ accepted = {}
    /\ relayMode \in BOOLEAN
    /\ up \in (IF relayMode THEN {FALSE} ELSE BOOLEAN)
    /\ session \in (IF relayMode THEN {"free", "gone"} ELSE {"gone"})
    /\ wasOpen = FALSE

-----------------------------------------------------------------------------
(* The page.                                                               *)

AttemptsSpent == relayMode /\ attempts >= MaxAttempts

Busy == ws # None /\ readyState[ws] # "closed"

(* A new socket becomes the page's own.  A relay viewer says each time     *)
(* that it is connecting, a local one only the first time.                 *)
NewSocket(s) ==
    /\ readyState[s] = "closed" /\ s # ws
    /\ readyState' = [readyState EXCEPT ![s] = "connecting"]
    /\ accepted' = accepted \ {s}
    /\ ws' = s
    /\ attempts' = IF relayMode THEN attempts + 1 ELSE attempts
    /\ status' = IF relayMode \/ ~retrying THEN "connecting" ELSE status

(* connect, with its three early returns.                                  *)
Connect ==
    /\ IF Busy \/ (relayMode /\ relayOpened)
       THEN UNCHANGED <<ws, readyState, accepted, attempts, status>>
       ELSE IF AttemptsSpent
       THEN status' = "relay-unavailable" /\ UNCHANGED <<ws, readyState, accepted, attempts>>
       ELSE \E s \in Sockets : NewSocket(s)
    /\ UNCHANGED <<relayMode, retrying, relayOpened, up, session, wasOpen>>

Boot == ~booted /\ booted' = TRUE /\ timer' = FALSE /\ Connect

TimerFires == timer /\ timer' = FALSE /\ Connect /\ UNCHANGED booted

(* Mutant: relayOpened is not set.                                         *)
OnOpenForgets(s) ==
    /\ ws = s
    /\ timer' = FALSE /\ retrying' = FALSE /\ status' = "connected"
    /\ UNCHANGED relayOpened

(* The open event, for the page's own socket.                              *)
OnOpen(s) ==
    /\ ws = s
    /\ timer' = FALSE /\ retrying' = FALSE /\ status' = "connected"
    /\ relayOpened' = relayMode

Opens(s) ==
    /\ readyState[s] = "connecting" /\ s \in accepted
    /\ readyState' = [readyState EXCEPT ![s] = "open"]
    /\ OnOpen(s)
    /\ wasOpen' = TRUE
    /\ UNCHANGED <<relayMode, booted, ws, attempts, accepted, up, session>>

(* Mutants: a second failure in a row is not retried; the status is not    *)
(* updated when a connection that was open ends.                           *)
ScheduleOnce == timer' = ~retrying /\ retrying' = TRUE
OnCloseSilent(s) ==
    /\ ws = s /\ ws' = None /\ timer' = TRUE /\ retrying' = TRUE
    /\ UNCHANGED status

(* scheduleLocalReconnect, or scheduleRelayReconnect with attempts left.   *)
Schedule == timer' = TRUE /\ retrying' = TRUE

(* The close event, for the page's own socket.                             *)
OnClose(s) ==
    /\ ws = s
    /\ ws' = None
    /\ IF relayMode /\ (relayOpened \/ AttemptsSpent)
       THEN /\ status' = IF relayOpened THEN "relay-ended" ELSE "relay-unavailable"
            /\ timer' = FALSE
            /\ UNCHANGED retrying
       ELSE /\ status' = IF relayMode THEN status ELSE "local-unavailable"
            /\ Schedule

(* The viewer's leaving ends its session: Relay's StoreDelete.             *)
Closes(s) ==
    /\ readyState[s] # "closed"
    /\ readyState' = [readyState EXCEPT ![s] = "closed"]
    /\ OnClose(s)
    /\ session' = IF relayMode /\ s \in accepted THEN "gone" ELSE session
    /\ UNCHANGED <<relayMode, booted, attempts, relayOpened, accepted, up, wasOpen>>

-----------------------------------------------------------------------------
(* The other side and the network.                                         *)

(* HandleRelay admits the first viewer of a session that is still there;   *)
(* an agent accepts whoever connects.                                      *)
Accept(s) ==
    /\ readyState[s] = "connecting" /\ s \notin accepted
    /\ IF relayMode THEN session = "free" /\ session' = "bound"
                    ELSE up /\ UNCHANGED session
    /\ accepted' = accepted \cup {s}
    /\ UNCHANGED <<pageVars, readyState, up, wasOpen>>

(* A connection across the internet may break at any time, before the page *)
(* knows that its handshake was completed too; a local one breaks with the *)
(* agent.                                                                  *)
Breaks(s) == (relayMode \/ ~up) /\ Closes(s)

(* The session ends without the viewer: its agent leaves or its TTL is up. *)
SessionEnds ==
    /\ relayMode /\ session # "gone"
    /\ session' = "gone"
    /\ UNCHANGED <<pageVars, readyState, accepted, up, wasOpen>>

AgentToggles ==
    /\ ~relayMode
    /\ up' = ~up
    /\ UNCHANGED <<pageVars, readyState, accepted, session, wasOpen>>

Next ==
    \/ Boot \/ TimerFires
    \/ \E s \in Sockets : Opens(s) \/ Accept(s) \/ Breaks(s)
    \/ SessionEnds \/ AgentToggles

Spec == Init /\ [][Next]_vars

(* The script runs, timers fire, the agent and the browser's network stack *)
(* do their work.  Nothing is assumed of the visitor or of the relay.      *)
Fairness ==
    /\ WF_vars(Boot) /\ WF_vars(TimerFires)
    /\ \A s \in Sockets : WF_vars(Opens(s)) /\ WF_vars(Accept(s)) /\ WF_vars(Breaks(s))

FairSpec == Spec /\ Fairness

-----------------------------------------------------------------------------
(* Properties.                                                             *)

(* The page never gives up silently: it has a socket, or a timer that will *)
(* make one, or it shows one of the two final states of a relay session.   *)
NeverStranded ==
    booted /\ ws = None /\ ~timer
        => relayMode /\ status \in {"relay-ended", "relay-unavailable"}

(* What the page shows is the state of its socket: connected exactly while *)
(* it is open, ended only for a session that was once connected.           *)
StatusIsTrue ==
    /\ status = "connected" <=> (ws # None /\ readyState[ws] = "open")
    /\ status = "relay-ended" => wasOpen /\ ws = None
    /\ status = "relay-unavailable" => ~wasOpen /\ ws = None

(* The relay accepts a viewer once.  The page uses its token for at most   *)
(* MaxAttempts connections, and for none after one that was open.          *)
TokenUseIsBounded ==
    [][relayMode /\ ws' # None /\ ws' # ws
          => ~wasOpen /\ attempts < MaxAttempts]_vars

(* A page waiting for the local agent finds it, however late it starts and *)
(* however often it has stopped before.                                    *)
FindsAgent == <>[](~relayMode /\ up) => <>[](status = "connected")
=============================================================================
