----------------------------- MODULE PcapTables -----------------------------
(***************************************************************************)
(* The flow table and the alert list of the PCAP page, frontend/pcap/      *)
(* app.js.  The table follows the newest flow until the visitor scrolls    *)
(* away; flows that arrive meanwhile wait and are merged on the return.    *)
(* The page runs on one thread: a step is one event handler, the visitor   *)
(* and the browser act between them.                                       *)
(***************************************************************************)
EXTENDS Naturals, Sequences, SequencesExt

CONSTANTS
    Addrs,         \* addresses in flows and in enrichment messages
    LongAddrs,     \* the IPv6 addresses formatFlowIP abbreviates
    MaxFlows,      \* MAX_FLOWS
    MaxPending,    \* MAX_PENDING_FLOWS
    AlertIDs,      \* alert identities, as alertID computes them
    MaxAlerts,     \* MAX_ALERTS
    Severities,
    Bottom,        \* the largest value of scrollTop
    Threshold,     \* FLOW_FOLLOW_THRESHOLD
    MaxArrivals    \* bound of the model: flows that arrive

ASSUME TablesAssumption ==
    /\ LongAddrs \subseteq Addrs
    /\ MaxFlows \in Nat \ {0} /\ MaxPending = MaxFlows
    /\ MaxAlerts \in Nat \ {0} /\ MaxArrivals \in Nat
    /\ Bottom \in Nat /\ Threshold \in 0..Bottom

Positions == 0..Bottom

VARIABLES
    arrived,       \* history: how many flows have arrived
    rows,          \* #flow-body, the newest row first
    pendingFlows,  \* the oldest first
    following,     \* followingFlows
    scrollTop,     \* of #flow-scroll
    lastTop,       \* lastFlowScrollTop
    scrolled,      \* a scroll event is on its way
    threatIPs,
    alerts,        \* #alerts-list, the newest entry first
    rendered       \* renderedAlerts: the severity of each entry by its id

scrollVars == <<following, scrollTop, lastTop, scrolled>>
flowVars   == <<arrived, rows, pendingFlows, scrollVars>>
alertVars  == <<alerts, rendered>>
vars == <<flowVars, threatIPs, alertVars>>

Flows == [n : 1..MaxArrivals, src : Addrs, dst : Addrs]
Rows  == [flow : Flows, threat : BOOLEAN]

TypeOK ==
    /\ arrived \in 0..MaxArrivals
    /\ rows \in Seq(Rows) /\ Len(rows) <= MaxFlows
    /\ pendingFlows \in Seq(Flows) /\ Len(pendingFlows) <= MaxPending
    /\ following \in BOOLEAN /\ scrolled \in BOOLEAN
    /\ scrollTop \in Positions /\ lastTop \in Positions
    /\ threatIPs \subseteq Addrs
    /\ alerts \in Seq(AlertIDs) /\ Len(alerts) <= MaxAlerts
    /\ DOMAIN rendered \subseteq AlertIDs
    /\ \A id \in DOMAIN rendered : rendered[id] \in Severities

Init ==
    /\ arrived = 0 /\ rows = <<>> /\ pendingFlows = <<>>
    /\ following = TRUE /\ scrollTop = 0 /\ lastTop = 0 /\ scrolled = FALSE
    /\ threatIPs = {}
    /\ alerts = <<>> /\ rendered = [id \in {} |-> 0]

-----------------------------------------------------------------------------
(* Flows.                                                                  *)

(* The list after the while loop that removes its last elements.           *)
First(q, n) == SubSeq(q, 1, IF Len(q) < n THEN Len(q) ELSE n)

Row(f) == [flow |-> f, threat |-> f.src \in threatIPs \/ f.dst \in threatIPs]

(* renderFlow of each flow of q in turn: on top, and the table is cut.     *)
Rendered(q) == First(Reverse([i \in 1..Len(q) |-> Row(q[i])]) \o rows, MaxFlows)

Queue(f) ==
    LET q == Append(pendingFlows, f) IN
    pendingFlows' = IF Len(q) > MaxPending THEN Tail(q) ELSE q

ToTop ==
    /\ scrollTop' = 0 /\ lastTop' = 0
    /\ scrolled' = (scrolled \/ scrollTop # 0)

(* addFlow: wait if the visitor has scrolled away, although no scroll event*)
(* may have said so yet; be rendered if not.                               *)
AddFlow(f) ==
    /\ arrived < MaxArrivals /\ f.n = arrived + 1
    /\ arrived' = arrived + 1
    /\ IF ~following \/ scrollTop > Threshold
       THEN /\ following' = FALSE
            /\ Queue(f)
            /\ UNCHANGED <<rows, scrollTop, lastTop, scrolled>>
       ELSE /\ rows' = Rendered(<<f>>)
            /\ ToTop
            /\ UNCHANGED <<pendingFlows, following>>
    /\ UNCHANGED <<threatIPs, alertVars>>

(* mergePendingFlows, and the table follows again.                         *)
Resume ==
    /\ rows' = Rendered(pendingFlows)
    /\ pendingFlows' = <<>>
    /\ following' = TRUE
    /\ scrollTop' = 0

(* Mutant: going back to following forgets the flows that waited.          *)
ReturnsUnmerged ==
    /\ ~following /\ scrollTop <= Threshold /\ scrollTop < lastTop
    /\ following' = TRUE /\ scrollTop' = 0
    /\ UNCHANGED <<rows, pendingFlows>>

(* handleFlowScroll: downwards stops following, upwards to the top resumes.*)
Returns ==
    /\ ~following /\ scrollTop <= Threshold /\ scrollTop < lastTop
    /\ Resume

HandleFlowScroll ==
    /\ scrolled
    /\ \/ Returns
       \/ /\ ~(~following /\ scrollTop <= Threshold /\ scrollTop < lastTop)
          /\ following' = (following /\ scrollTop <= lastTop)
          /\ UNCHANGED <<rows, pendingFlows, scrollTop>>
    /\ lastTop' = scrollTop'
    /\ scrolled' = (scrollTop' # scrollTop)
    /\ UNCHANGED <<arrived, threatIPs, alertVars>>

(* A wheel or touch movement downwards: pauseFlowLive.                     *)
PauseFlowLive ==
    /\ following
    /\ following' = FALSE
    /\ UNCHANGED <<arrived, rows, pendingFlows, scrollTop, lastTop, scrolled,
                   threatIPs, alertVars>>

JumpToLive ==
    /\ ~following
    /\ rows' = Rendered(pendingFlows)
    /\ pendingFlows' = <<>>
    /\ following' = TRUE
    /\ ToTop
    /\ UNCHANGED <<arrived, threatIPs, alertVars>>

(* The visitor scrolls, or the browser moves the view by itself.           *)
Scroll(p) ==
    /\ p # scrollTop
    /\ scrollTop' = p /\ scrolled' = TRUE
    /\ UNCHANGED <<arrived, rows, pendingFlows, following, lastTop, threatIPs,
                   alertVars>>

-----------------------------------------------------------------------------
(* Enrichment and alerts.                                                  *)

(* Mutant: only the source of a row is looked at.                          *)
ShowsSource(row, ip) == row.flow.src = ip

(* A cell of the row shows the address itself; an abbreviated one does not.*)
Shows(row, ip) ==
    ip \notin LongAddrs /\ (row.flow.src = ip \/ row.flow.dst = ip)

(* addEnrichment with a threat: flows to come are marked by threatIPs, the *)
(* rows of the table by what their cells show.                             *)
AddThreat(ip) ==
    /\ threatIPs' = threatIPs \cup {ip}
    /\ rows' = [i \in 1..Len(rows) |->
                   [rows[i] EXCEPT !.threat = @ \/ Shows(rows[i], ip)]]
    /\ UNCHANGED <<arrived, pendingFlows, scrollVars, alertVars>>

(* Mutant: an entry that is cut off the list stays in the map.             *)
ForgetNothing(old, list) == old

(* The entries of the map whose element is still on the list.              *)
ForgetCut(old, list) ==
    [id \in DOMAIN old \cap ToSet(list) |-> old[id]]

(* addAlert: a known alert is updated where it is, a new one goes on top   *)
(* and the list is cut.                                                    *)
AddAlert(id, severity) ==
    LET known == id \in DOMAIN rendered
        list  == IF known THEN alerts ELSE First(<<id>> \o alerts, MaxAlerts)
        map   == [x \in DOMAIN rendered \cup {id} |->
                     IF x = id THEN severity ELSE rendered[x]]
    IN  /\ alerts' = list
        /\ rendered' = ForgetCut(map, list)
        /\ UNCHANGED <<flowVars, threatIPs>>

Next ==
    \/ \E f \in Flows : AddFlow(f)
    \/ HandleFlowScroll \/ PauseFlowLive \/ JumpToLive
    \/ \E p \in Positions : Scroll(p)
    \/ \E ip \in Addrs : AddThreat(ip)
    \/ \E id \in AlertIDs, severity \in Severities : AddAlert(id, severity)

Spec == Init /\ [][Next]_vars

-----------------------------------------------------------------------------
(* Properties.                                                             *)

Shown == [i \in 1..Len(rows) |-> rows[i].flow.n]

(* The table never has a gap or a flow out of place: its rows are          *)
(* consecutive flows, newest first.  Nothing is held back from a visitor   *)
(* who follows the table, and what is held back from one who does not is   *)
(* newer than the whole table, in order.  Waiting flows are dropped only   *)
(* when the ones that are kept fill the table by themselves.               *)
TableIsInOrder ==
    /\ \A i \in 2..Len(rows) : Shown[i] = Shown[i - 1] - 1
    /\ following => pendingFlows = <<>> /\ (rows # <<>> => Shown[1] = arrived)
    /\ pendingFlows # <<>> => pendingFlows[Len(pendingFlows)].n = arrived
    /\ \A i \in 2..Len(pendingFlows) : pendingFlows[i].n = pendingFlows[i - 1].n + 1
    /\ rows # <<>> /\ pendingFlows # <<>> => Shown[1] < pendingFlows[1].n

(* The rows of the table that involve a known threat are marked, whichever *)
(* came first; this holds for addresses the table shows in full.           *)
ThreatsAreMarked ==
    \A i \in 1..Len(rows) :
        \A ip \in {rows[i].flow.src, rows[i].flow.dst} \ LongAddrs :
            ip \in threatIPs => rows[i].threat

(* The map knows exactly the entries of the list, each once: an update of  *)
(* an alert is never lost in an entry that is no longer on the page.       *)
AlertsAreListed ==
    /\ ToSet(alerts) = DOMAIN rendered
    /\ IsInjective(alerts)

(* app.js:597, "Retroactively colour any existing flow rows for this IP.", *)
(* for every address.                                                      *)
AllThreatsAreMarked ==
    \A i \in 1..Len(rows) :
        \A ip \in {rows[i].flow.src, rows[i].flow.dst} :
            ip \in threatIPs => rows[i].threat
=============================================================================
