------------------------------- MODULE Relay -------------------------------
(***************************************************************************)
(* The PCAP relay: internal/pcap/session.go and                            *)
(* internal/pcap/handlers/relay.go.                                        *)
(*                                                                         *)
(* A session pairs the WebSocket of one agent with the WebSocket of one    *)
(* viewer.  Every request to /ws/relay/{id} is a goroutine (a handler); a  *)
(* sweeper goroutine removes sessions that outlived their TTL.  One step   *)
(* of this module is one critical section (of SessionStore.mu,             *)
(* RelaySession.mu or RelaySession.sendMu) or one call on a socket, so     *)
(* that everything the goroutines may do between two locks is explored.    *)
(***************************************************************************)
EXTENDS Integers, Sequences

CONSTANTS
    Sessions,     \* session identifiers; 128 random bits, so never drawn twice
    Handlers,     \* relay requests, each served by a goroutine of its own
    None,         \* nil
    Sweeper,      \* the cleanup goroutine
    TTL,          \* sessionTTL, in clock ticks
    MaxTime,      \* bound of the model: the clock stops here
    MaxItems,     \* maxBufferItems
    MaxBytes,     \* maxBufferBytes
    MaxFrames,    \* bound of the model: frames one agent sends
    FrameSize     \* the length of each frame, a function on 1..MaxFrames

ASSUME RelayAssumption ==
    /\ None \notin Handlers /\ Sweeper \notin Handlers
    /\ TTL \in Nat /\ MaxTime \in Nat
    /\ MaxItems \in Nat /\ MaxBytes \in Nat /\ MaxFrames \in Nat
    /\ FrameSize \in [1..MaxFrames -> Nat]

Roles   == {"agent", "viewer"}
Closers == Handlers \cup {Sweeper}
Frames  == 1..MaxFrames

VARIABLES
    now,          \* the clock
    store,        \* the keys of SessionStore.sessions
    created,      \* RelaySession.created and .lastUsed
    lastUsed,
    live,         \* agentToken and viewerToken hold the issued secrets
    bound,        \* the roles reserved: agentBound and viewerBound
    agent,        \* RelaySession.agent: the handler whose socket it is
    browser,      \* RelaySession.browser
    buffer,       \* RelaySession.buffer and .bufBytes
    bufBytes,
    sendMu,       \* the handler that holds RelaySession.sendMu
    pc,           \* where a handler is
    sid,          \* the session a handler has looked up
    role,         \* the role it asked for
    sock,         \* the state of its socket; "broken" once a write has failed
    msg,          \* the frame its Forward call is carrying
    target,       \* the local "browser" of its Forward call
    flush,        \* what is left of the local "buf" of SetBrowserAndFlush
    closing,      \* the local connections CloseBoth has yet to close
    sweepPc,      \* where the sweeper is
    sweepNow,     \* its local "now"
    stale,        \* its local "stale"
    sent,         \* history: frames read from the agent of a session
    delivered     \* history: frames written to the viewer of a session

storeVars   == <<store, created>>
sessVars    == <<lastUsed, live, bound, agent, browser, buffer, bufBytes, sendMu>>
handlerVars == <<pc, sid, role, sock, msg, target, flush>>
sweepVars   == <<sweepPc, sweepNow, stale>>
history     == <<sent, delivered>>
vars == <<now, storeVars, sessVars, handlerVars, closing, sweepVars, history>>

PCs == {"idle", "reserve", "upgrade", "release", "bind", "flush", "serving",
        "forward", "write", "touch", "delete", "closeBoth", "closing", "done"}

TypeOK ==
    /\ now \in 0..MaxTime
    /\ store \subseteq Sessions
    /\ created \in [Sessions -> 0..MaxTime \cup {-1}]
    /\ lastUsed \in [Sessions -> 0..MaxTime]
    /\ live \in [Sessions -> BOOLEAN]
    /\ bound \in [Sessions -> SUBSET Roles]
    /\ agent \in [Sessions -> Handlers \cup {None}]
    /\ browser \in [Sessions -> Handlers \cup {None}]
    /\ buffer \in [Sessions -> Seq(Frames)]
    /\ bufBytes \in [Sessions -> Nat]
    /\ sendMu \in [Sessions -> Handlers \cup {None}]
    /\ pc \in [Handlers -> PCs]
    /\ sid \in [Handlers -> Sessions \cup {None}]
    /\ \A h \in Handlers : pc[h] \notin {"idle", "done"} => sid[h] \in Sessions
    /\ role \in [Handlers -> Roles]
    /\ sock \in [Handlers -> {"none", "open", "broken", "closed"}]
    /\ msg \in [Handlers -> 0..MaxFrames]
    /\ \A h \in Handlers : pc[h] \in {"forward", "write"} => msg[h] \in Frames
    /\ target \in [Handlers -> Handlers \cup {None}]
    /\ \A h \in Handlers : pc[h] = "write" => target[h] \in Handlers
    /\ flush \in [Handlers -> Seq(Frames)]
    /\ closing \in [Closers -> Seq(Handlers)]
    /\ sweepPc \in {"idle", "scan", "close"}
    /\ sweepNow \in 0..MaxTime
    /\ stale \subseteq Sessions
    /\ sent \in [Sessions -> 0..MaxFrames]
    /\ delivered \in [Sessions -> Seq(Frames)]

Init ==
    /\ now = 0
    /\ store = {}
    /\ created = [s \in Sessions |-> -1]
    /\ lastUsed = [s \in Sessions |-> 0]
    /\ live = [s \in Sessions |-> FALSE]
    /\ bound = [s \in Sessions |-> {}]
    /\ agent = [s \in Sessions |-> None]
    /\ browser = [s \in Sessions |-> None]
    /\ buffer = [s \in Sessions |-> <<>>]
    /\ bufBytes = [s \in Sessions |-> 0]
    /\ sendMu = [s \in Sessions |-> None]
    /\ pc = [h \in Handlers |-> "idle"]
    /\ sid = [h \in Handlers |-> None]
    /\ role = [h \in Handlers |-> "agent"]
    /\ sock = [h \in Handlers |-> "none"]
    /\ msg = [h \in Handlers |-> 0]
    /\ target = [h \in Handlers |-> None]
    /\ flush = [h \in Handlers |-> <<>>]
    /\ closing = [c \in Closers |-> <<>>]
    /\ sweepPc = "idle" /\ sweepNow = 0 /\ stale = {}
    /\ sent = [s \in Sessions |-> 0]
    /\ delivered = [s \in Sessions |-> <<>>]

Goto(h, to) == pc' = [pc EXCEPT ![h] = to]
Use(s)      == lastUsed' = [lastUsed EXCEPT ![s] = now]

-----------------------------------------------------------------------------
(* The clock and POST /session.                                            *)

Tick ==
    /\ now < MaxTime
    /\ now' = now + 1
    /\ UNCHANGED <<storeVars, sessVars, handlerVars, closing, sweepVars, history>>

(* SessionStore.Create: fresh identifier, fresh tokens.                    *)
Create(s) ==
    /\ created[s] = -1
    /\ store' = store \cup {s}
    /\ created' = [created EXCEPT ![s] = now]
    /\ Use(s)
    /\ live' = [live EXCEPT ![s] = TRUE]
    /\ UNCHANGED <<now, bound, agent, browser, buffer, bufBytes, sendMu,
                   handlerVars, closing, sweepVars, history>>

-----------------------------------------------------------------------------
(* HandleRelay up to the upgrade.                                          *)

(* SessionStore.Reserve finds the session under the store's lock, which it *)
(* gives up before it looks at the session.  A request that names no       *)
(* stored session is answered 401 without a change of state.               *)
Lookup(h, s, r) ==
    /\ pc[h] = "idle"
    /\ s \in store
    /\ Goto(h, "reserve")
    /\ sid' = [sid EXCEPT ![h] = s]
    /\ role' = [role EXCEPT ![h] = r]
    /\ UNCHANGED <<now, storeVars, sessVars, sock, msg, target, flush, closing,
                   sweepVars, history>>

Expired(s, t) == t - created[s] > TTL

(* Mutant: the bound flag is set but never looked at.                      *)
ReserveRebinds(h) ==
    LET s == sid[h] IN
    /\ pc[h] = "reserve"
    /\ ~Expired(s, now) /\ live[s]
    /\ bound' = [bound EXCEPT ![s] = @ \cup {role[h]}]
    /\ Use(s)
    /\ Goto(h, "upgrade")
    /\ UNCHANGED <<now, storeVars, live, agent, browser, buffer, bufBytes, sendMu,
                   sid, role, sock, msg, target, flush, closing, sweepVars, history>>

(* RelaySession.Reserve with the session's own token for the role.         *)
Reserve(h) ==
    LET s == sid[h] IN
    /\ pc[h] = "reserve"
    /\ ~Expired(s, now)
    /\ role[h] \notin bound[s]
    /\ live[s]
    /\ bound' = [bound EXCEPT ![s] = @ \cup {role[h]}]
    /\ Use(s)
    /\ Goto(h, "upgrade")
    /\ UNCHANGED <<now, storeVars, live, agent, browser, buffer, bufBytes, sendMu,
                   sid, role, sock, msg, target, flush, closing, sweepVars, history>>

(* 401: expired, bound, cleared, or the token presented is another one.    *)
Refuse(h) ==
    /\ pc[h] = "reserve"
    /\ Goto(h, "done")
    /\ UNCHANGED <<now, storeVars, sessVars, sid, role, sock, msg, target, flush,
                   closing, sweepVars, history>>

UpgradeOK(h) ==
    /\ pc[h] = "upgrade"
    /\ sock' = [sock EXCEPT ![h] = "open"]
    /\ Goto(h, "bind")
    /\ UNCHANGED <<now, storeVars, sessVars, sid, role, msg, target, flush,
                   closing, sweepVars, history>>

UpgradeFails(h) ==
    /\ pc[h] = "upgrade"
    /\ Goto(h, "release")
    /\ UNCHANGED <<now, storeVars, sessVars, sid, role, sock, msg, target, flush,
                   closing, sweepVars, history>>

Connection(s, r) == IF r = "agent" THEN agent[s] ELSE browser[s]

Release(h) ==
    LET s == sid[h] IN
    /\ pc[h] = "release"
    /\ bound' = [bound EXCEPT ![s] =
                    IF Connection(s, role[h]) = None THEN @ \ {role[h]} ELSE @]
    /\ Goto(h, "done")
    /\ UNCHANGED <<now, storeVars, lastUsed, live, agent, browser, buffer, bufBytes,
                   sendMu, sid, role, sock, msg, target, flush, closing, sweepVars,
                   history>>

-----------------------------------------------------------------------------
(* Attaching the socket.                                                   *)

SetAgent(h) ==
    LET s == sid[h] IN
    /\ pc[h] = "bind" /\ role[h] = "agent"
    /\ agent' = [agent EXCEPT ![s] = h]
    /\ Use(s)
    /\ Goto(h, "serving")
    /\ UNCHANGED <<now, storeVars, live, bound, browser, buffer, bufBytes, sendMu,
                   sid, role, sock, msg, target, flush, closing, sweepVars, history>>

(* SetBrowserAndFlush takes sendMu and keeps it; under mu it installs the  *)
(* browser and takes the buffer.  Whoever waits for mu holds no lock that  *)
(* another one needs under mu, so the two acquisitions are one step.       *)
SetBrowser(h) ==
    LET s == sid[h] IN
    /\ pc[h] = "bind" /\ role[h] = "viewer"
    /\ sendMu[s] = None
    /\ sendMu' = [sendMu EXCEPT ![s] = h]
    /\ browser' = [browser EXCEPT ![s] = h]
    /\ Use(s)
    /\ flush' = [flush EXCEPT ![h] = buffer[s]]
    /\ buffer' = [buffer EXCEPT ![s] = <<>>]
    /\ bufBytes' = [bufBytes EXCEPT ![s] = 0]
    /\ Goto(h, "flush")
    /\ UNCHANGED <<now, storeVars, live, bound, agent, sid, role, sock, msg, target,
                   closing, sweepVars, history>>

(* WriteMessage of the next buffered frame.  It succeeds only on an open   *)
(* socket, and may fail on that one too; a failed connection stays failed. *)
FlushWrite(h) ==
    LET s == sid[h] IN
    /\ pc[h] = "flush" /\ flush[h] # <<>>
    /\ sock[h] = "open"
    /\ delivered' = [delivered EXCEPT ![s] = Append(@, Head(flush[h]))]
    /\ flush' = [flush EXCEPT ![h] = Tail(@)]
    /\ UNCHANGED <<now, storeVars, sessVars, pc, sid, role, sock, msg, target,
                   closing, sweepVars, sent>>

WriteFails(g) == sock' = [sock EXCEPT ![g] = IF @ = "open" THEN "broken" ELSE @]

FlushBreaks(h) ==
    /\ pc[h] = "flush" /\ flush[h] # <<>>
    /\ WriteFails(h)
    /\ flush' = [flush EXCEPT ![h] = <<>>]
    /\ UNCHANGED <<now, storeVars, sessVars, pc, sid, role, msg, target, closing,
                   sweepVars, history>>

(* Mutant: a return that does not unlock sendMu.                           *)
FlushDoneLocked(h) ==
    /\ pc[h] = "flush" /\ flush[h] = <<>>
    /\ Goto(h, "serving")
    /\ UNCHANGED <<now, storeVars, sessVars, sid, role, sock, msg, target, flush,
                   closing, sweepVars, history>>

FlushDone(h) ==
    /\ pc[h] = "flush" /\ flush[h] = <<>>
    /\ sendMu' = [sendMu EXCEPT ![sid[h]] = None]
    /\ Goto(h, "serving")
    /\ UNCHANGED <<now, storeVars, lastUsed, live, bound, agent, browser, buffer,
                   bufBytes, sid, role, sock, msg, target, flush, closing, sweepVars,
                   history>>

-----------------------------------------------------------------------------
(* Serving the agent: ReadMessage, Forward, Touch.                         *)

(* A text frame.  A connection closed underneath the reader still yields   *)
(* the frames already in its read buffer.                                  *)
AgentReads(h) ==
    LET s == sid[h] IN
    /\ pc[h] = "serving" /\ role[h] = "agent"
    /\ sent[s] < MaxFrames
    /\ sent' = [sent EXCEPT ![s] = @ + 1]
    /\ msg' = [msg EXCEPT ![h] = sent[s] + 1]
    /\ Goto(h, "forward")
    /\ UNCHANGED <<now, storeVars, sessVars, sid, role, sock, target, flush, closing,
                   sweepVars, delivered>>

(* Mutants: an item too many; the byte limit not usable to its end.        *)
HasRoomForOneMore(s, f) ==
    Len(buffer[s]) <= MaxItems /\ bufBytes[s] + FrameSize[f] <= MaxBytes
HasRoomBelowLimit(s, f) ==
    Len(buffer[s]) < MaxItems /\ bufBytes[s] + FrameSize[f] < MaxBytes

HasRoom(s, f) == Len(buffer[s]) < MaxItems /\ bufBytes[s] + FrameSize[f] <= MaxBytes

(* Forward's section under mu, with no browser: keep the frame or drop it. *)
ForwardBuffers(h) ==
    LET s == sid[h]
        f == msg[h] IN
    /\ pc[h] = "forward"
    /\ browser[s] = None
    /\ Use(s)
    /\ IF HasRoom(s, f)
       THEN /\ buffer' = [buffer EXCEPT ![s] = Append(@, f)]
            /\ bufBytes' = [bufBytes EXCEPT ![s] = @ + FrameSize[f]]
       ELSE UNCHANGED <<buffer, bufBytes>>
    /\ Goto(h, "touch")
    /\ UNCHANGED <<now, storeVars, live, bound, agent, browser, sendMu, sid, role,
                   sock, msg, target, flush, closing, sweepVars, history>>

(* Mutant: the browser is used without a nil check.                        *)
ForwardPicksNil(h) ==
    LET s == sid[h] IN
    /\ pc[h] = "forward"
    /\ Use(s)
    /\ target' = [target EXCEPT ![h] = browser[s]]
    /\ Goto(h, "write")
    /\ UNCHANGED <<now, storeVars, live, bound, agent, browser, buffer, bufBytes,
                   sendMu, sid, role, sock, msg, flush, closing, sweepVars, history>>

(* With a browser: remember it, leave mu, and write under sendMu.          *)
ForwardPicks(h) ==
    LET s == sid[h] IN
    /\ pc[h] = "forward"
    /\ browser[s] # None
    /\ Use(s)
    /\ target' = [target EXCEPT ![h] = browser[s]]
    /\ Goto(h, "write")
    /\ UNCHANGED <<now, storeVars, live, bound, agent, browser, buffer, bufBytes,
                   sendMu, sid, role, sock, msg, flush, closing, sweepVars, history>>

(* Mutant: the live write does not take sendMu.                            *)
ForwardWritesUnlocked(h) ==
    /\ pc[h] = "write"
    /\ sock[target[h]] = "open"
    /\ delivered' = [delivered EXCEPT ![sid[h]] = Append(@, msg[h])]
    /\ Goto(h, "touch")
    /\ UNCHANGED <<now, storeVars, sessVars, sid, role, sock, msg, target, flush,
                   closing, sweepVars, sent>>

ForwardWrites(h) ==
    LET s == sid[h] IN
    /\ pc[h] = "write"
    /\ sendMu[s] = None
    /\ \/ /\ sock[target[h]] = "open"
          /\ delivered' = [delivered EXCEPT ![s] = Append(@, msg[h])]
          /\ UNCHANGED sock
       \/ /\ WriteFails(target[h])
          /\ UNCHANGED delivered
    /\ Goto(h, "touch")
    /\ UNCHANGED <<now, storeVars, sessVars, sid, role, msg, target, flush, closing,
                   sweepVars, sent>>

Touch(h) ==
    /\ pc[h] = "touch"
    /\ Use(sid[h])
    /\ Goto(h, "serving")
    /\ UNCHANGED <<now, storeVars, live, bound, agent, browser, buffer, bufBytes,
                   sendMu, sid, role, sock, msg, target, flush, closing, sweepVars,
                   history>>

-----------------------------------------------------------------------------
(* The end of a connection.                                                *)

(* The read loop returns and its deferred call closes the connection.      *)
ReadEnds(h) ==
    /\ pc[h] = "serving"
    /\ sock' = [sock EXCEPT ![h] = "closed"]
    /\ Goto(h, "delete")
    /\ UNCHANGED <<now, storeVars, sessVars, sid, role, msg, target, flush, closing,
                   sweepVars, history>>

(* ... because the peer left, missed its pongs, sent an oversized or a     *)
(* binary frame, or, a viewer, sent any data at all ...                    *)
PeerEnds(h) == sock[h] # "closed" /\ ReadEnds(h)

(* ... or because CloseBoth closed the connection.                         *)
ClosedUnderReader(h) == sock[h] = "closed" /\ ReadEnds(h)

(* Mutant: the session is removed but not closed.                          *)
StoreDeleteOnly(h) ==
    /\ pc[h] = "delete"
    /\ store' = store \ {sid[h]}
    /\ Goto(h, "done")
    /\ UNCHANGED <<now, created, sessVars, sid, role, sock, msg, target, flush,
                   closing, sweepVars, history>>

(* SessionStore.Delete, the deferred call of relayAgent and relayBrowser.  *)
StoreDelete(h) ==
    /\ pc[h] = "delete"
    /\ store' = store \ {sid[h]}
    /\ Goto(h, IF sid[h] \in store THEN "closeBoth" ELSE "done")
    /\ UNCHANGED <<now, created, sessVars, sid, role, sock, msg, target, flush,
                   closing, sweepVars, history>>

(* Mutant: "else if" for the second connection.                            *)
ConnectionsElseIf(s) == IF agent[s] # None THEN <<agent[s]>> ELSE <<browser[s]>>

OneOrNone(c)   == IF c = None THEN <<>> ELSE <<c>>
Connections(s) == OneOrNone(agent[s]) \o OneOrNone(browser[s])

(* Mutant: the tokens survive.                                             *)
CloseBothKeepsTokens(c, s) ==
    /\ closing' = [closing EXCEPT ![c] = Connections(s)]
    /\ agent' = [agent EXCEPT ![s] = None]
    /\ browser' = [browser EXCEPT ![s] = None]
    /\ buffer' = [buffer EXCEPT ![s] = <<>>]
    /\ bufBytes' = [bufBytes EXCEPT ![s] = 0]
    /\ UNCHANGED <<live, lastUsed, bound, sendMu>>

(* CloseBoth's section under mu, run by c: everything is forgotten, the    *)
(* connections themselves are closed afterwards, the agent's first.        *)
CloseBoth(c, s) ==
    /\ closing' = [closing EXCEPT ![c] = Connections(s)]
    /\ agent' = [agent EXCEPT ![s] = None]
    /\ browser' = [browser EXCEPT ![s] = None]
    /\ buffer' = [buffer EXCEPT ![s] = <<>>]
    /\ bufBytes' = [bufBytes EXCEPT ![s] = 0]
    /\ live' = [live EXCEPT ![s] = FALSE]
    /\ UNCHANGED <<lastUsed, bound, sendMu>>

CloseNext(c) ==
    /\ closing[c] # <<>>
    /\ sock' = [sock EXCEPT ![Head(closing[c])] = "closed"]
    /\ closing' = [closing EXCEPT ![c] = Tail(@)]

DeleteCloses(h) ==
    /\ pc[h] = "closeBoth"
    /\ CloseBoth(h, sid[h])
    /\ Goto(h, "closing")
    /\ UNCHANGED <<now, storeVars, sid, role, sock, msg, target, flush, sweepVars,
                   history>>

DeleteClosesNext(h) ==
    /\ pc[h] = "closing"
    /\ CloseNext(h)
    /\ UNCHANGED <<now, storeVars, sessVars, pc, sid, role, msg, target, flush,
                   sweepVars, history>>

Return(h) ==
    /\ pc[h] = "closing" /\ closing[h] = <<>>
    /\ Goto(h, "done")
    /\ UNCHANGED <<now, storeVars, sessVars, sid, role, sock, msg, target, flush,
                   closing, sweepVars, history>>

-----------------------------------------------------------------------------
(* The sweeper: SessionStore.cleanup, once a minute.                       *)

SweepTick ==
    /\ sweepPc = "idle"
    /\ sweepNow' = now
    /\ sweepPc' = "scan"
    /\ UNCHANGED <<now, storeVars, sessVars, handlerVars, closing, stale, history>>

(* Mutant: only the idle time counts.                                      *)
IsIdle(s, t) == t - lastUsed[s] > TTL

IsExpired(s, t) == Expired(s, t) \/ t - lastUsed[s] > TTL

SweepScan ==
    /\ sweepPc = "scan"
    /\ stale' = {s \in store : IsExpired(s, sweepNow)}
    /\ store' = store \ stale'
    /\ sweepPc' = "close"
    /\ UNCHANGED <<now, created, sessVars, handlerVars, closing, sweepNow, history>>

(* Mutant: only the first stale session is closed.                         *)
SweepClosesFirst(s) ==
    /\ sweepPc = "close" /\ closing[Sweeper] = <<>>
    /\ s \in stale
    /\ stale' = {}
    /\ CloseBoth(Sweeper, s)
    /\ UNCHANGED <<now, storeVars, handlerVars, sweepPc, sweepNow, history>>

SweepCloses(s) ==
    /\ sweepPc = "close" /\ closing[Sweeper] = <<>>
    /\ s \in stale
    /\ stale' = stale \ {s}
    /\ CloseBoth(Sweeper, s)
    /\ UNCHANGED <<now, storeVars, handlerVars, sweepPc, sweepNow, history>>

SweepClosesNext ==
    /\ sweepPc = "close"
    /\ CloseNext(Sweeper)
    /\ UNCHANGED <<now, storeVars, sessVars, pc, sid, role, msg, target, flush,
                   sweepVars, history>>

SweepDone ==
    /\ sweepPc = "close" /\ stale = {} /\ closing[Sweeper] = <<>>
    /\ sweepPc' = "idle"
    /\ UNCHANGED <<now, storeVars, sessVars, handlerVars, closing, sweepNow, stale,
                   history>>

Sweep ==
    \/ SweepTick \/ SweepScan \/ SweepClosesNext \/ SweepDone
    \/ \E s \in Sessions : SweepCloses(s)

-----------------------------------------------------------------------------
(* What a handler does once it runs; its peer's choices are kept apart.    *)
Step(h) ==
    \/ Reserve(h) \/ Refuse(h)
    \/ UpgradeOK(h) \/ UpgradeFails(h) \/ Release(h)
    \/ SetAgent(h) \/ SetBrowser(h)
    \/ FlushWrite(h) \/ FlushBreaks(h) \/ FlushDone(h)
    \/ ForwardBuffers(h) \/ ForwardPicks(h) \/ ForwardWrites(h) \/ Touch(h)
    \/ ClosedUnderReader(h)
    \/ StoreDelete(h) \/ DeleteCloses(h) \/ DeleteClosesNext(h) \/ Return(h)

Peer(h) ==
    \/ \E s \in Sessions, r \in Roles : Lookup(h, s, r)
    \/ AgentReads(h)
    \/ PeerEnds(h)

Next ==
    \/ Tick
    \/ \E s \in Sessions : Create(s)
    \/ \E h \in Handlers : Step(h) \/ Peer(h)
    \/ Sweep

Spec == Init /\ [][Next]_vars

(* The runtime schedules every goroutine that can run, the ticker keeps    *)
(* firing and time goes on.  Nothing is assumed of the peers.              *)
Fairness ==
    /\ WF_vars(Tick)
    /\ WF_vars(Sweep)
    /\ \A h \in Handlers : WF_vars(Step(h))

FairSpec == Spec /\ Fairness

-----------------------------------------------------------------------------
(* Properties.                                                             *)

(* Two handlers never hold a WebSocket for the same role of a session, not *)
(* even one after the other: Reserve consumes "its one permitted binding"  *)
(* although lookup, reservation, upgrade and release are separate steps.   *)
OneBinding ==
    \A g, h \in Handlers :
        g # h /\ sid[g] = sid[h] /\ role[g] = role[h] /\ sock[g] # "none"
            => sock[h] = "none"

(* What the relay holds of a session, oldest first: written to the viewer, *)
(* being flushed by the holder of sendMu, buffered, carried by Forward.    *)
Flushing(s) == IF sendMu[s] = None THEN <<>> ELSE flush[sendMu[s]]
InFlight(s) ==
    IF \E h \in Handlers : sid[h] = s /\ pc[h] \in {"forward", "write"}
    THEN <<sent[s]>> ELSE <<>>
Pending(s)  == Flushing(s) \o buffer[s] \o InFlight(s)
Pipeline(s) == delivered[s] \o Pending(s)

(* The viewer gets frames in the order the agent sent them and none twice, *)
(* and no frame can still overtake another on its way: flush and live      *)
(* writes are serialised by sendMu, and a flushed buffer is not kept.      *)
FramesInOrder ==
    \A s \in Sessions :
        \A i, j \in 1..Len(Pipeline(s)) :
            i < j => Pipeline(s)[i] < Pipeline(s)[j]

SizeOf(q) ==
    LET total[i \in 0..Len(q)] ==
            IF i = 0 THEN 0 ELSE total[i - 1] + FrameSize[q[i]]
    IN  total[Len(q)]

(* The buffer keeps to both of its limits, and bufBytes is the size of what*)
(* is in it through drops, flushes and CloseBoth.  Frames wait only while  *)
(* no viewer is attached; one left there after SetBrowserAndFlush would    *)
(* never be sent.                                                          *)
BufferIsSound ==
    \A s \in Sessions :
        /\ Len(buffer[s]) <= MaxItems
        /\ bufBytes[s] <= MaxBytes
        /\ bufBytes[s] = SizeOf(buffer[s])
        /\ buffer[s] # <<>> => browser[s] = None

(* CloseBoth has not run: the session is stored, or whoever removed it is  *)
(* about to run it.                                                        *)
NotYetClosed(s) ==
    \/ s \in store
    \/ s \in stale
    \/ \E h \in Handlers : pc[h] = "closeBoth" /\ sid[h] = s

(* A session taken out of the store has its credentials cleared, or some   *)
(* goroutine is about to do it; one in the store has them.  Delete by      *)
(* either end and the sweeper race for the removal: exactly one wins.      *)
RemovedIsBeingClosed ==
    \A s \in Sessions : live[s] <=> NotYetClosed(s)

BeingClosed(h) == \E c \in Closers : \E i \in 1..Len(closing[c]) : closing[c][i] = h

(* A served connection is never lost: its session still refers to it, or   *)
(* it has been closed, or a CloseBoth under way has it on its list.        *)
NoLostConnection ==
    \A h \in Handlers :
        pc[h] \in {"flush", "serving", "forward", "write", "touch"}
            => \/ Connection(sid[h], role[h]) = h
               \/ sock[h] = "closed"
               \/ BeingClosed(h)

(* A handler that looked its session up before the session was removed     *)
(* cannot reserve it once CloseBoth has run or its TTL is over.            *)
NoLateReservation ==
    [][\A s \in Sessions :
          ~(bound'[s] \subseteq bound[s]) => NotYetClosed(s) /\ ~Expired(s, now)]_vars

(* The sweeper gets rid of every session that outlives its TTL.            *)
ExpiredIsRemoved ==
    \A s \in Sessions : s \in store /\ Expired(s, now) ~> s \notin store

Ending(s) == Expired(s, now) \/ \E g \in Handlers : pc[g] = "delete" /\ sid[g] = s

(* When the session expires or either end leaves, the socket attached to   *)
(* the session is closed, whoever removes the session.                     *)
PartnerIsClosed ==
    \A s \in Sessions, h \in Handlers :
        s \in store /\ Ending(s) /\ h \in {agent[s], browser[s]}
            ~> sock[h] = "closed"

(* A handler whose socket is closed returns: it waits for no lock forever. *)
HandlersReturn ==
    \A h \in Handlers : sock[h] = "closed" ~> pc[h] = "done"

-----------------------------------------------------------------------------
(* The channel of each session, RelayChannel, that this module implements. *)

Cut(s) ==
    \/ created[s] # -1 /\ ~live[s]
    \/ \E h \in Handlers :
          sid[h] = s /\ role[h] = "viewer" /\ sock[h] \in {"broken", "closed"}

Channel == INSTANCE RelayChannel WITH
    pending <- [s \in Sessions |-> Pending(s)],
    cut <- [s \in Sessions |-> Cut(s)]

(* Every session behaves as RelayChannel: a frame is refused only for lack *)
(* of room before the first delivery, nothing is lost while the session is *)
(* open and its viewer's socket works, and the order is kept throughout.   *)
ImplementsChannel == Channel!ChannelSpec
=============================================================================
