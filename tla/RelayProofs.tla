----------------------------- MODULE RelayProofs -----------------------------
(***************************************************************************)
(* Theorems about Relay for every number of sessions, requests and frames, *)
(* every TTL and every buffer limit.                                       *)
(***************************************************************************)
EXTENDS Relay, SequenceTheorems, TLAPS

(* What Next is made of, one disjunct per action.                          *)
HandlerStep(h) ==
    \/ \E s \in Sessions, r \in Roles : Lookup(h, s, r)
    \/ Reserve(h) \/ Refuse(h)
    \/ UpgradeOK(h) \/ UpgradeFails(h) \/ Release(h)
    \/ SetAgent(h) \/ SetBrowser(h)
    \/ FlushWrite(h) \/ FlushBreaks(h) \/ FlushDone(h)
    \/ AgentReads(h)
    \/ ForwardBuffers(h) \/ ForwardPicks(h) \/ ForwardWrites(h) \/ Touch(h)
    \/ ReadEnds(h)
    \/ StoreDelete(h) \/ DeleteCloses(h) \/ DeleteClosesNext(h) \/ Return(h)

(* Every step is the clock's, a creation, the sweeper's or one of a handler*)
(* (Step and Peer together).                                               *)
LEMMA NextIsHandlerStep ==
    Next => \/ Tick
            \/ \E s \in Sessions : Create(s)
            \/ \E h \in Handlers : HandlerStep(h)
            \/ Sweep
  BY DEF Next, Step, Peer, PeerEnds, ClosedUnderReader, HandlerStep

(* The connections CloseBoth collects are sockets of handlers.              *)
LEMMA ConnectionsType ==
    ASSUME TypeOK, NEW s \in Sessions
    PROVE  Connections(s) \in Seq(Handlers)
  BY DEF TypeOK, Connections, OneOrNone

(* Goto moves one handler to a place that exists and no other one.         *)
LEMMA GotoType ==
    ASSUME pc \in [Handlers -> PCs], NEW h \in Handlers, NEW to \in PCs, Goto(h, to)
    PROVE  /\ pc' \in [Handlers -> PCs]
           /\ pc'[h] = to
           /\ \A g \in Handlers : g # h => pc'[g] = pc[g]
  BY DEF Goto

(* CloseBoth keeps the types of all it assigns.                            *)
LEMMA CloseBothType ==
    ASSUME TypeOK, NEW c \in Closers, NEW s \in Sessions, CloseBoth(c, s)
    PROVE  /\ closing' \in [Closers -> Seq(Handlers)]
           /\ agent' \in [Sessions -> Handlers \cup {None}]
           /\ browser' \in [Sessions -> Handlers \cup {None}]
           /\ buffer' \in [Sessions -> Seq(Frames)]
           /\ bufBytes' \in [Sessions -> Nat]
           /\ live' \in [Sessions -> BOOLEAN]
           /\ UNCHANGED <<lastUsed, bound, sendMu>>
<1>1. Connections(s) \in Seq(Handlers)
  BY ConnectionsType
<1>2. closing' \in [Closers -> Seq(Handlers)]
  BY <1>1 DEF TypeOK, CloseBoth
<1>3. buffer' \in [Sessions -> Seq(Frames)]
  BY DEF TypeOK, CloseBoth
<1> QED
  BY <1>2, <1>3 DEF TypeOK, CloseBoth

(* Closing the next connection of a list keeps types.                      *)
LEMMA CloseNextType ==
    ASSUME TypeOK, NEW c \in Closers, CloseNext(c)
    PROVE  /\ closing' \in [Closers -> Seq(Handlers)]
           /\ sock' \in [Handlers -> {"none", "open", "broken", "closed"}]
<1>1. Head(closing[c]) \in Handlers /\ Tail(closing[c]) \in Seq(Handlers)
  BY HeadTailProperties DEF TypeOK, CloseNext
<1> QED
  BY <1>1 DEF TypeOK, CloseNext

(* Every reachable state is well typed.                                    *)
THEOREM TypeCorrect == Spec => []TypeOK
<1> USE RelayAssumption DEF Roles, Closers, Frames
<1>1. Init => TypeOK
  BY DEF Init, TypeOK, PCs
<1>2. TypeOK /\ [Next]_vars => TypeOK'
  <2> SUFFICES ASSUME TypeOK, [Next]_vars PROVE TypeOK'
    OBVIOUS
  <2> USE DEF storeVars, sessVars, handlerVars, sweepVars, history, Goto, Use
  <2>1. CASE Tick
    BY <2>1 DEF TypeOK, Tick
  <2>2. ASSUME NEW s \in Sessions, Create(s) PROVE TypeOK'
    BY <2>2 DEF TypeOK, Create
  <2>3. ASSUME NEW h \in Handlers, HandlerStep(h) PROVE TypeOK'
    <3>1. ASSUME NEW s \in Sessions, NEW r \in Roles, Lookup(h, s, r) PROVE TypeOK'
      BY <3>1 DEF TypeOK, Lookup, PCs
    <3>2. CASE Reserve(h)
      BY <3>2 DEF TypeOK, Reserve, PCs
    <3>3. CASE Refuse(h)
      BY <3>3 DEF TypeOK, Refuse, PCs
    <3>4. CASE UpgradeOK(h)
      BY <3>4 DEF TypeOK, UpgradeOK, PCs
    <3>5. CASE UpgradeFails(h)
      BY <3>5 DEF TypeOK, UpgradeFails, PCs
    <3>6. CASE Release(h)
      BY <3>6 DEF TypeOK, Release, PCs
    <3>7. CASE SetAgent(h)
      BY <3>7 DEF TypeOK, SetAgent, PCs
    <3>8. CASE SetBrowser(h)
      <4>1. sid[h] \in Sessions
        BY <3>8 DEF TypeOK, SetBrowser, PCs
      <4>2. /\ flush' \in [Handlers -> Seq(Frames)]
            /\ buffer' \in [Sessions -> Seq(Frames)]
        BY <3>8, <4>1 DEF TypeOK, SetBrowser
      <4>3. /\ sendMu' \in [Sessions -> Handlers \cup {None}]
            /\ browser' \in [Sessions -> Handlers \cup {None}]
            /\ bufBytes' \in [Sessions -> Nat]
            /\ lastUsed' \in [Sessions -> 0..MaxTime]
        BY <3>8, <4>1 DEF TypeOK, SetBrowser
      <4>4. pc' \in [Handlers -> PCs]
        BY <3>8 DEF TypeOK, SetBrowser, PCs
      <4>5. pc'[h] = "flush" /\ \A g \in Handlers : g # h => pc'[g] = pc[g]
        BY <3>8, GotoType DEF TypeOK, SetBrowser, PCs
      <4>6. \A g \in Handlers :
              /\ pc'[g] \notin {"idle", "done"} => sid'[g] \in Sessions
              /\ pc'[g] \in {"forward", "write"} => msg'[g] \in Frames
              /\ pc'[g] = "write" => target'[g] \in Handlers
        BY <3>8, <4>1, <4>5 DEF TypeOK, SetBrowser
      <4> QED
        BY <3>8, <4>2, <4>3, <4>4, <4>6 DEF TypeOK, SetBrowser
    <3>9. CASE FlushWrite(h)
      <4>1. sid[h] \in Sessions
        BY <3>9 DEF TypeOK, FlushWrite, PCs
      <4>2. Head(flush[h]) \in Frames /\ Tail(flush[h]) \in Seq(Frames)
        BY <3>9, HeadTailProperties DEF TypeOK, FlushWrite
      <4>3. flush' \in [Handlers -> Seq(Frames)]
        BY <3>9, <4>2 DEF TypeOK, FlushWrite
      <4>4. Append(delivered[sid[h]], Head(flush[h])) \in Seq(Frames)
        BY <4>1, <4>2, AppendProperties DEF TypeOK
      <4>5. delivered' \in [Sessions -> Seq(Frames)]
        BY <3>9, <4>1, <4>4 DEF TypeOK, FlushWrite
      <4> QED
        BY <3>9, <4>3, <4>5 DEF TypeOK, FlushWrite
    <3>10. CASE FlushBreaks(h)
      <4>1. flush' \in [Handlers -> Seq(Frames)]
        BY <3>10 DEF TypeOK, FlushBreaks
      <4>2. sock' \in [Handlers -> {"none", "open", "broken", "closed"}]
        BY <3>10 DEF TypeOK, FlushBreaks, WriteFails
      <4> QED
        BY <3>10, <4>1, <4>2 DEF TypeOK, FlushBreaks
    <3>11. CASE FlushDone(h)
      BY <3>11 DEF TypeOK, FlushDone, PCs
    <3>12. CASE AgentReads(h)
      <4>1. sid[h] \in Sessions
        BY <3>12 DEF TypeOK, AgentReads, PCs
      <4>2. sent[sid[h]] + 1 \in Frames
        BY <3>12, <4>1 DEF TypeOK, AgentReads
      <4>3. /\ sent' \in [Sessions -> 0..MaxFrames]
            /\ msg' \in [Handlers -> 0..MaxFrames]
            /\ msg'[h] \in Frames
            /\ \A g \in Handlers \ {h} : msg'[g] = msg[g]
        BY <3>12, <4>1, <4>2 DEF TypeOK, AgentReads
      <4>4. /\ pc' \in [Handlers -> PCs]
            /\ pc'[h] = "forward"
            /\ \A g \in Handlers \ {h} : pc'[g] = pc[g]
        BY <3>12 DEF TypeOK, AgentReads, PCs
      <4> QED
        BY <3>12, <4>1, <4>3, <4>4 DEF TypeOK, AgentReads
    <3>13. CASE ForwardBuffers(h)
      <4>1. sid[h] \in Sessions /\ msg[h] \in Frames
        BY <3>13 DEF TypeOK, ForwardBuffers, PCs
      <4>2. Append(buffer[sid[h]], msg[h]) \in Seq(Frames)
        BY <4>1, AppendProperties DEF TypeOK
      <4>3. buffer' \in [Sessions -> Seq(Frames)]
        BY <3>13, <4>1, <4>2 DEF TypeOK, ForwardBuffers
      <4>4. bufBytes' \in [Sessions -> Nat]
        <5>1. bufBytes[sid[h]] + FrameSize[msg[h]] \in Nat
          BY <4>1 DEF TypeOK
        <5>2. CASE HasRoom(sid[h], msg[h])
          BY <3>13, <5>1, <5>2 DEF TypeOK, ForwardBuffers
        <5>3. CASE ~HasRoom(sid[h], msg[h])
          BY <3>13, <5>3 DEF TypeOK, ForwardBuffers
        <5> QED
          BY <5>2, <5>3
      <4>5. lastUsed' \in [Sessions -> 0..MaxTime]
        BY <3>13 DEF TypeOK, ForwardBuffers
      <4>6. /\ pc' \in [Handlers -> PCs]
            /\ pc'[h] = "touch"
            /\ \A g \in Handlers : g # h => pc'[g] = pc[g]
        BY <3>13, GotoType DEF TypeOK, ForwardBuffers, PCs
      <4> QED
        BY <3>13, <4>1, <4>3, <4>4, <4>5, <4>6 DEF TypeOK, ForwardBuffers
    <3>14. CASE ForwardPicks(h)
      BY <3>14 DEF TypeOK, ForwardPicks, PCs
    <3>15. CASE ForwardWrites(h)
      <4>1. sid[h] \in Sessions /\ msg[h] \in Frames
        BY <3>15 DEF TypeOK, ForwardWrites, PCs
      <4>2. Append(delivered[sid[h]], msg[h]) \in Seq(Frames)
        BY <4>1, AppendProperties DEF TypeOK
      <4>3. delivered' \in [Sessions -> Seq(Frames)]
        BY <3>15, <4>1, <4>2 DEF TypeOK, ForwardWrites
      <4>4. sock' \in [Handlers -> {"none", "open", "broken", "closed"}]
        BY <3>15 DEF TypeOK, ForwardWrites, WriteFails
      <4>5. /\ pc' \in [Handlers -> PCs]
            /\ pc'[h] = "touch"
            /\ \A g \in Handlers : g # h => pc'[g] = pc[g]
        BY <3>15, GotoType DEF TypeOK, ForwardWrites, PCs
      <4> QED
        BY <3>15, <4>1, <4>3, <4>4, <4>5 DEF TypeOK, ForwardWrites
    <3>16. CASE Touch(h)
      BY <3>16 DEF TypeOK, Touch, PCs
    <3>17. CASE ReadEnds(h)
      BY <3>17 DEF TypeOK, ReadEnds, PCs
    <3>18. CASE StoreDelete(h)
      BY <3>18 DEF TypeOK, StoreDelete, PCs
    <3>19. CASE DeleteCloses(h)
      <4>1. sid[h] \in Sessions
        BY <3>19 DEF TypeOK, DeleteCloses, PCs
      <4>2. CloseBoth(h, sid[h])
        BY <3>19 DEF DeleteCloses
      <4>3. /\ pc' \in [Handlers -> PCs]
            /\ pc'[h] = "closing"
            /\ \A g \in Handlers : g # h => pc'[g] = pc[g]
        BY <3>19, GotoType DEF TypeOK, DeleteCloses, PCs
      <4> QED
        BY <3>19, <4>1, <4>2, <4>3, CloseBothType DEF TypeOK, DeleteCloses
    <3>20. CASE DeleteClosesNext(h)
      <4>1. CloseNext(h)
        BY <3>20 DEF DeleteClosesNext
      <4> QED
        BY <3>20, <4>1, CloseNextType DEF TypeOK, DeleteClosesNext
    <3>21. CASE Return(h)
      BY <3>21 DEF TypeOK, Return, PCs
    <3> QED
      BY <2>3, <3>1, <3>2, <3>3, <3>4, <3>5, <3>6, <3>7, <3>8, <3>9, <3>10, <3>11,
         <3>12, <3>13, <3>14, <3>15, <3>16, <3>17, <3>18, <3>19, <3>20, <3>21
         DEF HandlerStep
  <2>4. CASE Sweep
    <3>1. CASE SweepTick
      BY <3>1 DEF TypeOK, SweepTick
    <3>2. CASE SweepScan
      BY <3>2 DEF TypeOK, SweepScan
    <3>3. ASSUME NEW s \in Sessions, SweepCloses(s) PROVE TypeOK'
      <4>1. CloseBoth(Sweeper, s)
        BY <3>3 DEF SweepCloses
      <4> QED
        BY <3>3, <4>1, CloseBothType DEF TypeOK, SweepCloses
    <3>4. CASE SweepClosesNext
      <4>1. CloseNext(Sweeper)
        BY <3>4 DEF SweepClosesNext
      <4> QED
        BY <3>4, <4>1, CloseNextType DEF TypeOK, SweepClosesNext
    <3>5. CASE SweepDone
      BY <3>5 DEF TypeOK, SweepDone
    <3> QED
      BY <2>4, <3>1, <3>2, <3>3, <3>4, <3>5 DEF Sweep
  <2>5. CASE UNCHANGED vars
    BY <2>5 DEF TypeOK, vars
  <2> QED
    BY <2>1, <2>2, <2>3, <2>4, <2>5, NextIsHandlerStep
<1> QED
  BY <1>1, <1>2, PTL DEF Spec

-----------------------------------------------------------------------------
(* One binding per role.  The invariant behind it: a handler holds a role  *)
(* from its reservation until it releases it or for good; holders are in   *)
(* "bound"; and only holders have sockets, attached ones and those on the  *)
(* list of a CloseBoth included.                                           *)

Unbound == {"idle", "reserve", "upgrade", "release"}
Holds(h) == pc[h] \in {"upgrade", "release"} \/ sock[h] # "none"

SocketFollowsPc ==
    \A h \in Handlers :
        /\ pc[h] \in Unbound => sock[h] = "none"
        /\ pc[h] \notin Unbound \cup {"done"} => sock[h] # "none"
        /\ sock[h] # "none" => sid[h] \in Sessions

AttachedHaveSockets ==
    /\ \A s \in Sessions : /\ agent[s] # None => sock[agent[s]] # "none"
                           /\ browser[s] # None => sock[browser[s]] # "none"
    /\ \A c \in Closers : \A i \in 1..Len(closing[c]) : sock[closing[c][i]] # "none"

HeldIsBound == \A h \in Handlers : Holds(h) => role[h] \in bound[sid[h]]

HeldOnce ==
    \A g, h \in Handlers :
        g # h /\ Holds(g) /\ Holds(h) => sid[g] # sid[h] \/ role[g] # role[h]

SocketInv  == SocketFollowsPc /\ AttachedHaveSockets
BindingInv == SocketInv /\ HeldIsBound /\ HeldOnce

(* Whatever CloseBoth will close is attached to the session.              *)
LEMMA ConnectionsElements ==
    ASSUME TypeOK, NEW s \in Sessions, NEW i \in 1..Len(Connections(s))
    PROVE  Connections(s)[i] # None /\ Connections(s)[i] \in {agent[s], browser[s]}
<1>1. CASE agent[s] = None
  BY <1>1 DEF Connections, OneOrNone
<1>2. CASE agent[s] # None /\ browser[s] = None
  BY <1>2 DEF Connections, OneOrNone
<1>3. CASE agent[s] # None /\ browser[s] # None
  BY <1>3 DEF Connections, OneOrNone
<1> QED
  BY <1>1, <1>2, <1>3

(* A step that keeps the sockets, the holders and the lists of CloseBoth   *)
(* keeps the whole invariant.                                              *)
LEMMA QuietStep ==
    ASSUME TypeOK, BindingInv,
           UNCHANGED <<bound, sid, role>>,
           \A h \in Handlers : sock[h] # "none" <=> sock'[h] # "none",
           \A h \in Handlers :
               \/ pc'[h] = pc[h]
               \/ pc[h] \notin Unbound \cup {"done"} /\ pc'[h] \notin Unbound,
           \A s \in Sessions :
               /\ agent'[s] # None => sock[agent'[s]] # "none" /\ agent'[s] \in Handlers
               /\ browser'[s] # None
                    => sock[browser'[s]] # "none" /\ browser'[s] \in Handlers,
           \A c \in Closers : \A i \in 1..Len(closing'[c]) :
               closing'[c][i] \in Handlers /\ sock[closing'[c][i]] # "none"
    PROVE  BindingInv'
<1>1. \A h \in Handlers : Holds(h)' => Holds(h)
  BY DEF Holds, Unbound, TypeOK
<1>2. SocketFollowsPc'
  BY DEF BindingInv, SocketInv, SocketFollowsPc, Unbound, TypeOK
<1>3. AttachedHaveSockets'
  BY DEF AttachedHaveSockets
<1>4. HeldIsBound'
  BY <1>1 DEF BindingInv, HeldIsBound
<1>5. HeldOnce'
  BY <1>1 DEF BindingInv, HeldOnce
<1> QED
  BY <1>2, <1>3, <1>4, <1>5 DEF BindingInv, SocketInv

(* An attached or listed connection belongs to a handler with a socket.    *)
LEMMA AttachedAreHandlers ==
    ASSUME TypeOK, BindingInv
    PROVE  /\ \A s \in Sessions :
                /\ agent[s] # None => sock[agent[s]] # "none" /\ agent[s] \in Handlers
                /\ browser[s] # None
                     => sock[browser[s]] # "none" /\ browser[s] \in Handlers
           /\ \A c \in Closers : \A i \in 1..Len(closing[c]) :
                closing[c][i] \in Handlers /\ sock[closing[c][i]] # "none"
  BY DEF TypeOK, BindingInv, SocketInv, AttachedHaveSockets

(* CloseBoth attaches nothing: the invariant survives it.                  *)
LEMMA CloseBothQuiet ==
    ASSUME TypeOK, BindingInv, NEW c \in Closers, NEW s \in Sessions, CloseBoth(c, s)
    PROVE  /\ \A r \in Sessions :
                /\ agent'[r] # None => sock[agent'[r]] # "none" /\ agent'[r] \in Handlers
                /\ browser'[r] # None
                     => sock[browser'[r]] # "none" /\ browser'[r] \in Handlers
           /\ \A d \in Closers : \A i \in 1..Len(closing'[d]) :
                closing'[d][i] \in Handlers /\ sock[closing'[d][i]] # "none"
           /\ UNCHANGED bound
<1>1. \A i \in 1..Len(Connections(s)) :
         Connections(s)[i] \in Handlers /\ sock[Connections(s)[i]] # "none"
  BY ConnectionsElements, AttachedAreHandlers
<1>2. \A d \in Closers : closing'[d] = IF d = c THEN Connections(s) ELSE closing[d]
  BY DEF CloseBoth, TypeOK
<1>3. \A d \in Closers : \A i \in 1..Len(closing'[d]) :
         closing'[d][i] \in Handlers /\ sock[closing'[d][i]] # "none"
  BY <1>1, <1>2, AttachedAreHandlers
<1>4. \A r \in Sessions : /\ agent'[r] = IF r = s THEN None ELSE agent[r]
                          /\ browser'[r] = IF r = s THEN None ELSE browser[r]
  BY DEF CloseBoth, TypeOK
<1> QED
  BY <1>3, <1>4, AttachedAreHandlers DEF CloseBoth

(* Closing a connection neither opens nor attaches one.                    *)
LEMMA CloseNextQuiet ==
    ASSUME TypeOK, BindingInv, NEW c \in Closers, CloseNext(c)
    PROVE  /\ \A h \in Handlers : sock[h] # "none" <=> sock'[h] # "none"
           /\ \A d \in Closers : \A i \in 1..Len(closing'[d]) :
                closing'[d][i] \in Handlers /\ sock[closing'[d][i]] # "none"
<1>1. closing[c] \in Seq(Handlers) /\ closing[c] # <<>>
  BY DEF TypeOK, CloseNext
<1>2. /\ Head(closing[c]) = closing[c][1] /\ 1 \in 1..Len(closing[c])
      /\ Len(Tail(closing[c])) = Len(closing[c]) - 1
      /\ \A i \in 1..Len(Tail(closing[c])) :
            Tail(closing[c])[i] = closing[c][i + 1] /\ i + 1 \in 1..Len(closing[c])
  BY <1>1
<1>3. \A h \in Handlers : sock[h] # "none" <=> sock'[h] # "none"
  BY <1>2, AttachedAreHandlers DEF CloseNext, TypeOK
<1>4. \A d \in Closers : closing'[d] = IF d = c THEN Tail(closing[c]) ELSE closing[d]
  BY DEF CloseNext, TypeOK
<1>5. ASSUME NEW d \in Closers, NEW i \in 1..Len(closing'[d])
      PROVE  closing'[d][i] \in Handlers /\ sock[closing'[d][i]] # "none"
  <2>1. CASE d = c
    <3>1. closing'[d] = Tail(closing[c])
      BY <1>4, <2>1
    <3>2. closing'[d][i] = closing[c][i + 1] /\ i + 1 \in 1..Len(closing[c])
      BY <1>2, <3>1
    <3> QED
      BY <3>2, AttachedAreHandlers
  <2>2. CASE d # c
    BY <1>4, <2>2, AttachedAreHandlers
  <2> QED
    BY <2>1, <2>2
<1> QED
  BY <1>3, <1>5

(* BindingInv is inductive.                                                *)
LEMMA BindingInductive ==
    ASSUME TypeOK, BindingInv, [Next]_vars
    PROVE  BindingInv'
<1> USE RelayAssumption
    DEF storeVars, sessVars, handlerVars, sweepVars, history, Goto, Use
<1> DEFINE Inv == /\ SocketFollowsPc /\ AttachedHaveSockets
                  /\ HeldIsBound /\ HeldOnce
<1>0. Inv
  BY DEF BindingInv, SocketInv
<1>1. CASE Tick
  BY <1>1, QuietStep, AttachedAreHandlers DEF Tick
<1>2. ASSUME NEW s \in Sessions, Create(s) PROVE BindingInv'
  BY <1>2, QuietStep, AttachedAreHandlers DEF Create
<1>3. ASSUME NEW h \in Handlers, HandlerStep(h) PROVE BindingInv'
  <2>1. ASSUME NEW s \in Sessions, NEW r \in Roles, Lookup(h, s, r) PROVE BindingInv'
    <3>1. /\ pc[h] = "idle" /\ pc'[h] = "reserve" /\ sock[h] = "none"
          /\ \A g \in Handlers : g # h => /\ pc'[g] = pc[g]
                                          /\ sid'[g] = sid[g]
                                          /\ role'[g] = role[g]
          /\ UNCHANGED <<sock, bound, agent, browser, closing>>
      BY <2>1, <1>0 DEF Lookup, TypeOK, SocketFollowsPc, Unbound
    <3>2. \A g \in Handlers : Holds(g)' => Holds(g) /\ g # h
      BY <3>1 DEF Holds
    <3> QED
      BY <1>0, <3>1, <3>2 DEF BindingInv, SocketInv, SocketFollowsPc, Unbound,
         AttachedHaveSockets, HeldIsBound, HeldOnce
  <2>2. CASE Reserve(h)
    <3>1. /\ pc[h] = "reserve" /\ pc'[h] = "upgrade" /\ sock[h] = "none"
          /\ sid[h] \in Sessions /\ role[h] \notin bound[sid[h]]
          /\ \A g \in Handlers : g # h => pc'[g] = pc[g]
          /\ UNCHANGED <<sock, sid, role, agent, browser, closing>>
      BY <2>2, <1>0 DEF Reserve, TypeOK, SocketFollowsPc, Unbound
    <3>2. \A s \in Sessions :
             bound'[s] = IF s = sid[h] THEN bound[s] \cup {role[h]} ELSE bound[s]
      BY <2>2 DEF Reserve, TypeOK
    <3>3. \A g \in Handlers : Holds(g)' => g = h \/ Holds(g)
      BY <3>1 DEF Holds
    <3>4. \A g \in Handlers : Holds(g) => sid[g] \in Sessions
      BY <1>0 DEF Holds, SocketFollowsPc, TypeOK
    <3>5. HeldIsBound'
      BY <1>0, <3>1, <3>2, <3>3, <3>4 DEF HeldIsBound
    <3>6. HeldOnce'
      BY <1>0, <3>1, <3>3 DEF HeldIsBound, HeldOnce
    <3> QED
      BY <1>0, <3>1, <3>5, <3>6 DEF BindingInv, SocketInv, SocketFollowsPc, Unbound,
         AttachedHaveSockets
  <2>3. CASE Refuse(h)
    <3>1. /\ pc[h] = "reserve" /\ pc'[h] = "done" /\ sock[h] = "none"
          /\ \A g \in Handlers : g # h => pc'[g] = pc[g]
          /\ UNCHANGED <<sock, sid, role, bound, agent, browser, closing>>
      BY <2>3, <1>0 DEF Refuse, TypeOK, SocketFollowsPc, Unbound
    <3>2. \A g \in Handlers : Holds(g)' => Holds(g)
      BY <3>1 DEF Holds
    <3> QED
      BY <1>0, <3>1, <3>2 DEF BindingInv, SocketInv, SocketFollowsPc, Unbound,
         AttachedHaveSockets, HeldIsBound, HeldOnce
  <2>4. CASE UpgradeOK(h)
    <3>1. /\ pc[h] = "upgrade" /\ pc'[h] = "bind" /\ sock'[h] = "open"
          /\ sid[h] \in Sessions
          /\ \A g \in Handlers : g # h => pc'[g] = pc[g] /\ sock'[g] = sock[g]
          /\ UNCHANGED <<sid, role, bound, agent, browser, closing>>
      BY <2>4 DEF UpgradeOK, TypeOK
    <3>2. \A g \in Handlers : Holds(g)' => Holds(g)
      BY <3>1 DEF Holds
    <3>3. AttachedHaveSockets'
      BY <3>1, AttachedAreHandlers DEF AttachedHaveSockets
    <3> QED
      BY <1>0, <3>1, <3>2, <3>3 DEF BindingInv, SocketInv, SocketFollowsPc, Unbound,
         HeldIsBound, HeldOnce
  <2>5. CASE UpgradeFails(h)
    <3>1. /\ pc[h] = "upgrade" /\ pc'[h] = "release" /\ sock[h] = "none"
          /\ \A g \in Handlers : g # h => pc'[g] = pc[g]
          /\ UNCHANGED <<sock, sid, role, bound, agent, browser, closing>>
      BY <2>5, <1>0 DEF UpgradeFails, TypeOK, SocketFollowsPc, Unbound
    <3>2. \A g \in Handlers : Holds(g)' => Holds(g)
      BY <3>1 DEF Holds
    <3> QED
      BY <1>0, <3>1, <3>2 DEF BindingInv, SocketInv, SocketFollowsPc, Unbound,
         AttachedHaveSockets, HeldIsBound, HeldOnce
  <2>6. CASE Release(h)
    <3>1. /\ pc[h] = "release" /\ pc'[h] = "done" /\ sock[h] = "none"
          /\ \A g \in Handlers : g # h => pc'[g] = pc[g]
          /\ UNCHANGED <<sock, sid, role, agent, browser, closing>>
      BY <2>6, <1>0 DEF Release, TypeOK, SocketFollowsPc, Unbound
    <3>2. \A s \in Sessions : \A r \in Roles :
             r \in bound[s] => r \in bound'[s] \/ (s = sid[h] /\ r = role[h])
      BY <2>6 DEF Release, TypeOK
    <3>3. \A g \in Handlers : Holds(g)' => Holds(g) /\ g # h
      BY <3>1 DEF Holds
    <3>4. \A g \in Handlers :
             Holds(g) => sid[g] \in Sessions /\ role[g] \in Roles
      BY <1>0 DEF Holds, SocketFollowsPc, TypeOK
    <3>5. Holds(h)
      BY <3>1 DEF Holds
    <3>6. HeldIsBound'
      BY <1>0, <3>1, <3>2, <3>3, <3>4, <3>5 DEF HeldIsBound, HeldOnce
    <3> QED
      BY <1>0, <3>1, <3>3, <3>6 DEF BindingInv, SocketInv, SocketFollowsPc, Unbound,
         AttachedHaveSockets, HeldOnce
  <2>7. CASE SetAgent(h)
    <3>1. sock[h] # "none" /\ sid[h] \in Sessions
      BY <2>7, <1>0 DEF SetAgent, SocketFollowsPc, Unbound, TypeOK
    <3> QED
      BY <2>7, <3>1, QuietStep, AttachedAreHandlers DEF SetAgent, Unbound, TypeOK
  <2>8. CASE SetBrowser(h)
    <3>1. sock[h] # "none" /\ sid[h] \in Sessions
      BY <2>8, <1>0 DEF SetBrowser, SocketFollowsPc, Unbound, TypeOK
    <3>2. /\ UNCHANGED <<sock, sid, role, bound, agent, closing>>
          /\ \A s \in Sessions : browser'[s] = IF s = sid[h] THEN h ELSE browser[s]
          /\ pc[h] = "bind" /\ pc'[h] = "flush"
          /\ \A g \in Handlers : g # h => pc'[g] = pc[g]
      BY <2>8, <3>1 DEF SetBrowser, TypeOK
    <3> QED
      BY <3>1, <3>2, QuietStep, AttachedAreHandlers DEF Unbound
  <2>9. CASE FlushWrite(h)
    <3>1. /\ UNCHANGED <<sid, role, bound, agent, browser, closing>>
          /\ \A g \in Handlers : sock[g] # "none" <=> sock'[g] # "none"
      BY <2>9 DEF FlushWrite, TypeOK
    <3>2. \A g \in Handlers :
             \/ pc'[g] = pc[g]
             \/ pc[g] \notin Unbound \cup {"done"} /\ pc'[g] \notin Unbound
      BY <2>9 DEF FlushWrite, Unbound, TypeOK
    <3> QED
      BY <3>1, <3>2, QuietStep, AttachedAreHandlers
  <2>10. CASE FlushBreaks(h)
    <3>1. /\ UNCHANGED <<sid, role, bound, agent, browser, closing>>
          /\ \A g \in Handlers : sock[g] # "none" <=> sock'[g] # "none"
      BY <2>10 DEF FlushBreaks, WriteFails, TypeOK
    <3>2. \A g \in Handlers :
             \/ pc'[g] = pc[g]
             \/ pc[g] \notin Unbound \cup {"done"} /\ pc'[g] \notin Unbound
      BY <2>10 DEF FlushBreaks, Unbound, TypeOK
    <3> QED
      BY <3>1, <3>2, QuietStep, AttachedAreHandlers
  <2>11. CASE FlushDone(h)
    <3>1. /\ UNCHANGED <<sid, role, bound, agent, browser, closing>>
          /\ \A g \in Handlers : sock[g] # "none" <=> sock'[g] # "none"
      BY <2>11 DEF FlushDone, TypeOK
    <3>2. \A g \in Handlers :
             \/ pc'[g] = pc[g]
             \/ pc[g] \notin Unbound \cup {"done"} /\ pc'[g] \notin Unbound
      BY <2>11 DEF FlushDone, Unbound, TypeOK
    <3> QED
      BY <3>1, <3>2, QuietStep, AttachedAreHandlers
  <2>12. CASE AgentReads(h)
    <3>1. /\ UNCHANGED <<sid, role, bound, agent, browser, closing>>
          /\ \A g \in Handlers : sock[g] # "none" <=> sock'[g] # "none"
      BY <2>12 DEF AgentReads, TypeOK
    <3>2. \A g \in Handlers :
             \/ pc'[g] = pc[g]
             \/ pc[g] \notin Unbound \cup {"done"} /\ pc'[g] \notin Unbound
      BY <2>12 DEF AgentReads, Unbound, TypeOK
    <3> QED
      BY <3>1, <3>2, QuietStep, AttachedAreHandlers
  <2>13. CASE ForwardBuffers(h)
    <3>1. /\ UNCHANGED <<sid, role, bound, agent, browser, closing>>
          /\ \A g \in Handlers : sock[g] # "none" <=> sock'[g] # "none"
      BY <2>13 DEF ForwardBuffers, TypeOK
    <3>2. \A g \in Handlers :
             \/ pc'[g] = pc[g]
             \/ pc[g] \notin Unbound \cup {"done"} /\ pc'[g] \notin Unbound
      BY <2>13 DEF ForwardBuffers, Unbound, TypeOK
    <3> QED
      BY <3>1, <3>2, QuietStep, AttachedAreHandlers
  <2>14. CASE ForwardPicks(h)
    <3>1. /\ UNCHANGED <<sid, role, bound, agent, browser, closing>>
          /\ \A g \in Handlers : sock[g] # "none" <=> sock'[g] # "none"
      BY <2>14 DEF ForwardPicks, TypeOK
    <3>2. \A g \in Handlers :
             \/ pc'[g] = pc[g]
             \/ pc[g] \notin Unbound \cup {"done"} /\ pc'[g] \notin Unbound
      BY <2>14 DEF ForwardPicks, Unbound, TypeOK
    <3> QED
      BY <3>1, <3>2, QuietStep, AttachedAreHandlers
  <2>15. CASE ForwardWrites(h)
    <3>1. /\ UNCHANGED <<sid, role, bound, agent, browser, closing>>
          /\ \A g \in Handlers : sock[g] # "none" <=> sock'[g] # "none"
      BY <2>15 DEF ForwardWrites, WriteFails, TypeOK
    <3>2. \A g \in Handlers :
             \/ pc'[g] = pc[g]
             \/ pc[g] \notin Unbound \cup {"done"} /\ pc'[g] \notin Unbound
      BY <2>15 DEF ForwardWrites, Unbound, TypeOK
    <3> QED
      BY <3>1, <3>2, QuietStep, AttachedAreHandlers
  <2>16. CASE Touch(h)
    <3>1. /\ UNCHANGED <<sid, role, bound, agent, browser, closing>>
          /\ \A g \in Handlers : sock[g] # "none" <=> sock'[g] # "none"
      BY <2>16 DEF Touch, TypeOK
    <3>2. \A g \in Handlers :
             \/ pc'[g] = pc[g]
             \/ pc[g] \notin Unbound \cup {"done"} /\ pc'[g] \notin Unbound
      BY <2>16 DEF Touch, Unbound, TypeOK
    <3> QED
      BY <3>1, <3>2, QuietStep, AttachedAreHandlers
  <2>17. CASE ReadEnds(h)
    <3>1. sock[h] # "none"
      BY <2>17, <1>0 DEF ReadEnds, SocketFollowsPc, Unbound
    <3>2. /\ UNCHANGED <<sid, role, bound, agent, browser, closing>>
          /\ \A g \in Handlers : sock[g] # "none" <=> sock'[g] # "none"
          /\ pc[h] = "serving" /\ pc'[h] = "delete"
          /\ \A g \in Handlers : g # h => pc'[g] = pc[g]
      BY <2>17, <3>1 DEF ReadEnds, TypeOK
    <3> QED
      BY <3>2, QuietStep, AttachedAreHandlers DEF Unbound
  <2>18. CASE StoreDelete(h)
    <3>1. UNCHANGED <<sock, sid, role, bound, agent, browser, closing>>
      BY <2>18 DEF StoreDelete
    <3>2. \A g \in Handlers :
             \/ pc'[g] = pc[g]
             \/ pc[g] \notin Unbound \cup {"done"} /\ pc'[g] \notin Unbound
      BY <2>18 DEF StoreDelete, Unbound, TypeOK
    <3> QED
      BY <3>1, <3>2, QuietStep, AttachedAreHandlers
  <2>19. CASE Return(h)
    <3>1. UNCHANGED <<sock, sid, role, bound, agent, browser, closing>>
      BY <2>19 DEF Return
    <3>2. \A g \in Handlers :
             \/ pc'[g] = pc[g]
             \/ pc[g] \notin Unbound \cup {"done"} /\ pc'[g] \notin Unbound
      BY <2>19 DEF Return, Unbound, TypeOK
    <3> QED
      BY <3>1, <3>2, QuietStep, AttachedAreHandlers
  <2>20. CASE DeleteCloses(h)
    <3>1. CloseBoth(h, sid[h]) /\ sid[h] \in Sessions /\ h \in Closers
      BY <2>20 DEF DeleteCloses, TypeOK, Closers
    <3>2. /\ UNCHANGED <<sock, sid, role>>
          /\ pc[h] = "closeBoth" /\ pc'[h] = "closing"
          /\ \A g \in Handlers : g # h => pc'[g] = pc[g]
      BY <2>20 DEF DeleteCloses, TypeOK
    <3> QED
      BY <3>1, <3>2, QuietStep, CloseBothQuiet DEF Unbound
  <2>21. CASE DeleteClosesNext(h)
    <3>1. CloseNext(h) /\ h \in Closers
      BY <2>21 DEF DeleteClosesNext, Closers
    <3>2. UNCHANGED <<pc, sid, role, bound, agent, browser>>
      BY <2>21 DEF DeleteClosesNext
    <3> QED
      BY <3>1, <3>2, QuietStep, CloseNextQuiet, AttachedAreHandlers
  <2> QED
    BY <1>3, <2>1, <2>2, <2>3, <2>4, <2>5, <2>6, <2>7, <2>8, <2>9, <2>10, <2>11, <2>12, <2>13,
       <2>14, <2>15, <2>16, <2>17, <2>18, <2>19, <2>20, <2>21
       DEF HandlerStep
<1>4. CASE Sweep
  <2>1. CASE SweepTick \/ SweepScan \/ SweepDone
    BY <2>1, QuietStep, AttachedAreHandlers DEF SweepTick, SweepScan, SweepDone
  <2>2. ASSUME NEW s \in Sessions, SweepCloses(s) PROVE BindingInv'
    <3>1. CloseBoth(Sweeper, s) /\ Sweeper \in Closers /\ UNCHANGED <<pc, sock, sid, role>>
      BY <2>2 DEF SweepCloses, Closers
    <3> QED
      BY <3>1, QuietStep, CloseBothQuiet
  <2>3. CASE SweepClosesNext
    <3>1. /\ CloseNext(Sweeper) /\ Sweeper \in Closers
          /\ UNCHANGED <<pc, sid, role, bound, agent, browser>>
      BY <2>3 DEF SweepClosesNext, Closers
    <3> QED
      BY <3>1, QuietStep, CloseNextQuiet, AttachedAreHandlers
  <2> QED
    BY <1>4, <2>1, <2>2, <2>3 DEF Sweep
<1>5. CASE UNCHANGED vars
  BY <1>5, QuietStep, AttachedAreHandlers DEF vars
<1> QED
  BY <1>1, <1>2, <1>3, <1>4, <1>5, NextIsHandlerStep

(* BindingInv holds in every reachable state.                              *)
LEMMA BindingInvariant == Spec => []BindingInv
<1>1. Init => BindingInv
  BY RelayAssumption DEF Init, BindingInv, SocketInv, SocketFollowsPc, Unbound,
     AttachedHaveSockets, HeldIsBound, HeldOnce, Holds
<1>2. TypeOK /\ BindingInv /\ [Next]_vars => BindingInv'
  BY BindingInductive
<1> QED
  BY <1>1, <1>2, TypeCorrect, PTL DEF Spec

(* Two handlers never hold a WebSocket for the same role of one session:   *)
(* Reserve, Upgrade and Release keep the one binding a role is given.      *)
THEOREM OneBindingHolds == Spec => []OneBinding
<1>1. BindingInv => OneBinding
  BY DEF BindingInv, HeldOnce, Holds, OneBinding
<1> QED
  BY <1>1, BindingInvariant, PTL

-----------------------------------------------------------------------------
(* Removal and closing.  Whoever takes a session out of the store is the   *)
(* only one to close it: a session is stored, or on the sweeper's list, or *)
(* in the hands of one handler between Delete and CloseBoth, or closed.    *)

Deleting(h, s) == pc[h] = "closeBoth" /\ sid[h] = s

RemovedOnce ==
    /\ \A s \in store : s \notin stale /\ \A h \in Handlers : ~Deleting(h, s)
    /\ \A s \in stale : \A h \in Handlers : ~Deleting(h, s)
    /\ \A g, h \in Handlers : \A s \in Sessions :
          Deleting(g, s) /\ Deleting(h, s) => g = h

RemovalInv ==
    /\ RemovedIsBeingClosed
    /\ RemovedOnce
    /\ \A s \in Sessions : created[s] = -1 => ~live[s]
    /\ sweepPc # "close" => stale = {}

(* A step that removes no session, closes none and creates none.           *)
LEMMA RemovalQuiet ==
    ASSUME RemovalInv, UNCHANGED <<store, created, live, stale>>,
           sweepPc' = sweepPc \/ stale = {},
           \A h \in Handlers : \A s \in Sessions : Deleting(h, s)' <=> Deleting(h, s),
           store \subseteq Sessions, stale \subseteq Sessions
    PROVE  RemovalInv'
<1>1. \A s \in Sessions : NotYetClosed(s)' <=> NotYetClosed(s)
  BY DEF NotYetClosed, Deleting
<1>2. RemovedIsBeingClosed'
  BY <1>1 DEF RemovalInv, RemovedIsBeingClosed
<1>3. RemovedOnce'
  BY DEF RemovalInv, RemovedOnce
<1> QED
  BY <1>2, <1>3 DEF RemovalInv

(* CloseBoth for a session that one closer holds and nobody else does.     *)
LEMMA RemovalCloses ==
    ASSUME TypeOK, RemovalInv, NEW s \in Sessions,
           s \notin store,
           live' = [live EXCEPT ![s] = FALSE],
           UNCHANGED <<store, created, sweepPc>>,
           stale' = stale \ {s},
           \A h \in Handlers : \A r \in Sessions :
               Deleting(h, r)' <=> Deleting(h, r) /\ r # s
    PROVE  RemovalInv'
<1>1. \A r \in Sessions : NotYetClosed(r)' <=> NotYetClosed(r) /\ r # s
  BY DEF NotYetClosed, Deleting
<1>2. \A r \in Sessions : live'[r] <=> live[r] /\ r # s
  BY DEF TypeOK
<1>3. RemovedIsBeingClosed'
  BY <1>1, <1>2 DEF RemovalInv, RemovedIsBeingClosed
<1>4. RemovedOnce'
  BY DEF RemovalInv, RemovedOnce, TypeOK
<1> QED
  BY <1>2, <1>3, <1>4 DEF RemovalInv, TypeOK

(* RemovalInv is inductive.                                                *)
LEMMA RemovalInductive ==
    ASSUME TypeOK, RemovalInv, [Next]_vars
    PROVE  RemovalInv'
<1> USE RelayAssumption
    DEF storeVars, sessVars, handlerVars, sweepVars, history, Goto, Use
<1>0. /\ store \subseteq Sessions /\ stale \subseteq Sessions
      /\ pc \in [Handlers -> PCs] /\ sid \in [Handlers -> Sessions \cup {None}]
  BY DEF TypeOK
<1>1. CASE Tick
  BY <1>0, <1>1, RemovalQuiet DEF Tick, Deleting
<1>2. ASSUME NEW s \in Sessions, Create(s) PROVE RemovalInv'
  <2>1. ~live[s] /\ ~NotYetClosed(s)
    BY <1>2 DEF Create, RemovalInv, RemovedIsBeingClosed
  <2>2. /\ store' = store \cup {s} /\ UNCHANGED <<stale, sweepPc, pc, sid>>
        /\ \A r \in Sessions : live'[r] <=> live[r] \/ r = s
        /\ \A r \in Sessions : created'[r] = -1 => created[r] = -1 /\ r # s
    BY <1>2 DEF Create, TypeOK
  <2>3. \A r \in Sessions : NotYetClosed(r)' <=> NotYetClosed(r) \/ r = s
    BY <2>2 DEF NotYetClosed
  <2>4. RemovedOnce'
    BY <2>1, <2>2, <1>0 DEF RemovalInv, RemovedOnce, NotYetClosed, Deleting
  <2> QED
    BY <2>1, <2>2, <2>3, <2>4 DEF RemovalInv, RemovedIsBeingClosed
<1>3. ASSUME NEW h \in Handlers, HandlerStep(h) PROVE RemovalInv'
  <2>1. CASE StoreDelete(h)
    <3>1. /\ pc[h] = "delete" /\ sid[h] \in Sessions
          /\ store' = store \ {sid[h]} /\ UNCHANGED <<created, live, stale, sweepPc, sid>>
          /\ \A g \in Handlers : g # h => pc'[g] = pc[g]
          /\ pc'[h] = IF sid[h] \in store THEN "closeBoth" ELSE "done"
      BY <1>0, <2>1 DEF StoreDelete, TypeOK
    <3>2. \A g \in Handlers : \A s \in Sessions :
             Deleting(g, s)' <=> \/ Deleting(g, s)
                                 \/ g = h /\ s = sid[h] /\ s \in store
      BY <3>1 DEF Deleting
    <3>3. \A s \in Sessions : NotYetClosed(s)' <=> NotYetClosed(s)
      <4> SUFFICES ASSUME NEW s \in Sessions PROVE NotYetClosed(s)' <=> NotYetClosed(s)
        OBVIOUS
      <4>1. NotYetClosed(s) <=> s \in store \/ s \in stale \/ \E g \in Handlers : Deleting(g, s)
        BY DEF NotYetClosed, Deleting
      <4>2. NotYetClosed(s)' <=> s \in store' \/ s \in stale' \/ \E g \in Handlers : Deleting(g, s)'
        BY DEF NotYetClosed, Deleting
      <4> QED
        BY <3>1, <3>2, <4>1, <4>2
    <3>4. RemovedOnce'
      BY <1>0, <3>1, <3>2 DEF RemovalInv, RemovedOnce
    <3> QED
      BY <3>1, <3>3, <3>4 DEF RemovalInv, RemovedIsBeingClosed
  <2>2. CASE DeleteCloses(h)
    <3>1. /\ pc[h] = "closeBoth" /\ sid[h] \in Sessions /\ CloseBoth(h, sid[h])
          /\ UNCHANGED <<store, created, stale, sweepPc, sid>>
          /\ \A g \in Handlers : g # h => pc'[g] = pc[g]
          /\ pc'[h] = "closing"
      BY <1>0, <2>2 DEF DeleteCloses, TypeOK
    <3>2. Deleting(h, sid[h])
      BY <3>1 DEF Deleting
    <3>3. sid[h] \notin store /\ sid[h] \notin stale
      BY <3>1, <3>2 DEF RemovalInv, RemovedOnce
    <3>4. \A g \in Handlers : \A r \in Sessions :
             Deleting(g, r)' <=> Deleting(g, r) /\ r # sid[h]
      BY <3>1, <3>2 DEF RemovalInv, RemovedOnce, Deleting
    <3> QED
      BY <3>1, <3>3, <3>4, RemovalCloses DEF CloseBoth
  <2>3. CASE ~StoreDelete(h) /\ ~DeleteCloses(h)
    <3>1. /\ UNCHANGED <<store, created, live, stale, sweepPc>>
          /\ \A g \in Handlers : pc[g] = "closeBoth" \/ pc'[g] = "closeBoth"
                                   => pc'[g] = pc[g] /\ sid'[g] = sid[g]
      <4>1. CASE \E s \in Sessions, r \in Roles : Lookup(h, s, r)
        BY <1>0, <4>1 DEF Lookup, TypeOK
      <4>2. CASE Reserve(h) \/ Refuse(h) \/ UpgradeOK(h) \/ UpgradeFails(h) \/ Release(h)
        BY <1>0, <4>2 DEF Reserve, Refuse, UpgradeOK, UpgradeFails, Release
      <4>3. CASE SetAgent(h) \/ SetBrowser(h) \/ FlushWrite(h) \/ FlushBreaks(h) \/ FlushDone(h)
        BY <1>0, <4>3 DEF SetAgent, SetBrowser, FlushWrite, FlushBreaks, FlushDone
      <4>4. CASE \/ AgentReads(h) \/ ForwardBuffers(h) \/ ForwardPicks(h)
                 \/ ForwardWrites(h) \/ Touch(h)
        BY <1>0, <4>4 DEF AgentReads, ForwardBuffers, ForwardPicks, ForwardWrites, Touch
      <4>5. CASE ReadEnds(h) \/ DeleteClosesNext(h) \/ Return(h)
        BY <1>0, <4>5 DEF ReadEnds, DeleteClosesNext, Return
      <4> QED
        BY <1>3, <2>3, <4>1, <4>2, <4>3, <4>4, <4>5 DEF HandlerStep
    <3> QED
      BY <1>0, <3>1, RemovalQuiet DEF Deleting
  <2> QED
    BY <2>1, <2>2, <2>3
<1>4. CASE Sweep
  <2>1. CASE SweepTick \/ SweepClosesNext \/ SweepDone
    <3>1. /\ UNCHANGED <<store, created, live, stale, pc, sid>>
          /\ sweepPc' = sweepPc \/ stale = {}
      BY <2>1 DEF SweepTick, SweepClosesNext, SweepDone, RemovalInv
    <3> QED
      BY <1>0, <3>1, RemovalQuiet DEF Deleting
  <2>2. CASE SweepScan
    <3>1. /\ stale = {} /\ stale' \subseteq store /\ store' = store \ stale'
          /\ UNCHANGED <<created, live, pc, sid>> /\ sweepPc' = "close"
      BY <2>2 DEF SweepScan, RemovalInv
    <3>2. \A s \in Sessions : NotYetClosed(s)' <=> NotYetClosed(s)
      BY <3>1 DEF NotYetClosed
    <3>3. RemovedOnce'
      BY <3>1 DEF RemovalInv, RemovedOnce, Deleting
    <3> QED
      BY <3>1, <3>2, <3>3 DEF RemovalInv, RemovedIsBeingClosed
  <2>3. ASSUME NEW s \in Sessions, SweepCloses(s) PROVE RemovalInv'
    <3>1. /\ s \in stale /\ stale' = stale \ {s} /\ CloseBoth(Sweeper, s)
          /\ UNCHANGED <<store, created, pc, sid, sweepPc>>
      BY <2>3 DEF SweepCloses
    <3>2. s \notin store /\ \A g \in Handlers : ~Deleting(g, s)
      BY <3>1 DEF RemovalInv, RemovedOnce
    <3>3. \A g \in Handlers : \A r \in Sessions :
             Deleting(g, r)' <=> Deleting(g, r) /\ r # s
      BY <3>1, <3>2 DEF Deleting
    <3> QED
      BY <3>1, <3>2, <3>3, RemovalCloses DEF CloseBoth
  <2> QED
    BY <1>4, <2>1, <2>2, <2>3 DEF Sweep
<1>5. CASE UNCHANGED vars
  BY <1>0, <1>5, RemovalQuiet DEF vars, Deleting
<1> QED
  BY <1>1, <1>2, <1>3, <1>4, <1>5, NextIsHandlerStep

(* RemovalInv holds in every reachable state.                              *)
LEMMA RemovalInvariant == Spec => []RemovalInv
<1>1. Init => RemovalInv
  BY DEF Init, RemovalInv, RemovedIsBeingClosed, RemovedOnce, NotYetClosed, Deleting
<1>2. TypeOK /\ RemovalInv /\ [Next]_vars => RemovalInv'
  BY RemovalInductive
<1> QED
  BY <1>1, <1>2, TypeCorrect, PTL DEF Spec

(* A session has its tokens exactly while it is stored or the one goroutine *)
(* that removed it, a handler's Delete or the sweeper, has yet to run       *)
(* CloseBoth for it.                                                       *)
THEOREM RemovedIsClosed == Spec => []RemovedIsBeingClosed
<1>1. RemovalInv => RemovedIsBeingClosed
  BY DEF RemovalInv
<1> QED
  BY <1>1, RemovalInvariant, PTL

(* A handler that found the session before it was removed cannot reserve a *)
(* role of it after CloseBoth, nor after the TTL.                          *)
THEOREM ReservationsAreInTime == Spec => NoLateReservation
<1>1. TypeOK /\ RemovalInv /\ [Next]_vars
        => [\A s \in Sessions :
              ~(bound'[s] \subseteq bound[s]) => NotYetClosed(s) /\ ~Expired(s, now)]_vars
  <2> SUFFICES ASSUME TypeOK, RemovalInv, Next, NEW s \in Sessions,
                      ~(bound'[s] \subseteq bound[s])
               PROVE  NotYetClosed(s) /\ ~Expired(s, now)
    OBVIOUS
  <2> USE DEF storeVars, sessVars, handlerVars, sweepVars, history, Goto, Use
  <2>1. \E h \in Handlers : Reserve(h) /\ sid[h] = s
    <3>1. ~Tick /\ ~Sweep /\ \A r \in Sessions : ~Create(r)
      BY DEF Tick, Create, Sweep, SweepTick, SweepScan, SweepClosesNext, SweepDone,
             SweepCloses, CloseBoth
    <3>2. PICK h \in Handlers : HandlerStep(h)
      BY <3>1, NextIsHandlerStep
    <3>3. Reserve(h)
      <4>1. ~Release(h)
        <5> SUFFICES ASSUME Release(h) PROVE FALSE
          OBVIOUS
        <5>1. bound'[s] = bound[s] \/ \E r \in Roles : bound'[s] = bound[s] \ {r}
          BY DEF Release, TypeOK
        <5> QED
          BY <5>1
      <4>2. bound' # bound
        OBVIOUS
      <4> QED
        BY <3>2, <4>1, <4>2
           DEF HandlerStep, Lookup, Refuse, UpgradeOK, UpgradeFails, SetAgent, SetBrowser,
               FlushWrite, FlushBreaks, FlushDone, AgentReads, ForwardBuffers, ForwardPicks,
               ForwardWrites, Touch, ReadEnds, StoreDelete, DeleteCloses, DeleteClosesNext,
               Return, CloseBoth
    <3>4. sid[h] = s
      BY <3>3 DEF Reserve, TypeOK
    <3> QED
      BY <3>3, <3>4
  <2> QED
    BY <2>1 DEF Reserve, RemovalInv, RemovedIsBeingClosed
<1> QED
  BY <1>1, TypeCorrect, RemovalInvariant, PTL DEF Spec, NoLateReservation

-----------------------------------------------------------------------------
(* No connection is lost.  A handler that serves one stays in its session, *)
(* because no other holds its role, until a CloseBoth moves it to a list;  *)
(* and no list is overwritten while something is on it.                    *)

Served(h) == pc[h] \in {"flush", "serving", "forward", "write", "touch"}
Kept(h)   == Connection(sid[h], role[h]) = h \/ sock[h] = "closed" \/ BeingClosed(h)

ListsEmpty == \A h \in Handlers : pc[h] # "closing" => closing[h] = <<>>
ServedInv  == ListsEmpty /\ \A h \in Handlers : Served(h) => Kept(h)

(* Whatever is attached to a session gets on the list of CloseBoth.        *)
LEMMA ConnectionsComplete ==
    ASSUME NEW s \in Sessions, NEW c \in {agent[s], browser[s]}, c # None
    PROVE  \E i \in 1..Len(Connections(s)) : Connections(s)[i] = c
<1>1. CASE agent[s] = None
  BY <1>1 DEF Connections, OneOrNone
<1>2. CASE agent[s] # None /\ browser[s] = None
  BY <1>2 DEF Connections, OneOrNone
<1>3. CASE agent[s] # None /\ browser[s] # None
  BY <1>3 DEF Connections, OneOrNone
<1> QED
  BY <1>1, <1>2, <1>3

(* A step of nobody's lists and attachments.                               *)
LEMMA ServedQuiet ==
    ASSUME ServedInv, UNCHANGED <<agent, browser, closing>>,
           \A h \in Handlers : pc'[h] # "closing" => pc[h] # "closing" \/ closing[h] = <<>>,
           \A h \in Handlers : Served(h)' =>
               Served(h) /\ sid'[h] = sid[h] /\ role'[h] = role[h],
           \A h \in Handlers : sock[h] = "closed" => sock'[h] = "closed"
    PROVE  ServedInv'
<1>1. \A h \in Handlers : BeingClosed(h) => BeingClosed(h)'
  BY DEF BeingClosed
<1>2. ASSUME NEW h \in Handlers, Served(h)' PROVE Kept(h)'
  <2>1. Kept(h) /\ sid'[h] = sid[h] /\ role'[h] = role[h]
    BY <1>2 DEF ServedInv
  <2> QED
    BY <1>1, <2>1 DEF Kept, Connection
<1> QED
  BY <1>2 DEF ServedInv, ListsEmpty

(* CloseBoth run by a closer whose list is empty.                          *)
LEMMA ServedCloseBoth ==
    ASSUME TypeOK, ServedInv, NEW c \in Closers, NEW s \in Sessions, CloseBoth(c, s),
           closing[c] = <<>>, c \in Handlers => pc'[c] = "closing",
           \A h \in Handlers : h # c => pc'[h] = pc[h],
           c \in Handlers => ~Served(c),
           UNCHANGED <<sid, role, sock>>
    PROVE  ServedInv'
<1> USE RelayAssumption
<1>1. \A d \in Closers : closing'[d] = IF d = c THEN Connections(s) ELSE closing[d]
  BY DEF CloseBoth, TypeOK
<1>2. \A r \in Sessions : r # s => agent'[r] = agent[r] /\ browser'[r] = browser[r]
  BY DEF CloseBoth, TypeOK
<1>3. ASSUME NEW h \in Handlers, BeingClosed(h) PROVE BeingClosed(h)'
  <2>1. PICK d \in Closers : \E i \in 1..Len(closing[d]) : closing[d][i] = h
    BY <1>3 DEF BeingClosed
  <2>2. d # c
    BY <2>1
  <2> QED
    BY <1>1, <2>1, <2>2 DEF BeingClosed
<1>4. ASSUME NEW h \in Handlers, Served(h)' PROVE Kept(h)'
  <2>1. Served(h) /\ sid[h] \in Sessions
    BY <1>4 DEF Served, TypeOK
  <2>2. Kept(h)
    BY <2>1 DEF ServedInv
  <2>3. CASE Connection(sid[h], role[h]) = h /\ sid[h] = s
    <3>1. h # None /\ h \in {agent[s], browser[s]}
      BY <2>3 DEF Connection
    <3>2. \E i \in 1..Len(Connections(s)) : Connections(s)[i] = h
      BY <3>1, ConnectionsComplete
    <3> QED
      BY <1>1, <3>2 DEF Kept, BeingClosed
  <2>4. CASE Connection(sid[h], role[h]) = h /\ sid[h] # s
    BY <1>2, <2>1, <2>4 DEF Kept, Connection
  <2> QED
    BY <1>3, <2>2, <2>3, <2>4 DEF Kept
<1>5. ListsEmpty'
  BY <1>1 DEF ServedInv, ListsEmpty, Closers
<1> QED
  BY <1>4, <1>5 DEF ServedInv

(* Closing the next connection of a list.                                  *)
LEMMA ServedCloseNext ==
    ASSUME TypeOK, ServedInv, NEW c \in Closers, CloseNext(c),
           UNCHANGED <<pc, sid, role, agent, browser>>
    PROVE  ServedInv'
<1>1. closing[c] \in Seq(Handlers) /\ closing[c] # <<>>
  BY DEF TypeOK, CloseNext
<1>2. /\ Head(closing[c]) = closing[c][1]
      /\ \A i \in 1..Len(closing[c]) : i # 1 =>
            i - 1 \in 1..Len(Tail(closing[c])) /\ Tail(closing[c])[i - 1] = closing[c][i]
  BY <1>1
<1>3. /\ \A d \in Closers : closing'[d] = IF d = c THEN Tail(closing[c]) ELSE closing[d]
      /\ \A h \in Handlers : sock[h] = "closed" \/ h = closing[c][1] => sock'[h] = "closed"
  BY <1>2 DEF CloseNext, TypeOK
<1>4. ASSUME NEW h \in Handlers, BeingClosed(h) PROVE BeingClosed(h)' \/ sock'[h] = "closed"
  <2>0. PICK d \in Closers : \E i \in 1..Len(closing[d]) : closing[d][i] = h
    BY <1>4 DEF BeingClosed
  <2>1. PICK i \in 1..Len(closing[d]) : closing[d][i] = h
    BY <2>0
  <2>2. CASE d = c /\ i = 1
    BY <1>3, <2>1, <2>2
  <2>3. CASE d = c /\ i # 1
    BY <1>2, <1>3, <2>1, <2>3 DEF BeingClosed
  <2>4. CASE d # c
    BY <1>3, <2>1, <2>4 DEF BeingClosed
  <2> QED
    BY <2>2, <2>3, <2>4
<1>5. ASSUME NEW h \in Handlers, Served(h)' PROVE Kept(h)'
  <2>1. Served(h)
    BY <1>5 DEF Served
  <2>2. Kept(h)
    BY <2>1 DEF ServedInv
  <2> QED
    BY <1>3, <1>4, <2>2 DEF Kept, Connection
<1>6. ASSUME NEW h \in Handlers, pc'[h] # "closing" PROVE closing'[h] = <<>>
  <2>1. closing[h] = <<>> /\ h \in Closers
    BY <1>6 DEF ServedInv, ListsEmpty, Closers
  <2> QED
    BY <1>1, <1>3, <2>1
<1> QED
  BY <1>5, <1>6 DEF ServedInv, ListsEmpty

(* ServedInv is inductive.                                                 *)
LEMMA ServedInductive ==
    ASSUME TypeOK, BindingInv, ServedInv, [Next]_vars
    PROVE  ServedInv'
<1> USE RelayAssumption
    DEF storeVars, sessVars, handlerVars, sweepVars, history, Goto, Use
<1>0. /\ pc \in [Handlers -> PCs] /\ sid \in [Handlers -> Sessions \cup {None}]
      /\ role \in [Handlers -> Roles]
      /\ sock \in [Handlers -> {"none", "open", "broken", "closed"}]
  BY DEF TypeOK
<1>1. CASE Tick \/ \E s \in Sessions : Create(s)
  BY <1>1, ServedQuiet DEF Tick, Create, Served
<1>2. ASSUME NEW h \in Handlers, HandlerStep(h) PROVE ServedInv'
  <2>1. CASE SetAgent(h) \/ SetBrowser(h)
    <3>1. /\ pc[h] = "bind" /\ pc'[h] \in {"serving", "flush"}
          /\ sid[h] \in Sessions
          /\ UNCHANGED <<sid, role, sock, closing>>
          /\ \A g \in Handlers : g # h => pc'[g] = pc[g]
      BY <1>0, <2>1 DEF SetAgent, SetBrowser, TypeOK
    <3>2. Connection(sid[h], role[h])' = h
      BY <2>1, <3>1 DEF SetAgent, SetBrowser, TypeOK, Connection
    <3>3. ASSUME NEW g \in Handlers, g # h, Served(g)' PROVE Kept(g)'
      <4>1. Served(g) /\ sid[g] \in Sessions
        BY <3>1, <3>3 DEF Served, TypeOK
      <4>2. Kept(g)
        BY <4>1 DEF ServedInv
      <4>3. Holds(g) /\ Holds(h)
        BY <3>1, <4>1 DEF BindingInv, SocketInv, SocketFollowsPc, Holds, Served, Unbound
      <4>4. sid[g] # sid[h] \/ role[g] # role[h]
        BY <3>3, <4>3 DEF BindingInv, HeldOnce
      <4>5. Connection(sid[g], role[g])' = Connection(sid[g], role[g])
        BY <1>0, <2>1, <3>1, <4>1, <4>4
           DEF SetAgent, SetBrowser, TypeOK, Connection, Roles
      <4>6. BeingClosed(g)' <=> BeingClosed(g)
        BY <3>1 DEF BeingClosed
      <4> QED
        BY <3>1, <4>2, <4>5, <4>6 DEF Kept
    <3>4. ListsEmpty'
      BY <3>1 DEF ServedInv, ListsEmpty
    <3> QED
      BY <3>2, <3>3, <3>4 DEF ServedInv, Kept
  <2>2. CASE DeleteCloses(h)
    <3>1. /\ pc[h] = "closeBoth" /\ sid[h] \in Sessions /\ h \in Closers
          /\ CloseBoth(h, sid[h])
          /\ pc'[h] = "closing"
          /\ \A g \in Handlers : g # h => pc'[g] = pc[g]
          /\ UNCHANGED <<sid, role, sock>>
      BY <1>0, <2>2 DEF DeleteCloses, TypeOK, Closers
    <3>2. closing[h] = <<>> /\ ~Served(h)
      BY <3>1 DEF ServedInv, ListsEmpty, Served
    <3> QED
      BY <3>1, <3>2, ServedCloseBoth
  <2>3. CASE DeleteClosesNext(h)
    <3>1. h \in Closers /\ CloseNext(h) /\ UNCHANGED <<pc, sid, role, agent, browser>>
      BY <2>3 DEF DeleteClosesNext, Closers
    <3> QED
      BY <3>1, ServedCloseNext
  <2>4. CASE /\ ~SetAgent(h) /\ ~SetBrowser(h)
             /\ ~DeleteCloses(h) /\ ~DeleteClosesNext(h)
    <3>1. /\ UNCHANGED <<agent, browser, closing>>
          /\ \A g \in Handlers : pc'[g] # "closing" => pc[g] # "closing" \/ closing[g] = <<>>
          /\ \A g \in Handlers : Served(g)' =>
                 Served(g) /\ sid'[g] = sid[g] /\ role'[g] = role[g]
          /\ \A g \in Handlers : sock[g] = "closed" => sock'[g] = "closed"
      <4>1. CASE \E s \in Sessions, r \in Roles : Lookup(h, s, r)
        BY <1>0, <4>1 DEF Lookup, Served
      <4>2. CASE Reserve(h) \/ Refuse(h) \/ UpgradeFails(h) \/ Release(h)
        BY <1>0, <4>2 DEF Reserve, Refuse, UpgradeFails, Release, Served
      <4>3. CASE UpgradeOK(h)
        <5>1. sock[h] = "none"
          BY <4>3 DEF UpgradeOK, BindingInv, SocketInv, SocketFollowsPc, Unbound
        <5> QED
          BY <1>0, <4>3, <5>1 DEF UpgradeOK, Served
      <4>4. CASE FlushWrite(h) \/ FlushDone(h)
        BY <1>0, <4>4 DEF FlushWrite, FlushDone, Served
      <4>5. CASE FlushBreaks(h)
        BY <1>0, <4>5 DEF FlushBreaks, Served, WriteFails
      <4>6. CASE AgentReads(h) \/ ForwardBuffers(h) \/ ForwardPicks(h) \/ Touch(h)
        BY <1>0, <4>6 DEF AgentReads, ForwardBuffers, ForwardPicks, Touch, Served
      <4>7. CASE ForwardWrites(h)
        BY <1>0, <4>7 DEF ForwardWrites, Served, WriteFails
      <4>8. CASE ReadEnds(h) \/ StoreDelete(h)
        BY <1>0, <4>8 DEF ReadEnds, StoreDelete, Served
      <4>9. CASE Return(h)
        BY <1>0, <4>9 DEF Return, Served
      <4> QED
        BY <1>2, <2>4, <4>1, <4>2, <4>3, <4>4, <4>5, <4>6, <4>7, <4>8, <4>9
           DEF HandlerStep
    <3> QED
      BY <3>1, ServedQuiet
  <2> QED
    BY <2>1, <2>2, <2>3, <2>4
<1>3. CASE Sweep
  <2>1. CASE SweepTick \/ SweepScan \/ SweepDone
    BY <2>1, ServedQuiet DEF SweepTick, SweepScan, SweepDone, Served
  <2>2. ASSUME NEW s \in Sessions, SweepCloses(s) PROVE ServedInv'
    <3>1. /\ CloseBoth(Sweeper, s) /\ closing[Sweeper] = <<>>
          /\ Sweeper \in Closers /\ Sweeper \notin Handlers
          /\ UNCHANGED <<pc, sid, role, sock>>
      BY <2>2 DEF SweepCloses, Closers
    <3> QED
      BY <3>1, ServedCloseBoth
  <2>3. CASE SweepClosesNext
    <3>1. /\ CloseNext(Sweeper) /\ Sweeper \in Closers
          /\ UNCHANGED <<pc, sid, role, agent, browser>>
      BY <2>3 DEF SweepClosesNext, Closers
    <3> QED
      BY <3>1, ServedCloseNext
  <2> QED
    BY <1>3, <2>1, <2>2, <2>3 DEF Sweep
<1>4. CASE UNCHANGED vars
  BY <1>4, ServedQuiet DEF vars, Served
<1> QED
  BY <1>1, <1>2, <1>3, <1>4, NextIsHandlerStep

(* No served connection is forgotten: it is attached to its session, closed,*)
(* or on the list of a CloseBoth that is closing it.                       *)
THEOREM NoConnectionIsLost == Spec => []NoLostConnection
<1>1. Init => ServedInv
  BY DEF Init, ServedInv, ListsEmpty, Served, Closers
<1>2. TypeOK /\ BindingInv /\ ServedInv /\ [Next]_vars => ServedInv'
  BY ServedInductive
<1>3. ServedInv => NoLostConnection
  BY DEF ServedInv, NoLostConnection, Served, Kept
<1> QED
  BY <1>1, <1>2, <1>3, TypeCorrect, BindingInvariant, PTL DEF Spec
=============================================================================
