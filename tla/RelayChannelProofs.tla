------------------------- MODULE RelayChannelProofs -------------------------
(***************************************************************************)
(* Proofs about the frames of the PCAP relay: the buffer keeps to its      *)
(* limits, the relay implements RelayChannel, and the viewer gets frames in*)
(* the order they were sent.                                               *)
(*                                                                         *)
(* The argument has three parts.  SizeOf is a recursive function; what it  *)
(* is for one frame more follows by induction on the length of the buffer. *)
(* FlowInv says where frames can be: who holds sendMu, which frame a       *)
(* Forward call carries and to whom, and that a session with a viewer has  *)
(* an empty buffer.  It is inductive, and with it every step of the relay  *)
(* is shown to be one step of the channel or none.  The order of frames is *)
(* then proved about the steps of the channel, not those of the relay.     *)
(***************************************************************************)
EXTENDS RelayProofs, WellFoundedInduction, NaturalsInduction

-----------------------------------------------------------------------------
(* The size of a buffer.                                                   *)

(* A set with 0 in it that is closed under successor up to n holds all of  *)
(* 0..n.                                                                   *)
LEMMA IntervalInduction ==
    ASSUME NEW n \in Nat, NEW S, 0 \in S, \A i \in 0..n : i + 1 \in 0..n /\ i \in S => i + 1 \in S
    PROVE  0..n \subseteq S
<1>1. SUFFICES ASSUME (0..n) \ S # {} PROVE FALSE
  OBVIOUS
<1>2. (0..n) \ S \subseteq Nat
  OBVIOUS
<1>3. PICK m \in (0..n) \ S : \A k \in (0..n) \ S : ~ (<<k, m>> \in OpToRel(<, Nat))
  BY <1>1, <1>2, NatLessThanWellFounded, WFMin
<1>4. m - 1 \in (0..n) \ S
  OBVIOUS
<1>5. <<m - 1, m>> \in OpToRel(<, Nat)
  BY <1>4 DEF OpToRel
<1> QED
  BY <1>3, <1>4, <1>5

(* The function that SizeOf chooses: the size of each prefix of q.         *)
IsTotal(g, q) ==
    g = [i \in 0..Len(q) |-> IF i = 0 THEN 0 ELSE g[i - 1] + FrameSize[q[i]]]

(* Every sequence of frames has such a function.                           *)
LEMMA TotalExists ==
    ASSUME NEW q \in Seq(Frames)
    PROVE  \E g : IsTotal(g, q)
<1> DEFINE Upto(g, n) == g = [i \in 0..n |-> IF i = 0 THEN 0 ELSE g[i - 1] + FrameSize[q[i]]]
           S == {n \in 0..Len(q) : \E g : Upto(g, n)}
<1>0. Len(q) \in Nat /\ 0 \in 0..Len(q) /\ Len(q) \in 0..Len(q)
  OBVIOUS
<1>1. 0 \in S
  <2>1. Upto([i \in 0..0 |-> 0], 0)
    OBVIOUS
  <2> QED
    BY <1>0, <2>1
<1>2. ASSUME NEW n \in 0..Len(q), n + 1 \in 0..Len(q), n \in S PROVE n + 1 \in S
  <2>1. PICK g : Upto(g, n)
    BY <1>2
  <2>2. Upto([i \in 0..n + 1 |-> IF i = n + 1 THEN g[n] + FrameSize[q[n + 1]] ELSE g[i]], n + 1)
    BY <2>1
  <2> QED
    BY <1>2, <2>2
<1> HIDE DEF S
<1>3. Len(q) \in S
  BY <1>0, <1>1, <1>2, IntervalInduction
<1> QED
  BY <1>3 DEF S, IsTotal

(* One frame more adds its length: the loop over the buffer, one step on.  *)
LEMMA TotalGrows ==
    ASSUME NEW q \in Seq(Frames), NEW f \in Frames, NEW g, NEW h,
           IsTotal(g, q), IsTotal(h, Append(q, f))
    PROVE  h[Len(q) + 1] = g[Len(q)] + FrameSize[f]
<1> DEFINE S == {i \in 0..Len(q) : g[i] = h[i]}
<1>0. /\ Append(q, f) \in Seq(Frames) /\ Len(Append(q, f)) = Len(q) + 1
      /\ \A i \in 1..Len(q) : Append(q, f)[i] = q[i]
      /\ Append(q, f)[Len(q) + 1] = f
      /\ Len(q) \in Nat
  OBVIOUS
<1>1. /\ \A i \in 0..Len(q) : g[i] = IF i = 0 THEN 0 ELSE g[i - 1] + FrameSize[q[i]]
      /\ \A i \in 0..Len(q) + 1 :
            h[i] = IF i = 0 THEN 0 ELSE h[i - 1] + FrameSize[Append(q, f)[i]]
  BY <1>0 DEF IsTotal
<1>2. 0 \in S
  BY <1>0, <1>1
<1>3. ASSUME NEW i \in 0..Len(q), i + 1 \in 0..Len(q), i \in S PROVE i + 1 \in S
  BY <1>0, <1>1, <1>3
<1> HIDE DEF S
<1>4. Len(q) \in S
  BY <1>0, <1>2, <1>3, IntervalInduction
<1> QED
  BY <1>0, <1>1, <1>4 DEF S

(* SizeOf is the last value of such a function.                            *)
LEMMA SizeOfIsTotal ==
    ASSUME NEW q \in Seq(Frames)
    PROVE  \E g : IsTotal(g, q) /\ SizeOf(q) = g[Len(q)]
<1> DEFINE total == CHOOSE g : IsTotal(g, q)
<1>1. IsTotal(total, q)
  BY TotalExists
<1>2. SizeOf(q) = total[Len(q)]
  BY DEF SizeOf, IsTotal
<1> QED
  BY <1>1, <1>2

(* An emptied buffer has size 0 (bufBytes is reset with it).               *)
LEMMA SizeOfEmpty == SizeOf(<<>>) = 0
<1>0. <<>> \in Seq(Frames) /\ Len(<<>>) = 0
  OBVIOUS
<1>1. PICK g : IsTotal(g, <<>>) /\ SizeOf(<<>>) = g[0]
  BY <1>0, SizeOfIsTotal
<1> QED
  BY <1>0, <1>1 DEF IsTotal

(* Appending a frame adds its length (bufBytes += len(data)).              *)
LEMMA SizeOfAppend ==
    ASSUME NEW q \in Seq(Frames), NEW f \in Frames
    PROVE  SizeOf(Append(q, f)) = SizeOf(q) + FrameSize[f]
<1>1. PICK g : IsTotal(g, q) /\ SizeOf(q) = g[Len(q)]
  BY SizeOfIsTotal
<1>2. Append(q, f) \in Seq(Frames) /\ Len(Append(q, f)) = Len(q) + 1
  OBVIOUS
<1>3. PICK h : IsTotal(h, Append(q, f)) /\ SizeOf(Append(q, f)) = h[Len(q) + 1]
  BY <1>2, SizeOfIsTotal
<1> QED
  BY <1>1, <1>3, TotalGrows

-----------------------------------------------------------------------------
(* Where the frames of a session are.                                      *)

(* CloseBoth has been called for the session.                              *)
Closed(s) == created[s] # -1 /\ ~live[s]

(* sendMu is held by the viewer that is flushing, and by nobody else.      *)
LockHeld ==
    /\ \A s \in Sessions : sendMu[s] # None => pc[sendMu[s]] = "flush" /\ sid[sendMu[s]] = s
    /\ \A h \in Handlers : pc[h] = "flush" => sendMu[sid[h]] = h /\ role[h] = "viewer"

(* A Forward call runs for the agent and carries the last frame read from  *)
(* it.                                                                     *)
ForwardsNewest ==
    /\ \A h \in Handlers : pc[h] \in {"forward", "write"} =>
          role[h] = "agent" /\ msg[h] = sent[sid[h]]
    /\ \A h \in Handlers : pc[h] = "touch" => role[h] = "agent"

(* h has been upgraded as viewer of s.                                     *)
ViewerOf(s, h) == sid[h] = s /\ role[h] = "viewer" /\ sock[h] # "none"

(* Forward writes to a viewer of the session, and nothing waits in the     *)
(* buffer while it does.                                                   *)
WritesToViewer ==
    \A h \in Handlers : pc[h] = "write" =>
        /\ ViewerOf(sid[h], target[h])
        /\ buffer[sid[h]] = <<>>
        /\ browser[sid[h]] # None \/ Closed(sid[h])

(* The attached browser is a viewer, and the buffer was emptied when it    *)
(* came.                                                                   *)
AttachedIsViewer ==
    \A s \in Sessions : browser[s] # None => ViewerOf(s, browser[s]) /\ buffer[s] = <<>>

(* Once a frame was delivered or a flush began, the browser is attached    *)
(* until CloseBoth.                                                        *)
StartedIsAttached ==
    \A s \in Sessions :
        browser[s] = None /\ (delivered[s] # <<>> \/ sendMu[s] # None) => Closed(s)

(* The buffer is within its limits, and bufBytes counts it.                *)
BufferBounded ==
    \A s \in Sessions :
        /\ Len(buffer[s]) <= MaxItems
        /\ bufBytes[s] <= MaxBytes
        /\ bufBytes[s] = SizeOf(buffer[s])

(* The inductive invariant.                                                *)
FlowInv == /\ LockHeld /\ ForwardsNewest /\ WritesToViewer /\ AttachedIsViewer
           /\ StartedIsAttached /\ BufferBounded

(* A step that touches neither the frames nor the lock.                    *)
LEMMA FlowQuiet ==
    ASSUME TypeOK, BindingInv, FlowInv,
           UNCHANGED <<browser, buffer, bufBytes, sendMu, msg, target, sent, delivered>>,
           \A s \in Sessions : Closed(s) => Closed(s)',
           \A h \in Handlers : sock[h] # "none" =>
               sock'[h] # "none" /\ sid'[h] = sid[h] /\ role'[h] = role[h],
           \A h \in Handlers : pc'[h] = "flush" <=> pc[h] = "flush",
           \A h \in Handlers : pc'[h] \in {"forward", "write", "touch"} => pc'[h] = pc[h]
    PROVE  FlowInv'
<1>1. \A h \in Handlers : pc[h] \in {"flush", "forward", "write", "touch"} =>
         sock[h] # "none" /\ sid'[h] = sid[h] /\ role'[h] = role[h]
  BY DEF BindingInv, SocketInv, SocketFollowsPc, Unbound
<1>2. /\ sendMu \in [Sessions -> Handlers \cup {None}]
      /\ browser \in [Sessions -> Handlers \cup {None}]
      /\ \A h \in Handlers : pc[h] \in {"flush", "write"} => sid[h] \in Sessions
      /\ \A h \in Handlers : pc[h] = "write" => target[h] \in Handlers
  BY DEF TypeOK
<1>3. LockHeld'
  BY <1>1, <1>2 DEF FlowInv, LockHeld
<1>4. ForwardsNewest'
  BY <1>1 DEF FlowInv, ForwardsNewest
<1>5. \A s \in Sessions, h \in Handlers : ViewerOf(s, h) => ViewerOf(s, h)'
  BY DEF ViewerOf
<1>6. WritesToViewer'
  BY <1>1, <1>2, <1>5 DEF FlowInv, WritesToViewer
<1>7. AttachedIsViewer'
  BY <1>2, <1>5 DEF FlowInv, AttachedIsViewer
<1>8. StartedIsAttached'
  BY DEF FlowInv, StartedIsAttached
<1>9. BufferBounded'
  BY DEF FlowInv, BufferBounded
<1> QED
  BY <1>3, <1>4, <1>6, <1>7, <1>8, <1>9 DEF FlowInv

(* CloseBoth, for a session that had its tokens until now.                 *)
LEMMA FlowCloseBoth ==
    ASSUME TypeOK, BindingInv, FlowInv, RemovalInv, NEW c \in Closers, NEW s \in Sessions,
           CloseBoth(c, s), live[s],
           UNCHANGED <<created, sid, role, sock, msg, target, sent, delivered>>,
           \A h \in Handlers : pc'[h] = "flush" <=> pc[h] = "flush",
           \A h \in Handlers : pc'[h] \in {"forward", "write", "touch"} => pc'[h] = pc[h]
    PROVE  FlowInv'
<1>1. /\ \A r \in Sessions : browser'[r] = IF r = s THEN None ELSE browser[r]
      /\ \A r \in Sessions : buffer'[r] = IF r = s THEN <<>> ELSE buffer[r]
      /\ \A r \in Sessions : bufBytes'[r] = IF r = s THEN 0 ELSE bufBytes[r]
      /\ \A r \in Sessions : live'[r] = IF r = s THEN FALSE ELSE live[r]
      /\ UNCHANGED sendMu
  BY DEF CloseBoth, TypeOK
<1>2. created[s] # -1
  BY DEF RemovalInv
<1>3. \A r \in Sessions : Closed(r) \/ r = s => Closed(r)'
  BY <1>1, <1>2 DEF Closed
<1>4. LockHeld'
  <2>1. sendMu \in [Sessions -> Handlers \cup {None}]
    BY DEF TypeOK
  <2> QED
    BY <1>1, <2>1 DEF FlowInv, LockHeld
<1>5. ForwardsNewest'
  BY DEF FlowInv, ForwardsNewest
<1>9. WritesToViewer'
  <2> SUFFICES ASSUME NEW h \in Handlers, pc'[h] = "write"
               PROVE  /\ ViewerOf(sid[h], target[h])
                      /\ buffer'[sid[h]] = <<>>
                      /\ browser'[sid[h]] # None \/ Closed(sid[h])'
    BY DEF WritesToViewer, ViewerOf
  <2>1. pc[h] = "write" /\ sid[h] \in Sessions
    BY DEF TypeOK
  <2>2. /\ ViewerOf(sid[h], target[h]) /\ buffer[sid[h]] = <<>>
        /\ browser[sid[h]] # None \/ Closed(sid[h])
    BY <2>1 DEF FlowInv, WritesToViewer
  <2> QED
    BY <1>1, <1>3, <2>1, <2>2
<1>6. AttachedIsViewer'
  BY <1>1 DEF FlowInv, AttachedIsViewer, ViewerOf
<1>7. StartedIsAttached'
  BY <1>1, <1>3 DEF FlowInv, StartedIsAttached
<1>8. BufferBounded'
  <2> SUFFICES ASSUME NEW r \in Sessions
               PROVE  /\ Len(buffer'[r]) <= MaxItems
                      /\ bufBytes'[r] <= MaxBytes
                      /\ bufBytes'[r] = SizeOf(buffer'[r])
    BY DEF BufferBounded, SizeOf
  <2>1. CASE r = s
    BY <1>1, <2>1, SizeOfEmpty, RelayAssumption
  <2>2. CASE r # s
    BY <1>1, <2>2 DEF FlowInv, BufferBounded
  <2> QED
    BY <2>1, <2>2
<1> QED
  BY <1>4, <1>5, <1>6, <1>7, <1>8, <1>9 DEF FlowInv

(* Two serving agents of one session would both hold its role.             *)
LEMMA OneAgent ==
    ASSUME TypeOK, BindingInv, NEW g \in Handlers, NEW h \in Handlers,
           Served(g), Served(h), role[g] = role[h], sid[g] = sid[h]
    PROVE  g = h
  BY DEF BindingInv, SocketInv, SocketFollowsPc, HeldOnce, Holds, Served, Unbound

(* FlowInv is inductive.                                                   *)
LEMMA FlowInductive ==
    ASSUME TypeOK, BindingInv, RemovalInv, FlowInv, [Next]_vars
    PROVE  FlowInv'
<1> USE RelayAssumption
    DEF storeVars, sessVars, handlerVars, sweepVars, history, Goto, Use
<1>0. /\ pc \in [Handlers -> PCs] /\ sid \in [Handlers -> Sessions \cup {None}]
      /\ role \in [Handlers -> Roles]
      /\ sock \in [Handlers -> {"none", "open", "broken", "closed"}]
      /\ \A h \in Handlers : pc[h] \notin {"idle", "done"} => sid[h] \in Sessions
      /\ \A h \in Handlers : pc[h] \in Unbound => sock[h] = "none"
      /\ \A h \in Handlers : pc[h] \notin Unbound \cup {"done"} => sock[h] # "none"
      /\ sendMu \in [Sessions -> Handlers \cup {None}]
      /\ browser \in [Sessions -> Handlers \cup {None}]
  BY DEF TypeOK, BindingInv, SocketInv, SocketFollowsPc
<1>q. /\ LockHeld /\ ForwardsNewest /\ WritesToViewer /\ AttachedIsViewer
      /\ StartedIsAttached /\ BufferBounded
  BY DEF FlowInv
<1>1. CASE Tick
  BY <1>1, FlowQuiet DEF Tick, Closed
<1>2. ASSUME NEW s \in Sessions, Create(s) PROVE FlowInv'
  <2>1. \A r \in Sessions : Closed(r) => Closed(r)'
    BY <1>2 DEF Create, Closed, TypeOK
  <2> QED
    BY <1>2, <2>1, FlowQuiet DEF Create
<1>3. ASSUME NEW h \in Handlers, HandlerStep(h) PROVE FlowInv'
  <2>1. CASE SetBrowser(h)
    <3>1. /\ pc[h] = "bind" /\ pc'[h] = "flush" /\ role[h] = "viewer"
          /\ sid[h] \in Sessions /\ sendMu[sid[h]] = None /\ sock[h] # "none"
          /\ \A g \in Handlers : g # h => pc'[g] = pc[g]
          /\ \A r \in Sessions : sendMu'[r] = IF r = sid[h] THEN h ELSE sendMu[r]
          /\ \A r \in Sessions : browser'[r] = IF r = sid[h] THEN h ELSE browser[r]
          /\ \A r \in Sessions : buffer'[r] = IF r = sid[h] THEN <<>> ELSE buffer[r]
          /\ \A r \in Sessions : bufBytes'[r] = IF r = sid[h] THEN 0 ELSE bufBytes[r]
          /\ UNCHANGED <<created, live, sid, role, sock, msg, target, sent, delivered>>
      BY <1>0, <2>1 DEF SetBrowser, TypeOK, Unbound
    <3>2. LockHeld'
      <4>1. ASSUME NEW r \in Sessions, sendMu'[r] # None
            PROVE  pc'[sendMu'[r]] = "flush" /\ sid'[sendMu'[r]] = r
        <5>1. CASE r = sid[h]
          BY <3>1, <5>1
        <5>2. CASE r # sid[h]
          <6>1. /\ sendMu'[r] = sendMu[r] /\ sendMu[r] \in Handlers
                /\ pc[sendMu[r]] = "flush" /\ sid[sendMu[r]] = r
            BY <1>q, <1>0, <3>1, <4>1, <5>2 DEF LockHeld
          <6> QED
            BY <3>1, <6>1
        <5> QED
          BY <5>1, <5>2
      <4>2. ASSUME NEW g \in Handlers, pc'[g] = "flush"
            PROVE  sendMu'[sid'[g]] = g /\ role'[g] = "viewer"
        <5>1. CASE g = h
          BY <3>1, <5>1
        <5>2. CASE g # h
          <6>1. sid[g] \in Sessions /\ sendMu[sid[g]] = g /\ role[g] = "viewer"
            BY <1>q, <1>0, <3>1, <4>2, <5>2 DEF LockHeld
          <6> QED
            BY <3>1, <5>2, <6>1, RelayAssumption
        <5> QED
          BY <5>1, <5>2
      <4> QED
        BY <4>1, <4>2 DEF LockHeld
    <3>3. ForwardsNewest'
      BY <1>q, <3>1 DEF ForwardsNewest
    <3>4. WritesToViewer'
      BY <1>q, <1>0, <3>1 DEF WritesToViewer, ViewerOf, Closed
    <3>5. AttachedIsViewer'
      BY <1>q, <3>1 DEF AttachedIsViewer, ViewerOf
    <3>6. StartedIsAttached'
      BY <1>q, <3>1 DEF StartedIsAttached, Closed
    <3>7. BufferBounded'
      <4> SUFFICES ASSUME NEW r \in Sessions
                   PROVE  /\ Len(buffer'[r]) <= MaxItems
                          /\ bufBytes'[r] <= MaxBytes
                          /\ bufBytes'[r] = SizeOf(buffer'[r])
        BY DEF BufferBounded, SizeOf
      <4>1. CASE r = sid[h]
        BY <3>1, <4>1, SizeOfEmpty
      <4>2. CASE r # sid[h]
        BY <1>q, <3>1, <4>2 DEF BufferBounded
      <4> QED
        BY <4>1, <4>2
    <3> QED
      BY <3>2, <3>3, <3>4, <3>5, <3>6, <3>7 DEF FlowInv
  <2>2. CASE FlushWrite(h)
    <3>1. /\ pc[h] = "flush" /\ sid[h] \in Sessions
          /\ \A r \in Sessions : delivered'[r] # <<>> => delivered[r] # <<>> \/ r = sid[h]
          /\ UNCHANGED <<created, live, pc, sid, role, sock, msg, target, sent,
                         browser, buffer, bufBytes, sendMu>>
      BY <1>0, <2>2 DEF FlushWrite, TypeOK
    <3>2. sendMu[sid[h]] # None
      BY <1>q, <3>1 DEF LockHeld
    <3>3. StartedIsAttached'
      BY <1>q, <3>1, <3>2 DEF StartedIsAttached, Closed
    <3>4. LockHeld' /\ ForwardsNewest' /\ WritesToViewer' /\ AttachedIsViewer' /\ BufferBounded'
      BY <1>q, <3>1 DEF LockHeld, ForwardsNewest, WritesToViewer, AttachedIsViewer,
         BufferBounded, ViewerOf, Closed
    <3> QED
      BY <3>3, <3>4 DEF FlowInv
  <2>3. CASE FlushDone(h)
    <3>1. /\ pc[h] = "flush" /\ sid[h] \in Sessions /\ pc'[h] = "serving"
          /\ \A g \in Handlers : g # h => pc'[g] = pc[g]
          /\ \A r \in Sessions : sendMu'[r] = IF r = sid[h] THEN None ELSE sendMu[r]
          /\ UNCHANGED <<created, live, sid, role, sock, msg, target, sent,
                         browser, buffer, bufBytes, delivered>>
      BY <1>0, <2>3 DEF FlushDone, TypeOK
    <3>2. sendMu[sid[h]] = h
      BY <1>q, <3>1 DEF LockHeld
    <3>3. LockHeld'
      <4>1. ASSUME NEW r \in Sessions, sendMu'[r] # None
            PROVE  pc'[sendMu'[r]] = "flush" /\ sid'[sendMu'[r]] = r
        <5>1. /\ r # sid[h] /\ sendMu'[r] = sendMu[r] /\ sendMu[r] \in Handlers
              /\ pc[sendMu[r]] = "flush" /\ sid[sendMu[r]] = r
          BY <1>q, <1>0, <3>1, <4>1 DEF LockHeld
        <5> QED
          BY <3>1, <5>1
      <4>2. ASSUME NEW g \in Handlers, pc'[g] = "flush"
            PROVE  sendMu'[sid'[g]] = g /\ role'[g] = "viewer"
        <5>1. /\ g # h /\ sid[g] \in Sessions
              /\ sendMu[sid[g]] = g /\ role[g] = "viewer"
          BY <1>q, <1>0, <3>1, <4>2 DEF LockHeld
        <5> QED
          BY <3>1, <3>2, <5>1
      <4> QED
        BY <4>1, <4>2 DEF LockHeld
    <3>4. StartedIsAttached'
      BY <1>q, <3>1, <3>2 DEF StartedIsAttached, Closed
    <3>5. ForwardsNewest' /\ WritesToViewer' /\ AttachedIsViewer' /\ BufferBounded'
      BY <1>q, <3>1 DEF ForwardsNewest, WritesToViewer, AttachedIsViewer,
         BufferBounded, ViewerOf, Closed
    <3> QED
      BY <3>3, <3>4, <3>5 DEF FlowInv
  <2>4. CASE AgentReads(h)
    <3>1. /\ pc[h] = "serving" /\ role[h] = "agent" /\ sid[h] \in Sessions
          /\ pc'[h] = "forward" /\ msg'[h] = sent'[sid[h]]
          /\ \A g \in Handlers : g # h => pc'[g] = pc[g] /\ msg'[g] = msg[g]
          /\ \A r \in Sessions : r # sid[h] => sent'[r] = sent[r]
          /\ UNCHANGED <<created, live, sid, role, sock, target,
                         browser, buffer, bufBytes, delivered, sendMu>>
      BY <1>0, <2>4 DEF AgentReads, TypeOK
    <3>2. ASSUME NEW g \in Handlers, g # h, pc[g] \in {"forward", "write"}
          PROVE  sid[g] # sid[h] /\ sid[g] \in Sessions
      <4>1. role[g] = "agent"
        BY <1>q, <3>2 DEF ForwardsNewest
      <4> QED
        BY <1>0, <3>1, <3>2, <4>1, OneAgent DEF Served
    <3>3. ForwardsNewest'
      BY <1>q, <3>1, <3>2 DEF ForwardsNewest
    <3>4. LockHeld' /\ WritesToViewer' /\ AttachedIsViewer' /\ StartedIsAttached' /\ BufferBounded'
      BY <1>q, <1>0, <3>1 DEF LockHeld, WritesToViewer, AttachedIsViewer, StartedIsAttached,
         BufferBounded, ViewerOf, Closed
    <3> QED
      BY <3>3, <3>4 DEF FlowInv
  <2>5. CASE ForwardBuffers(h)
    <3>1. /\ pc[h] = "forward" /\ sid[h] \in Sessions /\ msg[h] \in Frames
          /\ browser[sid[h]] = None
          /\ pc'[h] = "touch"
          /\ \A g \in Handlers : g # h => pc'[g] = pc[g]
          /\ \A r \in Sessions : r # sid[h] => buffer'[r] = buffer[r] /\ bufBytes'[r] = bufBytes[r]
          /\ UNCHANGED <<created, live, sid, role, sock, msg, target, sent,
                         browser, delivered, sendMu>>
      BY <1>0, <2>5 DEF ForwardBuffers, TypeOK
    <3>2. role[h] = "agent"
      BY <1>q, <3>1 DEF ForwardsNewest
    <3>3. ASSUME NEW g \in Handlers, pc'[g] = "write"
          PROVE  g # h /\ pc[g] = "write" /\ sid[g] # sid[h] /\ sid[g] \in Sessions
      <4>1. g # h /\ pc[g] = "write"
        BY <3>1, <3>3
      <4>2. role[g] = "agent"
        BY <1>q, <4>1 DEF ForwardsNewest
      <4>3. Served(g) /\ Served(h)
        BY <3>1, <4>1 DEF Served
      <4> QED
        BY <1>0, <3>2, <4>1, <4>2, <4>3, OneAgent
    <3>4. WritesToViewer'
      BY <1>q, <3>1, <3>3 DEF WritesToViewer, ViewerOf, Closed
    <3>5. LockHeld' /\ StartedIsAttached'
      BY <1>q, <1>0, <3>1 DEF LockHeld, StartedIsAttached, Closed
    <3>6. ForwardsNewest'
      BY <1>q, <3>1, <3>2 DEF ForwardsNewest
    <3>7. AttachedIsViewer'
      BY <1>q, <3>1 DEF AttachedIsViewer, ViewerOf
    <3>8. BufferBounded'
      <4> SUFFICES ASSUME NEW r \in Sessions
                   PROVE  /\ Len(buffer'[r]) <= MaxItems
                          /\ bufBytes'[r] <= MaxBytes
                          /\ bufBytes'[r] = SizeOf(buffer'[r])
        BY DEF BufferBounded, SizeOf
      <4>1. CASE r = sid[h] /\ HasRoom(r, msg[h])
        <5>1. /\ buffer'[r] = Append(buffer[r], msg[h])
              /\ bufBytes'[r] = bufBytes[r] + FrameSize[msg[h]]
          BY <2>5, <4>1 DEF ForwardBuffers, TypeOK
        <5>2. buffer[r] \in Seq(Frames)
          BY DEF TypeOK
        <5>3. SizeOf(buffer'[r]) = SizeOf(buffer[r]) + FrameSize[msg[h]]
          BY <3>1, <5>1, <5>2, SizeOfAppend
        <5>4. Len(buffer'[r]) = Len(buffer[r]) + 1
          BY <5>1, <5>2
        <5>5. FrameSize[msg[h]] \in Nat /\ bufBytes[r] \in Nat /\ Len(buffer[r]) \in Nat
          BY <3>1, <5>2 DEF Frames, TypeOK
        <5> QED
          BY <1>q, <4>1, <5>1, <5>3, <5>4, <5>5 DEF HasRoom, BufferBounded
      <4>2. CASE ~(r = sid[h] /\ HasRoom(r, msg[h]))
        <5>1. buffer'[r] = buffer[r] /\ bufBytes'[r] = bufBytes[r]
          BY <2>5, <3>1, <4>2 DEF ForwardBuffers
        <5> QED
          BY <1>q, <5>1 DEF BufferBounded
      <4> QED
        BY <4>1, <4>2
    <3> QED
      BY <3>4, <3>5, <3>6, <3>7, <3>8 DEF FlowInv
  <2>6. CASE ForwardPicks(h)
    <3>1. /\ pc[h] = "forward" /\ sid[h] \in Sessions
          /\ browser[sid[h]] # None /\ target'[h] = browser[sid[h]]
          /\ pc'[h] = "write"
          /\ \A g \in Handlers : g # h => pc'[g] = pc[g] /\ target'[g] = target[g]
          /\ UNCHANGED <<created, live, sid, role, sock, msg, sent, browser, buffer,
                         bufBytes, delivered, sendMu>>
      BY <1>0, <2>6 DEF ForwardPicks, TypeOK
    <3>2. ViewerOf(sid[h], browser[sid[h]]) /\ buffer[sid[h]] = <<>>
      BY <1>q, <3>1 DEF AttachedIsViewer
    <3>3. WritesToViewer'
      BY <1>q, <3>1, <3>2 DEF WritesToViewer, ViewerOf, Closed
    <3>4. LockHeld' /\ StartedIsAttached' /\ ForwardsNewest' /\ AttachedIsViewer' /\ BufferBounded'
      BY <1>q, <1>0, <3>1 DEF LockHeld, ForwardsNewest, AttachedIsViewer, StartedIsAttached,
         BufferBounded, ViewerOf, Closed
    <3> QED
      BY <3>3, <3>4 DEF FlowInv
  <2>7. CASE ForwardWrites(h)
    <3>1. /\ pc[h] = "write" /\ sid[h] \in Sessions /\ pc'[h] = "touch"
          /\ \A g \in Handlers : g # h => pc'[g] = pc[g]
          /\ \A r \in Sessions : delivered'[r] # <<>> => delivered[r] # <<>> \/ r = sid[h]
          /\ \A g \in Handlers : sock[g] # "none" => sock'[g] # "none"
          /\ UNCHANGED <<created, live, sid, role, msg, target, sent, browser, buffer,
                         bufBytes, sendMu>>
      BY <1>0, <2>7 DEF ForwardWrites, WriteFails, TypeOK
    <3>2. browser[sid[h]] # None \/ Closed(sid[h])
      BY <1>q, <3>1 DEF WritesToViewer
    <3>3. StartedIsAttached'
      BY <1>q, <3>1, <3>2 DEF StartedIsAttached, Closed
    <3>4. target[h] \in Handlers /\ \A g \in Handlers : pc[g] = "write" => target[g] \in Handlers
      BY <3>1 DEF TypeOK
    <3>5. WritesToViewer'
      BY <1>q, <3>1, <3>4 DEF WritesToViewer, ViewerOf, Closed
    <3>6. AttachedIsViewer'
      BY <1>q, <1>0, <3>1 DEF AttachedIsViewer, ViewerOf
    <3>7. LockHeld' /\ ForwardsNewest' /\ BufferBounded'
      BY <1>q, <1>0, <3>1 DEF LockHeld, ForwardsNewest, BufferBounded
    <3> QED
      BY <3>3, <3>5, <3>6, <3>7 DEF FlowInv
  <2>8. CASE DeleteCloses(h)
    <3>1. /\ pc[h] = "closeBoth" /\ pc'[h] = "closing" /\ sid[h] \in Sessions /\ h \in Closers
          /\ CloseBoth(h, sid[h])
          /\ \A g \in Handlers : g # h => pc'[g] = pc[g]
          /\ UNCHANGED <<created, sid, role, sock, msg, target, sent, delivered>>
      BY <1>0, <2>8 DEF DeleteCloses, Closers
    <3>2. live[sid[h]]
      BY <3>1 DEF RemovalInv, RemovedIsBeingClosed, NotYetClosed
    <3> QED
      BY <3>1, <3>2, FlowCloseBoth
  <2>9. CASE /\ ~SetBrowser(h) /\ ~FlushWrite(h) /\ ~FlushDone(h)
             /\ ~AgentReads(h) /\ ~ForwardBuffers(h) /\ ~ForwardPicks(h)
             /\ ~ForwardWrites(h) /\ ~DeleteCloses(h)
    <3>1. /\ UNCHANGED <<browser, buffer, bufBytes, sendMu, msg, target, sent, delivered,
                         created, live>>
          /\ \A g \in Handlers : sock[g] # "none" =>
                 sock'[g] # "none" /\ sid'[g] = sid[g] /\ role'[g] = role[g]
          /\ \A g \in Handlers : pc'[g] = "flush" <=> pc[g] = "flush"
          /\ \A g \in Handlers : pc'[g] \in {"forward", "write", "touch"} => pc'[g] = pc[g]
      <4>1. CASE \E s \in Sessions, r \in Roles : Lookup(h, s, r)
        BY <1>0, <4>1 DEF Lookup, Unbound
      <4>2. CASE Reserve(h) \/ Refuse(h) \/ UpgradeOK(h) \/ UpgradeFails(h) \/ Release(h)
        BY <1>0, <4>2 DEF Reserve, Refuse, UpgradeOK, UpgradeFails, Release
      <4>3. CASE SetAgent(h) \/ Touch(h)
        BY <1>0, <4>3 DEF SetAgent, Touch
      <4>4. CASE FlushBreaks(h)
        BY <1>0, <4>4 DEF FlushBreaks, WriteFails
      <4>5. CASE ReadEnds(h) \/ StoreDelete(h) \/ Return(h)
        BY <1>0, <4>5 DEF ReadEnds, StoreDelete, Return
      <4>6. CASE DeleteClosesNext(h)
        BY <1>0, <4>6 DEF DeleteClosesNext, CloseNext
      <4> QED
        BY <1>3, <2>9, <4>1, <4>2, <4>3, <4>4, <4>5, <4>6 DEF HandlerStep
    <3> QED
      BY <3>1, FlowQuiet DEF Closed
  <2> QED
    BY <2>1, <2>2, <2>3, <2>4, <2>5, <2>6, <2>7, <2>8, <2>9
<1>4. CASE Sweep
  <2>1. CASE SweepTick \/ SweepScan \/ SweepDone
    BY <2>1, FlowQuiet DEF SweepTick, SweepScan, SweepDone, Closed
  <2>2. ASSUME NEW s \in Sessions, SweepCloses(s) PROVE FlowInv'
    <3>1. /\ CloseBoth(Sweeper, s) /\ Sweeper \in Closers /\ s \in stale
          /\ UNCHANGED <<created, pc, sid, role, sock, msg, target, sent, delivered>>
      BY <2>2 DEF SweepCloses, Closers
    <3>2. live[s]
      BY <3>1 DEF RemovalInv, RemovedIsBeingClosed, NotYetClosed
    <3> QED
      BY <3>1, <3>2, FlowCloseBoth
  <2>3. CASE SweepClosesNext
    BY <1>0, <2>3, FlowQuiet DEF SweepClosesNext, CloseNext, Closed
  <2> QED
    BY <1>4, <2>1, <2>2, <2>3 DEF Sweep
<1>5. CASE UNCHANGED vars
  BY <1>5, FlowQuiet DEF vars, Closed
<1> QED
  BY <1>1, <1>2, <1>3, <1>4, <1>5, NextIsHandlerStep

-----------------------------------------------------------------------------
(* Sequences that lose a run of their elements.                            *)

(* Taking the head of a concatenation takes it from the first sequence.    *)
LEMMA HeadTailConcat ==
    ASSUME NEW S, NEW a \in Seq(S), NEW b \in Seq(S), a # <<>>
    PROVE  a \o b # <<>> /\ Head(a \o b) = Head(a) /\ Tail(a \o b) = Tail(a) \o b
<1>1. /\ a \o b \in Seq(S) /\ Len(a \o b) = Len(a) + Len(b)
      /\ Len(a) \in Nat \ {0} /\ Len(b) \in Nat
      /\ \A i \in 1..Len(a) + Len(b) : (a \o b)[i] = IF i <= Len(a) THEN a[i] ELSE b[i - Len(a)]
  BY ConcatProperties, EmptySeq
<1>2. /\ Tail(a) \in Seq(S) /\ Len(Tail(a)) = Len(a) - 1
      /\ \A i \in 1..Len(Tail(a)) : Tail(a)[i] = a[i + 1]
  BY HeadTailProperties
<1>3. a \o b # <<>>
  BY <1>1
<1>4. /\ Tail(a \o b) \in Seq(S) /\ Len(Tail(a \o b)) = Len(a \o b) - 1
      /\ \A i \in 1..Len(Tail(a \o b)) : Tail(a \o b)[i] = (a \o b)[i + 1]
  BY <1>1, <1>3, HeadTailProperties
<1>5. /\ Tail(a) \o b \in Seq(S) /\ Len(Tail(a) \o b) = Len(Tail(a)) + Len(b)
      /\ \A i \in 1..Len(Tail(a)) + Len(b) :
            (Tail(a) \o b)[i] = IF i <= Len(Tail(a)) THEN Tail(a)[i] ELSE b[i - Len(Tail(a))]
  BY <1>2, ConcatProperties
<1>6. Len(Tail(a \o b)) = Len(Tail(a) \o b)
  BY <1>1, <1>2, <1>4, <1>5
<1>7. ASSUME NEW i \in 1..Len(Tail(a \o b)) PROVE Tail(a \o b)[i] = (Tail(a) \o b)[i]
  <2>1. CASE i <= Len(Tail(a))
    BY <1>1, <1>2, <1>4, <1>5, <2>1
  <2>2. CASE i > Len(Tail(a))
    <3>1. Tail(a \o b)[i] = b[i + 1 - Len(a)]
      BY <1>1, <1>2, <1>4, <2>2
    <3>2. (Tail(a) \o b)[i] = b[i - Len(Tail(a))]
      BY <1>1, <1>2, <1>4, <1>5, <2>2
    <3>3. i + 1 - Len(a) = i - Len(Tail(a))
      <4>1. Len(a) \in Nat /\ Len(Tail(a)) = Len(a) - 1 /\ i \in Int
        BY <1>1, <1>2, <1>4
      <4> QED
        BY <4>1
    <3> QED
      BY <3>1, <3>2, <3>3, Zenon
  <2> QED
    BY <1>1, <1>2, <1>4, <2>1, <2>2
<1>8. Tail(a \o b) = Tail(a) \o b
  BY <1>4, <1>5, <1>6, <1>7, SeqEqual
<1>9. Head(a \o b) = Head(a)
  BY <1>1
<1> QED
  BY <1>3, <1>8, <1>9

(* The two parts of a concatenation are what SubSeq cuts out of it.        *)
LEMMA SplitConcat ==
    ASSUME NEW S, NEW a \in Seq(S), NEW b \in Seq(S)
    PROVE  /\ SubSeq(a \o b, 1, Len(a)) = a
           /\ SubSeq(a \o b, Len(a) + 1, Len(a \o b)) = b
<1>1. /\ a \o b \in Seq(S) /\ Len(a \o b) = Len(a) + Len(b)
      /\ Len(a) \in Nat /\ Len(b) \in Nat
      /\ \A i \in 1..Len(a) + Len(b) : (a \o b)[i] = IF i <= Len(a) THEN a[i] ELSE b[i - Len(a)]
  BY ConcatProperties
<1>2. \A i \in 1..Len(a \o b) : (a \o b)[i] \in S
  BY <1>1, ElementOfSeq
<1>3. /\ SubSeq(a \o b, 1, Len(a)) \in Seq(S)
      /\ Len(SubSeq(a \o b, 1, Len(a))) = Len(a)
      /\ \A i \in 1..Len(a) : SubSeq(a \o b, 1, Len(a))[i] = (a \o b)[i]
  <2>1. \A i \in 1..Len(a) : (a \o b)[i] \in S
    BY <1>1, <1>2
  <2>2. 1 \in Int /\ Len(a) \in Int
    BY <1>1
  <2>3. /\ SubSeq(a \o b, 1, Len(a)) \in Seq(S)
        /\ Len(SubSeq(a \o b, 1, Len(a))) = IF 1 <= Len(a) THEN Len(a) - 1 + 1 ELSE 0
        /\ \A i \in 1..Len(a) - 1 + 1 : SubSeq(a \o b, 1, Len(a))[i] = (a \o b)[1 + i - 1]
    BY <2>1, <2>2, SubSeqProperties
  <2> QED
    BY <1>1, <2>3
<1>4. SubSeq(a \o b, 1, Len(a)) = a
  BY <1>1, <1>3, SeqEqual
<1>5. /\ SubSeq(a \o b, Len(a) + 1, Len(a \o b)) \in Seq(S)
      /\ Len(SubSeq(a \o b, Len(a) + 1, Len(a \o b))) = Len(b)
      /\ \A i \in 1..Len(b) : SubSeq(a \o b, Len(a) + 1, Len(a \o b))[i] = b[i]
  <2> DEFINE m == Len(a) + 1
             n == Len(a \o b)
  <2>1. \A i \in m..n : (a \o b)[i] \in S
    BY <1>1, <1>2
  <2>2. m \in Int /\ n \in Int /\ n - m + 1 = Len(b)
    BY <1>1
  <2> HIDE DEF m, n
  <2>3. /\ SubSeq(a \o b, m, n) \in Seq(S)
        /\ Len(SubSeq(a \o b, m, n)) = IF m <= n THEN n - m + 1 ELSE 0
        /\ \A i \in 1..n - m + 1 : SubSeq(a \o b, m, n)[i] = (a \o b)[m + i - 1]
    <3> DEFINE p == a \o b
    <3>1. \A i \in m..n : p[i] \in S
      BY <2>1
    <3> HIDE DEF p
    <3>2. /\ SubSeq(p, m, n) \in Seq(S)
          /\ Len(SubSeq(p, m, n)) = IF m <= n THEN n - m + 1 ELSE 0
          /\ \A i \in 1..n - m + 1 : SubSeq(p, m, n)[i] = p[m + i - 1]
      BY <2>2, <3>1, SubSeqProperties
    <3> QED
      BY <3>2 DEF p
  <2>4. \A i \in 1..Len(b) : SubSeq(a \o b, m, n)[i] = (a \o b)[m + i - 1]
    BY <2>2, <2>3
  <2>5. \A i \in 1..Len(b) : (a \o b)[m + i - 1] = b[i]
    BY <1>1 DEF m
  <2>6. Len(SubSeq(a \o b, m, n)) = Len(b)
    BY <1>1, <2>2, <2>3
  <2> QED
    BY <2>3, <2>4, <2>5, <2>6 DEF m, n
<1>6. SubSeq(a \o b, Len(a) + 1, Len(a \o b)) = b
  BY <1>5, SeqEqual
<1> QED
  BY <1>4, <1>6

(* q is p without a run of its elements.                                   *)
RunDropped(p, q) ==
    \E i \in 1..Len(p) + 1 : \E j \in i - 1..Len(p) :
        q = SubSeq(p, 1, i - 1) \o SubSeq(p, j + 1, Len(p))

(* Leaving out the middle of three sequences drops a run.                  *)
LEMMA DropRun ==
    ASSUME NEW S, NEW a \in Seq(S), NEW b \in Seq(S), NEW c \in Seq(S), NEW p, p = a \o b \o c
    PROVE  RunDropped(p, a \o c)
<1>1. /\ a \o b \in Seq(S) /\ b \o c \in Seq(S)
      /\ Len(a \o b) = Len(a) + Len(b) /\ Len(p) = Len(a) + Len(b) + Len(c)
      /\ Len(a) \in Nat /\ Len(b) \in Nat /\ Len(c) \in Nat
  BY ConcatProperties
<1>2. p = a \o (b \o c)
  BY ConcatAssociative
<1>3. SubSeq(p, 1, Len(a)) = a
  BY <1>1, <1>2, SplitConcat
<1>4. SubSeq(p, Len(a \o b) + 1, Len(p)) = c
  BY <1>1, SplitConcat
<1>5. \E i, j \in Nat : i - 1 = Len(a) /\ j = Len(a \o b)
  BY <1>1
<1>6. PICK i, j \in Nat : i - 1 = Len(a) /\ j = Len(a \o b)
  BY <1>5
<1>7. i \in 1..Len(p) + 1 /\ j \in i - 1..Len(p)
  BY <1>1, <1>6
<1>8. a \o c = SubSeq(p, 1, i - 1) \o SubSeq(p, j + 1, Len(p))
  BY <1>3, <1>4, <1>6, Zenon
<1> QED
  BY <1>7, <1>8, Zenon DEF RunDropped

-----------------------------------------------------------------------------
(* The channel action a step of the relay is, by what it does to one       *)
(* session.                                                                *)

(* A step of the relay, seen as one of the channel.                        *)
ChannelStep == [Channel!ChannelNext]_(Channel!channel)

(* What is flushed, buffered and in flight are sequences of frames.        *)
LEMMA FlowTypes ==
    ASSUME TypeOK, FlowInv, NEW s \in Sessions
    PROVE  /\ Flushing(s) \in Seq(Frames) /\ buffer[s] \in Seq(Frames)
           /\ InFlight(s) \in Seq(Frames) /\ Pending(s) \in Seq(Frames)
           /\ Cut(s) \in BOOLEAN
<1>1. Flushing(s) \in Seq(Frames) /\ buffer[s] \in Seq(Frames)
  BY DEF TypeOK, Flushing
<1>2. InFlight(s) \in Seq(Frames)
  <2>1. CASE \E h \in Handlers : sid[h] = s /\ pc[h] \in {"forward", "write"}
    <3>1. PICK h \in Handlers : sid[h] = s /\ pc[h] \in {"forward", "write"}
      BY <2>1
    <3>2. sent[s] \in Frames
      BY <3>1 DEF TypeOK, FlowInv, ForwardsNewest
    <3> QED
      BY <2>1, <3>2 DEF InFlight
  <2>2. CASE ~\E h \in Handlers : sid[h] = s /\ pc[h] \in {"forward", "write"}
    BY <2>2 DEF InFlight
  <2> QED
    BY <2>1, <2>2
<1>3. Pending(s) \in Seq(Frames)
  BY <1>1, <1>2, ConcatProperties DEF Pending
<1> QED
  BY <1>1, <1>2, <1>3 DEF Cut

(* The channel action that a step of the relay is, given what it does to   *)
(* one session and that it leaves the others alone.                        *)
Elsewhere(s) ==
    \A r \in Sessions : r # s => Pending(r)' = Pending(r) /\ Cut(r)' = Cut(r)

(* A frame was read from the agent.                                        *)
LEMMA IsSend ==
    ASSUME NEW s \in Sessions, Elsewhere(s), sent[s] < MaxFrames,
           sent' = [sent EXCEPT ![s] = @ + 1], UNCHANGED delivered,
           Pending(s)' = Append(Pending(s), sent[s] + 1), Cut(s)' = Cut(s)
    PROVE  ChannelStep
<1>1. Channel!Send(s)
  BY DEF Channel!Send, Elsewhere
<1> QED
  BY <1>1 DEF ChannelStep, Channel!ChannelNext

(* The newest frame did not fit (the default of ForwardToBrowser).         *)
LEMMA IsRefused ==
    ASSUME NEW s \in Sessions, Elsewhere(s), UNCHANGED <<sent, delivered>>,
           Pending(s) # <<>>, delivered[s] = <<>>,
           Len(Pending(s)) > MaxItems \/ SizeOf(Pending(s)) > MaxBytes,
           Pending(s)' = SubSeq(Pending(s), 1, Len(Pending(s)) - 1), Cut(s)' = Cut(s)
    PROVE  ChannelStep
<1>1. Channel!Size(Pending(s)) = SizeOf(Pending(s))
  BY DEF Channel!Size, SizeOf
<1>2. Channel!Refused(s)
  BY <1>1 DEF Channel!Refused, Elsewhere
<1> QED
  BY <1>2 DEF ChannelStep, Channel!ChannelNext

(* The oldest pending frame reached the viewer.                            *)
LEMMA IsDeliver ==
    ASSUME NEW s \in Sessions, Elsewhere(s), UNCHANGED sent,
           Pending(s) # <<>>,
           delivered' = [delivered EXCEPT ![s] = Append(@, Head(Pending(s)))],
           Pending(s)' = Tail(Pending(s)), Cut(s)' = Cut(s)
    PROVE  ChannelStep
<1>1. Channel!Deliver(s)
  BY DEF Channel!Deliver, Elsewhere
<1> QED
  BY <1>1 DEF ChannelStep, Channel!ChannelNext

(* Frames were lost, and the channel is cut.                               *)
LEMMA IsLose ==
    ASSUME NEW s \in Sessions, Elsewhere(s), UNCHANGED <<sent, delivered>>,
           NEW a \in Seq(Frames), NEW b \in Seq(Frames), NEW c \in Seq(Frames),
           Pending(s) = a \o b \o c, Pending(s)' = a \o c, Cut(s)' = TRUE
    PROVE  ChannelStep
<1>1. RunDropped(Pending(s), Pending(s)')
  BY DropRun, Zenon
<1>2. \A r \in Sessions : Cut(r)' = IF r = s THEN TRUE ELSE Cut(r)
  BY DEF Elsewhere
<1>3. Channel!Lose(s)
  BY <1>1, <1>2 DEF Channel!Lose, Elsewhere, RunDropped
<1> QED
  BY <1>3 DEF ChannelStep, Channel!ChannelNext

(* No frame moved.                                                         *)
LEMMA IsQuiet ==
    ASSUME UNCHANGED <<sent, delivered>>,
           \A r \in Sessions : Pending(r)' = Pending(r) /\ Cut(r)' = Cut(r)
    PROVE  ChannelStep
  BY DEF ChannelStep, Channel!channel

-----------------------------------------------------------------------------
(* Steps that move no frame, and steps that cut the channel.               *)

(* The Forward call of h carries a frame of s; the socket of viewer h of s *)
(* is gone.                                                                *)
Carries(h, s) == sid[h] = s /\ pc[h] \in {"forward", "write"}
Breaks(h, s)  == sid[h] = s /\ role[h] = "viewer" /\ sock[h] \in {"broken", "closed"}

(* InFlight is the last frame sent exactly while a handler carries it.     *)
LEMMA InFlightCarried ==
    ASSUME NEW s \in Sessions
    PROVE  /\ (\E h \in Handlers : Carries(h, s)) => InFlight(s) = <<sent[s]>>
           /\ (\A h \in Handlers : ~Carries(h, s)) => InFlight(s) = <<>>
  BY DEF InFlight, Carries

(* A step that moves no frame keeps Pending.                               *)
LEMMA PendingKept ==
    ASSUME NEW s \in Sessions,
           Flushing(s)' = Flushing(s), buffer'[s] = buffer[s], sent'[s] = sent[s],
           \A h \in Handlers : Carries(h, s)' <=> Carries(h, s)
    PROVE  Pending(s)' = Pending(s)
<1>1. InFlight(s)' = InFlight(s)
  BY DEF InFlight, Carries
<1> QED
  BY <1>1 DEF Pending

(* A step that closes no session and breaks no viewer keeps Cut.           *)
LEMMA CutKept ==
    ASSUME NEW s \in Sessions, Closed(s)' <=> Closed(s),
           \A h \in Handlers : Breaks(h, s)' <=> Breaks(h, s)
    PROVE  Cut(s)' = Cut(s)
  BY DEF Cut, Closed, Breaks

(* A closed session, or a viewer whose socket is gone, is cut.             *)
LEMMA CutNow ==
    ASSUME NEW s \in Sessions, Closed(s)' \/ \E h \in Handlers : Breaks(h, s)'
    PROVE  Cut(s)' = TRUE
  BY DEF Cut, Closed, Breaks

(* A step that moves no frame and breaks no socket.                        *)
LEMMA QuietKeepsChannel ==
    ASSUME UNCHANGED <<sendMu, flush, buffer, sent, delivered>>,
           \A s \in Sessions : Closed(s)' <=> Closed(s),
           \A h \in Handlers : \A s \in Sessions : Carries(h, s)' <=> Carries(h, s),
           \A h \in Handlers : \A s \in Sessions : Breaks(h, s)' <=> Breaks(h, s)
    PROVE  ChannelStep
<1>1. \A s \in Sessions : Flushing(s)' = Flushing(s)
  BY DEF Flushing
<1>2. \A s \in Sessions : Pending(s)' = Pending(s) /\ Cut(s)' = Cut(s)
  BY <1>1, PendingKept, CutKept
<1> QED
  BY <1>2, IsQuiet

(* Closing a socket cuts the channel, if it is the viewer's.               *)
LEMMA ClosingASocket ==
    ASSUME TypeOK, FlowInv, NEW g \in Handlers, sid[g] \in Sessions,
           UNCHANGED <<sendMu, flush, buffer, sent, delivered, created, live, sid, role>>,
           \A h \in Handlers : \A s \in Sessions : Carries(h, s)' <=> Carries(h, s),
           sock' = [sock EXCEPT ![g] = "closed"]
    PROVE  ChannelStep
<1>1. \A s \in Sessions : Flushing(s)' = Flushing(s)
  BY DEF Flushing
<1>2. \A s \in Sessions : Pending(s)' = Pending(s)
  BY <1>1, PendingKept
<1>3. \A h \in Handlers : sock'[h] = IF h = g THEN "closed" ELSE sock[h]
  BY DEF TypeOK
<1>4. CASE role[g] = "viewer"
  <2>1. \A s \in Sessions : s # sid[g] => Cut(s)' = Cut(s)
    BY <1>3, CutKept DEF Closed, Breaks
  <2>2. Breaks(g, sid[g])'
    BY <1>3, <1>4 DEF Breaks
  <2>3. Cut(sid[g])' = TRUE
    BY <2>2, CutNow
  <2>4. /\ Pending(sid[g]) \in Seq(Frames) /\ <<>> \in Seq(Frames)
        /\ Pending(sid[g]) = Pending(sid[g]) \o <<>> \o <<>>
        /\ Pending(sid[g])' = Pending(sid[g]) \o <<>>
    BY <1>2, FlowTypes, ConcatEmptySeq, EmptySeq
  <2> QED
    BY <1>2, <2>1, <2>3, <2>4, IsLose DEF Elsewhere
<1>5. CASE role[g] # "viewer"
  <2>1. \A s \in Sessions : Cut(s)' = Cut(s)
    BY <1>3, <1>5, CutKept DEF Closed, Breaks
  <2> QED
    BY <1>2, <2>1, IsQuiet
<1> QED
  BY <1>4, <1>5

(* CloseBoth cuts the channel and loses what the buffer held.              *)
LEMMA CloseBothCuts ==
    ASSUME TypeOK, FlowInv, RemovalInv, NEW c \in Closers, NEW s \in Sessions,
           CloseBoth(c, s), live[s],
           UNCHANGED <<flush, sent, delivered, created, sid, role, sock>>,
           \A h \in Handlers : \A r \in Sessions : Carries(h, r)' <=> Carries(h, r)
    PROVE  ChannelStep
<1>1. /\ \A r \in Sessions : buffer'[r] = IF r = s THEN <<>> ELSE buffer[r]
      /\ \A r \in Sessions : live'[r] = IF r = s THEN FALSE ELSE live[r]
      /\ UNCHANGED sendMu
  BY DEF CloseBoth, TypeOK
<1>2. \A r \in Sessions : Flushing(r)' = Flushing(r)
  BY <1>1 DEF Flushing
<1>3. \A r \in Sessions : r # s => Cut(r)' = Cut(r)
  BY <1>1, CutKept DEF Closed, Breaks
<1>4. \A r \in Sessions : r # s => Pending(r)' = Pending(r)
  BY <1>1, <1>2, PendingKept
<1>5. Closed(s)'
  BY <1>1 DEF Closed, RemovalInv
<1>6. Cut(s)' = TRUE
  BY <1>5, CutNow
<1>7. InFlight(s)' = InFlight(s)
  BY DEF InFlight, Carries
<1>8. /\ Flushing(s) \in Seq(Frames) /\ buffer[s] \in Seq(Frames) /\ InFlight(s) \in Seq(Frames)
      /\ Flushing(s) \o <<>> = Flushing(s)
  BY FlowTypes, ConcatEmptySeq
<1>9. Pending(s) = Flushing(s) \o buffer[s] \o InFlight(s)
  BY DEF Pending
<1>10. Pending(s)' = Flushing(s) \o InFlight(s)
  BY <1>1, <1>2, <1>7, <1>8 DEF Pending
<1> QED
  BY <1>3, <1>4, <1>6, <1>8, <1>9, <1>10, IsLose DEF Elsewhere

-----------------------------------------------------------------------------
(* Steps that move a frame.                                                *)

(* The three parts of Pending may be grouped either way.                   *)
LEMMA FramesAssociative ==
    \A a, b, c \in Seq(Frames) : (a \o b) \o c = a \o (b \o c)
  BY ConcatAssociative

(* A buffer is longer by one after a frame was appended.                   *)
LEMMA AppendFrame ==
    \A a \in Seq(Frames), n \in Frames :
        Len(Append(a, n)) = Len(a) + 1 /\ Append(a, n) # <<>>
  BY AppendProperties

(* Reading a frame from the agent sends it into the channel.               *)
LEMMA AgentReadsSends ==
    ASSUME TypeOK, BindingInv, FlowInv, NEW h \in Handlers, AgentReads(h)
    PROVE  ChannelStep
<1> USE DEF storeVars, sessVars, handlerVars, sweepVars, history, Goto, Use
<1>0. PICK s \in Sessions : s = sid[h]
  BY DEF AgentReads, TypeOK
<1>1. /\ s \in Sessions /\ s = sid[h]
      /\ pc[h] = "serving" /\ role[h] = "agent" /\ pc'[h] = "forward"
      /\ sent[s] < MaxFrames /\ sent' = [sent EXCEPT ![s] = @ + 1]
      /\ sent'[s] = sent[s] + 1 /\ sent[s] + 1 \in Frames
      /\ \A g \in Handlers : g # h => pc'[g] = pc[g]
      /\ \A r \in Sessions : r # s => sent'[r] = sent[r]
      /\ UNCHANGED <<created, live, sid, role, sock, sendMu, flush, buffer, delivered>>
  <2>1. sent \in [Sessions -> 0..MaxFrames] /\ pc \in [Handlers -> PCs]
    BY DEF TypeOK
  <2>2. sent[s] < MaxFrames /\ sent' = [sent EXCEPT ![s] = @ + 1]
    BY <1>0 DEF AgentReads
  <2>3. sent'[s] = sent[s] + 1 /\ \A r \in Sessions : r # s => sent'[r] = sent[r]
    BY <2>1, <2>2
  <2>4. sent[s] + 1 \in Frames
    BY <2>1, <2>2, RelayAssumption DEF Frames
  <2>5. /\ pc[h] = "serving" /\ role[h] = "agent" /\ pc'[h] = "forward"
        /\ \A g \in Handlers : g # h => pc'[g] = pc[g]
        /\ UNCHANGED <<created, live, sid, role, sock, sendMu, flush, buffer, delivered>>
    BY <2>1 DEF AgentReads
  <2> QED
    BY <1>0, <2>2, <2>3, <2>4, <2>5
<1>2. \A g \in Handlers : ~Carries(g, s)
  <2> SUFFICES ASSUME NEW g \in Handlers, Carries(g, s) PROVE FALSE
    OBVIOUS
  <2>1. role[g] = "agent" /\ sid[g] = s /\ Served(g) /\ Served(h)
    BY <1>1 DEF Carries, FlowInv, ForwardsNewest, Served
  <2>2. g = h
    BY <1>1, <2>1, OneAgent
  <2> QED
    BY <1>1, <2>2 DEF Carries
<1>3. InFlight(s) = <<>>
  BY <1>1, <1>2, InFlightCarried
<1>4. Carries(h, s)'
  BY <1>1 DEF Carries
<1>5. InFlight(s)' = <<sent[s] + 1>>
  BY <1>1, <1>4 DEF InFlight, Carries
<1>6. \A r \in Sessions : Flushing(r)' = Flushing(r)
  BY <1>1 DEF Flushing
<1>7. Flushing(s) \in Seq(Frames) /\ buffer[s] \in Seq(Frames)
  BY <1>1, FlowTypes
<1>8. Pending(s)' = Append(Pending(s), sent[s] + 1)
  <2> DEFINE q == Flushing(s) \o buffer[s]
  <2>1. q \in Seq(Frames)
    BY <1>7, ConcatProperties
  <2>2. Pending(s)' = q \o <<sent[s] + 1>>
    BY <1>1, <1>5, <1>6 DEF Pending
  <2>3. Pending(s) = q \o <<>>
    BY <1>3 DEF Pending
  <2> HIDE DEF q
  <2>4. q \o <<>> = q /\ Append(q, sent[s] + 1) = q \o <<sent[s] + 1>>
    BY <1>1, <2>1, ConcatEmptySeq, AppendIsConcat
  <2> QED
    BY <2>2, <2>3, <2>4
<1>9. ASSUME NEW r \in Sessions, r # s PROVE Pending(r)' = Pending(r)
  <2>1. \A g \in Handlers : Carries(g, r)' <=> Carries(g, r)
    BY <1>1, <1>9 DEF Carries
  <2> QED
    BY <1>1, <1>6, <1>9, <2>1, PendingKept
<1>10. \A r \in Sessions : Cut(r)' = Cut(r)
  BY <1>1, CutKept DEF Closed, Breaks
<1> QED
  BY <1>1, <1>8, <1>9, <1>10, IsSend DEF Elsewhere

(* Taking the buffer for a flush moves frames within Pending.              *)
LEMMA SetBrowserIsQuiet ==
    ASSUME TypeOK, BindingInv, FlowInv, NEW h \in Handlers, SetBrowser(h)
    PROVE  ChannelStep
<1> USE RelayAssumption DEF storeVars, sessVars, handlerVars, sweepVars, history, Goto, Use
<1>0. PICK s \in Sessions : s = sid[h]
  BY DEF SetBrowser, TypeOK
<1>1. /\ s \in Sessions /\ s = sid[h] /\ pc[h] = "bind" /\ pc'[h] = "flush"
      /\ sendMu[s] = None /\ h # None
      /\ \A g \in Handlers : g # h => pc'[g] = pc[g] /\ flush'[g] = flush[g]
      /\ flush'[h] = buffer[s] /\ sendMu'[s] = h /\ buffer'[s] = <<>>
      /\ \A r \in Sessions : r # s => sendMu'[r] = sendMu[r] /\ buffer'[r] = buffer[r]
      /\ UNCHANGED <<created, live, sid, role, sock, sent, delivered>>
  BY <1>0 DEF SetBrowser, TypeOK
<1>2. \A g \in Handlers : \A r \in Sessions : Carries(g, r)' <=> Carries(g, r)
  BY <1>1 DEF Carries
<1>3. \A r \in Sessions : Cut(r)' = Cut(r)
  BY <1>1, CutKept DEF Closed, Breaks
<1>4. ASSUME NEW r \in Sessions, r # s PROVE Pending(r)' = Pending(r)
  <2>1. sendMu[r] # None => sendMu[r] \in Handlers /\ sendMu[r] # h
    BY <1>1, <1>4 DEF FlowInv, LockHeld, TypeOK
  <2>2. Flushing(r)' = Flushing(r)
    BY <1>1, <1>4, <2>1 DEF Flushing
  <2> QED
    BY <1>1, <1>2, <1>4, <2>2, PendingKept
<1>5. Pending(s)' = Pending(s)
  <2>1. Flushing(s) = <<>> /\ Flushing(s)' = buffer[s]
    BY <1>1 DEF Flushing
  <2>2. InFlight(s)' = InFlight(s)
    BY <1>1, <1>2 DEF InFlight, Carries
  <2>3. buffer[s] \in Seq(Frames) /\ buffer[s] \o <<>> = buffer[s] /\ <<>> \o buffer[s] = buffer[s]
    BY <1>1, FlowTypes, ConcatEmptySeq
  <2>4. Pending(s)' = (buffer[s] \o <<>>) \o InFlight(s)
    BY <1>1, <2>1, <2>2 DEF Pending
  <2>5. Pending(s) = (<<>> \o buffer[s]) \o InFlight(s)
    BY <2>1 DEF Pending
  <2> QED
    BY <2>3, <2>4, <2>5
<1> QED
  BY <1>1, <1>3, <1>4, <1>5, IsQuiet

(* A flushed frame is the oldest one pending.                              *)
LEMMA FlushWriteDelivers ==
    ASSUME TypeOK, BindingInv, FlowInv, NEW h \in Handlers, FlushWrite(h)
    PROVE  ChannelStep
<1> USE RelayAssumption DEF storeVars, sessVars, handlerVars, sweepVars, history, Goto, Use
<1>0. PICK s \in Sessions : s = sid[h]
  BY DEF FlushWrite, TypeOK
<1>1. /\ s \in Sessions /\ s = sid[h] /\ pc[h] = "flush" /\ flush[h] # <<>> /\ h # None
      /\ flush[h] \in Seq(Frames)
      /\ flush'[h] = Tail(flush[h])
      /\ \A g \in Handlers : g # h => flush'[g] = flush[g]
      /\ delivered' = [delivered EXCEPT ![s] = Append(@, Head(flush[h]))]
      /\ UNCHANGED <<created, live, pc, sid, role, sock, sent, sendMu, buffer>>
  BY <1>0 DEF FlushWrite, TypeOK
<1>2. sendMu[s] = h
  BY <1>1 DEF FlowInv, LockHeld
<1>3. \A r \in Sessions : Cut(r)' = Cut(r)
  BY <1>1, CutKept DEF Closed, Breaks
<1>4. \A g \in Handlers : \A r \in Sessions : Carries(g, r)' <=> Carries(g, r)
  BY <1>1 DEF Carries
<1>5. ASSUME NEW r \in Sessions, r # s PROVE Pending(r)' = Pending(r)
  <2>1. sendMu[r] # None => sendMu[r] \in Handlers /\ sendMu[r] # h
    BY <1>1, <1>5 DEF FlowInv, LockHeld, TypeOK
  <2>2. Flushing(r)' = Flushing(r)
    BY <1>1, <2>1 DEF Flushing
  <2> QED
    BY <1>1, <1>4, <2>2, PendingKept
<1>6. /\ Pending(s) # <<>> /\ Head(Pending(s)) = Head(flush[h])
      /\ Pending(s)' = Tail(Pending(s))
  <2>1. Flushing(s) = flush[h] /\ Flushing(s)' = Tail(flush[h])
    BY <1>1, <1>2 DEF Flushing
  <2>2. InFlight(s)' = InFlight(s)
    BY <1>1, <1>4 DEF InFlight, Carries
  <2>3. buffer[s] \in Seq(Frames) /\ InFlight(s) \in Seq(Frames)
    BY <1>1, FlowTypes
  <2>4. /\ flush[h] \o buffer[s] \in Seq(Frames) /\ flush[h] \o buffer[s] # <<>>
        /\ Head(flush[h] \o buffer[s]) = Head(flush[h])
        /\ Tail(flush[h] \o buffer[s]) = Tail(flush[h]) \o buffer[s]
    BY <1>1, <2>3, HeadTailConcat, ConcatProperties
  <2> DEFINE q == flush[h] \o buffer[s]
  <2>5. /\ q \o InFlight(s) # <<>> /\ Head(q \o InFlight(s)) = Head(q)
        /\ Tail(q \o InFlight(s)) = Tail(q) \o InFlight(s)
    <3> HIDE DEF q
    <3>1. q \in Seq(Frames) /\ q # <<>>
      BY <2>4 DEF q
    <3> QED
      BY <3>1, <2>3, HeadTailConcat
  <2>6. Pending(s) = q \o InFlight(s)
    BY <2>1 DEF Pending
  <2>7. Pending(s)' = (Tail(flush[h]) \o buffer[s]) \o InFlight(s)
    BY <1>1, <2>1, <2>2 DEF Pending
  <2> QED
    BY <2>4, <2>5, <2>6, <2>7
<1> QED
  BY <1>1, <1>3, <1>5, <1>6, IsDeliver DEF Elsewhere

(* A failed write of a flush loses what is left of the flush, and cuts.    *)
LEMMA FlushBreaksLoses ==
    ASSUME TypeOK, BindingInv, FlowInv, NEW h \in Handlers, FlushBreaks(h)
    PROVE  ChannelStep
<1> USE RelayAssumption DEF storeVars, sessVars, handlerVars, sweepVars, history, Goto, Use
<1>0. PICK s \in Sessions : s = sid[h]
  BY DEF FlushBreaks, TypeOK
<1>1. /\ s \in Sessions /\ s = sid[h] /\ pc[h] = "flush" /\ h # None
      /\ flush[h] \in Seq(Frames) /\ flush'[h] = <<>>
      /\ \A g \in Handlers : g # h => flush'[g] = flush[g] /\ sock'[g] = sock[g]
      /\ sock[h] # "none" /\ sock'[h] \in {"broken", "closed"}
      /\ UNCHANGED <<created, live, pc, sid, role, sent, sendMu, buffer, delivered>>
  BY <1>0 DEF FlushBreaks, WriteFails, TypeOK, BindingInv, SocketInv, SocketFollowsPc, Unbound
<1>2. sendMu[s] = h /\ role[h] = "viewer"
  BY <1>1 DEF FlowInv, LockHeld
<1>3. \A r \in Sessions : r # s => Cut(r)' = Cut(r)
  BY <1>1, CutKept DEF Closed, Breaks
<1>4. \A g \in Handlers : \A r \in Sessions : Carries(g, r)' <=> Carries(g, r)
  BY <1>1 DEF Carries
<1>5. ASSUME NEW r \in Sessions, r # s PROVE Pending(r)' = Pending(r)
  <2>1. sendMu[r] # None => sendMu[r] \in Handlers /\ sendMu[r] # h
    BY <1>1, <1>5 DEF FlowInv, LockHeld, TypeOK
  <2>2. Flushing(r)' = Flushing(r)
    BY <1>1, <2>1 DEF Flushing
  <2> QED
    BY <1>1, <1>4, <2>2, PendingKept
<1>6. Cut(s)' = TRUE
  <2>1. Breaks(h, s)'
    BY <1>1, <1>2 DEF Breaks
  <2> QED
    BY <1>1, <2>1, CutNow
<1>7. Flushing(s) = flush[h] /\ Flushing(s)' = <<>>
  BY <1>1, <1>2 DEF Flushing
<1>8. InFlight(s)' = InFlight(s)
  BY <1>1, <1>4 DEF InFlight, Carries
<1>9. buffer[s] \in Seq(Frames) /\ InFlight(s) \in Seq(Frames)
  BY <1>1, FlowTypes
<1> DEFINE q == buffer[s] \o InFlight(s)
<1>10. q \in Seq(Frames) /\ <<>> \in Seq(Frames)
  BY <1>9, ConcatProperties, EmptySeq
<1>11. Pending(s) = <<>> \o flush[h] \o q
  <2>1. Pending(s) = (flush[h] \o buffer[s]) \o InFlight(s)
    BY <1>7 DEF Pending
  <2>2. (flush[h] \o buffer[s]) \o InFlight(s) = flush[h] \o (buffer[s] \o InFlight(s))
    <3>1. flush[h] \in Seq(Frames)
      BY <1>1
    <3> QED
      BY <1>9, <3>1, FramesAssociative
  <2>3. <<>> \o flush[h] = flush[h]
    BY <1>1, ConcatEmptySeq
  <2> QED
    BY <2>1, <2>2, <2>3
<1>12. Pending(s)' = <<>> \o q
  <2>1. Pending(s)' = (<<>> \o buffer[s]) \o InFlight(s)
    BY <1>1, <1>7, <1>8 DEF Pending
  <2>2. <<>> \o buffer[s] = buffer[s] /\ <<>> \o q = q
    BY <1>9, <1>10, ConcatEmptySeq
  <2> QED
    BY <2>1, <2>2
<1> HIDE DEF q
<1> QED
  BY <1>1, <1>3, <1>5, <1>6, <1>10, <1>11, <1>12, IsLose DEF Elsewhere

(* Letting go of sendMu after the last flushed frame moves none.           *)
LEMMA FlushDoneIsQuiet ==
    ASSUME TypeOK, BindingInv, FlowInv, NEW h \in Handlers, FlushDone(h)
    PROVE  ChannelStep
<1> USE RelayAssumption DEF storeVars, sessVars, handlerVars, sweepVars, history, Goto, Use
<1>0. PICK s \in Sessions : s = sid[h]
  BY DEF FlushDone, TypeOK
<1>1. /\ s \in Sessions /\ s = sid[h] /\ pc[h] = "flush" /\ flush[h] = <<>> /\ h # None
      /\ pc'[h] = "serving" /\ \A g \in Handlers : g # h => pc'[g] = pc[g]
      /\ \A r \in Sessions : sendMu'[r] = IF r = s THEN None ELSE sendMu[r]
      /\ UNCHANGED <<created, live, sid, role, sock, sent, flush, buffer, delivered>>
  BY <1>0 DEF FlushDone, TypeOK
<1>2. sendMu[s] = h
  BY <1>1 DEF FlowInv, LockHeld
<1>3. \A r \in Sessions : Cut(r)' = Cut(r)
  BY <1>1, CutKept DEF Closed, Breaks
<1>4. \A g \in Handlers : \A r \in Sessions : Carries(g, r)' <=> Carries(g, r)
  BY <1>1 DEF Carries
<1>5. \A r \in Sessions : Flushing(r)' = Flushing(r)
  BY <1>1, <1>2 DEF Flushing
<1>6. \A r \in Sessions : Pending(r)' = Pending(r)
  BY <1>1, <1>4, <1>5, PendingKept
<1> QED
  BY <1>1, <1>3, <1>6, IsQuiet

(* With no viewer, a frame is kept in the buffer, or refused for lack of   *)
(* room, or lost because the session was closed under the Forward call.    *)
LEMMA ForwardBuffersKeepsOrRefuses ==
    ASSUME TypeOK, BindingInv, FlowInv, NEW h \in Handlers, ForwardBuffers(h)
    PROVE  ChannelStep
<1> USE RelayAssumption DEF storeVars, sessVars, handlerVars, sweepVars, history, Goto, Use
<1>0. PICK s \in Sessions : s = sid[h]
  BY DEF ForwardBuffers, TypeOK
<1>00. PICK n : n = sent[s]
  OBVIOUS
<1> DEFINE q == Flushing(s) \o buffer[s]
<1>1. /\ s \in Sessions /\ s = sid[h] /\ pc[h] = "forward" /\ pc'[h] = "touch" /\ browser[s] = None
      /\ n = sent[s] /\ msg[h] \in Frames
      /\ \A g \in Handlers : g # h => pc'[g] = pc[g]
      /\ \A r \in Sessions : r # s => buffer'[r] = buffer[r]
      /\ UNCHANGED <<created, live, sid, role, sock, sent, flush, sendMu, delivered>>
  BY <1>0, <1>00 DEF ForwardBuffers, TypeOK
<1>2. role[h] = "agent" /\ msg[h] = n
  BY <1>1 DEF FlowInv, ForwardsNewest
<1>3. \A r \in Sessions : Cut(r)' = Cut(r)
  BY <1>1, CutKept DEF Closed, Breaks
<1>4. \A r \in Sessions : Flushing(r)' = Flushing(r)
  BY <1>1 DEF Flushing
<1>5. ASSUME NEW r \in Sessions, r # s PROVE Pending(r)' = Pending(r)
  <2>1. \A g \in Handlers : Carries(g, r)' <=> Carries(g, r)
    BY <1>1, <1>5 DEF Carries
  <2> QED
    BY <1>1, <1>4, <1>5, <2>1, PendingKept
<1>6. InFlight(s) = <<n>>
  BY <1>1, InFlightCarried DEF Carries
<1>7. InFlight(s)' = <<>>
  <2>1. ASSUME NEW g \in Handlers, Carries(g, s)' PROVE FALSE
    <3>1. g # h /\ Carries(g, s)
      BY <1>1, <2>1 DEF Carries
    <3>2. role[g] = "agent" /\ sid[g] = s /\ Served(g) /\ Served(h)
      BY <1>1, <3>1 DEF Carries, FlowInv, ForwardsNewest, Served
    <3> QED
      BY <1>1, <1>2, <3>1, <3>2, OneAgent
  <2> QED
    BY <1>1, <2>1 DEF InFlight, Carries
<1>8. /\ Flushing(s) \in Seq(Frames) /\ buffer[s] \in Seq(Frames) /\ n \in Frames
      /\ q \in Seq(Frames) /\ q \o <<>> = q /\ Append(q, n) = q \o <<n>>
      /\ <<n>> \in Seq(Frames) /\ <<>> \in Seq(Frames)
  <2>1. Flushing(s) \in Seq(Frames) /\ buffer[s] \in Seq(Frames) /\ n \in Frames
    BY <1>1, <1>2, FlowTypes
  <2>2. q \in Seq(Frames)
    BY <2>1, ConcatProperties
  <2> HIDE DEF q
  <2> QED
    BY <2>1, <2>2, ConcatEmptySeq, AppendIsConcat, EmptySeq
<1>9. Pending(s) = q \o <<n>>
  BY <1>6 DEF Pending
<1>10. CASE HasRoom(s, msg[h])
  <2>1. buffer'[s] = Append(buffer[s], n)
    BY <1>1, <1>2, <1>10 DEF ForwardBuffers, TypeOK
  <2>2. Append(buffer[s], n) = buffer[s] \o <<n>> /\ Append(buffer[s], n) \in Seq(Frames)
    BY <1>8, AppendIsConcat, AppendProperties
  <2>3. Flushing(s) \o (buffer[s] \o <<n>>) = (Flushing(s) \o buffer[s]) \o <<n>>
    <3>1. Flushing(s) \in Seq(Frames) /\ buffer[s] \in Seq(Frames) /\ <<n>> \in Seq(Frames)
      BY <1>8
    <3> QED
      BY <3>1, FramesAssociative
  <2>4. Pending(s)' = (Flushing(s) \o (buffer[s] \o <<n>>)) \o <<>>
    BY <1>1, <1>4, <1>7, <2>1, <2>2 DEF Pending
  <2>5. Pending(s)' = Pending(s)
    <3>1. q \o <<n>> \in Seq(Frames)
      BY <1>8, ConcatProperties
    <3>2. (q \o <<n>>) \o <<>> = q \o <<n>>
      BY <3>1, ConcatEmptySeq
    <3> QED
      BY <1>9, <2>3, <2>4, <3>2
  <2> QED
    BY <1>1, <1>3, <1>5, <2>5, IsQuiet
<1>11. CASE ~HasRoom(s, msg[h])
  <2>1. buffer'[s] = buffer[s]
    BY <1>1, <1>11 DEF ForwardBuffers
  <2>2. Pending(s)' = q \o <<>>
    BY <1>1, <1>4, <1>7, <2>1 DEF Pending
  <2>3. CASE delivered[s] = <<>> /\ sendMu[s] = None
    <3>1. Flushing(s) = <<>> /\ q = buffer[s]
      <4>1. Flushing(s) = <<>>
        BY <2>3 DEF Flushing
      <4> QED
        BY <1>8, <4>1, ConcatEmptySeq
    <3>2. Pending(s) = Append(buffer[s], n) /\ Pending(s)' = buffer[s]
      BY <1>8, <1>9, <2>2, <3>1
    <3>3. /\ Len(Pending(s)) = Len(buffer[s]) + 1
          /\ Pending(s) # <<>>
      <4>1. Len(Append(buffer[s], n)) = Len(buffer[s]) + 1 /\ Append(buffer[s], n) # <<>>
        <5>1. buffer[s] \in Seq(Frames) /\ n \in Frames
          BY <1>8
        <5> QED
          BY <5>1, AppendFrame
      <4> QED
        BY <3>2, <4>1
    <3>4. SizeOf(Pending(s)) = SizeOf(buffer[s]) + FrameSize[n]
      BY <1>8, <3>2, SizeOfAppend
    <3>5. Len(Pending(s)) > MaxItems \/ SizeOf(Pending(s)) > MaxBytes
      <4>1. bufBytes[s] = SizeOf(buffer[s]) /\ bufBytes[s] \in Nat /\ FrameSize[n] \in Nat
        BY <1>1, <1>8 DEF FlowInv, BufferBounded, TypeOK, Frames
      <4>2. ~(Len(buffer[s]) < MaxItems) \/ ~(bufBytes[s] + FrameSize[n] <= MaxBytes)
        BY <1>2, <1>11 DEF HasRoom
      <4>3. Len(buffer[s]) \in Nat
        BY <1>8, LenProperties
      <4>4. CASE ~(Len(buffer[s]) < MaxItems)
        BY <3>3, <4>3, <4>4
      <4>5. CASE ~(bufBytes[s] + FrameSize[n] <= MaxBytes)
        BY <3>4, <4>1, <4>5
      <4> QED
        BY <4>2, <4>4, <4>5
    <3>6. Pending(s)' = SubSeq(Pending(s), 1, Len(Pending(s)) - 1)
      <4>1. SubSeq(buffer[s] \o <<n>>, 1, Len(buffer[s])) = buffer[s]
        BY <1>8, SplitConcat
      <4>2. Len(buffer[s]) = Len(Pending(s)) - 1
        BY <1>8, <3>3, LenProperties
      <4> QED
        BY <1>9, <3>1, <3>2, <4>1, <4>2
    <3> QED
      BY <1>1, <1>3, <1>5, <2>3, <3>3, <3>5, <3>6, IsRefused DEF Elsewhere
  <2>4. CASE ~(delivered[s] = <<>> /\ sendMu[s] = None)
    <3>1. Closed(s)
      BY <1>1, <2>4 DEF FlowInv, StartedIsAttached
    <3>2. Cut(s)' = TRUE
      BY <1>1, <3>1, CutNow DEF Closed
    <3> HIDE DEF q
    <3>3. Pending(s) = q \o <<n>> \o <<>>
      <4>1. q \o <<n>> \in Seq(Frames)
        BY <1>8, ConcatProperties
      <4> QED
        BY <1>9, <4>1, ConcatEmptySeq
    <3> QED
      BY <1>1, <1>3, <1>5, <1>8, <2>2, <3>2, <3>3, IsLose DEF Elsewhere
  <2> QED
    BY <2>3, <2>4
<1> QED
  BY <1>10, <1>11

(* A live write has nothing ahead of it: it delivers the oldest pending    *)
(* frame, or fails, which cuts the channel.                                *)
LEMMA ForwardWritesDelivers ==
    ASSUME TypeOK, BindingInv, FlowInv, NEW h \in Handlers, ForwardWrites(h)
    PROVE  ChannelStep
<1> USE RelayAssumption DEF storeVars, sessVars, handlerVars, sweepVars, history, Goto, Use
<1>0. PICK s \in Sessions : s = sid[h]
  BY DEF ForwardWrites, TypeOK
<1>00. PICK n, g : n = sent[s] /\ g = target[h]
  OBVIOUS
<1>1. /\ s \in Sessions /\ s = sid[h] /\ pc[h] = "write" /\ pc'[h] = "touch" /\ sendMu[s] = None
      /\ n = sent[s] /\ msg[h] \in Frames /\ g = target[h] /\ g \in Handlers
      /\ \A k \in Handlers : k # h => pc'[k] = pc[k]
      /\ UNCHANGED <<created, live, sid, role, sent, flush, sendMu, buffer>>
  BY <1>0, <1>00 DEF ForwardWrites, TypeOK
<1>2. /\ role[h] = "agent" /\ msg[h] = n
      /\ buffer[s] = <<>> /\ sid[g] = s /\ role[g] = "viewer" /\ sock[g] # "none"
  BY <1>1 DEF FlowInv, ForwardsNewest, WritesToViewer, ViewerOf
<1>3. \A r \in Sessions : Flushing(r)' = Flushing(r)
  BY <1>1 DEF Flushing
<1>4. ASSUME NEW r \in Sessions, r # s PROVE Pending(r)' = Pending(r)
  <2>1. \A k \in Handlers : Carries(k, r)' <=> Carries(k, r)
    BY <1>1, <1>4 DEF Carries
  <2> QED
    BY <1>1, <1>3, <1>4, <2>1, PendingKept
<1>5. InFlight(s) = <<n>>
  BY <1>1, InFlightCarried DEF Carries
<1>6. InFlight(s)' = <<>>
  <2>1. ASSUME NEW k \in Handlers, Carries(k, s)' PROVE FALSE
    <3>1. k # h /\ Carries(k, s)
      BY <1>1, <2>1 DEF Carries
    <3>2. role[k] = "agent" /\ sid[k] = s /\ Served(k) /\ Served(h)
      BY <1>1, <3>1 DEF Carries, FlowInv, ForwardsNewest, Served
    <3> QED
      BY <1>1, <1>2, <3>1, <3>2, OneAgent
  <2> QED
    BY <1>1, <2>1 DEF InFlight, Carries
<1>7. Flushing(s) = <<>>
  BY <1>1 DEF Flushing
<1>8. Pending(s) = <<n>> /\ Pending(s)' = <<>>
  <2>1. Pending(s) = (<<>> \o <<>>) \o <<n>>
    BY <1>2, <1>5, <1>7 DEF Pending
  <2>2. Pending(s)' = (<<>> \o <<>>) \o <<>>
    BY <1>1, <1>2, <1>3, <1>6, <1>7 DEF Pending
  <2>3. <<>> \in Seq(Frames) /\ <<n>> \in Seq(Frames)
    BY <1>1, <1>2
  <2>4. (<<>> \o <<>>) \o <<n>> = <<n>> /\ (<<>> \o <<>>) \o <<>> = <<>>
    BY <2>3, ConcatEmptySeq
  <2> QED
    BY <2>1, <2>2, <2>4
<1>9. CASE delivered' = [delivered EXCEPT ![s] = Append(@, msg[h])] /\ sock' = sock
  <2>1. \A r \in Sessions : Cut(r)' = Cut(r)
    BY <1>1, <1>9, CutKept DEF Closed, Breaks
  <2>2. Pending(s) # <<>> /\ Head(Pending(s)) = msg[h] /\ Tail(Pending(s)) = <<>>
    BY <1>2, <1>8
  <2> QED
    BY <1>1, <1>4, <1>8, <1>9, <2>1, <2>2, IsDeliver DEF Elsewhere
<1>10. CASE WriteFails(g) /\ delivered' = delivered
  <2>1. /\ \A k \in Handlers : k # g => sock'[k] = sock[k]
        /\ sock'[g] \in {"broken", "closed"}
    BY <1>1, <1>2, <1>10 DEF WriteFails, TypeOK
  <2>2. \A r \in Sessions : r # s => Cut(r)' = Cut(r)
    BY <1>1, <1>2, <2>1, CutKept DEF Closed, Breaks
  <2>3. Breaks(g, s)'
    BY <1>1, <1>2, <2>1 DEF Breaks
  <2>4. Cut(s)' = TRUE
    BY <1>1, <2>3, CutNow
  <2>5. /\ <<>> \in Seq(Frames) /\ <<n>> \in Seq(Frames)
    BY <1>1, <1>2
  <2>6. <<n>> = <<>> \o <<n>> \o <<>> /\ <<>> = <<>> \o <<>>
    BY <2>5, ConcatEmptySeq
  <2>7. Pending(s) = <<>> \o <<n>> \o <<>> /\ Pending(s)' = <<>> \o <<>>
    BY <1>8, <2>6
  <2> QED
    BY <1>1, <1>4, <1>10, <2>2, <2>4, <2>5, <2>7, IsLose DEF Elsewhere
<1> QED
  BY <1>1, <1>9, <1>10 DEF ForwardWrites

-----------------------------------------------------------------------------
(* Every step is a step of the channel.                                    *)

(* The steps of a handler that touch neither frames nor established        *)
(* sockets.                                                                *)
LEMMA QuietHandlerStep ==
    ASSUME TypeOK, BindingInv, FlowInv, NEW h \in Handlers,
           \/ \E s \in Sessions, r \in Roles : Lookup(h, s, r)
           \/ Reserve(h) \/ Refuse(h) \/ UpgradeOK(h) \/ UpgradeFails(h) \/ Release(h)
           \/ SetAgent(h) \/ ForwardPicks(h) \/ Touch(h) \/ StoreDelete(h) \/ Return(h)
    PROVE  ChannelStep
<1> USE DEF storeVars, sessVars, handlerVars, sweepVars, history, Goto, Use
<1>1. /\ pc \in [Handlers -> PCs] /\ sid \in [Handlers -> Sessions \cup {None}]
      /\ sock \in [Handlers -> {"none", "open", "broken", "closed"}]
      /\ \A g \in Handlers : pc[g] \in Unbound => sock[g] = "none"
  BY DEF TypeOK, BindingInv, SocketInv, SocketFollowsPc
<1>2. /\ UNCHANGED <<sendMu, flush, buffer, sent, delivered, created, live>>
      /\ \A g \in Handlers : \A s \in Sessions : Carries(g, s)' <=> Carries(g, s)
      /\ \A g \in Handlers : \A s \in Sessions : Breaks(g, s)' <=> Breaks(g, s)
  <2>1. CASE \E s \in Sessions, r \in Roles : Lookup(h, s, r)
    BY <1>1, <2>1 DEF Lookup, Carries, Breaks, Unbound
  <2>2. CASE Reserve(h) \/ Refuse(h) \/ UpgradeFails(h) \/ Release(h)
    BY <1>1, <2>2 DEF Reserve, Refuse, UpgradeFails, Release, Carries, Breaks
  <2>3. CASE UpgradeOK(h)
    BY <1>1, <2>3 DEF UpgradeOK, Carries, Breaks, Unbound
  <2>4. CASE SetAgent(h) \/ ForwardPicks(h) \/ Touch(h) \/ StoreDelete(h) \/ Return(h)
    BY <1>1, <2>4 DEF SetAgent, ForwardPicks, Touch, StoreDelete, Return, Carries, Breaks
  <2> QED
    BY <2>1, <2>2, <2>3, <2>4
<1> QED
  BY <1>2, QuietKeepsChannel DEF Closed

(* CloseNext closes the socket of a handler that has a session.            *)
LEMMA CloseNextCuts ==
    ASSUME TypeOK, BindingInv, FlowInv, NEW c \in Closers, CloseNext(c),
           UNCHANGED <<pc, sendMu, flush, buffer, sent, delivered, created, live, sid, role>>
    PROVE  ChannelStep
<1>1. PICK g : g = Head(closing[c])
  OBVIOUS
<1>2. closing[c] \in Seq(Handlers) /\ closing[c] # <<>>
  BY DEF TypeOK, CloseNext
<1>3. g = closing[c][1] /\ 1 \in 1..Len(closing[c])
  BY <1>1, <1>2
<1>4. g \in Handlers /\ sock[g] # "none"
  BY <1>3, AttachedAreHandlers
<1>5. sid[g] \in Sessions
  BY <1>4 DEF BindingInv, SocketInv, SocketFollowsPc
<1>6. sock' = [sock EXCEPT ![g] = "closed"]
  BY <1>1 DEF CloseNext
<1> QED
  BY <1>4, <1>5, <1>6, ClosingASocket DEF Carries

(* Every step of the relay is a step of the channel or leaves it alone.    *)
LEMMA StepIsChannelStep ==
    ASSUME TypeOK, BindingInv, RemovalInv, FlowInv, [Next]_vars
    PROVE  ChannelStep
<1> USE DEF storeVars, sessVars, handlerVars, sweepVars, history, Goto, Use
<1>1. CASE Tick
  BY <1>1, QuietKeepsChannel DEF Tick, Closed, Carries, Breaks
<1>2. ASSUME NEW s \in Sessions, Create(s) PROVE ChannelStep
  <2>1. ~live[s]
    BY <1>2 DEF RemovalInv, Create
  <2>2. \A r \in Sessions : Closed(r)' <=> Closed(r)
    BY <1>2, <2>1 DEF Create, Closed, TypeOK
  <2> QED
    BY <1>2, <2>2, QuietKeepsChannel DEF Create, Carries, Breaks
<1>3. ASSUME NEW h \in Handlers, HandlerStep(h) PROVE ChannelStep
  <2>1. CASE ReadEnds(h)
    <3>1. /\ sid[h] \in Sessions
          /\ UNCHANGED <<sendMu, flush, buffer, sent, delivered, created, live, sid, role>>
          /\ sock' = [sock EXCEPT ![h] = "closed"]
      BY <2>1 DEF ReadEnds, TypeOK
    <3>2. \A g \in Handlers : \A s \in Sessions : Carries(g, s)' <=> Carries(g, s)
      BY <2>1 DEF ReadEnds, Carries, TypeOK
    <3> QED
      BY <3>1, <3>2, ClosingASocket
  <2>2. CASE DeleteCloses(h)
    <3>1. /\ pc[h] = "closeBoth" /\ pc'[h] = "closing" /\ sid[h] \in Sessions /\ h \in Closers
          /\ CloseBoth(h, sid[h])
          /\ \A g \in Handlers : g # h => pc'[g] = pc[g]
          /\ UNCHANGED <<created, sid, role, sock, sent, delivered, flush>>
      BY <2>2 DEF DeleteCloses, Closers, TypeOK
    <3>2. live[sid[h]]
      BY <3>1 DEF RemovalInv, RemovedIsBeingClosed, NotYetClosed
    <3>3. \A g \in Handlers : \A s \in Sessions : Carries(g, s)' <=> Carries(g, s)
      BY <3>1 DEF Carries
    <3> QED
      BY <3>1, <3>2, <3>3, CloseBothCuts
  <2>3. CASE DeleteClosesNext(h)
    <3>1. /\ h \in Closers /\ CloseNext(h)
          /\ UNCHANGED <<pc, sendMu, flush, buffer, sent, delivered, created, live, sid, role>>
      BY <2>3 DEF DeleteClosesNext, Closers
    <3> QED
      BY <3>1, CloseNextCuts
  <2> QED
    BY <1>3, <2>1, <2>2, <2>3, QuietHandlerStep, SetBrowserIsQuiet, FlushWriteDelivers,
       FlushBreaksLoses, FlushDoneIsQuiet, AgentReadsSends, ForwardBuffersKeepsOrRefuses,
       ForwardWritesDelivers DEF HandlerStep
<1>4. CASE Sweep
  <2>1. CASE SweepTick \/ SweepScan \/ SweepDone
    BY <2>1, QuietKeepsChannel DEF SweepTick, SweepScan, SweepDone, Closed, Carries, Breaks
  <2>2. ASSUME NEW s \in Sessions, SweepCloses(s) PROVE ChannelStep
    <3>1. /\ CloseBoth(Sweeper, s) /\ Sweeper \in Closers /\ s \in stale
          /\ UNCHANGED <<created, pc, sid, role, sock, sent, delivered, flush>>
      BY <2>2 DEF SweepCloses, Closers
    <3>2. live[s]
      BY <3>1 DEF RemovalInv, RemovedIsBeingClosed, NotYetClosed
    <3> QED
      BY <3>1, <3>2, CloseBothCuts DEF Carries
  <2>3. CASE SweepClosesNext
    <3>1. /\ Sweeper \in Closers /\ CloseNext(Sweeper)
          /\ UNCHANGED <<pc, sendMu, flush, buffer, sent, delivered, created, live, sid, role>>
      BY <2>3 DEF SweepClosesNext, Closers
    <3> QED
      BY <3>1, CloseNextCuts
  <2> QED
    BY <1>4, <2>1, <2>2, <2>3 DEF Sweep
<1>5. CASE UNCHANGED vars
  BY <1>5, QuietKeepsChannel DEF vars, Closed, Carries, Breaks
<1> QED
  BY <1>1, <1>2, <1>3, <1>4, <1>5, NextIsHandlerStep

(* FlowInv holds in every reachable state.                                 *)
LEMMA FlowInvariant == Spec => []FlowInv
<1>1. Init => FlowInv
  <2> SUFFICES ASSUME Init PROVE FlowInv
    OBVIOUS
  <2>1. LockHeld /\ ForwardsNewest /\ WritesToViewer /\ AttachedIsViewer /\ StartedIsAttached
    BY DEF Init, LockHeld, ForwardsNewest, WritesToViewer, AttachedIsViewer, StartedIsAttached
  <2>2. BufferBounded
    <3>1. ASSUME NEW s \in Sessions PROVE buffer[s] = <<>> /\ bufBytes[s] = 0
      BY <3>1 DEF Init
    <3>2. Len(<<>>) = 0 /\ SizeOf(<<>>) = 0
      BY SizeOfEmpty
    <3>3. ASSUME NEW s \in Sessions
          PROVE  Len(buffer[s]) = 0 /\ bufBytes[s] = 0 /\ SizeOf(buffer[s]) = 0
      BY <3>1, <3>2, Zenon
    <3>4. MaxItems \in Nat /\ MaxBytes \in Nat
      BY RelayAssumption
    <3>5. ASSUME NEW s \in Sessions
          PROVE  /\ Len(buffer[s]) <= MaxItems /\ bufBytes[s] <= MaxBytes
                 /\ bufBytes[s] = SizeOf(buffer[s])
      BY <3>3, <3>4
    <3> QED
      BY <3>5 DEF BufferBounded
  <2> QED
    BY <2>1, <2>2 DEF FlowInv
<1>2. TypeOK /\ BindingInv /\ RemovalInv /\ FlowInv /\ [Next]_vars => FlowInv'
  BY FlowInductive
<1> QED
  BY <1>1, <1>2, TypeCorrect, BindingInvariant, RemovalInvariant, PTL DEF Spec

(* The buffer never exceeds maxBufferItems and maxBufferBytes, bufBytes is *)
(* the size of what is in it, and nothing waits in it while a viewer is    *)
(* attached.                                                               *)
THEOREM BufferStaysSound == Spec => []BufferIsSound
<1>1. FlowInv => BufferIsSound
  BY DEF FlowInv, BufferBounded, AttachedIsViewer, BufferIsSound
<1> QED
  BY <1>1, FlowInvariant, PTL

(* Every behaviour of the relay is one of RelayChannel: frames are refused *)
(* only for lack of room before the first delivery, lost only once an end  *)
(* has gone.                                                               *)
THEOREM RelayImplementsChannel == Spec => ImplementsChannel
<1>1. Init => Channel!ChannelInit
  <2> SUFFICES ASSUME Init PROVE Channel!ChannelInit
    OBVIOUS
  <2>1. ASSUME NEW s \in Sessions PROVE Pending(s) = <<>> /\ Cut(s) = FALSE
    BY <2>1 DEF Init, Pending, Flushing, InFlight, Cut
  <2> QED
    BY <2>1 DEF Init, Channel!ChannelInit
<1>2. TypeOK /\ BindingInv /\ RemovalInv /\ FlowInv /\ [Next]_vars
        => [Channel!ChannelNext]_(Channel!channel)
  BY StepIsChannelStep DEF ChannelStep
<1> QED
  BY <1>1, <1>2, TypeCorrect, BindingInvariant, RemovalInvariant, FlowInvariant, PTL
     DEF Spec, ImplementsChannel, Channel!ChannelSpec

-----------------------------------------------------------------------------
(* The order of frames.                                                    *)

(* Delivered frames d and pending frames p are in order, d before p, none  *)
(* newer than the last one sent, n.                                        *)
Ordered(d, p, n) ==
    /\ \A i, j \in 1..Len(d) : i < j => d[i] < d[j]
    /\ \A i, j \in 1..Len(p) : i < j => p[i] < p[j]
    /\ \A i \in 1..Len(d) : \A j \in 1..Len(p) : d[i] < p[j]
    /\ \A i \in 1..Len(d) : d[i] <= n
    /\ \A i \in 1..Len(p) : p[i] <= n

(* A prefix of a sequence.                                                 *)
LEMMA PartOf ==
    ASSUME NEW p \in Seq(Int), NEW m \in 0..Len(p)
    PROVE  /\ SubSeq(p, 1, m) \in Seq(Int) /\ Len(SubSeq(p, 1, m)) = m
           /\ \A k \in 1..m : SubSeq(p, 1, m)[k] = p[k]
<1>1. \A k \in 1..m : p[k] \in Int
  OBVIOUS
<1>2. m \in Int /\ m >= 0 /\ 1 \in Int
  OBVIOUS
<1>3. /\ SubSeq(p, 1, m) \in Seq(Int)
      /\ Len(SubSeq(p, 1, m)) = IF 1 <= m THEN m - 1 + 1 ELSE 0
      /\ \A k \in 1..m - 1 + 1 : SubSeq(p, 1, m)[k] = p[1 + k - 1]
  BY <1>1, <1>2, SubSeqProperties
<1> QED
  BY <1>2, <1>3

(* The elements of a concatenation.                                        *)
LEMMA Joined ==
    ASSUME NEW a \in Seq(Int), NEW b \in Seq(Int)
    PROVE  /\ Len(a \o b) = Len(a) + Len(b)
           /\ \A k \in 1..Len(a) + Len(b) :
                 (a \o b)[k] = IF k <= Len(a) THEN a[k] ELSE b[k - Len(a)]
  BY ConcatProperties

(* Sending keeps the order.                                                *)
LEMMA SendInOrder ==
    ASSUME NEW d \in Seq(Int), NEW p \in Seq(Int), NEW n \in Int, Ordered(d, p, n)
    PROVE  Ordered(d, Append(p, n + 1), n + 1)
<1> DEFINE q == Append(p, n + 1)
<1>1. /\ Len(q) = Len(p) + 1 /\ Len(p) \in Nat /\ Len(d) \in Nat
      /\ \A i \in 1..Len(p) : q[i] = p[i]
      /\ q[Len(p) + 1] = n + 1
      /\ \A i \in 1..Len(p) : p[i] \in Int
      /\ \A i \in 1..Len(d) : d[i] \in Int
  OBVIOUS
<1> HIDE DEF q
<1>2. \A i \in 1..Len(q) : q[i] = IF i <= Len(p) THEN p[i] ELSE n + 1
  BY <1>1
<1> QED
  BY <1>1, <1>2 DEF Ordered, q

(* Refusing the newest frame keeps the order.                              *)
LEMMA RefusalInOrder ==
    ASSUME NEW d \in Seq(Int), NEW p \in Seq(Int), NEW n \in Int, Ordered(d, p, n), p # <<>>
    PROVE  Ordered(d, SubSeq(p, 1, Len(p) - 1), n)
<1> DEFINE q == SubSeq(p, 1, Len(p) - 1)
<1>0. Len(p) \in Nat \ {0} /\ Len(d) \in Nat
  BY EmptySeq
<1>1. /\ Len(q) = Len(p) - 1
      /\ \A i \in 1..Len(p) - 1 : q[i] = p[i]
  <2>1. Len(p) - 1 \in 0..Len(p)
    BY <1>0
  <2> QED
    BY <2>1, PartOf
<1> HIDE DEF q
<1> QED
  <2>1. \A i \in 1..Len(q) : i \in 1..Len(p) /\ q[i] = p[i]
    BY <1>0, <1>1
  <2> QED
    BY <2>1 DEF Ordered, q

(* Delivering the oldest pending frame keeps the order.                    *)
LEMMA DeliveryInOrder ==
    ASSUME NEW d \in Seq(Int), NEW p \in Seq(Int), NEW n \in Int, Ordered(d, p, n), p # <<>>
    PROVE  Ordered(Append(d, Head(p)), Tail(p), n)
<1> DEFINE e == Append(d, Head(p))
           q == Tail(p)
<1>1. /\ Len(e) = Len(d) + 1 /\ Len(d) \in Nat
      /\ \A i \in 1..Len(d) : e[i] = d[i]
      /\ e[Len(d) + 1] = p[1]
      /\ Len(p) \in Nat \ {0} /\ Len(q) = Len(p) - 1
      /\ \A i \in 1..Len(p) - 1 : q[i] = p[i + 1]
  OBVIOUS
<1>2. /\ \A i \in 1..Len(p) : p[i] \in Int
      /\ \A i \in 1..Len(d) : d[i] \in Int
  OBVIOUS
<1> HIDE DEF e, q
<1>3. ASSUME NEW i \in 1..Len(e)
      PROVE  \/ i \in 1..Len(d) /\ e[i] = d[i]
             \/ i = Len(d) + 1 /\ e[i] = p[1]
  <2>1. i \in 1..Len(d) \/ i = Len(d) + 1
    BY <1>1, <1>3
  <2>2. CASE i \in 1..Len(d)
    <3>1. e[i] = d[i]
      BY <1>1, <2>2
    <3> QED
      BY <2>2, <3>1
  <2>3. CASE i = Len(d) + 1
    BY <1>1, <2>3, Zenon
  <2> QED
    BY <2>1, <2>2, <2>3
<1>4. ASSUME NEW i \in 1..Len(q) PROVE i + 1 \in 1..Len(p) /\ q[i] = p[i + 1]
  <2>1. i \in 1..Len(p) - 1 /\ i + 1 \in 1..Len(p)
    BY <1>1
  <2> QED
    BY <1>1, <2>1
<1>a. Len(d) \in Nat /\ Len(p) \in Nat \ {0} /\ Len(e) = Len(d) + 1 /\ Len(q) = Len(p) - 1
  BY <1>1
<1>b. 1 \in 1..Len(p)
  BY <1>a
<1>5. ASSUME NEW i \in 1..Len(e), NEW j \in 1..Len(e), i < j PROVE e[i] < e[j]
  <2>1. i \in 1..Len(d) /\ e[i] = d[i]
    BY <1>3, <1>5, <1>a
  <2>2. CASE j \in 1..Len(d) /\ e[j] = d[j]
    BY <1>5, <2>1, <2>2 DEF Ordered
  <2>3. CASE j = Len(d) + 1 /\ e[j] = p[1]
    BY <1>b, <2>1, <2>3 DEF Ordered
  <2> QED
    BY <1>3, <2>2, <2>3
<1>6. ASSUME NEW i \in 1..Len(q), NEW j \in 1..Len(q), i < j PROVE q[i] < q[j]
  <2>1. i + 1 \in 1..Len(p) /\ j + 1 \in 1..Len(p) /\ i + 1 < j + 1
    BY <1>a, <1>6
  <2>2. p[i + 1] < p[j + 1]
    BY <2>1 DEF Ordered
  <2> QED
    BY <1>4, <2>2
<1>7. ASSUME NEW i \in 1..Len(e), NEW j \in 1..Len(q) PROVE e[i] < q[j]
  <2>1. j + 1 \in 1..Len(p) /\ 1 \in 1..Len(p) /\ 1 < j + 1 /\ q[j] = p[j + 1]
    BY <1>a, <1>b, <1>4
  <2>2. p[1] < p[j + 1]
    BY <2>1 DEF Ordered
  <2>3. CASE i \in 1..Len(d) /\ e[i] = d[i]
    BY <2>1, <2>3 DEF Ordered
  <2>4. CASE i = Len(d) + 1 /\ e[i] = p[1]
    BY <2>1, <2>2, <2>4
  <2> QED
    BY <1>3, <2>3, <2>4
<1>8. ASSUME NEW i \in 1..Len(e) PROVE e[i] <= n
  <2>2. p[1] <= n
    BY <1>b DEF Ordered
  <2>3. CASE i \in 1..Len(d) /\ e[i] = d[i]
    BY <2>3 DEF Ordered
  <2>4. CASE i = Len(d) + 1 /\ e[i] = p[1]
    BY <2>2, <2>4
  <2> QED
    BY <1>3, <2>3, <2>4
<1>9. \A i \in 1..Len(q) : q[i] <= n
  BY <1>1, <1>4 DEF Ordered
<1> QED
  BY <1>5, <1>6, <1>7, <1>8, <1>9 DEF Ordered, e, q

(* Losing a run of frames keeps the order.                                 *)
LEMMA LossInOrder ==
    ASSUME NEW d \in Seq(Int), NEW p \in Seq(Int), NEW n \in Int, Ordered(d, p, n),
           NEW q, RunDropped(p, q)
    PROVE  Ordered(d, q, n)
<1>1. PICK i \in 1..Len(p) + 1 : \E j \in i - 1..Len(p) :
         q = SubSeq(p, 1, i - 1) \o SubSeq(p, j + 1, Len(p))
  BY DEF RunDropped
<1>2. PICK j \in i - 1..Len(p) : q = SubSeq(p, 1, i - 1) \o SubSeq(p, j + 1, Len(p))
  BY <1>1
<1> DEFINE a == SubSeq(p, 1, i - 1)
           b == SubSeq(p, j + 1, Len(p))
<1>3. /\ Len(p) \in Nat /\ Len(d) \in Nat /\ i \in Nat /\ j \in Nat
      /\ \A k \in 1..Len(p) : p[k] \in Int
      /\ \A k \in 1..Len(d) : d[k] \in Int
  BY <1>1, <1>2
<1>4. /\ a \in Seq(Int) /\ Len(a) = i - 1
      /\ \A k \in 1..i - 1 : a[k] = p[k]
  BY <1>3
<1>5. /\ b \in Seq(Int) /\ Len(b) = Len(p) - j
      /\ \A k \in 1..Len(p) - j : b[k] = p[k + j]
  BY <1>3
<1>6. q = a \o b
  BY <1>2
<1> HIDE DEF a, b
<1>7. /\ Len(q) = Len(p) - j + i - 1
      /\ \A k \in 1..Len(q) : q[k] = IF k <= i - 1 THEN p[k] ELSE p[k + j - i + 1]
  <2>0. /\ Len(q) = Len(a) + Len(b)
        /\ \A k \in 1..Len(a) + Len(b) : q[k] = IF k <= Len(a) THEN a[k] ELSE b[k - Len(a)]
    BY <1>4, <1>5, <1>6, Joined
  <2>1. Len(q) = Len(p) - j + i - 1
    BY <1>3, <1>4, <1>5, <2>0
  <2>2. ASSUME NEW k \in 1..Len(q)
        PROVE  q[k] = IF k <= i - 1 THEN p[k] ELSE p[k + j - i + 1]
    <3>1. k \in 1..Len(a) + Len(b) /\ q[k] = IF k <= Len(a) THEN a[k] ELSE b[k - Len(a)]
      BY <2>0, <2>2
    <3>2. CASE k <= i - 1
      BY <1>3, <1>4, <3>1, <3>2
    <3>3. CASE k > i - 1
      <4>1. k - Len(a) \in 1..Len(p) - j /\ (k - Len(a)) + j = k + j - i + 1
        BY <1>3, <1>4, <1>5, <3>1, <3>3
      <4>2. q[k] = b[k - Len(a)]
        BY <1>3, <1>4, <3>1, <3>3
      <4>3. b[k - Len(a)] = p[(k - Len(a)) + j]
        BY <1>5, <4>1
      <4>4. ~ (k <= i - 1)
        BY <1>3, <2>1, <2>2, <3>3
      <4> QED
        BY <4>1, <4>2, <4>3, <4>4, Zenon
    <3> QED
      BY <1>3, <3>2, <3>3
  <2> QED
    BY <2>1, <2>2
<1>8. \A k \in 1..Len(q) :
         q[k] = p[IF k <= i - 1 THEN k ELSE k + j - i + 1]
  BY <1>7
<1>9. \A k \in 1..Len(q) : (IF k <= i - 1 THEN k ELSE k + j - i + 1) \in 1..Len(p)
  BY <1>3, <1>7
<1>10. ASSUME NEW k \in 1..Len(q), NEW l \in 1..Len(q), k < l PROVE q[k] < q[l]
  <2>1. PICK x, y \in 1..Len(p) : /\ x = (IF k <= i - 1 THEN k ELSE k + j - i + 1)
                                 /\ y = (IF l <= i - 1 THEN l ELSE l + j - i + 1)
    BY <1>9
  <2>2. x < y
    BY <1>3, <1>7, <1>10, <2>1
  <2>3. q[k] = p[x] /\ q[l] = p[y]
    BY <1>8, <2>1
  <2> QED
    BY <2>2, <2>3 DEF Ordered
<1> QED
  BY <1>3, <1>8, <1>9, <1>10 DEF Ordered

(* The order of the whole pipeline from its parts.                         *)
LEMMA PipelineInOrder ==
    ASSUME NEW d \in Seq(Int), NEW p \in Seq(Int), NEW n \in Int, Ordered(d, p, n)
    PROVE  \A i, j \in 1..Len(d \o p) : i < j => (d \o p)[i] < (d \o p)[j]
<1>1. /\ Len(d \o p) = Len(d) + Len(p) /\ Len(d) \in Nat /\ Len(p) \in Nat
      /\ \A i \in 1..Len(d \o p) : (d \o p)[i] = IF i <= Len(d) THEN d[i] ELSE p[i - Len(d)]
  OBVIOUS
<1> SUFFICES ASSUME NEW i \in 1..Len(d \o p), NEW j \in 1..Len(d \o p), i < j
             PROVE  (d \o p)[i] < (d \o p)[j]
  OBVIOUS
<1>2. CASE j <= Len(d)
  BY <1>1, <1>2 DEF Ordered
<1>3. CASE i > Len(d)
  <2>1. i - Len(d) \in 1..Len(p) /\ j - Len(d) \in 1..Len(p) /\ i - Len(d) < j - Len(d)
    BY <1>1, <1>3
  <2>2. p[i - Len(d)] < p[j - Len(d)]
    BY <2>1 DEF Ordered
  <2> QED
    BY <1>1, <1>3, <2>2
<1>4. CASE i <= Len(d) /\ j > Len(d)
  <2>1. i \in 1..Len(d) /\ j - Len(d) \in 1..Len(p)
    BY <1>1, <1>4
  <2> QED
    BY <1>1, <1>4, <2>1 DEF Ordered
<1> QED
  BY <1>1, <1>2, <1>3, <1>4

(* The order in every session.                                             *)
OrderInv == \A s \in Sessions : Ordered(delivered[s], Pending(s), sent[s])

(* Every step of the channel keeps the order.                              *)
LEMMA OrderInductive ==
    ASSUME TypeOK, FlowInv, OrderInv, ChannelStep
    PROVE  OrderInv'
<1>0. ASSUME NEW s \in Sessions
      PROVE  /\ delivered[s] \in Seq(Int) /\ Pending(s) \in Seq(Int) /\ sent[s] \in Int
             /\ Ordered(delivered[s], Pending(s), sent[s])
  <2>1. delivered[s] \in Seq(Frames) /\ Pending(s) \in Seq(Frames) /\ sent[s] \in Int
    BY RelayAssumption, FlowTypes DEF TypeOK
  <2>2. ASSUME NEW q \in Seq(Frames) PROVE q \in Seq(Int)
    BY RelayAssumption DEF Frames
  <2> QED
    BY <2>1, <2>2 DEF OrderInv
<1> SUFFICES ASSUME NEW s \in Sessions
             PROVE  Ordered(delivered'[s], Pending(s)', sent'[s])
  BY DEF OrderInv, Ordered
<1>1. /\ sent \in [Sessions -> 0..MaxFrames] /\ delivered \in [Sessions -> Seq(Frames)]
  BY DEF TypeOK
<1>2. CASE /\ delivered'[s] = delivered[s] /\ Pending(s)' = Pending(s) /\ sent'[s] = sent[s]
  BY <1>0, <1>2
<1>3. CASE UNCHANGED Channel!channel
  BY <1>2, <1>3 DEF Channel!channel
<1>4. CASE Channel!ChannelNext
  <2>0. PICK r \in Sessions :
           Channel!Send(r) \/ Channel!Refused(r) \/ Channel!Deliver(r) \/ Channel!Lose(r)
    BY <1>4 DEF Channel!ChannelNext
  <2>1. CASE Channel!Send(r)
    <3>1. /\ sent' = [sent EXCEPT ![r] = @ + 1]
          /\ Pending(s)' = IF s = r THEN Append(Pending(s), sent[s] + 1) ELSE Pending(s)
          /\ delivered' = delivered
      BY <2>1 DEF Channel!Send
    <3>2. CASE s = r
      BY <1>0, <1>1, <3>1, <3>2, SendInOrder
    <3> QED
      BY <1>1, <1>2, <3>1, <3>2
  <2>2. CASE Channel!Refused(r)
    <3>1. /\ Pending(r) # <<>> /\ sent' = sent /\ delivered' = delivered
          /\ Pending(s)' = IF s = r THEN SubSeq(Pending(s), 1, Len(Pending(s)) - 1) ELSE Pending(s)
      BY <2>2 DEF Channel!Refused
    <3>2. CASE s = r
      BY <1>0, <3>1, <3>2, RefusalInOrder
    <3> QED
      BY <1>2, <3>1, <3>2
  <2>3. CASE Channel!Deliver(r)
    <3>1. /\ Pending(r) # <<>> /\ sent' = sent
          /\ delivered' = [delivered EXCEPT ![r] = Append(@, Head(Pending(r)))]
          /\ Pending(s)' = IF s = r THEN Tail(Pending(s)) ELSE Pending(s)
      BY <2>3 DEF Channel!Deliver
    <3>2. CASE s = r
      BY <1>0, <1>1, <3>1, <3>2, DeliveryInOrder
    <3> QED
      BY <1>1, <1>2, <3>1, <3>2
  <2>4. CASE Channel!Lose(r)
    <3>1. /\ sent' = sent /\ delivered' = delivered
          /\ s # r => Pending(s)' = Pending(s)
          /\ s = r => RunDropped(Pending(s), Pending(s)')
      <4>1. PICK i \in 1..Len(Pending(r)) + 1 : \E j \in i - 1..Len(Pending(r)) :
               [q \in Sessions |-> Pending(q)']
                   = [[q \in Sessions |-> Pending(q)] EXCEPT
                         ![r] = SubSeq(Pending(r), 1, i - 1)
                                  \o SubSeq(Pending(r), j + 1, Len(Pending(r)))]
        BY <2>4 DEF Channel!Lose
      <4>2. PICK j \in i - 1..Len(Pending(r)) :
               [q \in Sessions |-> Pending(q)']
                   = [[q \in Sessions |-> Pending(q)] EXCEPT
                         ![r] = SubSeq(Pending(r), 1, i - 1)
                                  \o SubSeq(Pending(r), j + 1, Len(Pending(r)))]
        BY <4>1
      <4>3. /\ s # r => Pending(s)' = Pending(s)
            /\ s = r => Pending(s)' = SubSeq(Pending(s), 1, i - 1)
                                        \o SubSeq(Pending(s), j + 1, Len(Pending(s)))
        BY <4>2
      <4> QED
        BY <2>4, <4>1, <4>2, <4>3 DEF Channel!Lose, RunDropped
    <3>2. CASE s = r
      BY <1>0, <3>1, <3>2, LossInOrder
    <3> QED
      BY <1>2, <3>1, <3>2
  <2> QED
    BY <2>0, <2>1, <2>2, <2>3, <2>4
<1> QED
  BY <1>3, <1>4 DEF ChannelStep

(* The viewer gets the frames in the order the agent sent them and none    *)
(* twice, and none on its way can overtake another.                        *)
THEOREM FramesStayInOrder == Spec => []FramesInOrder
<1>1. Init => OrderInv
  <2> SUFFICES ASSUME Init, NEW s \in Sessions
               PROVE  Ordered(delivered[s], Pending(s), sent[s])
    BY DEF OrderInv
  <2>1. Pending(s) = <<>> /\ delivered[s] = <<>>
    BY DEF Init, Pending, Flushing, InFlight
  <2>2. Len(<<>>) = 0
    OBVIOUS
  <2> QED
    BY <2>1, <2>2 DEF Ordered
<1>2. TypeOK /\ BindingInv /\ RemovalInv /\ FlowInv /\ OrderInv /\ [Next]_vars => OrderInv'
  BY StepIsChannelStep, OrderInductive
<1>3. TypeOK /\ FlowInv /\ OrderInv => FramesInOrder
  <2> SUFFICES ASSUME TypeOK, FlowInv, OrderInv, NEW s \in Sessions
               PROVE  \A i, j \in 1..Len(Pipeline(s)) : i < j => Pipeline(s)[i] < Pipeline(s)[j]
    BY DEF FramesInOrder
  <2>1. delivered[s] \in Seq(Frames) /\ Pending(s) \in Seq(Frames) /\ sent[s] \in Int
    BY RelayAssumption, FlowTypes DEF TypeOK
  <2>2. ASSUME NEW q \in Seq(Frames) PROVE q \in Seq(Int)
    BY RelayAssumption DEF Frames
  <2>3. Ordered(delivered[s], Pending(s), sent[s])
    BY DEF OrderInv
  <2> QED
    BY <2>1, <2>2, <2>3, PipelineInOrder DEF Pipeline
<1> QED
  BY <1>1, <1>2, <1>3, TypeCorrect, BindingInvariant, RemovalInvariant, FlowInvariant, PTL DEF Spec
=============================================================================
