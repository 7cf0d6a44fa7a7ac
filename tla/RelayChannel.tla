---------------------------- MODULE RelayChannel ----------------------------
(***************************************************************************)
(* What a relay session promises the two ends, without locks, handlers or  *)
(* sockets: a first-in first-out channel.  A frame may be refused only     *)
(* while nothing has been delivered yet and the channel is full; once the  *)
(* channel is cut, frames may be lost, but even then none is delivered     *)
(* twice or out of order.                                                  *)
(***************************************************************************)
EXTENDS Integers, Sequences

CONSTANTS
    Sessions,     \* session identifiers: one channel each
    MaxFrames,    \* bound of the model: frames one agent sends
    MaxItems,     \* frames and bytes a channel holds before it may refuse
    MaxBytes,
    FrameSize     \* the length of each frame

VARIABLES
    sent,         \* frames taken from the agent
    pending,      \* frames accepted and not delivered
    delivered,    \* frames delivered to the viewer
    cut           \* an end has gone, or the session was closed

channel == <<sent, pending, delivered, cut>>

Size(q) ==
    LET total[i \in 0..Len(q)] ==
            IF i = 0 THEN 0 ELSE total[i - 1] + FrameSize[q[i]]
    IN  total[Len(q)]

ChannelInit ==
    /\ sent = [s \in Sessions |-> 0]
    /\ pending = [s \in Sessions |-> <<>>]
    /\ delivered = [s \in Sessions |-> <<>>]
    /\ cut = [s \in Sessions |-> FALSE]

Send(s) ==
    /\ sent[s] < MaxFrames
    /\ sent' = [sent EXCEPT ![s] = @ + 1]
    /\ pending' = [pending EXCEPT ![s] = Append(@, sent[s] + 1)]
    /\ UNCHANGED <<delivered, cut>>

(* The newest frame is refused: with it, the channel would be over a limit.*)
Refused(s) ==
    /\ pending[s] # <<>> /\ delivered[s] = <<>>
    /\ Len(pending[s]) > MaxItems \/ Size(pending[s]) > MaxBytes
    /\ pending' = [pending EXCEPT ![s] = SubSeq(@, 1, Len(@) - 1)]
    /\ UNCHANGED <<sent, delivered, cut>>

Deliver(s) ==
    /\ pending[s] # <<>>
    /\ delivered' = [delivered EXCEPT ![s] = Append(@, Head(pending[s]))]
    /\ pending' = [pending EXCEPT ![s] = Tail(@)]
    /\ UNCHANGED <<sent, cut>>

(* From the moment it is cut the channel may lose any run of its frames.   *)
Lose(s) ==
    /\ cut' = [cut EXCEPT ![s] = TRUE]
    /\ \E i \in 1..Len(pending[s]) + 1 : \E j \in i - 1..Len(pending[s]) :
          pending' = [pending EXCEPT ![s] = SubSeq(@, 1, i - 1)
                                               \o SubSeq(@, j + 1, Len(@))]
    /\ UNCHANGED <<sent, delivered>>

ChannelNext ==
    \E s \in Sessions : Send(s) \/ Refused(s) \/ Deliver(s) \/ Lose(s)

ChannelSpec == ChannelInit /\ [][ChannelNext]_channel
=============================================================================
