-------------------------- MODULE PcapTablesProofs --------------------------
(***************************************************************************)
(* Proofs about the flow table and the alert list of the PCAP page: for    *)
(* tables, queues and lists of any size, any number of flows and any       *)
(* behaviour of the visitor.                                               *)
(*                                                                         *)
(* The table is in order because its rows and the flows that wait carry    *)
(* numbers that can be computed from their places (TableInv): the flows    *)
(* that wait end with the last one that arrived, and the table ends where  *)
(* they begin unless some have been dropped, which happens only when those *)
(* that are kept fill the table by themselves.                             *)
(***************************************************************************)
EXTENDS PcapTables, SequenceTheorems, TLAPS

-----------------------------------------------------------------------------
(* The helpers of the tables.                                              *)

(* The number of the newest row.                                           *)
Newest == rows[1].flow.n

(* The inductive invariant.                                                *)
TableInv ==
    /\ TypeOK
    /\ \A i \in 1..Len(rows) : rows[i].flow.n = Newest + 1 - i
    /\ \A i \in 1..Len(pendingFlows) : pendingFlows[i].n = arrived - Len(pendingFlows) + i
    /\ rows # <<>> => Newest <= arrived - Len(pendingFlows)
    /\ rows # <<>> /\ Len(pendingFlows) < MaxPending => Newest = arrived - Len(pendingFlows)
    /\ following => pendingFlows = <<>>

(* First cuts a list.                                                      *)
LEMMA FirstLemma ==
    ASSUME NEW S, NEW q \in Seq(S), NEW n \in Nat
    PROVE  /\ First(q, n) \in Seq(S)
           /\ Len(First(q, n)) = IF Len(q) < n THEN Len(q) ELSE n
           /\ \A i \in 1..Len(First(q, n)) : i \in 1..Len(q) /\ First(q, n)[i] = q[i]
<1> DEFINE m == IF Len(q) < n THEN Len(q) ELSE n
<1>1. Len(q) \in Nat /\ m \in Nat /\ m <= Len(q) /\ m <= n
  BY LenProperties
<1>2. \A i \in 1..m : i \in 1..Len(q) /\ q[i] \in S
  BY <1>1, ElementOfSeq
<1>3. First(q, n) = SubSeq(q, 1, m)
  BY DEF First
<1>4. /\ SubSeq(q, 1, m) \in Seq(S)
      /\ Len(SubSeq(q, 1, m)) = IF 1 <= m THEN m - 1 + 1 ELSE 0
      /\ \A i \in 1..m - 1 + 1 : SubSeq(q, 1, m)[i] = q[1 + i - 1]
  <2> HIDE DEF m
  <2>1. 1 \in Int /\ m \in Int
    BY <1>1
  <2> QED
    BY <1>2, <2>1, SubSeqProperties
<1>5. Len(SubSeq(q, 1, m)) = m
  BY <1>1, <1>4
<1>6. \A i \in 1..m : SubSeq(q, 1, m)[i] = q[i]
  <2> HIDE DEF m
  <2> TAKE i \in 1..m
  <2>1. i \in 1..m - 1 + 1 /\ 1 + i - 1 = i
    BY <1>1
  <2> QED
    BY <1>4, <2>1
<1> QED
  BY <1>2, <1>3, <1>4, <1>5, <1>6

(* Reverse, from the community modules.                                    *)
LEMMA ReverseLemma ==
    ASSUME NEW S, NEW q \in Seq(S)
    PROVE  /\ Reverse(q) \in Seq(S)
           /\ Len(Reverse(q)) = Len(q)
           /\ \A i \in 1..Len(q) : Len(q) + 1 - i \in 1..Len(q) /\ Reverse(q)[i] = q[Len(q) + 1 - i]
<1>1. Len(q) \in Nat
  BY LenProperties
<1>2. \A i \in 1..Len(q) : Len(q) + 1 - i \in 1..Len(q) /\ Len(q) - i + 1 = Len(q) + 1 - i
  BY <1>1
<1>3. \A i \in 1..Len(q) : q[Len(q) - i + 1] \in S
  BY <1>2, ElementOfSeq
<1>4. Reverse(q) = [i \in 1..Len(q) |-> q[Len(q) - i + 1]]
  BY DEF Reverse
<1>5. Reverse(q) \in [1..Len(q) -> S]
  BY <1>3, <1>4
<1>6. Reverse(q) \in Seq(S) /\ Len(Reverse(q)) = Len(q)
  BY <1>1, <1>5
<1> QED
  BY <1>2, <1>4, <1>6

(* A row shows its flow.                                                   *)
LEMMA RowType ==
    ASSUME NEW f \in Flows
    PROVE  Row(f) \in Rows /\ Row(f).flow = f
<1>1. (f.src \in threatIPs \/ f.dst \in threatIPs) \in BOOLEAN
  OBVIOUS
<1> QED
  BY <1>1 DEF Row, Rows

(* The table after a list of flows was rendered: the last of them on top,  *)
(* the old rows below, no more than MaxFlows.                              *)
LEMMA RenderedLemma ==
    ASSUME NEW q \in Seq(Flows), rows \in Seq(Rows), MaxFlows \in Nat
    PROVE  /\ Rendered(q) \in Seq(Rows)
           /\ Len(Rendered(q)) = IF Len(q) + Len(rows) < MaxFlows
                                 THEN Len(q) + Len(rows) ELSE MaxFlows
           /\ \A i \in 1..Len(Rendered(q)) :
                 \/ i \in 1..Len(q) /\ Len(q) + 1 - i \in 1..Len(q)
                       /\ Rendered(q)[i] = Row(q[Len(q) + 1 - i])
                 \/ Len(q) < i /\ i - Len(q) \in 1..Len(rows)
                       /\ Rendered(q)[i] = rows[i - Len(q)]
<1> DEFINE r == [i \in 1..Len(q) |-> Row(q[i])]
           c == Reverse(r) \o rows
<1>1. Len(q) \in Nat /\ Len(rows) \in Nat
  BY LenProperties
<1>2. \A i \in 1..Len(q) : Row(q[i]) \in Rows
  BY ElementOfSeq, RowType
<1>3. r \in Seq(Rows) /\ Len(r) = Len(q) /\ \A i \in 1..Len(q) : r[i] = Row(q[i])
  BY <1>1, <1>2
<1>4. Rendered(q) = First(c, MaxFlows)
  BY DEF Rendered
<1> HIDE DEF r
<1>5. /\ Reverse(r) \in Seq(Rows) /\ Len(Reverse(r)) = Len(q)
      /\ \A i \in 1..Len(q) : Len(q) + 1 - i \in 1..Len(q)
                                 /\ Reverse(r)[i] = Row(q[Len(q) + 1 - i])
  <2>1. /\ Reverse(r) \in Seq(Rows) /\ Len(Reverse(r)) = Len(r)
        /\ \A i \in 1..Len(r) : Len(r) + 1 - i \in 1..Len(r)
                                   /\ Reverse(r)[i] = r[Len(r) + 1 - i]
    BY <1>3, ReverseLemma
  <2> QED
    BY <1>3, <2>1
<1>6. /\ c \in Seq(Rows) /\ Len(c) = Len(q) + Len(rows)
      /\ \A i \in 1..Len(q) + Len(rows) :
            c[i] = IF i <= Len(q) THEN Reverse(r)[i] ELSE rows[i - Len(q)]
  <2>1. /\ c \in Seq(Rows) /\ Len(c) = Len(Reverse(r)) + Len(rows)
        /\ \A i \in 1..Len(Reverse(r)) + Len(rows) :
              c[i] = IF i <= Len(Reverse(r)) THEN Reverse(r)[i] ELSE rows[i - Len(Reverse(r))]
    BY <1>5, ConcatProperties
  <2> QED
    BY <1>5, <2>1, Zenon
<1> HIDE DEF c
<1>7. /\ First(c, MaxFlows) \in Seq(Rows)
      /\ Len(First(c, MaxFlows)) = IF Len(c) < MaxFlows THEN Len(c) ELSE MaxFlows
      /\ \A i \in 1..Len(First(c, MaxFlows)) :
            i \in 1..Len(c) /\ First(c, MaxFlows)[i] = c[i]
  BY <1>6, FirstLemma
<1>8. ASSUME NEW i \in 1..Len(Rendered(q))
      PROVE  \/ i \in 1..Len(q) /\ Len(q) + 1 - i \in 1..Len(q)
                   /\ Rendered(q)[i] = Row(q[Len(q) + 1 - i])
             \/ Len(q) < i /\ i - Len(q) \in 1..Len(rows)
                   /\ Rendered(q)[i] = rows[i - Len(q)]
  <2>1. i \in 1..Len(q) + Len(rows) /\ Rendered(q)[i] = c[i]
    BY <1>4, <1>6, <1>7
  <2>2. CASE i <= Len(q)
    <3>1. i \in 1..Len(q)
      BY <1>1, <2>1, <2>2
    <3> QED
      BY <1>5, <1>6, <2>1, <2>2, <3>1
  <2>3. CASE ~(i <= Len(q))
    <3>1. Len(q) < i /\ i - Len(q) \in 1..Len(rows)
      BY <1>1, <2>1, <2>3
    <3> QED
      BY <1>6, <2>1, <2>3, <3>1
  <2> QED
    BY <2>2, <2>3
<1> QED
  BY <1>4, <1>6, <1>7, <1>8

-----------------------------------------------------------------------------
(* The numbers of rendered and of waiting flows.                           *)

(* The part of TableInv about the numbers, of a table r, the waiting flows *)
(* p and the number a of flows that arrived.                               *)
Numbered(r, p, a, follows) ==
    /\ \A i \in 1..Len(r) : r[i].flow.n = r[1].flow.n + 1 - i
    /\ \A i \in 1..Len(p) : p[i].n = a - Len(p) + i
    /\ r # <<>> => r[1].flow.n <= a - Len(p)
    /\ r # <<>> /\ Len(p) < MaxPending => r[1].flow.n = a - Len(p)
    /\ follows => p = <<>>

(* TableInv consists of the types and the numbers.                         *)
LEMMA InvIsNumbered ==
    TableInv <=> TypeOK /\ Numbered(rows, pendingFlows, arrived, following)
BY DEF TableInv, Numbered, Newest

(* Flows that end with the last one and go on where the table ends, or     *)
(* fill it, leave a table in order.                                        *)
LEMMA RenderKeepsOrder ==
    ASSUME TableInv, NEW q \in Seq(Flows), NEW a \in 0..MaxArrivals,
           \A i \in 1..Len(q) : q[i].n = a - Len(q) + i,
           rows # <<>> /\ Len(q) < MaxFlows => Newest = a - Len(q)
    PROVE  /\ Rendered(q) \in Seq(Rows)
           /\ Len(Rendered(q)) <= MaxFlows
           /\ \A i \in 1..Len(Rendered(q)) : Rendered(q)[i].flow.n = a + 1 - i
<1> DEFINE r == Rendered(q)
<1>1. /\ MaxFlows \in Nat \ {0} /\ MaxArrivals \in Nat
      /\ rows \in Seq(Rows) /\ Len(rows) \in Nat /\ Len(q) \in Nat
  BY LenProperties, TablesAssumption DEF TableInv, TypeOK
<1>2. /\ r \in Seq(Rows)
      /\ Len(r) = IF Len(q) + Len(rows) < MaxFlows THEN Len(q) + Len(rows) ELSE MaxFlows
      /\ \A i \in 1..Len(r) :
            \/ i \in 1..Len(q) /\ Len(q) + 1 - i \in 1..Len(q)
                  /\ r[i] = Row(q[Len(q) + 1 - i])
            \/ Len(q) < i /\ i - Len(q) \in 1..Len(rows)
                  /\ r[i] = rows[i - Len(q)]
  BY <1>1, RenderedLemma
<1> HIDE DEF r
<1>3. Len(r) <= MaxFlows
  BY <1>1, <1>2
<1>4. ASSUME NEW i \in 1..Len(r)
      PROVE  r[i].flow.n = a + 1 - i
  <2>0. i \in Nat /\ i <= Len(r) /\ Len(r) \in Nat /\ a \in Nat
    BY <1>1, <1>2
  <2>1. CASE i \in 1..Len(q) /\ Len(q) + 1 - i \in 1..Len(q) /\ r[i] = Row(q[Len(q) + 1 - i])
    <3>1. PICK k \in 1..Len(q) : k = Len(q) + 1 - i /\ r[i] = Row(q[k])
      BY <2>1
    <3>2. q[k] \in Flows /\ q[k].n = a - Len(q) + k
      BY ElementOfSeq
    <3>3. r[i].flow = q[k]
      BY <3>1, <3>2, RowType
    <3> QED
      BY <1>1, <2>0, <3>1, <3>2, <3>3
  <2>2. CASE Len(q) < i /\ i - Len(q) \in 1..Len(rows) /\ r[i] = rows[i - Len(q)]
    <3>1. PICK k \in 1..Len(rows) : k = i - Len(q) /\ r[i] = rows[k]
      BY <2>2
    <3>2. Len(q) < MaxFlows /\ rows # <<>>
      <4>1. Len(q) < MaxFlows
        BY <1>1, <1>3, <2>0, <2>2
      <4>2. Len(rows) # 0
        BY <1>1
      <4> QED
        BY <1>1, <4>1, <4>2, EmptySeq
    <3>3. rows[k].flow.n = Newest + 1 - k /\ Newest = a - Len(q)
      BY <3>2 DEF TableInv
    <3> QED
      BY <1>1, <2>0, <3>1, <3>3
  <2> QED
    BY <1>2, <2>1, <2>2
<1> QED
  BY <1>2, <1>3, <1>4 DEF r

(* So do the numbers when nothing waits any more.                          *)
LEMMA RenderNumbered ==
    ASSUME TableInv, NEW q \in Seq(Flows), NEW a \in 0..MaxArrivals, NEW f \in BOOLEAN,
           \A i \in 1..Len(q) : q[i].n = a - Len(q) + i,
           rows # <<>> /\ Len(q) < MaxFlows => Newest = a - Len(q)
    PROVE  Numbered(Rendered(q), <<>>, a, f)
<1> DEFINE r == Rendered(q)
<1>1. /\ r \in Seq(Rows)
      /\ \A i \in 1..Len(r) : r[i].flow.n = a + 1 - i
  BY RenderKeepsOrder
<1> HIDE DEF r
<1>2. Len(r) \in Nat /\ a \in Nat /\ Len(<<>>) = 0
  BY <1>1, LenProperties, TablesAssumption
<1>3. r # <<>> => 1 \in 1..Len(r)
  BY <1>1, <1>2, EmptySeq
<1>4. r # <<>> => r[1].flow.n = a
  BY <1>1, <1>2, <1>3
<1>5. \A i \in 1..Len(r) : r[i].flow.n = r[1].flow.n + 1 - i
  <2> TAKE i \in 1..Len(r)
  <2>1. r # <<>>
    BY <1>2
  <2> QED
    BY <1>1, <1>4, <2>1
<1> QED
  BY <1>2, <1>4, <1>5 DEF r, Numbered

(* The types, for arithmetic.                                              *)
LEMMA PendingFacts ==
    ASSUME TableInv
    PROVE  /\ pendingFlows \in Seq(Flows) /\ Len(pendingFlows) \in Nat
           /\ rows \in Seq(Rows) /\ Len(rows) \in Nat
           /\ arrived \in 0..MaxArrivals /\ arrived \in Nat /\ MaxArrivals \in Nat
           /\ MaxFlows \in Nat \ {0} /\ MaxPending = MaxFlows
BY LenProperties, TablesAssumption DEF TableInv, TypeOK

(* A flow that waits: the oldest is dropped only when the queue is as long *)
(* as the table.                                                           *)
LEMMA QueueKeepsOrder ==
    ASSUME TableInv, NEW f \in Flows, f.n = arrived + 1, Queue(f), arrived < MaxArrivals
    PROVE  /\ pendingFlows' \in Seq(Flows) /\ Len(pendingFlows') <= MaxPending
           /\ Numbered(rows, pendingFlows', arrived + 1, FALSE)
<1> DEFINE q == Append(pendingFlows, f)
<1>0. /\ pendingFlows \in Seq(Flows) /\ Len(pendingFlows) \in Nat
      /\ rows \in Seq(Rows) /\ Len(rows) \in Nat
      /\ arrived \in Nat /\ MaxFlows \in Nat \ {0} /\ MaxPending = MaxFlows
  BY PendingFacts
<1>00. Len(pendingFlows) <= MaxPending
  BY DEF TableInv, TypeOK
<1>1. /\ q \in Seq(Flows) /\ q # <<>> /\ Len(q) = Len(pendingFlows) + 1
      /\ \A i \in 1..Len(pendingFlows) : q[i] = pendingFlows[i]
      /\ q[Len(pendingFlows) + 1] = f
  BY <1>0, AppendProperties
<1>2. pendingFlows' = IF Len(q) > MaxPending THEN Tail(q) ELSE q
  BY DEF Queue
<1> HIDE DEF q
<1>3. Numbered(rows, pendingFlows, arrived, following)
  BY InvIsNumbered
<1>4. ASSUME NEW i \in 1..Len(q)
      PROVE  q[i].n = (arrived + 1) - Len(q) + i
  <2>1. CASE i = Len(pendingFlows) + 1
    BY <1>0, <1>1, <2>1
  <2>2. CASE i # Len(pendingFlows) + 1
    <3>1. i \in 1..Len(pendingFlows)
      BY <1>0, <1>1, <2>2
    <3>2. q[i].n = arrived - Len(pendingFlows) + i
      BY <1>1, <1>3, <3>1 DEF Numbered
    <3> QED
      BY <1>0, <1>1, <3>2
  <2> QED
    BY <2>1, <2>2
<1>5. rows # <<>> => 1 \in 1..Len(rows) /\ rows[1] \in Rows /\ rows[1].flow.n \in Int
  <2> HAVE rows # <<>>
  <2>1. 1 \in 1..Len(rows)
    BY <1>0, EmptySeq
  <2>2. rows[1] \in Rows
    BY <1>0, <2>1, ElementOfSeq
  <2>3. rows[1].flow.n \in 1..MaxArrivals
    BY <2>2 DEF Rows, Flows
  <2> QED
    BY <2>1, <2>2, <2>3
<1>6. CASE Len(q) > MaxPending
  <2>1. /\ pendingFlows' = Tail(q) /\ Tail(q) \in Seq(Flows)
        /\ Len(Tail(q)) = Len(q) - 1
        /\ \A i \in 1..Len(Tail(q)) : Tail(q)[i] = q[i + 1]
    BY <1>1, <1>2, <1>6, HeadTailProperties
  <2>2. Len(pendingFlows) = MaxPending /\ Len(pendingFlows') = MaxPending
    BY <1>0, <1>00, <1>1, <1>6, <2>1
  <2>3. ASSUME NEW i \in 1..Len(pendingFlows')
        PROVE  pendingFlows'[i].n = (arrived + 1) - Len(pendingFlows') + i
    <3>1. i + 1 \in 1..Len(q) /\ i \in Int /\ pendingFlows'[i] = q[i + 1]
      BY <1>0, <1>1, <2>1, <2>2
    <3>2. q[i + 1].n = (arrived + 1) - Len(q) + (i + 1)
      BY <1>4, <3>1
    <3>3. (arrived + 1) - Len(q) + (i + 1) = (arrived + 1) - Len(pendingFlows') + i
      <4>1. PICK m \in Int : m = Len(pendingFlows')
        BY <1>0, <2>2
      <4>2. Len(q) = m + 1
        BY <1>0, <1>1, <2>1, <4>1
      <4> QED
        BY ONLY <4>1, <4>2, <1>0, i \in 1..Len(q), m \in Int
    <3> QED
      BY <3>1, <3>2, <3>3
  <2>4. rows # <<>> => rows[1].flow.n <= (arrived + 1) - Len(pendingFlows')
    BY <1>0, <1>3, <1>5, <2>2 DEF Numbered
  <2> QED
    BY <1>0, <1>3, <2>1, <2>2, <2>3, <2>4 DEF Numbered
<1>7. CASE ~(Len(q) > MaxPending)
  <2>1. pendingFlows' = q /\ Len(q) <= MaxPending /\ Len(pendingFlows) < MaxPending
    BY <1>0, <1>1, <1>2, <1>7
  <2>2. rows # <<>> => rows[1].flow.n = arrived - Len(pendingFlows)
    BY <1>3, <2>1 DEF Numbered
  <2>3. rows # <<>> => rows[1].flow.n = (arrived + 1) - Len(q)
    BY <1>0, <1>1, <2>2
  <2>4. rows # <<>> => rows[1].flow.n <= (arrived + 1) - Len(q)
    BY <1>0, <1>1, <2>3
  <2>5. \A i \in 1..Len(pendingFlows') :
           pendingFlows'[i].n = (arrived + 1) - Len(pendingFlows') + i
    BY <1>4, <2>1
  <2>6. \A i \in 1..Len(rows) : rows[i].flow.n = rows[1].flow.n + 1 - i
    BY <1>3 DEF Numbered
  <2>7. Numbered(rows, pendingFlows', arrived + 1, FALSE)
    <3>1. rows # <<>> => rows[1].flow.n <= (arrived + 1) - Len(pendingFlows')
      BY <2>1, <2>4
    <3>2. rows # <<>> /\ Len(pendingFlows') < MaxPending
             => rows[1].flow.n = (arrived + 1) - Len(pendingFlows')
      BY <2>1, <2>3
    <3> QED
      BY <2>5, <2>6, <3>1, <3>2 DEF Numbered
  <2> QED
    BY <1>1, <2>1, <2>7
<1> QED
  BY <1>6, <1>7

-----------------------------------------------------------------------------
(* Types, alerts and threats, one by one.                                  *)

(* The types of the alert list.                                            *)
AlertTypes ==
    /\ alerts \in Seq(AlertIDs) /\ Len(alerts) <= MaxAlerts
    /\ DOMAIN rendered \subseteq AlertIDs
    /\ \A id \in DOMAIN rendered : rendered[id] \in Severities

(* The types of the flows.                                                 *)
FlowTypes ==
    /\ arrived \in 0..MaxArrivals
    /\ rows \in Seq(Rows) /\ Len(rows) <= MaxFlows
    /\ pendingFlows \in Seq(Flows) /\ Len(pendingFlows) <= MaxPending

(* The types of the scroll position.                                       *)
ScrollTypes ==
    /\ following \in BOOLEAN /\ scrolled \in BOOLEAN
    /\ scrollTop \in Positions /\ lastTop \in Positions

(* TypeOK in parts.                                                        *)
LEMMA Types == TypeOK <=> FlowTypes /\ ScrollTypes /\ threatIPs \subseteq Addrs /\ AlertTypes
BY DEF TypeOK, FlowTypes, ScrollTypes, AlertTypes

(* What addAlert leaves: the list as it was, or the new entry on top of    *)
(* what is not cut off.                                                    *)
LEMMA AddAlertForm ==
    ASSUME TypeOK, NEW id \in AlertIDs, NEW severity \in Severities, AddAlert(id, severity)
    PROVE  /\ alerts' \in Seq(AlertIDs) /\ Len(alerts') <= MaxAlerts
           /\ DOMAIN rendered' = (DOMAIN rendered \cup {id}) \cap ToSet(alerts')
           /\ \A x \in DOMAIN rendered' : rendered'[x] \in Severities
           /\ id \in DOMAIN rendered => alerts' = alerts
           /\ id \notin DOMAIN rendered =>
                 \A i \in 1..Len(alerts') :
                    \/ i = 1 /\ alerts'[i] = id
                    \/ i # 1 /\ i - 1 \in 1..Len(alerts) /\ alerts'[i] = alerts[i - 1]
<1>0. /\ alerts \in Seq(AlertIDs) /\ Len(alerts) <= MaxAlerts /\ Len(alerts) \in Nat
      /\ MaxAlerts \in Nat \ {0}
      /\ \A x \in DOMAIN rendered : rendered[x] \in Severities
  BY LenProperties, TablesAssumption DEF TypeOK
<1>1. <<id>> \in Seq(AlertIDs) /\ Len(<<id>>) = 1 /\ <<id>>[1] = id
  OBVIOUS
<1>2. /\ <<id>> \o alerts \in Seq(AlertIDs)
      /\ Len(<<id>> \o alerts) = 1 + Len(alerts)
      /\ \A i \in 1..1 + Len(alerts) :
            (<<id>> \o alerts)[i] = IF i <= 1 THEN <<id>>[i] ELSE alerts[i - 1]
  BY <1>0, <1>1, ConcatProperties
<1>3. /\ First(<<id>> \o alerts, MaxAlerts) \in Seq(AlertIDs)
      /\ Len(First(<<id>> \o alerts, MaxAlerts)) =
            IF Len(<<id>> \o alerts) < MaxAlerts THEN Len(<<id>> \o alerts) ELSE MaxAlerts
      /\ \A i \in 1..Len(First(<<id>> \o alerts, MaxAlerts)) :
            i \in 1..Len(<<id>> \o alerts)
            /\ First(<<id>> \o alerts, MaxAlerts)[i] = (<<id>> \o alerts)[i]
  BY <1>0, <1>2, FirstLemma
<1>4. /\ alerts' = IF id \in DOMAIN rendered THEN alerts
                   ELSE First(<<id>> \o alerts, MaxAlerts)
      /\ rendered' = ForgetCut([x \in DOMAIN rendered \cup {id} |->
                                   IF x = id THEN severity ELSE rendered[x]], alerts')
  BY DEF AddAlert
<1>5. alerts' \in Seq(AlertIDs) /\ Len(alerts') <= MaxAlerts
  BY <1>0, <1>2, <1>3, <1>4
<1>6. /\ DOMAIN rendered' = (DOMAIN rendered \cup {id}) \cap ToSet(alerts')
      /\ \A x \in DOMAIN rendered' : rendered'[x] \in Severities
  BY <1>0, <1>4 DEF ForgetCut
<1>7. ASSUME id \notin DOMAIN rendered, NEW i \in 1..Len(alerts')
      PROVE  \/ i = 1 /\ alerts'[i] = id
             \/ i # 1 /\ i - 1 \in 1..Len(alerts) /\ alerts'[i] = alerts[i - 1]
  <2>1. i \in 1..1 + Len(alerts) /\ alerts'[i] = (<<id>> \o alerts)[i]
    BY <1>2, <1>3, <1>4, <1>7
  <2>2. CASE i = 1
    BY <1>1, <1>2, <2>1, <2>2
  <2>3. CASE i # 1
    <3>1. ~(i <= 1) /\ i - 1 \in 1..Len(alerts)
      BY <1>0, <2>1, <2>3
    <3> QED
      BY <1>2, <2>1, <2>3, <3>1
  <2> QED
    BY <2>2, <2>3
<1> QED
  BY <1>4, <1>5, <1>6, <1>7

(* addAlert keeps the map and the list together.                           *)
LEMMA AddAlertKeepsList ==
    ASSUME TypeOK, AlertsAreListed, NEW id \in AlertIDs, NEW severity \in Severities,
           AddAlert(id, severity)
    PROVE  AlertsAreListed'
<1>0. /\ alerts \in Seq(AlertIDs) /\ DOMAIN alerts = 1..Len(alerts) /\ Len(alerts) \in Nat
      /\ ToSet(alerts) = DOMAIN rendered
      /\ \A a, b \in DOMAIN alerts : alerts[a] = alerts[b] => a = b
  BY LenProperties DEF TypeOK, AlertsAreListed, IsInjective
<1>1. /\ alerts' \in Seq(AlertIDs)
      /\ DOMAIN rendered' = (DOMAIN rendered \cup {id}) \cap ToSet(alerts')
  BY AddAlertForm
<1>2. CASE id \in DOMAIN rendered
  <2>1. alerts' = alerts
    BY <1>2, AddAlertForm
  <2> QED
    BY <1>0, <1>1, <1>2, <2>1 DEF AlertsAreListed, IsInjective
<1>3. CASE id \notin DOMAIN rendered
  <2>1. DOMAIN alerts' = 1..Len(alerts') /\ Len(alerts') \in Nat
    BY <1>1, LenProperties
  <2>2. \A i \in 1..Len(alerts') : \/ i = 1 /\ alerts'[i] = id
                                   \/ i # 1 /\ i - 1 \in 1..Len(alerts)
                                         /\ alerts'[i] = alerts[i - 1]
    BY <1>3, AddAlertForm
  <2>3. \A i \in 1..Len(alerts) : alerts[i] \in DOMAIN rendered /\ alerts[i] # id
    BY <1>0, <1>3 DEF ToSet
  <2>4. ToSet(alerts') \subseteq DOMAIN rendered \cup {id}
    BY <2>1, <2>2, <2>3 DEF ToSet
  <2>5. ASSUME NEW a \in DOMAIN alerts', NEW b \in DOMAIN alerts', alerts'[a] = alerts'[b]
        PROVE  a = b
    <3>1. CASE a = 1 \/ b = 1
      BY <2>1, <2>2, <2>3, <2>5, <3>1
    <3>2. CASE a # 1 /\ b # 1
      <4>1. /\ a - 1 \in 1..Len(alerts) /\ alerts'[a] = alerts[a - 1]
            /\ b - 1 \in 1..Len(alerts) /\ alerts'[b] = alerts[b - 1]
        BY <2>1, <2>2, <3>2
      <4>2. a - 1 = b - 1
        BY <1>0, <2>5, <4>1
      <4> QED
        BY <2>1, <4>2
    <3> QED
      BY <3>1, <3>2
  <2> QED
    BY <1>1, <2>4, <2>5 DEF AlertsAreListed, IsInjective
<1> QED
  BY <1>2, <1>3

(* A threat changes no flow of the table, only marks.                      *)
LEMMA AddThreatForm ==
    ASSUME TypeOK, NEW ip \in Addrs, AddThreat(ip)
    PROVE  /\ rows' \in Seq(Rows) /\ Len(rows') = Len(rows)
           /\ \A i \in 1..Len(rows) :
                 /\ rows'[i].flow = rows[i].flow
                 /\ rows'[i].threat = (rows[i].threat \/ Shows(rows[i], ip))
<1>0. rows \in Seq(Rows) /\ Len(rows) \in Nat
  BY LenProperties DEF TypeOK
<1>1. rows' = [i \in 1..Len(rows) |->
                 [rows[i] EXCEPT !.threat = rows[i].threat \/ Shows(rows[i], ip)]]
  BY DEF AddThreat
<1>2. ASSUME NEW i \in 1..Len(rows)
      PROVE  /\ [rows[i] EXCEPT !.threat = rows[i].threat \/ Shows(rows[i], ip)] \in Rows
             /\ rows'[i].flow = rows[i].flow
             /\ rows'[i].threat = (rows[i].threat \/ Shows(rows[i], ip))
  <2>1. PICK row \in Rows : row = rows[i]
    BY <1>0, ElementOfSeq
  <2>2. (row.threat \/ Shows(row, ip)) \in BOOLEAN
    OBVIOUS
  <2>3. ASSUME NEW mark \in BOOLEAN
        PROVE  /\ [row EXCEPT !.threat = mark] \in Rows
               /\ [row EXCEPT !.threat = mark].flow = row.flow
               /\ [row EXCEPT !.threat = mark].threat = mark
    BY DEF Rows
  <2>4. rows'[i] = [row EXCEPT !.threat = row.threat \/ Shows(row, ip)]
    BY <1>1, <2>1
  <2> HIDE DEF Rows
  <2> QED
    BY <2>1, <2>2, <2>3, <2>4, Zenon
<1>3. rows' \in [1..Len(rows) -> Rows]
  BY <1>1, <1>2
<1>4. rows' \in Seq(Rows) /\ Len(rows') = Len(rows)
  BY <1>0, <1>3
<1> QED
  BY <1>2, <1>4

-----------------------------------------------------------------------------
(* What each handler does to the flows.                                    *)

(* A step that leaves the flows alone.                                     *)
SameFlows == UNCHANGED <<arrived, rows, pendingFlows>> /\ (following' => following)

(* A flow arrives and waits.                                               *)
Waits(f) ==
    /\ arrived < MaxArrivals /\ f.n = arrived + 1
    /\ arrived' = arrived + 1 /\ ~following' /\ Queue(f) /\ rows' = rows

(* The flows q, the last of which is the last that arrived, are rendered,  *)
(* and none waits any more.                                                *)
Renders(q) ==
    /\ arrived' \in 0..MaxArrivals
    /\ \A i \in 1..Len(q) : q[i].n = arrived' - Len(q) + i
    /\ rows # <<>> /\ Len(q) < MaxFlows => Newest = arrived' - Len(q)
    /\ rows' = Rendered(q) /\ pendingFlows' = <<>>

(* Following again renders what waited.                                    *)
LEMMA ResumeRenders ==
    ASSUME TableInv, rows' = Rendered(pendingFlows), pendingFlows' = <<>>, arrived' = arrived
    PROVE  Renders(pendingFlows) /\ pendingFlows \in Seq(Flows)
BY PendingFacts DEF Renders, TableInv

(* A flow that arrives waits or is rendered.                               *)
LEMMA AddFlowForm ==
    ASSUME TableInv, NEW f \in Flows, AddFlow(f)
    PROVE  /\ Waits(f) \/ \E q \in Seq(Flows) : Renders(q)
           /\ ScrollTypes' /\ threatIPs' = threatIPs /\ UNCHANGED alertVars
<1>0. ScrollTypes /\ 0 \in Positions
  BY Types, TablesAssumption DEF TableInv, Positions
<1>1. CASE ~following \/ scrollTop > Threshold
  <2>1. Waits(f)
    BY <1>1 DEF AddFlow, Waits
  <2>2. ScrollTypes'
    BY <1>0, <1>1 DEF AddFlow, ScrollTypes
  <2> QED
    BY <2>1, <2>2 DEF AddFlow
<1>2. CASE ~(~following \/ scrollTop > Threshold)
  <2>1. /\ rows' = Rendered(<<f>>) /\ pendingFlows' = pendingFlows /\ ToTop
        /\ following' = following /\ arrived' = arrived + 1
        /\ arrived < MaxArrivals /\ f.n = arrived + 1
    BY <1>2 DEF AddFlow
  <2>2. pendingFlows = <<>> /\ Len(pendingFlows) = 0
    BY <1>2 DEF TableInv
  <2>3. rows # <<>> => Newest = arrived
    BY <2>2, PendingFacts DEF TableInv
  <2>4. <<f>> \in Seq(Flows) /\ Len(<<f>>) = 1 /\ <<f>>[1] = f
    OBVIOUS
  <2>5. arrived' \in 0..MaxArrivals /\ arrived' - 1 = arrived
    BY <2>1, PendingFacts
  <2>6. \A i \in 1..Len(<<f>>) : <<f>>[i].n = arrived' - Len(<<f>>) + i
    BY <2>1, <2>4, PendingFacts
  <2>7. Renders(<<f>>)
    BY <2>1, <2>2, <2>3, <2>4, <2>5, <2>6 DEF Renders
  <2>8. ScrollTypes'
    BY <1>0, <2>1 DEF ToTop, ScrollTypes
  <2> QED
    BY <2>4, <2>7, <2>8 DEF AddFlow
<1> QED
  BY <1>1, <1>2

(* The other handlers leave the flows alone or render what waited.         *)
LEMMA HandlersForm ==
    ASSUME TableInv,
           HandleFlowScroll \/ PauseFlowLive \/ JumpToLive \/ \E p \in Positions : Scroll(p)
    PROVE  /\ SameFlows \/ \E q \in Seq(Flows) : Renders(q)
           /\ ScrollTypes' /\ threatIPs' = threatIPs /\ UNCHANGED alertVars
<1>0. ScrollTypes /\ 0 \in Positions
  BY Types, TablesAssumption DEF TableInv, Positions
<1>1. CASE HandleFlowScroll
  <2>1. CASE Returns
    <3>1. \E q \in Seq(Flows) : Renders(q)
      BY <1>1, <2>1, ResumeRenders DEF HandleFlowScroll, Returns, Resume
    <3>2. ScrollTypes'
      BY <1>0, <1>1, <2>1 DEF HandleFlowScroll, Returns, Resume, ScrollTypes
    <3> QED
      BY <1>1, <3>1, <3>2 DEF HandleFlowScroll
  <2>2. CASE ~Returns
    <3>1. /\ following' = (following /\ scrollTop <= lastTop)
          /\ UNCHANGED <<arrived, rows, pendingFlows, scrollTop, threatIPs, alertVars>>
          /\ lastTop' = scrollTop' /\ scrolled' = (scrollTop' # scrollTop)
      BY <1>1, <2>2 DEF HandleFlowScroll
    <3>2. SameFlows
      BY <3>1 DEF SameFlows
    <3>3. following' \in BOOLEAN /\ scrolled' \in BOOLEAN
      BY <3>1
    <3>4. ScrollTypes'
      BY <1>0, <3>1, <3>3 DEF ScrollTypes
    <3> QED
      BY <3>1, <3>2, <3>4
  <2> QED
    BY <2>1, <2>2
<1>2. CASE PauseFlowLive
  BY <1>0, <1>2 DEF PauseFlowLive, SameFlows, ScrollTypes, alertVars
<1>3. CASE JumpToLive
  <2>1. \E q \in Seq(Flows) : Renders(q)
    BY <1>3, ResumeRenders DEF JumpToLive
  <2>2. ScrollTypes'
    BY <1>0, <1>3 DEF JumpToLive, ToTop, ScrollTypes
  <2> QED
    BY <1>3, <2>1, <2>2 DEF JumpToLive
<1>4. CASE \E p \in Positions : Scroll(p)
  BY <1>0, <1>4 DEF Scroll, SameFlows, ScrollTypes, alertVars
<1> QED
  BY <1>1, <1>2, <1>3, <1>4

(* Rendering keeps the types and the numbers.                              *)
LEMMA RenderStep ==
    ASSUME TableInv, NEW q \in Seq(Flows), Renders(q)
    PROVE  /\ FlowTypes'
           /\ Numbered(rows', pendingFlows', arrived', following')
<1>1. PICK a \in 0..MaxArrivals : a = arrived'
  BY DEF Renders
<1>2. /\ \A i \in 1..Len(q) : q[i].n = a - Len(q) + i
      /\ rows # <<>> /\ Len(q) < MaxFlows => Newest = a - Len(q)
      /\ rows' = Rendered(q) /\ pendingFlows' = <<>>
  BY <1>1 DEF Renders
<1>3. Rendered(q) \in Seq(Rows) /\ Len(Rendered(q)) <= MaxFlows
  BY <1>2, RenderKeepsOrder
<1>4. Numbered(Rendered(q), <<>>, a, TRUE)
  BY <1>2, RenderNumbered
<1>5. Numbered(rows', pendingFlows', arrived', following')
  BY <1>1, <1>2, <1>4 DEF Numbered
<1>6. <<>> \in Seq(Flows) /\ Len(<<>>) <= MaxPending
  BY PendingFacts
<1> QED
  BY <1>1, <1>2, <1>3, <1>5, <1>6 DEF FlowTypes

(* So does waiting.                                                        *)
LEMMA WaitStep ==
    ASSUME TableInv, NEW f \in Flows, Waits(f)
    PROVE  /\ FlowTypes'
           /\ Numbered(rows', pendingFlows', arrived', following')
<1>1. /\ pendingFlows' \in Seq(Flows) /\ Len(pendingFlows') <= MaxPending
      /\ Numbered(rows, pendingFlows', arrived + 1, FALSE)
  BY QueueKeepsOrder DEF Waits
<1>2. Numbered(rows', pendingFlows', arrived', following')
  BY <1>1 DEF Waits, Numbered
<1>3. FlowTypes
  BY Types DEF TableInv
<1>4. arrived' \in 0..MaxArrivals
  BY PendingFacts DEF Waits
<1> QED
  BY <1>1, <1>2, <1>3, <1>4 DEF Waits, FlowTypes

(* So does a threat.                                                       *)
LEMMA ThreatStep ==
    ASSUME TableInv, NEW ip \in Addrs, AddThreat(ip)
    PROVE  /\ FlowTypes'
           /\ Numbered(rows', pendingFlows', arrived', following')
<1>1. /\ rows' \in Seq(Rows) /\ Len(rows') = Len(rows)
      /\ \A i \in 1..Len(rows) : rows'[i].flow = rows[i].flow
  BY AddThreatForm DEF TableInv
<1>2. FlowTypes /\ Numbered(rows, pendingFlows, arrived, following)
  BY Types, InvIsNumbered DEF TableInv
<1>3. arrived' = arrived /\ pendingFlows' = pendingFlows /\ following' = following
  BY DEF AddThreat, scrollVars
<1>4. (rows' # <<>>) <=> (rows # <<>>)
  BY <1>1, <1>2, EmptySeq, LenProperties DEF FlowTypes
<1>5. rows # <<>> => 1 \in 1..Len(rows)
  BY <1>2, EmptySeq, LenProperties DEF FlowTypes
<1>6. \A i \in 1..Len(rows) : rows'[i].flow.n = rows[i].flow.n
  BY <1>1
<1>7. rows # <<>> => rows'[1].flow.n = rows[1].flow.n
  BY <1>5, <1>6
<1>8. \A i \in 1..Len(rows') : rows'[i].flow.n = rows'[1].flow.n + 1 - i
  <2> TAKE i \in 1..Len(rows')
  <2>1. rows # <<>> /\ i \in 1..Len(rows)
    BY <1>1, <1>2, EmptySeq, LenProperties DEF FlowTypes
  <2> QED
    BY <1>2, <1>6, <1>7, <2>1 DEF Numbered
<1>9. Numbered(rows', pendingFlows', arrived', following')
  BY <1>2, <1>3, <1>4, <1>7, <1>8 DEF Numbered
<1> QED
  BY <1>1, <1>2, <1>3, <1>9 DEF FlowTypes

(* TableInv is inductive.                                                  *)
LEMMA TableStep ==
    ASSUME TableInv, [Next]_vars
    PROVE  TableInv'
<1>0. /\ FlowTypes /\ ScrollTypes /\ threatIPs \subseteq Addrs /\ AlertTypes
      /\ Numbered(rows, pendingFlows, arrived, following)
  BY Types, InvIsNumbered DEF TableInv
<1>1. SUFFICES /\ FlowTypes' /\ ScrollTypes' /\ (threatIPs \subseteq Addrs)' /\ AlertTypes'
               /\ Numbered(rows', pendingFlows', arrived', following')
  BY Types, InvIsNumbered DEF TableInv, Newest, TypeOK, FlowTypes, ScrollTypes, AlertTypes,
                              Numbered, Positions
<1>2. ASSUME NEW f \in Flows, AddFlow(f)
      PROVE  /\ FlowTypes' /\ ScrollTypes' /\ threatIPs' = threatIPs /\ UNCHANGED alertVars
             /\ Numbered(rows', pendingFlows', arrived', following')
  BY <1>2, AddFlowForm, RenderStep, WaitStep
<1>3. ASSUME HandleFlowScroll \/ PauseFlowLive \/ JumpToLive \/ \E p \in Positions : Scroll(p)
      PROVE  /\ FlowTypes' /\ ScrollTypes' /\ threatIPs' = threatIPs /\ UNCHANGED alertVars
             /\ Numbered(rows', pendingFlows', arrived', following')
  <2>1. /\ SameFlows \/ \E q \in Seq(Flows) : Renders(q)
        /\ ScrollTypes' /\ threatIPs' = threatIPs /\ UNCHANGED alertVars
    BY <1>3, HandlersForm
  <2>2. CASE SameFlows
    BY <1>0, <2>1, <2>2 DEF SameFlows, FlowTypes, Numbered
  <2> QED
    BY <2>1, <2>2, RenderStep
<1>4. ASSUME NEW ip \in Addrs, AddThreat(ip)
      PROVE  /\ FlowTypes' /\ ScrollTypes' /\ (threatIPs \subseteq Addrs)' /\ AlertTypes'
             /\ Numbered(rows', pendingFlows', arrived', following')
  <2>1. ScrollTypes' /\ (threatIPs \subseteq Addrs)' /\ AlertTypes'
    BY <1>0, <1>4 DEF AddThreat, scrollVars, alertVars, ScrollTypes, AlertTypes
  <2> QED
    BY <1>4, <2>1, ThreatStep
<1>5. ASSUME NEW id \in AlertIDs, NEW severity \in Severities, AddAlert(id, severity)
      PROVE  /\ FlowTypes' /\ ScrollTypes' /\ (threatIPs \subseteq Addrs)' /\ AlertTypes'
             /\ Numbered(rows', pendingFlows', arrived', following')
  <2>1. AlertTypes'
    <3>1. TypeOK
      BY DEF TableInv
    <3>2. DOMAIN rendered' \subseteq DOMAIN rendered \cup {id}
      BY <1>5, <3>1, AddAlertForm
    <3>3. DOMAIN rendered' \subseteq AlertIDs
      BY <1>0, <3>2 DEF AlertTypes
    <3> QED
      BY <1>5, <3>1, <3>3, AddAlertForm DEF AlertTypes
  <2> QED
    BY <1>0, <1>5, <2>1 DEF AddAlert, flowVars, scrollVars, FlowTypes, ScrollTypes, Numbered
<1>6. CASE UNCHANGED vars
  BY <1>0, <1>6 DEF vars, flowVars, scrollVars, alertVars, FlowTypes, ScrollTypes, AlertTypes,
                    Numbered
<1>7. UNCHANGED alertVars => AlertTypes'
  BY <1>0 DEF alertVars, AlertTypes
<1> QED
  BY <1>0, <1>2, <1>3, <1>4, <1>5, <1>6, <1>7 DEF Next

-----------------------------------------------------------------------------
(* The theorems.                                                           *)

(* ThreatsAreMarked, for one row.                                          *)
Marked(row) ==
    \A ip \in {row.flow.src, row.flow.dst} \ LongAddrs : ip \in threatIPs => row.threat

(* ThreatsAreMarked is about each row.                                     *)
LEMMA MarkedRows == ThreatsAreMarked <=> \A i \in 1..Len(rows) : Marked(rows[i])
BY DEF ThreatsAreMarked, Marked

(* A row that is rendered is marked by the threats that are known.         *)
LEMMA RenderMarked ==
    ASSUME TableInv, ThreatsAreMarked, NEW q \in Seq(Flows), rows' = Rendered(q),
           threatIPs' = threatIPs
    PROVE  ThreatsAreMarked'
<1>1. \A i \in 1..Len(Rendered(q)) :
         \/ i \in 1..Len(q) /\ Len(q) + 1 - i \in 1..Len(q)
               /\ Rendered(q)[i] = Row(q[Len(q) + 1 - i])
         \/ Len(q) < i /\ i - Len(q) \in 1..Len(rows)
               /\ Rendered(q)[i] = rows[i - Len(q)]
  BY PendingFacts, RenderedLemma
<1>2. ASSUME NEW f PROVE Marked(Row(f))
  BY DEF Marked, Row
<1>3. \A i \in 1..Len(rows) : Marked(rows[i])
  BY MarkedRows
<1>4. \A i \in 1..Len(rows') : Marked(rows'[i])
  BY <1>1, <1>2, <1>3
<1> QED
  BY <1>4 DEF Marked, ThreatsAreMarked

(* A new threat marks the rows that show it.                               *)
LEMMA AddThreatMarked ==
    ASSUME TableInv, ThreatsAreMarked, NEW ip \in Addrs, AddThreat(ip)
    PROVE  ThreatsAreMarked'
<1>1. /\ Len(rows') = Len(rows)
      /\ \A i \in 1..Len(rows) :
            /\ rows'[i].flow = rows[i].flow
            /\ rows'[i].threat = (rows[i].threat \/ Shows(rows[i], ip))
  BY AddThreatForm DEF TableInv
<1>2. threatIPs' = threatIPs \cup {ip}
  BY DEF AddThreat
<1>3. ASSUME NEW i \in 1..Len(rows'),
             NEW a \in {rows'[i].flow.src, rows'[i].flow.dst} \ LongAddrs, a \in threatIPs'
      PROVE  rows'[i].threat
  <2>1. /\ i \in 1..Len(rows)
        /\ a \in {rows[i].flow.src, rows[i].flow.dst} \ LongAddrs
    BY <1>1
  <2>2. CASE a \in threatIPs
    <3>1. rows[i].threat
      BY <2>1, <2>2 DEF ThreatsAreMarked
    <3> QED
      BY <1>1, <2>1, <3>1
  <2>3. CASE a = ip
    <3>1. Shows(rows[i], ip)
      BY <2>1, <2>3 DEF Shows
    <3> QED
      BY <1>1, <2>1, <3>1
  <2> QED
    BY <1>2, <1>3, <2>2, <2>3
<1> QED
  BY <1>3 DEF ThreatsAreMarked

(* Every step keeps the rows marked.                                       *)
LEMMA MarkedStep ==
    ASSUME TableInv, ThreatsAreMarked, [Next]_vars
    PROVE  ThreatsAreMarked'
<1>1. ASSUME rows' = rows, threatIPs' = threatIPs PROVE ThreatsAreMarked'
  BY <1>1 DEF ThreatsAreMarked
<1>2. ASSUME threatIPs' = threatIPs, NEW q \in Seq(Flows), Renders(q) PROVE ThreatsAreMarked'
  BY <1>2, RenderMarked DEF Renders
<1>3. ASSUME NEW f \in Flows, AddFlow(f) PROVE ThreatsAreMarked'
  <2>1. threatIPs' = threatIPs /\ (Waits(f) \/ \E q \in Seq(Flows) : Renders(q))
    BY <1>3, AddFlowForm
  <2> QED
    BY <1>1, <1>2, <2>1 DEF Waits
<1>4. ASSUME HandleFlowScroll \/ PauseFlowLive \/ JumpToLive \/ \E p \in Positions : Scroll(p)
      PROVE  ThreatsAreMarked'
  <2>1. threatIPs' = threatIPs /\ (SameFlows \/ \E q \in Seq(Flows) : Renders(q))
    BY <1>4, HandlersForm
  <2> QED
    BY <1>1, <1>2, <2>1 DEF SameFlows
<1>5. ASSUME NEW ip \in Addrs, AddThreat(ip) PROVE ThreatsAreMarked'
  BY <1>5, AddThreatMarked
<1>6. ASSUME NEW id \in AlertIDs, NEW severity \in Severities, AddAlert(id, severity)
      PROVE  ThreatsAreMarked'
  BY <1>1, <1>6 DEF AddAlert, flowVars
<1>7. CASE UNCHANGED vars
  BY <1>1, <1>7 DEF vars, flowVars
<1> QED
  BY <1>3, <1>4, <1>5, <1>6, <1>7 DEF Next

(* Every step keeps the map and the list together.                         *)
LEMMA ListedStep ==
    ASSUME TableInv, AlertsAreListed, [Next]_vars
    PROVE  AlertsAreListed'
<1>1. ASSUME UNCHANGED alertVars PROVE AlertsAreListed'
  BY <1>1 DEF alertVars, AlertsAreListed
<1>2. ASSUME NEW id \in AlertIDs, NEW severity \in Severities, AddAlert(id, severity)
      PROVE  AlertsAreListed'
  BY <1>2, AddAlertKeepsList DEF TableInv
<1>3. ASSUME NEW f \in Flows, AddFlow(f) PROVE UNCHANGED alertVars
  BY <1>3, AddFlowForm
<1>4. ASSUME HandleFlowScroll \/ PauseFlowLive \/ JumpToLive \/ \E p \in Positions : Scroll(p)
      PROVE  UNCHANGED alertVars
  BY <1>4, HandlersForm
<1>5. ASSUME NEW ip \in Addrs, AddThreat(ip) PROVE UNCHANGED alertVars
  BY <1>5 DEF AddThreat, alertVars
<1>6. CASE UNCHANGED vars
  BY <1>1, <1>6 DEF vars
<1> QED
  BY <1>1, <1>2, <1>3, <1>4, <1>5, <1>6 DEF Next

(* The invariants hold when the page is loaded.                            *)
LEMMA TablesInit == Init => TableInv /\ ThreatsAreMarked /\ AlertsAreListed
<1> SUFFICES ASSUME Init PROVE TableInv /\ ThreatsAreMarked /\ AlertsAreListed
  OBVIOUS
<1>1. /\ rows = <<>> /\ pendingFlows = <<>> /\ alerts = <<>> /\ Len(<<>>) = 0
      /\ arrived = 0 /\ DOMAIN rendered = {}
  BY DEF Init
<1>2. TypeOK
  <2>1. /\ 0 \in 0..MaxArrivals /\ 0 \in Positions /\ 0 <= MaxFlows /\ 0 <= MaxPending
        /\ 0 <= MaxAlerts
    BY TablesAssumption DEF Positions
  <2>2. <<>> \in Seq(Rows) /\ <<>> \in Seq(Flows) /\ <<>> \in Seq(AlertIDs)
    OBVIOUS
  <2>3. threatIPs \subseteq Addrs /\ scrolled \in BOOLEAN /\ following \in BOOLEAN
    BY DEF Init
  <2>4. scrollTop = 0 /\ lastTop = 0
    BY DEF Init
  <2> QED
    BY <1>1, <2>1, <2>2, <2>3, <2>4 DEF TypeOK
<1>3. TableInv
  BY <1>1, <1>2 DEF TableInv
<1>4. ThreatsAreMarked
  BY <1>1 DEF ThreatsAreMarked
<1>5. AlertsAreListed
  BY <1>1 DEF AlertsAreListed, ToSet, IsInjective
<1> QED
  BY <1>3, <1>4, <1>5

(* TableInv says more than TableIsInOrder.                                 *)
LEMMA InvGivesOrder == TableInv => TableIsInOrder
<1> SUFFICES ASSUME TableInv PROVE TableIsInOrder
  OBVIOUS
<1>0. /\ pendingFlows \in Seq(Flows) /\ Len(pendingFlows) \in Nat
      /\ rows \in Seq(Rows) /\ Len(rows) \in Nat
      /\ arrived \in Nat /\ MaxFlows \in Nat \ {0} /\ MaxPending = MaxFlows
  BY PendingFacts
<1>1. ASSUME NEW i \in 1..Len(rows)
      PROVE  Shown[i] = rows[i].flow.n /\ rows[i].flow.n \in Nat
  <2>1. rows[i] \in Rows
    BY <1>0, ElementOfSeq
  <2>2. rows[i].flow.n \in 1..MaxArrivals
    BY <2>1 DEF Rows, Flows
  <2> QED
    BY <2>2, PendingFacts DEF Shown
<1>2. rows # <<>> => 1 \in 1..Len(rows)
  BY <1>0, EmptySeq
<1>3. pendingFlows # <<>> =>
         Len(pendingFlows) \in 1..Len(pendingFlows) /\ 1 \in 1..Len(pendingFlows)
  BY <1>0, EmptySeq
<1>4. \A i \in 2..Len(rows) : Shown[i] = Shown[i - 1] - 1
  <2> TAKE i \in 2..Len(rows)
  <2>1. i \in 1..Len(rows) /\ i - 1 \in 1..Len(rows) /\ rows # <<>> /\ i \in Int
    BY <1>0
  <2>2. Newest \in Nat /\ Shown[1] = Newest
    BY <1>1, <1>2, <2>1 DEF Newest
  <2>3. Shown[i] = Newest + 1 - i /\ Shown[i - 1] = Newest + 1 - (i - 1)
    BY <1>1, <2>1 DEF TableInv
  <2> QED
    BY <2>1, <2>2, <2>3
<1>5. following => pendingFlows = <<>> /\ (rows # <<>> => Shown[1] = arrived)
  <2>1. pendingFlows = <<>> => Len(pendingFlows) = 0
    OBVIOUS
  <2>2. rows # <<>> => Shown[1] = Newest
    BY <1>1, <1>2 DEF Newest
  <2>3. following => pendingFlows = <<>>
    BY DEF TableInv
  <2>4. rows # <<>> /\ Len(pendingFlows) < MaxPending => Newest = arrived - Len(pendingFlows)
    BY DEF TableInv
  <2> QED
    BY <1>0, <2>1, <2>2, <2>3, <2>4
<1>6. \A i \in 1..Len(pendingFlows) : pendingFlows[i].n = arrived - Len(pendingFlows) + i
  BY DEF TableInv
<1>7. pendingFlows # <<>> => pendingFlows[Len(pendingFlows)].n = arrived
  BY <1>0, <1>3, <1>6
<1>8. \A i \in 2..Len(pendingFlows) : pendingFlows[i].n = pendingFlows[i - 1].n + 1
  <2> TAKE i \in 2..Len(pendingFlows)
  <2>1. i \in 1..Len(pendingFlows) /\ i - 1 \in 1..Len(pendingFlows)
    BY <1>0
  <2> QED
    BY <1>0, <1>6, <2>1
<1>9. rows # <<>> /\ pendingFlows # <<>> => Shown[1] < pendingFlows[1].n
  <2> HAVE rows # <<>> /\ pendingFlows # <<>>
  <2>1. pendingFlows[1].n = arrived - Len(pendingFlows) + 1
    BY <1>3, <1>6
  <2>2. Shown[1] = Newest /\ Newest <= arrived - Len(pendingFlows) /\ Newest \in Nat
    BY <1>1, <1>2 DEF Newest, TableInv
  <2> QED
    BY <1>0, <2>1, <2>2
<1> QED
  BY <1>4, <1>5, <1>7, <1>8, <1>9 DEF TableIsInOrder

(* However flows, scroll events and clicks interleave (addFlow,            *)
(* handleFlowScroll, mergePendingFlows), the table has no gap, nothing is  *)
(* held back from a visitor who follows it, and flows are dropped only     *)
(* when the newer ones fill it.                                            *)
THEOREM TableStaysInOrder == Spec => []TableIsInOrder
<1>1. Init => TableInv
  BY TablesInit
<1>2. TableInv /\ [Next]_vars => TableInv'
  BY TableStep
<1> QED
  BY <1>1, <1>2, InvGivesOrder, PTL DEF Spec

(* A row that involves a known threat is marked whichever came first, the  *)
(* flow, the threat, or the merge of flows that waited (addEnrichment,     *)
(* renderFlow).                                                            *)
THEOREM ThreatsStayMarked == Spec => []ThreatsAreMarked
<1>1. Init => TableInv /\ ThreatsAreMarked
  BY TablesInit
<1>2. TableInv /\ ThreatsAreMarked /\ [Next]_vars => TableInv' /\ ThreatsAreMarked'
  BY TableStep, MarkedStep
<1> QED
  BY <1>1, <1>2, PTL DEF Spec

(* The map renderedAlerts and the list have the same entries, also after   *)
(* entries were cut off (addAlert): no update goes to an entry that is     *)
(* gone, and no alert is shown twice.                                      *)
THEOREM AlertsStayListed == Spec => []AlertsAreListed
<1>1. Init => TableInv /\ AlertsAreListed
  BY TablesInit
<1>2. TableInv /\ AlertsAreListed /\ [Next]_vars => TableInv' /\ AlertsAreListed'
  BY TableStep, ListedStep
<1> QED
  BY <1>1, <1>2, PTL DEF Spec
=============================================================================
