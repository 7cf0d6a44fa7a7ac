--------------------------- MODULE ScannerProofs ----------------------------
(***************************************************************************)
(* Proofs about one scan: for addresses of any width, any allowlists, any  *)
(* list of ports and any number of workers.                                *)
(*                                                                         *)
(* Where every task is can be told from the channels and the workers: the  *)
(* tasks not yet enqueued and those in the channel are the rest of the     *)
(* plan (QueueInv); what has been received has been dialled once or is     *)
(* being dialled (DialInv); what answered is with a worker, in "results"   *)
(* or listed, in one of these places and once (OpenInv). When the response *)
(* is written nothing is left but the dialled and the listed ones          *)
(* (AllIsDialled, AllIsListed).                                            *)
(*                                                                         *)
(* The functions that are defined recursively, Block and the one in Hosts, *)
(* exist and are what their definitions say by induction on an interval.   *)
(***************************************************************************)
EXTENDS Scanner, SequenceTheorems, WellFoundedInduction, NaturalsInduction, TLAPS

-----------------------------------------------------------------------------
(* The inductive invariant, and the addresses of a network.                *)

(* The tasks of the scan, in the order of the loop that enqueues them.     *)
Plan == TasksFor(ips)

(* How many of them workers have received.                                 *)
Taken == Len(Plan) - (Len(todo) + Len(tasks))

(* The checks have been passed.                                            *)
Started == pc \in {"enqueue", "collect", "done"}

(* Nothing happens before the checks, and what is scanned has passed them. *)
InputInv ==
    /\ ~Started => /\ ips = <<>> /\ todo = <<>> /\ tasks = <<>> /\ results = <<>>
                   /\ worker = [w \in Workers |-> "ready"]
                   /\ hostMap = [ip \in Addrs |-> <<>>] /\ dialled = EmptyBag /\ open = {}
    /\ Started => Validated(input) /\ Resolves(input) /\ ips = Targets(input)

(* Who may still send on which channel.                                    *)
ChannelInv ==
    /\ tasksClosed <=> pc \in {"collect", "done"}
    /\ tasksClosed => todo = <<>>
    /\ resultsClosed => tasksClosed /\ \A w \in Workers : worker[w] = "gone"
    /\ pc = "done" => resultsClosed /\ results = <<>>
    /\ \A w \in Workers : worker[w] = "gone" => tasks = <<>> /\ tasksClosed

(* The tasks that wait are the rest of the plan.                           *)
QueueInv ==
    /\ Len(todo) + Len(tasks) <= Len(Plan)
    /\ \A i \in 1..Len(todo) : todo[i] = Plan[(Len(Plan) - Len(todo)) + i]
    /\ \A i \in 1..Len(tasks) : tasks[i] = Plan[Taken + i]

(* Where a task may be.                                                    *)
Received(t) == \E i \in 1..Taken : Plan[i] = t
Dialling(t) == \E w \in Workers : worker[w] = "dialling" /\ job[w] = t
Sending(t) == \E w \in Workers : worker[w] = "sending" /\ job[w] = t
Sent(t) == \E i \in 1..Len(results) : results[i] = t
Listed(t) == \E i \in 1..Len(hostMap[t[1]]) : hostMap[t[1]][i] = t[2]

(* What was received is being dialled, or was, once.                       *)
DialInv ==
    /\ \A t \in DOMAIN dialled : dialled[t] = 1
    /\ \A t \in Tasks : Received(t) <=> t \in DOMAIN dialled \/ Dialling(t)
    /\ \A t \in Tasks : ~(t \in DOMAIN dialled /\ Dialling(t))

(* What answered is in one of three places, once.                          *)
OpenInv ==
    /\ open \subseteq DOMAIN dialled
    /\ \A t \in Tasks : t \in open <=> Sending(t) \/ Sent(t) \/ Listed(t)
    /\ \A t \in Tasks : /\ ~(Sending(t) /\ Sent(t)) /\ ~(Sending(t) /\ Listed(t))
                        /\ ~(Sent(t) /\ Listed(t))
    /\ \A i, j \in 1..Len(results) : results[i] = results[j] => i = j
    /\ \A ip \in Addrs : \A i, j \in 1..Len(hostMap[ip]) : hostMap[ip][i] = hostMap[ip][j] => i = j

(* No two workers have the same task.                                      *)
OneEach ==
    \A v, w \in Workers :
        v # w /\ worker[v] = worker[w] /\ worker[w] \in {"dialling", "sending"}
            => job[v] # job[w]

(* The inductive invariant.                                                *)
ScanInv == TypeOK /\ InputInv /\ ChannelInv /\ QueueInv /\ DialInv /\ OpenInv /\ OneEach

(* Induction over an interval, for a set.                                  *)
LEMMA IntervalInduction ==
    ASSUME NEW n \in Nat, NEW S, 0 \in S, \A i \in 0..n : i + 1 \in 0..n /\ i \in S => i + 1 \in S
    PROVE  0..n \subseteq S
<1>1. SUFFICES ASSUME (0..n) \ S # {} PROVE FALSE
  OBVIOUS
<1>2. (0..n) \ S \subseteq Nat
  OBVIOUS
<1>3. PICK m \in (0..n) \ S : \A k \in (0..n) \ S : ~ (<<k, m>> \in OpToRel(<, Nat))
  BY <1>1, <1>2, NatLessThanWellFounded, WFMin
<1>4. m - 1 \in (0..n) \ S
  OBVIOUS
<1>5. <<m - 1, m>> \in OpToRel(<, Nat)
  BY <1>4 DEF OpToRel
<1> QED
  BY <1>3, <1>4, <1>5

(* g is Block as far as n.                                                 *)
IsBlock(g, n) == g = [k \in 0..n |-> IF k = 0 THEN 1 ELSE 2 * g[k - 1]]

(* There is such a function.                                               *)
LEMMA BlockExists == \E g : IsBlock(g, Bits)
<1> DEFINE S == {n \in 0..Bits : \E g : IsBlock(g, n)}
<1>0. Bits \in Nat
  BY ScannerAssumption
<1>1. 0 \in S
  <2>1. IsBlock([k \in 0..0 |-> 1], 0)
    BY DEF IsBlock
  <2> QED
    BY <1>0, <2>1
<1>2. ASSUME NEW n \in 0..Bits, n + 1 \in 0..Bits, n \in S PROVE n + 1 \in S
  <2>1. PICK g : g = [k \in 0..n |-> IF k = 0 THEN 1 ELSE 2 * g[k - 1]]
    BY <1>2 DEF IsBlock
  <2>2. IsBlock([k \in 0..n + 1 |-> IF k = n + 1 THEN 2 * g[n] ELSE g[k]], n + 1)
    BY <2>1 DEF IsBlock
  <2> QED
    BY <1>2, <2>2
<1> HIDE DEF S
<1>3. Bits \in S
  BY <1>0, <1>1, <1>2, IntervalInduction
<1> QED
  BY <1>3 DEF S

(* Block is what its definition says.                                      *)
LEMMA BlockIs == IsBlock(Block, Bits)
BY BlockExists DEF Block, IsBlock

(* A block is not empty.                                                   *)
LEMMA BlockType == \A k \in 0..Bits : Block[k] \in Nat \ {0}
<1> DEFINE S == {k \in 0..Bits : Block[k] \in Nat \ {0}}
<1>0. Bits \in Nat
  BY ScannerAssumption
<1>1. \A k \in 0..Bits : Block[k] = IF k = 0 THEN 1 ELSE 2 * Block[k - 1]
  BY BlockIs DEF IsBlock
<1>2. 0 \in S
  BY <1>0, <1>1
<1>3. ASSUME NEW k \in 0..Bits, k + 1 \in 0..Bits, k \in S PROVE k + 1 \in S
  <2>1. Block[k + 1] = 2 * Block[k]
    BY <1>0, <1>1, <1>3
  <2> QED
    BY <1>3, <2>1
<1> HIDE DEF S
<1>4. 0..Bits \subseteq S
  BY <1>0, <1>2, <1>3, IntervalInduction
<1> QED
  BY <1>4 DEF S

(* The addresses.                                                          *)
LEMMA AddrsAre ==
    /\ Highest \in Nat /\ Block[Bits] = Highest + 1 /\ Addrs = 0..Highest
    /\ Private \subseteq Addrs /\ Highest \notin Private
<1>1. Block[Bits] \in Nat \ {0}
  BY BlockType, ScannerAssumption
<1> QED
  BY <1>1, ScannerAssumption DEF Highest, Addrs

Ascending(q) == \A i, j \in 1..Len(q) : i < j => q[i] < q[j]

(* EnumerateHosts does not wrap around in a private network, and misses no *)
(* host.                                                                   *)
LEMMA HostsOfNetwork ==
    ASSUME NEW n \in Networks, n.base \in Private, n.prefix >= MinPrefix
    PROVE  /\ EnumerateHosts(n) \in Seq(Addrs) /\ Ascending(EnumerateHosts(n))
           /\ ToSet(EnumerateHosts(n)) = Within(n) \ {n.base, LastOf(n)}
           /\ Within(n) \subseteq Private
<1>1. Within(n) \subseteq Private
  BY ScannerAssumption
<1>2. n.base \in 0..Highest /\ n.base # Highest /\ Bits - n.prefix \in 0..Bits
  BY AddrsAre, ScannerAssumption DEF Networks, PrefixLengths
<1>3. PICK b \in Nat, s \in Nat \ {0} : b = n.base /\ s = Block[Bits - n.prefix]
  BY <1>2, AddrsAre, BlockType
<1>4. LastOf(n) = b + s - 1 /\ Within(n) = b..b + s - 1
  BY <1>3 DEF LastOf, Within
<1>5. (b + 1) % Block[Bits] = b + 1
  <2>1. b + 1 \in Nat /\ b + 1 < Block[Bits] /\ Block[Bits] \in Nat
    BY <1>2, <1>3, AddrsAre
  <2> QED
    BY <2>1
<1>6. EnumerateHosts(n)
         = IF b + 1 < b + s - 1 THEN [i \in 1..(b + s - 1) - (b + 1) |-> b + 1 + i - 1] ELSE <<>>
  BY <1>3, <1>4, <1>5 DEF EnumerateHosts
<1>7. CASE b + 1 < b + s - 1
  <2> DEFINE m == (b + s - 1) - (b + 1)
  <2>1. m \in Nat /\ m = s - 2
    BY <1>7
  <2>2. EnumerateHosts(n) = [i \in 1..m |-> b + i]
    BY <1>6, <1>7
  <2> HIDE DEF m
  <2>3. \A i \in 1..m : b + i \in Within(n) /\ b + i \in Addrs
    BY <1>1, <1>4, <2>1, AddrsAre
  <2>4. EnumerateHosts(n) \in Seq(Addrs) /\ Len(EnumerateHosts(n)) = m
    BY <2>1, <2>2, <2>3
  <2>5. ToSet(EnumerateHosts(n)) = Within(n) \ {n.base, LastOf(n)}
    <3>1. ToSet(EnumerateHosts(n)) = {b + i : i \in 1..m}
      BY <2>2 DEF ToSet
    <3>2. \A x \in Within(n) \ {b, b + s - 1} : x - b \in 1..m /\ b + (x - b) = x
      BY <1>4, <2>1
    <3>3. \A i \in 1..m : b + i \in Within(n) \ {b, b + s - 1}
      BY <1>4, <2>1
    <3> QED
      BY <1>3, <1>4, <3>1, <3>2, <3>3
  <2>6. Ascending(EnumerateHosts(n))
    BY <2>1, <2>2, <2>4 DEF Ascending
  <2> QED
    BY <1>1, <2>4, <2>5, <2>6
<1>8. CASE ~(b + 1 < b + s - 1)
  <2>1. EnumerateHosts(n) = <<>>
    BY <1>6, <1>8
  <2>2. Within(n) \ {n.base, LastOf(n)} = {}
    BY <1>3, <1>4, <1>8
  <2>3. ToSet(<<>>) = {}
    BY DEF ToSet
  <2> QED
    BY <1>1, <2>1, <2>2, <2>3 DEF Ascending
<1> QED
  BY <1>7, <1>8

(* The addresses of a request that passes the checks.                      *)
LEMMA TargetsLemma ==
    ASSUME input \in Inputs, Validated(input), Resolves(input)
    PROVE  /\ Targets(input) \in Seq(Addrs) /\ Ascending(Targets(input))
           /\ ToSet(Targets(input)) \subseteq Private
           /\ input.type = "cidr" =>
                 ToSet(Targets(input)) = Within(input.net) \ {input.net.base, LastOf(input.net)}
<1>1. CASE input.type = "cidr"
  <2>1. input.net \in Networks
    BY <1>1 DEF Inputs
  <2>2. input.net.base \in Private /\ input.net.prefix >= MinPrefix
    BY <1>1 DEF Validated, Permitted
  <2> QED
    BY <1>1, <2>1, <2>2, HostsOfNetwork DEF Targets
<1>2. CASE input.type # "cidr"
  <2>1. input.type = "ip" /\ input.ip \in Private
    BY <1>2 DEF Inputs, Validated, Permitted
  <2>2. Targets(input) = <<input.ip>>
    BY <1>2 DEF Targets
  <2>3. ToSet(<<input.ip>>) = {input.ip}
    BY DEF ToSet
  <2> QED
    BY <1>2, <2>1, <2>2, <2>3, AddrsAre DEF Ascending
<1> QED
  BY <1>1, <1>2

-----------------------------------------------------------------------------
(* The tasks.                                                              *)

(* Quotient and remainder.                                                 *)
LEMMA DivMod ==
    ASSUME NEW x \in Nat, NEW y \in Nat \ {0}
    PROVE  /\ x \div y \in Nat /\ x % y \in 0..y - 1
           /\ x = (x \div y) * y + (x % y)
OBVIOUS

(* Multiplication keeps the order.                                         *)
LEMMA TimesOrder ==
    ASSUME NEW p \in Nat, NEW q \in Nat, NEW y \in Nat, p <= q
    PROVE  p * y \in Nat /\ q * y \in Nat /\ p * y <= q * y
OBVIOUS

(* The next multiple.                                                      *)
LEMMA TimesNext ==
    ASSUME NEW q \in Nat, NEW y \in Nat
    PROVE  (q + 1) * y = q * y + y
OBVIOUS

(* There is one quotient and one remainder.                                *)
LEMMA DivModOnly ==
    ASSUME NEW q \in Nat, NEW y \in Nat \ {0}, NEW r \in 0..y - 1, NEW x \in Nat, x = q * y + r
    PROVE  x \div y = q /\ x % y = r
<1>1. PICK d \in Nat, m \in 0..y - 1 : d = x \div y /\ m = x % y /\ x = d * y + m
  BY DivMod
<1>2. ~(d < q)
  <2> SUFFICES ASSUME d + 1 <= q PROVE FALSE
    OBVIOUS
  <2>1. (d + 1) * y <= q * y /\ (d + 1) * y = d * y + y
    BY TimesOrder, TimesNext
  <2>2. PICK dy \in Nat, qy \in Nat : dy = d * y /\ qy = q * y
    BY TimesOrder
  <2>3. dy + y <= qy /\ dy + m = qy + r
    BY <1>1, <2>1, <2>2
  <2> QED
    BY <2>3
<1>3. ~(q < d)
  <2> SUFFICES ASSUME q + 1 <= d PROVE FALSE
    OBVIOUS
  <2>1. (q + 1) * y <= d * y /\ (q + 1) * y = q * y + y
    BY TimesOrder, TimesNext
  <2>2. PICK dy \in Nat, qy \in Nat : dy = d * y /\ qy = q * y
    BY TimesOrder
  <2>3. qy + y <= dy /\ dy + m = qy + r
    BY <1>1, <2>1, <2>2
  <2> QED
    BY <2>3
<1>4. d = q
  BY <1>2, <1>3
<1>5. PICK qy \in Nat : qy = q * y
  BY TimesOrder
<1>6. m = r
  BY <1>1, <1>4, <1>5
<1> QED
  BY <1>1, <1>4, <1>6

(* The place of a task among those of its address.                         *)
LEMMA Split ==
    ASSUME NEW k \in Nat \ {0}, NEW l \in Nat \ {0}
    PROVE  \E q \in Nat, r \in 0..l - 1 :
              q = (k - 1) \div l /\ r = (k - 1) % l /\ k - 1 = q * l + r
<1>1. PICK x \in Nat : x = k - 1
  OBVIOUS
<1>2. x \div l \in Nat /\ x % l \in 0..l - 1 /\ x = (x \div l) * l + (x % l)
  BY DivMod
<1>3. PICK q \in Nat, r \in 0..l - 1 : q = x \div l /\ r = x % l
  BY <1>2
<1> QED
  BY <1>1, <1>2, <1>3

(* Every port of every address is one task.                                *)
LEMMA PlanLemma ==
    ASSUME NEW a \in Seq(Addrs), Ascending(a)
    PROVE  /\ TasksFor(a) \in Seq(Tasks)
           /\ \A i, j \in 1..Len(TasksFor(a)) : TasksFor(a)[i] = TasksFor(a)[j] => i = j
           /\ ToSet(TasksFor(a)) = ToSet(a) \X ToSet(Ports)
<1>1. PICK n \in Nat, l \in Nat \ {0} : n = Len(a) /\ l = Len(Ports)
  BY ScannerAssumption
<1>2. PICK m \in Nat : m = n * l
  BY TimesOrder
<1>3. TasksFor(a) = [k \in 1..m |-> <<a[((k - 1) \div l) + 1], Ports[((k - 1) % l) + 1]>>]
  BY <1>1, <1>2 DEF TasksFor
<1>4. ASSUME NEW k \in 1..m
      PROVE  ((k - 1) \div l) + 1 \in 1..n /\ ((k - 1) % l) + 1 \in 1..l
  <2>1. PICK q \in Nat, r \in 0..l - 1 : q = (k - 1) \div l /\ r = (k - 1) % l /\ k - 1 = q * l + r
    <3>1. k \in Nat \ {0}
      OBVIOUS
    <3> QED
      BY <3>1, Split, Zenon
  <2>2. ~(n <= q)
    <3> SUFFICES ASSUME n <= q PROVE FALSE
      OBVIOUS
    <3>1. m <= q * l /\ q * l \in Nat
      BY <1>2, TimesOrder
    <3>2. PICK ql \in Nat : ql = q * l
      BY <3>1
    <3> QED
      BY <2>1, <3>1, <3>2
  <2> QED
    BY <2>1, <2>2
<1>5. ToSet(a) = {a[i] : i \in 1..n} /\ ToSet(Ports) = {Ports[j] : j \in 1..l}
  BY <1>1, ScannerAssumption DEF ToSet
<1>6. \A i \in 1..n : a[i] \in Addrs
  BY <1>1
<1>7. \A k \in 1..m : TasksFor(a)[k] \in Tasks
  <2> TAKE k \in 1..m
  <2>1. PICK i \in 1..n, j \in 1..l : TasksFor(a)[k] = <<a[i], Ports[j]>>
    BY <1>3, <1>4
  <2> QED
    BY <1>5, <1>6, <2>1 DEF Tasks
<1>8. TasksFor(a) \in Seq(Tasks) /\ Len(TasksFor(a)) = m /\ DOMAIN TasksFor(a) = 1..m
  <2>1. DOMAIN TasksFor(a) = 1..m
    BY <1>3
  <2>2. TasksFor(a) = [k \in 1..m |-> TasksFor(a)[k]]
    BY <1>3
  <2>3. TasksFor(a) \in [1..m -> Tasks]
    BY <1>7, <2>2
  <2> QED
    BY <2>1, <2>3, SeqDef, LenProperties
<1>9. \A i, j \in 1..m : TasksFor(a)[i] = TasksFor(a)[j] => i = j
  <2> SUFFICES ASSUME NEW i \in 1..m, NEW j \in 1..m, TasksFor(a)[i] = TasksFor(a)[j]
               PROVE  i = j
    OBVIOUS
  <2>1. PICK q \in Nat, r \in 0..l - 1 : q = (i - 1) \div l /\ r = (i - 1) % l /\ i - 1 = q * l + r
    <3>1. i \in Nat \ {0}
      OBVIOUS
    <3> QED
      BY <3>1, Split, Zenon
  <2>2. PICK p \in Nat, s \in 0..l - 1 : p = (j - 1) \div l /\ s = (j - 1) % l /\ j - 1 = p * l + s
    <3>1. j \in Nat \ {0}
      OBVIOUS
    <3> QED
      BY <3>1, Split, Zenon
  <2>3. q + 1 \in 1..n /\ p + 1 \in 1..n /\ r + 1 \in 1..l /\ s + 1 \in 1..l
    BY <1>4, <2>1, <2>2
  <2>4. a[q + 1] = a[p + 1] /\ Ports[r + 1] = Ports[s + 1]
    <3>1. TasksFor(a)[i] = <<a[q + 1], Ports[r + 1]>> /\ TasksFor(a)[j] = <<a[p + 1], Ports[s + 1]>>
      BY <1>3, <2>1, <2>2
    <3>2. <<a[q + 1], Ports[r + 1]>> = <<a[p + 1], Ports[s + 1]>>
      BY <3>1
    <3> QED
      BY <3>2
  <2>5. q = p
    <3>1. ~(q + 1 < p + 1) /\ ~(p + 1 < q + 1)
      <4>1. a[q + 1] \in Nat
        BY <1>6, <2>3, AddrsAre
      <4> QED
        BY <1>1, <2>3, <2>4, <4>1 DEF Ascending
    <3> QED
      BY <3>1
  <2>6. r = s
    <3>1. DOMAIN Ports = 1..l
      BY <1>1, ScannerAssumption
    <3>2. r + 1 = s + 1
      BY <2>3, <2>4, <3>1, ScannerAssumption DEF IsInjective
    <3> QED
      BY <3>2
  <2>7. PICK ql \in Nat : ql = q * l
    BY TimesOrder
  <2> QED
    BY <2>1, <2>2, <2>5, <2>6, <2>7
<1>10. ToSet(TasksFor(a)) = ToSet(a) \X ToSet(Ports)
  <2>1. ToSet(TasksFor(a)) = {TasksFor(a)[k] : k \in 1..m}
    BY <1>8 DEF ToSet
  <2>2. \A k \in 1..m : TasksFor(a)[k] \in ToSet(a) \X ToSet(Ports)
    BY <1>3, <1>4, <1>5
  <2>3. ASSUME NEW i \in 1..n, NEW j \in 1..l
        PROVE  \E k \in 1..m : TasksFor(a)[k] = <<a[i], Ports[j]>>
    <3>1. PICK p \in Nat, r \in 0..l - 1 : p = i - 1 /\ r = j - 1
      OBVIOUS
    <3>2. PICK pl \in Nat, x \in Nat : pl = p * l /\ x = pl + r
      BY TimesOrder
    <3>3. x \div l = p /\ x % l = r
      BY <3>2, DivModOnly
    <3>4. x + 1 \in 1..m
      <4>1. (p + 1) * l = pl + l
        BY <3>2, TimesNext
      <4>2. p + 1 <= n /\ p + 1 \in Nat
        BY <3>1
      <4>3. (p + 1) * l <= m
        BY <1>2, <4>2, TimesOrder
      <4> QED
        BY <3>2, <4>1, <4>3
    <3>5. (x + 1) - 1 = x /\ p + 1 = i /\ r + 1 = j
      BY <3>1
    <3>6. TasksFor(a)[x + 1] = <<a[(((x + 1) - 1) \div l) + 1], Ports[(((x + 1) - 1) % l) + 1]>>
      BY <1>3, <3>4
    <3>7. TasksFor(a)[x + 1] = <<a[i], Ports[j]>>
      BY <3>3, <3>5, <3>6
    <3> QED
      BY <3>4, <3>7
  <2>4. \A k \in 1..m : TasksFor(a)[k] \in {TasksFor(a)[h] : h \in 1..m}
    OBVIOUS
  <2>5. ASSUME NEW t \in ToSet(a) \X ToSet(Ports) PROVE t \in {TasksFor(a)[k] : k \in 1..m}
    <3>1. PICK i \in 1..n, j \in 1..l : t = <<a[i], Ports[j]>>
      BY <1>5
    <3> QED
      BY <2>3, <3>1
  <2> QED
    BY <2>1, <2>2, <2>5
<1> QED
  BY <1>8, <1>9, <1>10

-----------------------------------------------------------------------------
(* The hosts of the response.                                              *)

(* g lists the hosts of the first addresses, as far as the n-th.           *)
IsUpTo(g, n) ==
    g = [i \in 0..n |->
            IF i = 0 THEN <<>>
            ELSE IF hostMap[ips[i]] = <<>> THEN g[i - 1]
            ELSE Append(g[i - 1], [ip |-> ips[i], ports |-> hostMap[ips[i]]])]

(* There is such a function.                                               *)
LEMMA UpToExists ==
    ASSUME NEW m \in Nat
    PROVE  \E g : IsUpTo(g, m)
<1> DEFINE S == {n \in 0..m : \E g : IsUpTo(g, n)}
<1>1. 0 \in S
  <2>1. IsUpTo([i \in 0..0 |-> <<>>], 0)
    BY DEF IsUpTo
  <2> QED
    BY <2>1
<1>2. ASSUME NEW n \in 0..m, n + 1 \in 0..m, n \in S PROVE n + 1 \in S
  <2>1. PICK g : g = [i \in 0..n |->
            IF i = 0 THEN <<>>
            ELSE IF hostMap[ips[i]] = <<>> THEN g[i - 1]
            ELSE Append(g[i - 1], [ip |-> ips[i], ports |-> hostMap[ips[i]]])]
    BY <1>2 DEF IsUpTo
  <2> DEFINE next == IF hostMap[ips[n + 1]] = <<>> THEN g[n]
                     ELSE Append(g[n], [ip |-> ips[n + 1], ports |-> hostMap[ips[n + 1]]])
             e == [i \in 0..n + 1 |-> IF i = n + 1 THEN next ELSE g[i]]
  <2>2. /\ e = [i \in 0..n + 1 |-> e[i]] /\ e[n + 1] = next /\ e[n] = g[n]
        /\ \A i \in 0..n : e[i] = g[i] /\ (i # 0 => e[i - 1] = g[i - 1])
    OBVIOUS
  <2>3. \A i \in 0..n : g[i] = IF i = 0 THEN <<>>
                               ELSE IF hostMap[ips[i]] = <<>> THEN g[i - 1]
                               ELSE Append(g[i - 1], [ip |-> ips[i], ports |-> hostMap[ips[i]]])
    BY <2>1
  <2> HIDE DEF e
  <2>4. \A i \in 0..n : e[i] = IF i = 0 THEN <<>>
                               ELSE IF hostMap[ips[i]] = <<>> THEN e[i - 1]
                               ELSE Append(e[i - 1], [ip |-> ips[i], ports |-> hostMap[ips[i]]])
    BY <2>2, <2>3
  <2>5. e[n + 1] = IF hostMap[ips[n + 1]] = <<>> THEN e[(n + 1) - 1]
                   ELSE Append(e[(n + 1) - 1], [ip |-> ips[n + 1], ports |-> hostMap[ips[n + 1]]])
    BY <2>2
  <2>6. \A i \in 0..n + 1 : e[i] = IF i = 0 THEN <<>>
                                   ELSE IF hostMap[ips[i]] = <<>> THEN e[i - 1]
                                   ELSE Append(e[i - 1], [ip |-> ips[i], ports |-> hostMap[ips[i]]])
    <3> TAKE i \in 0..n + 1
    <3>1. CASE i \in 0..n
      BY <2>4, <3>1
    <3>2. CASE i = n + 1
      BY <2>5, <3>2
    <3> QED
      BY <3>1, <3>2
  <2>7. IsUpTo(e, n + 1)
    BY <2>2, <2>6 DEF IsUpTo
  <2> QED
    BY <1>2, <2>7
<1> HIDE DEF S
<1>3. m \in S
  BY <1>1, <1>2, IntervalInduction
<1> QED
  BY <1>3 DEF S

(* The entries of "hosts".                                                 *)
HostRecords == [ip : Addrs, ports : Seq(ToSet(Ports))]

(* h lists the first n addresses of ips, those with an open port.          *)
Listing(h, n) ==
    /\ h \in Seq(HostRecords)
    /\ \A i \in 1..Len(h) :
          h[i].ports = hostMap[h[i].ip] /\ \E k \in 1..n : h[i].ip = ips[k]
    /\ \A k \in 1..n : hostMap[ips[k]] # <<>> => \E i \in 1..Len(h) : h[i].ip = ips[k]
    /\ \A i, j \in 1..Len(h) : i < j => h[i].ip < h[j].ip

(* One more address.                                                       *)
LEMMA NextHost ==
    ASSUME ips \in Seq(Addrs), Ascending(ips), hostMap \in [Addrs -> Seq(ToSet(Ports))],
           NEW n \in Nat, n + 1 <= Len(ips), NEW h, Listing(h, n)
    PROVE  Listing(IF hostMap[ips[n + 1]] = <<>> THEN h
                   ELSE Append(h, [ip |-> ips[n + 1], ports |-> hostMap[ips[n + 1]]]), n + 1)
<1>0. /\ h \in Seq(HostRecords) /\ Len(h) \in Nat
      /\ \A i \in 1..Len(h) :
            h[i].ports = hostMap[h[i].ip] /\ \E k \in 1..n : h[i].ip = ips[k]
      /\ \A k \in 1..n : hostMap[ips[k]] # <<>> => \E i \in 1..Len(h) : h[i].ip = ips[k]
      /\ \A i, j \in 1..Len(h) : i < j => h[i].ip < h[j].ip
  <2>1. h \in Seq(HostRecords)
    BY DEF Listing
  <2>2. Len(h) \in Nat
    BY <2>1
  <2> QED
    BY <2>1, <2>2 DEF Listing
<1>1. Len(ips) \in Nat /\ n + 1 \in 1..Len(ips) /\ ips[n + 1] \in Addrs
  OBVIOUS
<1>2. CASE hostMap[ips[n + 1]] = <<>>
  <2>1. Listing(h, n + 1)
    BY <1>0, <1>2 DEF Listing
  <2> QED
    BY <1>2, <2>1
<1>3. CASE hostMap[ips[n + 1]] # <<>>
  <2> DEFINE x == [ip |-> ips[n + 1], ports |-> hostMap[ips[n + 1]]]
             e == Append(h, x)
  <2>1. x \in HostRecords /\ x.ip = ips[n + 1] /\ x.ports = hostMap[ips[n + 1]]
    BY <1>1 DEF HostRecords
  <2> HIDE DEF x
  <2>2. /\ e \in Seq(HostRecords) /\ Len(e) = Len(h) + 1 /\ e[Len(h) + 1] = x
        /\ \A i \in 1..Len(h) : e[i] = h[i]
    BY <1>0, <2>1
  <2> HIDE DEF e
  <2>3. \A i \in 1..Len(e) : i = Len(h) + 1 \/ i \in 1..Len(h)
    BY <1>0, <2>2
  <2>4. ASSUME NEW i \in 1..Len(e)
        PROVE  e[i].ports = hostMap[e[i].ip] /\ \E k \in 1..n + 1 : e[i].ip = ips[k]
    <3>1. CASE i = Len(h) + 1
      BY <2>1, <2>2, <3>1
    <3>2. CASE i \in 1..Len(h)
      <4>1. e[i] = h[i]
        BY <2>2, <3>2
      <4>2. h[i].ports = hostMap[h[i].ip] /\ \E k \in 1..n : h[i].ip = ips[k]
        BY <1>0, <3>2
      <4>3. 1..n \subseteq 1..n + 1
        OBVIOUS
      <4> QED
        BY <4>1, <4>2, <4>3
    <3> QED
      BY <2>3, <3>1, <3>2
  <2>5. ASSUME NEW k \in 1..n + 1, hostMap[ips[k]] # <<>>
        PROVE  \E i \in 1..Len(e) : e[i].ip = ips[k]
    <3>1. CASE k = n + 1
      <4>1. Len(h) + 1 \in 1..Len(e) /\ e[Len(h) + 1].ip = ips[k]
        BY <1>0, <2>1, <2>2, <3>1
      <4> QED
        BY <4>1
    <3>2. CASE k \in 1..n
      <4>1. PICK i \in 1..Len(h) : h[i].ip = ips[k]
        BY <1>0, <2>5, <3>2
      <4> QED
        <5>1. i \in 1..Len(e) /\ e[i].ip = ips[k]
          BY <1>0, <2>2, <4>1
        <5> QED
          BY <5>1
    <3> QED
      BY <3>1, <3>2
  <2>6. ASSUME NEW i \in 1..Len(e), NEW j \in 1..Len(e), i < j
        PROVE  e[i].ip < e[j].ip
    <3>1. i \in 1..Len(h) /\ e[i] = h[i]
      BY <1>0, <2>2, <2>6
    <3>2. CASE j = Len(h) + 1
      <4>1. PICK k \in 1..n : h[i].ip = ips[k]
        BY <1>0, <3>1
      <4>2. ips[k] < ips[n + 1]
        BY <1>1 DEF Ascending
      <4> QED
        BY <2>1, <2>2, <3>1, <3>2, <4>1, <4>2
    <3>3. CASE j \in 1..Len(h)
      BY <1>0, <2>2, <2>6, <3>1, <3>3
    <3> QED
      BY <2>3, <3>2, <3>3
  <2>7. Listing(e, n + 1)
    BY <2>2, <2>4, <2>5, <2>6 DEF Listing
  <2> QED
    BY <1>3, <2>7 DEF e, x
<1> QED
  BY <1>2, <1>3

(* Hosts lists them all.                                                   *)
LEMMA HostsLemma ==
    ASSUME ips \in Seq(Addrs), Ascending(ips), hostMap \in [Addrs -> Seq(ToSet(Ports))]
    PROVE  Listing(Hosts, Len(ips))
<1> DEFINE g == CHOOSE f : IsUpTo(f, Len(ips))
           S == {n \in 0..Len(ips) : Listing(g[n], n)}
<1>0. Len(ips) \in Nat /\ 0 \in 0..Len(ips) /\ Len(ips) \in 0..Len(ips)
  OBVIOUS
<1>1. IsUpTo(g, Len(ips))
  BY <1>0, UpToExists
<1>2. Hosts = g[Len(ips)]
  BY DEF Hosts, IsUpTo
<1> HIDE DEF g
<1>3. \A i \in 0..Len(ips) : g[i] = IF i = 0 THEN <<>>
            ELSE IF hostMap[ips[i]] = <<>> THEN g[i - 1]
            ELSE Append(g[i - 1], [ip |-> ips[i], ports |-> hostMap[ips[i]]])
  BY <1>1 DEF IsUpTo
<1>4. 0 \in S
  <2>1. g[0] = <<>>
    BY <1>0, <1>3
  <2>2. Listing(<<>>, 0)
    BY DEF Listing
  <2> QED
    BY <1>0, <2>1, <2>2
<1>5. ASSUME NEW n \in 0..Len(ips), n + 1 \in 0..Len(ips), n \in S PROVE n + 1 \in S
  <2>1. g[n + 1] = IF hostMap[ips[n + 1]] = <<>> THEN g[n]
                   ELSE Append(g[n], [ip |-> ips[n + 1], ports |-> hostMap[ips[n + 1]]])
    BY <1>0, <1>3, <1>5
  <2>2. n \in Nat /\ n + 1 <= Len(ips) /\ Listing(g[n], n)
    BY <1>0, <1>5
  <2>3. Listing(g[n + 1], n + 1)
    BY <2>1, <2>2, NextHost
  <2> QED
    BY <1>5, <2>3
<1> HIDE DEF S
<1>6. Len(ips) \in S
  BY <1>0, <1>4, <1>5, IntervalInduction
<1> QED
  BY <1>2, <1>6 DEF S

-----------------------------------------------------------------------------
(* The steps that move no task.                                            *)

(* The plan under the invariant.                                           *)
LEMMA PlanIs ==
    ASSUME TypeOK, InputInv
    PROVE  /\ Ascending(ips) /\ ToSet(ips) \subseteq Private
           /\ Plan \in Seq(Tasks) /\ Len(Plan) \in Nat
           /\ \A i, j \in 1..Len(Plan) : Plan[i] = Plan[j] => i = j
           /\ ToSet(Plan) = ToSet(ips) \X ToSet(Ports)
<1>1. ips \in Seq(Addrs) /\ input \in Inputs
  BY DEF TypeOK
<1>2. Ascending(ips) /\ ToSet(ips) \subseteq Private
  <2>1. CASE Started
    BY <1>1, <2>1, TargetsLemma DEF InputInv
  <2>2. CASE ~Started
    <3>1. ips = <<>>
      BY <2>2 DEF InputInv
    <3> QED
      BY <3>1 DEF Ascending, ToSet
  <2> QED
    BY <2>1, <2>2
<1>3. /\ Plan \in Seq(Tasks)
      /\ \A i, j \in 1..Len(Plan) : Plan[i] = Plan[j] => i = j
      /\ ToSet(Plan) = ToSet(ips) \X ToSet(Ports)
  BY <1>1, <1>2, PlanLemma DEF Plan
<1> QED
  BY <1>2, <1>3

(* One more dial.                                                          *)
LEMMA DialledOnce ==
    ASSUME NEW t
    PROVE  /\ DOMAIN (dialled (+) SetToBag({t})) = DOMAIN dialled \cup {t}
           /\ IsABag(dialled) => IsABag(dialled (+) SetToBag({t}))
           /\ \A s \in DOMAIN dialled : s # t => (dialled (+) SetToBag({t}))[s] = dialled[s] + 0
           /\ t \notin DOMAIN dialled => (dialled (+) SetToBag({t}))[t] = 0 + 1
<1>1. SetToBag({t}) = [e \in {t} |-> 1]
  BY DEF SetToBag
<1>2. dialled (+) SetToBag({t})
        = [e \in DOMAIN dialled \cup {t} |->
             (IF e \in DOMAIN dialled THEN dialled[e] ELSE 0) + (IF e \in {t} THEN 1 ELSE 0)]
  BY <1>1 DEF (+)
<1>3. ASSUME IsABag(dialled) PROVE IsABag(dialled (+) SetToBag({t}))
  <2>1. \A e \in DOMAIN dialled : dialled[e] \in Nat /\ dialled[e] > 0
    BY <1>3 DEF IsABag
  <2>2. \A e \in DOMAIN dialled \cup {t} :
           (IF e \in DOMAIN dialled THEN dialled[e] ELSE 0) + (IF e \in {t} THEN 1 ELSE 0)
              \in {n \in Nat : n > 0}
    BY <2>1
  <2> QED
    BY <1>2, <2>2 DEF IsABag
<1> QED
  BY <1>2, <1>3

(* ScanInv holds at first.                                                 *)
LEMMA InitScanInv == ASSUME Init PROVE ScanInv
<1>1. Plan = <<>>
  <2>1. ips = <<>> /\ 1..Len(ips) * Len(Ports) = {}
    BY ScannerAssumption DEF Init
  <2> QED
    BY <2>1 DEF Plan, TasksFor
<1>2. TypeOK
  <2>1. IsABag(EmptyBag) /\ BagToSet(EmptyBag) = {}
    BY DEF IsABag, EmptyBag, BagToSet, SetToBag
  <2>2. /\ allowed \in Allowlists /\ input \in Inputs /\ pc = "idle"
        /\ ips = <<>> /\ todo = <<>> /\ tasks = <<>> /\ results = <<>> /\ open = {}
        /\ tasksClosed = FALSE /\ resultsClosed = FALSE /\ dialled = EmptyBag
    BY DEF Init
  <2>3. /\ worker \in [Workers -> {"ready", "dialling", "sending", "gone"}]
        /\ job \in [Workers -> Tasks \cup {<<>>}]
        /\ \A w \in Workers : worker[w] = "ready" /\ job[w] = <<>>
    BY DEF Init
  <2>4. hostMap \in [Addrs -> Seq(ToSet(Ports))]
    BY DEF Init
  <2>5. /\ ips \in Seq(Addrs) /\ todo \in Seq(Tasks) /\ tasks \in Seq(Tasks)
        /\ results \in Seq(Tasks) /\ open \subseteq Tasks
    BY <2>2
  <2>6. \A w \in Workers : worker[w] \in {"dialling", "sending"} <=> job[w] # <<>>
    BY <2>3
  <2>7. IsABag(dialled) /\ BagToSet(dialled) \subseteq Tasks
    BY <2>1, <2>2
  <2> QED
    BY <2>2, <2>3, <2>4, <2>5, <2>6, <2>7 DEF TypeOK
<1>3. InputInv
  BY DEF Init, InputInv, Started
<1>4. ChannelInv
  BY DEF Init, ChannelInv
<1>5. QueueInv
  BY <1>1 DEF Init, QueueInv, Taken
<1>6. DialInv
  <2>1. DOMAIN dialled = {}
    BY DEF Init, EmptyBag, SetToBag
  <2>2. ~\E i \in 1..Taken : TRUE
    BY <1>1 DEF Init, Taken
  <2> QED
    BY <2>1, <2>2 DEF Init, DialInv, Received, Dialling
<1>7. OpenInv /\ OneEach
  <2>1. \A ip \in Addrs : hostMap[ip] = <<>>
    BY DEF Init
  <2>2. \A t \in Tasks : t[1] \in Addrs
    BY DEF Tasks
  <2> QED
    BY <2>1, <2>2 DEF Init, OpenInv, OneEach, Sending, Sent, Listed
<1> QED
  BY <1>2, <1>3, <1>4, <1>5, <1>6, <1>7 DEF ScanInv

(* A scan that begins keeps ScanInv.                                       *)
LEMMA ScanStep == ASSUME ScanInv, Scan PROVE ScanInv'
<1>0. /\ ~Started /\ TypeOK /\ InputInv /\ Started'
      /\ UNCHANGED <<allowed, input, tasks, results, worker, job, hostMap, dialled, open>>
      /\ tasksClosed' = tasksClosed /\ resultsClosed' = resultsClosed
      /\ ips' = Targets(input) /\ todo' = Plan' /\ pc = "idle" /\ pc' = "enqueue"
      /\ ChannelInv /\ DialInv /\ OpenInv /\ OneEach
  BY DEF ScanInv, Scan, Started, scanVars, Plan
<1>1. Validated(input) /\ Resolves(input) /\ input \in Inputs
  BY DEF Scan, ScanInv, TypeOK
<1>2. ips' \in Seq(Addrs) /\ Ascending(ips')
  BY <1>0, <1>1, TargetsLemma
<1>3. Plan' \in Seq(Tasks)
  <2>1. Plan' = TasksFor(ips')
    BY DEF Plan
  <2> QED
    BY <1>2, <2>1, PlanLemma
<1>4. TypeOK'
  BY <1>0, <1>2, <1>3 DEF TypeOK
<1>5. InputInv'
  BY <1>0, <1>1 DEF InputInv, Validated, Resolves, Permitted, WithinAllowed, Targets
<1>6. ChannelInv'
  BY <1>0 DEF ChannelInv, InputInv
<1>7. tasks = <<>> /\ results = <<>> /\ worker = [w \in Workers |-> "ready"]
      /\ DOMAIN dialled = {}
  BY <1>0 DEF InputInv, EmptyBag, SetToBag
<1>8. QueueInv' /\ Taken' = 0
  <2>1. /\ Len(todo') = Len(Plan') /\ Len(Plan') \in Nat /\ Len(tasks') = 0
        /\ \A i \in 1..Len(todo') : todo'[i] = Plan'[(Len(Plan') - Len(todo')) + i]
    BY <1>0, <1>3, <1>7
  <2> QED
    BY <2>1 DEF QueueInv, Taken
<1>9. DialInv'
  BY <1>0, <1>7, <1>8 DEF DialInv, Received, Dialling
<1>10. OpenInv' /\ OneEach'
  BY <1>0 DEF OpenInv, OneEach, Sending, Sent, Listed
<1> QED
  BY <1>4, <1>5, <1>6, <1>8, <1>9, <1>10 DEF ScanInv

(* The tasks stay where they are.                                          *)
SameTasks == UNCHANGED <<scanVars, todo, tasks>>
SameWork == UNCHANGED <<results, hostMap, dialled, open, job>>

(* Then so does the plan.                                                  *)
LEMMA SamePlan ==
    ASSUME QueueInv, SameTasks
    PROVE  QueueInv' /\ Taken' = Taken /\ Plan' = Plan
<1>1. ips' = ips /\ todo' = todo /\ tasks' = tasks
  BY DEF SameTasks, scanVars
<1>2. Plan' = Plan
  BY <1>1 DEF Plan
<1>3. Taken' = Taken
  BY <1>1, <1>2 DEF Taken
<1> QED
  BY <1>1, <1>2, <1>3 DEF QueueInv

(* And the request.                                                        *)
LEMMA SameInput ==
    ASSUME InputInv, scanVars' = scanVars, Started, Started'
    PROVE  InputInv'
BY DEF InputInv, scanVars, Validated, Resolves, Permitted, WithinAllowed, Targets

(* The steps that close a channel, leave or respond.                       *)
LEMMA ControlStep ==
    ASSUME ScanInv, CloseTasks \/ CloseResults \/ Respond \/ \E w \in Workers : Leave(w)
    PROVE  ScanInv'
<1>0. TypeOK /\ InputInv /\ ChannelInv /\ QueueInv /\ DialInv /\ OpenInv /\ OneEach
  BY DEF ScanInv
<1>1. SameTasks /\ SameWork /\ scanVars' = scanVars
  BY DEF CloseTasks, CloseResults, Respond, Leave, SameTasks, SameWork
<1>2. Started /\ Started'
  <2>1. CASE CloseTasks \/ CloseResults \/ Respond
    BY <2>1 DEF CloseTasks, CloseResults, Respond, Started
  <2>2. CASE \E w \in Workers : Leave(w)
    BY <1>0, <2>2 DEF Leave, NoMoreTasks, Started, ChannelInv
  <2> QED
    BY <2>1, <2>2
<1>3. \A w \in Workers :
         worker'[w] \in {"dialling", "sending"} \/ worker[w] \in {"dialling", "sending"}
            => worker'[w] = worker[w]
  <2>1. CASE CloseTasks \/ CloseResults \/ Respond
    BY <2>1 DEF CloseTasks, CloseResults, Respond
  <2>2. CASE \E w \in Workers : Leave(w)
    BY <1>0, <2>2 DEF Leave, TypeOK
  <2> QED
    BY <2>1, <2>2
<1>4. TypeOK'
  <2>1. CASE CloseTasks \/ CloseResults \/ Respond
    BY <1>0, <2>1 DEF CloseTasks, CloseResults, Respond, TypeOK, scanVars
  <2>2. ASSUME NEW w \in Workers, Leave(w) PROVE TypeOK'
    BY <1>0, <2>2 DEF Leave, TypeOK, scanVars
  <2> QED
    BY <2>1, <2>2
<1>5. InputInv'
  BY <1>0, <1>1, <1>2, SameInput
<1>6. ChannelInv'
  <2>1. CASE CloseTasks
    BY <1>0, <2>1 DEF CloseTasks, ChannelInv
  <2>2. CASE CloseResults
    BY <1>0, <2>2 DEF CloseResults, ChannelInv, AllAreDone
  <2>3. CASE Respond
    BY <1>0, <2>3 DEF Respond, ChannelInv
  <2>4. ASSUME NEW w \in Workers, Leave(w) PROVE ChannelInv'
    BY <1>0, <2>4 DEF Leave, NoMoreTasks, ChannelInv, TypeOK
  <2> QED
    BY <2>1, <2>2, <2>3, <2>4
<1>7. QueueInv' /\ Taken' = Taken /\ Plan' = Plan
  BY <1>0, <1>1, SamePlan
<1>8. \A t : /\ (Dialling(t)' <=> Dialling(t)) /\ (Sending(t)' <=> Sending(t))
             /\ (Received(t)' <=> Received(t))
             /\ (Sent(t)' <=> Sent(t)) /\ (Listed(t)' <=> Listed(t))
  BY <1>1, <1>3, <1>7 DEF Dialling, Sending, Received, Sent, Listed, SameWork
<1>9. DialInv'
  BY <1>0, <1>1, <1>8 DEF DialInv, SameWork
<1>10. OpenInv'
  BY <1>0, <1>1, <1>8 DEF OpenInv, SameWork
<1>11. OneEach'
  BY <1>0, <1>1, <1>3 DEF OneEach, SameWork
<1> QED
  BY <1>4, <1>5, <1>6, <1>7, <1>9, <1>10, <1>11 DEF ScanInv

(* A refused request, and no step at all.                                  *)
LEMMA StutterStep ==
    ASSUME ScanInv, Refuse \/ UNCHANGED vars
    PROVE  ScanInv'
<1>0. TypeOK /\ InputInv /\ ChannelInv /\ QueueInv /\ DialInv /\ OpenInv /\ OneEach
  BY DEF ScanInv
<1>1. /\ UNCHANGED <<allowed, input, ips, todo, tasks, tasksClosed, results, resultsClosed,
                     worker, job, hostMap, dialled, open>>
      /\ pc' = pc \/ (pc = "idle" /\ pc' = "refused")
  <2>1. CASE Refuse
    BY <2>1 DEF Refuse, scanVars
  <2>2. CASE UNCHANGED vars
    BY <2>2 DEF vars, scanVars
  <2> QED
    BY <2>1, <2>2
<1>2. TypeOK'
  BY <1>0, <1>1 DEF TypeOK
<1>3. InputInv'
  BY <1>0, <1>1 DEF InputInv, Started, Validated, Resolves, Permitted, WithinAllowed, Targets
<1>4. ChannelInv'
  BY <1>0, <1>1 DEF ChannelInv
<1>5. Plan' = Plan /\ Taken' = Taken
  BY <1>1 DEF Plan, Taken
<1>6. QueueInv'
  BY <1>0, <1>1, <1>5 DEF QueueInv
<1>7. DialInv'
  BY <1>0, <1>1, <1>5 DEF DialInv, Received, Dialling
<1>8. OpenInv' /\ OneEach'
  BY <1>0, <1>1 DEF OpenInv, OneEach, Sending, Sent, Listed
<1> QED
  BY <1>2, <1>3, <1>4, <1>6, <1>7, <1>8 DEF ScanInv

-----------------------------------------------------------------------------
(* The channel of the tasks.                                               *)

(* A task is an address with a port.                                       *)
LEMMA TaskIs ==
    \A t \in Tasks :
        t = <<t[1], t[2]>> /\ t[1] \in Addrs /\ t[2] \in ToSet(Ports) /\ t # <<>>
BY DEF Tasks

(* A task is moved to the end of the channel.                              *)
LEMMA EnqueueStep == ASSUME ScanInv, Enqueue PROVE ScanInv'
<1>0. TypeOK /\ InputInv /\ ChannelInv /\ QueueInv /\ DialInv /\ OpenInv /\ OneEach
  BY DEF ScanInv
<1>1. /\ pc = "enqueue" /\ todo # <<>> /\ tasks' = Append(tasks, Head(todo)) /\ todo' = Tail(todo)
      /\ UNCHANGED <<allowed, input, ips, pc, tasksClosed, results, resultsClosed, worker, job,
                     hostMap, dialled, open>>
  BY DEF Enqueue, scanVars
<1>2. PICK p \in Seq(Tasks) : p = Plan
  BY <1>0, PlanIs
<1>3. Plan' = p
  BY <1>1, <1>2 DEF Plan
<1>4. PICK n \in Nat, m \in Nat : n = Len(todo) /\ m = Len(tasks) /\ n > 0
  BY <1>0, <1>1 DEF TypeOK
<1>5. /\ todo' \in Seq(Tasks) /\ tasks' \in Seq(Tasks)
      /\ Len(todo') = n - 1 /\ Len(tasks') = m + 1
      /\ \A i \in 1..n - 1 : todo'[i] = todo[i + 1]
      /\ \A i \in 1..m : tasks'[i] = tasks[i]
      /\ tasks'[m + 1] = todo[1]
  <2>1. todo \in Seq(Tasks) /\ tasks \in Seq(Tasks) /\ Head(todo) \in Tasks /\ Head(todo) = todo[1]
    BY <1>0, <1>1 DEF TypeOK
  <2> QED
    BY <1>1, <1>4, <2>1
<1>6. Taken = Len(p) - (n + m) /\ Taken' = Taken /\ n + m <= Len(p)
  BY <1>0, <1>2, <1>3, <1>4, <1>5 DEF Taken, QueueInv
<1>7. QueueInv'
  <2>1. ASSUME NEW i \in 1..n - 1 PROVE todo'[i] = p[(Len(p) - (n - 1)) + i]
    <3>1. i + 1 \in 1..n /\ todo'[i] = todo[i + 1]
      BY <1>5
    <3>2. todo[i + 1] = p[(Len(p) - n) + (i + 1)]
      BY <1>0, <1>2, <1>4, <3>1 DEF QueueInv
    <3>3. (Len(p) - n) + (i + 1) = (Len(p) - (n - 1)) + i
      OBVIOUS
    <3> QED
      BY <3>1, <3>2, <3>3
  <2>2. ASSUME NEW i \in 1..m + 1 PROVE tasks'[i] = p[Taken + i]
    <3>1. CASE i \in 1..m
      BY <1>0, <1>2, <1>4, <1>5, <3>1 DEF QueueInv
    <3>2. CASE i = m + 1
      <4>1. 1 \in 1..n /\ todo[1] = p[(Len(p) - n) + 1]
        BY <1>0, <1>2, <1>4 DEF QueueInv
      <4>2. (Len(p) - n) + 1 = Taken + i
        BY <1>6, <3>2
      <4> QED
        BY <1>5, <3>2, <4>1, <4>2
    <3> QED
      BY <3>1, <3>2
  <2> QED
    BY <1>3, <1>5, <1>6, <2>1, <2>2 DEF QueueInv
<1>8. TypeOK'
  BY <1>0, <1>1, <1>5 DEF TypeOK
<1>9. InputInv'
  BY <1>0, <1>1, SameInput DEF Started, scanVars
<1>10. ChannelInv'
  BY <1>0, <1>1 DEF ChannelInv
<1>11. DialInv'
  BY <1>0, <1>1, <1>2, <1>3, <1>6 DEF DialInv, Received, Dialling
<1>12. OpenInv' /\ OneEach'
  BY <1>0, <1>1 DEF OpenInv, OneEach, Sending, Sent, Listed
<1> QED
  BY <1>7, <1>8, <1>9, <1>10, <1>11, <1>12 DEF ScanInv

(* Workers have nothing to do before a scan.                               *)
LEMMA WorkersAre ==
    ASSUME TypeOK, ChannelInv, InputInv
    PROVE  (tasks # <<>> \/ \E w \in Workers : worker[w] # "ready") => Started
<1>1. SUFFICES ASSUME ~Started PROVE tasks = <<>> /\ \A w \in Workers : worker[w] = "ready"
  OBVIOUS
<1> QED
  BY <1>1 DEF InputInv

(* The next task of the plan is received: nobody has it yet.               *)
LEMMA ReceiveStep == ASSUME ScanInv, NEW w \in Workers, Receive(w) PROVE ScanInv'
<1>0. TypeOK /\ InputInv /\ ChannelInv /\ QueueInv /\ DialInv /\ OpenInv /\ OneEach
  BY DEF ScanInv
<1>1. /\ worker[w] = "ready" /\ tasks # <<>> /\ tasks' = Tail(tasks)
      /\ job' = [job EXCEPT ![w] = Head(tasks)]
      /\ worker' = [worker EXCEPT ![w] = "dialling"]
      /\ UNCHANGED <<allowed, input, ips, pc, todo, tasksClosed, results, resultsClosed,
                     hostMap, dialled, open>>
  BY DEF Receive, scanVars
<1>2. PICK p \in Seq(Tasks) : p = Plan /\ \A i, j \in 1..Len(p) : p[i] = p[j] => i = j
  BY <1>0, PlanIs
<1>3. Plan' = p
  BY <1>1, <1>2 DEF Plan
<1>4. PICK n \in Nat, m \in Nat : n = Len(todo) /\ m = Len(tasks) /\ m > 0
  BY <1>0, <1>1 DEF TypeOK
<1>5. /\ tasks' \in Seq(Tasks) /\ Len(tasks') = m - 1 /\ Head(tasks) = tasks[1]
      /\ tasks[1] \in Tasks
      /\ \A i \in 1..m - 1 : tasks'[i] = tasks[i + 1]
  <2>1. tasks \in Seq(Tasks)
    BY <1>0 DEF TypeOK
  <2> QED
    BY <1>1, <1>4, <2>1
<1>6. PICK k \in Nat : Taken = k /\ k = Len(p) - (n + m) /\ n + m <= Len(p) /\ Taken' = k + 1
  <2>1. Len(p) \in Nat /\ n + m <= Len(p)
    BY <1>0, <1>2, <1>4 DEF QueueInv
  <2>2. Taken = Len(p) - (n + m)
    BY <1>2, <1>4 DEF Taken
  <2>3. Taken' = Len(p) - (n + (m - 1))
    BY <1>1, <1>3, <1>4, <1>5 DEF Taken
  <2>4. Len(p) - (n + m) \in Nat /\ Len(p) - (n + (m - 1)) = (Len(p) - (n + m)) + 1
    BY <1>4, <2>1
  <2> QED
    BY <2>1, <2>2, <2>3, <2>4
<1>7. PICK h \in Tasks : h = tasks[1] /\ h = p[k + 1] /\ k + 1 \in 1..Len(p)
  BY <1>0, <1>2, <1>4, <1>5, <1>6 DEF QueueInv
<1>8. /\ \A v \in Workers : v # w => worker'[v] = worker[v] /\ job'[v] = job[v]
      /\ worker'[w] = "dialling" /\ job'[w] = h
  BY <1>0, <1>1, <1>5, <1>7 DEF TypeOK
<1>9. QueueInv'
  <2>1. ASSUME NEW i \in 1..m - 1 PROVE tasks'[i] = p[(k + 1) + i]
    <3>1. i + 1 \in 1..m /\ tasks'[i] = tasks[i + 1]
      BY <1>5
    <3>2. tasks[i + 1] = p[k + (i + 1)]
      BY <1>0, <1>2, <1>4, <1>6, <3>1 DEF QueueInv
    <3> QED
      BY <3>1, <3>2
  <2>2. \A i \in 1..n : todo'[i] = p[(Len(p) - n) + i]
    BY <1>0, <1>1, <1>2, <1>4 DEF QueueInv
  <2>3. Len(todo') = n /\ Len(tasks') = m - 1 /\ n + (m - 1) <= Len(p)
    BY <1>1, <1>4, <1>5, <1>6
  <2> QED
    BY <1>3, <1>6, <2>1, <2>2, <2>3 DEF QueueInv
<1>10. \A t : Received(t)' <=> Received(t) \/ t = h
  <2>1. \A i : i \in 1..k + 1 <=> i \in 1..k \/ i = k + 1
    OBVIOUS
  <2> QED
    BY <1>2, <1>3, <1>6, <1>7, <2>1 DEF Received
<1>11. ~Received(h)
  BY <1>2, <1>6, <1>7 DEF Received
<1>12. \A t : Dialling(t)' <=> Dialling(t) \/ t = h
  BY <1>1, <1>8 DEF Dialling
<1>13. DialInv'
  <2>1. h \notin DOMAIN dialled /\ ~Dialling(h)
    BY <1>0, <1>11 DEF DialInv
  <2> QED
    BY <1>0, <1>1, <1>10, <1>12, <2>1 DEF DialInv
<1>14. TypeOK'
  <2>1. job' \in [Workers -> Tasks \cup {<<>>}]
    BY <1>0, <1>1, <1>5 DEF TypeOK
  <2>2. worker' \in [Workers -> {"ready", "dialling", "sending", "gone"}]
    BY <1>0, <1>1 DEF TypeOK
  <2>3. h # <<>>
    BY <1>7, TaskIs
  <2>4. \A v \in Workers : worker'[v] \in {"dialling", "sending"} <=> job'[v] # <<>>
    BY <1>0, <1>8, <2>3 DEF TypeOK
  <2> QED
    BY <1>0, <1>1, <1>5, <2>1, <2>2, <2>4 DEF TypeOK
<1>15. InputInv'
  <2>1. Started /\ Started'
    BY <1>0, <1>1, WorkersAre DEF Started
  <2> QED
    BY <1>0, <1>1, <2>1, SameInput DEF scanVars
<1>16. ChannelInv'
  <2>1. \A v \in Workers : worker[v] # "gone"
    BY <1>0, <1>1 DEF ChannelInv
  <2> QED
    BY <1>0, <1>1, <1>8, <2>1 DEF ChannelInv
<1>17. \A t : Sending(t)' <=> Sending(t)
  BY <1>1, <1>8 DEF Sending
<1>18. OpenInv'
  BY <1>0, <1>1, <1>17 DEF OpenInv, Sent, Listed
<1>19. OneEach'
  <2>1. \A v \in Workers : worker[v] = "dialling" => job[v] # h
    <3>1. ~Dialling(h)
      BY <1>0, <1>11 DEF DialInv
    <3> QED
      BY <3>1 DEF Dialling
  <2> QED
    BY <1>0, <1>8, <2>1 DEF OneEach
<1> QED
  BY <1>9, <1>13, <1>14, <1>15, <1>16, <1>18, <1>19 DEF ScanInv

-----------------------------------------------------------------------------
(* Dials and results.                                                      *)

(* A dial ends: the task has not been dialled before, and no other worker  *)
(* has it.                                                                 *)
LEMMA DialStep ==
    ASSUME ScanInv, NEW w \in Workers, DialConnects(w) \/ DialFails(w)
    PROVE  ScanInv'
<1>0. TypeOK /\ InputInv /\ ChannelInv /\ QueueInv /\ DialInv /\ OpenInv /\ OneEach
  BY DEF ScanInv
<1>1. /\ worker[w] = "dialling" /\ dialled' = dialled (+) SetToBag({job[w]})
      /\ UNCHANGED <<allowed, input, ips, pc, todo, tasks, tasksClosed, results, resultsClosed,
                     hostMap>>
  BY DEF DialConnects, DialFails, scanVars
<1>2. PICK t0 \in Tasks : t0 = job[w]
  BY <1>0, <1>1 DEF TypeOK
<1>3. Dialling(t0) /\ t0 \notin DOMAIN dialled /\ t0 \notin open
  BY <1>0, <1>1, <1>2 DEF Dialling, DialInv, OpenInv
<1>4. /\ DOMAIN dialled' = DOMAIN dialled \cup {t0} /\ IsABag(dialled')
      /\ \A s \in DOMAIN dialled' : dialled'[s] = 1
  <2>1. IsABag(dialled) /\ \A s \in DOMAIN dialled : dialled[s] = 1 /\ s # t0
    BY <1>0, <1>3 DEF TypeOK, DialInv
  <2>2. /\ DOMAIN dialled' = DOMAIN dialled \cup {t0} /\ IsABag(dialled')
        /\ \A s \in DOMAIN dialled : dialled'[s] = dialled[s] + 0
        /\ dialled'[t0] = 0 + 1
    BY <1>1, <1>2, <1>3, <2>1, DialledOnce
  <2> QED
    BY <2>1, <2>2
<1>5. /\ \A v \in Workers : v # w => worker'[v] = worker[v] /\ job'[v] = job[v]
      /\ worker'[w] # "dialling" /\ worker'[w] # "gone"
  BY <1>0 DEF DialConnects, DialFails, TypeOK
<1>6. \A t : Dialling(t)' <=> Dialling(t) /\ t # t0
  BY <1>0, <1>1, <1>2, <1>5 DEF Dialling, OneEach
<1>7. SameTasks /\ scanVars' = scanVars
  BY <1>1 DEF SameTasks, scanVars
<1>8. QueueInv' /\ Taken' = Taken /\ Plan' = Plan
  BY <1>0, <1>7, SamePlan
<1>9. DialInv'
  <2>1. \A t : Received(t)' <=> Received(t)
    BY <1>8 DEF Received
  <2> QED
    BY <1>0, <1>3, <1>4, <1>6, <2>1 DEF DialInv
<1>10. InputInv'
  <2>1. Started /\ Started'
    BY <1>0, <1>1, WorkersAre DEF Started
  <2> QED
    BY <1>0, <1>7, <2>1, SameInput
<1>11. ChannelInv'
  <2>1. ~resultsClosed
    BY <1>0, <1>1 DEF ChannelInv
  <2>2. \A v \in Workers : worker'[v] = "gone" => worker[v] = "gone"
    BY <1>5
  <2> QED
    BY <1>0, <1>1, <2>1, <2>2 DEF ChannelInv
<1>12. BagToSet(dialled') \subseteq Tasks
  BY <1>0, <1>4 DEF TypeOK, BagToSet
<1>13. CASE DialConnects(w)
  <2>1. open' = open \cup {t0} /\ job' = job /\ worker' = [worker EXCEPT ![w] = "sending"]
    BY <1>2, <1>13 DEF DialConnects
  <2>2. worker'[w] = "sending"
    BY <1>0, <2>1 DEF TypeOK
  <2>3. TypeOK'
    <3>1. worker' \in [Workers -> {"ready", "dialling", "sending", "gone"}]
      BY <1>0, <2>1 DEF TypeOK
    <3>2. \A v \in Workers : worker'[v] \in {"dialling", "sending"} <=> job'[v] # <<>>
      BY <1>0, <1>1, <1>5, <2>1, <2>2 DEF TypeOK
    <3> QED
      BY <1>0, <1>1, <1>4, <1>12, <2>1, <3>1, <3>2 DEF TypeOK
  <2>4. \A t : Sending(t)' <=> Sending(t) \/ t = t0
    BY <1>1, <1>2, <1>5, <2>1, <2>2 DEF Sending
  <2>5. \A t : (Sent(t)' <=> Sent(t)) /\ (Listed(t)' <=> Listed(t))
    BY <1>1 DEF Sent, Listed
  <2>6. ~Sent(t0) /\ ~Listed(t0) /\ ~Sending(t0)
    BY <1>0, <1>3 DEF OpenInv
  <2>7. OpenInv'
    BY <1>0, <1>1, <1>4, <2>1, <2>4, <2>5, <2>6 DEF OpenInv
  <2>8. OneEach'
    <3>1. \A v \in Workers : worker[v] = "sending" => job[v] # t0
      BY <2>6 DEF Sending
    <3> QED
      BY <1>0, <1>2, <1>5, <2>1, <2>2, <3>1 DEF OneEach
  <2> QED
    BY <1>8, <1>9, <1>10, <1>11, <2>3, <2>7, <2>8 DEF ScanInv
<1>14. CASE DialFails(w)
  <2>1. /\ open' = open /\ job' = [job EXCEPT ![w] = <<>>]
        /\ worker' = [worker EXCEPT ![w] = "ready"]
    BY <1>14 DEF DialFails
  <2>2. worker'[w] = "ready" /\ job'[w] = <<>>
    BY <1>0, <2>1 DEF TypeOK
  <2>3. TypeOK'
    <3>1. /\ worker' \in [Workers -> {"ready", "dialling", "sending", "gone"}]
          /\ job' \in [Workers -> Tasks \cup {<<>>}]
      BY <1>0, <2>1 DEF TypeOK
    <3>2. \A v \in Workers : worker'[v] \in {"dialling", "sending"} <=> job'[v] # <<>>
      BY <1>0, <1>5, <2>2 DEF TypeOK
    <3> QED
      BY <1>0, <1>1, <1>4, <1>12, <2>1, <3>1, <3>2 DEF TypeOK
  <2>4. \A t : (Sending(t)' <=> Sending(t)) /\ (Sent(t)' <=> Sent(t)) /\ (Listed(t)' <=> Listed(t))
    BY <1>1, <1>5, <2>2 DEF Sending, Sent, Listed
  <2>5. OpenInv'
    BY <1>0, <1>1, <1>4, <2>1, <2>4 DEF OpenInv
  <2>6. OneEach'
    BY <1>0, <1>5, <2>2 DEF OneEach
  <2> QED
    BY <1>8, <1>9, <1>10, <1>11, <2>3, <2>5, <2>6 DEF ScanInv
<1> QED
  BY <1>13, <1>14

(* An open port is sent.                                                   *)
LEMMA SendStep == ASSUME ScanInv, NEW w \in Workers, Send(w) PROVE ScanInv'
<1>0. TypeOK /\ InputInv /\ ChannelInv /\ QueueInv /\ DialInv /\ OpenInv /\ OneEach
  BY DEF ScanInv
<1>1. /\ worker[w] = "sending" /\ ~resultsClosed /\ results' = Append(results, job[w])
      /\ job' = [job EXCEPT ![w] = <<>>] /\ worker' = [worker EXCEPT ![w] = "ready"]
      /\ UNCHANGED <<allowed, input, ips, pc, todo, tasks, tasksClosed, resultsClosed,
                     hostMap, dialled, open>>
  BY DEF Send, scanVars
<1>2. PICK t0 \in Tasks : t0 = job[w]
  BY <1>0, <1>1 DEF TypeOK
<1>3. Sending(t0) /\ ~Sent(t0) /\ ~Listed(t0)
  BY <1>0, <1>1, <1>2 DEF Sending, OpenInv
<1>4. /\ \A v \in Workers : v # w => worker'[v] = worker[v] /\ job'[v] = job[v]
      /\ worker'[w] = "ready" /\ job'[w] = <<>>
  BY <1>0, <1>1 DEF TypeOK
<1>5. PICK n \in Nat : /\ n = Len(results) /\ results' \in Seq(Tasks) /\ Len(results') = n + 1
                       /\ \A i \in 1..n : results'[i] = results[i]
                       /\ results'[n + 1] = t0
  <2>1. results \in Seq(Tasks) /\ results' = Append(results, t0) /\ Len(results) \in Nat
    BY <1>0, <1>1, <1>2 DEF TypeOK
  <2>2. /\ Append(results, t0) \in Seq(Tasks) /\ Len(Append(results, t0)) = Len(results) + 1
        /\ Append(results, t0)[Len(results) + 1] = t0
        /\ \A i \in 1..Len(results) : Append(results, t0)[i] = results[i]
    BY <2>1
  <2> QED
    BY <2>1, <2>2
<1>6. \A t : Sending(t)' <=> Sending(t) /\ t # t0
  BY <1>0, <1>1, <1>2, <1>4 DEF Sending, OneEach
<1>7. \A i : i \in 1..n + 1 <=> i \in 1..n \/ i = n + 1
  OBVIOUS
<1>8. \A t : Sent(t)' <=> Sent(t) \/ t = t0
  BY <1>5, <1>7 DEF Sent
<1>9. \A t : (Listed(t)' <=> Listed(t)) /\ (Dialling(t)' <=> Dialling(t))
  BY <1>1, <1>4 DEF Listed, Dialling
<1>10. SameTasks /\ scanVars' = scanVars
  BY <1>1 DEF SameTasks, scanVars
<1>11. QueueInv' /\ Taken' = Taken /\ Plan' = Plan
  BY <1>0, <1>10, SamePlan
<1>12. DialInv'
  BY <1>0, <1>1, <1>9, <1>11 DEF DialInv, Received
<1>13. OpenInv'
  <2>1. \A i \in 1..n : results[i] # t0
    BY <1>3, <1>5 DEF Sent
  <2>2. \A i, j \in 1..Len(results') : results'[i] = results'[j] => i = j
    BY <1>0, <1>5, <1>7, <2>1 DEF OpenInv
  <2> QED
    BY <1>0, <1>1, <1>3, <1>6, <1>8, <1>9, <2>2 DEF OpenInv
<1>14. OneEach'
  BY <1>0, <1>4 DEF OneEach
<1>15. TypeOK'
  <2>1. /\ worker' \in [Workers -> {"ready", "dialling", "sending", "gone"}]
        /\ job' \in [Workers -> Tasks \cup {<<>>}]
    BY <1>0, <1>1 DEF TypeOK
  <2>2. \A v \in Workers : worker'[v] \in {"dialling", "sending"} <=> job'[v] # <<>>
    BY <1>0, <1>4 DEF TypeOK
  <2> QED
    BY <1>0, <1>1, <1>5, <2>1, <2>2 DEF TypeOK
<1>16. InputInv'
  <2>1. Started /\ Started'
    BY <1>0, <1>1, WorkersAre DEF Started
  <2> QED
    BY <1>0, <1>10, <2>1, SameInput
<1>17. ChannelInv'
  <2>1. \A v \in Workers : worker'[v] = "gone" => worker[v] = "gone"
    BY <1>4
  <2> QED
    BY <1>0, <1>1, <2>1 DEF ChannelInv
<1> QED
  BY <1>11, <1>12, <1>13, <1>14, <1>15, <1>16, <1>17 DEF ScanInv

(* And listed.                                                             *)
LEMMA CollectStep == ASSUME ScanInv, Collect PROVE ScanInv'
<1>0. TypeOK /\ InputInv /\ ChannelInv /\ QueueInv /\ DialInv /\ OpenInv /\ OneEach
  BY DEF ScanInv
<1>1. /\ pc = "collect" /\ results # <<>> /\ results' = Tail(results)
      /\ hostMap' = [hostMap EXCEPT ![Head(results)[1]] =
                        Append(hostMap[Head(results)[1]], Head(results)[2])]
      /\ UNCHANGED <<allowed, input, ips, pc, todo, tasks, tasksClosed, resultsClosed,
                     worker, job, dialled, open>>
  BY DEF Collect, scanVars
<1>2. PICK n \in Nat : /\ n = Len(results) /\ n > 0
                       /\ results' \in Seq(Tasks) /\ Len(results') = n - 1
                       /\ Head(results) = results[1]
                       /\ \A i \in 1..n - 1 : results'[i] = results[i + 1]
  BY <1>0, <1>1 DEF TypeOK
<1>3. PICK h \in Tasks : /\ h = results[1] /\ h = <<h[1], h[2]>>
                         /\ h[1] \in Addrs /\ h[2] \in ToSet(Ports)
  <2>1. results[1] \in Tasks
    BY <1>0, <1>2 DEF TypeOK
  <2> QED
    BY <2>1, TaskIs
<1>4. PICK q \in Seq(ToSet(Ports)), m \in Nat : q = hostMap[h[1]] /\ m = Len(q)
  BY <1>0, <1>3 DEF TypeOK
<1>5. PICK r \in Seq(ToSet(Ports)) : /\ r = Append(q, h[2]) /\ Len(r) = m + 1 /\ r[m + 1] = h[2]
                                     /\ \A i \in 1..m : r[i] = q[i]
  <2>1. h[2] \in ToSet(Ports) /\ q \in Seq(ToSet(Ports)) /\ Len(q) = m
    BY <1>3, <1>4
  <2>2. /\ Append(q, h[2]) \in Seq(ToSet(Ports)) /\ Len(Append(q, h[2])) = m + 1
        /\ Append(q, h[2])[m + 1] = h[2] /\ \A i \in 1..m : Append(q, h[2])[i] = q[i]
    BY <2>1
  <2> QED
    BY <2>2
<1>6. /\ hostMap' \in [Addrs -> Seq(ToSet(Ports))] /\ hostMap'[h[1]] = r
      /\ \A ip \in Addrs : ip # h[1] => hostMap'[ip] = hostMap[ip]
  BY <1>0, <1>1, <1>2, <1>3, <1>4, <1>5 DEF TypeOK
<1>7. \A t : Sent(t)' <=> Sent(t) /\ t # h
  <2>1. ASSUME NEW t, Sent(t)' PROVE Sent(t) /\ t # h
    <3>1. PICK i \in 1..n - 1 : results'[i] = t
      BY <1>2, <2>1 DEF Sent
    <3>2. i + 1 \in 1..n /\ 1 \in 1..n /\ results[i + 1] = t
      BY <1>2, <3>1
    <3> QED
      BY <1>0, <1>2, <1>3, <3>2 DEF Sent, OpenInv
  <2>2. ASSUME NEW t, Sent(t), t # h PROVE Sent(t)'
    <3>1. PICK i \in 1..n : results[i] = t
      BY <1>2, <2>2 DEF Sent
    <3>2. i # 1
      BY <1>3, <2>2, <3>1
    <3>3. i - 1 \in 1..n - 1 /\ results'[i - 1] = results[(i - 1) + 1] /\ (i - 1) + 1 = i
      BY <1>2, <3>2
    <3> QED
      BY <1>2, <3>1, <3>3 DEF Sent
  <2> QED
    BY <2>1, <2>2
<1>8. Sent(h) /\ h \in open
  BY <1>0, <1>2, <1>3 DEF Sent, OpenInv
<1>9. \A i : i \in 1..m + 1 <=> i \in 1..m \/ i = m + 1
  OBVIOUS
<1>10. \A t \in Tasks : Listed(t)' <=> Listed(t) \/ t = h
  <2>1. ASSUME NEW t \in Tasks, t[1] # h[1] PROVE (Listed(t)' <=> Listed(t)) /\ t # h
    <3>1. t[1] \in Addrs /\ hostMap'[t[1]] = hostMap[t[1]]
      BY <1>6, <2>1, TaskIs
    <3> QED
      BY <2>1, <3>1 DEF Listed
  <2>2. ASSUME NEW t \in Tasks, t[1] = h[1] PROVE Listed(t)' <=> Listed(t) \/ t = h
    <3>1. t = h <=> t[2] = h[2]
      BY <1>3, <2>2, TaskIs
    <3>2. Listed(t)' <=> \E i \in 1..m + 1 : r[i] = t[2]
      BY <1>5, <1>6, <2>2 DEF Listed
    <3>3. Listed(t) <=> \E i \in 1..m : q[i] = t[2]
      BY <1>4, <2>2 DEF Listed
    <3> QED
      BY <1>5, <1>9, <3>1, <3>2, <3>3
  <2> QED
    BY <2>1, <2>2
<1>11. \A t : (Sending(t)' <=> Sending(t)) /\ (Dialling(t)' <=> Dialling(t))
  BY <1>1 DEF Sending, Dialling
<1>12. OpenInv'
  <2>1. \A i \in 1..m : q[i] # h[2]
    <3>1. ~Listed(h)
      BY <1>0, <1>8 DEF OpenInv
    <3> QED
      BY <1>4, <3>1 DEF Listed
  <2>2. \A i, j \in 1..m + 1 : r[i] = r[j] => i = j
    <3>1. \A i, j \in 1..m : q[i] = q[j] => i = j
      BY <1>0, <1>3, <1>4 DEF OpenInv
    <3> QED
      BY <1>5, <1>9, <2>1, <3>1
  <2>3. \A ip \in Addrs : \A i, j \in 1..Len(hostMap'[ip]) :
           hostMap'[ip][i] = hostMap'[ip][j] => i = j
    <3>1. \A ip \in Addrs : \A i, j \in 1..Len(hostMap[ip]) :
             hostMap[ip][i] = hostMap[ip][j] => i = j
      BY <1>0 DEF OpenInv
    <3>2. Len(r) = m + 1
      BY <1>5
    <3> QED
      BY <1>6, <2>2, <3>1, <3>2
  <2>4. \A i, j \in 1..Len(results') : results'[i] = results'[j] => i = j
    <3> SUFFICES ASSUME NEW i \in 1..n - 1, NEW j \in 1..n - 1, results'[i] = results'[j]
                 PROVE  i = j
      BY <1>2
    <3>1. i + 1 \in 1..n /\ j + 1 \in 1..n /\ results[i + 1] = results[j + 1]
      BY <1>2
    <3>2. i + 1 = j + 1
      BY <1>0, <1>2, <3>1 DEF OpenInv
    <3> QED
      BY <3>2
  <2>5. ~Sending(h)
    BY <1>0, <1>8 DEF OpenInv
  <2> QED
    BY <1>0, <1>1, <1>7, <1>8, <1>10, <1>11, <2>3, <2>4, <2>5 DEF OpenInv
<1>13. SameTasks /\ scanVars' = scanVars
  BY <1>1 DEF SameTasks, scanVars
<1>14. QueueInv' /\ Taken' = Taken /\ Plan' = Plan
  BY <1>0, <1>13, SamePlan
<1>15. DialInv'
  BY <1>0, <1>1, <1>11, <1>14 DEF DialInv, Received
<1>16. OneEach'
  BY <1>0, <1>1 DEF OneEach
<1>17. TypeOK'
  BY <1>0, <1>1, <1>2, <1>6 DEF TypeOK
<1>18. InputInv'
  BY <1>0, <1>1, <1>13, SameInput DEF Started
<1>19. ChannelInv'
  BY <1>0, <1>1 DEF ChannelInv
<1> QED
  BY <1>12, <1>14, <1>15, <1>16, <1>17, <1>18, <1>19 DEF ScanInv

-----------------------------------------------------------------------------
(* The theorems.                                                           *)

(* ScanInv is inductive, so it always holds.                               *)
THEOREM ScanInvHolds == Spec => []ScanInv
<1>1. Init => ScanInv
  BY InitScanInv
<1>2. ScanInv /\ [Next]_vars => ScanInv'
  <2> SUFFICES ASSUME ScanInv, [Next]_vars PROVE ScanInv'
    OBVIOUS
  <2>1. CASE Refuse \/ UNCHANGED vars
    BY <2>1, StutterStep
  <2>2. CASE Scan
    BY <2>2, ScanStep
  <2>3. CASE Enqueue
    BY <2>3, EnqueueStep
  <2>4. CASE CloseTasks \/ CloseResults \/ Respond \/ \E w \in Workers : Leave(w)
    BY <2>4, ControlStep
  <2>5. CASE Collect
    BY <2>5, CollectStep
  <2>6. ASSUME NEW w \in Workers, Receive(w) PROVE ScanInv'
    BY <2>6, ReceiveStep
  <2>7. ASSUME NEW w \in Workers, DialConnects(w) \/ DialFails(w) PROVE ScanInv'
    BY <2>7, DialStep
  <2>8. ASSUME NEW w \in Workers, Send(w) PROVE ScanInv'
    BY <2>8, SendStep
  <2> QED
    BY <2>1, <2>2, <2>3, <2>4, <2>5, <2>6, <2>7, <2>8 DEF Next, Handle, Work
<1> QED
  BY <1>1, <1>2, PTL DEF Spec

(* At the end the whole plan has been dialled.                             *)
LEMMA AllIsDialled ==
    ASSUME ScanInv, pc = "done"
    PROVE  dialled = SetToBag(ToSet(Plan))
<1>0. TypeOK /\ InputInv /\ ChannelInv /\ QueueInv /\ DialInv
  BY DEF ScanInv
<1>1. todo = <<>> /\ resultsClosed /\ \A w \in Workers : worker[w] = "gone"
  BY <1>0 DEF ChannelInv
<1>2. tasks = <<>>
  BY <1>0, <1>1, ScannerAssumption DEF ChannelInv
<1>3. PICK p \in Seq(Tasks) : p = Plan
  BY <1>0, PlanIs
<1>4. Taken = Len(p)
  BY <1>1, <1>2, <1>3 DEF Taken
<1>5. ToSet(p) \subseteq Tasks /\ \A t : t \in ToSet(p) <=> \E i \in 1..Len(p) : p[i] = t
  <2>1. ToSet(p) = {p[i] : i \in DOMAIN p} /\ DOMAIN p = 1..Len(p)
    BY DEF ToSet
  <2> QED
    BY <2>1
<1>6. \A t \in Tasks : Received(t) <=> t \in ToSet(p)
  BY <1>3, <1>4, <1>5 DEF Received
<1>7. \A t : ~Dialling(t)
  BY <1>1 DEF Dialling
<1>8. DOMAIN dialled \subseteq Tasks
  BY <1>0 DEF TypeOK, BagToSet
<1>9. DOMAIN dialled = ToSet(p)
  BY <1>0, <1>5, <1>6, <1>7, <1>8 DEF DialInv
<1>10. dialled = [t \in DOMAIN dialled |-> dialled[t]]
  BY <1>0 DEF TypeOK, IsABag
<1>11. dialled = [t \in ToSet(p) |-> 1]
  BY <1>0, <1>9, <1>10 DEF DialInv
<1> QED
  BY <1>3, <1>11 DEF SetToBag

(* And what answered is listed.                                            *)
LEMMA AllIsListed ==
    ASSUME ScanInv, pc = "done"
    PROVE  /\ UNION {{Hosts[i].ip} \X ToSet(Hosts[i].ports) : i \in 1..Len(Hosts)} = open
           /\ \A i \in 1..Len(Hosts) : IsInjective(Hosts[i].ports)
           /\ \A i \in 2..Len(Hosts) : Hosts[i - 1].ip < Hosts[i].ip
<1>0. TypeOK /\ InputInv /\ ChannelInv /\ QueueInv /\ DialInv /\ OpenInv
  BY DEF ScanInv
<1>1. ips \in Seq(Addrs) /\ Ascending(ips) /\ hostMap \in [Addrs -> Seq(ToSet(Ports))]
  BY <1>0, PlanIs DEF TypeOK
<1>2. Listing(Hosts, Len(ips))
  BY <1>1, HostsLemma
<1>3. PICK hs \in Seq(HostRecords) : hs = Hosts
  BY <1>2 DEF Listing
<1>4. /\ \A i \in 1..Len(hs) : hs[i].ports = hostMap[hs[i].ip] /\ hs[i].ip \in Addrs
      /\ \A k \in 1..Len(ips) : hostMap[ips[k]] # <<>> => \E i \in 1..Len(hs) : hs[i].ip = ips[k]
      /\ \A i, j \in 1..Len(hs) : i < j => hs[i].ip < hs[j].ip
  <2>1. \A i \in 1..Len(hs) : hs[i] \in HostRecords
    OBVIOUS
  <2>2. \A i \in 1..Len(hs) : hs[i].ip \in Addrs
    BY <2>1 DEF HostRecords
  <2> QED
    BY <1>2, <1>3, <2>2 DEF Listing
<1>5. results = <<>> /\ \A w \in Workers : worker[w] = "gone"
  BY <1>0 DEF ChannelInv
<1>6. \A t \in Tasks : t \in open <=> Listed(t)
  BY <1>0, <1>5 DEF OpenInv, Sending, Sent
<1>7. \A ip \in Addrs : \A x :
         x \in ToSet(hostMap[ip]) <=> \E i \in 1..Len(hostMap[ip]) : hostMap[ip][i] = x
  <2> SUFFICES ASSUME NEW ip \in Addrs
               PROVE  \A x : x \in ToSet(hostMap[ip])
                                <=> \E i \in 1..Len(hostMap[ip]) : hostMap[ip][i] = x
    OBVIOUS
  <2>1. PICK q \in Seq(ToSet(Ports)) : q = hostMap[ip]
    BY <1>1
  <2>2. ToSet(q) = {q[i] : i \in DOMAIN q} /\ DOMAIN q = 1..Len(q)
    BY DEF ToSet
  <2> QED
    BY <2>1, <2>2
<1>8. ASSUME NEW i \in 1..Len(hs), NEW t \in {hs[i].ip} \X ToSet(hs[i].ports) PROVE t \in open
  <2>1. t[1] = hs[i].ip /\ t[2] \in ToSet(hostMap[t[1]]) /\ t = <<t[1], t[2]>> /\ t[1] \in Addrs
    BY <1>4
  <2>2. hostMap[t[1]] \in Seq(ToSet(Ports))
    BY <1>1, <2>1
  <2>3. PICK k \in 1..Len(hostMap[t[1]]) : hostMap[t[1]][k] = t[2]
    BY <1>7, <2>1
  <2>4. t[2] \in ToSet(Ports)
    BY <2>2, <2>3
  <2>5. t \in Tasks
    BY <2>1, <2>4 DEF Tasks
  <2> QED
    BY <1>6, <2>3, <2>5 DEF Listed
<1>9. ASSUME NEW t \in open PROVE \E i \in 1..Len(hs) : t \in {hs[i].ip} \X ToSet(hs[i].ports)
  <2>1. t \in Tasks /\ Listed(t)
    BY <1>0, <1>6 DEF TypeOK
  <2>2. t = <<t[1], t[2]>> /\ t[1] \in Addrs /\ t[2] \in ToSet(hostMap[t[1]])
    BY <1>7, <2>1, TaskIs DEF Listed
  <2>3. hostMap[t[1]] # <<>>
    BY <2>1 DEF Listed
  <2>4. PICK k \in 1..Len(ips) : ips[k] = t[1]
    <3>1. t \in DOMAIN dialled
      BY <1>0 DEF OpenInv
    <3>2. Received(t)
      BY <1>0, <2>1, <3>1 DEF DialInv
    <3>3. t \in ToSet(ips) \X ToSet(Ports)
      <4>1. PICK p \in Seq(Tasks) : p = Plan /\ ToSet(p) = ToSet(ips) \X ToSet(Ports)
        BY <1>0, PlanIs
      <4>2. Taken \in Nat /\ Taken <= Len(p)
        BY <1>0, <4>1 DEF Taken, QueueInv, TypeOK
      <4>3. \E i \in 1..Len(p) : p[i] = t
        BY <3>2, <4>1, <4>2 DEF Received
      <4>4. t \in ToSet(p)
        BY <4>3 DEF ToSet
      <4> QED
        BY <4>1, <4>4
    <3> QED
      BY <1>1, <3>3 DEF ToSet
  <2>5. PICK i \in 1..Len(hs) : hs[i].ip = t[1]
    BY <1>4, <2>3, <2>4
  <2>6. t \in {hs[i].ip} \X ToSet(hs[i].ports)
    BY <1>4, <2>2, <2>5
  <2> QED
    BY <2>6
<1>10. UNION {{hs[i].ip} \X ToSet(hs[i].ports) : i \in 1..Len(hs)} = open
  BY <1>8, <1>9
<1>11. ASSUME NEW i \in 1..Len(hs) PROVE IsInjective(hs[i].ports)
  <2>1. PICK q \in Seq(ToSet(Ports)) : q = hs[i].ports /\ q = hostMap[hs[i].ip]
    BY <1>1, <1>4
  <2>2. DOMAIN q = 1..Len(q) /\ \A a, b \in 1..Len(q) : q[a] = q[b] => a = b
    BY <1>0, <1>4, <2>1 DEF OpenInv
  <2> QED
    BY <2>1, <2>2 DEF IsInjective
<1>12. \A i \in 2..Len(hs) : hs[i - 1].ip < hs[i].ip
  <2>1. \A i \in 2..Len(hs) : i - 1 \in 1..Len(hs) /\ i \in 1..Len(hs) /\ i - 1 < i
    OBVIOUS
  <2> QED
    BY <1>4, <2>1
<1> QED
  BY <1>3, <1>10, <1>11, <1>12

(* ScanIsExact for every width, network, list of ports and pool: every     *)
(* port of every address is dialled once by scanHosts, each that answers   *)
(* is reported once, in order, and no worker sends on a closed channel.    *)
THEOREM ScanStaysExact == Spec => []ScanIsExact
<1>1. ASSUME ScanInv PROVE ScanIsExact
  <2>1. \A w \in Workers : worker[w] = "sending" => ~resultsClosed
    BY <1>1 DEF ScanInv, ChannelInv
  <2>2. pc = "done" => dialled = SetToBag(ToSet(TasksFor(ips)))
    BY <1>1, AllIsDialled DEF Plan
  <2>3. pc = "done" =>
          /\ UNION {{Hosts[i].ip} \X ToSet(Hosts[i].ports) : i \in 1..Len(Hosts)} = open
          /\ \A i \in 1..Len(Hosts) : IsInjective(Hosts[i].ports)
          /\ \A i \in 2..Len(Hosts) : Hosts[i - 1].ip < Hosts[i].ip
    BY <1>1, AllIsListed
  <2> QED
    BY <2>1, <2>2, <2>3 DEF ScanIsExact
<1> QED
  BY <1>1, ScanInvHolds, PTL

(* TargetsAreRight: what validateControlledTarget and resolveTargets let   *)
(* through is private and, of a range, all its hosts, whatever the         *)
(* allowlists say.                                                         *)
THEOREM TargetsStayRight == Spec => []TargetsAreRight
<1>1. ASSUME ScanInv PROVE TargetsAreRight
  <2>0. TypeOK /\ InputInv /\ QueueInv /\ DialInv
    BY <1>1 DEF ScanInv
  <2>1. SUFFICES ASSUME Started
                 PROVE  /\ IsInjective(ips) /\ ToSet(ips) \subseteq Private
                        /\ BagToSet(dialled) \subseteq ToSet(ips) \X ToSet(Ports)
                        /\ input.type = "cidr" =>
                              ToSet(ips) = Within(input.net) \ {input.net.base, LastOf(input.net)}
    BY <2>0 DEF TargetsAreRight, Started, TypeOK
  <2>2. /\ ips \in Seq(Addrs) /\ Ascending(ips) /\ ToSet(ips) \subseteq Private
        /\ input.type = "cidr" =>
              ToSet(ips) = Within(input.net) \ {input.net.base, LastOf(input.net)}
    BY <2>0, <2>1, TargetsLemma DEF InputInv, TypeOK
  <2>3. IsInjective(ips)
    <3>1. DOMAIN ips = 1..Len(ips) /\ \A i \in 1..Len(ips) : ips[i] \in Nat
      BY <2>2, AddrsAre
    <3>2. \A i, j \in 1..Len(ips) : i # j => ips[i] # ips[j]
      <4> SUFFICES ASSUME NEW i \in 1..Len(ips), NEW j \in 1..Len(ips), i # j PROVE ips[i] # ips[j]
        OBVIOUS
      <4>1. i < j \/ j < i
        OBVIOUS
      <4> QED
        BY <2>2, <3>1, <4>1 DEF Ascending
    <3> QED
      BY <3>1, <3>2 DEF IsInjective
  <2>4. DOMAIN dialled \subseteq ToSet(ips) \X ToSet(Ports)
    <3>1. PICK p \in Seq(Tasks) : p = Plan /\ ToSet(p) = ToSet(ips) \X ToSet(Ports)
      BY <2>0, PlanIs
    <3>2. Taken \in Nat /\ Taken <= Len(p)
      BY <2>0, <3>1 DEF Taken, QueueInv, TypeOK
    <3>3. ASSUME NEW t \in DOMAIN dialled PROVE t \in ToSet(p)
      <4>1. t \in Tasks
        BY <2>0 DEF TypeOK, BagToSet
      <4>2. Received(t)
        BY <2>0, <4>1 DEF DialInv
      <4>3. \E i \in 1..Len(p) : p[i] = t
        BY <3>1, <3>2, <4>2 DEF Received
      <4> QED
        BY <4>3 DEF ToSet
    <3> QED
      BY <3>1, <3>3
  <2> QED
    BY <2>2, <2>3, <2>4 DEF BagToSet
<1> QED
  BY <1>1, ScanInvHolds, PTL

(* The types, among them that a worker has a task exactly while it dials   *)
(* or sends.                                                               *)
THEOREM ScannerTypeCorrect == Spec => []TypeOK
<1>1. ScanInv => TypeOK
  BY DEF ScanInv
<1> QED
  BY <1>1, ScanInvHolds, PTL
=============================================================================
