------------------------------ MODULE Scanner ------------------------------
(***************************************************************************)
(* A request to the scanner: the checks of internal/scanner/handlers,      *)
(* then Scan of internal/scanner/scanner.go, which computes the addresses  *)
(* and dials every port of each with a pool of workers.                    *)
(*                                                                         *)
(* Five kinds of goroutine meet on two channels: the handler, which fills  *)
(* "tasks", closes it and then drains "results"; the workers; and the one  *)
(* that closes "results" when the workers are gone.  A request has a pool  *)
(* of its own, so one request is modelled.                                 *)
(***************************************************************************)
EXTENDS Naturals, Sequences, SequencesExt, Bags

CONSTANTS
    Bits,         \* the width of an address: 32 in the code
    MinPrefix,    \* maxSubnetBits: no network is larger
    InScope,      \* the addresses of inScopeBlocks
    Private,      \* those for which isPrivateLabIP holds
    Allowlists,   \* values of ServerScannerAllowedTargets, sets of networks
    Ports,        \* CommonPorts, a sequence
    Workers       \* the goroutines of the pool

(* How many addresses differ in their last k bits only.                    *)
Block[k \in 0..Bits] == IF k = 0 THEN 1 ELSE 2 * Block[k - 1]

Highest == Block[Bits] - 1

Addrs == 0..Highest
PrefixLengths == 0..Bits

(* A network as net.ParseCIDR returns it: the host bits are zero.          *)
Networks == {n \in [base : Addrs, prefix : PrefixLengths] :
                n.base % Block[Bits - n.prefix] = 0}

LastOf(n) == n.base + Block[Bits - n.prefix] - 1
Within(n) == n.base..LastOf(n)

ASSUME ScannerAssumption ==
    /\ Bits \in Nat /\ MinPrefix \in PrefixLengths
    /\ Private \subseteq InScope /\ InScope \subseteq Addrs
    /\ \A list \in Allowlists : list \subseteq Networks
    /\ Ports \in Seq(Nat) \ {<<>>} /\ IsInjective(Ports) /\ Workers # {}
    \* 255.255.255.255 is none of them
    /\ Highest \notin Private
    \* 10/8, 172.16/12 and 192.168/16 are wider than a /24
    /\ \A n \in Networks : n.prefix >= MinPrefix /\ n.base \in Private
                              => Within(n) \subseteq Private

(* What a request may ask for; IPv6 and syntax errors are "malformed".     *)
Inputs == [type : {"cidr"}, net : Networks] \cup [type : {"ip"}, ip : Addrs]
             \cup [type : {"malformed"}]

VARIABLES
    allowed,       \* cfg.ServerScannerAllowedTargets
    input,         \* the query parameter of the request
    pc,            \* where the handler is, or what it answered
    ips,           \* the addresses resolveTargets returned
    todo,          \* the tasks that are not enqueued yet
    tasks, tasksClosed,        \* the two channels
    results, resultsClosed,
    worker,        \* where each worker is
    job,           \* the task it has received
    hostMap,       \* the ports the handler has received, by address
    dialled,       \* history: the tasks dialled, each as often as it was
    open           \* history: those that answered

scanVars == <<allowed, input, ips>>
vars == <<scanVars, pc, todo, tasks, tasksClosed, results, resultsClosed, worker, job,
          hostMap, dialled, open>>

Tasks == Addrs \X ToSet(Ports)

TypeOK ==
    /\ allowed \in Allowlists /\ input \in Inputs
    /\ pc \in {"idle", "enqueue", "collect", "done", "refused"}
    /\ ips \in Seq(Addrs)
    /\ todo \in Seq(Tasks) /\ tasks \in Seq(Tasks) /\ results \in Seq(Tasks)
    /\ tasksClosed \in BOOLEAN /\ resultsClosed \in BOOLEAN
    /\ worker \in [Workers -> {"ready", "dialling", "sending", "gone"}]
    /\ job \in [Workers -> Tasks \cup {<<>>}]
    /\ \A w \in Workers : worker[w] \in {"dialling", "sending"} <=> job[w] # <<>>
    /\ hostMap \in [Addrs -> Seq(ToSet(Ports))] /\ open \subseteq Tasks
    /\ IsABag(dialled) /\ BagToSet(dialled) \subseteq Tasks

Init ==
    /\ allowed \in Allowlists /\ input \in Inputs
    /\ pc = "idle" /\ ips = <<>> /\ todo = <<>>
    /\ tasks = <<>> /\ tasksClosed = FALSE
    /\ results = <<>> /\ resultsClosed = FALSE
    /\ worker = [w \in Workers |-> "ready"]
    /\ job = [w \in Workers |-> <<>>]
    /\ hostMap = [ip \in Addrs |-> <<>>] /\ dialled = EmptyBag /\ open = {}

-----------------------------------------------------------------------------
(* Which addresses.                                                        *)

WithinAllowed(ip) == \E n \in allowed : ip \in Within(n)

(* Mutant: the allowlist alone decides.                                    *)
PermittedIfAllowed(ip) == WithinAllowed(ip)

(* isPrivateLabIP and withinAllowed.                                       *)
Permitted(ip) == ip \in Private /\ WithinAllowed(ip)

(* validateControlledTarget: the ends of a range stand for all of it.      *)
Validated(i) ==
    CASE i.type = "cidr" -> /\ i.net.prefix >= MinPrefix
                            /\ Permitted(i.net.base) /\ Permitted(LastOf(i.net))
      [] i.type = "ip"   -> Permitted(i.ip)
      [] OTHER           -> FALSE

(* enumerateHosts: the addresses between the first and the last one.  A    *)
(* /31 and a /32 have none.  start + 1 is a uint32 and wraps around.       *)
EnumerateHosts(n) ==
    LET start == (n.base + 1) % Block[Bits]
    IN  IF start < LastOf(n) THEN [i \in 1..LastOf(n) - start |-> start + i - 1] ELSE <<>>

(* resolveTargets, which checks the prefix and the scope once more.        *)
Resolves(i) ==
    IF i.type = "cidr" THEN i.net.prefix >= MinPrefix /\ i.net.base \in InScope
    ELSE i.ip \in InScope

Targets(i) == IF i.type = "cidr" THEN EnumerateHosts(i.net) ELSE <<i.ip>>

(* Every port of the first address, then of the second, and so on.         *)
TasksFor(addrs) ==
    [k \in 1..Len(addrs) * Len(Ports) |->
        <<addrs[((k - 1) \div Len(Ports)) + 1], Ports[((k - 1) % Len(Ports)) + 1]>>]

Refuse ==
    /\ pc = "idle"
    /\ ~(Validated(input) /\ Resolves(input))
    /\ pc' = "refused"
    /\ UNCHANGED <<scanVars, todo, tasks, tasksClosed, results, resultsClosed, worker,
                   job, hostMap, dialled, open>>

Scan ==
    /\ pc = "idle"
    /\ Validated(input) /\ Resolves(input)
    /\ ips' = Targets(input)
    /\ todo' = TasksFor(ips')
    /\ pc' = "enqueue"
    /\ UNCHANGED <<allowed, input, tasks, tasksClosed, results, resultsClosed, worker, job,
                   hostMap, dialled, open>>

-----------------------------------------------------------------------------
(* scanHosts.                                                              *)

(* Mutant: channels that hold one element.                                 *)
CapacityOne == 1

(* Both channels have room for every task.                                 *)
Capacity == Len(ips) * Len(Ports)

Enqueue ==
    /\ pc = "enqueue" /\ todo # <<>>
    /\ Len(tasks) < Capacity
    /\ tasks' = Append(tasks, Head(todo))
    /\ todo' = Tail(todo)
    /\ UNCHANGED <<scanVars, pc, tasksClosed, results, resultsClosed, worker, job,
                   hostMap, dialled, open>>

CloseTasks ==
    /\ pc = "enqueue" /\ todo = <<>>
    /\ tasksClosed' = TRUE
    /\ pc' = "collect"
    /\ UNCHANGED <<scanVars, todo, tasks, results, resultsClosed, worker, job, hostMap,
                   dialled, open>>

Receive(w) ==
    /\ worker[w] = "ready" /\ tasks # <<>>
    /\ job' = [job EXCEPT ![w] = Head(tasks)]
    /\ tasks' = Tail(tasks)
    /\ worker' = [worker EXCEPT ![w] = "dialling"]
    /\ UNCHANGED <<scanVars, pc, todo, tasksClosed, results, resultsClosed, hostMap,
                   dialled, open>>

(* The port answers.                                                       *)
DialConnects(w) ==
    /\ worker[w] = "dialling"
    /\ dialled' = dialled (+) SetToBag({job[w]})
    /\ open' = open \cup {job[w]}
    /\ worker' = [worker EXCEPT ![w] = "sending"]
    /\ UNCHANGED <<scanVars, pc, todo, tasks, tasksClosed, results, resultsClosed, job,
                   hostMap>>

(* It refuses, or dialTimeout passes.                                      *)
DialFails(w) ==
    /\ worker[w] = "dialling"
    /\ dialled' = dialled (+) SetToBag({job[w]})
    /\ job' = [job EXCEPT ![w] = <<>>]
    /\ worker' = [worker EXCEPT ![w] = "ready"]
    /\ UNCHANGED <<scanVars, pc, todo, tasks, tasksClosed, results, resultsClosed,
                   hostMap, open>>

(* A worker that wants to send on a closed channel panics: ScanIsExact.    *)
Send(w) ==
    /\ worker[w] = "sending" /\ ~resultsClosed
    /\ Len(results) < Capacity
    /\ results' = Append(results, job[w])
    /\ job' = [job EXCEPT ![w] = <<>>]
    /\ worker' = [worker EXCEPT ![w] = "ready"]
    /\ UNCHANGED <<scanVars, pc, todo, tasks, tasksClosed, resultsClosed, hostMap,
                   dialled, open>>

(* The range loop over tasks ends.                                         *)
NoMoreTasks == tasks = <<>> /\ tasksClosed

Leave(w) ==
    /\ worker[w] = "ready" /\ NoMoreTasks
    /\ worker' = [worker EXCEPT ![w] = "gone"]
    /\ UNCHANGED <<scanVars, pc, todo, tasks, tasksClosed, results, resultsClosed, job,
                   hostMap, dialled, open>>

(* Mutant: the WaitGroup counts one worker.                                *)
SomeoneIsDone == \E w \in Workers : worker[w] = "gone"

(* wg.Wait returns.                                                        *)
AllAreDone == \A w \in Workers : worker[w] = "gone"

(* The closer, which is started after the tasks were closed.               *)
CloseResults ==
    /\ pc = "collect" /\ ~resultsClosed
    /\ AllAreDone
    /\ resultsClosed' = TRUE
    /\ UNCHANGED <<scanVars, pc, todo, tasks, tasksClosed, results, worker, job,
                   hostMap, dialled, open>>

Collect ==
    /\ pc = "collect" /\ results # <<>>
    /\ hostMap' = [hostMap EXCEPT ![Head(results)[1]] = Append(@, Head(results)[2])]
    /\ results' = Tail(results)
    /\ UNCHANGED <<scanVars, pc, todo, tasks, tasksClosed, resultsClosed, worker, job,
                   dialled, open>>

(* The hosts are listed and the response is written.                       *)
Respond ==
    /\ pc = "collect" /\ results = <<>> /\ resultsClosed
    /\ pc' = "done"
    /\ UNCHANGED <<scanVars, todo, tasks, tasksClosed, results, resultsClosed, worker,
                   job, hostMap, dialled, open>>

(* The "hosts" of the response: the addresses with an open port, in the    *)
(* order of ips, each with its ports.                                      *)
Hosts ==
    LET upTo[i \in 0..Len(ips)] ==
            IF i = 0 THEN <<>>
            ELSE IF hostMap[ips[i]] = <<>> THEN upTo[i - 1]
            ELSE Append(upTo[i - 1], [ip |-> ips[i], ports |-> hostMap[ips[i]]])
    IN  upTo[Len(ips)]

Work(w) ==
    Receive(w) \/ DialConnects(w) \/ DialFails(w) \/ Send(w) \/ Leave(w)

Handle == Enqueue \/ CloseTasks \/ Collect \/ Respond

Next ==
    \/ Refuse \/ Scan \/ Handle \/ CloseResults
    \/ \E w \in Workers : Work(w)

Spec == Init /\ [][Next]_vars

(* Goroutines run, and dialTimeout ends every dial.                        *)
Fairness == WF_vars(Handle) /\ WF_vars(CloseResults) /\ \A w \in Workers : WF_vars(Work(w))

FairSpec == Spec /\ Fairness

-----------------------------------------------------------------------------
(* Properties.                                                             *)

(* The response of a scan is exact, whatever the workers' order: every port*)
(* of every address was dialled once, and each that answered is reported   *)
(* once, under its address, addresses in ascending order.  Nor is "results"*)
(* closed under a worker that has something to send: that would end the    *)
(* whole server.                                                           *)
ScanIsExact ==
    /\ \A w \in Workers : worker[w] = "sending" => ~resultsClosed
    /\ pc = "done" =>
          /\ dialled = SetToBag(ToSet(TasksFor(ips)))
          /\ UNION {{Hosts[i].ip} \X ToSet(Hosts[i].ports) : i \in 1..Len(Hosts)} = open
          /\ \A i \in 1..Len(Hosts) : IsInjective(Hosts[i].ports)
          /\ \A i \in 2..Len(Hosts) : Hosts[i - 1].ip < Hosts[i].ip

(* A scan reaches the addresses it should and no other.  Those of a range  *)
(* are all its hosts, "network and broadcast excluded" (scanner.go:58): no *)
(* network that passes the checks makes the loop wrap around, because the  *)
(* highest addresses are out of scope.  And "Special-use and non-private   *)
(* targets remain denied even if an allowlist is accidentally too broad"   *)
(* (handlers/scan.go:103-104), inside a range too, of which only the ends  *)
(* are checked.                                                            *)
TargetsAreRight ==
    pc \notin {"idle", "refused"} =>
        /\ IsInjective(ips) /\ ToSet(ips) \subseteq Private
        /\ BagToSet(dialled) \subseteq ToSet(ips) \X ToSet(Ports)
        /\ input.type = "cidr" =>
              ToSet(ips) = Within(input.net) \ {input.net.base, LastOf(input.net)}

(* A scan that was started returns: nobody waits on a channel for ever.    *)
ScanReturns == pc = "enqueue" ~> pc = "done"
=============================================================================
