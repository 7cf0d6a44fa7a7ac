------------------------------ MODULE QueryLog ------------------------------
(***************************************************************************)
(* Aggregate query telemetry, internal/shared/db.go: a bounded queue that  *)
(* handlers fill without waiting and a few workers that write its entries  *)
(* to the database, each write with a timeout.                             *)
(***************************************************************************)
EXTENDS Naturals, Sequences, SequencesExt, FiniteSets

CONSTANTS
    Events,       \* one entry for each call of LogQuery
    Workers,      \* goroutines, queryLogWorkers of them
    QueueSize,    \* queryLogQueueSize
    Idle          \* a worker that waits on the queue

QueryLogAssumption == QueueSize \in Nat \ {0} /\ Idle \notin Events

VARIABLES
    db,           \* InitDB has succeeded: DB is set and the workers run
    queue,        \* queryLogQueue
    writing,      \* what each worker writes
    dropped,      \* the entries queryLogDropped counts
    logged,       \* history: calls of LogQuery with a database
    ended,        \* history: entries whose write has returned
    rows          \* the table query_logs: how often each entry is in it

vars == <<db, queue, writing, dropped, logged, ended, rows>>

TypeOK ==
    /\ db \in BOOLEAN
    /\ queue \in Seq(Events) /\ Len(queue) <= QueueSize
    /\ writing \in [Workers -> Events \cup {Idle}]
    /\ dropped \subseteq Events /\ logged \subseteq Events /\ ended \subseteq Events
    /\ rows \in [Events -> Nat]

(* InitDB returns early, with no database, if the address is not set or any*)
(* step fails; main calls it before it serves, so no handler sees it half  *)
(* done.                                                                   *)
Init ==
    /\ db \in BOOLEAN
    /\ queue = <<>> /\ writing = [w \in Workers |-> Idle]
    /\ dropped = {} /\ logged = {} /\ ended = {}
    /\ rows = [e \in Events |-> 0]

(* Mutant: a full queue makes room by forgetting its oldest entry.         *)
EnqueueOldestLost(e) ==
    /\ queue' = Append(IF Len(queue) < QueueSize THEN queue ELSE Tail(queue), e)
    /\ UNCHANGED dropped

(* The select of LogQuery: send if there is room, else count.              *)
Enqueue(e) ==
    \/ Len(queue) < QueueSize /\ queue' = Append(queue, e) /\ UNCHANGED dropped
    \/ Len(queue) = QueueSize /\ dropped' = dropped \cup {e} /\ UNCHANGED queue

LogQuery(e) ==
    IF db THEN /\ logged' = logged \cup {e}
               /\ Enqueue(e)
               /\ UNCHANGED <<db, writing, ended, rows>>
          ELSE UNCHANGED vars

(* A worker receives the next entry.                                       *)
Take(w) ==
    /\ db /\ writing[w] = Idle /\ queue # <<>>
    /\ writing' = [writing EXCEPT ![w] = Head(queue)]
    /\ queue' = Tail(queue)
    /\ UNCHANGED <<db, dropped, logged, ended, rows>>

(* Mutant: an entry whose write has failed waits again.                    *)
RetriesLater(w, inserted) ==
    /\ writing[w] # Idle
    /\ writing' = [writing EXCEPT ![w] = Idle]
    /\ IF inserted THEN ended' = ended \cup {writing[w]} /\ UNCHANGED queue
                   ELSE queue' = Append(queue, writing[w]) /\ UNCHANGED ended
    /\ rows' = [rows EXCEPT ![writing[w]] = @ + (IF inserted THEN 1 ELSE 0)]
    /\ UNCHANGED <<db, dropped, logged>>

(* writeQueryLog returns: without an error, or with one, after which the   *)
(* row may be in the table all the same (the timeout of 2 s ends the call, *)
(* not the insertion).  The entry is not tried again.                      *)
WriteReturns(w, inserted) ==
    /\ writing[w] # Idle
    /\ writing' = [writing EXCEPT ![w] = Idle]
    /\ ended' = ended \cup {writing[w]}
    /\ rows' = [rows EXCEPT ![writing[w]] = @ + (IF inserted THEN 1 ELSE 0)]
    /\ UNCHANGED <<db, queue, dropped, logged>>

Works(w) == Take(w) \/ \E inserted \in BOOLEAN : WriteReturns(w, inserted)

-----------------------------------------------------------------------------
(* Properties.                                                             *)

InHand == {writing[w] : w \in Workers} \ {Idle}

(* Every logged query is in exactly one place: waiting, with one worker,   *)
(* ended or counted as dropped; it is never written twice, nor written and *)
(* counted as dropped.  Nothing is dropped before the queue has been full. *)
EventsAccounted ==
    /\ logged = ToSet(queue) \cup InHand \cup ended \cup dropped
    /\ Cardinality(logged) = Len(queue) + Cardinality({w \in Workers : writing[w] # Idle})
                                + Cardinality(ended) + Cardinality(dropped)
    /\ \A e \in Events : rows[e] <= 1 /\ (rows[e] = 1 => e \in ended)
    /\ dropped # {} => Cardinality(logged \ dropped) >= QueueSize

(* What waits or is being written comes to an end, if the workers are      *)
(* scheduled: a write returns within its timeout, whatever the database    *)
(* does, and the worker goes on to the next entry.                         *)
TelemetryDrains ==
    (\A w \in Workers : WF_vars(Works(w)))
        => \A e \in Events : (e \in logged \ dropped) ~> (e \in ended)
=============================================================================
