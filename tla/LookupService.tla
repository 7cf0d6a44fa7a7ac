---------------------------- MODULE LookupService ----------------------------
(***************************************************************************)
(* Lookups with their telemetry: a handler that has stored its result logs *)
(* the query and then writes the response.  Telemetry is best effort: no   *)
(* fairness is assumed of its workers or of the database when lookups are  *)
(* shown to be answered.                                                   *)
(***************************************************************************)
EXTENDS Lookup

CONSTANTS Workers, QueueSize

VARIABLES db, queue, writing, dropped, logged, ended, rows

Log == INSTANCE QueryLog WITH Events <- Requests, Idle <- None

ASSUME LogAssumption == Log!QueryLogAssumption

logVars == <<db, queue, writing, dropped, logged, ended, rows>>

ServiceTypeOK == TypeOK /\ Log!TypeOK

ServiceInit == Init /\ Log!Init

(* The end of a handler after a miss.  A browser on a preview deployment is*)
(* not logged (ShouldLogQueryTelemetry); a hit never is.                   *)
RespondAndLog(r) == Respond(r) /\ (Log!LogQuery(r) \/ UNCHANGED logVars)

ServiceNext ==
    \/ /\ \/ Tick \/ Cleanup
          \/ \E r \in Requests : Lookups(r) \/ \E s \in Sources : Fetches(r, s)
       /\ UNCHANGED logVars
    \/ \E r \in Requests : RespondAndLog(r)
    \/ \E w \in Workers : Log!Works(w) /\ UNCHANGED vars

ServiceVars == <<vars, logVars>>

(* As in Lookup; nothing for the workers.                                  *)
ServiceFairness ==
    /\ \A r \in Requests : WF_ServiceVars(RespondAndLog(r))
    /\ \A r \in Requests : \A s \in Sources :
          /\ SF_ServiceVars(Start(r, s) /\ UNCHANGED logVars)
          /\ WF_ServiceVars((Answer(r, s) \/ Fail(r, s)) /\ UNCHANGED logVars)

ServiceSpec == ServiceInit /\ [][ServiceNext]_ServiceVars /\ ServiceFairness

EventsAccounted == Log!EventsAccounted
TelemetryDrains == Log!TelemetryDrains
=============================================================================
