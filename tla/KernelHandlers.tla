--------------------------- MODULE KernelHandlers ---------------------------
(***************************************************************************)
(* How the kernel's diagnosis handlers find each other and the components  *)
(* they ask, from kernel.py lines 1005-1131.                               *)
(*                                                                         *)
(* A handler is a method of the class, a component an attribute of the     *)
(* object, and both are looked up by name: self.x is the attribute if the  *)
(* object has one, and only otherwise the method.  The kernel sets         *)
(* attributes named as two of its own methods (lines 312-313), objects     *)
(* that cannot be called.  If lines 293-324 are not even run, because they *)
(* stand after a return, no component is found at all.                     *)
(*                                                                         *)
(* Whatever else may fail in a request, the database or the event bus, is  *)
(* left out: what fails here fails of the names alone.                     *)
(***************************************************************************)
EXTENDS Naturals, Sequences

VARIABLES
    running,  \* the request under way: its calls, the innermost last
    outcome   \* how the last request for each handler ended

vars == <<running, outcome>>

\* The names lines 293-324 set on the object, of those the handlers below use.
Attributes ==
    {"entry_decision_trace", "filter_decision_telemetry",
     "operational_readiness_summary", "operational_acceptance_audit",
     "final_technical_completion", "final_dashboard_snapshot",
     "release_candidate_audit", "final_validation_campaign"}

Await(name) == [does |-> "await", name |-> name]    \* await self.name()
Use(name)   == [does |-> "use", name |-> name]      \* self.name.build(...), .run(...)

\* What each handler does with the kernel's names, in this order.
Body ==
    [unified_entry_decision_trace |->
         <<Use("entry_decision_trace"), Use("filter_decision_telemetry")>>,
     operational_readiness_summary |->
         <<Await("unified_entry_decision_trace"), Use("operational_readiness_summary")>>,
     operational_acceptance_audit |->
         <<Await("unified_entry_decision_trace"), Await("operational_readiness_summary"),
           Use("operational_acceptance_audit")>>,
     final_validation_campaign_status |->
         <<Use("final_validation_campaign")>>,
     final_validation_campaign_tick |->
         <<Await("operational_acceptance_audit"), Use("final_validation_campaign")>>,
     final_technical_completion_status |->
         <<Await("operational_acceptance_audit"), Await("final_validation_campaign_status"),
           Use("final_technical_completion")>>,
     final_dashboard_snapshot_status |->
         <<Await("final_technical_completion_status"), Await("final_validation_campaign_status"),
           Await("operational_acceptance_audit"), Await("operational_readiness_summary"),
           Use("final_dashboard_snapshot")>>,
     release_candidate_audit_status |->
         <<Await("operational_acceptance_audit"), Await("final_dashboard_snapshot_status"),
           Use("release_candidate_audit")>>]

Handlers == DOMAIN Body

\* self.name
Found(name) == IF name \in Attributes THEN "component"
               ELSE IF name \in Handlers THEN "method" ELSE "nothing"

Works(expression) ==
    Found(expression.name) = IF expression.does = "await" THEN "method" ELSE "component"

Init == /\ running = <<>>
        /\ outcome = [h \in Handlers |-> "none"]

Entered(h) == [handler |-> h, at |-> 1]

\* The innermost call, and what it does next.
Innermost == running[Len(running)]
NextExpression == Body[Innermost.handler][Innermost.at]
Returns == Innermost.at > Len(Body[Innermost.handler])

\* The caller is past the expression that has run.
Advanced == [running EXCEPT ![Len(running)].at = @ + 1]

\* A GET or a POST that reaches one of the handlers.
Request(h) == /\ running = <<>>
              /\ running' = <<Entered(h)>>
              /\ outcome' = [outcome EXCEPT ![h] = "none"]

\* The next expression is found to be what it is taken for.
Proceed == /\ running # <<>> /\ ~Returns /\ Works(NextExpression)
           /\ running' = IF NextExpression.does = "await"
                         THEN Append(Advanced, Entered(NextExpression.name))
                         ELSE Advanced
           /\ UNCHANGED outcome

\* It is not: a TypeError, or an AttributeError, that nobody catches.
Raise == /\ running # <<>> /\ ~Returns /\ ~Works(NextExpression)
         /\ running' = <<>>
         /\ outcome' = [outcome EXCEPT ![running[1].handler] = "failed"]

Return == /\ running # <<>> /\ Returns
          /\ running' = SubSeq(running, 1, Len(running) - 1)
          /\ outcome' = IF Len(running) = 1
                        THEN [outcome EXCEPT ![running[1].handler] = "answered"]
                        ELSE outcome

Next == (\E h \in Handlers : Request(h)) \/ Proceed \/ Raise \/ Return

Spec == Init /\ [][Next]_vars

----------------------------------------------------------------------------
\* docs/AUDIT_UPDATE_52.md lines 5-6: the acceptance audit verifies by itself
\* that the gates are coherent with each other.  Refuted: its handler finds, in
\* the place of operational_readiness_summary(), the component of that name.
AuditIsCarriedOut == outcome["operational_acceptance_audit"] # "failed"
=============================================================================
