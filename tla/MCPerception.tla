---------------------------- MODULE MCPerception ----------------------------
(***************************************************************************)
(* Perception of two pods for TLC: two pods and their shared queue, one    *)
(* namespace whose watch flaps, events, stored detectors beside the watch  *)
(* and beside the sweep of the metrics, and a server without its kubectl.  *)
(***************************************************************************)
EXTENDS Perception, TLC

Pod(phase, first) ==
    [phase |-> phase, reason |-> "", init |-> << >>, containers |-> <<first>>, initialized |-> TRUE,
     ready |-> first = RunningReady, deleting |-> FALSE]
Well == Pod("Running", RunningReady)
Crashing == Pod("Running", Waiting("CrashLoopBackOff"))
Ending == [Crashing EXCEPT !.deleting = TRUE, !.containers = <<RunningReady>>]

MCPods == {"a", "b"}
MCNsOf == [o \in MCPods |-> IF o = "a" THEN "shop" ELSE "kube-system"]
MCPodStates == {Well, Crashing}

StatusIs(st) == [kind |-> "Pod", matches |-> {st}, samples |-> {st}, exotic |-> FALSE]
MCNames == {"crash", "backoff", "nl", "learned"}
MCBaseNames == <<"crash", "backoff">>
EventIs(r) == [kind |-> "Event", matches |-> {r}, samples |-> {r}, exotic |-> FALSE]
MCBaseBlocks ==
    [n \in {"crash", "backoff"} |->
        [watch |-> {IF n = "crash" THEN StatusIs("CrashLoopBackOff") ELSE EventIs("BackOff")}, trend |-> {}]]
MCDebounce == [n \in MCNames |-> 1]
MCStored == <<"nl", "learned">>
(* The row a person stages bears the name of a playbook.                   *)
MCPlaybook == [n \in MCNames |-> IF n = "nl" THEN "crash" ELSE n]

Dead == [kind |-> "Pod", matches |-> {}, samples |-> {"Crash Loop"}, exotic |-> FALSE]
Forecast == [template |-> FALSE, direction |-> "rising"]
Good == [watch |-> {StatusIs("Terminating")}, trend |-> {Forecast}]
Mixed == [watch |-> {Dead, StatusIs("CrashLoopBackOff")}, trend |-> {}]
MCCompiled == {Good, [watch |-> {Dead}, trend |-> {}], [watch |-> {StatusIs("Running")}, trend |-> {}]}
MCLegacy == {[status |-> "shadow", raw |-> Mixed]}
MCProposed == {[watch |-> {}, trend |-> {}]}
MCLegal == {"CrashLoopBackOff", "Running", "Terminating"}
MCHealthy == {"Running", "Completed", "Succeeded"}

Base == [objects |-> {"a"}, watched |-> {}, kubectl |-> TRUE, authoring |-> FALSE, predictive |-> FALSE,
         consolidation |-> FALSE, changes |-> 0, events |-> 0, losses |-> 0]
TwoPods == [Base EXCEPT !.objects = {"a", "b"}, !.changes = 1]
Flapping == [Base EXCEPT !.watched = {"shop"}, !.changes = 2, !.losses = 1]
WithEvents == [Base EXCEPT !.events = 2, !.losses = 1]
Authoring == [Base EXCEPT !.authoring = TRUE, !.consolidation = TRUE]
Forecasting == [Base EXCEPT !.authoring = TRUE, !.predictive = TRUE, !.kubectl = FALSE]
NoKubectl == [Base EXCEPT !.kubectl = FALSE, !.changes = 1]
SweepOnly == {Forecasting}
AuthoringOnly == {Authoring}
AllDeployments == {TwoPods, Flapping, WithEvents, Authoring, NoKubectl, Forecasting}
=============================================================================
