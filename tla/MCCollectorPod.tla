---------------------------- MODULE MCCollectorPod ----------------------------
(* The containers the charts deploy, with short grace and few changes.        *)
EXTENDS CollectorPod

Container(os, replicaset, ccp, operator, https, otlp, proxy) ==
    [os |-> os, replicaset |-> replicaset, ccp |-> ccp, operator |-> operator, https |-> https,
     otlp |-> otlp, proxy |-> proxy]

NoOperator == {Container("linux", TRUE, FALSE, FALSE, FALSE, FALSE, "none")}

MCKinds ==
    {Container("linux", TRUE, FALSE, TRUE, TRUE, FALSE, "credentials"),
     Container("linux", TRUE, FALSE, TRUE, FALSE, FALSE, "none"),
     Container("linux", TRUE, FALSE, TRUE, FALSE, FALSE, "bare"),
     Container("linux", FALSE, FALSE, FALSE, FALSE, FALSE, "none"),
     Container("linux", FALSE, FALSE, FALSE, FALSE, TRUE, "none"),
     Container("windows", FALSE, FALSE, FALSE, FALSE, FALSE, "none"),
     Container("linux", TRUE, TRUE, TRUE, FALSE, FALSE, "none")} \cup NoOperator

\* As in the charts, Windows is probed less often than a failure needs probes.
MCPerMinute == [os \in OS |-> IF os = "windows" THEN 1 ELSE 2]
=============================================================================
