---------------------------- MODULE MCOperatorPod ----------------------------
(* The operator-targets pod with the delays of the chart and of main.go. *)
EXTENDS OperatorPod
=============================================================================
