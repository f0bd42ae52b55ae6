---------------------------- MODULE MCSupervisor ----------------------------
(* Instances of Supervisor for TLC. *)
EXTENDS Supervisor

(* The config lists the lighter endpoint first. *)
Ascending == [e \in Endpoint |-> e]
Equal == [e \in Endpoint |-> 1]
=============================================================================
