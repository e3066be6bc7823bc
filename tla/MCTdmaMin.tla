---- MODULE MCTdmaMin ----
(* TdmaMin and its observer on the ports and traffic of TdmaMinInstances. *)
EXTENDS TdmaMinLatency, TdmaMinInstances
====
