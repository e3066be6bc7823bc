---- MODULE MCTdmaMinRtl ----
(* TdmaMinRtl on the ports and traffic of TdmaMinInstances. *)
EXTENDS TdmaMinRtl, TdmaMinInstances
====
