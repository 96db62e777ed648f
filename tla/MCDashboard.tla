----------------------------- MODULE MCDashboard -----------------------------
(* Instances of Dashboard. *)
EXTENDS Dashboard

\* One setting of two is set in the environment, to another value than the default.
OneInEnvironment == [f \in {"g"} |-> 1]
=============================================================================
