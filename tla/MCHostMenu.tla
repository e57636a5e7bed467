------------------------------ MODULE MCHostMenu ------------------------------
(* TLC values for HostMenu; the gate takes no part in this run. *)
EXTENDS HostMenu

MCChoices == Reasons \cup {"reason_skipped"}

=============================================================================
