------------------------------ MODULE MCHosted ------------------------------
(* Small instances of a hosted task for TLC. *)
EXTENDS HostedTask

=============================================================================
