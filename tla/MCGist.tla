------------------------------ MODULE MCGist --------------------------------
(* Small instances of the gist and its devices for TLC. *)
EXTENDS GistSync, TLC

\* Devices are interchangeable, for properties of states and steps.
Alike == Permutations(Device)

=============================================================================
