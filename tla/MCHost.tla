------------------------------- MODULE MCHost -------------------------------
(* Small instances of the runtime host for TLC. *)
EXTENDS RuntimeHost, TLC

\* Connections, commands and what they say are interchangeable.
Alike == Permutations(Client) \cup Permutations(Message) \cup Permutations(Body)

=============================================================================
