------------------------------ MODULE MCImages ------------------------------
(* Small instances of the image submission for TLC. *)
EXTENDS ImageSubmission, TLC

CONSTANTS window, content, image, again

\* Two inputs of the same content from one window.
ImageOwner == (image :> 1) @@ (again :> 2)
OneWindow == [s \in Submission |-> window]
SameContent == [s \in Submission |-> content]

=============================================================================
