--------------------------- MODULE DurableMailbox ---------------------------
(***************************************************************************)
(* What the message table promises: a letter keeps its content for ever, is *)
(* handed over at most once, is settled only after it was handed over, and  *)
(* may be withdrawn only while nobody was given it.  After a crash a sent   *)
(* letter therefore stays unconfirmed: it is neither sent again nor called  *)
(* undelivered.                                                             *)
(***************************************************************************)
CONSTANTS Id, Letters, Nothing

VARIABLE letter   \* each id's [content, phase], or Nothing

Init == letter = [i \in Id |-> Nothing]

Becomes(i, from, to) ==
    /\ letter[i] # Nothing /\ letter[i].phase = from
    /\ letter'[i] = [letter[i] EXCEPT !.phase = to]

\* A result that nobody may execute any more is filed withdrawn at once.
Post(i) ==
    /\ letter[i] = Nothing /\ letter'[i] # Nothing
    /\ letter'[i].content \in Letters
    /\ letter'[i].phase \in {"queued", "cancelled"}

Dispatch(i) == Becomes(i, "queued", "sent")
Settle(i) == Becomes(i, "sent", "acknowledged") \/ Becomes(i, "sent", "failed")
Withdraw(i) == Becomes(i, "queued", "cancelled")

\* One transaction may withdraw many letters and post one, but hands over or
\* settles a single one.
Next ==
    \/ \E i \in Id :
          /\ Dispatch(i) \/ Settle(i)
          /\ \A j \in Id \ {i} : letter'[j] = letter[j]
    \/ \A i \in Id : letter'[i] = letter[i] \/ Post(i) \/ Withdraw(i)

Spec == Init /\ [][Next]_letter

=============================================================================
