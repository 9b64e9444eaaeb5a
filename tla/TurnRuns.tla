------------------------------ MODULE TurnRuns -------------------------------
(***************************************************************************)
(* What the ledger promises of the turns of one native CLI: its rows are a  *)
(* history in which a turn has one run, runs follow one another, and a run  *)
(* that ended keeps its outcome.                                            *)
(***************************************************************************)
EXTENDS Integers, Sequences

CONSTANTS Turn, Outcome, None

VARIABLE runs   \* generation -> the turn it belongs to, and its outcome

Run == [turn : Turn \cup {None}, outcome : Outcome \cup {None}]
Unbegun == [turn |-> None, outcome |-> None]

\* The task is launched before its CLI has a turn.
RunsInit == runs = <<Unbegun>>

Fresh(t) == \A i \in DOMAIN runs : runs[i].turn # t

\* A run is opened for a command, once the last one is over; it may get no turn.
Open ==
    /\ runs[Len(runs)].outcome # None
    /\ runs' = Append(runs, Unbegun)

\* A turn takes the run that has none yet, or opens a run of its own.
Begin(t) ==
    /\ Fresh(t)
    /\ LET n == Len(runs) IN
       \/ /\ runs[n] = Unbegun
          /\ runs' = [runs EXCEPT ![n].turn = t]
       \/ /\ runs[n].outcome # None
          /\ runs' = Append(runs, [turn |-> t, outcome |-> None])

End(o) ==
    LET n == Len(runs) IN
    /\ runs[n].turn # None /\ runs[n].outcome = None
    /\ runs' = [runs EXCEPT ![n].outcome = o]

RunsNext == Open \/ (\E t \in Turn : Begin(t)) \/ (\E o \in Outcome : End(o))

RunsSpec == RunsInit /\ [][RunsNext]_runs

=============================================================================
