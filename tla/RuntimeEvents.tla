---------------------------- MODULE RuntimeEvents ----------------------------
(***************************************************************************)
(* What the adapter of a native CLI reports, and in which order.  The        *)
(* adapter is codex's: it answers each command once and lets one submission  *)
(* be under way at a time, but the notification that a turn started, or even *)
(* that it finished, may overtake the answer to the command that asked for   *)
(* it.  A turn is named after that command.                                  *)
(***************************************************************************)
EXTENDS Integers, Sequences

CONSTANTS
    Message,    \* message ids of commands
    Outcome     \* how a turn may end: completed, failed, cancelled


\* RuntimeEventKind, without the events that only carry text or approvals.
\* "undelivered" is the host's own answer for a CLI that is gone.
Event ==
    [kind : {"accepted", "started", "undelivered", "refused"}, msg : Message]
    \cup [kind : {"finished"}, msg : Message, outcome : Outcome]
    \cup [kind : {"ready", "disconnected"}]

Was(log, kind) == \E i \in DOMAIN log : log[i].kind = kind
Reported(log, kind, m) ==
    \E i \in DOMAIN log : log[i].kind = kind /\ log[i].msg = m
Answered(log, m) ==
    \E kind \in {"accepted", "undelivered", "refused"} : Reported(log, kind, m)

\* The turns the CLI is in: one at most.
Turning(log) == {m \in Message : Reported(log, "started", m) /\ ~Reported(log, "finished", m)}

\* The submission under way: it has a turn, and is not both answered and finished.
UnderWay(log) ==
    {m \in Message : /\ Reported(log, "started", m) \/ Reported(log, "accepted", m)
                     /\ ~(Answered(log, m) /\ Reported(log, "finished", m))}

\* The next reports of an adapter that took the commands in taken.  Of the CLI it is
\* assumed that it starts only turns it was asked for, and ends a turn after its start.
Reports(log, taken) ==
    LET alone(m) == UnderWay(log) \subseteq {m}
        unanswered == {m \in taken : ~Answered(log, m)}
    IN IF Was(log, "disconnected") THEN {}
       ELSE {[kind |-> "disconnected"]}
            \cup [kind : {"refused"}, msg : unanswered]
            \cup IF ~Was(log, "ready") THEN {[kind |-> "ready"]}
                 ELSE [kind : {"accepted"}, msg : {m \in unanswered : alone(m)}]
                      \cup [kind : {"started"},
                            msg : {m \in taken : /\ alone(m)
                                                 /\ ~Reported(log, "started", m)
                                                 /\ m \in unanswered \/ Reported(log, "accepted", m)}]
                      \cup [kind : {"finished"}, msg : Turning(log), outcome : Outcome]

=============================================================================
