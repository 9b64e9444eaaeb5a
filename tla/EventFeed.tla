------------------------------ MODULE EventFeed ------------------------------
(***************************************************************************)
(* What a runtime host promises the application, whatever becomes of its    *)
(* journal, of the requests under way and of its connections: a log of the  *)
(* CLI's reports that only grows, an owner that only a later owner          *)
(* replaces, and a mark up to which that owner has acknowledged the log.    *)
(***************************************************************************)
EXTENDS RuntimeEvents

VARIABLES
    log,    \* the events that can be pulled
    acked,  \* the events that were acknowledged: a number
    epoch,  \* the owner
    stage   \* "open", "exited" with a receipt, or "gone"

feed == <<log, acked, epoch, stage>>

FeedInit == log = <<>> /\ acked = 0 /\ epoch = 0 /\ stage = "open"

\* The next report on the commands in sent: of the adapter, or of the host in the
\* place of an adapter that is gone.
Possible(sent) ==
    Reports(log, sent)
    \cup [kind : {"undelivered"}, msg : {m \in sent : ~Answered(log, m)}]

Report(e) ==
    /\ stage = "open"
    /\ log' = Append(log, e)
    /\ UNCHANGED <<acked, epoch, stage>>

Claim ==
    /\ stage = "open"
    /\ epoch' = epoch + 1
    /\ UNCHANGED <<log, acked, stage>>

\* Acknowledged by the owner of now; an earlier one is refused.
Acknowledge(owner, through) ==
    /\ stage = "open" /\ owner = epoch /\ 0 < owner
    /\ acked < through /\ through <= Len(log)
    /\ acked' = through
    /\ UNCHANGED <<log, epoch, stage>>

Close(how) ==
    /\ stage = "open"
    /\ stage' = how
    /\ UNCHANGED <<log, acked, epoch>>

FeedNext ==
    \/ \E e \in Possible(Message) : Report(e)
    \/ Claim
    \/ \E n \in 1..Len(log) : Acknowledge(epoch, n)
    \/ \E how \in {"exited", "gone"} : Close(how)

FeedSpec == FeedInit /\ [][FeedNext]_feed

=============================================================================
