------------------------------ MODULE HostedTask ------------------------------
(***************************************************************************)
(* One managed task whose CLI runs in a runtime host: how the coordinator   *)
(* brings the host's log into the task's rows.  Each event is committed,    *)
(* its result enqueued for the parent, and then acknowledged, in separate   *)
(* writes; the connection may break, the application may die and the host   *)
(* may end between any two of them, and what was not acknowledged comes     *)
(* again.  The harness is codex: a turn needs no input link, and only a      *)
(* command that meets a task at rest opens the run of its turn beforehand.   *)
(***************************************************************************)
EXTENDS EventFeed, FiniteSets

CONSTANTS
    MaxEvent,   \* bound on the log
    MaxEpoch,   \* bound on owners of the host
    Restarts,   \* bound on deaths of the application
    Refreshes,  \* bound on refreshes the user asks for
    None

VARIABLES
    sent,       \* commands that were handed to the connection and may reach the host
    run,        \* generation -> [turn, state], the rows of the task's history
    mark,       \* runtime_host_recovery of the current row, or None
    results,    \* generations whose result was enqueued for the parent
    link,       \* the connection and the worker or recovery that reads from it
    app,        \* the application and the recovery pass it is in, if any
    late        \* acknowledgements still under way from connections that broke

row == <<run, mark, results>>
taskVars == <<log, acked, epoch, stage, sent, run, mark, results, link, app, late>>

ASSUME TaskAssumption ==
    /\ MaxEvent \in Nat /\ MaxEpoch \in Nat /\ Restarts \in Nat /\ Refreshes \in Nat
    /\ Outcome \cap {"queued", "running", "unconfirmed", "disconnected"} = {}

ASSUME NothingAssumption == None \notin Message \cup Nat \cup Outcome

Active == {"queued", "running", "unconfirmed"}
State == Active \cup Outcome \cup {"disconnected"}

\* The worker's snapshot and protocol state, the host's events it has done with
\* (at), those it takes up before it goes live (upto), and how far the next has
\* come.
Link ==
    [mode : {"none", "catchup", "live", "ended", "replay"},
     owner : Nat, at : Nat, upto : Nat,
     step : {"next", "opened", "stored", "asked"},
     active : Message \cup {None}, accepted : SUBSET Message, finished : SUBSET Message]

NoLink == [mode |-> "none", owner |-> 0, at |-> 0, upto |-> 0, step |-> "next",
           active |-> None, accepted |-> {}, finished |-> {}]

\* The current row.
Gen == Len(run)
Now == run[Gen].state
IsTerminal == Now \in Outcome
IsActive == Now \in Active
Moved(to) == [run EXCEPT ![Gen].state = to]

\* A fresh task: spawn_connection has claimed the host it started.
TaskInit ==
    /\ log = <<>> /\ acked = 0 /\ epoch = 1 /\ stage = "open"
    /\ sent = {}
    /\ run = <<[turn |-> None, state |-> "queued"]>>
    /\ mark = None /\ results = {} /\ late = {}
    /\ link = [NoLink EXCEPT !.mode = "live", !.owner = 1]
    /\ app = [up |-> TRUE, pass |-> "none", deaths |-> 0, refreshes |-> 0]

-----------------------------------------------------------------------------
(* The host *)

HostReports(e) ==
    /\ Len(log) < MaxEvent
    /\ Report(e)
    /\ UNCHANGED <<sent, run, mark, results, link, app, late>>

HostCloses(how) ==
    /\ Close(how)
    /\ UNCHANGED <<sent, run, mark, results, link, app, late>>

\* An acknowledgement that comes through after its connection broke.
LateAcknowledge(l) ==
    /\ late' = late \ {l}
    /\ \/ Acknowledge(l.owner, l.through)
       \/ /\ stage # "open" \/ l.owner # epoch \/ l.through <= acked
          /\ UNCHANGED feed
    /\ UNCHANGED <<sent, run, mark, results, link, app>>

-----------------------------------------------------------------------------
(* The reader *)

PassOver == [app EXCEPT !.pass = "none"]
Reading == link.mode \in {"catchup", "live", "replay"}
Due == log[link.at + 1]
HasNext ==
    /\ Reading
    /\ link.at < (IF link.mode = "catchup" THEN link.upto ELSE Len(log))
At(step, kind) == HasNext /\ link.step = step /\ Due.kind = kind

\* What the reader has read.
Read(kind) == \E i \in 1..link.at : log[i].kind = kind

-----------------------------------------------------------------------------
(* send_user_request *)

\* The worker takes a command between two events.  Ids are fresh: which one it is
\* makes no difference.  The run is stored first; of a command that gets lost the log never tells.
Submit ==
    /\ link.mode = "live" /\ link.step = "next"
    /\ Read("ready") /\ ~Read("disconnected")
    /\ sent # Message
    /\ run' = IF IsTerminal THEN Append(run, [turn |-> None, state |-> "queued"]) ELSE run
    /\ sent' = sent \cup {CHOOSE m \in Message : m \notin sent}
    /\ UNCHANGED <<feed, mark, results, link, app, late>>

-----------------------------------------------------------------------------
(* commit_runtime_event *)

\* runtime_event_is_stale: such an event would be acknowledged unread.
\* EveryEventApplies says that none is.
IsStale ==
    \/ Due.kind = "started" /\ (link.active = Due.msg \/ Due.msg \in link.finished)
    \/ Due.kind = "finished" /\ link.active # Due.msg

AtRest == At("next", "started") /\ ~IsStale /\ IsTerminal

\* mutant: the next turn takes over the row of the last
ReuseRun ==
    /\ AtRest /\ Due.msg \in link.accepted
    /\ run' = [run EXCEPT ![Gen] = [turn |-> Due.msg, state |-> "queued"]]
    /\ link' = [link EXCEPT !.step = "opened"]
    /\ UNCHANGED <<feed, sent, mark, results, app, late>>

\* A turn after one that ended, of a command sent before that end: the next run is
\* stored first, by itself.
OpenRun ==
    /\ AtRest /\ Due.msg \in link.accepted
    /\ run' = Append(run, [turn |-> Due.msg, state |-> "queued"])
    /\ link' = [link EXCEPT !.step = "opened"]
    /\ UNCHANGED <<feed, sent, mark, results, app, late>>

StartTurn ==
    /\ HasNext /\ link.step \in {"next", "opened"} /\ Due.kind = "started"
    /\ ~IsStale /\ ~IsTerminal
    /\ run' = [run EXCEPT ![Gen] = [turn |-> Due.msg, state |-> "running"]]
    /\ link' = [link EXCEPT !.step = "stored", !.active = Due.msg, !.accepted = @ \ {Due.msg}]
    /\ UNCHANGED <<feed, sent, mark, results, app, late>>

\* The start overtook the answer, and the turn before has ended: commit_runtime_event
\* fails.  The worker ends, or the recovery pass does, without an acknowledgement; the
\* next reader of this log comes to the same event.
RefuseStart ==
    /\ AtRest /\ Due.msg \notin link.accepted
    /\ IF link.mode = "live" THEN link' = [NoLink EXCEPT !.mode = "ended"] /\ UNCHANGED app
       ELSE link' = NoLink /\ app' = PassOver
    /\ UNCHANGED <<feed, sent, row, late>>

\* Recovery advances its protocol state also by what the worker leaves alone.
FinishTurn ==
    /\ At("next", "finished") /\ ~IsStale
    /\ run' = Moved(Due.outcome)
    /\ link' = [link EXCEPT !.step = "stored", !.active = None, !.finished = @ \cup {Due.msg},
                            !.accepted = IF link.mode = "live" THEN @ ELSE @ \ {Due.msg}]
    /\ UNCHANGED <<feed, sent, mark, results, app, late>>

NoteAccepted ==
    /\ At("next", "accepted")
    /\ link' = [link EXCEPT !.step = "stored",
                            !.accepted = IF link.mode = "live"
                                            /\ (Due.msg = link.active \/ Due.msg \in link.finished)
                                         THEN @ ELSE @ \cup {Due.msg}]
    /\ UNCHANGED <<feed, sent, row, app, late>>

NoteDisconnected ==
    /\ At("next", "disconnected")
    /\ run' = IF IsTerminal THEN run ELSE Moved("disconnected")
    /\ link' = [link EXCEPT !.step = "stored"]
    /\ UNCHANGED <<feed, sent, mark, results, app, late>>

\* mutant: failed requests are not handled
NoteReady ==
    /\ HasNext /\ link.step = "next" /\ Due.kind = "ready"
    /\ link' = [link EXCEPT !.step = "stored"]
    /\ UNCHANGED <<feed, sent, row, app, late>>

\* Events that leave the row's state alone.
NoteOther ==
    /\ HasNext /\ link.step = "next" /\ Due.kind \in {"ready", "undelivered", "refused"}
    /\ link' = [link EXCEPT !.step = "stored"]
    /\ UNCHANGED <<feed, sent, row, app, late>>

\* commit_runtime_event_dependencies; a replay goes by its own loop.
NoResult == {}     \* mutant: acknowledged before the result is enqueued
LateResult == {Gen + 1}   \* mutant: the result of the generation to come
ResultOfEvent == IF Due.kind = "finished" /\ IsTerminal THEN {Gen} ELSE {}

EnqueueResult ==
    /\ HasNext /\ link.step = "stored"
    /\ results' = results \cup ResultOfEvent
    /\ link' = [link EXCEPT !.step = "asked"]
    /\ UNCHANGED <<feed, sent, run, mark, app, late>>

-----------------------------------------------------------------------------
(* acknowledge_events, persist_recovery_checkpoint *)

Advanced == [link EXCEPT !.at = @ + 1, !.step = "next"]

AcknowledgeEvent ==
    /\ link.mode \in {"catchup", "live"} /\ link.step = "asked"
    /\ Acknowledge(link.owner, link.at + 1)
    /\ link' = Advanced
    /\ UNCHANGED <<sent, row, app, late>>

MarkEvent ==
    /\ link.mode = "replay" /\ link.step = "asked"
    /\ mark' = link.at + 1
    /\ link' = Advanced
    /\ UNCHANGED <<feed, sent, run, results, app, late>>

\* into_connection
GoLive ==
    /\ link.mode = "catchup" /\ link.at = link.upto
    /\ link' = [link EXCEPT !.mode = "live"]
    /\ app' = PassOver
    /\ UNCHANGED <<feed, sent, row, late>>

\* Nothing was left to replay: that is marked as well.
MarkReplayed ==
    /\ link.mode = "replay" /\ link.at = Len(log) /\ mark = None
    /\ mark' = link.at
    /\ UNCHANGED <<feed, sent, run, results, link, app, late>>

EndReplay ==
    /\ link.mode = "replay" /\ link.at = Len(log) /\ mark # None
    /\ results' = IF IsTerminal THEN results \cup {Gen} ELSE results
    /\ run' = IF IsActive THEN Moved("disconnected") ELSE run
    /\ link' = NoLink
    /\ app' = PassOver
    /\ UNCHANGED <<feed, sent, mark, late>>

-----------------------------------------------------------------------------
(* Connections that break *)

\* What the connection may have sent last reaches the host or not.
Abandoned ==
    IF link.step = "asked" /\ link.mode \in {"catchup", "live"}
    THEN late \cup {[owner |-> link.owner, through |-> link.at + 1]} ELSE late

\* A call that fails or takes too long.  Before the connection is live this
\* ends the recovery pass with an error and leaves the row alone.
Break ==
    /\ late' \in {late, Abandoned}
    /\ \/ link.mode = "live" /\ link' = [NoLink EXCEPT !.mode = "ended"] /\ UNCHANGED app
       \/ link.mode = "catchup" /\ link' = NoLink /\ app' = PassOver
    /\ UNCHANGED <<feed, sent, row>>

LoseHost == stage # "open" /\ Break

\* refresh_records: a pass knows from its start whether the task is connected,
\* and a request that finds another pass under way is dropped.
Ignored(connected) == app     \* mutant: nobody asks for the recovery
Requested(connected) ==
    IF app.pass # "none" THEN app
    ELSE [app EXCEPT !.pass = IF connected THEN "owned" ELSE "free"]

\* The end of run_managed_task with classify_runtime_after_disconnect, and the
\* callback it returns to.
EndWorker ==
    /\ link.mode = "ended"
    /\ link' = NoLink
    /\ IF IsTerminal \/ stage = "open" THEN UNCHANGED <<run, app>>
       ELSE IF stage = "exited" /\ acked < Len(log)
       THEN run' = Moved("unconfirmed") /\ app' = Requested(FALSE)
       ELSE /\ run' = Moved(IF stage = "exited" THEN "disconnected" ELSE "unconfirmed")
            /\ UNCHANGED app
    /\ UNCHANGED <<feed, sent, mark, results, late>>

-----------------------------------------------------------------------------
(* refresh_records and recover_runtime_hosts *)

\* The accepted turns of RuntimeHostSnapshot: an answer adds its turn, also to one
\* that has started, or ended, by then; the start and the end remove it.
Awaited(seenOf) ==
    {m \in Message : \E i \in DOMAIN seenOf :
        /\ seenOf[i].kind = "accepted" /\ seenOf[i].msg = m
        /\ \A j \in i + 1..Len(seenOf) :
              seenOf[j].kind \in {"started", "finished"} => seenOf[j].msg # m}

\* mutant: the newest snapshot in place of the acknowledged one
AfterAll(n) ==
    LET turns == Turning(log) IN
    [NoLink EXCEPT
        !.at = n,
        !.active = IF turns = {} THEN None ELSE CHOOSE m \in turns : TRUE,
        !.accepted = Awaited(log),
        !.finished = {m \in Message : Reported(log, "finished", m)}]

\* RuntimeHostSnapshot after the first n events.
After(n) ==
    LET seenOf == SubSeq(log, 1, n)
        turns == Turning(seenOf) IN
    [NoLink EXCEPT
        !.at = n,
        !.active = IF turns = {} THEN None ELSE CHOOSE m \in turns : TRUE,
        !.accepted = Awaited(seenOf),
        !.finished = {m \in Message : Reported(seenOf, "finished", m)}]

\* The task manager is opened, or its list refreshed.
Refresh ==
    /\ app.up /\ app.pass = "none" /\ app.refreshes < Refreshes
    /\ app' = [Requested(link.mode \in {"live", "ended"}) EXCEPT !.refreshes = @ + 1]
    /\ UNCHANGED <<feed, sent, row, link, late>>

\* recover_terminal_task_result comes first for every task.
Recovered == results' = IF IsTerminal THEN results \cup {Gen} ELSE results
Unowned == app.pass = "free" /\ link.mode = "none"

\* Connected when the pass began, or over without a host, or disconnected.
LeaveAlone ==
    /\ \/ app.pass = "owned"
       \/ Unowned /\ (IF IsTerminal THEN stage # "open" ELSE ~IsActive)
    /\ Recovered
    /\ app' = PassOver
    /\ UNCHANGED <<feed, sent, run, mark, link, late>>

Reattach ==
    /\ Unowned /\ (IsTerminal \/ IsActive)
    /\ epoch < MaxEpoch /\ Claim
    /\ link' = [After(acked) EXCEPT !.mode = "catchup", !.owner = epoch + 1, !.upto = Len(log)]
    /\ Recovered
    /\ UNCHANGED <<sent, run, mark, app, late>>

ReplayFrom == IF mark = None THEN acked ELSE mark

Replay ==
    /\ Unowned /\ IsActive /\ stage = "exited"
    /\ link' = [After(ReplayFrom) EXCEPT !.mode = "replay", !.upto = Len(log)]
    /\ UNCHANGED <<feed, sent, row, app, late>>

GiveUp ==
    /\ Unowned /\ IsActive /\ stage = "gone"
    /\ run' = Moved("unconfirmed")
    /\ app' = PassOver
    /\ UNCHANGED <<feed, sent, mark, results, link, late>>

-----------------------------------------------------------------------------
(* The application *)

AppDies ==
    /\ app.up /\ app.deaths < Restarts
    /\ app' = [app EXCEPT !.up = FALSE, !.pass = "none", !.deaths = @ + 1]
    /\ link' = NoLink
    /\ late' \in {late, Abandoned}
    /\ UNCHANGED <<feed, sent, row>>

\* restore_local_tasks: load_tasks marks the active row, and only then does the
\* coordinator look for hosts.
AppStarts ==
    /\ ~app.up
    /\ run' = IF IsActive THEN Moved("disconnected") ELSE run
    /\ app' = [app EXCEPT !.up = TRUE, !.pass = "free"]
    /\ UNCHANGED <<feed, sent, mark, results, link, late>>

Commit ==
    OpenRun \/ RefuseStart \/ StartTurn \/ FinishTurn \/ NoteAccepted
    \/ NoteDisconnected \/ NoteOther \/ EnqueueResult
Settle == AcknowledgeEvent \/ MarkEvent \/ GoLive \/ MarkReplayed \/ EndReplay
Recover == LeaveAlone \/ Reattach \/ Replay \/ GiveUp

TaskNext ==
    \/ \E e \in Possible(sent) : HostReports(e)
    \/ \E how \in {"exited", "gone"} : HostCloses(how)
    \/ \E l \in late : LateAcknowledge(l)
    \/ Submit \/ Commit \/ Settle
    \/ Break \/ EndWorker
    \/ Refresh \/ Recover
    \/ AppDies \/ AppStarts

TaskSpec == TaskInit /\ [][TaskNext]_taskVars

\* The worker and the recovery are futures the application's executor polls
\* while it lives; each call ends, by its 10 s limit at the latest.  Nothing is
\* assumed of the CLI, the user, or how often connections break.
Fairness ==
    /\ WF_taskVars(Commit) /\ WF_taskVars(Settle)
    /\ WF_taskVars(LoseHost) /\ WF_taskVars(EndWorker) /\ WF_taskVars(Recover)

FairTaskSpec == TaskSpec /\ Fairness

-----------------------------------------------------------------------------
(* Properties *)

\* Types of the rows, the link and the application.
HostedTypeOK ==
    /\ log \in Seq(Event) /\ acked \in 0..Len(log) /\ epoch \in Nat
    /\ stage \in {"open", "exited", "gone"} /\ sent \subseteq Message
    /\ run \in Seq([turn : Message \cup {None}, state : State]) /\ run # <<>>
    /\ mark \in Nat \cup {None} /\ results \subseteq DOMAIN run
    /\ link \in Link
    /\ app \in [up : BOOLEAN, pass : {"none", "free", "owned"}, deaths : Nat, refreshes : Nat]
    /\ late \subseteq [owner : Nat, through : Nat]

\* What an acknowledged event says is in the rows, also for a worker that was
\* cut off in between: a turn that started has its run, a turn that finished has
\* its outcome in that run, and the outcome is on its way to the parent.  The
\* host need not keep the event any longer (coordinator.rs:4508-4525 and
\* 1841-1878).
Behind == IF mark = None THEN acked ELSE mark
Shown(e) ==
    CASE e.kind = "started" -> \E g \in DOMAIN run : run[g].turn = e.msg
      [] e.kind = "finished" ->
            \E g \in results : run[g] = [turn |-> e.msg, state |-> e.outcome]
      [] e.kind \notin {"started", "finished"} -> TRUE
AckedIsStored == \A i \in 1..Behind : Shown(log[i])

\* No event that was not acknowledged is passed over as a repetition on account of
\* protocol state rebuilt from the host's snapshot, whatever came before what.  And a
\* start stops its reader only when the answer to its command is really missing from
\* the log so far, never because a reader forgot it (coordinator.rs:3963-3985,
\* 4186-4222, runtime_host.rs:339-420).
EveryEventApplies ==
    (HasNext /\ link.step = "next") =>
        /\ ~IsStale
        /\ (/\ Due.kind = "started" /\ IsTerminal
            /\ \E i \in 1..link.at : log[i].kind = "accepted" /\ log[i].msg = Due.msg)
              => Due.msg \in link.accepted

\* However often an event is committed again, a turn has one run, its outcome
\* stays, and runs follow one another (coordinator.rs:4218-4256, 4632-4912).
Runs == INSTANCE TurnRuns WITH
    Turn <- Message,
    runs <- [g \in DOMAIN run |->
                [turn |-> run[g].turn,
                 outcome |-> IF run[g].state \in Outcome THEN run[g].state ELSE None]]
RunsImplemented == Runs!RunsSpec

\* "Reattaches hosts that are still alive" (coordinator.rs:657): a recovery pass
\* does not go past a host in the middle of a turn without connecting to it.
LiveHostReattached ==
    [][~( /\ app.pass = "free" /\ app'.pass = "none" /\ app'.up
          /\ link.mode = "none" /\ stage = "open"
          /\ Turning(log) # {} /\ ~Was(log, "disconnected") )]_taskVars

\* What the host reports while the connection lives is stored and acknowledged,
\* to the last event it reports, or the connection is found broken
\* (coordinator.rs:2893-2960).
LiveEventsReachLedger ==
    (link.mode = "live") ~> (acked = Len(log) \/ link.mode # "live")

\* "Settles the unconfirmed events of hosts that exited" (coordinator.rs:657):
\* once its host has exited, a task does not stay active.  The premise leaves out
\* a refresh by the user that is under way, or begins, at that moment: the
\* worker's own request is dropped then (coordinator.rs:659-661), nothing asks
\* again, and the task stays unconfirmed until the next refresh.
Undisturbed == app.pass = "none" /\ app.refreshes = Refreshes
ExitedTaskSettles ==
    (stage = "exited" /\ link.mode \in {"live", "ended"} /\ Undisturbed)
        ~> (~IsActive \/ ~app.up)

=============================================================================
