---------------------------- MODULE LedgerClients ----------------------------
(***************************************************************************)
(* What the callers of the ledger send it: the task manager and the launch  *)
(* pane (start, resume), the task coordinator's workers (inputs, runtime    *)
(* events, results), the Oz conversation bridge, the local mailbox and the  *)
(* restore at application start.  A caller builds the row it writes from a  *)
(* row it read earlier: that is the current row, or one another caller has  *)
(* replaced since (held).  Between two requests anything may interleave,    *)
(* and the application may die and restart.                                 *)
(***************************************************************************)
EXTENDS TaskLedger

CONSTANTS
    RunLimit,   \* task -> bound on the runs this instance explores
    RevLimit,   \* task -> bound on the revisions of one run
    Reports,    \* task -> the states its clients report in this instance
    Holds,      \* tasks of which some client keeps an out-of-date row
    Restarts    \* bound on application restarts

VARIABLES
    held,       \* the row some client read before the last write, or None
    starting,   \* tasks whose worker committed a launch but no process yet
    restarts    \* application restarts so far

vars == <<task, hist, msg, held, starting, restarts>>
memory == <<held, starting, restarts>>

ASSUME LimitAssumption ==
    /\ \A t \in Task : RunLimit[t] <= MaxGen /\ RevLimit[t] <= MaxRev
    /\ \A t \in Task : Reports[t] \subseteq TaskState

ClientInit ==
    Init /\ held = [t \in Task |-> None] /\ starting = {} /\ restarts = 0

Known(t) == {task[t], held[t]} \ {None}

Within(t, row) == row.gen <= RunLimit[t] /\ row.rev <= RevLimit[t]

\* next_task_generation and resumed_task: the configuration is inherited.
NextRun(row) ==
    [row EXCEPT !.gen = @ + 1, !.rev = 0, !.state = "queued",
                !.result = None, !.evidence = None]

Revised(row) == [row EXCEPT !.rev = @ + 1]

\* commit_transition, and the checkpoints that follow the same rule.
Commit(t, old, new) ==
    /\ Within(t, new)
    /\ CheckpointTask(t, new, old.gen)
    /\ UNCHANGED memory

CommitWithMessage(t, old, new, m) ==
    /\ Within(t, new)
    /\ CheckpointTaskWithMessage(t, new, old.gen, m)
    /\ UNCHANGED memory

Managed(t) == Harness[t] # "oz"

\* Tasks whose worker is past its launch and whose row row shows a connection.
Connected(t, row) == t \notin starting /\ row.state # "disconnected"

\* The rows that show an active_turn_id.
Turning(row) == row.state \in {"running", "waiting_for_user"}

-----------------------------------------------------------------------------
(* launch, resume, start *)

LaunchTask(t) ==
    LET new(pgen) ==
        [gen |-> 1, rev |-> 0, state |-> "queued", session |-> None,
         runtime |-> None, result |-> None, evidence |-> None, pgen |-> pgen,
         pending |-> <<>>, current |-> None] IN
    /\ IF Parent[t] = None THEN CheckpointTask(t, new(None), None)
       ELSE \E p \in Known(Parent[t]) : CheckpointTask(t, new(p.gen), None)
    /\ starting' = IF Managed(t) THEN starting \cup {t} ELSE starting
    /\ UNCHANGED <<held, restarts>>

\* resumed_task, and the new parent run of a fresh exchange of the user.
ResumeTask(t) ==
    \E old \in Known(t) :
       /\ ~IsActive(old) /\ (Managed(t) => old.session # None)
       /\ Within(t, NextRun(old))
       /\ CheckpointTask(t, NextRun(old), old.gen)
       /\ starting' = IF Managed(t) THEN starting \cup {t} ELSE starting
       /\ UNCHANGED <<held, restarts>>

\* run_managed_task: the launch is claimed for a new process, and what the
\* previous process still had pending stays behind in history.
StartProcess(t) ==
    \E old \in Known(t) :
       /\ t \in starting /\ old.state = "queued"
       /\ LET new == [Revised(old) EXCEPT !.runtime = <<t, old.gen>>,
                                          !.pending = <<>>, !.current = None] IN
          /\ Within(t, new) /\ CheckpointTask(t, new, old.gen)
       /\ starting' = starting \ {t}
       /\ UNCHANGED <<held, restarts>>

-----------------------------------------------------------------------------
(* what runtimes and panes report *)

\* SessionReady binds the native session the process announced.
BindSession(t) ==
    \E old \in Known(t), x \in Session :
       /\ Managed(t) /\ Connected(t, old) /\ old.session = None
       /\ Commit(t, old, [Revised(old) EXCEPT !.session = x])

\* Approvals, unconfirmed outcomes, disconnections and reattachments.
ReportState(t) ==
    \E old \in Known(t), state \in Reports[t] \ Terminal :
       /\ ~IsTerminal(old) /\ state \notin {"queued", old.state}
       /\ t \notin starting
       /\ old.state = "queued" =>
             /\ state = "running" => Harness[t] \in {"oz", "codex"}  \* else StartTurn
             /\ state = "waiting_for_user" => ~Managed(t)
       /\ Commit(t, old, [Revised(old) EXCEPT !.state = state])

\* TurnFinished, a failed launch, a cancelled pane.
FinishRun(t) ==
    \E old \in Known(t), state \in Reports[t] \cap Terminal,
       r \in Result, e \in Evidence :
       /\ ~IsTerminal(old)
       /\ Managed(t) /\ state = "completed" => t \notin starting /\ old.state # "queued"
       /\ Commit(t, old, [Revised(old) EXCEPT !.state = state, !.result = r, !.evidence = e])

-----------------------------------------------------------------------------
(* inputs of the user, and the native queue *)

UserInput(t, gen, i) ==
    [id |-> i, from |-> t, to |-> t, sgen |-> gen, rgen |-> gen,
     subject |-> "user_input", body |-> Submit, state |-> "queued", receipt |-> None]

NewLink(i, sgen, runtime, mail) ==
    [id |-> i, sgen |-> sgen, runtime |-> runtime, turn |-> None, mail |-> mail]

WithoutMail(link) == IF link = None THEN None ELSE [link EXCEPT !.mail = None]

AnyLength(row) == TRUE   \* mutant: the native queue has no limit

\* MAX_GROK_PENDING_INPUTS bounds the waiting inputs and the current one together.
Fits(row) == Len(row.pending) + (IF row.current = None THEN 0 ELSE 1) <= LinkLimit

\* verify_grok_input_message: the link leads to the message it was made for.
Verified(t, row, link) ==
    LET m == msg[link.id]
        original == IF link.sgen = row.gen THEN row ELSE hist[t][link.sgen] IN
    /\ m # None /\ m.to = t /\ m.rgen = link.sgen
    /\ \/ m.state = "sent"
       \/ m.state = "acknowledged" /\ m.receipt = "native_protocol" /\ link.turn # None
    /\ original # None /\ row.session # None
    /\ original.session = row.session /\ original.runtime = link.runtime
    /\ IF link.mail = None
       THEN m.from = t /\ m.sgen = link.sgen /\ m.subject = "user_input" /\ m.body = Submit
       ELSE /\ hist[m.from][m.sgen] # None
            /\ MailboxOrigin(m, hist[m.from][m.sgen], original, link.mail)

\* verify_grok_pending_inputs, with the queue grok_input_links read.
VerifiedQueue(t, row, links) ==
    \A k \in 1 .. Len(links) :
       links[k].runtime = row.runtime /\ Verified(t, row, links[k])

\* send_user_request for grok: the queue link and the input in one transaction.
GrokSubmit(t, old, i) ==
    LET next == IF IsTerminal(old) THEN [NextRun(old) EXCEPT !.current = None]
                                   ELSE Revised(old)
        new == [next EXCEPT !.pending =
                  Append(@, NewLink(i, next.gen, old.runtime, None))] IN
    /\ Harness[t] = "grok" /\ QueueWellFormed(old) /\ Fits(new)
    /\ IsTerminal(old) => VerifiedQueue(t, old, old.pending)
    /\ CommitWithMessage(t, old, new, UserInput(t, new.gen, i))

\* For claude one pending input; a turn of the user ends the result chain.
ClaudeSubmit(t, old, i) ==
    LET next == IF IsTerminal(old) THEN NextRun(old) ELSE Revised(old)
        new == [next EXCEPT !.pending = <<NewLink(i, next.gen, None, None)>>,
                            !.current = WithoutMail(@)] IN
    /\ Harness[t] = "claude" /\ old.pending = <<>>
    /\ CommitWithMessage(t, old, new, UserInput(t, new.gen, i))

CodexSubmit(t, old, i) ==
    /\ Harness[t] = "codex"
    /\ \/ /\ IsTerminal(old)
          /\ CommitWithMessage(t, old, NextRun(old), UserInput(t, old.gen + 1, i))
       \/ /\ ~IsTerminal(old)
          /\ EnqueueMessage(UserInput(t, old.gen, i)) /\ UNCHANGED memory

\* The first input of a fresh process is stored before its session is ready.
PrepareInput(t, i) ==
    \E old \in Known(t) :
       /\ Managed(t) /\ Connected(t, old)
       /\ old.state = "queued" /\ old.rev = 1 /\ old.runtime = <<t, old.gen>>
       /\ \A j \in Input : msg[j] # None => msg[j].from # t \/ msg[j].sgen # old.gen
       /\ EnqueueMessage(UserInput(t, old.gen, i)) /\ UNCHANGED memory

\* An input already stored is not submitted again, unless it is the prepared one.
SubmitInput(t, i) ==
    \E old \in Known(t) :
       /\ Connected(t, old)
       /\ msg[i] # None => /\ msg[i] = UserInput(t, old.gen, i)
                            /\ \A l \in LinksOf(old) : l.id # i
       /\ GrokSubmit(t, old, i) \/ ClaudeSubmit(t, old, i) \/ CodexSubmit(t, old, i)

\* What deliver_result and send_mailbox_request ask of the worker's row before it
\* claims or hands over the result m; the bridge of an Oz parent has no row.
Offered(m, old) ==
    CASE Harness[m.to] = "grok" -> old.state = "completed" /\ old.pending = <<>>
      [] Harness[m.to] = "claude" ->
           /\ old.pending = <<>>
           /\ old.state = "completed" \/ (IsActive(old) /\ m.rgen = old.gen)
      [] Harness[m.to] = "codex" -> m.rgen = old.gen /\ IsActive(old)
      [] OTHER -> TRUE

\* A worker hands over mail of the run it serves, and a result in the request
\* that claimed it: what the claim found of its row still holds.
HandsOver(m, old) ==
    IF IsResult(m)
    THEN Offered(m, old) /\ (old.state = "completed" /\ Harness[m.to] = "claude"
                               => ClaudeHistory(hist, msg, m, old))
    ELSE m.rgen = old.gen /\ IsActive(old)

\* send_mailbox_action for grok: a sent message enters the native queue.
GrokLink(t, old, m) ==
    LET new == [Revised(old) EXCEPT !.pending =
                  Append(@, NewLink(m.id, m.rgen, old.runtime, Content(m)))] IN
    /\ Harness[t] = "grok" /\ QueueWellFormed(old) /\ Fits(new)
    /\ \A l \in LinksOf(old) : l.id # m.id
    /\ IF IsResult(m) THEN GrokHistory(hist, m, old) ELSE old.state # "unconfirmed"
    /\ hist[m.from][m.sgen] # None /\ hist[t][m.rgen] # None
    /\ MailboxOrigin(m, hist[m.from][m.sgen], hist[t][m.rgen], Content(m))
    /\ Commit(t, old, new)

ClaudeLink(t, old, m) ==
    /\ Harness[t] = "claude" /\ old.pending = <<>>
    /\ Commit(t, old, [Revised(old) EXCEPT !.pending =
                <<NewLink(m.id, old.gen, None, IF IsResult(m) THEN Content(m) ELSE None)>>])

LinkMail(i) ==
    LET m == msg[i] IN
    /\ m # None /\ m.state = "sent" /\ m.subject # "user_input"
    /\ \E old \in Known(m.to) :
          /\ Connected(m.to, old) /\ HandsOver(m, old)
          /\ GrokLink(m.to, old, m) \/ ClaudeLink(m.to, old, m)

FreshTurn(row, n) == \A l \in LinksOf(row) : l.turn # n

\* MessageAccepted for grok: the native turn is recorded before the receipt.
AcceptTurn(t) ==
    \E old \in Known(t), n \in Turn :
       /\ Harness[t] = "grok" /\ Connected(t, old) /\ QueueWellFormed(old)
       /\ old.pending # <<>> /\ old.pending[1].turn = None
       /\ FreshTurn(old, n) /\ Verified(t, old, old.pending[1])
       /\ Commit(t, old, [Revised(old) EXCEPT !.pending[1].turn = n])

\* mutant: the turn is believed before its receipt is durable
HandedOver(id) == msg[id] # None /\ msg[id].state \in {"sent", "acknowledged"}
Received(id) == msg[id] # None /\ msg[id].state = "acknowledged"

\* TurnStarted: the accepted head of the queue becomes the current input.  After
\* a finished run it first opens the next run, still queued.
GrokStart(t, old, head, next) ==
    /\ Harness[t] = "grok" /\ QueueWellFormed(old)
    /\ head.turn # None /\ Verified(t, old, head)
    /\ IsTerminal(old) => VerifiedQueue(t, old, Tail(old.pending))
    /\ Commit(t, old, [next EXCEPT !.pending = Tail(@), !.current = head])

ClaudeStart(t, old, head, next) ==
    /\ Harness[t] = "claude" /\ head.sgen = old.gen
    /\ IsTerminal(old) /\ head.mail # None => Content(msg[head.id]) = head.mail
    /\ Commit(t, old, [next EXCEPT !.pending = IF IsTerminal(old) THEN @ ELSE <<>>,
                                   !.current = head])

StartTurn(t) ==
    \E old \in Known(t) :
       /\ Connected(t, old) /\ ~Turning(old) /\ old.pending # <<>>
       /\ LET head == old.pending[1]
              next == IF IsTerminal(old) THEN NextRun(old)
                      ELSE [Revised(old) EXCEPT !.state = "running"] IN
          /\ Received(head.id)
          /\ GrokStart(t, old, head, next) \/ ClaudeStart(t, old, head, next)

\* The second write of TurnStarted, once the next run is opened.
RunTurn(t) ==
    \E old \in Known(t) :
       /\ Connected(t, old) /\ old.state = "queued" /\ old.current # None
       /\ Harness[t] = "claude" => old.pending # <<>> /\ old.pending[1] = old.current
       /\ Commit(t, old,
            [Revised(old) EXCEPT !.state = "running",
                !.pending = IF Harness[t] = "claude" THEN <<>> ELSE @])

\* RequestFailed and InputJoined: a settled input leaves the queue.
DropInput(t) ==
    \E old \in Known(t), k \in 1 .. LinkLimit :
       /\ Connected(t, old) /\ k <= Len(old.pending)
       /\ LET m == msg[old.pending[k].id] IN
          /\ m # None
          /\ \/ m.state = "failed"
             \/ /\ Harness[t] = "claude" /\ m.state = "acknowledged"
                /\ Turning(old) /\ old.pending[k].sgen = old.gen
       /\ Commit(t, old, [Revised(old) EXCEPT !.pending =
             SubSeq(@, 1, k - 1) \o SubSeq(@, k + 1, Len(@))])

-----------------------------------------------------------------------------
(* mail *)

SendMessage(i) ==
    \E a, b \in Task : \E p \in Known(a), q \in Known(b), text \in Text :
       /\ a # b
       /\ EnqueueMessage([id |-> i, from |-> a, to |-> b, sgen |-> p.gen,
             rgen |-> q.gen, subject |-> "message", body |-> text,
             state |-> "queued", receipt |-> None])
       /\ UNCHANGED memory

MintResult(t) == EnqueueTaskResult(t) /\ UNCHANGED memory

\* deliver_result: for a completed run the worker sends the row it holds, and
\* the claim is rejected when that is no longer the stored one.
DeliverResult(i) ==
    /\ msg[i] # None
    /\ \E old \in Known(msg[i].to) :
          /\ Managed(msg[i].to) =>
                /\ Connected(msg[i].to, old) /\ Offered(msg[i], old)
                /\ old.state = "completed" => old = task[msg[i].to]
          /\ ClaimTaskResult(i, old.state = "completed")
    /\ UNCHANGED memory

ClaimMail(i) ==
    /\ ClaimParentHistoryMessage(i) \/ ClaimManagedMessage(i)
    /\ UNCHANGED memory

\* A message that is not a result is marked sent by whoever hands it over.
MarkSent(i) ==
    /\ msg[i] # None /\ ~IsResult(msg[i]) /\ Harness[msg[i].to] # "oz"
    /\ AcknowledgeMessage(i, "sent") /\ UNCHANGED memory

\* A receipt counts once the queue of the worker's row shows what it answers: for
\* grok with its native turn, which is recorded first.
Expected(m, row) ==
    Harness[m.to] \in {"grok", "claude"} =>
       \E l \in LinksOf(row) : l.id = m.id /\ (Harness[m.to] = "grok" => l.turn # None)

\* The native receipt, or the failure, of something that was sent.
SettleSent(i, state) ==
    /\ msg[i] # None /\ msg[i].state = "sent" /\ Managed(msg[i].to)
    /\ state = "acknowledged" => \E row \in Known(msg[i].to) : Expected(msg[i], row)
    /\ AcknowledgeMessage(i, state) /\ UNCHANGED memory

RecordInHistory(i) ==
    /\ msg[i] # None /\ msg[i].state = "sent"
    /\ AcknowledgeApplicationHistory(i) /\ UNCHANGED memory

-----------------------------------------------------------------------------
\* Some client keeps the row it read while others go on writing.
Hold(t) ==
    /\ t \in Holds /\ held[t] # task[t]
    /\ held' = [held EXCEPT ![t] = task[t]]
    /\ UNCHANGED <<task, hist, msg, starting, restarts>>

\* The application dies and restores its tasks: every memory of a row is lost.
Restart ==
    /\ restarts < Restarts /\ restarts' = restarts + 1
    /\ RecoverTasks
    /\ held' = [t \in Task |-> None] /\ starting' = {}

ClientNext ==
    \/ \E t \in Task :
          \/ LaunchTask(t) \/ ResumeTask(t) \/ StartProcess(t)
          \/ BindSession(t) \/ ReportState(t) \/ FinishRun(t)
          \/ AcceptTurn(t) \/ StartTurn(t) \/ RunTurn(t) \/ DropInput(t)
          \/ MintResult(t) \/ Hold(t)
    \/ \E t \in Task, i \in Input : PrepareInput(t, i) \/ SubmitInput(t, i)
    \/ \E i \in Input : SendMessage(i) \/ ClaimMail(i) \/ MarkSent(i)
    \/ \E i \in MessageId :
          \/ LinkMail(i) \/ DeliverResult(i) \/ RecordInHistory(i)
          \/ SettleSent(i, "acknowledged") \/ SettleSent(i, "failed")
    \/ Restart

ClientSpec == ClientInit /\ [][ClientNext]_vars

-----------------------------------------------------------------------------
(* What the ledger and its clients promise together. *)

\* A stored message is never mistaken for no message.
ASSUME LetterAssumption == None \notin [content : Message, phase : MessageState]

\* What the abstract mailbox sees of the message table.
LetterOf(m) ==
    IF m = None THEN None ELSE [content |-> Content(m), phase |-> m.state]

Letter == [i \in MessageId |-> LetterOf(msg[i])]

Mailbox == INSTANCE DurableMailbox WITH
    Id <- MessageId, Letters <- Message, Nothing <- None, letter <- Letter

\* The message table and all who use it keep the promise of a durable mailbox:
\* nothing is handed over twice, settled unsent, or withdrawn after it was sent,
\* through resumes, cancelled runs and restarts.
MailboxImplemented == Mailbox!Spec

\* A grok process holds one unconfirmed result at most, however its runs and the
\* results of its children interleave (the slot test of claim_result_if_current).
OneUnconfirmedResult ==
    \A t \in Task :
       Harness[t] = "grok" =>
          \A m, n \in SentResults(t) :
             m # n => /\ ~SameProcess(hist[t][m.rgen], hist[t][n.rgen])
                      /\ ~SameProcess(hist[t][n.rgen], hist[t][m.rgen])

\* No result is handed to a claude process across a turn of the user: once the
\* user wrote into a later run, results addressed to earlier runs stay unsent
\* (claude_result_history_matches, send_user_request).
NoResultCrossesUserTurn ==
    [][\A i, j \in MessageId :
          /\ msg[i] # None /\ msg[i].state = "queued" /\ msg'[i].state = "sent"
          /\ IsResult(msg[i]) /\ Harness[msg[i].to] = "claude"
          /\ msg[j] # None /\ msg[j].subject = "user_input"
          /\ msg[j].to = msg[i].to
          => msg[j].rgen <= msg[i].rgen]_vars

\* An answer that arrives after the addressed run was left settles a message only
\* when the process that was handed it still serves the task: the answer of an
\* earlier process can not speak for a resumed task
\* (matches_grok_queued_input_receipt, matches_claude_result_receipt).
LateAnswersFromSameProcess ==
    [][\A i \in MessageId :
          /\ msg[i] # None /\ msg[i].state = "sent" /\ msg'[i].state # "sent"
          /\ task[msg[i].to].gen # msg[i].rgen
          => SameProcess(hist[msg[i].to][msg[i].rgen], task[msg[i].to])]_vars

\* A run a native turn was opened for names an input whose receipt was durable
\* before the run: a crash between the two leaves the receipt, never a run that
\* nothing drove (TurnStarted in commit_runtime_event).
CurrentInputWasReceived ==
    \A t \in Task, g \in Generation :
       hist[t][g] # None /\ hist[t][g].current # None =>
          LET m == msg[hist[t][g].current.id] IN
          m # None /\ m.state = "acknowledged" /\ m.receipt = "native_protocol"

\* Whatever a grok worker stores it can read back: one link for each message and
\* native turn, all of the present process, and no more than fit.  A row
\* grok_input_links refuses would leave the task without any further event.
QueueReadable ==
    \A t \in Task :
       task[t] # None /\ Harness[t] = "grok" => QueueWellFormed(task[t])

\* Resuming a grok task for another native process withdraws the results queued
\* for the earlier one, as the resumed task could never claim them.
ResumeWithdrawsResults ==
    [][\A t \in starting' \ starting, i \in MessageId :
          /\ Harness[t] = "grok" /\ msg[i] # None
          /\ IsResult(msg[i]) /\ msg[i].to = t /\ msg[i].state = "queued"
          => msg'[i].state = "cancelled"]_vars

=============================================================================
