----------------------------- MODULE TaskLedger -----------------------------
(***************************************************************************)
(* The durable ledger of local CLI tasks, one action per request the        *)
(* persistence writer thread serves (LocalCliPersistenceRequest).  Every    *)
(* request is one SQLite transaction on one connection, so every action is  *)
(* atomic; a request the code rejects rolls back and is no step at all.     *)
(* The rows, snapshots and messages a request carries are arbitrary here:   *)
(* LedgerClients says which of them the callers really send.                *)
(***************************************************************************)
EXTENDS LedgerRecords

VARIABLES
    task,   \* table local_cli_tasks: the current row of each task, or None
    hist,   \* table local_cli_task_generations: one row per task and run
    msg     \* table local_cli_messages: the message of each id, or None

ledger == <<task, hist, msg>>

TypeOK ==
    /\ task \in [Task -> Row \cup {None}]
    /\ hist \in [Task -> [Generation -> Row \cup {None}]]
    /\ msg \in [MessageId -> Message \cup {None}]

Init ==
    /\ task = [t \in Task |-> None]
    /\ hist = [t \in Task |-> [g \in Generation |-> None]]
    /\ msg = [i \in MessageId |-> None]

-----------------------------------------------------------------------------
(* checkpoint *)

AnySession(T, t, row) == TRUE   \* mutant: the table lost its unique index

\* The unique index on (harness, native_session_id) over the active rows.
SessionFree(T, t, row) ==
    IsActive(row) /\ row.session # None =>
        \A u \in Task \ {t} :
            T[u] # None /\ Harness[u] = Harness[t] =>
                ~(IsActive(T[u]) /\ T[u].session = row.session)

AnyRevision(old, new) == TRUE   \* mutant: the last writer wins

NextRevision(old, new) == new.rev = old.rev + 1

\* An update within one run: one revision further, and never back.
UpdatesRun(old, new) ==
    /\ new.gen = old.gen
    /\ NextRevision(old, new)
    /\ IsTerminal(old) => new.state = old.state
    /\ old.session # None => new.session = old.session
    /\ new.state = "queued" => old.state = "queued"
    /\ old.result # None => new.result # None
    /\ old.evidence # None => new.evidence = old.evidence

FreshRun(new) ==
    /\ new.rev = 0 /\ new.state = "queued"
    /\ new.result = None /\ new.evidence = None

ContinuesTask(old, new) ==
    /\ new.gen = old.gen + 1
    /\ ~IsActive(old)
    /\ FreshRun(new)

\* The parent run named at creation exists, and is current and active then.
ParentRecorded(t, new) ==
    Parent[t] # None =>
        /\ task[Parent[t]] # None
        /\ task[t] = None =>
              /\ task[Parent[t]].gen = new.pgen
              /\ IsActive(task[Parent[t]])
        /\ hist[Parent[t]][new.pgen] # None

\* A repeated checkpoint of the stored row is answered Ok without a write.
Repeats(t, new) == task[t] # None /\ task[t] = new /\ new.state # "queued"

MayCheckpoint(t, new, expected) ==
    /\ ValidRow(t, new)
    /\ IF task[t] = None
       THEN expected = None /\ new.gen = 1 /\ FreshRun(new)
       ELSE /\ expected = task[t].gen /\ new.pgen = task[t].pgen
            /\ UpdatesRun(task[t], new) \/ ContinuesTask(task[t], new)
    /\ ParentRecorded(t, new)
    /\ SessionFree(task, t, new)

\* write_task: the current row and the row of its generation, together.
StoredTasks(t, new) == [task EXCEPT ![t] = new]

\* mutant: an insert that keeps the row already there instead of the upsert
FirstOfRun(t, new) ==
    IF hist[t][new.gen] = None THEN [hist EXCEPT ![t][new.gen] = new] ELSE hist

StoredRuns(t, new) == [hist EXCEPT ![t][new.gen] = new]

\* cancel_pending_messages keeps a queued result for a run that is still served.
KeepsResult(H, M, t, old, new, m) ==
    /\ IsResult(m)
    /\ \/ m.from = t /\ m.to # t
       \/ m.to = t /\ Harness[t] = "grok" /\ IsTerminal(new) /\ old.gen = new.gen
       \/ /\ m.to = t /\ Harness[t] = "grok" /\ old.gen # new.gen
          /\ old.state = "completed" /\ SameProcess(old, new)
          /\ GrokHistory(H, m, new)
          /\ H[m.from][m.sgen] # None
          /\ ResultOrigin(m, H[m.from][m.sgen], H[t][m.rgen])
       \/ m.to = t /\ Harness[t] = "claude" /\ ClaudeHistory(H, M, m, new)

Undispatched(m) == m.state = "queued"

OnlyReceived(t, old, new, m) == m.to = t   \* mutant: forgets what t itself sent

Concerns(t, old, new, m) ==
    m.to = t \/ (m.from = t /\ (old.gen # new.gen \/ new.state = "cancelled"))

\* cancel_pending_messages: only queued messages, a sent one may be received.
Withdrawn(H, M, t, old, new, m) ==
    /\ Undispatched(m)
    /\ Concerns(t, old, new, m)
    /\ ~KeepsResult(H, M, t, old, new, m)

\* The messages once t's row old was replaced by new.
MailAfter(H, t, old, new) ==
    IF old # None /\ (IsTerminal(new) \/ old.gen # new.gen)
    THEN [i \in MessageId |->
            IF msg[i] # None /\ Withdrawn(H, msg, t, old, new, msg[i])
            THEN [msg[i] EXCEPT !.state = "cancelled"] ELSE msg[i]]
    ELSE msg

CheckpointTask(t, new, expected) ==
    /\ MayCheckpoint(t, new, expected)
    /\ task' = StoredTasks(t, new)
    /\ hist' = StoredRuns(t, new)
    /\ msg' = MailAfter(StoredRuns(t, new), t, task[t], new)

-----------------------------------------------------------------------------
(* insert_message, insert_task_result *)

FromAndToCurrentRuns(T, m) == T[m.from].gen = m.sgen /\ T[m.to].gen = m.rgen

MayInsert(T, m) ==
    /\ m \in Message /\ m.id \in Input
    /\ ~IsResult(m) /\ m.state = "queued" /\ m.receipt = None
    /\ T[m.from] # None /\ T[m.to] # None
    /\ FromAndToCurrentRuns(T, m)
    /\ T[m.from].state # "cancelled"
    /\ ~IsTerminal(T[m.to])
    /\ Related(m.from, m.to)

\* LocalCliEnqueueOutcome::Existing: the same message under the same id.
Enqueued(M, m) == M[m.id] # None /\ Content(M[m.id]) = m

WithMessage(M, m) == IF Enqueued(M, m) THEN M ELSE [M EXCEPT ![m.id] = m]

EnqueueMessage(m) ==
    /\ msg[m.id] = None /\ MayInsert(task, m)
    /\ msg' = WithMessage(msg, m)
    /\ UNCHANGED <<task, hist>>

\* checkpoint_with_message: both writes, or neither.
CheckpointTaskWithMessage(t, new, expected, m) ==
    /\ m.to = t /\ m.rgen = new.gen
    /\ MayCheckpoint(t, new, expected) \/ (Repeats(t, new) /\ expected = new.gen)
    /\ task' = StoredTasks(t, new)
    /\ hist' = StoredRuns(t, new)
    /\ LET M == IF Repeats(t, new) THEN msg
                ELSE MailAfter(StoredRuns(t, new), t, task[t], new) IN
       /\ Enqueued(M, m) \/ (M[m.id] = None /\ MayInsert(StoredTasks(t, new), m))
       /\ msg' = WithMessage(M, m)

LaunchedNow(t, row) == task[Parent[t]].gen   \* mutant: the parent's present run
LaunchedBy(t, row) == row.pgen

ResultMessage(t, row) ==
    [id |-> <<t, row.gen>>, from |-> t, to |-> Parent[t], sgen |-> row.gen,
     rgen |-> LaunchedBy(t, row), subject |-> "local_task_result",
     body |-> ResultBody(row), state |-> "queued", receipt |-> None]

\* A claude parent the user already moved on keeps the result, cancelled.
MintedState(m) ==
    LET current == task[m.to] IN
    IF /\ current # None /\ Harness[m.to] = "claude" /\ current.gen # m.rgen
       /\ ~ClaudeHistory(hist, msg, m, current)
    THEN "cancelled" ELSE "queued"

EnqueueTaskResult(t) ==
    /\ task[t] # None /\ IsTerminal(task[t])
    /\ Parent[t] # None /\ hist[Parent[t]][task[t].pgen] # None
    /\ LET m == ResultMessage(t, task[t]) IN
       /\ msg[m.id] = None
       /\ msg' = [msg EXCEPT ![m.id] = [m EXCEPT !.state = MintedState(m)]]
    /\ UNCHANGED <<task, hist>>

-----------------------------------------------------------------------------
(* claims: a queued message becomes sent before anything is delivered *)

\* mutant: the state test of the claiming UPDATE is missing
Stored(i) == msg[i] # None /\ task[msg[i].to] # None

Waiting(i) == msg[i] # None /\ msg[i].state = "queued" /\ task[msg[i].to] # None

Move(i, state, receipt) ==
    /\ msg' = [msg EXCEPT ![i].state = state, ![i].receipt = receipt]
    /\ UNCHANGED <<task, hist>>

\* Results claimed for t whose delivery nothing has confirmed yet.
SentResults(t) ==
    {m \in {msg[i] : i \in MessageId} :
        m # None /\ m.to = t /\ m.state = "sent" /\ IsResult(m)}

AnySlot(t, current) == TRUE   \* mutant: earlier deliveries are not looked at

SlotFree(t, current) ==
    \A m \in SentResults(t) :
        hist[t][m.rgen] # None /\ ~SameProcess(hist[t][m.rgen], current)

GrokMayTake(m, current) ==
    /\ current.state = "completed" /\ current.pending = <<>>
    /\ GrokHistory(hist, m, current)
    /\ hist[m.from][m.sgen] # None
    /\ ResultOrigin(m, hist[m.from][m.sgen], hist[m.to][m.rgen])
    /\ SlotFree(m.to, current)
    /\ \A o \in SentResults(m.to) : SameProcess(hist[m.to][o.rgen], hist[m.to][o.rgen])

\* exact: the worker sent the row it holds and it equals the stored one.
ClaudeMayTake(m, current, exact) ==
    /\ exact
    /\ current.session # None /\ current.runtime # None /\ current.pending = <<>>
    /\ ClaudeHistory(hist, msg, m, current)
    /\ SlotFree(m.to, current)

ClaimTaskResult(i, exact) ==
    /\ Waiting(i) /\ IsResult(msg[i])
    /\ LET m == msg[i]
           current == task[m.to] IN
       CASE Harness[m.to] = "grok" -> GrokMayTake(m, current)
         [] Harness[m.to] = "claude" /\ current.state = "completed" ->
                ClaudeMayTake(m, current, exact)
         [] OTHER -> current.gen = m.rgen /\ IsActive(current)
    /\ Move(i, "sent", None)

\* validate_parent_message
ParentMessage(m, source, parent) ==
    /\ m.subject \notin {"local_task_result", "native_tool"}
    /\ source.gen = m.sgen /\ parent.gen = m.rgen
    /\ Parent[m.from] = m.to /\ source.pgen = parent.gen
    /\ Harness[m.to] = "oz" /\ IsActive(parent)
    /\ m.from \in MayMessage

ClaimParentHistoryMessage(i) ==
    /\ Waiting(i) /\ task[msg[i].from] # None
    /\ ParentMessage(msg[i], task[msg[i].from], task[msg[i].to])
    /\ IsActive(task[msg[i].from])
    /\ Move(i, "sent", None)

\* A request whose expected rows are not the stored ones is rejected.
ClaimManagedMessage(i) ==
    /\ Waiting(i) /\ task[msg[i].from] # None
    /\ LET m == msg[i]
           sender == task[m.from]
           recipient == task[m.to] IN
       /\ m.from # m.to /\ m.subject \notin {"local_task_result", "native_tool"}
       /\ sender.gen = m.sgen /\ recipient.gen = m.rgen
       /\ IsActive(sender) /\ IsActive(recipient)
       /\ Harness[m.to] # "oz" /\ m.from \in MayMessage
       /\ \/ Parent[m.from] = m.to /\ sender.pgen = recipient.gen
          \/ Parent[m.to] = m.from /\ recipient.pgen = sender.gen
    /\ Move(i, "sent", None)

-----------------------------------------------------------------------------
(* update_message_state_with_receipt *)

LinksOf(row) ==
    {row.pending[k] : k \in 1 .. Len(row.pending)}
        \cup (IF row.current = None THEN {} ELSE {row.current})

\* The links of a well-formed grok queue: one per message and per native turn.
QueueWellFormed(row) ==
    /\ Len(row.pending) + (IF row.current = None THEN 0 ELSE 1) = Cardinality(LinksOf(row))
    /\ Cardinality(LinksOf(row)) <= LinkLimit
    /\ row.current # None => row.current.turn # None
    /\ \A l \in LinksOf(row) : l.runtime = row.runtime /\ l.sgen <= row.gen
    /\ \A k, l \in LinksOf(row) :
          k # l => k.id # l.id /\ (k.turn # None => k.turn # l.turn)

\* mutant: any late answer counts
LateReceipt(m, current, state) == Harness[m.to] = "grok" /\ current.gen > m.rgen

\* matches_grok_queued_input_receipt: the answer to an input an earlier run
\* queued, carried on by the same native process.
GrokReceipt(m, current, state) ==
    LET original == hist[m.to][m.rgen]
        sender == hist[m.from][m.sgen] IN
    /\ Harness[m.to] = "grok" /\ m.state = "sent"
    /\ state \in {"acknowledged", "failed"}
    /\ original # None /\ sender # None
    /\ current.gen > original.gen
    /\ current.state \notin {"disconnected", "unconfirmed"}
    /\ SameProcess(original, current)
    /\ QueueWellFormed(current)
    /\ \E l \in LinksOf(current) :
          /\ l.id = m.id /\ l.sgen = original.gen
          /\ state = "acknowledged" => l.turn # None
          /\ IF l.mail # None
             THEN MailboxOrigin(m, sender, original, l.mail)
             ELSE /\ m.subject = "user_input" /\ m.from = m.to
                  /\ m.sgen = m.rgen /\ m.body = Submit

\* matches_claude_result_receipt
ClaudeReceipt(m, current, state) ==
    /\ Harness[m.to] = "claude" /\ m.state \in {"sent", "acknowledged"}
    /\ state \in {"acknowledged", "failed"}
    /\ ClaudeHistory(hist, msg, m, current)
    /\ \/ /\ current.pending # <<>>
          /\ current.pending[1].id = m.id /\ current.pending[1].mail = Content(m)
          /\ current.pending[1].sgen = current.gen
       \/ /\ current.current # None
          /\ current.current.id = m.id /\ current.current.mail = Content(m)
          /\ current.current.sgen \in {current.gen, current.gen - 1}

\* The order of delivery states.
Forward ==
    {<<"queued", "sent">>} \cup ({"queued", "sent"} \X {"acknowledged", "failed", "cancelled"})

\* A native receipt or failure may arrive after the run it was sent to ended,
\* and then speaks of the sender's run as history recorded it.
SettleMessage(i, state, receipt) ==
    LET m == msg[i]
        outcome == state = "failed" \/ (state = "acknowledged" /\ receipt = "native_protocol")
        recipient == task[m.to]
        sender == IF outcome THEN hist[m.from][m.sgen] ELSE task[m.from] IN
    /\ m # None /\ recipient # None /\ sender # None
    /\ \/ recipient.gen = m.rgen
       \/ outcome /\ GrokReceipt(m, recipient, state)
       \/ outcome /\ ClaudeReceipt(m, recipient, state)
    /\ sender.gen = m.sgen \/ IsResult(m)
    /\ receipt = "application_history" =>
          /\ Harness[m.to] = "oz"
          /\ ~IsResult(m) => m.state = "sent" /\ ParentMessage(m, sender, recipient)
    /\ IsTerminal(recipient) => outcome /\ m.state = "sent"
    /\ <<m.state, state>> \in Forward
    /\ Move(i, state, receipt)

AcknowledgeMessage(i, state) ==
    SettleMessage(i, state, IF state = "acknowledged" THEN "native_protocol" ELSE None)

AcknowledgeApplicationHistory(i) ==
    SettleMessage(i, "acknowledged", "application_history")

-----------------------------------------------------------------------------
(* LoadTasks *)

Interrupted(row) == [row EXCEPT !.state = "disconnected", !.rev = @ + 1]

EveryTask == {t \in Task : task[t] # None}   \* mutant: ended runs as well
Lost == {t \in Task : task[t] # None /\ IsActive(task[t])}

Overflows(t) == TRUE   \* mutant: an unchecked addition
HasNextRevision(t) == task[t].rev < MaxRev

\* read_tasks with recover_interrupted: one transaction over every active task,
\* which fails as a whole when one of them has no next revision.
RecoverTasks ==
    /\ \A t \in Lost : HasNextRevision(t)
    /\ task' = [t \in Task |-> IF t \in Lost THEN Interrupted(task[t]) ELSE task[t]]
    /\ hist' = [t \in Task |->
                  IF t \in Lost
                  THEN [hist[t] EXCEPT ![task[t].gen] = Interrupted(task[t])]
                  ELSE hist[t]]
    /\ UNCHANGED msg

-----------------------------------------------------------------------------
Next ==
    \/ \E t \in Task, new \in Row, expected \in Generation \cup {None} :
          \/ CheckpointTask(t, new, expected)
          \/ \E m \in Message : CheckpointTaskWithMessage(t, new, expected, m)
    \/ \E m \in Message : EnqueueMessage(m)
    \/ \E t \in Task : EnqueueTaskResult(t)
    \/ \E i \in MessageId :
          \/ \E exact \in BOOLEAN : ClaimTaskResult(i, exact)
          \/ ClaimParentHistoryMessage(i)
          \/ ClaimManagedMessage(i)
          \/ \E state \in MessageState \ {"queued"} : AcknowledgeMessage(i, state)
          \/ AcknowledgeApplicationHistory(i)
    \/ RecoverTasks

Spec == Init /\ [][Next]_ledger

-----------------------------------------------------------------------------
(* What the ledger promises to every caller, whatever the callers send. *)

\* The generation table is the whole past of every task: one row for each run up
\* to the current one, the current row itself as the last (write_task upserts
\* both tables), and only the last run may still be active (checkpoint opens no
\* run over an active one).
HistoryMirrorsCurrent ==
    \A t \in Task, g \in Generation :
       /\ hist[t][g] # None <=> task[t] # None /\ g <= task[t].gen
       /\ hist[t][g] # None => hist[t][g].gen = g
       /\ task[t] # None /\ g = task[t].gen => hist[t][g] = task[t]
       /\ task[t] # None /\ g < task[t].gen => ~IsActive(hist[t][g])

\* A write built from a row that was replaced meanwhile never lands: each write
\* of a task moves it to the next revision of its run or to the next run, and
\* rows of earlier runs are never written again (the expected_generation and
\* revision tests of checkpoint).
RunsOnlyAdvance ==
    [][\A t \in Task :
          /\ task'[t] # task[t] /\ task[t] # None =>
                \/ task'[t].gen = task[t].gen /\ task'[t].rev = task[t].rev + 1
                \/ task'[t].gen = task[t].gen + 1 /\ task'[t].rev = 0
          /\ \A g \in Generation :
                task[t] # None /\ g < task[t].gen => hist'[t][g] = hist[t][g]]_ledger

\* A native session has one active owner per CLI, across launches, resumes and
\* session announcements of different tasks (the unique index of the table).
OneOwnerPerSession ==
    \A t, u \in Task :
       /\ t # u /\ Harness[t] = Harness[u]
       /\ task[t] # None /\ task[u] # None
       /\ IsActive(task[t]) /\ IsActive(task[u])
       /\ task[t].session # None
       => task[t].session # task[u].session

\* Once a run ended, no later write, resume or restart changes how: its state
\* and its evidence stay, and its result is not lost.
OutcomeIsFinal ==
    [][\A t \in Task, g \in Generation :
          hist[t][g] # None /\ IsTerminal(hist[t][g]) =>
             /\ hist'[t][g] # None
             /\ hist'[t][g].state = hist[t][g].state
             /\ hist[t][g].evidence # None =>
                   hist'[t][g].evidence = hist[t][g].evidence
             /\ hist[t][g].result # None => hist'[t][g].result # None]_ledger

\* Every task result in the mailbox speaks for a run that really ended that way,
\* and for the run of the parent that launched it, though both tasks may have
\* gone on since (insert_task_result, task_result_message_body).
ResultsSpeakForEndedRuns ==
    \A i \in MessageId :
       msg[i] # None /\ IsResult(msg[i]) =>
          LET source == hist[msg[i].from][msg[i].sgen] IN
          /\ i = <<msg[i].from, msg[i].sgen>>
          /\ source # None /\ IsTerminal(source)
          /\ source.state = msg[i].body.state
          /\ source.pgen = msg[i].rgen /\ Parent[msg[i].from] = msg[i].to
          /\ hist[msg[i].to][msg[i].rgen] # None

\* A queued message that is not a result is addressed to a run that may still
\* receive it and comes from the sender's present run: whatever ended a run or
\* opened the next one withdrew the rest (cancel_pending_messages).
QueuedMailIsCurrent ==
    \A i \in MessageId :
       msg[i] # None /\ msg[i].state = "queued" /\ ~IsResult(msg[i]) =>
          LET m == msg[i] IN
          /\ task[m.to] # None /\ task[m.from] # None
          /\ task[m.to].gen = m.rgen /\ ~IsTerminal(task[m.to])
          /\ task[m.from].gen = m.sgen /\ task[m.from].state # "cancelled"

=============================================================================
