# Managed tasks of InfiniShell Desktop, specified and verified

InfiniShell Desktop is a terminal with agents.  It launches other vendors'
command line agents (Codex, Claude, Grok) as *managed tasks*, lets tasks launch
child tasks, carries messages and results between them, and has to survive being
killed at any point without repeating work or losing an answer.  This directory
specifies the parts that promise this in TLA+, model-checks them with TLC and
proves their central guarantees with TLAPS:

* the **local CLI task ledger**, the tables all of it is stored in, and everyone
  who writes to them;
* the **runtime host**, the process that keeps a CLI running while the application
  is gone, and the **worker** that brings the host's log into the ledger;
* the **image submission** to an agent on a remote host;
* the **configuration synchronisation** of several devices through one gist.

All paths below are relative to the repository root; `persistence` is
`app/src/persistence`, `runtime` is `app/src/ai/cli_agent_runtime`, `remote` is
`app/src/remote_server`.

## 1. Inventory

### 1.1 The task ledger (`persistence/local_cli_tasks.rs`)

| | |
|---|---|
| State | three SQLite tables: `local_cli_tasks` (the current row of a task), `local_cli_task_generations` (one row per task and run), `local_cli_messages` (mailbox: user inputs, messages between tasks, task results, tool calls) |
| Operations | `checkpoint`, `checkpoint_with_message`, `insert_message`, `insert_task_result`, `claim_result_if_current`, `claim_parent_message`, `claim_managed_message`, `update_message_state_with_receipt`, `read_tasks` with recovery |
| Interaction | requests travel through a bounded channel to one writer thread; each is one transaction and is answered on a one-shot channel |
| Hard | every caller decides on a row it read earlier; late receipts; terminal rows racing claims; crash between claim, delivery and receipt; recovery of every interrupted task at once |
| Correct when | rows only advance, an ended run keeps its outcome, history is complete, a native session has one active owner, mail is handed over at most once and only between runs that may still exchange it, results speak for runs that really ended |

### 1.2 The ledger's clients

| Client | Source | What it does to the ledger |
|---|---|---|
| Coordinator and its per-task workers | `runtime/coordinator.rs` | starts processes, commits runtime events and acknowledges them to the host, submits user inputs, keeps the native input queue inside `config_json`, hands over mail and results, records receipts, recovers tasks whose host or application died |
| Task manager, launch pane | `runtime/task_manager_view.rs`, `app/src/pane_group/pane/local_harness_launch.rs` | launches and resumes tasks, creates the Oz parent's row |
| Oz conversation bridge | `runtime/conversation_bridge.rs` | a conversation is a parent that is not a process: it takes messages into its history and settles them with an application-history receipt |
| Local mailbox | `app/src/ai/local_cli_mailbox.rs` | polls queued messages and hands them to live workers |
| Restore | `app/src/terminal/cli_agent_sessions/local_tasks.rs` | loads the tasks at application start and marks the interrupted ones disconnected |

They share no memory with each other: a worker keeps a `ManagedTaskSnapshot`, the
bridge a row it loaded asynchronously.  The ledger is where they meet.

### 1.3 The runtime host (`runtime/runtime_host.rs`)

| | |
|---|---|
| State | a chained journal on disk; in memory the owner epoch, the events, the acknowledgement mark, a disposition per command; the CLI behind a bounded queue; an exit receipt |
| Operations | claim, command, acknowledge, event recording, exit receipt; on the side of the application the verification of journal and receipt |
| Interaction | one request per connection at a time; requests of several connections interleave; a command waits for room in the queue without the lock and looks at the state again |
| Hard | a takeover or the end of the CLI during that wait; answers that overtake the report of their delivery; a journal write that fails with its bytes in the file; requests still under way when the receipt is written; callers that gave up while their request is carried out |
| Correct when | a command reaches the CLI once, for the present owner, and is on disk before it does; what is known is never taken back; an accepted receipt vouches for everything that was ever shown |

### 1.4 Image submission (`remote/cli_image_submission*.rs`, `remote/cli_image_staging*.rs`)

| | |
|---|---|
| State | write-once records on both sides: intents, claims, queue records, results, releases and completed transfers in the application's journal; references, image files, tombstones, claims and results in the daemon's store; in memory the live submission, its file lock, the unconfirmed contents, the daemon's leases |
| Operations | upload and publication of images, claim of the content, native write, result, revocation, release, recovery for every terminal that opens on the host |
| Interaction | requests under the daemon's state lock; revocations are handled as they arrive; windows of one application share a journal, the native queue is another program |
| Hard | lost answers, releases that overtake publications, recoveries that meet a live upload, a revocation between the daemon's claim and its write, crashes of either side between any two records |
| Correct when | a content goes out a second time only if the outcome of the first is known; the agent finds its images; what is written off is gone and stays gone; what nobody needs is reclaimed |

### 1.5 Configuration synchronisation (`crates/infinishell_sync`, `crates/warp_ssh_manager`)

| | |
|---|---|
| State | per device SSH servers, machine memories and an edit counter that serves as version; one gist with all of them |
| Operations | edit (the servers, then the counter by a statement of its own whose error is dropped), memory write, upload, download, forced upload, commit of the synced version |
| Interaction | HTTP requests of several devices; the gist is replaced whole, with no comparison at the time of the write |
| Hard | edits during a sync, edits that were not counted, a second device between read and write, clocks that differ, a request that fails after it was carried out, the version limit, met after the memories are merged |
| Correct when | an edit counted during a sync outranks it, no sync takes a memory back, memories converge, an answer "up to date" is true |

### 1.6 Components not modelled

| Component | Where | Why not |
|---|---|---|
| Local tool leases | `runtime/coordinator_tools.rs` | leases a managed CLI holds on application tools while a native turn runs, in the memory of one process; next in the plan (section 6) |
| Grok side-car ledgers | `persistence/local_cli_tasks_grok_native_bridge.rs`, `..._grok_terminal.rs` | tables of their own behind the same writer thread; planned as an extension of `TaskLedger` |
| Remote server sessions | `crates/remote_server`, `remote/server_model.rs` | connection states, request correlation, grace period; only the lost connections that image submission meets are modelled |
| AI action queue | `app/src/ai/blocklist/action_model` | callbacks of one UI thread; last in the plan |
| Agent event driver | `app/src/ai/agent_events/driver.rs` | in this program the driver and its bridge are compiled for tests only, with a client that is disabled by default: no running process keeps a cursor or retries |
| Native adapters | `runtime/codex.rs`, `claude.rs`, `grok.rs` | translate wire protocols that the vendors' programs define; only the order in which codex's adapter reports is modelled (`RuntimeEvents`), the events of the others are nondeterministic inputs of `LedgerClients` |
| Managed processes | `runtime/managed_process*.rs` | process creation and probing per platform: system calls |
| UI, editor, terminal, SFTP, SSH, projects, support crates | `app/src`, `crates/*` | presentation, data structures, file and network I/O with a single writer |

These last two rows are by far the largest part of the repository: their
correctness is layout and system calls, not protocol, and a model of them would
say nothing.

## 2. Modules

```
LedgerRecords            rows, messages, links and the predicates over them
  TaskLedger             the three tables, one action per request
    LedgerClients        what the callers send, stale rows, restarts
      MCLedger           small families of tasks for TLC
    TaskLedgerProofs     types, rows, history
      LedgerGuarantees   sessions, revisions, outcomes, queued mail, results
        LedgerClientsProofs (with LedgerClients)  clients take ledger steps, refinement
          ClientRowsProofs  what is built from rows read earlier: queues, deliveries
DurableMailbox           the abstract message table, implemented by LedgerClients

RuntimeEvents            what a CLI reports, and in which order
  EventFeed              the abstract host: a growing log, one owner, a mark
    HostedTask           the worker and the recovery of one task over that feed
      MCHosted           its instance for TLC, under three configurations
      HostedTaskProofs
  RuntimeHost            journal, requests, takeover, exit; implements EventFeed
    MCHost
    RuntimeHostProofs
TurnRuns                 the abstract history of turns, implemented by HostedTask

GistSync                 devices and the gist
  MCGist
  GistSyncProofs
ImageSubmission          application, daemon and native queue
  MCImages
  ImageSubmissionProofs
```

The host and the worker are composed by refinement: `RuntimeHost` implements
`EventFeed` (proved), and `HostedTask` is written over `EventFeed`, so it takes
every behaviour a host may show, and none of the host's inner steps.

### 2.1 Ledger and clients

**LedgerRecords** translates the types (`crates/persistence/src/model.rs`) and the
pure checks: `validate_task`, `grok_same_process`, `grok_result_history_matches`,
`claude_result_history_matches`, the origin checks and the digests.

**TaskLedger** has the tables as `task`, `hist` and `msg`.  An action is a whole
request: `CheckpointTask` is validation, the revision or run test, the parent
test, the unique index, both upserts *and* the withdrawal of pending messages.
The rows and messages in a request are arbitrary members of their types, so what
is proved of `Spec` holds whatever the callers do.

**LedgerClients** restricts them to what the callers really send.  Its own
variables are the memory that makes interleavings dangerous: `held` (a row some
client read before the last write; every client action may use it in place of the
current one), `starting` (launches committed whose process does not run yet) and a
counter of restarts.

| Action | Code |
|---|---|
| `LaunchTask`, `ResumeTask`, `StartProcess` | `start_prepared`, `resumed_task` / `next_task_generation`, `run_managed_task` |
| `BindSession`, `ReportState`, `FinishRun` | `SessionReady`, approvals and losses, `TurnFinished` in `apply_runtime_event` |
| `PrepareInput`, `SubmitInput` | first input of a process; `send_user_request` for grok, claude and codex |
| `AcceptTurn`, `StartTurn`, `RunTurn`, `DropInput` | `commit_runtime_event`: `MessageAccepted`, the two writes of `TurnStarted`, `RequestFailed` and `InputJoined` |
| `SendMessage`, `ClaimMail`, `MarkSent`, `LinkMail` | mailbox sends and polls, `send_mailbox_request`, `send_mailbox_action` |
| `MintResult`, `DeliverResult` | `commit_runtime_event_dependencies`, `deliver_result` |
| `SettleSent`, `RecordInHistory` | native receipts and failures, `append_result_to_history` |
| `Hold`, `Restart` | an await between reading a row and writing it; death of the application and `restore_local_tasks` |

**DurableMailbox** is the promise in terms a sender understands: a letter is posted
once, handed over at most once, settled only after that, withdrawn only before.

### 2.2 Host and worker

**RuntimeEvents** is what codex's adapter may report, read off `runtime/codex.rs`.
A submission is refused while another one is unanswered or in its turn (532-545:
`UnderWay`).  While one is unanswered the notification `turn/started` makes its turn
the active one and is reported at once (1092-1121); `turn/completed` needs an active
turn only (1264-1287), and the answer is taken, and reported as the acceptance, also
when its turn has started or finished by then (895-913).  So acceptance and start come
in either order, and the end of a turn may come before its acceptance.  Of the CLI
itself, which is not in this repository, it is assumed that it starts turns only for
commands it was sent, under ids of their own, and completes a turn only after it
started it: a CLI that completed one without a start would have its end reported all
the same, once the answer had made it the active turn.

**RuntimeHost** has the file (`journal`), the snapshot and lifecycle of the host
(`host`), the CLI (`native`, `handed`), the requests between two looks at the state
(`calls`), the epochs the connections were granted (`mine`) and the receipt.

| Action | Code (`runtime_host.rs`) |
|---|---|
| `ClaimOwner`, `AckEvents` | the `Claim` and `AckEvents` requests |
| `ReceiveCommand`, `ReserveCapacity`, `RejectCommand`, `DeliverCommand`, `FailCommand`, `ReportDelivered` | the `Command` request: first look, `reserve_command`, second look, record and hand over, or record the failure, report of the delivery |
| `RecordEvent`, `AdapterEnds`, `RecorderEnds`, `StopServing` | the event task, the adapter's end, `run_connection` and `run_worker` |
| `WriteReceipt`, `HostDies` | `write_exit_receipt` with the seal; a kill at any point |
| `Confirmed` | `verify_journal` and `confirmed_exit` on the side of the application |

`Written` is the disk: any prefix of the entries of a request reaches the journal;
a write that fails may have left nothing, its record or a torn one.  What a reader of
the journal learns is said by position, not by a loop: the event in place *k* is that
of the *k*-th record of an event (`ShowsEvents`), the acknowledgement and a command's
status are those of the last record that has one (`ShowsAck`, `ShowsStatus`).  This is
what the loop of `verify_journal` computes, in a form that can be reasoned about;
`AcksInOrder` is its test of each acknowledgement.

**HostedTask** has the feed and the rows of the task's history (`run`), its
checkpoint (`mark`), the results enqueued for the parent (`results`), the worker or
recovery that reads (`link`), the application (`app`) and the acknowledgements
still under way from broken connections (`late`).

| Action | Code (`coordinator.rs`) |
|---|---|
| `Submit` | `send_user_request`: a task at rest gets its next run before the command is handed to the connection |
| `OpenRun`, `StartTurn`, `FinishTurn`, `NoteAccepted`, `NoteDisconnected`, `NoteOther` | `commit_runtime_event`, one row write each |
| `RefuseStart` | `commit_runtime_event`: the error at 4218-4220, which ends the worker or the pass |
| `EnqueueResult`, `AcknowledgeEvent` | `commit_runtime_event_dependencies`, `acknowledge_events` |
| `Reattach`, `GoLive` | `recover_runtime_hosts` for a live host, catch-up and `into_connection` |
| `Replay`, `MarkEvent`, `MarkReplayed`, `EndReplay` | the offline replay of an exited host under `persist_recovery_checkpoint` |
| `LeaveAlone`, `GiveUp`, `Refresh` | tasks the pass skips, hosts that cannot be classified, `refresh_records` |
| `Break`, `EndWorker` | connection errors and the 10 s limit, the end of `run_managed_task` |
| `AppDies`, `AppStarts` | crash, and `restore_local_tasks` followed by a recovery pass |

`sent` are the commands that may reach the host.  `RefuseStart` really occurs: the user
writes while the row still shows a turn that the CLI has ended, so that no run is opened
for the command, and the start of its turn overtakes the answer to it.  The worker
commits the end, finds the next start over a terminal row with no acceptance in its
`accepted_turns`, and ends with an error.  The event is not acknowledged, so each
reattachment comes to it again and fails again, until the acceptance is among what the
host has acknowledged, which it never will be.  The properties say what is true beside
that: such an event is never mistaken for a repetition, what was acknowledged is stored,
and a start whose acceptance *was* reported before it is refused by no reader.

**TurnRuns** is what the rows promise: a turn has one run, runs follow one another,
an outcome stays.  A run may be opened for a command before its turn is known.

### 2.3 Synchronisation and images

**GistSync** splits a sync where another actor can make a difference: the start with
the version of the device (`StartUpload`), the gist that was read (`Fetch`), the
decision with what it merges or applies (`LeaveConflict`, `KeepGist`, `ReplaceGist`,
`LeaveOlder`, `TakeGist`, `ForceUpload`, `ChooseFirst`), the write of the gist (`Write`)
and the commit of the version (`Commit`).  Steps between which only the device's own
edits could fall, and where these make no difference, are one: reading the gist and then
the version in `download`, reading the gist and deciding in the uploads, collecting the
content and sending it; the comments at these definitions say why.

* `EditServers` is `update_route` and its like in `SshRepository`: the change is
  committed, then `increment_sync_version` runs by itself and its error is dropped.  One
  disjunct has the count, the other has lost it.
* A decision that needs a version past the limit ends the sync with an error after the
  memories were merged, or the servers replaced (`Chosen`).
* `WriteMemory` may store any row, also one that is earlier than the row it replaces:
  each device stamps by its own clock and nothing compares them.
* `pending` is a history variable of the properties: the edits of a device that raised
  its version and that no sync of it has taken to the gist.  A download of a newer gist
  replaces the servers, such edits included; they stay pending then.

**ImageSubmission** has one variable per place: the application's `journal` and
tasks, its memory (`app`), the requests under way (`wire`), the daemon's `store` on
disk and its memory (`daemon`), and the `native` queue.  `Begin` to `Finish` are the
stages of a submission, `AskStatus` to `TakeRecovered` a recovery, `HandlePublish`
to `ReleaseImages` the daemon, `Disconnect`, `AppCrash` and `DaemonCrash` the
faults, `NativeSnapshot` the external queue.

### 2.4 What is abstracted

*Ledger and clients.*

* Texts, sessions, native turns and configuration values are model values.  A
  digest is the content it freezes.  Size limits of texts and JSON are left out.
* `harness`, the parent and the message permission of a task never change once its
  first row is stored; they are constants.  `version` is always 1 and `Unknown`
  states are never written by this program.
* `i64` generations and revisions are `1 .. MaxGen` and `0 .. MaxRev`; an increment
  past the limit is refused, as `checked_add` does.
* A rejected request rolls back and is no step.
* `active_turn_id` is derived from the state.  Native turn ids may be used again in
  later runs, which allows more than the adapters do.
* Checkpoints that change only configuration (skills, profiles, recovery
  checkpoints), a grok turn that fails before it starts, tasks of the grok native
  bridge, and the rewriting of a result text by later pane output are not client
  actions.  For the ledger itself such rows are included: a checkpoint carries any
  row.
* The API lets a message be acknowledged as cancelled, or settled without having
  been sent.  No caller does that, so `MailboxImplemented` is a property of
  `ClientSpec`, not of `Spec`.

*Host.*  Frames, encodings and the start of the process are left out, and so are
`PullEvents` and `InspectCommands`, which only read.  A body stands for its digest;
the chain of digests is the sequence number plus the possibility of a torn record.

*Worker.*  The harness is codex, where a turn needs no input link.  Approvals, steering
and events that only carry text are left out, and a turn is named after its command.
There is one task: a pass that fails on another task is the step `Break`.

*Gist.*  The memory of one machine stands for all.  Its rows are named by their place in
the order of `compare_machine_memories`: the time they carry, then everything else in
them, so two rows of equal place are the same.  Servers are the set of edits they
reflect, since they are only replaced whole.  Encryption and the keychain phases of
`apply_data` are left out.

*Images.*  Only Codex; the Claude consumer reads its receipt from a transcript and
is left out.  Chunks and verification are part of `Publish`, `Activate` is one
step, an application runs one recovery at a time.  Tombstone and removal of the
file are one step, because a restarted daemon removes the files of tombstones
before it serves.  Budgets and file identities are left out.  An input the native
queue never answers for may need its images for good.

## 3. Properties and runs

| Run | Instance | Properties |
|---|---|---|
| `codex_pair` | codex parent and child, runs 2/1, revisions to 3 = `MaxRev`, one shared session, stale parent rows, one restart | `TypeOK`, `HistoryMirrorsCurrent`, `OneOwnerPerSession`, `QueuedMailIsCurrent`, `RunsOnlyAdvance`, `OutcomeIsFinal`, `MailboxImplemented` |
| `oz_family` | Oz conversation with two runs and stale rows, its grok child with three runs, two children of that one that end, one restart | `OneUnconfirmedResult`, `ResultsSpeakForEndedRuns` |
| `claude_trio` | claude parent with three runs, two children that end, two user inputs | `CurrentInputWasReceived`, `NoResultCrossesUserTurn` |
| `grok_queue` | one grok task, three runs, three inputs for a queue of two, one restart | `CurrentInputWasReceived`, `QueueReadable`, `LateAnswersFromSameProcess` |
| `grok_resume` | grok parent with three runs, two children that end, no restart | `ResumeWithdrawsResults`, **violated** (section 5) |
| `host` | two connections and epochs, two requests for one command, two events, five journal records, one failing write | `HostTypeOK`, `DeliveredOnce`, `UndeliveredNeverHanded`, `UnfaultedExitConfirms`, `HandedIsJournalled`, `ConfirmedExitIsComplete`, `OnlyOwnerDelivers`, `KnowledgeOnlyGrows`, `FeedImplemented` |
| `hosted` | two commands, six events, two owners, one crash of the application, one refresh | `HostedTypeOK`, `AckedIsStored`, `EveryEventApplies`, `RunsImplemented` |
| `hosted_progress` | the same with four events, under fairness | `LiveEventsReachLedger`, `ExitedTaskSettles` |
| `hosted_restart` | four events of one turn, one crash | `LiveHostReattached`, **violated** (section 5) |
| `gist` | two devices, one edit, one memory write each, two rows in either order, versions to 2, failing requests | `GistTypeOK`, `EditsDuringSyncOutrankIt`, `MemoryNeverRegresses`, `MemoriesConverge` |
| `gist_up_to_date` | two devices, two edits | `UpToDateMeansSynced`, **violated** (section 5) |
| `images` | two inputs of one content from one window, one image each, one fault | `ImageTypeOK`, `QueuedImagesExist`, `RecoveryIsNeverBlocked`, `DoneIsGone`, `RecordedResultsAreTrue`, `ContentSentOnce`, `ImagesAreReclaimed` |

Deadlock is not an error in any of them: when all tasks are idle and the bounds are
reached, hosts are gone or inputs are over, there is nothing left to do.

What they say:

* Ledger.  `RunsOnlyAdvance`: a write built from a replaced row never lands.
  `OutcomeIsFinal`: no resume, restart or late write changes how a run ended.
  `HistoryMirrorsCurrent`: the generation table is the whole past, with only the
  last run possibly active; late receipts and result checks read it.
  `OneOwnerPerSession`: two tasks never drive one native conversation.
  `QueuedMailIsCurrent`: mail is never left queued for, or from, a run that is over.
  `ResultsSpeakForEndedRuns`: what a parent is told about a child is what happened,
  and is told to the run that launched it.
* Clients.  `MailboxImplemented`: the refinement to `DurableMailbox`.
  `OneUnconfirmedResult`: a grok process never has two unconfirmed results.
  `NoResultCrossesUserTurn`: no result enters a claude conversation the user moved
  on.  `LateAnswersFromSameProcess`: a receipt of an earlier process settles
  nothing.  `CurrentInputWasReceived`: a run a native turn opened has a durably
  received input.  `QueueReadable`: what a grok worker stores it can read back.
* Host.  `DeliveredOnce`, `OnlyOwnerDelivers`, `UndeliveredNeverHanded`: one command,
  one delivery, by the present owner, and none after "not delivered" was reported.
  `HandedIsJournalled`: a host killed at any point never reports as unknown what the
  CLI may have done.  `KnowledgeOnlyGrows`: an answer is not replaced by the weaker
  report of the delivery.  `ConfirmedExitIsComplete`: an accepted receipt vouches for
  every event, acknowledgement and disposition.  `UnfaultedExitConfirms`: requests
  still under way do not spoil the receipt.  `FeedImplemented`: all of it together is
  an `EventFeed`.
* Worker.  `AckedIsStored`: what was acknowledged is in the rows, its result enqueued.
  `EveryEventApplies`: no event is mistaken for a repetition on account of protocol
  state rebuilt from a snapshot, in whatever order acceptance, start and end come; and a
  start is refused only when its acceptance is really missing from the log so far.
  `RunsImplemented`: the refinement to `TurnRuns`.
  `LiveEventsReachLedger`: what is reported while the connection lives is stored and
  acknowledged, or the connection is found broken.  `ExitedTaskSettles`: a task whose
  host has exited does not stay active.
* Gist.  `EditsDuringSyncOutrankIt`: an edit that was counted after a sync read the
  version, and was not sent by it, leaves the device above the gist, so the next upload
  sends it; versions never fall.  Of an edit whose count was lost nothing is claimed: it
  looks sent, and a newer gist replaces it.  `MemoryNeverRegresses`: no sync puts an
  earlier row, by the stamps, in the place of a later one; a slow clock may, in a write
  of the device itself, and a later text under an earlier stamp loses the next merge.
  `MemoriesConverge`: devices that keep uploading and downloading come to the same
  memory.  At the version limit they need not: there each sync that has something to send
  merges and then fails, which the premise leaves out.  `GistTypeOK` has the limit
  itself: no version that does not fit is ever stored or sent.
* Images.  `ContentSentOnce`: a content goes out again only when the first outcome is
  on disk.  `QueuedImagesExist`: the agent finds the images of what it has queued.
  `RecoveryIsNeverBlocked`: no claimed image is unknown to the daemon.  `DoneIsGone`:
  what is written off has no file and gets none.  `RecordedResultsAreTrue`.
  `ImagesAreReclaimed`: what nobody needs is removed.

**Bounds.**  In the ledger two runs are needed for anything to be late and three for a
result to cross a run in which something else happened (`oz_family`, `claude_trio`);
two children are needed for two results to compete; a queue of two with three inputs
is the smallest one that fills up while an input is current. `codex_pair` stops at
`MaxRev`, so that recovery and updates meet the last revision. `held` is one stale row
per task: any client action may use it, which covers every pair of a reader and a
writer.  `Reports` limits which states the clients report in an instance, where the
other states add interleavings but no new guard.  In `host` one command with two
requests is what makes a repetition; two events and five records are limits that both
are reached, by `FailCommand` too; one failing write is enough for memory and file to
disagree.  `hosted` needs six events for a second turn that starts after the first has
ended, with its acceptance before or after that start; two owners for one that is
replaced; one outcome is enough, no step tells outcomes apart.  `hosted_progress` has
four, one turn from its readiness to its end or to the loss of the CLI: checking
liveness on the longer log takes too long, and the worker treats each event by
itself.  In `gist` two devices meet every order of read, write and commit, each sync
may fail at any step, and versions run into their limit; two rows are an earlier and a
later one, written in either order.  In `images` two inputs of one content are what a
repetition is, and one fault may fall between any two steps.

Symmetry permutes inputs, turns, identical siblings, connections, commands and
devices, and only in runs without liveness.  Distinct states: 26 300 to 487 000 in
the ledger runs, 1.3 million in `host`, 2.3 million in `hosted`, 328 000 in
`hosted_progress`, 1.4 million in `gist`, 390 000 in `images`; each ends within three
minutes on two workers.

**Fairness.**

* The ledger runs assume none: all they state is safety, and a task may always stop.
* `HostedTask!Fairness` is weak fairness of the worker's writes and acknowledgements
  (`Commit`, `Settle`), of the end of a worker whose connection broke, of a recovery
  pass under way, and of noticing that the host is gone.  These are futures that the
  application's executor polls while it lives, and each call to the host ends by its
  10 s limit (`runtime_host.rs:1568`).  Nothing is assumed of the CLI, the user or the
  connections.  `ExitedTaskSettles` has a premise, `Undisturbed`: a refresh that the
  user asks for at that very moment makes the worker's own request for a pass be
  dropped (`coordinator.rs:659-661`), and the task then stays unconfirmed until the
  next refresh.
* `GistSync` has no fairness: devices sync when their users ask.  The premise of
  `MemoriesConverge` is that every device again and again uploads and downloads as far as
  a decision, and that in the end no sync fails between its decision and the write of the
  gist (`Lost`) or at the version limit (`Refused`).
* `ImageSubmission!Fairness` lets tasks, recoveries and the daemon carry on with what
  they began.  Nobody is obliged to submit, connect or open a terminal: that terminals
  are opened again and again is the premise of `ImagesAreReclaimed`.

## 4. Proofs

The theorems hold for every value of the constants: any number of tasks, devices,
connections, inputs and images, all bounds, and for the ledger every caller.

* `TaskLedgerProofs`.  `LedgerInv` is the conjunction of the types, of
  `HistoryMirrorsCurrent` and of `RowsValid` (a stored row has a parent run exactly
  when its task has a parent).  `TypeOK` alone is not inductive: minting a result
  addresses it to the run in the stored row, which is a number only by `RowsValid`,
  and only rows that passed `validate_task` are stored.  There is one lemma per
  request; `StoredInv` carries the table part both checkpoints share.
  Theorems `LedgerInvariant`, `TypeCorrect`, `HistoryIsComplete`.
* `LedgerGuarantees`.  `TaskSteps` shows that the task tables only change by storing
  an accepted row or by recovery, so each guarantee needs two lemmas.
  `SessionsAreOwnedOnce` (recovery only deactivates), `RunsAdvance`,
  `OutcomesAreFinal` (an ended run is either current, where `UpdatesRun` protects
  it, or past, where by complete history it is not written).
  `QueuedMailStaysCurrent`: a write that ends or leaves a run withdraws what concerns
  it before anything is inserted.  `ResultsAreTrue`: results are minted from ended rows,
  and the rows of ended runs keep what the result says.
* `LedgerClientsProofs`.  `ClientStep` shows that each client action posts, moves
  one message along the delivery order, or leaves the ledger alone; hence
  `ClientsUseLedger` (`ClientSpec => Spec`), `ClientsKeepLedger`, and
  `MailboxIsImplemented`, the step simulation under the mapping `LetterOf`.
  `LateAnswersSpeakForTheirProcess`: only an answer ends the delivery of a message that
  was sent, and one that reaches a later run is tested against both rows.
* `ClientRowsProofs` is about rows that were read earlier.  A client writes what it
  builds from the row in its hand, which may be of any earlier time; the ledger refuses
  a row that has been replaced, but not a result or an input decided on from such a row.
  `Builds` lists how a client makes a row out of another (the process starts; the queue
  stays, grows, learns a turn, opens one, or loses an input), and `RowsStep` shows that
  every client action stores rows built so, launches a task, recovers or leaves the rows
  alone.  The invariant is `ClientInv`.  `HeldIsPast`: a held row is the stored one or
  of an earlier run or revision, so what is accepted was built from the present row.
  `RowsTell`: of every row, stored, past or held, the process is of one of its runs, its
  queue reads back, and the input that drives it was received.  `QueuesAreReadable` and
  `RunsFollowReceipts` follow from it with `NativeReceipts` (a native receipt is not
  replaced); neither property is inductive, because the next row is built from the whole
  of this one and from a message.  `OneResultAtATime`: the claim looks for an
  unanswered result of its own process, and two runs of two processes stay strangers;
  for this the runs that results were handed over for have ended and were served
  (`ResultsOfServedRuns`).  `ResultsStopAtUserTurns`: the claim requires that
  a result of an earlier run started each run since, so no run the user wrote into may
  look like that (`UserTurns`), also when the input was prepared from a row that is held
  (`OwnProcessStays`).  The theorems hold for every choice of `Holds` and `Restarts`,
  where the runs try small ones.
* `RuntimeHostProofs`.  `HostTypesHold`, `KnowledgeStays` and `OwnerDelivers` need the
  types and that a journal is sealed when its host is over.  `CommandInv` adds what
  the second look at the state relies on: a command that was handed over, or that an
  event answers, is known to the snapshot.  A command that passes the look is thus
  neither, and `CommandsReachTheCliOnce`, `UndeliveredStaysSo` and
  `JournalKnowsWhatWasHanded` follow together.  For `HostIsTheFeed` granted epochs are
  positive and a dead host has no request under way (`FeedInv`), so that nothing moves
  once the host is over and the stage read off the disk never changes; each write of
  the host is then a report, a claim, an acknowledgement, a close or nothing.
  `AcceptedExitsAreComplete` and `UnfaultedExitsAreAccepted` from `JournalInv` and
  `ReceiptInv`.  A journal is `Sound` when its records are chained and as many as the
  host counts.  The invariant: a chained journal is sound or one record longer, which a
  failed write left behind; a sound one tells what the host holds (`Tells`); without a
  failed write it is sound; a receipt counts the journal as the host has closed it.
  `ConfirmedExitIsComplete` alone says nothing before there is a receipt.  The argument
  is about numbers: what is written after a failed write that left a record carries the
  number of that record again and breaks the chain for good (`WrittenChain`), and a
  record left over at the very end makes the journal longer than the receipt says.
  `EventsOneMore`, `AckOneMore`, `OrderOneMore` and `StatusOneMore` show that a reader
  follows the writer record by record.
* `HostedTaskProofs`.  `HostedInv` has, next to the types, four parts.  `InOrder`: a turn
  starts once, while no other is under way, and ends once, after its start; when its
  command is accepted is left open.  `LinkInv`: the reader stands at the first event that is not
  done with, and its protocol state is what those events say (`Knows`: the turn it is in,
  those that ended, and among the accepted at least those that have not started); before
  the event due is stored it knows as many, afterwards one more.  `RowsInv`: the rows
  depict the events done with, or one more (`Depicted`: which turns have a run, which
  outcomes are in them, the turn under way in the last one, and nothing running
  between turns), and their outcomes are enqueued.  A command may open a run over rows in
  either of these states (`DepictedOnOpen`).  When the rows are one event ahead, that
  event is the last thing they show (`Newly`), and whoever reads it again repeats it
  (`Repeated`); a live worker does not, so it opens no run in between.  `LateInv`: an
  acknowledgement still under way from the owner of now is of an event that is stored
  (`Settled`), and nobody reads beside it.  `AckedIsStored` alone is not inductive,
  because a worker cut off between two writes leaves the rows ahead of the
  acknowledgement, and the next one commits the same event again: `StartDepicted`,
  `OpenDepicted` and `FinishDepicted` show that a write made for the first time and one
  made again end in the same picture.  `StoredBeforeAcknowledged` and
  `NoEventPassedOver` follow; for `HistoryIsOfRuns` a submission and the first write of a
  turn are steps of `TurnRuns` and every other write leaves the history as it is.
* `GistSyncProofs`.  `GistTypesHold`: no version passes the limit, which needs what
  each stage of a sync has read (`JobOK`).  `EditsOutrankSyncs` from `VersionInv`: a
  device never falls below the version a sync has read, and as long as it is at that
  version the sync has seen every edit that is pending.  `MemoriesOnlyAdvance` needs the
  types only: what a sync stores is the later of two rows, read and written at once.
* `ImageSubmissionProofs`.  `ImageTypesHold`.  `ReleasedIsGone` from `GoneInv`: no
  tombstone has a file, and both what the journal calls done and an answer "released"
  that is still to be recorded have a tombstone.  `JournalTellsTheTruth` from
  `OutcomeInv`: the daemon's record comes first, and every other word of an outcome, in
  a reply, in an answer to a recovery or in the journal, repeats it.  `ContentIsSentOnce`
  from the same invariant: a write to the queue needs the daemon's claim, which is made
  once, and the application's, and of two claims of one content one is settled
  (`OneOpenClaim`).  `NoRecoveryIsBlocked` from `UploadInv`: the next image is intended
  only when every earlier one has landed, and the content is claimed only after the last
  (`OneUpload`, `PublishedInOrder`, `ClaimedHasLanded`).  `QueuedImagesStay` from
  `NeededInv`: whatever may still have an image removed, a release on the wire
  (`Notified`), a line in the journal (`ReleasesAreKnown`) or a recovery that has read
  the journal before (`RecoveriesMayGo`), is about an input whose outcome is known or
  that was given up before it was handed over, and that cannot be taken back
  (`WithdrawnForGood`).

Assumptions, all named and evaluated by TLC in the runs of their modules.  Ledger:
`LimitsAssumption` (limits are naturals), `TaskAssumption` (parent and harness are
functions, no task is its own parent), `NoneAssumption` and `LetterAssumption` (the
null value is no record, task or session), `IdAssumption` (a client's UUID is never
the digest that names a result), `LimitAssumption` (exploration bounds lie within the
limits).  Host: `HostAssumption` (limits are naturals), `NoStatus`.  Worker:
`TaskAssumption` (bounds are naturals, an outcome is no other state); `NothingAssumption`
(the null value is no command, number or outcome).  Gist:
`SyncAssumption`.  Images: `ImageAssumption` (submissions are numbered, images,
applications and contents are functions), `EveryInputHasImages`, `NoOutcome` (the null
value is no outcome, no answer and no input).

**Only model-checked.**  Every invariant, every action property and every refinement
of a passing run is a theorem.  Liveness and its fairness are out of the prover's reach
and stay with TLC: `LiveEventsReachLedger`, `ExitedTaskSettles`, `MemoriesConverge`,
`ImagesAreReclaimed`.  So do the three properties of section 5, which the code violates.

## 5. Disagreements between code and documentation

`grok_resume` shows that resuming a completed grok task does not withdraw the
results queued for it.  `resumed_task` copies the previous row, its
`runtime_generation` included; `run_managed_task` stores that row as the new run
(`runtime/coordinator.rs:2763`) and writes the new token only in a second
checkpoint (2784, 2805).  `checkpoint` therefore believes the old process carries on
(`local_cli_tasks.rs:654`), and `cancel_pending_messages` keeps the results queued.
Once the new token is stored `grok_result_history_matches` refuses them for good:
they stay queued, undeliverable, until the next run.  The test
`grok_mailbox_result_history_rejects_failed_cancelled_resume_and_changed_native_process`
(`persistence/local_cli_tasks_tests.rs:2514`) expects cancellation when the native
process changed, and it builds the new row with the new token already in it.

`hosted_restart` shows that a host in the middle of a turn is not reattached after a
restart of the application, which the comment `runtime/coordinator.rs:657` promises.
`restore_local_tasks` (`app/src/terminal/cli_agent_sessions/local_tasks.rs:130-150`)
first loads the tasks with recovery, which marks every active row `Disconnected`
(`local_cli_tasks.rs:752-774`), and then calls `refresh_records`, whose pass skips
every row that is neither active nor terminal (`coordinator.rs:1568`).  Rows that were
terminal, or that a refresh meets while the application lives, are reattached.

`gist_up_to_date` shows that an upload may answer "Already up to date, no sync needed"
(`app/i18n/en/warp.ftl:998`) though the device has an edit the gist lacks.  `upload`
compares versions only (`sync_engine.rs:103-117`), and versions count what each device
did.  In the shortest trace one device makes an edit, which takes it to version 1, and the
other, which has none, uploads by force, which makes the gist at version 1; the first
one's upload then finds nothing to do.  Two devices with one edit each come to the same.

## 6. Plan of what is left

1. `ToolLeases` (`runtime/coordinator_tools.rs`): a lease ends with its turn, a late
   answer has no effect; over the turns of `RuntimeEvents`.
2. The grok side-car tables as an extension of `TaskLedger`, with the same proofs of
   types and monotonicity; the client actions that checkpoint only configuration, and
   the pane path that rewrites a result text after it was minted (the hazard
   `local_cli_tasks.rs:605` has no property yet).
3. `HostedTask` for claude and grok, where a turn needs the receipt of an input: the
   composition with the input queue of `LedgerClients`; several tasks in one recovery
   pass, where one that fails keeps the others from being looked at
   (`coordinator.rs:1622`).
4. `RemoteSessions`: one live connection per session, every request answered, the grace
   period; the Claude consumer of `ImageSubmission`.
5. Proofs: the safety parts of the liveness arguments (what a worker that waits is
   waiting for, as invariants of `HostedTask`, `GistSync` and `ImageSubmission`), so that
   only fairness is left to TLC.
6. The AI action queue: one outcome per action.

## 7. Running

```
tlc -workers 2 -config MCCodexPair.cfg MCLedger
tlc -workers 2 -config MCHost.cfg MCHost
tlapm ClientRowsProofs.tla
tlapm RuntimeHostProofs.tla
```
