---------------------------- MODULE LedgerRecords ----------------------------
(***************************************************************************)
(* The records of the local CLI task ledger (LocalCliTask, LocalCliMessage  *)
(* and the input links kept inside config_json) and the pure predicates     *)
(* app/src/persistence/local_cli_tasks.rs evaluates over them.              *)
(*                                                                          *)
(* A task row keeps the fields its guards tell apart.  version is always 1, *)
(* harness and parent_task_id never change after the first checkpoint (they *)
(* are the constants Harness and Parent), the local_tools.allow_message     *)
(* permission is the constant MayMessage, and texts are model values.  A    *)
(* mailbox SHA-256 is the frozen content it digests.                        *)
(***************************************************************************)
EXTENDS Integers, Sequences, FiniteSets

CONSTANTS
    Task,        \* task_id values
    Parent,      \* task -> the task that launched it, or None
    Harness,     \* task -> "oz", "codex", "claude" or "grok"
    MayMessage,  \* tasks whose config grants local_tools.allow_message
    Session,     \* native_session_id values
    Turn,        \* native turn ids
    Result,      \* final texts
    Evidence,    \* terminal_evidence texts
    Input,       \* message ids a client draws (UUID v4)
    Text,        \* bodies of messages that are not task results
    Submit,      \* the body that parses as RuntimeAction::Submit
    MaxGen,      \* i64::MAX as a bound on generation
    MaxRev,      \* i64::MAX as a bound on revision
    LinkLimit,   \* 33: grok_pending_inputs plus grok_current_input
    None         \* Option::None

Generation == 1 .. MaxGen
Revision == 0 .. MaxRev

\* runtime_generation: at most one native process is started for a run, and its
\* UUID is named here by that run.
Runtime == Task \X Generation

Active == {"queued", "running", "waiting_for_user", "unconfirmed"}
Terminal == {"completed", "failed", "cancelled"}
TaskState == Active \cup Terminal \cup {"disconnected"}

MessageState == {"queued", "sent", "acknowledged", "failed", "cancelled"}
Subject == {"user_input", "message", "native_tool", "local_task_result"}
Receipt == {"native_protocol", "application_history"}

\* insert_task_result derives a result's id from its task and generation alone.
ResultId == Task \X Generation
MessageId == Input \cup ResultId

Body == Text \cup {Submit} \cup [state : Terminal, result : Result \cup {None},
                   evidence : Evidence \cup {None}]

Message == [id : MessageId, from : Task, to : Task, sgen : Generation,
            rgen : Generation, subject : Subject, body : Body,
            state : MessageState, receipt : Receipt \cup {None}]

\* An input a native process was handed and has not finished: GrokInputLink,
\* ClaudePendingInput and claude_current_input (whose turn_id is the link's id).
Link == [id : MessageId, sgen : Generation, runtime : Runtime \cup {None},
         turn : Turn \cup {None}, mail : Message \cup {None}]

Row == [gen : Generation, rev : Revision, state : TaskState,
        session : Session \cup {None}, runtime : Runtime \cup {None},
        result : Result \cup {None}, evidence : Evidence \cup {None},
        pgen : Generation \cup {None},
        pending : Seq(Link), current : Link \cup {None}]

ASSUME LimitsAssumption == MaxGen \in Nat \ {0} /\ MaxRev \in Nat /\ LinkLimit \in Nat

ASSUME TaskAssumption ==
    /\ Parent \in [Task -> Task \cup {None}]
    /\ \A t \in Task : Parent[t] # t
    /\ Harness \in [Task -> {"oz", "codex", "claude", "grok"}]

\* None is none of the values it stands in for the absence of.
ASSUME NoneAssumption ==
    /\ None \notin Row
    /\ None \notin Message
    /\ None \notin Task
    /\ None \notin Session

\* UUIDs drawn by clients never meet the digest of a task and its generation.
ASSUME IdAssumption == Input \cap ResultId = {}

IsActive(row) == row.state \in Active
IsTerminal(row) == row.state \in Terminal
IsResult(m) == m.subject = "local_task_result"

\* validate_task
ValidRow(t, row) ==
    /\ row \in Row
    /\ (Parent[t] = None) <=> (row.pgen = None)
    /\ row.state = "completed" => row.session # None /\ row.evidence # None

\* The message as it was queued: what an id is bound to for ever.
Content(m) == [m EXCEPT !.state = "queued", !.receipt = None]

\* Direct family: the task itself, its parent or its child.
Related(a, b) == a = b \/ Parent[a] = b \/ Parent[b] = a

\* task_result_message_body
ResultBody(row) ==
    [state |-> row.state, result |-> row.result, evidence |-> row.evidence]

\* grok_same_process, claude_same_process: one native process served both runs.
SameProcess(original, current) ==
    /\ original.gen <= current.gen
    /\ original.session # None /\ original.session = current.session
    /\ original.runtime # None /\ original.runtime = current.runtime

\* What the result checks of grok_mailbox_origin_matches and
\* claude_result_origin_matches ask of the two generation rows of a result.
ResultOrigin(m, source, original) ==
    /\ Parent[m.from] = m.to
    /\ source.gen = m.sgen /\ original.gen = m.rgen
    /\ source.pgen = m.rgen
    /\ IsTerminal(source)
    /\ m.body = ResultBody(source)

\* grok_mailbox_origin_matches: a result, or any message of the direct family.
MailboxOrigin(m, source, original, digest) ==
    /\ Harness[m.to] = "grok"
    /\ source.gen = m.sgen /\ original.gen = m.rgen
    /\ Related(m.from, m.to)
    /\ digest = Content(m)
    /\ IsResult(m) => ResultOrigin(m, source, original)

\* grok_result_history_matches: every run from the addressed one up to current
\* was served by one native process, and all but the last ended completed.
GrokHistory(H, m, current) ==
    /\ IsResult(m) /\ m.rgen <= current.gen
    /\ \A g \in m.rgen .. current.gen :
          /\ H[m.to][g] # None
          /\ SameProcess(H[m.to][g], current)
          /\ g < current.gen => H[m.to][g].state = "completed"
    /\ H[m.to][current.gen] = current

\* mutant: whatever started the run
DrivenByAnything(H, M, t, previous, next, current) ==
    previous.state = "completed" /\ SameProcess(next, current)

\* One step of claude_result_history_matches: the run next was started by a
\* result the native process acknowledged, never by a new turn of the user.
DrivenByResult(H, M, t, previous, next, current) ==
    LET link == next.current IN
    /\ previous.state = "completed"
    /\ SameProcess(next, current)
    /\ link # None /\ link.mail # None
    /\ link.id = link.mail.id /\ link.sgen = previous.gen
    /\ previous.pending # <<>>
    /\ previous.pending[1].id = link.id
    /\ previous.pending[1].sgen = link.sgen
    /\ previous.pending[1].mail = link.mail
    /\ link.mail.rgen <= previous.gen
    /\ M[link.id] # None
    /\ M[link.id].state = "acknowledged" /\ M[link.id].receipt = "native_protocol"
    /\ Content(M[link.id]) = link.mail /\ IsResult(link.mail) /\ link.mail.to = t
    /\ H[t][link.mail.rgen] # None
    /\ SameProcess(H[t][link.mail.rgen], current)
    /\ H[link.mail.from][link.mail.sgen] # None
    /\ ResultOrigin(link.mail, H[link.mail.from][link.mail.sgen],
                    H[t][link.mail.rgen])

\* claude_result_history_matches
ClaudeHistory(H, M, m, current) ==
    /\ IsResult(m) /\ m.rgen <= current.gen
    /\ current.state \in {"queued", "running", "waiting_for_user", "completed"}
    /\ H[m.to][m.rgen] # None
    /\ SameProcess(H[m.to][m.rgen], current)
    /\ H[m.from][m.sgen] # None
    /\ ResultOrigin(m, H[m.from][m.sgen], H[m.to][m.rgen])
    /\ \A g \in m.rgen + 1 .. current.gen :
          /\ H[m.to][g] # None /\ H[m.to][g - 1] # None
          /\ DrivenByResult(H, M, m.to, H[m.to][g - 1], H[m.to][g], current)
    /\ H[m.to][current.gen] = current

=============================================================================
