------------------------- MODULE LedgerClientsProofs -------------------------
(***************************************************************************)
(* The callers of the ledger only ever take ledger steps, so everything     *)
(* proved of the ledger holds of the whole, for any number of tasks, runs,  *)
(* stale rows and restarts; and the whole implements the durable mailbox.   *)
(***************************************************************************)
EXTENDS LedgerClients, LedgerGuarantees

-----------------------------------------------------------------------------
(* Every step of a client is a step of the ledger, or leaves it alone *)

\* The requests that store rows and new messages: all but claims and receipts.
Posting ==
    \/ \E t \in Task, new \in Row, expected \in Generation \cup {None} :
          \/ CheckpointTask(t, new, expected)
          \/ \E m \in Message : CheckpointTaskWithMessage(t, new, expected, m)
    \/ \E m \in Message : EnqueueMessage(m)
    \/ \E t \in Task : EnqueueTaskResult(t)
    \/ RecoverTasks

\* A checkpoint that is accepted carries a row and the generation it was read at.
LEMMA CheckpointIsPosting ==
    ASSUME LedgerInv, NEW t \in Task, NEW new, NEW expected,
           CheckpointTask(t, new, expected)
    PROVE  Posting
  <1>1. new \in Row
    BY DEF CheckpointTask, MayCheckpoint, ValidRow
  <1>2. expected \in Generation \cup {None}
    BY DEF CheckpointTask, MayCheckpoint, LedgerInv, TypeOK, Row
  <1> QED
    BY <1>1, <1>2 DEF Posting

\* A transition is committed by a checkpoint.
LEMMA CommitIsPosting ==
    ASSUME LedgerInv, NEW t \in Task, NEW old, NEW new, Commit(t, old, new)
    PROVE  Posting
  BY CheckpointIsPosting DEF Commit

\* The input a user sends to a stored run is a message.
LEMMA UserInputType ==
    ASSUME NEW t \in Task, NEW g \in Generation, NEW i \in Input
    PROVE  UserInput(t, g, i) \in Message
  BY DEF UserInput, Message, MessageId, Subject, Body, MessageState

\* An input of the user is stored with the row that expects it.
LEMMA CommitWithMessageIsPosting ==
    ASSUME LedgerInv, NEW t \in Task, NEW old, NEW new, NEW i \in Input,
           CommitWithMessage(t, old, new, UserInput(t, new.gen, i))
    PROVE  Posting
  <1> DEFINE m == UserInput(t, new.gen, i)
  <1>1. CheckpointTaskWithMessage(t, new, old.gen, m)
    BY DEF CommitWithMessage
  <1>2. new \in Row /\ old.gen \in Generation \cup {None}
    <2>1. CASE MayCheckpoint(t, new, old.gen)
      BY <2>1 DEF MayCheckpoint, ValidRow, LedgerInv, TypeOK, Row
    <2>2. CASE Repeats(t, new) /\ old.gen = new.gen
      BY <2>2 DEF Repeats, LedgerInv, TypeOK, Row
    <2> QED
      BY <1>1, <2>1, <2>2 DEF CheckpointTaskWithMessage
  <1>3. m \in Message
    BY <1>2, UserInputType DEF Row
  <1> QED
    BY <1>1, <1>2, <1>3 DEF Posting

\* What is queued is a message.
LEMMA EnqueueIsPosting ==
    ASSUME NEW m, EnqueueMessage(m)
    PROVE  Posting
  <1>1. m \in Message
    BY DEF EnqueueMessage, MayInsert
  <1> QED
    BY <1>1 DEF Posting

\* A turn is opened by a checkpoint, for grok as for claude.
LEMMA StartIsPosting ==
    ASSUME LedgerInv, NEW t \in Task, NEW old, NEW head, NEW next,
           GrokStart(t, old, head, next) \/ ClaudeStart(t, old, head, next)
    PROVE  Posting
  BY CommitIsPosting DEF GrokStart, ClaudeStart

\* What the task manager, a launch and a runtime event write is posted.
LEMMA TaskActionIsPosting ==
    ASSUME LedgerInv, NEW t \in Task,
           \/ LaunchTask(t) \/ ResumeTask(t) \/ StartProcess(t)
           \/ BindSession(t) \/ ReportState(t) \/ FinishRun(t)
           \/ AcceptTurn(t) \/ StartTurn(t) \/ RunTurn(t) \/ DropInput(t)
    PROVE  Posting
  <1>1. ASSUME LaunchTask(t) PROVE Posting
    BY <1>1, CheckpointIsPosting DEF LaunchTask
  <1>2. ASSUME ResumeTask(t) PROVE Posting
    BY <1>2, CheckpointIsPosting DEF ResumeTask
  <1>3. ASSUME StartProcess(t) PROVE Posting
    BY <1>3, CheckpointIsPosting DEF StartProcess
  <1>4. ASSUME BindSession(t) PROVE Posting
    BY <1>4, CommitIsPosting DEF BindSession
  <1>5. ASSUME ReportState(t) PROVE Posting
    BY <1>5, CommitIsPosting DEF ReportState
  <1>6. ASSUME FinishRun(t) PROVE Posting
    BY <1>6, CommitIsPosting DEF FinishRun
  <1>7. ASSUME AcceptTurn(t) PROVE Posting
    BY <1>7, CommitIsPosting DEF AcceptTurn
  <1>8. ASSUME StartTurn(t) PROVE Posting
    BY <1>8, StartIsPosting DEF StartTurn
  <1>9. ASSUME RunTurn(t) PROVE Posting
    BY <1>9, CommitIsPosting DEF RunTurn
  <1>10. ASSUME DropInput(t) PROVE Posting
    BY <1>10, CommitIsPosting DEF DropInput
  <1> QED
    BY <1>1, <1>2, <1>3, <1>4, <1>5, <1>6, <1>7, <1>8, <1>9, <1>10

\* So is an input, for every harness.
LEMMA SubmitIsPosting ==
    ASSUME LedgerInv, NEW t \in Task, NEW i \in Input, SubmitInput(t, i)
    PROVE  Posting
  <1>1. PICK old : GrokSubmit(t, old, i) \/ ClaudeSubmit(t, old, i) \/ CodexSubmit(t, old, i)
    BY DEF SubmitInput
  <1>2. ASSUME GrokSubmit(t, old, i) PROVE Posting
    BY <1>2, CommitWithMessageIsPosting DEF GrokSubmit
  <1>3. ASSUME ClaudeSubmit(t, old, i) PROVE Posting
    BY <1>3, CommitWithMessageIsPosting DEF ClaudeSubmit
  <1>4. ASSUME CodexSubmit(t, old, i) PROVE Posting
    <2>1. CASE EnqueueMessage(UserInput(t, old.gen, i))
      BY <2>1, EnqueueIsPosting
    <2>2. CASE CommitWithMessage(t, old, NextRun(old), UserInput(t, old.gen + 1, i))
      <3>1. /\ CheckpointTaskWithMessage(t, NextRun(old), old.gen,
                                         UserInput(t, old.gen + 1, i))
            /\ UserInput(t, old.gen + 1, i).rgen = old.gen + 1
        BY <2>2 DEF CommitWithMessage, UserInput
      <3>2. NextRun(old).gen = old.gen + 1
        BY <3>1 DEF CheckpointTaskWithMessage
      <3> QED
        BY <2>2, <3>2, CommitWithMessageIsPosting
    <2> QED
      BY <1>4, <2>1, <2>2 DEF CodexSubmit
  <1> QED
    BY <1>1, <1>2, <1>3, <1>4

\* And the link of a message that is handed over.
LEMMA LinkIsPosting ==
    ASSUME LedgerInv, NEW i \in MessageId, LinkMail(i)
    PROVE  Posting
  <1>1. msg[i].to \in Task
    BY DEF LinkMail, LedgerInv, TypeOK, Message
  <1> QED
    BY <1>1, CommitIsPosting DEF LinkMail, GrokLink, ClaudeLink

\* The state of one message went from one value to another, nothing else did.
MovesLetter(i, from, to) ==
    /\ msg[i] # None /\ msg[i].state = from
    /\ \E receipt \in Receipt \cup {None} : Move(i, to, receipt)

\* The moves a message's delivery is made of.
Delivery == {<<"queued", "sent">>, <<"sent", "acknowledged">>, <<"sent", "failed">>}

\* Claims, receipts and failures move one message along its delivery.
LEMMA MailActionMoves ==
    ASSUME LedgerInv, NEW i \in MessageId,
           \/ DeliverResult(i) \/ RecordInHistory(i) \/ ClaimMail(i) \/ MarkSent(i)
           \/ SettleSent(i, "acknowledged") \/ SettleSent(i, "failed")
    PROVE  /\ Next
           /\ \E from, to \in MessageState :
                 MovesLetter(i, from, to) /\ <<from, to>> \in Delivery
  <1>1. {"queued", "sent", "acknowledged", "failed"} \subseteq MessageState
    BY DEF MessageState
  <1>2. CASE DeliverResult(i)
    <2>1. Next
      BY <1>2 DEF DeliverResult, Managed, Next
    <2>2. MovesLetter(i, "queued", "sent")
      BY <1>2 DEF DeliverResult, ClaimTaskResult, Waiting, MovesLetter
    <2> QED
      BY <1>1, <2>1, <2>2 DEF Delivery
  <1>3. CASE ClaimMail(i)
    <2>1. Next
      BY <1>3 DEF ClaimMail, Next
    <2>2. MovesLetter(i, "queued", "sent")
      BY <1>3 DEF ClaimMail, ClaimParentHistoryMessage, ClaimManagedMessage,
         Waiting, MovesLetter
    <2> QED
      BY <1>1, <2>1, <2>2 DEF Delivery
  <1>4. CASE RecordInHistory(i)
    <2>1. Next
      BY <1>4 DEF RecordInHistory, Next
    <2>2. MovesLetter(i, "sent", "acknowledged")
      BY <1>4 DEF RecordInHistory, AcknowledgeApplicationHistory, SettleMessage,
         MovesLetter, Receipt
    <2> QED
      BY <1>1, <2>1, <2>2 DEF Delivery
  <1>5. CASE MarkSent(i)
    <2>1. Next
      BY <1>1, <1>5 DEF MarkSent, Next
    <2>2. MovesLetter(i, "queued", "sent")
      BY <1>5 DEF MarkSent, AcknowledgeMessage, SettleMessage, Forward, MovesLetter
    <2> QED
      BY <1>1, <2>1, <2>2 DEF Delivery
  <1>6. ASSUME NEW state \in {"acknowledged", "failed"}, SettleSent(i, state)
        PROVE  /\ Next
               /\ \E from, to \in MessageState :
                     MovesLetter(i, from, to) /\ <<from, to>> \in Delivery
    <2>1. Next
      BY <1>1, <1>6 DEF SettleSent, Next
    <2>2. MovesLetter(i, "sent", state)
      BY <1>6 DEF SettleSent, AcknowledgeMessage, SettleMessage, MovesLetter, Receipt
    <2> QED
      BY <1>1, <2>1, <2>2 DEF Delivery
  <1> QED
    BY <1>2, <1>3, <1>4, <1>5, <1>6

\* A step of a client on one stored message.
MailAction(i) ==
    \/ DeliverResult(i) \/ RecordInHistory(i) \/ ClaimMail(i) \/ MarkSent(i)
    \/ SettleSent(i, "acknowledged") \/ SettleSent(i, "failed")

\* Every step of a client posts, acts on one message, or leaves the ledger alone.
LEMMA ClientActs ==
    ASSUME LedgerInv, [ClientNext]_vars
    PROVE  Posting \/ (\E i \in MessageId : MailAction(i)) \/ UNCHANGED ledger
  <1>1. ASSUME \/ UNCHANGED vars \/ \E t \in Task : Hold(t)
        PROVE  UNCHANGED ledger
    BY <1>1 DEF vars, ledger, Hold
  <1>2. ASSUME NEW t \in Task, MintResult(t) PROVE Posting
    BY <1>2 DEF MintResult, Posting
  <1>3. ASSUME NEW i \in Input,
               SendMessage(i) \/ (\E t \in Task : PrepareInput(t, i))
        PROVE  Posting
    BY <1>3, EnqueueIsPosting DEF SendMessage, PrepareInput
  <1>4. ASSUME Restart PROVE Posting
    BY <1>4 DEF Restart, Posting
  <1>5. Input \subseteq MessageId
    BY DEF MessageId
  <1> QED
    BY <1>1, <1>2, <1>3, <1>4, <1>5, TaskActionIsPosting, SubmitIsPosting,
       LinkIsPosting DEF ClientNext, MailAction

\* Every step of a client posts, delivers, or leaves the ledger alone.
LEMMA ClientStep ==
    ASSUME LedgerInv, [ClientNext]_vars
    PROVE  \/ Posting
           \/ /\ Next
              /\ \E i \in MessageId, from, to \in MessageState :
                    MovesLetter(i, from, to) /\ <<from, to>> \in Delivery
           \/ UNCHANGED ledger
  BY ClientActs, MailActionMoves DEF MailAction

\* The task manager, the coordinator, the bridge, the mailbox and the restore use
\* the ledger only through the requests it offers.
THEOREM ClientsUseLedger == ClientSpec => Spec
  <1>1. ClientInit => Init
    BY DEF ClientInit
  <1>2. LedgerInv /\ [ClientNext]_vars => [Next]_ledger /\ LedgerInv'
    BY ClientStep, NextInv DEF Posting, Next
  <1> QED
    BY <1>1, <1>2, InitInv, PTL DEF ClientSpec, Spec

\* With every caller running, interrupted at any point and restarted, the task
\* tables keep their types and their history, sessions have one active owner,
\* and queued mail and results stay true.
THEOREM ClientsKeepLedger ==
    ClientSpec => [](/\ TypeOK /\ HistoryMirrorsCurrent /\ OneOwnerPerSession
                     /\ QueuedMailIsCurrent /\ ResultsSpeakForEndedRuns)
  BY ClientsUseLedger, TypeCorrect, HistoryIsComplete, SessionsAreOwnedOnce,
     QueuedMailStaysCurrent, ResultsAreTrue, PTL

-----------------------------------------------------------------------------
(* The whole implements the durable mailbox *)

\* A message is mapped to a letter, with its content and state.
LEMMA LetterOfMessage ==
    ASSUME NEW m \in Message
    PROVE  /\ LetterOf(m) # None
           /\ LetterOf(m).content = Content(m) /\ LetterOf(m).phase = m.state
           /\ LetterOf(m) = [content |-> Content(m), phase |-> m.state]
           /\ Content(m) \in Message
  <1>1. m # None
    BY NoneAssumption
  <1>2. Content(m) \in Message /\ m.state \in MessageState
    BY DEF Content, Message, MessageState
  <1>3. [content |-> Content(m), phase |-> m.state] # None
    BY <1>2, LetterAssumption
  <1> QED
    BY <1>1, <1>2, <1>3 DEF LetterOf

\* A move of a message is a step of its letter.
LEMMA MoveIsMailboxStep ==
    ASSUME LedgerInv, NEW i \in MessageId,
           NEW from \in MessageState, NEW to \in MessageState,
           MovesLetter(i, from, to),
           <<from, to>> \in Delivery
    PROVE  Mailbox!Next
  <1>1. PICK receipt \in Receipt \cup {None} : Move(i, to, receipt)
    BY DEF MovesLetter
  <1>2. msg[i] \in Message /\ msg[i] # None /\ msg[i].state = from
    BY DEF MovesLetter, LedgerInv, TypeOK
  <1>3. /\ msg'[i] = [msg[i] EXCEPT !.state = to, !.receipt = receipt]
        /\ \A j \in MessageId \ {i} : msg'[j] = msg[j]
    BY <1>1 DEF Move, LedgerInv, TypeOK
  <1>4. msg'[i] \in Message /\ msg'[i].state = to /\ Content(msg'[i]) = Content(msg[i])
    BY <1>2, <1>3 DEF Content, Message
  <1>5. /\ Letter[i] # None /\ Letter[i].phase = from
        /\ Letter[i] = [content |-> Content(msg[i]), phase |-> from]
    BY <1>2, LetterOfMessage DEF Letter
  <1>6. Letter'[i] = [content |-> Content(msg[i]), phase |-> to]
    <2>1. Letter'[i] = LetterOf(msg'[i])
      BY DEF Letter
    <2> QED
      BY <2>1, <1>4, LetterOfMessage
  <1>7. Letter'[i] = [Letter[i] EXCEPT !.phase = to]
    BY <1>5, <1>6
  <1>8. \A j \in MessageId \ {i} : Letter'[j] = Letter[j]
    BY <1>3 DEF Letter
  <1> QED
    BY <1>5, <1>7, <1>8
    DEF Delivery, Mailbox!Next, Mailbox!Dispatch, Mailbox!Settle, Mailbox!Becomes

\* What posting may do to one message: nothing, withdraw it, or store it.
PostedOrWithdrawn(i) ==
    \/ msg'[i] = msg[i]
    \/ /\ msg[i] # None /\ msg[i].state = "queued"
       /\ msg'[i] = [msg[i] EXCEPT !.state = "cancelled"]
    \/ /\ msg[i] = None /\ msg'[i] # None
       /\ msg'[i].state \in {"queued", "cancelled"}

\* What a checkpoint does to one message.
LEMMA MailAfterWithdraws ==
    ASSUME NEW H, NEW t, NEW old, NEW new, NEW i \in MessageId
    PROVE  \/ MailAfter(H, t, old, new)[i] = msg[i]
           \/ /\ msg[i] # None /\ msg[i].state = "queued"
              /\ MailAfter(H, t, old, new)[i] = [msg[i] EXCEPT !.state = "cancelled"]
  BY DEF MailAfter, Withdrawn, Undispatched

\* What a posting does to each message.
LEMMA PostingPosts ==
    ASSUME LedgerInv, Posting, NEW i \in MessageId
    PROVE  PostedOrWithdrawn(i)
  <1>1. ASSUME NEW t \in Task, NEW new \in Row,
               NEW expected \in Generation \cup {None},
               CheckpointTask(t, new, expected)
        PROVE  PostedOrWithdrawn(i)
    BY <1>1, MailAfterWithdraws DEF CheckpointTask, PostedOrWithdrawn
  <1>2. ASSUME NEW t \in Task, NEW new \in Row,
               NEW expected \in Generation \cup {None}, NEW m \in Message,
               CheckpointTaskWithMessage(t, new, expected, m)
        PROVE  PostedOrWithdrawn(i)
    <2> DEFINE M == IF Repeats(t, new) THEN msg
                    ELSE MailAfter(StoredRuns(t, new), t, task[t], new)
    <2>1. /\ Enqueued(M, m) \/ (M[m.id] = None /\ MayInsert(StoredTasks(t, new), m))
          /\ msg' = WithMessage(M, m)
      BY <1>2 DEF CheckpointTaskWithMessage
    <2>2. M \in [MessageId -> Message \cup {None}]
      BY MailAfterType DEF LedgerInv, TypeOK
    <2>3. \/ M[i] = msg[i]
          \/ /\ msg[i] # None /\ msg[i].state = "queued"
             /\ M[i] = [msg[i] EXCEPT !.state = "cancelled"]
      BY MailAfterWithdraws
    <2>4. M[i] = None => msg[i] = None
      <3>1. ASSUME msg[i] # None
            PROVE  [msg[i] EXCEPT !.state = "cancelled"] # None
        BY <3>1, NoneAssumption DEF LedgerInv, TypeOK, Message, MessageState
      <3> QED
        BY <2>3, <3>1
    <2> HIDE DEF M
    <2>5. CASE Enqueued(M, m)
      BY <2>1, <2>3, <2>5 DEF WithMessage, PostedOrWithdrawn
    <2>6. CASE ~Enqueued(M, m)
      <3>1. M[m.id] = None /\ m.state = "queued"
        BY <2>1, <2>6 DEF MayInsert
      <3>2. msg'[i] = IF i = m.id THEN m ELSE M[i]
        BY <2>1, <2>2, <2>6 DEF WithMessage, Message
      <3> QED
        BY <2>3, <2>4, <3>1, <3>2, NoneAssumption DEF PostedOrWithdrawn
    <2> QED
      BY <2>5, <2>6
  <1>3. ASSUME NEW m \in Message, EnqueueMessage(m)
        PROVE  PostedOrWithdrawn(i)
    <2>1. /\ msg[m.id] = None /\ m.state = "queued" /\ m # None
          /\ msg'[i] = IF i = m.id /\ ~Enqueued(msg, m) THEN m ELSE msg[i]
      BY <1>3, NoneAssumption
      DEF EnqueueMessage, MayInsert, WithMessage, LedgerInv, TypeOK, Message
    <2> QED
      BY <2>1 DEF PostedOrWithdrawn
  <1>4. ASSUME NEW t \in Task, EnqueueTaskResult(t)
        PROVE  PostedOrWithdrawn(i)
    <2> DEFINE m == ResultMessage(t, task[t])
               minted == [m EXCEPT !.state = MintedState(m)]
    <2>1. m \in Message
      BY <1>4, ResultMessageType DEF EnqueueTaskResult
    <2>2. MintedState(m) \in {"queued", "cancelled"}
      BY DEF MintedState
    <2>3. /\ msg[m.id] = None
          /\ msg'[i] = IF i = m.id THEN minted ELSE msg[i]
      BY <1>4 DEF EnqueueTaskResult, LedgerInv, TypeOK
    <2> HIDE DEF m
    <2>4. minted \in Message /\ minted.state \in {"queued", "cancelled"}
      BY <2>1, <2>2 DEF Message, MessageState
    <2> QED
      BY <2>3, <2>4, NoneAssumption DEF PostedOrWithdrawn
  <1>5. ASSUME RecoverTasks
        PROVE  PostedOrWithdrawn(i)
    BY <1>5 DEF RecoverTasks, PostedOrWithdrawn
  <1> QED
    BY <1>1, <1>2, <1>3, <1>4, <1>5 DEF Posting

\* A posting is a step of every letter it changes.
LEMMA PostingIsMailboxStep ==
    ASSUME LedgerInv, LedgerInv', Posting
    PROVE  Mailbox!Next
  <1> SUFFICES ASSUME NEW i \in MessageId
               PROVE  Letter'[i] = Letter[i] \/ Mailbox!Post(i) \/ Mailbox!Withdraw(i)
    BY DEF Mailbox!Next
  <1>1. Letter[i] = LetterOf(msg[i]) /\ Letter'[i] = LetterOf(msg'[i])
    BY DEF Letter
  <1>2. CASE msg'[i] = msg[i]
    BY <1>1, <1>2
  <1>3. CASE /\ msg[i] # None /\ msg[i].state = "queued"
             /\ msg'[i] = [msg[i] EXCEPT !.state = "cancelled"]
    <2>1. msg[i] \in Message
      BY <1>3 DEF LedgerInv, TypeOK
    <2>2. /\ msg'[i] \in Message /\ msg'[i].state = "cancelled"
          /\ Content(msg'[i]) = Content(msg[i])
      BY <1>3, <2>1 DEF Content, Message, MessageState
    <2>3. /\ Letter[i] # None /\ Letter[i].phase = "queued"
          /\ Letter[i] = [content |-> Content(msg[i]), phase |-> "queued"]
      BY <1>1, <1>3, <2>1, LetterOfMessage
    <2>4. Letter'[i] = [content |-> Content(msg[i]), phase |-> "cancelled"]
      BY <1>1, <2>2, LetterOfMessage
    <2>5. Letter'[i] = [Letter[i] EXCEPT !.phase = "cancelled"]
      BY <2>3, <2>4
    <2> QED
      BY <2>3, <2>5 DEF Mailbox!Withdraw, Mailbox!Becomes
  <1>4. CASE /\ msg[i] = None /\ msg'[i] # None
             /\ msg'[i].state \in {"queued", "cancelled"}
    <2>1. msg'[i] \in Message
      BY <1>4 DEF LedgerInv, TypeOK
    <2>2. Letter[i] = None
      BY <1>1, <1>4 DEF LetterOf
    <2>3. /\ Letter'[i] # None /\ Letter'[i].content \in Message
          /\ Letter'[i].phase \in {"queued", "cancelled"}
      BY <1>1, <1>4, <2>1, LetterOfMessage
    <2> QED
      BY <2>2, <2>3 DEF Mailbox!Post
  <1> QED
    BY <1>2, <1>3, <1>4, PostingPosts DEF PostedOrWithdrawn

\* Every step of a client is a step of the durable mailbox.
LEMMA MailboxStep ==
    ASSUME LedgerInv, LedgerInv', [ClientNext]_vars
    PROVE  [Mailbox!Next]_Letter
  <1>1. ASSUME UNCHANGED ledger
        PROVE  UNCHANGED Letter
    BY <1>1 DEF ledger, Letter
  <1> QED
    BY <1>1, ClientStep, PostingIsMailboxStep, MoveIsMailboxStep

\* The message table and all its users implement the durable mailbox for any
\* number of tasks and messages: through resumes, cancelled runs, stale rows and
\* restarts nothing is handed over twice, settled unsent, changed after it was
\* queued, or withdrawn once it was handed over.
THEOREM MailboxIsImplemented == ClientSpec => MailboxImplemented
  <1>1. ClientInit => Mailbox!Init
    BY DEF ClientInit, Init, Mailbox!Init, Letter, LetterOf
  <1>2. ClientSpec => []LedgerInv
    BY ClientsUseLedger, LedgerInvariant, PTL
  <1>3. LedgerInv /\ LedgerInv' /\ [ClientNext]_vars => [Mailbox!Next]_Letter
    BY MailboxStep
  <1> QED
    BY <1>1, <1>2, <1>3, PTL DEF ClientSpec, MailboxImplemented, Mailbox!Spec

-----------------------------------------------------------------------------
(* Answers that arrive late *)

\* Only an answer ends the delivery of a message that was sent.
LEMMA SentEndsBySettling ==
    ASSUME LedgerInv, [ClientNext]_vars, NEW i \in MessageId,
           msg[i] # None, msg[i].state = "sent", msg'[i].state # "sent"
    PROVE  \/ \E state \in MessageState \ {"queued"} : AcknowledgeMessage(i, state)
           \/ AcknowledgeApplicationHistory(i)
  <1>1. msg'[i] # msg[i]
    OBVIOUS
  <1>2. ~PostedOrWithdrawn(i)
    BY <1>1 DEF PostedOrWithdrawn
  <1>3. Next /\ ~Posting
    BY <1>1, <1>2, ClientStep, PostingPosts DEF ledger
  <1>4. ASSUME NEW j \in MessageId,
               \/ \E exact \in BOOLEAN : ClaimTaskResult(j, exact)
               \/ ClaimParentHistoryMessage(j)
               \/ ClaimManagedMessage(j)
        PROVE  FALSE
    <2>1. msg[j].state = "queued" /\ Move(j, "sent", None)
      BY <1>4 DEF ClaimTaskResult, ClaimParentHistoryMessage, ClaimManagedMessage,
         Waiting
    <2> QED
      BY <1>1, <2>1 DEF Move, LedgerInv, TypeOK
  <1>5. ASSUME NEW j \in MessageId, NEW state, NEW receipt,
               SettleMessage(j, state, receipt)
        PROVE  j = i
    BY <1>1, <1>5 DEF SettleMessage, Move, LedgerInv, TypeOK
  <1>6. \E j \in MessageId :
           \/ \E state \in MessageState \ {"queued"} : AcknowledgeMessage(j, state)
           \/ AcknowledgeApplicationHistory(j)
    BY <1>3, <1>4 DEF Next, Posting
  <1> QED
    BY <1>5, <1>6 DEF AcknowledgeMessage, AcknowledgeApplicationHistory

\* What reaches a later run is accepted on behalf of the same process only.
LEMMA SettledForSameProcess ==
    ASSUME NEW i \in MessageId, NEW state, NEW receipt, SettleMessage(i, state, receipt),
           task[msg[i].to].gen # msg[i].rgen
    PROVE  SameProcess(hist[msg[i].to][msg[i].rgen], task[msg[i].to])
  BY DEF SettleMessage, GrokReceipt, ClaudeReceipt, ClaudeHistory

\* The answer to a message of an earlier run counts only while the process that
\* was handed the message serves the task, whatever rows the callers hold and
\* however often the application died (update_message_state_with_receipt).
THEOREM LateAnswersSpeakForTheirProcess == ClientSpec => LateAnswersFromSameProcess
  <1>1. LedgerInv /\ [ClientNext]_vars =>
          [\A i \in MessageId :
              /\ msg[i] # None /\ msg[i].state = "sent" /\ msg'[i].state # "sent"
              /\ task[msg[i].to].gen # msg[i].rgen
              => SameProcess(hist[msg[i].to][msg[i].rgen], task[msg[i].to])]_vars
    BY SentEndsBySettling, SettledForSameProcess
    DEF AcknowledgeMessage, AcknowledgeApplicationHistory
  <1>2. ClientSpec => []LedgerInv
    BY ClientsUseLedger, LedgerInvariant, PTL
  <1> QED
    BY <1>1, <1>2, PTL DEF ClientSpec, LateAnswersFromSameProcess

=============================================================================
