-------------------------- MODULE TaskLedgerProofs --------------------------
(***************************************************************************)
(* What the ledger guarantees for every family of tasks, every bound and    *)
(* every sequence of requests, whatever rows and messages callers send.     *)
(***************************************************************************)
EXTENDS TaskLedger, TLAPS

\* Stored rows passed validate_task: a task has a parent generation exactly when
\* it has a parent.  Minting a result reads that generation.
RowsValid ==
    \A t \in Task : task[t] # None => (Parent[t] = None <=> task[t].pgen = None)

\* Inductive: the types rest on RowsValid, the history on the types.
LedgerInv == TypeOK /\ RowsValid /\ HistoryMirrorsCurrent

-----------------------------------------------------------------------------
(* Rows *)

\* A row restored after an interruption is a row, not active, of the same run.
LEMMA InterruptedRow ==
    ASSUME NEW row \in Row, row.rev < MaxRev
    PROVE  /\ Interrupted(row) \in Row
           /\ ~IsActive(Interrupted(row)) /\ ~IsTerminal(Interrupted(row))
           /\ Interrupted(row).gen = row.gen
           /\ Interrupted(row).rev = row.rev + 1
           /\ Interrupted(row).pgen = row.pgen
           /\ Interrupted(row).session = row.session
           /\ Interrupted(row).result = row.result
           /\ Interrupted(row).evidence = row.evidence
  <1>1. row.rev + 1 \in Revision
    BY LimitsAssumption DEF Row, Revision
  <1>2. "disconnected" \in TaskState
    BY DEF TaskState
  <1> QED
    BY <1>1, <1>2
    DEF Interrupted, Row, IsActive, IsTerminal, Active, Terminal

\* What a checkpoint the ledger accepts does to the row of its task: it stores
\* the first row, the next revision of the run, the next run, or the row again.
LEMMA AcceptedRow ==
    ASSUME LedgerInv, NEW t \in Task, NEW new \in Row,
           NEW expected \in Generation \cup {None},
           MayCheckpoint(t, new, expected) \/ Repeats(t, new)
    PROVE  /\ (Parent[t] = None) <=> (new.pgen = None)
           /\ \/ task[t] = None /\ new.gen = 1
              \/ /\ task[t] # None /\ new.pgen = task[t].pgen
                 /\ \/ UpdatesRun(task[t], new)
                    \/ ContinuesTask(task[t], new)
                    \/ task[t] = new
  <1>1. CASE MayCheckpoint(t, new, expected)
    BY <1>1 DEF MayCheckpoint, ValidRow
  <1>2. CASE Repeats(t, new)
    <2>1. task[t] = new /\ new # None
      BY <1>2, NoneAssumption DEF Repeats
    <2> QED
      BY <2>1 DEF LedgerInv, RowsValid
  <1> QED
    BY <1>1, <1>2

-----------------------------------------------------------------------------
(* The ledger invariant, one lemma per request *)

\* Storing a row whose run continues or follows the stored one.
LEMMA StoredInv ==
    ASSUME LedgerInv, NEW t \in Task, NEW new \in Row,
           NEW expected \in Generation \cup {None},
           MayCheckpoint(t, new, expected) \/ Repeats(t, new),
           task' = StoredTasks(t, new), hist' = StoredRuns(t, new)
    PROVE  /\ task' \in [Task -> Row \cup {None}]
           /\ hist' \in [Task -> [Generation -> Row \cup {None}]]
           /\ RowsValid'
           /\ HistoryMirrorsCurrent'
  <1>1. new.gen \in Generation /\ new # None
    BY NoneAssumption DEF Row
  <1>2. /\ task' \in [Task -> Row \cup {None}]
        /\ hist' \in [Task -> [Generation -> Row \cup {None}]]
    BY <1>1 DEF LedgerInv, TypeOK, StoredTasks, StoredRuns
  <1>3. /\ task'[t] = new
        /\ hist'[t] = [hist[t] EXCEPT ![new.gen] = new]
        /\ \A u \in Task \ {t} : task'[u] = task[u] /\ hist'[u] = hist[u]
    BY DEF LedgerInv, TypeOK, StoredTasks, StoredRuns
  <1>4. RowsValid'
    BY <1>3, AcceptedRow DEF LedgerInv, RowsValid
  <1>5. ASSUME NEW g \in Generation
        PROVE  /\ hist'[t][g] # None <=> g <= new.gen
               /\ hist'[t][g] # None => hist'[t][g].gen = g
               /\ g = new.gen => hist'[t][g] = new
               /\ g < new.gen => ~IsActive(hist'[t][g])
    <2>1. hist'[t][g] = IF g = new.gen THEN new ELSE hist[t][g]
      BY <1>1, <1>3 DEF LedgerInv, TypeOK
    <2>2. CASE task[t] = None
      <3>1. new.gen = 1 /\ hist[t][g] = None
        BY <2>2, AcceptedRow DEF LedgerInv, HistoryMirrorsCurrent
      <3> QED
        BY <2>1, <3>1, <1>1 DEF Generation
    <2>3. CASE task[t] # None
      <3>1. /\ hist[t][g] # None <=> g <= task[t].gen
            /\ hist[t][g] # None => hist[t][g].gen = g
            /\ g = task[t].gen => hist[t][g] = task[t]
            /\ g < task[t].gen => ~IsActive(hist[t][g])
        BY <2>3 DEF LedgerInv, HistoryMirrorsCurrent
      <3>2. task[t].gen \in Generation
        BY <2>3 DEF LedgerInv, TypeOK, Row
      <3>3. \/ new.gen = task[t].gen
            \/ new.gen = task[t].gen + 1 /\ ~IsActive(task[t])
        BY <2>3, AcceptedRow DEF UpdatesRun, ContinuesTask
      <3> QED
        BY <2>1, <3>1, <3>2, <3>3, <1>1, LimitsAssumption DEF Generation
    <2> QED
      BY <2>2, <2>3
  <1>6. HistoryMirrorsCurrent'
    <2> SUFFICES ASSUME NEW u \in Task, NEW g \in Generation
                 PROVE  /\ hist'[u][g] # None <=> task'[u] # None /\ g <= task'[u].gen
                        /\ hist'[u][g] # None => hist'[u][g].gen = g
                        /\ task'[u] # None /\ g = task'[u].gen => hist'[u][g] = task'[u]
                        /\ task'[u] # None /\ g < task'[u].gen => ~IsActive(hist'[u][g])
      BY DEF HistoryMirrorsCurrent, IsActive
    <2>1. CASE u = t
      BY <2>1, <1>1, <1>3, <1>5
    <2>2. CASE u # t
      BY <2>2, <1>3 DEF LedgerInv, HistoryMirrorsCurrent
    <2> QED
      BY <2>1, <2>2
  <1> QED
    BY <1>2, <1>4, <1>6

\* Withdrawing queued messages keeps every message a message.
LEMMA MailAfterType ==
    ASSUME TypeOK, NEW H, NEW t, NEW old, NEW new
    PROVE  MailAfter(H, t, old, new) \in [MessageId -> Message \cup {None}]
  <1>1. ASSUME NEW m \in Message
        PROVE  [m EXCEPT !.state = "cancelled"] \in Message
    BY DEF Message, MessageState
  <1> QED
    BY <1>1 DEF TypeOK, MailAfter

LEMMA WithMessageType ==
    ASSUME NEW M \in [MessageId -> Message \cup {None}], NEW m \in Message
    PROVE  WithMessage(M, m) \in [MessageId -> Message \cup {None}]
  BY DEF WithMessage, Message

LEMMA CheckpointTaskInv ==
    ASSUME LedgerInv, NEW t \in Task, NEW new \in Row,
           NEW expected \in Generation \cup {None},
           CheckpointTask(t, new, expected)
    PROVE  LedgerInv'
  <1>1. msg' \in [MessageId -> Message \cup {None}]
    BY MailAfterType DEF LedgerInv, CheckpointTask
  <1> QED
    BY <1>1, StoredInv DEF CheckpointTask, LedgerInv, TypeOK

LEMMA CheckpointTaskWithMessageInv ==
    ASSUME LedgerInv, NEW t \in Task, NEW new \in Row,
           NEW expected \in Generation \cup {None}, NEW m \in Message,
           CheckpointTaskWithMessage(t, new, expected, m)
    PROVE  LedgerInv'
  <1>1. msg' \in [MessageId -> Message \cup {None}]
    BY MailAfterType, WithMessageType
    DEF LedgerInv, TypeOK, CheckpointTaskWithMessage
  <1> QED
    BY <1>1, StoredInv DEF CheckpointTaskWithMessage, LedgerInv, TypeOK

LEMMA EnqueueMessageInv ==
    ASSUME LedgerInv, NEW m \in Message, EnqueueMessage(m)
    PROVE  LedgerInv'
  BY WithMessageType
  DEF LedgerInv, TypeOK, RowsValid, HistoryMirrorsCurrent, EnqueueMessage

\* The message a finished task reports with is a message.
LEMMA ResultMessageType ==
    ASSUME LedgerInv, NEW t \in Task, task[t] # None, IsTerminal(task[t]),
           Parent[t] # None
    PROVE  ResultMessage(t, task[t]) \in Message
  <1>1. task[t] \in Row /\ Parent[t] \in Task /\ task[t].pgen # None
    BY TaskAssumption DEF LedgerInv, TypeOK, RowsValid
  <1>2. task[t].gen \in Generation /\ task[t].pgen \in Generation
    BY <1>1 DEF Row
  <1>3. <<t, task[t].gen>> \in MessageId
    BY <1>2 DEF MessageId, ResultId
  <1>4. ResultBody(task[t]) \in Body
    BY <1>1 DEF ResultBody, Body, Row, IsTerminal
  <1>5. "local_task_result" \in Subject /\ "queued" \in MessageState
    BY DEF Subject, MessageState
  <1> QED
    BY <1>1, <1>2, <1>3, <1>4, <1>5 DEF ResultMessage, LaunchedBy, Message

LEMMA EnqueueTaskResultInv ==
    ASSUME LedgerInv, NEW t \in Task, EnqueueTaskResult(t)
    PROVE  LedgerInv'
  <1> DEFINE m == ResultMessage(t, task[t])
  <1>1. m \in Message
    BY ResultMessageType DEF EnqueueTaskResult
  <1>2. [m EXCEPT !.state = MintedState(m)] \in Message
    <2>1. MintedState(m) \in MessageState
      BY DEF MintedState, MessageState
    <2> HIDE DEF m
    <2> QED
      BY <1>1, <2>1 DEF Message
  <1>3. msg' \in [MessageId -> Message \cup {None}]
    BY <1>2 DEF EnqueueTaskResult, LedgerInv, TypeOK
  <1> QED
    BY <1>3
    DEF EnqueueTaskResult, LedgerInv, TypeOK, RowsValid, HistoryMirrorsCurrent

\* A change of a message's state and receipt keeps the invariant.
LEMMA MoveInv ==
    ASSUME LedgerInv, NEW i \in MessageId, msg[i] # None,
           NEW state \in MessageState, NEW receipt \in Receipt \cup {None},
           Move(i, state, receipt)
    PROVE  LedgerInv'
  <1>1. [msg[i] EXCEPT !.state = state, !.receipt = receipt] \in Message
    BY DEF LedgerInv, TypeOK, Message
  <1>2. msg' \in [MessageId -> Message \cup {None}]
    BY <1>1 DEF Move, LedgerInv, TypeOK
  <1> QED
    BY <1>2 DEF Move, LedgerInv, TypeOK, RowsValid, HistoryMirrorsCurrent

LEMMA ClaimInv ==
    ASSUME LedgerInv, NEW i \in MessageId,
           \/ \E exact \in BOOLEAN : ClaimTaskResult(i, exact)
           \/ ClaimParentHistoryMessage(i)
           \/ ClaimManagedMessage(i)
    PROVE  LedgerInv'
  <1>1. msg[i] # None /\ Move(i, "sent", None)
    BY DEF ClaimTaskResult, ClaimParentHistoryMessage, ClaimManagedMessage, Waiting
  <1> QED
    BY <1>1, MoveInv DEF MessageState

LEMMA AcknowledgeInv ==
    ASSUME LedgerInv, NEW i \in MessageId,
           \/ \E state \in MessageState \ {"queued"} : AcknowledgeMessage(i, state)
           \/ AcknowledgeApplicationHistory(i)
    PROVE  LedgerInv'
  <1>1. PICK state \in MessageState, receipt \in Receipt \cup {None} :
            SettleMessage(i, state, receipt)
    BY DEF AcknowledgeMessage, AcknowledgeApplicationHistory, MessageState, Receipt
  <1>2. msg[i] # None /\ Move(i, state, receipt)
    BY <1>1 DEF SettleMessage
  <1> QED
    BY <1>2, MoveInv

LEMMA RecoverTasksInv ==
    ASSUME LedgerInv, RecoverTasks
    PROVE  LedgerInv'
  <1>1. ASSUME NEW t \in Lost
        PROVE  /\ task[t] \in Row /\ task[t].gen \in Generation
               /\ Interrupted(task[t]) \in Row
               /\ Interrupted(task[t]) # None
               /\ Interrupted(task[t]).gen = task[t].gen
               /\ Interrupted(task[t]).pgen = task[t].pgen
               /\ ~IsActive(Interrupted(task[t]))
    <2>1. task[t] \in Row /\ task[t].rev < MaxRev
      BY DEF Lost, RecoverTasks, HasNextRevision, LedgerInv, TypeOK
    <2>2. Interrupted(task[t]) \in Row
      BY <2>1, InterruptedRow
    <2> QED
      BY <2>1, <2>2, InterruptedRow, NoneAssumption DEF Row
  <1>2. TypeOK'
    BY <1>1 DEF RecoverTasks, LedgerInv, TypeOK
  <1>3. \A t \in Task :
          /\ t \in Lost => /\ task'[t] = Interrupted(task[t])
                           /\ hist'[t] = [hist[t] EXCEPT ![task[t].gen] =
                                            Interrupted(task[t])]
          /\ t \notin Lost => task'[t] = task[t] /\ hist'[t] = hist[t]
    BY DEF RecoverTasks
  <1>4. RowsValid'
    <2> SUFFICES ASSUME NEW t \in Task, task'[t] # None
                 PROVE  Parent[t] = None <=> task'[t].pgen = None
      BY DEF RowsValid
    <2>1. CASE t \in Lost
      BY <2>1, <1>1, <1>3 DEF LedgerInv, RowsValid, Lost
    <2>2. CASE t \notin Lost
      BY <2>2, <1>3 DEF LedgerInv, RowsValid
    <2> QED
      BY <2>1, <2>2
  <1>5. HistoryMirrorsCurrent'
    <2> SUFFICES ASSUME NEW t \in Task, NEW g \in Generation
                 PROVE  /\ hist'[t][g] # None <=> task'[t] # None /\ g <= task'[t].gen
                        /\ hist'[t][g] # None => hist'[t][g].gen = g
                        /\ task'[t] # None /\ g = task'[t].gen => hist'[t][g] = task'[t]
                        /\ task'[t] # None /\ g < task'[t].gen => ~IsActive(hist'[t][g])
      BY DEF HistoryMirrorsCurrent
    <2>1. /\ hist[t][g] # None <=> task[t] # None /\ g <= task[t].gen
          /\ hist[t][g] # None => hist[t][g].gen = g
          /\ task[t] # None /\ g = task[t].gen => hist[t][g] = task[t]
          /\ task[t] # None /\ g < task[t].gen => ~IsActive(hist[t][g])
      BY DEF LedgerInv, HistoryMirrorsCurrent
    <2>2. CASE t \in Lost
      <3>1. hist'[t][g] = IF g = task[t].gen THEN Interrupted(task[t]) ELSE hist[t][g]
        <4>1. hist[t] \in [Generation -> Row \cup {None}]
          BY DEF LedgerInv, TypeOK
        <4>2. hist'[t] = [hist[t] EXCEPT ![task[t].gen] = Interrupted(task[t])]
          BY <1>3, <2>2
        <4> HIDE DEF LedgerInv
        <4> QED
          BY <4>1, <4>2
      <3>2. task[t] # None /\ task'[t] = Interrupted(task[t])
        BY <1>3, <2>2 DEF Lost
      <3> QED
        BY <1>1, <2>1, <2>2, <3>1, <3>2 DEF Generation
    <2>3. CASE t \notin Lost
      BY <1>3, <2>1, <2>3
    <2> QED
      BY <2>2, <2>3
  <1> QED
    BY <1>2, <1>4, <1>5 DEF LedgerInv

LEMMA NextInv ==
    ASSUME LedgerInv, [Next]_ledger
    PROVE  LedgerInv'
  <1>1. CASE UNCHANGED ledger
    BY <1>1 DEF ledger, LedgerInv, TypeOK, RowsValid, HistoryMirrorsCurrent
  <1>2. CASE Next
    BY <1>2, CheckpointTaskInv, CheckpointTaskWithMessageInv, EnqueueMessageInv,
       EnqueueTaskResultInv, ClaimInv, AcknowledgeInv, RecoverTasksInv DEF Next
  <1> QED
    BY <1>1, <1>2

LEMMA InitInv == Init => LedgerInv
  BY DEF Init, LedgerInv, TypeOK, RowsValid, HistoryMirrorsCurrent

\* Every reachable ledger satisfies the inductive invariant.
THEOREM LedgerInvariant == Spec => []LedgerInv
  BY InitInv, NextInv, PTL DEF Spec

\* Whatever is sent to the ledger, its tables only hold well-formed rows and
\* messages (validate_task, the checked additions of read_tasks and checkpoint).
THEOREM TypeCorrect == Spec => []TypeOK
  <1>1. LedgerInv => TypeOK
    BY DEF LedgerInv
  <1> QED
    BY <1>1, LedgerInvariant, PTL

\* The generation table is the whole past of every task, for any number of runs:
\* what matches_grok_queued_input_receipt and claude_result_history_matches read
\* there is the row each run really ended with.
THEOREM HistoryIsComplete == Spec => []HistoryMirrorsCurrent
  <1>1. LedgerInv => HistoryMirrorsCurrent
    BY DEF LedgerInv
  <1> QED
    BY <1>1, LedgerInvariant, PTL

=============================================================================
