-------------------------- MODULE LedgerGuarantees --------------------------
(***************************************************************************)
(* The safety properties of the ledger that rest on LedgerInv: sessions,    *)
(* the order of runs, the finality of outcomes, and its promises about      *)
(* messages: what is still queued is addressed to a run that may receive    *)
(* it, and every result speaks for a run that ended that way.               *)
(***************************************************************************)
EXTENDS TaskLedgerProofs

\* A request that stores a row, alone or with a message.
Stores(t, new) ==
    \E expected \in Generation \cup {None} :
       /\ MayCheckpoint(t, new, expected) \/ Repeats(t, new)
       /\ task' = StoredTasks(t, new) /\ hist' = StoredRuns(t, new)

\* The tables of tasks change only by storing one row, or by a recovery.
LEMMA TaskSteps ==
    ASSUME [Next]_ledger
    PROVE  \/ \E t \in Task, new \in Row : Stores(t, new)
           \/ RecoverTasks
           \/ UNCHANGED <<task, hist>>
  <1>1. ASSUME NEW t \in Task, NEW new \in Row,
               NEW expected \in Generation \cup {None},
               \/ CheckpointTask(t, new, expected)
               \/ \E m \in Message : CheckpointTaskWithMessage(t, new, expected, m)
        PROVE  Stores(t, new)
    BY <1>1 DEF CheckpointTask, CheckpointTaskWithMessage, Stores
  <1>2. ASSUME \/ \E m \in Message : EnqueueMessage(m)
               \/ \E t \in Task : EnqueueTaskResult(t)
        PROVE  UNCHANGED <<task, hist>>
    BY <1>2 DEF EnqueueMessage, EnqueueTaskResult
  <1>3. ASSUME NEW i \in MessageId,
               \/ \E exact \in BOOLEAN : ClaimTaskResult(i, exact)
               \/ ClaimParentHistoryMessage(i)
               \/ ClaimManagedMessage(i)
               \/ \E state \in MessageState \ {"queued"} : AcknowledgeMessage(i, state)
               \/ AcknowledgeApplicationHistory(i)
        PROVE  UNCHANGED <<task, hist>>
    BY <1>3 DEF ClaimTaskResult, ClaimParentHistoryMessage, ClaimManagedMessage,
       AcknowledgeMessage, AcknowledgeApplicationHistory, SettleMessage, Move
  <1> QED
    BY <1>1, <1>2, <1>3 DEF Next, ledger

-----------------------------------------------------------------------------
(* Sessions *)

LEMMA StoresOneOwner ==
    ASSUME LedgerInv, OneOwnerPerSession, NEW t \in Task, NEW new \in Row,
           Stores(t, new)
    PROVE  OneOwnerPerSession'
  <1>1. /\ task'[t] = new
        /\ \A u \in Task \ {t} : task'[u] = task[u]
    BY DEF Stores, StoredTasks, LedgerInv, TypeOK
  <1>2. SessionFree(task, t, new) \/ task[t] = new
    BY DEF Stores, MayCheckpoint, Repeats
  <1>3. CASE task[t] = new
    <2>1. \A u \in Task : task'[u] = task[u]
      BY <1>1, <1>3
    <2> QED
      BY <2>1 DEF OneOwnerPerSession, IsActive
  <1>4. CASE SessionFree(task, t, new)
    BY <1>1, <1>4 DEF SessionFree, OneOwnerPerSession, IsActive
  <1> QED
    BY <1>2, <1>3, <1>4

\* No step of the ledger gives a native session a second active owner.
LEMMA OneOwnerStep ==
    ASSUME LedgerInv, OneOwnerPerSession, [Next]_ledger
    PROVE  OneOwnerPerSession'
  <1>1. ASSUME RecoverTasks
        PROVE  OneOwnerPerSession'
    <2>1. \A t \in Task :
            task'[t] # None => /\ task'[t] = task[t] \/ ~IsActive(task'[t])
      BY <1>1 DEF RecoverTasks, Interrupted, IsActive, Active, Lost, Row,
         LedgerInv, TypeOK
    <2> QED
      BY <2>1 DEF OneOwnerPerSession, IsActive
  <1>2. ASSUME UNCHANGED <<task, hist>>
        PROVE  OneOwnerPerSession'
    BY <1>2 DEF OneOwnerPerSession
  <1> QED
    BY TaskSteps, StoresOneOwner, <1>1, <1>2

\* A native session never has two active owners of one CLI, though launches,
\* resumes and session announcements of all tasks interleave freely (the unique
\* index of local_cli_tasks and the restore of interrupted tasks).
THEOREM SessionsAreOwnedOnce == Spec => []OneOwnerPerSession
  <1>1. Init => OneOwnerPerSession
    BY DEF Init, OneOwnerPerSession
  <1> QED
    BY <1>1, OneOwnerStep, LedgerInvariant, PTL DEF Spec

-----------------------------------------------------------------------------
(* The order of runs and the finality of outcomes *)

\* What one step may do to a task: nothing, the next revision, or the next run.
Advances(t) ==
    /\ task'[t] # task[t] /\ task[t] # None =>
          \/ task'[t].gen = task[t].gen /\ task'[t].rev = task[t].rev + 1
          \/ task'[t].gen = task[t].gen + 1 /\ task'[t].rev = 0
    /\ \A g \in Generation :
          task[t] # None /\ g < task[t].gen => hist'[t][g] = hist[t][g]

LEMMA StoresAdvances ==
    ASSUME LedgerInv, NEW t \in Task, NEW new \in Row, Stores(t, new),
           NEW u \in Task
    PROVE  Advances(u)
  <1>1. PICK expected \in Generation \cup {None} :
            MayCheckpoint(t, new, expected) \/ Repeats(t, new)
    BY DEF Stores
  <1>2. /\ task'[t] = new
        /\ hist'[t] = [hist[t] EXCEPT ![new.gen] = new]
        /\ u # t => task'[u] = task[u] /\ hist'[u] = hist[u]
    BY DEF Stores, StoredTasks, StoredRuns, LedgerInv, TypeOK
  <1>3. CASE u # t
    BY <1>2, <1>3 DEF Advances
  <1>4. CASE u = t /\ task[t] = None
    BY <1>4 DEF Advances
  <1>5. CASE u = t /\ task[t] # None
    <2>1. \/ UpdatesRun(task[t], new) \/ ContinuesTask(task[t], new)
          \/ task[t] = new
      BY <1>1, <1>5, AcceptedRow
    <2>2. task[t].gen \in Generation /\ new.gen \in Generation
      BY <1>5 DEF LedgerInv, TypeOK, Row
    <2>3. new.gen = task[t].gen \/ new.gen = task[t].gen + 1
      BY <2>1 DEF UpdatesRun, ContinuesTask
    <2>4. ASSUME NEW g \in Generation, g < task[t].gen
          PROVE  hist'[t][g] = hist[t][g]
      <3>1. g # new.gen
        BY <2>2, <2>3, <2>4 DEF Generation
      <3> QED
        BY <1>2, <3>1 DEF LedgerInv, TypeOK
    <2>5. task'[t] # task[t] =>
             \/ task'[t].gen = task[t].gen /\ task'[t].rev = task[t].rev + 1
             \/ task'[t].gen = task[t].gen + 1 /\ task'[t].rev = 0
      BY <1>2, <2>1 DEF UpdatesRun, NextRevision, ContinuesTask, FreshRun
    <2> QED
      BY <1>5, <2>4, <2>5 DEF Advances
  <1> QED
    BY <1>3, <1>4, <1>5

LEMMA RecoverAdvances ==
    ASSUME LedgerInv, RecoverTasks, NEW u \in Task
    PROVE  Advances(u)
  <1>1. CASE u \in Lost
    <2>1. task[u] \in Row /\ task[u].rev < MaxRev
      BY <1>1 DEF Lost, RecoverTasks, HasNextRevision, LedgerInv, TypeOK
    <2>2. /\ task'[u] = Interrupted(task[u])
          /\ hist'[u] = [hist[u] EXCEPT ![task[u].gen] = Interrupted(task[u])]
      BY <1>1 DEF RecoverTasks
    <2>3. \A g \in Generation : g < task[u].gen => hist'[u][g] = hist[u][g]
      BY <2>1, <2>2 DEF LedgerInv, TypeOK, Row, Generation
    <2> QED
      BY <2>1, <2>2, <2>3, InterruptedRow DEF Advances
  <1>2. CASE u \notin Lost
    BY <1>2 DEF RecoverTasks, Advances
  <1> QED
    BY <1>1, <1>2

LEMMA StepAdvances ==
    ASSUME LedgerInv, [Next]_ledger, NEW u \in Task
    PROVE  Advances(u)
  <1>1. ASSUME UNCHANGED <<task, hist>>
        PROVE  Advances(u)
    BY <1>1 DEF Advances
  <1> QED
    BY TaskSteps, StoresAdvances, RecoverAdvances, <1>1

\* No write built from a replaced row lands, and no row of an earlier run is ever
\* written again (the generation and revision tests of checkpoint, read_tasks).
THEOREM RunsAdvance == Spec => RunsOnlyAdvance
  <1>1. LedgerInv /\ [Next]_ledger =>
          [\A t \in Task :
              /\ task'[t] # task[t] /\ task[t] # None =>
                    \/ task'[t].gen = task[t].gen /\ task'[t].rev = task[t].rev + 1
                    \/ task'[t].gen = task[t].gen + 1 /\ task'[t].rev = 0
              /\ \A g \in Generation :
                    task[t] # None /\ g < task[t].gen => hist'[t][g] = hist[t][g]]_ledger
    BY StepAdvances DEF Advances
  <1> QED
    BY <1>1, LedgerInvariant, PTL DEF Spec, RunsOnlyAdvance

\* The row of an ended run, compared with the row a step stores in its place.
KeepsOutcome(old, new) ==
    /\ new.state = old.state
    /\ old.evidence # None => new.evidence = old.evidence
    /\ old.result # None => new.result # None

LEMMA StoresKeepsOutcome ==
    ASSUME LedgerInv, NEW t \in Task, NEW new \in Row, Stores(t, new),
           NEW u \in Task, NEW g \in Generation,
           hist[u][g] # None, IsTerminal(hist[u][g])
    PROVE  hist'[u][g] # None /\ KeepsOutcome(hist[u][g], hist'[u][g])
  <1>1. PICK expected \in Generation \cup {None} :
            MayCheckpoint(t, new, expected) \/ Repeats(t, new)
    BY DEF Stores
  <1>2. /\ hist'[t] = [hist[t] EXCEPT ![new.gen] = new]
        /\ u # t => hist'[u] = hist[u]
    BY DEF Stores, StoredRuns, LedgerInv, TypeOK
  <1>3. CASE u # t \/ g # new.gen
    <2>1. hist'[u][g] = hist[u][g]
      BY <1>2, <1>3 DEF LedgerInv, TypeOK
    <2> QED
      BY <2>1 DEF KeepsOutcome
  <1>4. CASE u = t /\ g = new.gen
    <2>1. hist'[u][g] = new /\ new # None
      BY <1>2, <1>4, NoneAssumption DEF LedgerInv, TypeOK
    <2>2. task[t] # None /\ g <= task[t].gen
      BY <1>4 DEF LedgerInv, HistoryMirrorsCurrent
    <2>3. task[t].gen \in Generation
      BY <2>2 DEF LedgerInv, TypeOK, Row
    <2>4. UpdatesRun(task[t], new) \/ task[t] = new
      <3>1. new.gen # task[t].gen + 1
        BY <1>4, <2>2, <2>3 DEF Generation
      <3>2. ~ContinuesTask(task[t], new)
        BY <3>1 DEF ContinuesTask
      <3> QED
        BY <1>1, <2>2, <3>2, AcceptedRow
    <2>5. hist[t][g] = task[t]
      BY <1>4, <2>2, <2>4 DEF UpdatesRun, LedgerInv, HistoryMirrorsCurrent
    <2> QED
      BY <1>4, <2>1, <2>4, <2>5 DEF UpdatesRun, KeepsOutcome
  <1> QED
    BY <1>3, <1>4

LEMMA RecoverKeepsRows ==
    ASSUME LedgerInv, RecoverTasks, NEW u \in Task, NEW g \in Generation,
           hist[u][g] # None, IsTerminal(hist[u][g])
    PROVE  hist'[u][g] = hist[u][g]
  <1>1. CASE u \in Lost
    <2>1. hist'[u] = [hist[u] EXCEPT ![task[u].gen] = Interrupted(task[u])]
      BY <1>1 DEF RecoverTasks
    <2>2. task[u] # None /\ IsActive(task[u])
      BY <1>1 DEF Lost
    <2>3. g # task[u].gen
      BY <2>2 DEF LedgerInv, HistoryMirrorsCurrent, IsActive, IsTerminal,
         Active, Terminal
    <2> QED
      BY <2>1, <2>3 DEF LedgerInv, TypeOK
  <1>2. CASE u \notin Lost
    BY <1>2 DEF RecoverTasks
  <1> QED
    BY <1>1, <1>2

LEMMA StepKeepsOutcome ==
    ASSUME LedgerInv, [Next]_ledger, NEW u \in Task, NEW g \in Generation,
           hist[u][g] # None, IsTerminal(hist[u][g])
    PROVE  hist'[u][g] # None /\ KeepsOutcome(hist[u][g], hist'[u][g])
  <1>1. ASSUME hist'[u][g] = hist[u][g]
        PROVE  hist'[u][g] # None /\ KeepsOutcome(hist[u][g], hist'[u][g])
    BY <1>1 DEF KeepsOutcome
  <1> QED
    BY TaskSteps, StoresKeepsOutcome, RecoverKeepsRows, <1>1

\* How a run ended is never revised: not by a late write, a resume or a restart
\* (the terminal test of checkpoint, the active filter of read_tasks).
THEOREM OutcomesAreFinal == Spec => OutcomeIsFinal
  <1>1. LedgerInv /\ [Next]_ledger =>
          [\A t \in Task, g \in Generation :
              hist[t][g] # None /\ IsTerminal(hist[t][g]) =>
                 /\ hist'[t][g] # None
                 /\ hist'[t][g].state = hist[t][g].state
                 /\ hist[t][g].evidence # None =>
                       hist'[t][g].evidence = hist[t][g].evidence
                 /\ hist[t][g].result # None => hist'[t][g].result # None]_ledger
    BY StepKeepsOutcome DEF KeepsOutcome
  <1> QED
    BY <1>1, LedgerInvariant, PTL DEF Spec, OutcomeIsFinal

-----------------------------------------------------------------------------
(* Queued mail *)

\* Both ends of m are the runs T holds, and may still send and receive.
Addressed(T, m) ==
    /\ T[m.to] # None /\ T[m.from] # None
    /\ T[m.to].gen = m.rgen /\ ~IsTerminal(T[m.to])
    /\ T[m.from].gen = m.sgen /\ T[m.from].state # "cancelled"

\* A message the checkpoint of a row leaves queued is still addressed.
LEMMA KeptMailAddressed ==
    ASSUME LedgerInv, QueuedMailIsCurrent, NEW t \in Task, NEW new \in Row,
           NEW H, NEW i \in MessageId,
           MailAfter(H, t, task[t], new)[i] # None,
           MailAfter(H, t, task[t], new)[i].state = "queued",
           ~IsResult(MailAfter(H, t, task[t], new)[i])
    PROVE  Addressed(StoredTasks(t, new), MailAfter(H, t, task[t], new)[i])
  <1> DEFINE old == task[t]
             M == MailAfter(H, t, old, new)
             m == msg[i]
  <1>1. /\ M[i] = m
        /\ ~(/\ old # None /\ (IsTerminal(new) \/ old.gen # new.gen)
             /\ Withdrawn(H, msg, t, old, new, m))
    <2>1. CASE old # None /\ (IsTerminal(new) \/ old.gen # new.gen)
      <3>1. M[i] = IF m # None /\ Withdrawn(H, msg, t, old, new, m)
                   THEN [m EXCEPT !.state = "cancelled"] ELSE m
        BY <2>1 DEF MailAfter
      <3>2. m # None /\ Withdrawn(H, msg, t, old, new, m) => M[i].state = "cancelled"
        BY <3>1 DEF LedgerInv, TypeOK, Message
      <3> QED
        BY <3>1, <3>2
    <2>2. CASE ~(old # None /\ (IsTerminal(new) \/ old.gen # new.gen))
      BY <2>2 DEF MailAfter
    <2> QED
      BY <2>1, <2>2
  <1>2. m \in Message /\ m.state = "queued" /\ ~IsResult(m)
    BY <1>1 DEF LedgerInv, TypeOK
  <1>3. Addressed(task, m)
    BY <1>1, <1>2 DEF QueuedMailIsCurrent, Addressed
  <1>4. m.to \in Task /\ m.from \in Task
    BY <1>2 DEF Message
  <1>5. old # None /\ (IsTerminal(new) \/ old.gen # new.gen)
          => ~Concerns(t, old, new, m)
    BY <1>1, <1>2 DEF Withdrawn, Undispatched, KeepsResult
  <1>6. \A u \in Task : StoredTasks(t, new)[u] = IF u = t THEN new ELSE task[u]
    BY DEF StoredTasks, LedgerInv, TypeOK
  <1>7. new # None
    BY NoneAssumption
  <1>8. m.to = t => new.gen = m.rgen /\ ~IsTerminal(new)
    BY <1>3, <1>5 DEF Addressed, Concerns
  <1>9. m.from = t => new.gen = m.sgen /\ new.state # "cancelled"
    BY <1>3, <1>5 DEF Addressed, Concerns, IsTerminal, Terminal
  <1>10. Addressed(StoredTasks(t, new), m)
    BY <1>3, <1>4, <1>6, <1>7, <1>8, <1>9 DEF Addressed
  <1> QED
    BY <1>1, <1>10

\* A message is stored only when both its ends may take part.
LEMMA InsertedAddressed ==
    ASSUME NEW T, NEW m, MayInsert(T, m)
    PROVE  Addressed(T, m)
  BY DEF MayInsert, FromAndToCurrentRuns, Addressed

LEMMA CheckpointsQueuedMail ==
    ASSUME LedgerInv, QueuedMailIsCurrent, NEW t \in Task, NEW new \in Row,
           NEW expected \in Generation \cup {None},
           CheckpointTask(t, new, expected)
    PROVE  QueuedMailIsCurrent'
  <1>1. /\ task' = StoredTasks(t, new)
        /\ msg' = MailAfter(StoredRuns(t, new), t, task[t], new)
    BY DEF CheckpointTask
  <1> SUFFICES ASSUME NEW i \in MessageId, msg'[i] # None,
                      msg'[i].state = "queued", ~IsResult(msg'[i])
               PROVE  Addressed(task', msg'[i])
    BY DEF QueuedMailIsCurrent, Addressed, IsResult, IsTerminal
  <1> QED
    BY <1>1, KeptMailAddressed

LEMMA CheckpointsQueuedMailWithMessage ==
    ASSUME LedgerInv, QueuedMailIsCurrent, NEW t \in Task, NEW new \in Row,
           NEW expected \in Generation \cup {None}, NEW m \in Message,
           CheckpointTaskWithMessage(t, new, expected, m)
    PROVE  QueuedMailIsCurrent'
  <1> DEFINE M == IF Repeats(t, new) THEN msg
                  ELSE MailAfter(StoredRuns(t, new), t, task[t], new)
  <1>1. /\ task' = StoredTasks(t, new)
        /\ Enqueued(M, m) \/ (M[m.id] = None /\ MayInsert(StoredTasks(t, new), m))
        /\ msg' = WithMessage(M, m)
    BY DEF CheckpointTaskWithMessage
  <1>2. M \in [MessageId -> Message \cup {None}]
    BY MailAfterType DEF LedgerInv, TypeOK
  <1>3. ASSUME NEW i \in MessageId, M[i] # None, M[i].state = "queued",
               ~IsResult(M[i])
        PROVE  Addressed(task', M[i])
    <2>1. CASE Repeats(t, new)
      <3>1. task' = task
        BY <1>1, <2>1 DEF Repeats, StoredTasks, LedgerInv, TypeOK
      <3> QED
        BY <1>3, <2>1, <3>1 DEF QueuedMailIsCurrent, Addressed
    <2>2. CASE ~Repeats(t, new)
      BY <1>1, <1>3, <2>2, KeptMailAddressed
    <2> QED
      BY <2>1, <2>2
  <1> SUFFICES ASSUME NEW i \in MessageId, msg'[i] # None,
                      msg'[i].state = "queued", ~IsResult(msg'[i])
               PROVE  Addressed(task', msg'[i])
    BY DEF QueuedMailIsCurrent, Addressed, IsResult, IsTerminal
  <1>4. msg'[i] = M[i] \/ (~Enqueued(M, m) /\ msg'[i] = m)
    <2> HIDE DEF M
    <2> QED
      BY <1>1, <1>2 DEF WithMessage, Message
  <1>5. CASE msg'[i] = M[i]
    BY <1>3, <1>5
  <1>6. CASE ~Enqueued(M, m) /\ msg'[i] = m
    BY <1>1, <1>6, InsertedAddressed
  <1> QED
    BY <1>4, <1>5, <1>6

LEMMA StepQueuedMail ==
    ASSUME LedgerInv, QueuedMailIsCurrent, [Next]_ledger
    PROVE  QueuedMailIsCurrent'
  <1>1. ASSUME NEW m \in Message, EnqueueMessage(m)
        PROVE  QueuedMailIsCurrent'
    <2>1. \A i \in MessageId : msg'[i] = msg[i] \/ msg'[i] = m
      BY <1>1 DEF EnqueueMessage, WithMessage, LedgerInv, TypeOK, Message
    <2>2. Addressed(task, m)
      BY <1>1, InsertedAddressed DEF EnqueueMessage
    <2> QED
      BY <1>1, <2>1, <2>2
      DEF EnqueueMessage, QueuedMailIsCurrent, Addressed, IsResult
  <1>2. ASSUME NEW t \in Task, EnqueueTaskResult(t)
        PROVE  QueuedMailIsCurrent'
    <2> DEFINE m == ResultMessage(t, task[t])
               minted == [m EXCEPT !.state = MintedState(m)]
    <2>1. m \in Message /\ minted.subject = "local_task_result"
      BY <1>2, ResultMessageType DEF EnqueueTaskResult, ResultMessage
    <2>2. \A i \in MessageId : msg'[i] = msg[i] \/ msg'[i] = minted
      BY <1>2 DEF EnqueueTaskResult, LedgerInv, TypeOK
    <2>3. UNCHANGED task
      BY <1>2 DEF EnqueueTaskResult
    <2> HIDE DEF minted, m
    <2> QED
      BY <2>1, <2>2, <2>3 DEF QueuedMailIsCurrent, IsResult
  <1>3. ASSUME NEW i \in MessageId, NEW state \in MessageState \ {"queued"},
               NEW receipt, msg[i] # None, Move(i, state, receipt)
        PROVE  QueuedMailIsCurrent'
    <2>1. /\ msg'[i].state # "queued"
          /\ \A j \in MessageId \ {i} : msg'[j] = msg[j]
      BY <1>3 DEF Move, LedgerInv, TypeOK, Message
    <2> QED
      BY <1>3, <2>1 DEF Move, QueuedMailIsCurrent
  <1>4. ASSUME NEW i \in MessageId,
               \/ \E exact \in BOOLEAN : ClaimTaskResult(i, exact)
               \/ ClaimParentHistoryMessage(i)
               \/ ClaimManagedMessage(i)
        PROVE  QueuedMailIsCurrent'
    BY <1>3, <1>4 DEF ClaimTaskResult, ClaimParentHistoryMessage,
       ClaimManagedMessage, Waiting, MessageState
  <1>5. ASSUME NEW i \in MessageId,
               \/ \E state \in MessageState \ {"queued"} : AcknowledgeMessage(i, state)
               \/ AcknowledgeApplicationHistory(i)
        PROVE  QueuedMailIsCurrent'
    BY <1>3, <1>5 DEF AcknowledgeMessage, AcknowledgeApplicationHistory,
       SettleMessage, MessageState
  <1>6. ASSUME RecoverTasks
        PROVE  QueuedMailIsCurrent'
    <2>1. ASSUME NEW t \in Task, task[t] # None
          PROVE  /\ task'[t] # None /\ task'[t].gen = task[t].gen
                 /\ task'[t] = task[t] \/ task'[t].state = "disconnected"
      <3>1. task[t] \in Row
        BY <2>1 DEF LedgerInv, TypeOK
      <3>2. CASE t \in Lost
        <4>1. task'[t] = Interrupted(task[t]) /\ task[t].rev < MaxRev
          BY <1>6, <3>2 DEF RecoverTasks, HasNextRevision
        <4>2. task'[t].state = "disconnected"
          BY <3>1, <4>1 DEF Interrupted, Row
        <4> QED
          BY <3>1, <4>1, <4>2, InterruptedRow, NoneAssumption
      <3>3. CASE t \notin Lost
        BY <1>6, <2>1, <3>3 DEF RecoverTasks
      <3> QED
        BY <3>2, <3>3
    <2>2. UNCHANGED msg
      BY <1>6 DEF RecoverTasks
    <2> QED
      BY <2>1, <2>2 DEF QueuedMailIsCurrent, LedgerInv, TypeOK, Message,
         IsTerminal, Terminal
  <1>7. ASSUME UNCHANGED ledger
        PROVE  QueuedMailIsCurrent'
    BY <1>7 DEF ledger, QueuedMailIsCurrent
  <1> QED
    BY <1>1, <1>2, <1>4, <1>5, <1>6, <1>7, CheckpointsQueuedMail,
       CheckpointsQueuedMailWithMessage DEF Next

\* Ordinary mail never outlives the runs it was written between: whatever ends a
\* run or opens the next one withdraws what is still queued for or from it
\* (insert_message_with_origin, cancel_pending_messages).
THEOREM QueuedMailStaysCurrent == Spec => []QueuedMailIsCurrent
  <1>1. Init => QueuedMailIsCurrent
    BY DEF Init, QueuedMailIsCurrent
  <1> QED
    BY <1>1, StepQueuedMail, LedgerInvariant, PTL DEF Spec

-----------------------------------------------------------------------------
(* Results *)

\* A run that was recorded stays recorded, with the parent run that launched it.
LEMMA StepKeepsRun ==
    ASSUME LedgerInv, [Next]_ledger, NEW u \in Task, NEW g \in Generation,
           hist[u][g] # None
    PROVE  hist'[u][g] # None /\ hist'[u][g].pgen = hist[u][g].pgen
  <1>1. /\ task[u] # None /\ g <= task[u].gen
        /\ g = task[u].gen => hist[u][g] = task[u]
    BY DEF LedgerInv, HistoryMirrorsCurrent
  <1>2. ASSUME NEW t \in Task, NEW new \in Row, Stores(t, new)
        PROVE  hist'[u][g] # None /\ hist'[u][g].pgen = hist[u][g].pgen
    <2>1. hist'[u][g] = IF u = t /\ g = new.gen THEN new ELSE hist[u][g]
      BY <1>2 DEF Stores, StoredRuns, LedgerInv, TypeOK
    <2>2. CASE u = t /\ g = new.gen
      <3>1. \/ UpdatesRun(task[t], new) \/ ContinuesTask(task[t], new)
            \/ task[t] = new
        BY <1>1, <1>2, <2>2, AcceptedRow DEF Stores
      <3>2. task[t].gen \in Generation /\ new.gen \in Generation
        BY <1>1, <2>2 DEF LedgerInv, TypeOK, Row
      <3>3. g = task[u].gen
        BY <1>1, <2>2, <3>1, <3>2 DEF UpdatesRun, ContinuesTask, Generation
      <3>4. new.pgen = task[t].pgen
        BY <1>1, <1>2, <2>2, AcceptedRow DEF Stores
      <3> QED
        BY <1>1, <2>1, <2>2, <3>3, <3>4, NoneAssumption
    <2> QED
      BY <2>1, <2>2
  <1>3. ASSUME RecoverTasks
        PROVE  hist'[u][g] # None /\ hist'[u][g].pgen = hist[u][g].pgen
    <2>1. CASE u \in Lost
      <3>1. task[u] \in Row /\ task[u].rev < MaxRev
        BY <1>3, <2>1 DEF Lost, RecoverTasks, HasNextRevision, LedgerInv, TypeOK
      <3>2. hist'[u] = [hist[u] EXCEPT ![task[u].gen] = Interrupted(task[u])]
        BY <1>3, <2>1 DEF RecoverTasks
      <3>3. hist[u] \in [Generation -> Row \cup {None}]
        BY DEF LedgerInv, TypeOK
      <3>4. hist'[u][g] = IF g = task[u].gen THEN Interrupted(task[u])
                          ELSE hist[u][g]
        BY <3>2, <3>3
      <3> QED
        BY <1>1, <3>1, <3>4, InterruptedRow, NoneAssumption
    <2>2. CASE u \notin Lost
      BY <1>3, <2>2 DEF RecoverTasks
    <2> QED
      BY <2>1, <2>2
  <1> QED
    BY <1>2, <1>3, TaskSteps

\* A stored message keeps everything but its state and receipt for ever; a new
\* one is queued by a client, or is the result of a finished task.
LEMMA MessageSteps ==
    ASSUME LedgerInv, [Next]_ledger, NEW i \in MessageId, msg'[i] # None
    PROVE  \/ msg[i] # None /\ Content(msg'[i]) = Content(msg[i])
           \/ ~IsResult(msg'[i])
           \/ \E t \in Task :
                 /\ EnqueueTaskResult(t) /\ i = <<t, task[t].gen>>
                 /\ Content(msg'[i]) = ResultMessage(t, task[t])
  <1> DEFINE Same == msg[i] # None /\ Content(msg'[i]) = Content(msg[i])
  <1>1. \A receipt : \A m \in Message, state \in MessageState :
          Content([m EXCEPT !.state = state, !.receipt = receipt]) = Content(m)
    BY DEF Content, Message
  <1>2. \A m \in Message, state \in MessageState :
          Content([m EXCEPT !.state = state]) = Content(m)
    BY DEF Content, Message
  <1>3. ASSUME NEW H, NEW t, NEW old, NEW new,
               MailAfter(H, t, old, new)[i] # None
        PROVE  /\ msg[i] # None
               /\ Content(MailAfter(H, t, old, new)[i]) = Content(msg[i])
    BY <1>2, <1>3 DEF MailAfter, LedgerInv, TypeOK, MessageState
  <1>4. ASSUME NEW t \in Task, NEW new \in Row,
               NEW expected \in Generation \cup {None},
               CheckpointTask(t, new, expected)
        PROVE  Same
    BY <1>3, <1>4 DEF CheckpointTask
  <1>5. ASSUME NEW t \in Task, NEW new \in Row,
               NEW expected \in Generation \cup {None}, NEW m \in Message,
               CheckpointTaskWithMessage(t, new, expected, m)
        PROVE  Same \/ ~IsResult(msg'[i])
    <2> DEFINE M == IF Repeats(t, new) THEN msg
                    ELSE MailAfter(StoredRuns(t, new), t, task[t], new)
    <2>1. /\ Enqueued(M, m) \/ MayInsert(StoredTasks(t, new), m)
          /\ msg' = WithMessage(M, m)
      BY <1>5 DEF CheckpointTaskWithMessage
    <2>2. M \in [MessageId -> Message \cup {None}]
      BY MailAfterType DEF LedgerInv, TypeOK
    <2>3. M[i] # None => msg[i] # None /\ Content(M[i]) = Content(msg[i])
      BY <1>3
    <2>4. msg'[i] = M[i] \/ (~Enqueued(M, m) /\ msg'[i] = m)
      <3> HIDE DEF M
      <3> QED
        BY <2>1, <2>2 DEF WithMessage, Message
    <2> QED
      BY <2>1, <2>3, <2>4 DEF MayInsert
  <1>6. ASSUME NEW m \in Message, EnqueueMessage(m)
        PROVE  Same \/ ~IsResult(msg'[i])
    BY <1>6 DEF EnqueueMessage, WithMessage, MayInsert, LedgerInv, TypeOK, Message
  <1>7. ASSUME NEW t \in Task, EnqueueTaskResult(t)
        PROVE  \/ Same
               \/ /\ i = <<t, task[t].gen>>
                  /\ Content(msg'[i]) = ResultMessage(t, task[t])
    <2> DEFINE m == ResultMessage(t, task[t])
    <2>1. /\ m \in Message /\ m.id = <<t, task[t].gen>>
          /\ m.state = "queued" /\ m.receipt = None
      BY <1>7, ResultMessageType DEF EnqueueTaskResult, ResultMessage
    <2>2. MintedState(m) \in MessageState
      BY DEF MintedState, MessageState
    <2>3. msg' = [msg EXCEPT ![m.id] = [m EXCEPT !.state = MintedState(m)]]
      BY <1>7 DEF EnqueueTaskResult
    <2> HIDE DEF m
    <2>4. Content(m) = m
      BY <2>1 DEF Content, Message
    <2>5. Content([m EXCEPT !.state = MintedState(m)]) = m
      BY <1>2, <2>1, <2>2, <2>4
    <2>6. CASE i = m.id
      <3>1. msg'[i] = [m EXCEPT !.state = MintedState(m)]
        BY <2>3, <2>6 DEF LedgerInv, TypeOK
      <3> QED
        BY <2>1, <2>5, <2>6, <3>1 DEF m
    <2>7. CASE i # m.id
      BY <2>3, <2>7 DEF LedgerInv, TypeOK
    <2> QED
      BY <2>6, <2>7
  <1>8. ASSUME NEW j \in MessageId, NEW state \in MessageState, NEW receipt,
               msg[j] # None, Move(j, state, receipt)
        PROVE  Same
    <2>1. msg[j] \in Message
      BY <1>8 DEF LedgerInv, TypeOK
    <2>2. msg'[i] = IF i = j THEN [msg[j] EXCEPT !.state = state, !.receipt = receipt]
                    ELSE msg[i]
      BY <1>8 DEF Move, LedgerInv, TypeOK
    <2>3. Content([msg[j] EXCEPT !.state = state, !.receipt = receipt]) = Content(msg[j])
      BY <1>1, <2>1
    <2> QED
      BY <1>8, <2>2, <2>3
  <1>9. ASSUME NEW j \in MessageId,
               \/ \E exact \in BOOLEAN : ClaimTaskResult(j, exact)
               \/ ClaimParentHistoryMessage(j)
               \/ ClaimManagedMessage(j)
        PROVE  Same
    BY <1>8, <1>9 DEF ClaimTaskResult, ClaimParentHistoryMessage,
       ClaimManagedMessage, Waiting, MessageState
  <1>10. ASSUME NEW j \in MessageId,
                \/ \E state \in MessageState \ {"queued"} : AcknowledgeMessage(j, state)
                \/ AcknowledgeApplicationHistory(j)
         PROVE  Same
    BY <1>8, <1>10 DEF AcknowledgeMessage, AcknowledgeApplicationHistory,
       SettleMessage, MessageState
  <1>11. ASSUME RecoverTasks \/ UNCHANGED ledger
         PROVE  Same
    BY <1>11 DEF RecoverTasks, ledger
  <1> HIDE DEF Same
  <1>12. Same \/ ~IsResult(msg'[i]) \/
           \E t \in Task :
              /\ EnqueueTaskResult(t) /\ i = <<t, task[t].gen>>
              /\ Content(msg'[i]) = ResultMessage(t, task[t])
    BY <1>4, <1>5, <1>6, <1>7, <1>9, <1>10, <1>11 DEF Next
  <1> QED
    BY <1>12 DEF Same

\* What the content of the result stored under i says of the runs in H.
Speaks(H, i, m) ==
    /\ i = <<m.from, m.sgen>>
    /\ H[m.from][m.sgen] # None /\ IsTerminal(H[m.from][m.sgen])
    /\ H[m.from][m.sgen].state = m.body.state
    /\ H[m.from][m.sgen].pgen = m.rgen /\ Parent[m.from] = m.to
    /\ H[m.to][m.rgen] # None

LEMMA StepResultsSpeak ==
    ASSUME LedgerInv, ResultsSpeakForEndedRuns, [Next]_ledger
    PROVE  ResultsSpeakForEndedRuns'
  <1> SUFFICES ASSUME NEW i \in MessageId, msg'[i] # None, IsResult(msg'[i])
               PROVE  Speaks(hist', i, msg'[i])
    BY DEF ResultsSpeakForEndedRuns, Speaks, IsResult, IsTerminal
  <1>1. msg' \in [MessageId -> Message \cup {None}]
    BY NextInv DEF LedgerInv, TypeOK
  <1>2. ASSUME NEW m \in Message, NEW n \in Message, Content(m) = Content(n)
        PROVE  /\ m.from = n.from /\ m.to = n.to /\ m.sgen = n.sgen
               /\ m.rgen = n.rgen /\ m.body = n.body /\ m.subject = n.subject
    <2>1. /\ Content(m).from = m.from /\ Content(m).to = m.to
          /\ Content(m).sgen = m.sgen /\ Content(m).rgen = m.rgen
          /\ Content(m).body = m.body /\ Content(m).subject = m.subject
      BY DEF Content, Message
    <2>2. /\ Content(n).from = n.from /\ Content(n).to = n.to
          /\ Content(n).sgen = n.sgen /\ Content(n).rgen = n.rgen
          /\ Content(n).body = n.body /\ Content(n).subject = n.subject
      BY DEF Content, Message
    <2> QED
      BY <1>2, <2>1, <2>2
  <1>3. ASSUME NEW m \in Message, Speaks(hist, i, m)
        PROVE  Speaks(hist', i, m)
    <2>1. /\ m.from \in Task /\ m.to \in Task
          /\ m.sgen \in Generation /\ m.rgen \in Generation
      BY DEF Message
    <2> QED
      BY <1>3, <2>1, StepKeepsOutcome, StepKeepsRun
      DEF Speaks, KeepsOutcome, IsTerminal
  <1>4. CASE msg[i] # None /\ Content(msg'[i]) = Content(msg[i])
    <2>1. msg[i] \in Message /\ msg'[i] \in Message
      BY <1>1, <1>4 DEF LedgerInv, TypeOK
    <2>2. Speaks(hist, i, msg[i])
      BY <1>2, <1>4, <2>1 DEF ResultsSpeakForEndedRuns, Speaks, IsResult
    <2>3. Speaks(hist', i, msg[i])
      BY <1>3, <2>1, <2>2
    <2> QED
      BY <1>2, <1>4, <2>1, <2>3 DEF Speaks
  <1>5. ASSUME NEW t \in Task, EnqueueTaskResult(t), i = <<t, task[t].gen>>,
               Content(msg'[i]) = ResultMessage(t, task[t])
        PROVE  Speaks(hist', i, msg'[i])
    <2> DEFINE m == ResultMessage(t, task[t])
    <2>1. m \in Message /\ msg'[i] \in Message
      BY <1>1, <1>5, ResultMessageType DEF EnqueueTaskResult
    <2>2. Content(m) = m
      <3>1. m.state = "queued" /\ m.receipt = None
        BY DEF ResultMessage
      <3> HIDE DEF m
      <3> QED
        BY <2>1, <3>1 DEF Content, Message
    <2>3. task[t] # None /\ task[t] \in Row /\ task[t].gen \in Generation
      BY <1>5 DEF EnqueueTaskResult, LedgerInv, TypeOK, Row
    <2>4. hist[t][task[t].gen] = task[t]
      BY <2>3 DEF LedgerInv, HistoryMirrorsCurrent
    <2>5. Speaks(hist, i, m)
      BY <1>5, <2>3, <2>4
      DEF EnqueueTaskResult, Speaks, ResultMessage, LaunchedBy, ResultBody
    <2>6. Speaks(hist', i, m)
      BY <1>3, <2>1, <2>5
    <2> HIDE DEF m
    <2> QED
      BY <1>2, <1>5, <2>1, <2>2, <2>6 DEF Speaks, m
  <1> QED
    BY <1>4, <1>5, MessageSteps

\* Every result in the mailbox speaks for a run that ended as it says, and for the
\* parent run that launched it, for any number of runs and results
\* (insert_task_result and task_result_message_body).
THEOREM ResultsAreTrue == Spec => []ResultsSpeakForEndedRuns
  <1>1. Init => ResultsSpeakForEndedRuns
    BY DEF Init, ResultsSpeakForEndedRuns
  <1> QED
    BY <1>1, StepResultsSpeak, LedgerInvariant, PTL DEF Spec

=============================================================================
