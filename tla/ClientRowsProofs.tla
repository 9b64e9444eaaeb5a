-------------------------- MODULE ClientRowsProofs --------------------------
(***************************************************************************)
(* What the rows the callers build have in common, whoever builds them and  *)
(* however old the row was they started from.  Every write is the next      *)
(* revision, or the next run, of a row that is stored or was (Writes), and  *)
(* treats the queue of inputs in one of six ways (Builds).  So what holds   *)
(* of a row and survives these holds of every row that is stored, kept in   *)
(* history or held by a client (RowsTell): its process is of an earlier run *)
(* or its own, its links lead to mail of its task, the input that drives it *)
(* was received, a grok queue can be read back.  On this rest the promises  *)
(* about results: one at a time, and none over a turn of the user.          *)
(***************************************************************************)
EXTENDS LedgerClientsProofs, SequenceTheorems, FiniteSetTheorems

-----------------------------------------------------------------------------
(* How the callers build the rows they write *)

\* What becomes of a row's inputs when a caller writes new in place of old.
KeepsInputs(old, new) == new.pending = old.pending /\ new.current = old.current

\* A link to a message of the task is appended; for grok to one not queued yet.
AddsInput(t, old, new) ==
    \E link \in Link :
       /\ new.pending = Append(old.pending, link)
       /\ link.turn = None
       /\ msg'[link.id] # None /\ msg'[link.id].to = t
       /\ Harness[t] = "grok" =>
             /\ new.current \in {old.current, None}
             /\ link.runtime = old.runtime /\ link.sgen <= new.gen /\ Fits(new)
             /\ msg[link.id] = None \/ \A l \in LinksOf(old) : l.id # link.id
       /\ Harness[t] = "claude" => new.current \in {old.current, WithoutMail(old.current)}
       /\ Harness[t] \in {"grok", "claude"}

\* The head of the queue got its native turn.
RecordsTurn(old, new) ==
    \E n \in Turn :
       /\ old.pending # <<>> /\ FreshTurn(old, n)
       /\ new.pending = [old.pending EXCEPT ![1].turn = n]
       /\ new.current = old.current

\* The received head of the queue became the current input.
OpensTurn(t, old, new) ==
    /\ old.pending # <<>> /\ new.current = old.pending[1]
    /\ Received(new.current.id)
    /\ \/ /\ Harness[t] = "grok" /\ new.current.turn # None
          /\ new.pending = Tail(old.pending)
       \/ /\ Harness[t] = "claude" /\ new.current.sgen = old.gen
          /\ new.pending \in {old.pending, <<>>}

\* An input left the queue, or all did.
LosesInput(t, old, new) ==
    /\ new.current = old.current
    /\ \/ Harness[t] = "claude" /\ new.pending = <<>>
       \/ \E k \in 1 .. Len(old.pending) :
             new.pending = SubSeq(old.pending, 1, k - 1)
                              \o SubSeq(old.pending, k + 1, Len(old.pending))

\* The process stays, unless the launch of the run is claimed for a new one.
StartsProcess(t, old, new) ==
    /\ old.state = "queued" /\ new.gen = old.gen
    /\ new.pending = <<>> /\ new.current = None /\ new.runtime = <<t, old.gen>>

\* The ways a caller builds a row from one it knows.
Builds(t, old, new) ==
    \/ StartsProcess(t, old, new)
    \/ /\ new.runtime = old.runtime
       /\ \/ KeepsInputs(old, new) \/ AddsInput(t, old, new) \/ RecordsTurn(old, new)
          \/ OpensTurn(t, old, new) \/ LosesInput(t, old, new)

\* The next revision of the row a caller read, or the run after it.
Succeeds(old, new) ==
    \/ new.gen = old.gen /\ new.rev = old.rev + 1
    \/ new.gen = old.gen + 1 /\ new.rev = 0

\* The row new, built from a known one, was accepted and stored.
Writes(t, old, new) ==
    /\ old \in Known(t) /\ new \in Row
    /\ MayCheckpoint(t, new, old.gen) \/ Repeats(t, new)
    /\ task' = StoredTasks(t, new) /\ hist' = StoredRuns(t, new)
    /\ Succeeds(old, new) /\ Builds(t, old, new)

\* Every row a caller knows is a row of its task.
KnownRows == held \in [Task -> Row \cup {None}]

\* What a client knows of a task is a row.
LEMMA KnownType ==
    ASSUME LedgerInv, KnownRows, NEW t \in Task, NEW old \in Known(t)
    PROVE  old \in Row
  BY DEF LedgerInv, TypeOK, KnownRows, Known

\* The next revision keeps every field but the revision.
LEMMA RevisedFields ==
    ASSUME NEW row \in Row
    PROVE  /\ Revised(row).rev = row.rev + 1
           /\ Revised(row).gen = row.gen /\ Revised(row).state = row.state
           /\ Revised(row).session = row.session /\ Revised(row).runtime = row.runtime
           /\ KeepsInputs(row, Revised(row))
           /\ DOMAIN Revised(row) = DOMAIN row
  <1> DEFINE rev == row.rev + 1
  <1>1. Revised(row) = [row EXCEPT !.rev = rev]
    BY DEF Revised, Row
  <1> HIDE DEF rev
  <1>2. /\ Revised(row).rev = rev
        /\ Revised(row).gen = row.gen /\ Revised(row).state = row.state
        /\ Revised(row).session = row.session /\ Revised(row).runtime = row.runtime
        /\ KeepsInputs(row, Revised(row))
        /\ DOMAIN Revised(row) = DOMAIN row
    BY <1>1 DEF Row, KeepsInputs
  <1> QED
    BY <1>2 DEF rev

\* The next run inherits the session, the process and the inputs.
LEMMA NextRunFields ==
    ASSUME NEW row \in Row
    PROVE  /\ NextRun(row).gen = row.gen + 1 /\ NextRun(row).rev = 0
           /\ NextRun(row).session = row.session /\ NextRun(row).runtime = row.runtime
           /\ KeepsInputs(row, NextRun(row))
           /\ DOMAIN NextRun(row) = DOMAIN row
  <1> DEFINE gen == row.gen + 1
  <1>1. NextRun(row) = [row EXCEPT !.gen = gen, !.rev = 0, !.state = "queued",
                                   !.result = None, !.evidence = None]
    BY DEF NextRun, Row
  <1> HIDE DEF gen
  <1>2. /\ NextRun(row).gen = gen /\ NextRun(row).rev = 0
        /\ NextRun(row).session = row.session /\ NextRun(row).runtime = row.runtime
        /\ KeepsInputs(row, NextRun(row))
        /\ DOMAIN NextRun(row) = DOMAIN row
    BY <1>1 DEF Row, KeepsInputs
  <1> QED
    BY <1>2 DEF gen

\* Some caller rewrote the row of t.
Rewritten(t) == \E old \in Known(t), new \in Row : Writes(t, old, new)

\* A checkpoint of a row built from a known one rewrites its task.
LEMMA CheckpointWrites ==
    ASSUME LedgerInv, KnownRows, NEW t \in Task, NEW old \in Known(t), NEW new,
           CheckpointTask(t, new, old.gen), Succeeds(old, new), Builds(t, old, new)
    PROVE  Rewritten(t)
  <1>1. new \in Row /\ Writes(t, old, new)
    BY DEF Writes, CheckpointTask, MayCheckpoint, ValidRow
  <1> QED
    BY <1>1 DEF Rewritten

\* A row revised in fields that are not its inputs.
LEMMA RevisedWrites ==
    ASSUME LedgerInv, KnownRows, NEW t \in Task, NEW old \in Known(t), NEW new,
           CheckpointTask(t, new, old.gen),
           new.gen = old.gen, new.rev = old.rev + 1, new.runtime = old.runtime,
           KeepsInputs(old, new)
    PROVE  Rewritten(t)
  BY CheckpointWrites DEF Succeeds, Builds

\* A resumed task, with the inputs of its last run.
LEMMA ResumeRewrites ==
    ASSUME LedgerInv, KnownRows, NEW t \in Task, ResumeTask(t)
    PROVE  Rewritten(t)
  <1>1. PICK old \in Known(t) : CheckpointTask(t, NextRun(old), old.gen)
    BY DEF ResumeTask
  <1>2. Succeeds(old, NextRun(old)) /\ Builds(t, old, NextRun(old))
    BY KnownType, NextRunFields DEF Succeeds, Builds
  <1> QED
    BY <1>1, <1>2, CheckpointWrites

\* A launch claimed for a new process, without inputs.
LEMMA StartProcessRewrites ==
    ASSUME LedgerInv, KnownRows, NEW t \in Task, StartProcess(t)
    PROVE  Rewritten(t)
  <1>1. PICK old \in Known(t) :
           /\ old.state = "queued"
           /\ CheckpointTask(t, [Revised(old) EXCEPT !.runtime = <<t, old.gen>>,
                                       !.pending = <<>>, !.current = None], old.gen)
    BY DEF StartProcess
  <1> DEFINE new == [Revised(old) EXCEPT !.runtime = <<t, old.gen>>,
                                       !.pending = <<>>, !.current = None]
  <1>2. /\ new.gen = old.gen /\ new.rev = old.rev + 1
        /\ new.pending = <<>> /\ new.current = None /\ new.runtime = <<t, old.gen>>
    BY KnownType, RevisedFields DEF Row
  <1>3. Succeeds(old, new) /\ Builds(t, old, new)
    BY <1>1, <1>2 DEF Succeeds, Builds, StartsProcess
  <1> QED
    BY <1>1, <1>3, CheckpointWrites

\* What runtimes report leaves the inputs alone.
LEMMA ReportRewrites ==
    ASSUME LedgerInv, KnownRows, NEW t \in Task,
           BindSession(t) \/ ReportState(t) \/ FinishRun(t)
    PROVE  Rewritten(t)
  <1>1. ASSUME NEW old \in Known(t), NEW new, Commit(t, old, new),
               new.gen = Revised(old).gen, new.rev = Revised(old).rev,
               new.runtime = Revised(old).runtime, KeepsInputs(Revised(old), new)
        PROVE  Rewritten(t)
    <2>1. /\ new.gen = old.gen /\ new.rev = old.rev + 1
          /\ new.runtime = old.runtime /\ KeepsInputs(old, new)
      BY <1>1, KnownType, RevisedFields DEF KeepsInputs
    <2> QED
      BY <1>1, <2>1, RevisedWrites DEF Commit
  <1>2. ASSUME BindSession(t) PROVE Rewritten(t)
    <2>1. PICK old \in Known(t), x \in Session :
             Commit(t, old, [Revised(old) EXCEPT !.session = x])
      BY <1>2 DEF BindSession
    <2> DEFINE new == [Revised(old) EXCEPT !.session = x]
    <2>2. /\ new.gen = Revised(old).gen /\ new.rev = Revised(old).rev
          /\ new.runtime = Revised(old).runtime /\ KeepsInputs(Revised(old), new)
      BY KnownType, RevisedFields DEF Row, KeepsInputs
    <2> QED
      BY <1>1, <2>1, <2>2
  <1>3. ASSUME ReportState(t) PROVE Rewritten(t)
    <2>1. PICK old \in Known(t), state \in Reports[t] :
             Commit(t, old, [Revised(old) EXCEPT !.state = state])
      BY <1>3 DEF ReportState
    <2> DEFINE new == [Revised(old) EXCEPT !.state = state]
    <2>2. /\ new.gen = Revised(old).gen /\ new.rev = Revised(old).rev
          /\ new.runtime = Revised(old).runtime /\ KeepsInputs(Revised(old), new)
      BY KnownType, RevisedFields DEF Row, KeepsInputs
    <2> QED
      BY <1>1, <2>1, <2>2
  <1>4. ASSUME FinishRun(t) PROVE Rewritten(t)
    <2>1. PICK old \in Known(t), state \in Reports[t], r \in Result, e \in Evidence :
             Commit(t, old, [Revised(old) EXCEPT !.state = state, !.result = r,
                                                 !.evidence = e])
      BY <1>4 DEF FinishRun
    <2> DEFINE new == [Revised(old) EXCEPT !.state = state, !.result = r, !.evidence = e]
    <2>2. /\ new.gen = Revised(old).gen /\ new.rev = Revised(old).rev
          /\ new.runtime = Revised(old).runtime /\ KeepsInputs(Revised(old), new)
      BY KnownType, RevisedFields DEF Row, KeepsInputs
    <2> QED
      BY <1>1, <2>1, <2>2
  <1> QED
    BY <1>2, <1>3, <1>4

\* The native turn of the head of the queue is recorded.
LEMMA AcceptRewrites ==
    ASSUME LedgerInv, KnownRows, NEW t \in Task, AcceptTurn(t)
    PROVE  Rewritten(t)
  <1>1. PICK old \in Known(t), n \in Turn :
           /\ old.pending # <<>> /\ FreshTurn(old, n)
           /\ Commit(t, old, [Revised(old) EXCEPT !.pending[1].turn = n])
    BY DEF AcceptTurn
  <1> DEFINE new == [Revised(old) EXCEPT !.pending[1].turn = n]
  <1>2. /\ new.gen = old.gen /\ new.rev = old.rev + 1 /\ new.runtime = old.runtime
        /\ new.current = old.current
        /\ new.pending = [old.pending EXCEPT ![1].turn = n]
    BY KnownType, RevisedFields DEF Row, KeepsInputs
  <1>3. Succeeds(old, new) /\ Builds(t, old, new)
    BY <1>1, <1>2 DEF Succeeds, Builds, RecordsTurn
  <1> QED
    BY <1>1, <1>3, CheckpointWrites DEF Commit

\* The second write of a turn that opened a run.
LEMMA RunTurnRewrites ==
    ASSUME LedgerInv, KnownRows, NEW t \in Task, RunTurn(t)
    PROVE  Rewritten(t)
  <1>1. PICK old \in Known(t) :
           Commit(t, old, [Revised(old) EXCEPT !.state = "running",
                !.pending = IF Harness[t] = "claude" THEN <<>> ELSE @])
    BY DEF RunTurn
  <1> DEFINE new == [Revised(old) EXCEPT !.state = "running",
                !.pending = IF Harness[t] = "claude" THEN <<>> ELSE @]
  <1>2. /\ new.gen = old.gen /\ new.rev = old.rev + 1 /\ new.runtime = old.runtime
        /\ new.current = old.current
        /\ new.pending = IF Harness[t] = "claude" THEN <<>> ELSE old.pending
    BY KnownType, RevisedFields DEF Row, KeepsInputs
  <1>3. Succeeds(old, new) /\ Builds(t, old, new)
    BY <1>2 DEF Succeeds, Builds, KeepsInputs, LosesInput
  <1> QED
    BY <1>1, <1>3, CheckpointWrites DEF Commit

\* A settled input leaves the queue.
LEMMA DropRewrites ==
    ASSUME LedgerInv, KnownRows, NEW t \in Task, DropInput(t)
    PROVE  Rewritten(t)
  <1>1. PICK old \in Known(t), k \in 1 .. LinkLimit :
           /\ k <= Len(old.pending)
           /\ Commit(t, old, [Revised(old) EXCEPT !.pending =
                 SubSeq(@, 1, k - 1) \o SubSeq(@, k + 1, Len(@))])
    BY DEF DropInput
  <1> DEFINE rest == SubSeq(old.pending, 1, k - 1)
                        \o SubSeq(old.pending, k + 1, Len(old.pending))
             new == [Revised(old) EXCEPT !.pending = rest]
  <1>2. /\ new.gen = old.gen /\ new.rev = old.rev + 1 /\ new.runtime = old.runtime
        /\ new.current = old.current /\ new.pending = rest
    <2> HIDE DEF rest
    <2> QED
      BY KnownType, RevisedFields DEF Row, KeepsInputs
  <1>3. Commit(t, old, new)
    BY <1>1, KnownType, RevisedFields DEF Row, KeepsInputs
  <1>4. k \in 1 .. Len(old.pending)
    BY <1>1, KnownType, LimitsAssumption DEF Row
  <1>5. Succeeds(old, new) /\ Builds(t, old, new)
    BY <1>2, <1>4 DEF Succeeds, Builds, LosesInput
  <1> QED
    BY <1>3, <1>5, CheckpointWrites DEF Commit

\* Every message is kept under its own id.
IdsMatch == \A i \in MessageId : msg[i] # None => msg[i].id = i

\* Who and what a message is about never changes.
SameLetter(m, n) ==
    /\ n # None /\ n.id = m.id /\ n.from = m.from /\ n.to = m.to
    /\ n.sgen = m.sgen /\ n.rgen = m.rgen /\ n.subject = m.subject
    /\ m.state = "acknowledged" => n = m

\* A posting leaves every stored message about the same.
LEMMA PostingKeepsLetters ==
    ASSUME LedgerInv, Posting, NEW i \in MessageId, msg[i] # None
    PROVE  SameLetter(msg[i], msg'[i])
  <1>1. msg[i] \in Message
    BY DEF LedgerInv, TypeOK
  <1>2. CASE msg'[i] = msg[i]
    BY <1>2 DEF SameLetter
  <1>3. CASE /\ msg[i].state = "queued"
             /\ msg'[i] = [msg[i] EXCEPT !.state = "cancelled"]
    <2>1. msg'[i] \in Message
      BY <1>1, <1>3 DEF Message, MessageState
    <2> QED
      BY <1>1, <1>3, <2>1, NoneAssumption DEF SameLetter, Message
  <1> QED
    BY <1>2, <1>3, PostingPosts DEF PostedOrWithdrawn

\* The message of a checkpoint is stored with it.
LEMMA InputIsStored ==
    ASSUME LedgerInv, NEW t \in Task, NEW new, NEW expected, NEW m \in Message,
           CheckpointTaskWithMessage(t, new, expected, m)
    PROVE  /\ new \in Row
           /\ msg'[m.id] # None /\ msg'[m.id].to = t
           /\ m.rgen = new.gen
  <1> DEFINE M == IF Repeats(t, new) THEN msg
                  ELSE MailAfter(StoredRuns(t, new), t, task[t], new)
  <1>1. /\ msg' = WithMessage(M, m) /\ m.to = t /\ m.rgen = new.gen
    BY DEF CheckpointTaskWithMessage
  <1>2. M \in [MessageId -> Message \cup {None}]
    BY MailAfterType DEF LedgerInv, TypeOK
  <1>3. new \in Row
    BY DEF CheckpointTaskWithMessage, MayCheckpoint, ValidRow, Repeats,
       LedgerInv, TypeOK
  <1> HIDE DEF M
  <1>4. m.id \in MessageId /\ m # None
    BY NoneAssumption DEF Message
  <1>5. CASE Enqueued(M, m)
    <2>1. msg'[m.id] = M[m.id] /\ M[m.id] # None /\ Content(M[m.id]) = m
      BY <1>1, <1>5 DEF WithMessage, Enqueued
    <2>2. Content(M[m.id]).to = M[m.id].to
      BY <1>2, <1>4, <2>1 DEF Content, Message
    <2> QED
      BY <1>1, <1>3, <2>1, <2>2
  <1>6. CASE ~Enqueued(M, m)
    BY <1>1, <1>2, <1>3, <1>4, <1>6 DEF WithMessage
  <1> QED
    BY <1>5, <1>6

\* A row written together with the input i of the user, whose link it appends.
LEMMA InputWrites ==
    ASSUME LedgerInv, KnownRows, NEW t \in Task, NEW i \in Input,
           NEW old \in Known(t), NEW new,
           CommitWithMessage(t, old, new, UserInput(t, new.gen, i)),
           Succeeds(old, new), Builds(t, old, new)
    PROVE  Rewritten(t)
  <1>1. CheckpointTaskWithMessage(t, new, old.gen, UserInput(t, new.gen, i))
    BY DEF CommitWithMessage
  <1>2. new \in Row
    BY <1>1 DEF CheckpointTaskWithMessage, MayCheckpoint, ValidRow, Repeats,
       LedgerInv, TypeOK
  <1>3. Writes(t, old, new)
    BY <1>1, <1>2 DEF CheckpointTaskWithMessage, Writes
  <1> QED
    BY <1>2, <1>3 DEF Rewritten

\* The fields of a new link.
LEMMA NewLinkType ==
    ASSUME NEW i \in MessageId, NEW g \in Generation, NEW r \in Runtime \cup {None},
           NEW mail \in Message \cup {None}
    PROVE  /\ NewLink(i, g, r, mail) \in Link
           /\ NewLink(i, g, r, mail).id = i /\ NewLink(i, g, r, mail).sgen = g
           /\ NewLink(i, g, r, mail).runtime = r /\ NewLink(i, g, r, mail).turn = None
  BY DEF NewLink, Link

\* An input of the user appended to the native queue.
LEMMA GrokSubmitRewrites ==
    ASSUME LedgerInv, KnownRows, NEW t \in Task, NEW i \in Input,
           NEW old \in Known(t), GrokSubmit(t, old, i),
           msg[i] # None => \A l \in LinksOf(old) : l.id # i
    PROVE  Rewritten(t)
  <1> DEFINE next == IF IsTerminal(old) THEN [NextRun(old) EXCEPT !.current = None]
                                        ELSE Revised(old)
             link == NewLink(i, next.gen, old.runtime, None)
             new == [next EXCEPT !.pending = Append(@, link)]
  <1>1. /\ Harness[t] = "grok" /\ Fits(new)
        /\ CommitWithMessage(t, old, new, UserInput(t, new.gen, i))
    BY DEF GrokSubmit
  <1>2. old \in Row /\ i \in MessageId
    BY KnownType DEF MessageId
  <1>3. /\ Succeeds(old, next) /\ next.runtime = old.runtime
        /\ next.pending = old.pending /\ next.current \in {old.current, None}
        /\ DOMAIN next = DOMAIN old
    <2>1. CASE IsTerminal(old)
      BY <1>2, <2>1, NextRunFields DEF Row, KeepsInputs, Succeeds
    <2>2. CASE ~IsTerminal(old)
      BY <1>2, <2>2, RevisedFields DEF Row, KeepsInputs, Succeeds
    <2> QED
      BY <2>1, <2>2
  <1> HIDE DEF next
  <1>4. /\ new.gen = next.gen /\ new.rev = next.rev /\ new.runtime = next.runtime
        /\ new.current = next.current /\ new.pending = Append(old.pending, link)
    <2> HIDE DEF link
    <2> QED
      BY <1>2, <1>3 DEF Row
  <1>5. /\ new \in Row /\ msg'[i] # None /\ msg'[i].to = t
    <2> HIDE DEF new
    <2>1. CheckpointTaskWithMessage(t, new, old.gen, UserInput(t, new.gen, i))
      BY <1>1 DEF CommitWithMessage
    <2>2. new \in Row
      BY <2>1 DEF CheckpointTaskWithMessage, MayCheckpoint, ValidRow, Repeats,
         LedgerInv, TypeOK
    <2>3. UserInput(t, new.gen, i) \in Message /\ UserInput(t, new.gen, i).id = i
      BY <2>2, UserInputType DEF Row, UserInput
    <2> QED
      BY <2>1, <2>2, <2>3, InputIsStored
  <1>6. next.gen \in Generation
    <2> HIDE DEF new
    <2> QED
      BY <1>4, <1>5 DEF Row
  <1>7. /\ link \in Link /\ link.id = i /\ link.sgen = next.gen
        /\ link.runtime = old.runtime /\ link.turn = None
    <2>1. old.runtime \in Runtime \cup {None}
      BY <1>2 DEF Row
    <2> QED
      BY <1>2, <1>6, <2>1, NewLinkType
  <1> HIDE DEF link, new
  <1>8. AddsInput(t, old, new)
    <2>1. link.sgen <= new.gen
      BY <1>4, <1>6, <1>7 DEF Generation
    <2> QED
      BY <1>1, <1>3, <1>4, <1>5, <1>7, <2>1 DEF AddsInput
  <1>9. Succeeds(old, new) /\ Builds(t, old, new)
    BY <1>3, <1>4, <1>8 DEF Succeeds, Builds
  <1> QED
    BY <1>1, <1>9, InputWrites

\* An input of the user to a claude task, which had none pending.
LEMMA ClaudeSubmitRewrites ==
    ASSUME LedgerInv, KnownRows, NEW t \in Task, NEW i \in Input,
           NEW old \in Known(t), ClaudeSubmit(t, old, i)
    PROVE  Rewritten(t)
  <1> DEFINE next == IF IsTerminal(old) THEN NextRun(old) ELSE Revised(old)
             link == NewLink(i, next.gen, None, None)
             new == [next EXCEPT !.pending = <<link>>, !.current = WithoutMail(@)]
  <1>1. /\ Harness[t] = "claude" /\ old.pending = <<>>
        /\ CommitWithMessage(t, old, new, UserInput(t, new.gen, i))
    BY DEF ClaudeSubmit
  <1>2. old \in Row /\ i \in MessageId
    BY KnownType DEF MessageId
  <1>3. /\ Succeeds(old, next) /\ next.runtime = old.runtime
        /\ next.current = old.current /\ DOMAIN next = DOMAIN old
    BY <1>2, NextRunFields, RevisedFields DEF KeepsInputs, Succeeds
  <1> HIDE DEF next
  <1>4. /\ new.gen = next.gen /\ new.rev = next.rev /\ new.runtime = next.runtime
        /\ new.current = WithoutMail(old.current) /\ new.pending = <<link>>
    <2> HIDE DEF link
    <2> QED
      BY <1>2, <1>3 DEF Row
  <1>5. /\ new \in Row /\ msg'[i] # None /\ msg'[i].to = t
    <2> HIDE DEF new
    <2>1. CheckpointTaskWithMessage(t, new, old.gen, UserInput(t, new.gen, i))
      BY <1>1 DEF CommitWithMessage
    <2>2. new \in Row
      BY <2>1 DEF CheckpointTaskWithMessage, MayCheckpoint, ValidRow, Repeats,
         LedgerInv, TypeOK
    <2>3. UserInput(t, new.gen, i) \in Message /\ UserInput(t, new.gen, i).id = i
      BY <2>2, UserInputType DEF Row, UserInput
    <2> QED
      BY <2>1, <2>2, <2>3, InputIsStored
  <1>6. next.gen \in Generation
    <2> HIDE DEF new
    <2> QED
      BY <1>4, <1>5 DEF Row
  <1>7. link \in Link /\ link.id = i /\ link.turn = None
    BY <1>6, <1>2, NewLinkType
  <1> HIDE DEF link, new
  <1>8. AddsInput(t, old, new)
    <2>1. new.pending = Append(old.pending, link)
      BY <1>1, <1>4, <1>7
    <2> QED
      BY <1>1, <1>4, <1>5, <1>7, <2>1 DEF AddsInput
  <1>9. Succeeds(old, new) /\ Builds(t, old, new)
    BY <1>3, <1>4, <1>8 DEF Succeeds, Builds
  <1> QED
    BY <1>1, <1>9, InputWrites

\* An input of the user rewrites the row, unless codex takes it as it is.
LEMMA SubmitRewrites ==
    ASSUME LedgerInv, KnownRows, NEW t \in Task, NEW i \in Input, SubmitInput(t, i)
    PROVE  Rewritten(t) \/ UNCHANGED <<task, hist>>
  <1>1. PICK old \in Known(t) :
           /\ msg[i] # None => \A l \in LinksOf(old) : l.id # i
           /\ GrokSubmit(t, old, i) \/ ClaudeSubmit(t, old, i) \/ CodexSubmit(t, old, i)
    BY DEF SubmitInput
  <1>2. CASE CodexSubmit(t, old, i)
    <2>1. CASE CommitWithMessage(t, old, NextRun(old), UserInput(t, old.gen + 1, i))
      <3>1. Succeeds(old, NextRun(old)) /\ Builds(t, old, NextRun(old))
        BY KnownType, NextRunFields DEF Succeeds, Builds
      <3>2. NextRun(old).gen = old.gen + 1
        BY KnownType, NextRunFields
      <3> QED
        BY <2>1, <3>1, <3>2, InputWrites
    <2>2. CASE EnqueueMessage(UserInput(t, old.gen, i))
      BY <2>2 DEF EnqueueMessage
    <2> QED
      BY <1>2, <2>1, <2>2 DEF CodexSubmit
  <1> QED
    BY <1>1, <1>2, GrokSubmitRewrites, ClaudeSubmitRewrites

\* A message handed over enters the queue of its task.
LEMMA LinkRewrites ==
    ASSUME LedgerInv, KnownRows, IdsMatch, NEW i \in MessageId, LinkMail(i)
    PROVE  Rewritten(msg[i].to)
  <1> DEFINE m == msg[i]
             t == m.to
  <1>1. /\ m # None /\ m \in Message /\ t \in Task /\ m.id = i
        /\ Content(m) \in Message /\ m.rgen \in Generation
    BY DEF LinkMail, LedgerInv, TypeOK, IdsMatch, Message, Content, MessageState
  <1>2. PICK old \in Known(t) :
           HandsOver(m, old) /\ (GrokLink(t, old, m) \/ ClaudeLink(t, old, m))
    BY DEF LinkMail
  <1>3. /\ old \in Row /\ old.gen \in Generation /\ old.runtime \in Runtime \cup {None}
    BY <1>1, <1>2, KnownType DEF Row
  <1>4. msg'[i] # None /\ msg'[i].to = t
    BY <1>1, LinkIsPosting, PostingKeepsLetters DEF SameLetter
  <1>5. ASSUME NEW link \in Link, NEW new,
               new = [Revised(old) EXCEPT !.pending = Append(old.pending, link)],
               Commit(t, old, new), link.turn = None, link.id = i,
               Harness[t] = "grok" =>
                  /\ link.runtime = old.runtime /\ link.sgen <= old.gen /\ Fits(new)
                  /\ \A l \in LinksOf(old) : l.id # link.id,
               Harness[t] \in {"grok", "claude"}
        PROVE  Rewritten(t)
    <2>1. /\ new.gen = old.gen /\ new.rev = old.rev + 1 /\ new.runtime = old.runtime
          /\ new.current = old.current /\ new.pending = Append(old.pending, link)
      BY <1>3, <1>5, RevisedFields DEF Row, KeepsInputs
    <2>2. AddsInput(t, old, new)
      BY <1>4, <1>5, <2>1 DEF AddsInput
    <2>3. Succeeds(old, new) /\ Builds(t, old, new)
      BY <2>1, <2>2 DEF Succeeds, Builds
    <2> QED
      BY <1>1, <1>2, <1>5, <2>3, CheckpointWrites DEF Commit
  <1>6. Revised(old).pending = old.pending
    BY <1>3, RevisedFields DEF KeepsInputs
  <1>7. CASE GrokLink(t, old, m)
    <2> DEFINE link == NewLink(i, m.rgen, old.runtime, Content(m))
               new == [Revised(old) EXCEPT !.pending = Append(old.pending, link)]
    <2>1. /\ link \in Link /\ link.id = i /\ link.sgen = m.rgen
          /\ link.runtime = old.runtime /\ link.turn = None
      <3>1. /\ m.rgen \in Generation /\ old.runtime \in Runtime \cup {None}
            /\ Content(m) \in Message \cup {None}
        BY <1>1, <1>3
      <3> HIDE DEF m
      <3> QED
        BY <3>1, NewLinkType
    <2>2. m.rgen <= old.gen
      <3>1. m.rgen = old.gen \/ m.rgen <= old.gen
        BY <1>2, <1>7 DEF GrokLink, HandsOver, GrokHistory
      <3> QED
        BY <1>3, <3>1 DEF Generation
    <2>3. /\ Harness[t] = "grok" /\ Fits(new) /\ Commit(t, old, new)
          /\ \A l \in LinksOf(old) : l.id # i
      <3> HIDE DEF Fits, Commit
      <3> QED
        BY <1>1, <1>6, <1>7 DEF GrokLink
    <2> HIDE DEF link
    <2> QED
      BY <1>5, <2>1, <2>2, <2>3
  <1>8. CASE ClaudeLink(t, old, m)
    <2> DEFINE mail == IF IsResult(m) THEN Content(m) ELSE None
               link == NewLink(i, old.gen, None, mail)
               new == [Revised(old) EXCEPT !.pending = Append(old.pending, link)]
    <2>1. /\ link \in Link /\ link.id = i /\ link.turn = None
      <3>1. mail \in Message \cup {None}
        BY <1>1
      <3>2. old.gen \in Generation /\ None \in Runtime \cup {None}
        BY <1>3
      <3> HIDE DEF mail, m, t
      <3> QED
        BY <3>1, <3>2, NewLinkType
    <2>2. Append(old.pending, link) = <<link>>
      BY <1>8 DEF ClaudeLink
    <2>3. Harness[t] = "claude" /\ Commit(t, old, new)
      BY <1>1, <1>6, <1>8, <2>2 DEF ClaudeLink
    <2> HIDE DEF link
    <2> QED
      BY <1>5, <2>1, <2>3
  <1> QED
    BY <1>2, <1>7, <1>8

\* The received head of the queue becomes the current input.
LEMMA TurnRewrites ==
    ASSUME LedgerInv, KnownRows, NEW t \in Task, StartTurn(t)
    PROVE  Rewritten(t)
  <1>1. PICK old \in Known(t) :
           /\ old.pending # <<>>
           /\ LET head == old.pending[1]
                  next == IF IsTerminal(old) THEN NextRun(old)
                          ELSE [Revised(old) EXCEPT !.state = "running"] IN
              /\ Received(head.id)
              /\ GrokStart(t, old, head, next) \/ ClaudeStart(t, old, head, next)
    BY DEF StartTurn
  <1> DEFINE head == old.pending[1]
             next == IF IsTerminal(old) THEN NextRun(old)
                     ELSE [Revised(old) EXCEPT !.state = "running"]
             left == IF Harness[t] = "grok" THEN Tail(old.pending)
                     ELSE IF IsTerminal(old) THEN old.pending ELSE <<>>
             new == [next EXCEPT !.pending = left, !.current = head]
  <1>2. old \in Row
    BY <1>1, KnownType
  <1>3. /\ Succeeds(old, next) /\ next.runtime = old.runtime
        /\ next.pending = old.pending /\ next.current = old.current
        /\ DOMAIN next = DOMAIN old
    <2>1. CASE IsTerminal(old)
      BY <1>2, <2>1, NextRunFields DEF KeepsInputs, Succeeds
    <2>2. CASE ~IsTerminal(old)
      BY <1>2, <2>2, RevisedFields DEF Row, KeepsInputs, Succeeds
    <2> QED
      BY <2>1, <2>2
  <1>4. /\ Received(head.id) /\ Commit(t, old, new)
        /\ \/ Harness[t] = "grok" /\ head.turn # None
           \/ Harness[t] = "claude" /\ head.sgen = old.gen
    BY <1>1, <1>3 DEF GrokStart, ClaudeStart
  <1> HIDE DEF next
  <1>5. /\ new.gen = next.gen /\ new.rev = next.rev /\ new.runtime = next.runtime
        /\ new.current = head /\ new.pending = left
    <2> HIDE DEF left, head
    <2> QED
      BY <1>2, <1>3 DEF Row
  <1>6. OpensTurn(t, old, new)
    <2> HIDE DEF new
    <2> QED
      BY <1>1, <1>4, <1>5 DEF OpensTurn
  <1>7. Succeeds(old, new) /\ Builds(t, old, new)
    <2> HIDE DEF new
    <2> QED
      BY <1>3, <1>5, <1>6 DEF Succeeds, Builds
  <1> QED
    BY <1>1, <1>4, <1>7, CheckpointWrites DEF Commit

\* The task was launched: its first row names no input and no process.
Launched(t, new) ==
    /\ task[t] = None /\ new \in Row
    /\ new.gen = 1 /\ new.pending = <<>> /\ new.current = None /\ new.runtime = None
    /\ task' = StoredTasks(t, new) /\ hist' = StoredRuns(t, new)

\* A launch stores the first row of a task.
LEMMA LaunchStores ==
    ASSUME LedgerInv, NEW t \in Task, LaunchTask(t)
    PROVE  \E new \in Row : Launched(t, new)
  <1> DEFINE row(pgen) ==
        [gen |-> 1, rev |-> 0, state |-> "queued", session |-> None,
         runtime |-> None, result |-> None, evidence |-> None, pgen |-> pgen,
         pending |-> <<>>, current |-> None]
  <1>1. PICK pgen : CheckpointTask(t, row(pgen), None)
    BY DEF LaunchTask
  <1> DEFINE new == row(pgen)
  <1>2. /\ new.gen = 1 /\ new.rev = 0
        /\ new.pending = <<>> /\ new.current = None /\ new.runtime = None
    OBVIOUS
  <1> HIDE DEF new
  <1>3. new \in Row /\ MayCheckpoint(t, new, None)
    BY <1>1 DEF CheckpointTask, MayCheckpoint, ValidRow, new
  <1>4. task[t] = None
    <2>1. ASSUME task[t] # None
          PROVE  FALSE
      <3>1. task[t].gen \in Generation /\ task[t].rev \in Revision
        BY <2>1 DEF LedgerInv, TypeOK, Row
      <3>2. 1 = task[t].gen + 1 \/ 0 = task[t].rev + 1
        BY <1>2, <1>3, <2>1 DEF MayCheckpoint, UpdatesRun, NextRevision, ContinuesTask
      <3> QED
        BY <3>1, <3>2, LimitsAssumption DEF Generation, Revision
    <2> QED
      BY <2>1
  <1>5. Launched(t, new)
    BY <1>1, <1>2, <1>3, <1>4 DEF CheckpointTask, Launched, new
  <1> QED
    BY <1>3, <1>5

\* How a step may change the rows of the tasks and what clients know of them.
LEMMA RowsStep ==
    ASSUME LedgerInv, KnownRows, IdsMatch, [ClientNext]_vars
    PROVE  /\ \/ \E t \in Task : Rewritten(t)
              \/ \E t \in Task, new \in Row : Launched(t, new)
              \/ RecoverTasks
              \/ UNCHANGED <<task, hist>>
           /\ \/ held' = held
              \/ /\ \E t \in Task : held' = [held EXCEPT ![t] = task[t]]
                 /\ UNCHANGED <<task, hist>>
              \/ held' = [t \in Task |-> None]
  <1>1. CASE UNCHANGED vars
    BY <1>1 DEF vars
  <1>2. ASSUME NEW t \in Task, Hold(t)
        PROVE  /\ \E u \in Task : held' = [held EXCEPT ![u] = task[u]]
               /\ UNCHANGED <<task, hist>>
    BY <1>2 DEF Hold
  <1>3. CASE Restart
    BY <1>3 DEF Restart
  <1>4. ASSUME NEW t \in Task, MintResult(t)
        PROVE  UNCHANGED <<task, hist>> /\ held' = held
    BY <1>4 DEF MintResult, EnqueueTaskResult, memory
  <1>5. ASSUME NEW t \in Task, LaunchTask(t)
        PROVE  (\E new \in Row : Launched(t, new)) /\ held' = held
    BY <1>5, LaunchStores DEF LaunchTask
  <1>6. ASSUME NEW t \in Task,
               \/ ResumeTask(t) \/ StartProcess(t)
               \/ BindSession(t) \/ ReportState(t) \/ FinishRun(t)
               \/ AcceptTurn(t) \/ RunTurn(t) \/ DropInput(t)
        PROVE  Rewritten(t) /\ held' = held
    <2>1. held' = held
      BY <1>6 DEF ResumeTask, StartProcess, BindSession, ReportState, FinishRun,
         AcceptTurn, RunTurn, DropInput, Commit, memory
    <2> QED
      BY <1>6, <2>1, ResumeRewrites, StartProcessRewrites, ReportRewrites,
         AcceptRewrites, RunTurnRewrites, DropRewrites
  <1>7. ASSUME NEW t \in Task, StartTurn(t)
        PROVE  Rewritten(t) /\ held' = held
    BY <1>7, TurnRewrites DEF StartTurn, GrokStart, ClaudeStart, Commit, memory
  <1>8. ASSUME NEW t \in Task, NEW i \in Input, SubmitInput(t, i)
        PROVE  (Rewritten(t) \/ UNCHANGED <<task, hist>>) /\ held' = held
    <2>1. held' = held
      BY <1>8 DEF SubmitInput, GrokSubmit, ClaudeSubmit, CodexSubmit,
         CommitWithMessage, memory
    <2> QED
      BY <1>8, <2>1, SubmitRewrites
  <1>9. ASSUME NEW i \in Input,
               \/ SendMessage(i) \/ ClaimMail(i) \/ MarkSent(i)
               \/ \E t \in Task : PrepareInput(t, i)
        PROVE  UNCHANGED <<task, hist>> /\ held' = held
    <2>1. ASSUME NEW m, EnqueueMessage(m) PROVE UNCHANGED <<task, hist>>
      BY <2>1 DEF EnqueueMessage
    <2>2. CASE SendMessage(i)
      <3>1. PICK m : EnqueueMessage(m) /\ UNCHANGED memory
        BY <2>2, Zenon DEF SendMessage
      <3> QED
        BY <2>1, <3>1 DEF memory
    <2>3. CASE \E t \in Task : PrepareInput(t, i)
      <3>1. PICK m : EnqueueMessage(m) /\ UNCHANGED memory
        BY <2>3, Zenon DEF PrepareInput
      <3> QED
        BY <2>1, <3>1 DEF memory
    <2>4. CASE ClaimMail(i)
      BY <2>4 DEF ClaimMail, ClaimParentHistoryMessage, ClaimManagedMessage, Move, memory
    <2>5. CASE MarkSent(i)
      BY <2>5 DEF MarkSent, AcknowledgeMessage, SettleMessage, Move, memory
    <2> QED
      BY <1>9, <2>2, <2>3, <2>4, <2>5
  <1>10. ASSUME NEW i \in MessageId, LinkMail(i)
         PROVE  msg[i].to \in Task /\ Rewritten(msg[i].to) /\ held' = held
    <2>1. msg[i].to \in Task
      BY <1>10 DEF LinkMail, LedgerInv, TypeOK, Message
    <2> QED
      BY <1>10, <2>1, LinkRewrites DEF LinkMail, GrokLink, ClaudeLink, Commit, memory
  <1>11. ASSUME NEW i \in MessageId,
                \/ DeliverResult(i) \/ RecordInHistory(i)
                \/ SettleSent(i, "acknowledged") \/ SettleSent(i, "failed")
         PROVE  UNCHANGED <<task, hist>> /\ held' = held
    <2>1. CASE DeliverResult(i)
      BY <2>1 DEF DeliverResult, ClaimTaskResult, Move, memory
    <2>2. CASE RecordInHistory(i)
      BY <2>2 DEF RecordInHistory, AcknowledgeApplicationHistory, SettleMessage, Move, memory
    <2>3. CASE SettleSent(i, "acknowledged") \/ SettleSent(i, "failed")
      BY <2>3 DEF SettleSent, AcknowledgeMessage, SettleMessage, Move, memory
    <2> QED
      BY <1>11, <2>1, <2>2, <2>3
  <1> QED
    BY <1>1, <1>2, <1>3, <1>4, <1>5, <1>6, <1>7, <1>8, <1>9, <1>10, <1>11
    DEF ClientNext

-----------------------------------------------------------------------------
(* What clients know is the past of the ledger *)

\* Every row some client or the history keeps for t.
RowsOf(t) == ({hist[t][g] : g \in Generation} \cup {held[t]}) \ {None}

\* A row a client keeps is the present one or an earlier revision of its task.
HeldIsPast ==
    \A t \in Task :
       held[t] # None =>
          /\ task[t] # None
          /\ \/ held[t] = task[t]
             \/ held[t].gen < task[t].gen
             \/ held[t].gen = task[t].gen /\ held[t].rev < task[t].rev

\* Only the application's history takes the place of a native receipt.
NativeReceipts ==
    \A i \in MessageId :
       msg[i] # None /\ msg[i].state = "acknowledged" /\ Harness[msg[i].to] # "oz"
       => msg[i].receipt = "native_protocol"

\* Every step of a client is a ledger step and keeps its invariant.
LEMMA ClientTakesNext ==
    ASSUME LedgerInv, [ClientNext]_vars
    PROVE  [Next]_ledger /\ LedgerInv'
  BY ClientStep, NextInv DEF Posting, Next

\* A held row is one that was stored.
LEMMA KnownRowsStep ==
    ASSUME LedgerInv, KnownRows, IdsMatch, [ClientNext]_vars
    PROVE  KnownRows'
  BY RowsStep DEF KnownRows, LedgerInv, TypeOK

\* No step of a client changes what a message is about.
LEMMA LettersStay ==
    ASSUME LedgerInv, [ClientNext]_vars, NEW i \in MessageId, msg[i] # None
    PROVE  SameLetter(msg[i], msg'[i])
  <1>1. CASE UNCHANGED ledger
    BY <1>1 DEF ledger, SameLetter
  <1>2. ASSUME NEW j \in MessageId, NEW from, NEW to \in MessageState,
               MovesLetter(j, from, to), <<from, to>> \in Delivery
        PROVE  SameLetter(msg[i], msg'[i])
    <2>1. PICK receipt \in Receipt \cup {None} : Move(j, to, receipt)
      BY <1>2 DEF MovesLetter
    <2>2. msg[i] \in Message
      BY DEF LedgerInv, TypeOK
    <2>3. CASE i = j
      <3>1. msg'[i] = [msg[i] EXCEPT !.state = to, !.receipt = receipt]
        BY <2>1, <2>3 DEF Move, LedgerInv, TypeOK
      <3>2. msg'[i] \in Message /\ msg[i].state # "acknowledged"
        BY <1>2, <2>1, <2>2, <2>3, <3>1 DEF Message, MovesLetter, Delivery
      <3> QED
        BY <2>2, <3>1, <3>2, NoneAssumption DEF SameLetter, Message
    <2>4. CASE i # j
      <3>1. msg'[i] = msg[i]
        BY <2>1, <2>4 DEF Move, LedgerInv, TypeOK
      <3> QED
        BY <3>1 DEF SameLetter
    <2> QED
      BY <2>3, <2>4
  <1> QED
    BY <1>1, <1>2, ClientStep, PostingKeepsLetters

\* A new message is kept under its own id.
LEMMA NewLettersMatch ==
    ASSUME LedgerInv, Posting, NEW i \in MessageId, msg[i] = None, msg'[i] # None
    PROVE  msg'[i].id = i
  <1>1. ASSUME NEW t \in Task, NEW new \in Row, NEW expected,
               CheckpointTask(t, new, expected)
        PROVE  FALSE
    BY <1>1 DEF CheckpointTask, MailAfter
  <1>2. ASSUME NEW M \in [MessageId -> Message \cup {None}], NEW m \in Message,
               M[i] = None, msg' = WithMessage(M, m)
        PROVE  msg'[i].id = i
    BY <1>2 DEF WithMessage, Message
  <1>3. ASSUME NEW t \in Task, NEW new \in Row, NEW expected, NEW m \in Message,
               CheckpointTaskWithMessage(t, new, expected, m)
        PROVE  msg'[i].id = i
    <2> DEFINE M == IF Repeats(t, new) THEN msg
                    ELSE MailAfter(StoredRuns(t, new), t, task[t], new)
    <2>1. M \in [MessageId -> Message \cup {None}]
      BY MailAfterType DEF LedgerInv, TypeOK
    <2>2. M[i] = None
      BY DEF MailAfter
    <2>3. msg' = WithMessage(M, m)
      BY <1>3 DEF CheckpointTaskWithMessage
    <2> HIDE DEF M
    <2> QED
      BY <1>2, <2>1, <2>2, <2>3
  <1>4. ASSUME NEW m \in Message, EnqueueMessage(m)
        PROVE  msg'[i].id = i
    BY <1>2, <1>4 DEF EnqueueMessage, LedgerInv, TypeOK
  <1>5. ASSUME NEW t \in Task, EnqueueTaskResult(t)
        PROVE  msg'[i].id = i
    <2> DEFINE m == ResultMessage(t, task[t])
               minted == [m EXCEPT !.state = MintedState(m)]
    <2>1. m \in Message /\ msg' = [msg EXCEPT ![m.id] = minted]
      BY <1>5, ResultMessageType DEF EnqueueTaskResult
    <2> HIDE DEF m
    <2>2. minted.id = m.id
      BY <2>1 DEF Message
    <2> HIDE DEF minted
    <2> QED
      BY <2>1, <2>2 DEF LedgerInv, TypeOK
  <1> QED
    BY <1>1, <1>3, <1>4, <1>5 DEF Posting, RecoverTasks

\* A new message was posted, under its own id.
LEMMA NewLetterIsPosted ==
    ASSUME LedgerInv, [ClientNext]_vars, NEW i \in MessageId,
           msg[i] = None, msg'[i] # None
    PROVE  /\ Posting /\ msg'[i].id = i
           /\ msg'[i].state \in {"queued", "cancelled"}
  <1>1. ASSUME NEW j \in MessageId, NEW from, NEW to, MovesLetter(j, from, to)
        PROVE  FALSE
    BY <1>1 DEF MovesLetter, Move, LedgerInv, TypeOK
  <1>2. Posting
    BY <1>1, ClientStep DEF ledger
  <1> QED
    BY <1>2, NewLettersMatch, PostingPosts DEF PostedOrWithdrawn

\* Messages stay under their own ids.
LEMMA IdsMatchStep ==
    ASSUME LedgerInv, IdsMatch, [ClientNext]_vars
    PROVE  IdsMatch'
  <1> SUFFICES ASSUME NEW i \in MessageId, msg'[i] # None
               PROVE  msg'[i].id = i
    BY DEF IdsMatch
  <1> QED
    BY LettersStay, NewLetterIsPosted DEF IdsMatch, SameLetter

\* Nothing is acknowledged but by an answer to what was sent.
LEMMA AcknowledgedByAnswer ==
    ASSUME LedgerInv, [ClientNext]_vars, NEW i \in MessageId,
           msg[i] # None, msg[i].state # "acknowledged", msg'[i].state = "acknowledged"
    PROVE  msg[i].state = "sent"
  <1>1. ~PostedOrWithdrawn(i)
    BY DEF PostedOrWithdrawn, LedgerInv, TypeOK, Message
  <1>2. ASSUME NEW j \in MessageId, NEW from, NEW to \in MessageState,
               MovesLetter(j, from, to), <<from, to>> \in Delivery
        PROVE  msg[i].state = "sent"
    BY <1>2 DEF MovesLetter, Move, Delivery, LedgerInv, TypeOK, Message
  <1> QED
    BY <1>1, <1>2, ClientStep, PostingPosts DEF ledger

\* No history takes the place of a native receipt.
LEMMA NativeReceiptsStep ==
    ASSUME LedgerInv, NativeReceipts, [ClientNext]_vars
    PROVE  NativeReceipts'
  <1> SUFFICES ASSUME NEW i \in MessageId, msg'[i] # None,
                      msg'[i].state = "acknowledged", Harness[msg'[i].to] # "oz"
               PROVE  msg'[i].receipt = "native_protocol"
    BY DEF NativeReceipts
  <1>1. msg[i] # None /\ SameLetter(msg[i], msg'[i])
    BY NewLetterIsPosted, LettersStay
  <1>2. CASE msg[i].state = "acknowledged"
    BY <1>1, <1>2 DEF SameLetter, NativeReceipts
  <1>3. CASE msg[i].state # "acknowledged"
    <2>1. msg[i].state = "sent"
      BY <1>1, <1>3, AcknowledgedByAnswer
    <2>2. \/ \E state \in MessageState \ {"queued"} : AcknowledgeMessage(i, state)
          \/ AcknowledgeApplicationHistory(i)
      BY <1>1, <2>1, SentEndsBySettling
    <2>3. ~AcknowledgeApplicationHistory(i)
      BY <1>1 DEF AcknowledgeApplicationHistory, SettleMessage, SameLetter
    <2>4. PICK state \in MessageState : AcknowledgeMessage(i, state)
      BY <2>2, <2>3
    <2>5. msg'[i] = [msg[i] EXCEPT !.state = state,
             !.receipt = IF state = "acknowledged" THEN "native_protocol" ELSE None]
      BY <2>4 DEF AcknowledgeMessage, SettleMessage, Move, LedgerInv, TypeOK
    <2> QED
      BY <1>1, <2>5 DEF LedgerInv, TypeOK, Message
  <1> QED
    BY <1>2, <1>3

\* A held row only falls further behind.
LEMMA HeldIsPastStep ==
    ASSUME LedgerInv, KnownRows, IdsMatch, HeldIsPast, [ClientNext]_vars
    PROVE  HeldIsPast'
  <1> SUFFICES ASSUME NEW t \in Task, held'[t] # None
               PROVE  /\ task'[t] # None
                      /\ \/ held'[t] = task'[t]
                         \/ held'[t].gen < task'[t].gen
                         \/ held'[t].gen = task'[t].gen /\ held'[t].rev < task'[t].rev
    BY DEF HeldIsPast
  <1>1. [Next]_ledger /\ LedgerInv'
    BY ClientTakesNext
  <1>2. CASE held'[t] = held[t]
    <2>1. /\ task[t] # None /\ held[t] \in Row /\ task[t] \in Row
          /\ \/ held[t] = task[t]
             \/ held[t].gen < task[t].gen
             \/ held[t].gen = task[t].gen /\ held[t].rev < task[t].rev
      BY <1>2 DEF HeldIsPast, KnownRows, LedgerInv, TypeOK
    <2>2. task'[t] # None
      <3>1. task[t].gen \in Generation
        BY <2>1 DEF Row
      <3>2. hist[t][task[t].gen] # None
        BY <2>1, <3>1 DEF LedgerInv, HistoryMirrorsCurrent
      <3>3. hist'[t][task[t].gen] # None
        BY <1>1, <3>1, <3>2, StepKeepsRun
      <3> QED
        BY <1>1, <3>1, <3>3 DEF LedgerInv, HistoryMirrorsCurrent
    <2>3. \/ task'[t] = task[t]
          \/ task'[t].gen = task[t].gen /\ task'[t].rev = task[t].rev + 1
          \/ task'[t].gen = task[t].gen + 1
      BY <1>1, <2>1, StepAdvances DEF Advances
    <2>4. /\ held[t].gen \in Nat /\ held[t].rev \in Nat
          /\ task[t].gen \in Nat /\ task[t].rev \in Nat
      BY <2>1 DEF Row, Generation, Revision
    <2> QED
      BY <1>2, <2>1, <2>2, <2>3, <2>4
  <1>3. CASE held'[t] # held[t]
    BY <1>3, RowsStep DEF KnownRows
  <1> QED
    BY <1>2, <1>3

-----------------------------------------------------------------------------
(* The queue of a row, entry by entry *)

\* Removing the k-th entry of a queue moves the later ones up.
LEMMA Removed ==
    ASSUME NEW S, NEW s \in Seq(S), NEW k \in 1 .. Len(s)
    PROVE  LET r == SubSeq(s, 1, k - 1) \o SubSeq(s, k + 1, Len(s)) IN
           /\ r \in Seq(S) /\ Len(r) = Len(s) - 1
           /\ \A j \in 1 .. Len(r) : r[j] = s[IF j < k THEN j ELSE j + 1]
  <1> DEFINE a == SubSeq(s, 1, k - 1)
             b == SubSeq(s, k + 1, Len(s))
             r == a \o b
  <1>1. Len(s) \in Nat
    OBVIOUS
  <1>2. /\ a \in Seq(S) /\ Len(a) = k - 1
        /\ \A j \in 1 .. Len(a) : a[j] = s[j]
    OBVIOUS
  <1>3. /\ b \in Seq(S) /\ Len(b) = Len(s) - k
        /\ \A j \in 1 .. Len(b) : b[j] = s[k + j]
    OBVIOUS
  <1> HIDE DEF a, b
  <1>4. /\ r \in Seq(S) /\ Len(r) = Len(a) + Len(b)
        /\ \A j \in 1 .. Len(a) + Len(b) :
              r[j] = IF j <= Len(a) THEN a[j] ELSE b[j - Len(a)]
    BY <1>2, <1>3, ConcatProperties
  <1>5. Len(r) = Len(s) - 1
    BY <1>1, <1>2, <1>3, <1>4
  <1> HIDE DEF r
  <1>6. ASSUME NEW j \in 1 .. Len(r)
        PROVE  r[j] = s[IF j < k THEN j ELSE j + 1]
    <2>1. r[j] = IF j <= k - 1 THEN a[j] ELSE b[j - (k - 1)]
      BY <1>2, <1>3, <1>4, <1>6
    <2>2. CASE j < k
      <3>1. j \in 1 .. k - 1
        BY <1>1, <1>5, <1>6, <2>2
      <3> QED
        BY <1>2, <2>1, <2>2, <3>1
    <2>3. CASE ~(j < k)
      <3>1. j - (k - 1) \in 1 .. Len(s) - k /\ k + (j - (k - 1)) = j + 1 /\ ~(j <= k - 1)
        BY <1>1, <1>5, <1>6, <2>3
      <3> QED
        BY <1>3, <2>1, <2>3, <3>1
    <2> QED
      BY <2>2, <2>3
  <1> QED
    BY <1>4, <1>5, <1>6 DEF r, a, b

\* A queue that lost the entry at k.
WithoutEntry(s, r, k) ==
    /\ k \in 1 .. Len(s) /\ Len(r) = Len(s) - 1
    /\ \A j \in 1 .. Len(r) : r[j] = s[IF j < k THEN j ELSE j + 1]

\* DropInput removes one entry.
LEMMA EntryRemoved ==
    ASSUME NEW S, NEW s \in Seq(S), NEW k \in 1 .. Len(s), NEW r,
           r = SubSeq(s, 1, k - 1) \o SubSeq(s, k + 1, Len(s))
    PROVE  WithoutEntry(s, r, k)
  <1>1. Len(r) = Len(s) - 1
    BY Removed
  <1>2. \A j \in 1 .. Len(r) : r[j] = s[IF j < k THEN j ELSE j + 1]
    BY Removed
  <1> QED
    BY <1>1, <1>2 DEF WithoutEntry

\* TurnStarted removes the first.
LEMMA HeadRemoved ==
    ASSUME NEW S, NEW s \in Seq(S), s # <<>>
    PROVE  WithoutEntry(s, Tail(s), 1)
  BY DEF WithoutEntry

\* A queue after a rewrite, entry by entry: an old one, or a new link.
LEMMA PendingOrigin ==
    ASSUME NEW t \in Task, NEW old \in Row, NEW new \in Row, Builds(t, old, new),
           NEW k \in 1 .. Len(new.pending)
    PROVE  \/ \E j \in 1 .. Len(old.pending) : new.pending[k].id = old.pending[j].id
           \/ msg'[new.pending[k].id] # None /\ msg'[new.pending[k].id].to = t
  <1>1. old.pending \in Seq(Link) /\ new.pending \in Seq(Link) /\ k \in Nat
    BY DEF Row
  <1>2. CASE StartsProcess(t, old, new)
    BY <1>2 DEF StartsProcess
  <1>3. CASE KeepsInputs(old, new)
    BY <1>3 DEF KeepsInputs
  <1>4. CASE AddsInput(t, old, new)
    BY <1>1, <1>4 DEF AddsInput
  <1>5. CASE RecordsTurn(old, new)
    <2>1. PICK n \in Turn : /\ old.pending # <<>>
                            /\ new.pending = [old.pending EXCEPT ![1].turn = n]
      BY <1>5 DEF RecordsTurn
    <2>2. k \in 1 .. Len(old.pending)
      BY <1>1, <2>1
    <2>3. old.pending[k] \in Link
      BY <1>1, <2>2
    <2>4. new.pending[k].id = old.pending[k].id
      BY <1>1, <2>1, <2>2, <2>3 DEF Link
    <2> QED
      BY <2>2, <2>4
  <1>6. ASSUME NEW j \in 1 .. Len(old.pending),
               WithoutEntry(old.pending, new.pending, j)
        PROVE  \E i \in 1 .. Len(old.pending) : new.pending[k].id = old.pending[i].id
    <2> DEFINE i == IF k < j THEN k ELSE k + 1
    <2>1. Len(old.pending) \in Nat /\ Len(new.pending) = Len(old.pending) - 1
      BY <1>1, <1>6 DEF WithoutEntry
    <2>2. i \in 1 .. Len(old.pending)
      BY <1>1, <2>1
    <2>3. new.pending[k] = old.pending[i]
      BY <1>6 DEF WithoutEntry
    <2> QED
      BY <2>2, <2>3
  <1>7. CASE OpensTurn(t, old, new)
    BY <1>1, <1>6, <1>7, HeadRemoved DEF OpensTurn
  <1>8. CASE LosesInput(t, old, new)
    <2>1. CASE new.pending = <<>>
      BY <1>1, <2>1
    <2>2. CASE new.pending # <<>>
      <3>1. PICK j \in 1 .. Len(old.pending) :
              new.pending = SubSeq(old.pending, 1, j - 1)
                               \o SubSeq(old.pending, j + 1, Len(old.pending))
        BY <1>8, <2>2 DEF LosesInput
      <3>2. WithoutEntry(old.pending, new.pending, j)
        BY <1>1, <3>1, EntryRemoved
      <3> QED
        BY <1>6, <3>2
    <2> QED
      BY <2>1, <2>2
  <1> QED
    BY <1>2, <1>3, <1>4, <1>5, <1>7, <1>8 DEF Builds

\* The input that drives a run after a rewrite: the old one, or a received head.
LEMMA CurrentOrigin ==
    ASSUME NEW t \in Task, NEW old \in Row, NEW new \in Row, Builds(t, old, new),
           new.current # None
    PROVE  \/ old.current # None /\ new.current.id = old.current.id
           \/ /\ old.pending # <<>> /\ new.current = old.pending[1]
              /\ Received(new.current.id)
              /\ Harness[t] \in {"grok", "claude"}
  <1>1. CASE OpensTurn(t, old, new)
    BY <1>1 DEF OpensTurn
  <1>2. CASE AddsInput(t, old, new)
    BY <1>2 DEF AddsInput, WithoutMail, Row, Link
  <1> QED
    BY <1>1, <1>2 DEF Builds, StartsProcess, KeepsInputs, RecordsTurn, LosesInput

\* Two links of one queue are of different messages and native turns.
Apart(k, l) == k.id # l.id /\ (k.turn # None => k.turn # l.turn)

\* A link of the row's process, for the row's run or an earlier one.
OfRow(row, l) == l.runtime = row.runtime /\ l.sgen <= row.gen

\* The queue of a grok row, entry by entry.
Readable(row) ==
    /\ Fits(row)
    /\ \A k \in 1 .. Len(row.pending) : OfRow(row, row.pending[k])
    /\ \A k, l \in 1 .. Len(row.pending) : k # l => Apart(row.pending[k], row.pending[l])
    /\ row.current # None =>
          /\ row.current.turn # None /\ OfRow(row, row.current)
          /\ \A k \in 1 .. Len(row.pending) : Apart(row.pending[k], row.current)

\* The links of a row lead to messages addressed to its task.
LinksLead(M, t, row) ==
    \A k \in 1 .. Len(row.pending) :
       M[row.pending[k].id] # None /\ M[row.pending[k].id].to = t

\* The native process confirmed the message.
Receipted(m) == m # None /\ m.state = "acknowledged" /\ m.receipt = "native_protocol"

\* The input that drives a run was received.
DriverReceived(M, row) == row.current # None => Receipted(M[row.current.id])

\* The entries of a queue are links.
LEMMA QueueType ==
    ASSUME NEW row \in Row
    PROVE  /\ row.pending \in Seq(Link) /\ Len(row.pending) \in Nat
           /\ \A k \in 1 .. Len(row.pending) :
                 row.pending[k] \in Link /\ row.pending[k].sgen \in Nat
           /\ row.gen \in Nat
           /\ row.current # None => row.current \in Link /\ row.current.sgen \in Nat
  <1>1. row.pending \in Seq(Link) /\ row.gen \in Generation
        /\ row.current \in Link \cup {None}
    BY DEF Row
  <1> HIDE DEF Row
  <1>2. \A l \in Link : l.sgen \in Nat
    BY DEF Link, Generation
  <1> QED
    BY <1>1, <1>2 DEF Generation

\* A link stays one of the row when its run or a later one is written.
LEMMA StaysOfRow ==
    ASSUME NEW old \in Row, NEW new \in Row, Succeeds(old, new),
           new.runtime = old.runtime,
           NEW l, l.sgen \in Nat, OfRow(old, l)
    PROVE  OfRow(new, l)
  <1>1. old.gen \in Nat /\ (new.gen = old.gen \/ new.gen = old.gen + 1)
    BY QueueType DEF Succeeds
  <1> QED
    BY <1>1 DEF OfRow

\* A queue stays readable when it loses an entry.
LEMMA RemovalReadable ==
    ASSUME NEW old \in Row, NEW new \in Row, Succeeds(old, new), Readable(old),
           new.runtime = old.runtime,
           NEW k, WithoutEntry(old.pending, new.pending, k)
    PROVE  /\ Len(new.pending) = Len(old.pending) - 1
           /\ \A i \in 1 .. Len(new.pending) : OfRow(new, new.pending[i])
           /\ \A i, j \in 1 .. Len(new.pending) :
                 i # j => Apart(new.pending[i], new.pending[j])
           /\ \A i \in 1 .. Len(new.pending) :
                 /\ \E j \in 1 .. Len(old.pending) : new.pending[i] = old.pending[j]
                 /\ k = 1 => Apart(new.pending[i], old.pending[1])
  <1> DEFINE from(i) == IF i < k THEN i ELSE i + 1
  <1>1. /\ Len(old.pending) \in Nat /\ k \in 1 .. Len(old.pending)
        /\ Len(new.pending) = Len(old.pending) - 1
    BY QueueType DEF WithoutEntry
  <1>2. \A i \in 1 .. Len(new.pending) :
           from(i) \in 1 .. Len(old.pending) /\ new.pending[i] = old.pending[from(i)]
    BY <1>1 DEF WithoutEntry
  <1>3. \A i, j \in 1 .. Len(new.pending) : i # j => from(i) # from(j)
    BY <1>1
  <1>4. \A i \in 1 .. Len(new.pending) : k = 1 => from(i) # 1
    BY <1>1
  <1> HIDE DEF from
  <1>5. \A i \in 1 .. Len(new.pending) : OfRow(new, new.pending[i])
    BY <1>2, QueueType, StaysOfRow DEF Readable
  <1>6. ASSUME NEW i \in 1 .. Len(new.pending), k = 1
        PROVE  Apart(new.pending[i], old.pending[1])
    <2>1. from(i) \in 1 .. Len(old.pending) /\ 1 \in 1 .. Len(old.pending) /\ from(i) # 1
      BY <1>1, <1>2, <1>4, <1>6
    <2> QED
      BY <1>2, <2>1 DEF Readable
  <1> QED
    BY <1>1, <1>2, <1>3, <1>5, <1>6 DEF Readable

\* A shorter queue leaves room for the current input.
LEMMA ShorterFits ==
    ASSUME NEW old \in Row, NEW new \in Row, Fits(old),
           Len(new.pending) = Len(old.pending) - 1
    PROVE  Fits(new)
  <1> DEFINE n == Len(old.pending)
             c(row) == IF row.current = None THEN 0 ELSE 1
  <1>1. n \in Nat /\ c(old) \in {0, 1} /\ c(new) \in {0, 1}
    BY QueueType
  <1>2. n + c(old) <= LinkLimit
    BY DEF Fits
  <1> HIDE DEF c
  <1>3. n - 1 + c(new) <= LinkLimit
    <2> HIDE DEF n
    <2> QED
      BY <1>1, <1>2, LimitsAssumption
  <1> QED
    BY <1>3 DEF Fits, c

\* The queue is readable for the next revision and the next run.
LEMMA KeptReadable ==
    ASSUME NEW old \in Row, NEW new \in Row, Succeeds(old, new), Readable(old),
           new.runtime = old.runtime, KeepsInputs(old, new)
    PROVE  Readable(new)
  BY QueueType, StaysOfRow DEF KeepsInputs, Readable, Fits

\* An input appended is apart from those that wait and the one that runs.
LEMMA AddedReadable ==
    ASSUME NEW t \in Task, Harness[t] = "grok", NEW old \in Row, NEW new \in Row,
           Succeeds(old, new), Readable(old), new.runtime = old.runtime,
           LinksLead(msg, t, old), DriverReceived(msg, old), AddsInput(t, old, new)
    PROVE  Readable(new)
  <1>1. PICK link \in Link :
           /\ new.pending = Append(old.pending, link)
           /\ link.turn = None
           /\ new.current \in {old.current, None}
           /\ link.runtime = old.runtime /\ link.sgen <= new.gen /\ Fits(new)
           /\ msg[link.id] = None \/ \A l \in LinksOf(old) : l.id # link.id
    BY DEF AddsInput
  <1> DEFINE n == Len(old.pending)
  <1>2. /\ n \in Nat /\ Len(new.pending) = n + 1 /\ new.pending[n + 1] = link
        /\ \A k \in 1 .. n : new.pending[k] = old.pending[k]
    BY <1>1, QueueType
  <1>3. \A k \in 1 .. n : old.pending[k].id # link.id
    BY <1>1 DEF LinksLead, LinksOf
  <1>4. old.current # None => old.current.id # link.id
    BY <1>1 DEF DriverReceived, Receipted, LinksOf
  <1>5. \A k \in 1 .. n + 1 : k \in 1 .. n \/ k = n + 1
    BY <1>2
  <1> HIDE DEF n
  <1>6. \A k \in 1 .. n : OfRow(new, old.pending[k])
    BY QueueType, StaysOfRow DEF Readable, n
  <1>7. OfRow(new, link)
    BY <1>1 DEF OfRow
  <1>8. \A k \in 1 .. Len(new.pending) : OfRow(new, new.pending[k])
    BY <1>2, <1>5, <1>6, <1>7
  <1>9. ASSUME NEW k \in 1 .. n + 1, NEW l \in 1 .. n + 1, k # l
        PROVE  Apart(new.pending[k], new.pending[l])
    <2>1. CASE k \in 1 .. n /\ l \in 1 .. n
      BY <1>2, <1>9, <2>1 DEF Readable, n
    <2>2. CASE k = n + 1 /\ l \in 1 .. n
      BY <1>1, <1>2, <1>3, <2>2 DEF Apart
    <2>3. CASE k \in 1 .. n /\ l = n + 1
      BY <1>1, <1>2, <1>3, <2>3 DEF Apart
    <2> QED
      BY <1>5, <1>9, <2>1, <2>2, <2>3
  <1>10. ASSUME new.current # None
         PROVE  /\ new.current.turn # None /\ OfRow(new, new.current)
                /\ \A k \in 1 .. Len(new.pending) : Apart(new.pending[k], new.current)
    <2>1. new.current = old.current /\ old.current # None
      BY <1>1, <1>10
    <2>2. new.current.turn # None /\ OfRow(new, new.current)
      BY <2>1, QueueType, StaysOfRow DEF Readable
    <2>3. Apart(link, new.current)
      BY <1>1, <1>4, <2>1 DEF Apart
    <2>4. \A k \in 1 .. n : Apart(old.pending[k], new.current)
      BY <2>1 DEF Readable, n
    <2> QED
      BY <1>2, <1>5, <2>2, <2>3, <2>4
  <1> QED
    BY <1>1, <1>2, <1>8, <1>9, <1>10 DEF Readable

\* The native turn recorded at the head is a fresh one.
LEMMA RecordedReadable ==
    ASSUME NEW old \in Row, NEW new \in Row, Succeeds(old, new), Readable(old),
           new.runtime = old.runtime, RecordsTurn(old, new)
    PROVE  Readable(new)
  <1>1. PICK n \in Turn :
           /\ old.pending # <<>> /\ FreshTurn(old, n)
           /\ new.pending = [old.pending EXCEPT ![1].turn = n]
           /\ new.current = old.current
    BY DEF RecordsTurn
  <1>2. /\ Len(new.pending) = Len(old.pending) /\ 1 \in 1 .. Len(old.pending)
        /\ \A k \in 1 .. Len(old.pending) : k # 1 => new.pending[k] = old.pending[k]
        /\ new.pending[1] = [old.pending[1] EXCEPT !.turn = n]
    BY <1>1, QueueType
  <1>3. /\ new.pending[1].id = old.pending[1].id /\ new.pending[1].turn = n
        /\ new.pending[1].sgen = old.pending[1].sgen
        /\ new.pending[1].runtime = old.pending[1].runtime
    BY <1>2, QueueType DEF Link
  <1>4. /\ \A k \in 1 .. Len(old.pending) : old.pending[k].turn # n
        /\ old.current # None => old.current.turn # n
    BY <1>1 DEF FreshTurn, LinksOf
  <1>5. \A k \in 1 .. Len(new.pending) : OfRow(new, new.pending[k])
    <2>1. \A k \in 1 .. Len(old.pending) : OfRow(new, old.pending[k])
      BY QueueType, StaysOfRow DEF Readable
    <2> QED
      BY <1>2, <1>3, <2>1 DEF OfRow
  <1>6. ASSUME NEW k \in 1 .. Len(new.pending), NEW l \in 1 .. Len(new.pending), k # l
        PROVE  Apart(new.pending[k], new.pending[l])
    <2>1. Apart(old.pending[k], old.pending[l])
      BY <1>2, <1>6 DEF Readable
    <2>2. CASE k = 1
      <3>1. new.pending[l] = old.pending[l] /\ old.pending[l].turn # n
        BY <1>2, <1>4, <1>6, <2>2
      <3>2. new.pending[k].id = old.pending[k].id /\ new.pending[k].turn = n
        BY <1>3, <2>2
      <3> QED
        BY <2>1, <3>1, <3>2 DEF Apart
    <2>3. CASE l = 1
      <3>1. new.pending[k] = old.pending[k] /\ old.pending[k].turn # n
        BY <1>2, <1>4, <1>6, <2>3
      <3>2. new.pending[l].id = old.pending[l].id /\ new.pending[l].turn = n
        BY <1>3, <2>3
      <3> QED
        BY <2>1, <3>1, <3>2 DEF Apart
    <2>4. CASE k # 1 /\ l # 1
      BY <1>2, <2>1, <2>4
    <2> QED
      BY <2>2, <2>3, <2>4
  <1>7. new.current # None =>
           /\ new.current.turn # None /\ OfRow(new, new.current)
           /\ \A k \in 1 .. Len(new.pending) : Apart(new.pending[k], new.current)
    BY <1>1, <1>2, <1>3, <1>4, QueueType, StaysOfRow DEF Readable, Apart
  <1>8. Fits(new)
    BY <1>1, <1>2 DEF Readable, Fits
  <1> QED
    BY <1>5, <1>6, <1>7, <1>8 DEF Readable

\* The head moves from the queue to the current input.
LEMMA OpenedReadable ==
    ASSUME NEW t \in Task, Harness[t] = "grok", NEW old \in Row, NEW new \in Row,
           Succeeds(old, new), Readable(old), new.runtime = old.runtime,
           OpensTurn(t, old, new)
    PROVE  Readable(new)
  <1>1. /\ old.pending # <<>> /\ new.current = old.pending[1]
        /\ new.current.turn # None /\ new.pending = Tail(old.pending)
    BY DEF OpensTurn
  <1>2. WithoutEntry(old.pending, new.pending, 1)
    BY <1>1, QueueType, HeadRemoved
  <1>3. OfRow(new, new.current)
    <2>1. 1 \in 1 .. Len(old.pending)
      BY <1>1, QueueType
    <2> QED
      BY <1>1, <2>1, QueueType, StaysOfRow DEF Readable
  <1>4. Fits(new)
    BY <1>2, RemovalReadable, ShorterFits DEF Readable
  <1> QED
    BY <1>1, <1>2, <1>3, <1>4, RemovalReadable DEF Readable

\* A settled input leaves the others readable.
LEMMA LostReadable ==
    ASSUME NEW t \in Task, Harness[t] = "grok", NEW old \in Row, NEW new \in Row,
           Succeeds(old, new), Readable(old), new.runtime = old.runtime,
           LosesInput(t, old, new)
    PROVE  Readable(new)
  <1>1. PICK k \in 1 .. Len(old.pending) :
           new.pending = SubSeq(old.pending, 1, k - 1)
                            \o SubSeq(old.pending, k + 1, Len(old.pending))
    BY DEF LosesInput
  <1>2. WithoutEntry(old.pending, new.pending, k)
    <2>1. old.pending \in Seq(Link)
      BY QueueType
    <2> QED
      BY <1>1, <2>1, EntryRemoved
  <1>3. new.current = old.current
    BY DEF LosesInput
  <1>4. Fits(new)
    BY <1>2, RemovalReadable, ShorterFits DEF Readable
  <1>5. ASSUME new.current # None
        PROVE  /\ new.current.turn # None /\ OfRow(new, new.current)
               /\ \A i \in 1 .. Len(new.pending) : Apart(new.pending[i], new.current)
    <2>1. new.current.turn # None /\ OfRow(new, new.current)
      BY <1>3, <1>5, QueueType, StaysOfRow DEF Readable
    <2>2. \A j \in 1 .. Len(old.pending) : Apart(old.pending[j], new.current)
      BY <1>3, <1>5 DEF Readable
    <2>3. \A i \in 1 .. Len(new.pending) :
             \E j \in 1 .. Len(old.pending) : new.pending[i] = old.pending[j]
      BY <1>2, RemovalReadable
    <2> QED
      BY <2>1, <2>2, <2>3
  <1> QED
    BY <1>2, <1>4, <1>5, RemovalReadable DEF Readable

\* A row built from a readable one is readable.
LEMMA BuiltReadable ==
    ASSUME NEW t \in Task, Harness[t] = "grok", NEW old \in Row, NEW new \in Row,
           Succeeds(old, new), Builds(t, old, new), Readable(old),
           LinksLead(msg, t, old), DriverReceived(msg, old)
    PROVE  Readable(new)
  <1>1. CASE StartsProcess(t, old, new)
    BY <1>1, LimitsAssumption DEF StartsProcess, Readable, Fits
  <1> QED
    BY <1>1, KeptReadable, AddedReadable, RecordedReadable, OpenedReadable,
       LostReadable DEF Builds

\* A restored row keeps its inputs and its process.
LEMMA InterruptedBuilds ==
    ASSUME NEW t \in Task, NEW row \in Row, row.rev < MaxRev
    PROVE  /\ Interrupted(row) \in Row
           /\ Succeeds(row, Interrupted(row)) /\ Builds(t, row, Interrupted(row))
  <1>1. /\ Interrupted(row).pending = row.pending
        /\ Interrupted(row).current = row.current
        /\ Interrupted(row).runtime = row.runtime
    BY DEF Interrupted, Row
  <1> QED
    BY <1>1, InterruptedRow DEF Succeeds, Builds, KeepsInputs

\* What a client knows of a task is among the rows kept for it.
LEMMA KnownIsKept ==
    ASSUME LedgerInv, KnownRows, NEW t \in Task
    PROVE  /\ Known(t) \subseteq RowsOf(t)
           /\ RowsOf(t) \subseteq Row
  <1>1. ASSUME task[t] # None
        PROVE  task[t] \in RowsOf(t)
    <2>1. task[t].gen \in Generation
      BY <1>1 DEF LedgerInv, TypeOK, Row
    <2>2. hist[t][task[t].gen] = task[t]
      BY <1>1, <2>1 DEF LedgerInv, HistoryMirrorsCurrent
    <2> QED
      BY <1>1, <2>1, <2>2 DEF RowsOf
  <1> QED
    BY <1>1 DEF RowsOf, Known, LedgerInv, TypeOK, KnownRows

\* Every row that is kept after a step was kept before, or built from one that was.
LEMMA RowOrigin ==
    ASSUME LedgerInv, KnownRows, IdsMatch, [ClientNext]_vars,
           NEW t \in Task, NEW row, row \in RowsOf(t)'
    PROVE  \/ row \in RowsOf(t)
           \/ /\ row \in Row
              /\ \E old \in RowsOf(t) : Succeeds(old, row) /\ Builds(t, old, row)
           \/ Launched(t, row)
  <1>1. Known(t) \subseteq RowsOf(t) /\ RowsOf(t) \subseteq Row
    BY KnownIsKept
  <1>2. row # None /\ (row = held'[t] \/ \E g \in Generation : row = hist'[t][g])
    BY DEF RowsOf
  <1>3. CASE row = held'[t]
    <2>1. held'[t] \in {held[t], task[t], None}
      BY RowsStep DEF KnownRows
    <2> QED
      BY <1>1, <1>2, <1>3, <2>1 DEF Known
  <1>4. ASSUME NEW g \in Generation, row = hist'[t][g]
        PROVE  \/ row \in RowsOf(t)
               \/ /\ row \in Row
                  /\ \E old \in RowsOf(t) : Succeeds(old, row) /\ Builds(t, old, row)
               \/ Launched(t, row)
    <2>1. hist'[t][g] = hist[t][g] => row \in RowsOf(t)
      BY <1>2, <1>4 DEF RowsOf
    <2>2. ASSUME NEW u \in Task, NEW new \in Row, hist' = StoredRuns(u, new)
          PROVE  hist'[t][g] = hist[t][g] \/ (t = u /\ row = new)
      BY <1>4, <2>2 DEF StoredRuns, LedgerInv, TypeOK
    <2>3. ASSUME NEW u \in Task, Rewritten(u)
          PROVE  \/ row \in RowsOf(t)
                 \/ /\ row \in Row
                    /\ \E old \in RowsOf(t) : Succeeds(old, row) /\ Builds(t, old, row)
      <3>1. PICK old \in Known(u), new \in Row : Writes(u, old, new)
        BY <2>3 DEF Rewritten
      <3> QED
        BY <1>1, <2>1, <2>2, <3>1 DEF Writes
    <2>4. ASSUME NEW u \in Task, NEW new \in Row, Launched(u, new)
          PROVE  row \in RowsOf(t) \/ Launched(t, row)
      BY <2>1, <2>2, <2>4 DEF Launched
    <2>5. ASSUME RecoverTasks
          PROVE  \/ row \in RowsOf(t)
                 \/ /\ row \in Row
                    /\ \E old \in RowsOf(t) : Succeeds(old, row) /\ Builds(t, old, row)
      <3>1. CASE t \in Lost
        <4>1. /\ task[t] # None /\ task[t] \in Row /\ task[t].rev < MaxRev
          BY <2>5, <3>1 DEF RecoverTasks, HasNextRevision, Lost, LedgerInv, TypeOK
        <4>2. hist'[t][g] = hist[t][g] \/ row = Interrupted(task[t])
          BY <1>4, <2>5, <3>1 DEF RecoverTasks, LedgerInv, TypeOK
        <4> QED
          BY <1>1, <2>1, <4>1, <4>2, InterruptedBuilds DEF Known
      <3>2. CASE t \notin Lost
        BY <2>1, <2>5, <3>2 DEF RecoverTasks
      <3> QED
        BY <3>1, <3>2
    <2> QED
      BY <2>1, <2>3, <2>4, <2>5, RowsStep
  <1> QED
    BY <1>2, <1>3, <1>4

-----------------------------------------------------------------------------
(* What every row tells of its process, its queue and its input *)

\* A process is named by the run it was started for: not a later one.
OwnRuntime(t, row) ==
    row.runtime # None => \E g \in 1 .. row.gen : row.runtime = <<t, g>>

\* M is the message table the row is read beside.
RowTells(M, t, row) ==
    /\ OwnRuntime(t, row)
    /\ LinksLead(M, t, row)
    /\ DriverReceived(M, row)
    /\ Harness[t] = "grok" => Readable(row)

\* Every row that is kept anywhere tells the truth.
RowsTell == \A t \in Task : \A row \in RowsOf(t) : RowTells(msg, t, row)

\* What a row tells of messages stays true of it.
LEMMA RowStaysTrue ==
    ASSUME LedgerInv, [ClientNext]_vars, NEW t \in Task, NEW row \in Row,
           RowTells(msg, t, row)
    PROVE  RowTells(msg', t, row)
  <1>1. LinksLead(msg', t, row)
    <2> SUFFICES ASSUME NEW k \in 1 .. Len(row.pending)
                 PROVE  /\ msg'[row.pending[k].id] # None
                        /\ msg'[row.pending[k].id].to = t
      BY DEF LinksLead
    <2>1. /\ row.pending[k].id \in MessageId
          /\ msg[row.pending[k].id] # None /\ msg[row.pending[k].id].to = t
      BY QueueType DEF Link, RowTells, LinksLead
    <2> QED
      BY <2>1, LettersStay DEF SameLetter
  <1>2. ASSUME row.current # None
        PROVE  Receipted(msg'[row.current.id])
    <2>1. row.current.id \in MessageId /\ Receipted(msg[row.current.id])
      BY <1>2, QueueType DEF Link, RowTells, DriverReceived
    <2> QED
      BY <2>1, LettersStay DEF SameLetter, Receipted
  <1> QED
    BY <1>1, <1>2 DEF RowTells, DriverReceived

\* A row tells the truth when the row it was built from did.
LEMMA BuiltTells ==
    ASSUME LedgerInv, NativeReceipts, [ClientNext]_vars,
           NEW t \in Task, NEW old \in Row, NEW new \in Row,
           RowTells(msg, t, old), Succeeds(old, new), Builds(t, old, new)
    PROVE  RowTells(msg', t, new)
  <1>1. RowTells(msg', t, old)
    BY RowStaysTrue
  <1>2. OwnRuntime(t, new)
    <2>1. old.gen \in Nat /\ (new.gen = old.gen \/ new.gen = old.gen + 1)
      BY QueueType DEF Succeeds
    <2>2. CASE StartsProcess(t, old, new)
      <3>1. old.gen \in 1 .. new.gen /\ new.runtime = <<t, old.gen>>
        BY <2>1, <2>2 DEF StartsProcess, Row, Generation
      <3> QED
        BY <3>1 DEF OwnRuntime
    <2>3. CASE new.runtime = old.runtime
      <3>1. 1 .. old.gen \subseteq 1 .. new.gen
        BY <2>1
      <3> QED
        BY <2>3, <3>1 DEF RowTells, OwnRuntime
    <2> QED
      BY <2>2, <2>3 DEF Builds
  <1>3. LinksLead(msg', t, new)
    BY <1>1, PendingOrigin DEF RowTells, LinksLead
  <1>4. ASSUME new.current # None
        PROVE  Receipted(msg'[new.current.id])
    <2>1. CASE old.current # None /\ new.current.id = old.current.id
      BY <1>1, <2>1 DEF RowTells, DriverReceived
    <2>2. CASE /\ old.pending # <<>> /\ new.current = old.pending[1]
               /\ Received(new.current.id)
               /\ Harness[t] \in {"grok", "claude"}
      <3>1. 1 \in 1 .. Len(old.pending) /\ old.pending[1] \in Link
        BY <2>2, QueueType
      <3>2. /\ new.current.id \in MessageId
            /\ msg[new.current.id] # None /\ msg[new.current.id].to = t
        BY <2>2, <3>1 DEF Link, RowTells, LinksLead
      <3>3. Receipted(msg[new.current.id])
        BY <2>2, <3>2 DEF NativeReceipts, Received, Receipted
      <3> QED
        BY <3>2, <3>3, LettersStay DEF SameLetter, Receipted
    <2> QED
      BY <1>4, <2>1, <2>2, CurrentOrigin
  <1>5. Harness[t] = "grok" => Readable(new)
    BY BuiltReadable DEF RowTells
  <1> QED
    BY <1>2, <1>3, <1>4, <1>5 DEF RowTells, DriverReceived

\* So all rows that are kept go on telling the truth.
LEMMA RowsTellStep ==
    ASSUME LedgerInv, KnownRows, IdsMatch, NativeReceipts, RowsTell,
           [ClientNext]_vars
    PROVE  RowsTell'
  <1> SUFFICES ASSUME NEW t \in Task, NEW row, row \in RowsOf(t)'
               PROVE  RowTells(msg', t, row)
    BY DEF RowsTell
  <1>1. RowsOf(t) \subseteq Row
    BY KnownIsKept
  <1>2. CASE row \in RowsOf(t)
    BY <1>1, <1>2, RowStaysTrue DEF RowsTell
  <1>3. ASSUME NEW old \in RowsOf(t), row \in Row, Succeeds(old, row),
               Builds(t, old, row)
        PROVE  RowTells(msg', t, row)
    BY <1>1, <1>3, BuiltTells DEF RowsTell
  <1>4. CASE Launched(t, row)
    BY <1>4, LimitsAssumption
    DEF Launched, RowTells, OwnRuntime, LinksLead, DriverReceived, Readable, Fits
  <1> QED
    BY <1>2, <1>3, <1>4, RowOrigin

\* Links that are pairwise apart are as many as the queue is long.
LEMMA QueueCounts ==
    ASSUME NEW row \in Row, Readable(row)
    PROVE  Cardinality(LinksOf(row))
              = Len(row.pending) + (IF row.current = None THEN 0 ELSE 1)
  <1> DEFINE n == Len(row.pending)
             waiting == {row.pending[k] : k \in 1 .. n}
             f == [k \in 1 .. n |-> row.pending[k]]
  <1>1. n \in Nat
    BY QueueType
  <1>2. \A k, l \in 1 .. n : k # l => row.pending[k] # row.pending[l]
    BY DEF Readable, Apart
  <1>3. f \in Bijection(1 .. n, waiting)
    <2>1. f \in [1 .. n -> waiting]
      OBVIOUS
    <2>2. \A k, l \in 1 .. n : f[k] = f[l] => k = l
      BY <1>2
    <2>3. \A l \in waiting : \E k \in 1 .. n : f[k] = l
      OBVIOUS
    <2> HIDE DEF f, waiting
    <2> QED
      BY <2>1, <2>2, <2>3 DEF Bijection, Injection, Surjection, IsInjective
  <1>4. ExistsBijection(1 .. n, waiting)
    BY <1>3 DEF ExistsBijection
  <1>5. Cardinality(waiting) = n /\ IsFiniteSet(waiting)
    BY <1>1, <1>4, FS_CountingElements, FS_NatBijection
  <1>6. CASE row.current = None
    BY <1>5, <1>6 DEF LinksOf
  <1>7. CASE row.current # None
    <2>1. row.current \notin waiting
      BY <1>7 DEF Readable, Apart
    <2>2. LinksOf(row) = waiting \cup {row.current}
      BY <1>7 DEF LinksOf
    <2> HIDE DEF waiting
    <2>3. Cardinality(waiting \cup {row.current}) = n + 1
      BY <1>5, <2>1, FS_AddElement
    <2> QED
      BY <1>7, <2>2, <2>3
  <1> QED
    BY <1>6, <1>7

\* A queue that is readable entry by entry is one grok_input_links accepts.
LEMMA ReadableIsWellFormed ==
    ASSUME NEW row \in Row, Readable(row)
    PROVE  QueueWellFormed(row)
  <1>1. \A l \in LinksOf(row) :
           \/ \E k \in 1 .. Len(row.pending) : l = row.pending[k]
           \/ row.current # None /\ l = row.current
    BY DEF LinksOf
  <1>2. \A l \in LinksOf(row) : l.runtime = row.runtime /\ l.sgen <= row.gen
    BY <1>1 DEF Readable, OfRow
  <1>3. ASSUME NEW k \in LinksOf(row), NEW l \in LinksOf(row), k # l
        PROVE  k.id # l.id /\ (k.turn # None => k.turn # l.turn)
    BY <1>1, <1>3 DEF Readable, Apart
  <1>4. Cardinality(LinksOf(row)) <= LinkLimit
    BY QueueCounts DEF Readable, Fits
  <1> QED
    BY <1>2, <1>3, <1>4, QueueCounts DEF QueueWellFormed, Readable

-----------------------------------------------------------------------------
(* A run and the process that served it *)

\* A row written for a run that is recorded already is the next revision of the
\* present row, whatever row its writer had read.
LEMMA SameRunRewrite ==
    ASSUME LedgerInv, KnownRows, HeldIsPast, NEW t \in Task,
           NEW old \in Known(t), NEW new \in Row, Writes(t, old, new),
           hist[t][new.gen] # None
    PROVE  /\ hist[t][new.gen] = task[t]
           /\ new = task[t] \/ (old = task[t] /\ UpdatesRun(old, new))
  <1>1. new.gen \in Generation
    BY DEF Row
  <1>2. task[t] # None /\ new.gen <= task[t].gen
    BY <1>1 DEF LedgerInv, HistoryMirrorsCurrent
  <1>3. task[t] \in Row /\ task[t].gen \in Nat /\ task[t].rev \in Nat
    BY <1>2 DEF LedgerInv, TypeOK, Row, Generation, Revision
  <1>4. CASE Repeats(t, new)
    <2>1. new = task[t]
      BY <1>4 DEF Repeats
    <2> QED
      BY <1>1, <1>2, <2>1 DEF LedgerInv, HistoryMirrorsCurrent
  <1>5. CASE MayCheckpoint(t, new, old.gen)
    <2>1. UpdatesRun(task[t], new)
      <3>1. ~ContinuesTask(task[t], new)
        BY <1>1, <1>2, <1>3 DEF ContinuesTask, Generation
      <3> QED
        BY <1>2, <1>5, <3>1 DEF MayCheckpoint
    <2>2. new.gen = task[t].gen /\ new.rev = task[t].rev + 1
      BY <2>1 DEF UpdatesRun, NextRevision
    <2>3. old \in Row /\ old.gen \in Nat /\ old.rev \in Nat
      BY KnownType DEF Row, Generation, Revision
    <2>4. old.gen = task[t].gen /\ old.rev = task[t].rev
      BY <1>3, <2>2, <2>3 DEF Writes, Succeeds
    <2>5. old = task[t]
      BY <1>3, <2>3, <2>4 DEF Known, HeldIsPast
    <2> QED
      BY <1>1, <1>2, <2>1, <2>2, <2>5 DEF LedgerInv, HistoryMirrorsCurrent
  <1> QED
    BY <1>4, <1>5 DEF Writes

\* The row of a run after a step: as it was, or rewritten from the row it was.
LEMMA RunStep ==
    ASSUME LedgerInv, KnownRows, IdsMatch, HeldIsPast, [ClientNext]_vars,
           NEW t \in Task, NEW g \in Generation, hist[t][g] # None
    PROVE  \/ hist'[t][g] = hist[t][g]
           \/ /\ hist'[t][g] \in Row /\ hist'[t][g].gen = g
              /\ UpdatesRun(hist[t][g], hist'[t][g])
              /\ Builds(t, hist[t][g], hist'[t][g])
           \/ /\ IsActive(hist[t][g]) /\ hist[t][g].rev < MaxRev
              /\ hist'[t][g] = Interrupted(hist[t][g])
  <1>1. ASSUME NEW u \in Task, Rewritten(u)
        PROVE  \/ hist'[t][g] = hist[t][g]
               \/ /\ hist'[t][g] \in Row /\ hist'[t][g].gen = g
                  /\ UpdatesRun(hist[t][g], hist'[t][g])
                  /\ Builds(t, hist[t][g], hist'[t][g])
    <2>1. PICK old \in Known(u), new \in Row : Writes(u, old, new)
      BY <1>1 DEF Rewritten
    <2>2. hist'[t][g] = IF t = u /\ g = new.gen THEN new ELSE hist[t][g]
      BY <2>1 DEF Writes, StoredRuns, LedgerInv, TypeOK
    <2>3. CASE t = u /\ g = new.gen
      <3>1. /\ hist[t][g] = task[t]
            /\ new = task[t] \/ (old = task[t] /\ UpdatesRun(old, new))
        BY <2>1, <2>3, SameRunRewrite
      <3>2. Builds(t, old, new)
        BY <2>1, <2>3 DEF Writes
      <3> QED
        BY <2>2, <2>3, <3>1, <3>2
    <2> QED
      BY <2>2, <2>3
  <1>2. ASSUME NEW u \in Task, NEW new \in Row, Launched(u, new)
        PROVE  hist'[t][g] = hist[t][g]
    <2>1. t # u
      BY <1>2 DEF Launched, LedgerInv, HistoryMirrorsCurrent
    <2> QED
      BY <1>2, <2>1 DEF Launched, StoredRuns, LedgerInv, TypeOK
  <1>3. ASSUME RecoverTasks
        PROVE  \/ hist'[t][g] = hist[t][g]
               \/ /\ IsActive(hist[t][g]) /\ hist[t][g].rev < MaxRev
                  /\ hist'[t][g] = Interrupted(hist[t][g])
    <2>1. CASE t \in Lost
      <3>1. /\ task[t] # None /\ IsActive(task[t]) /\ task[t].rev < MaxRev
            /\ hist'[t] = [hist[t] EXCEPT ![task[t].gen] = Interrupted(task[t])]
        BY <1>3, <2>1 DEF RecoverTasks, HasNextRevision, Lost
      <3>2. hist'[t][g] = IF g = task[t].gen THEN Interrupted(task[t]) ELSE hist[t][g]
        BY <3>1 DEF LedgerInv, TypeOK
      <3>3. g = task[t].gen => hist[t][g] = task[t]
        BY <3>1 DEF LedgerInv, HistoryMirrorsCurrent
      <3> QED
        BY <3>1, <3>2, <3>3
    <2>2. CASE t \notin Lost
      BY <1>3, <2>2 DEF RecoverTasks
    <2> QED
      BY <2>1, <2>2
  <1> QED
    BY <1>1, <1>2, <1>3, RowsStep

\* An ended run keeps the process that served it.
SameServer(old, new) ==
    /\ new.gen = old.gen /\ IsTerminal(new)
    /\ new.session = old.session /\ new.runtime = old.runtime

\* Nothing rewrites the process of a run that ended.
LEMMA EndedRunKeepsServer ==
    ASSUME LedgerInv, KnownRows, IdsMatch, HeldIsPast, [ClientNext]_vars,
           NEW t \in Task, NEW g \in Generation, hist[t][g] # None,
           IsTerminal(hist[t][g]), hist[t][g].session # None
    PROVE  hist'[t][g] # None /\ SameServer(hist[t][g], hist'[t][g])
  <1>1. ~IsActive(hist[t][g]) /\ hist[t][g].gen = g
    BY DEF IsTerminal, IsActive, Terminal, Active, LedgerInv, HistoryMirrorsCurrent
  <1>2. ASSUME UpdatesRun(hist[t][g], hist'[t][g]), hist'[t][g] \in Row,
               Builds(t, hist[t][g], hist'[t][g])
        PROVE  hist'[t][g] # None /\ SameServer(hist[t][g], hist'[t][g])
    <2>1. ~StartsProcess(t, hist[t][g], hist'[t][g])
      BY DEF StartsProcess, IsTerminal, Terminal
    <2> QED
      BY <1>2, <2>1, NoneAssumption DEF UpdatesRun, Builds, SameServer, IsTerminal
  <1>3. CASE hist'[t][g] = hist[t][g]
    BY <1>3 DEF SameServer
  <1> QED
    BY <1>1, <1>2, <1>3, RunStep

\* A result becomes sent by a claim, and while no row changes.
LEMMA ResultsAreClaimed ==
    ASSUME LedgerInv, [ClientNext]_vars, NEW i \in MessageId,
           msg[i] # None, IsResult(msg[i]), msg[i].state # "sent", msg'[i].state = "sent"
    PROVE  /\ UNCHANGED <<task, hist>>
           /\ \A j \in MessageId \ {i} : msg'[j] = msg[j]
           /\ \E exact \in BOOLEAN : ClaimTaskResult(i, exact)
  <1>1. msg'[i] # msg[i] /\ ~PostedOrWithdrawn(i)
    BY DEF PostedOrWithdrawn, LedgerInv, TypeOK, Message
  <1>2. PICK j \in MessageId : MailAction(j)
    BY <1>1, ClientActs, PostingPosts DEF ledger
  <1>3. PICK from \in MessageState, to \in MessageState :
           MovesLetter(j, from, to) /\ <<from, to>> \in Delivery
    BY <1>2, MailActionMoves DEF MailAction
  <1>4. PICK receipt \in Receipt \cup {None} : Move(j, to, receipt)
    BY <1>3 DEF MovesLetter
  <1>5. j = i /\ UNCHANGED <<task, hist>>
        /\ \A k \in MessageId \ {i} : msg'[k] = msg[k]
    BY <1>1, <1>4 DEF Move, LedgerInv, TypeOK
  <1>6. to = "sent" /\ from = "queued"
    BY <1>3, <1>4, <1>5 DEF Move, Delivery, LedgerInv, TypeOK, Message
  <1>7. ~ClaimMail(i)
    BY DEF ClaimMail, ClaimParentHistoryMessage, ClaimManagedMessage, ParentMessage,
       IsResult
  <1>8. ~MarkSent(i)
    BY DEF MarkSent
  <1>9. msg[i].state = "queued"
    BY <1>3, <1>5, <1>6 DEF MovesLetter
  <1>10. DeliverResult(i)
    BY <1>2, <1>5, <1>7, <1>8, <1>9 DEF MailAction, RecordInHistory, SettleSent
  <1>11. PICK old : ClaimTaskResult(i, old.state = "completed")
    BY <1>10 DEF DeliverResult
  <1> QED
    BY <1>5, <1>11

\* A run that ended, and was served by a native process.
ServedRun(run) ==
    run # None /\ IsTerminal(run) /\ run.session # None /\ run.runtime # None

\* Every result a grok process was handed is of such a run.
ResultsOfServedRuns ==
    \A t \in Task :
       Harness[t] = "grok" => \A m \in SentResults(t) : ServedRun(hist[t][m.rgen])

\* A message a step leaves sent was sent before, or the step claimed it.
LEMMA SentOrigin ==
    ASSUME LedgerInv, [ClientNext]_vars, NEW t \in Task, NEW m, m \in SentResults(t)'
    PROVE  \/ \E n \in SentResults(t) : n.rgen = m.rgen /\ n.id = m.id
           \/ \E i \in MessageId :
                 /\ m = msg'[i] /\ msg[i] # None /\ SameLetter(msg[i], m)
                 /\ UNCHANGED <<task, hist>>
                 /\ \A j \in MessageId \ {i} : msg'[j] = msg[j]
                 /\ \E exact \in BOOLEAN : ClaimTaskResult(i, exact)
  <1>1. PICK i \in MessageId : m = msg'[i]
    BY DEF SentResults
  <1>2. m # None /\ m.to = t /\ m.state = "sent" /\ IsResult(m)
    BY DEF SentResults
  <1>3. msg[i] # None
    BY <1>1, <1>2, NewLetterIsPosted
  <1>4. SameLetter(msg[i], m)
    BY <1>1, <1>3, LettersStay
  <1>5. msg[i].to = t /\ IsResult(msg[i]) /\ msg[i].rgen = m.rgen /\ msg[i].id = m.id
    BY <1>2, <1>4 DEF SameLetter, IsResult
  <1>6. CASE msg[i].state = "sent"
    BY <1>3, <1>5, <1>6 DEF SentResults
  <1>7. CASE msg[i].state # "sent"
    BY <1>1, <1>2, <1>3, <1>4, <1>5, <1>7, ResultsAreClaimed
  <1> QED
    BY <1>6, <1>7

\* What a claim of a grok result found in the ledger.
LEMMA GrokClaim ==
    ASSUME LedgerInv, NEW i \in MessageId, NEW exact, ClaimTaskResult(i, exact),
           Harness[msg[i].to] = "grok"
    PROVE  GrokMayTake(msg[i], task[msg[i].to]) /\ task[msg[i].to] # None
  BY DEF ClaimTaskResult, Waiting

\* A result is claimed for runs that a process served to their end.
LEMMA ServedRunsStep ==
    ASSUME LedgerInv, KnownRows, IdsMatch, HeldIsPast, ResultsOfServedRuns,
           [ClientNext]_vars
    PROVE  ResultsOfServedRuns'
  <1> SUFFICES ASSUME NEW t \in Task, Harness[t] = "grok", NEW m, m \in SentResults(t)'
               PROVE  ServedRun(hist'[t][m.rgen])
    BY DEF ResultsOfServedRuns
  <1>0. \A n \in SentResults(t) : n.rgen \in Generation
    BY DEF SentResults, LedgerInv, TypeOK, Message
  <1>1. CASE \E n \in SentResults(t) : n.rgen = m.rgen /\ n.id = m.id
    <2>1. ServedRun(hist[t][m.rgen]) /\ m.rgen \in Generation
      BY <1>0, <1>1 DEF ResultsOfServedRuns
    <2> QED
      BY <2>1, EndedRunKeepsServer DEF ServedRun, SameServer
  <1>2. ASSUME NEW i \in MessageId, NEW exact, m = msg'[i], msg[i] # None,
               SameLetter(msg[i], m), UNCHANGED <<task, hist>>,
               ClaimTaskResult(i, exact)
        PROVE  ServedRun(hist'[t][m.rgen])
    <2>1. msg[i].to = t /\ msg[i].rgen = m.rgen /\ msg[i] \in Message
      BY <1>2 DEF SentResults, SameLetter, LedgerInv, TypeOK
    <2>2. GrokMayTake(msg[i], task[t]) /\ task[t] # None
      BY <1>2, <2>1, GrokClaim
    <2> DEFINE g == m.rgen
               current == task[t]
    <2>3. /\ g \in Generation /\ current.gen \in Generation /\ g <= current.gen
          /\ current.state = "completed" /\ GrokHistory(hist, msg[i], current)
      BY <2>1, <2>2 DEF GrokMayTake, GrokHistory, Message, LedgerInv, TypeOK, Row
    <2>4. g \in g .. current.gen
      BY <2>3 DEF Generation
    <2>5. /\ hist[t][g] # None /\ SameProcess(hist[t][g], current)
          /\ g < current.gen => hist[t][g].state = "completed"
      BY <2>1, <2>3, <2>4 DEF GrokHistory
    <2>6. g = current.gen => hist[t][g] = current
      BY <2>2, <2>3 DEF LedgerInv, HistoryMirrorsCurrent
    <2>7. hist[t][g].state = "completed"
      BY <2>3, <2>5, <2>6 DEF Generation
    <2> QED
      BY <1>2, <2>5, <2>7 DEF ServedRun, SameProcess, IsTerminal, Terminal
  <1> QED
    BY <1>1, <1>2, SentOrigin

-----------------------------------------------------------------------------
(* One unconfirmed result for each process *)

\* Two ended runs were not served by the same process, in either direction.
Strangers(a, b) == ~SameProcess(a, b) /\ ~SameProcess(b, a)

\* A run the current process served is no stranger to a run that is one to it.
LEMMA ClaimedStranger ==
    ASSUME NEW a, NEW b, NEW current, SameProcess(a, current),
           a.gen \in Nat, b.gen \in Nat, current.gen \in Nat, b.gen <= current.gen,
           ~SameProcess(b, current)
    PROVE  Strangers(a, b)
  BY DEF SameProcess, Strangers

\* Ended runs stay strangers.
LEMMA StrangersStay ==
    ASSUME NEW a, NEW b, NEW c, NEW d, SameServer(a, c), SameServer(b, d), Strangers(a, b)
    PROVE  Strangers(c, d)
  BY DEF SameServer, Strangers, SameProcess

\* The slot test of a claim looks at every result that is out.
LEMMA OneResultStep ==
    ASSUME LedgerInv, KnownRows, IdsMatch, HeldIsPast, ResultsOfServedRuns,
           OneUnconfirmedResult, [ClientNext]_vars
    PROVE  OneUnconfirmedResult'
  <1> SUFFICES ASSUME NEW t \in Task, Harness[t] = "grok",
                      NEW m, m \in SentResults(t)', NEW n, n \in SentResults(t)', m # n
               PROVE  Strangers(hist'[t][m.rgen], hist'[t][n.rgen])
    BY DEF OneUnconfirmedResult, Strangers
  <1>1. \A r \in SentResults(t) :
           /\ r.rgen \in Generation /\ ServedRun(hist[t][r.rgen])
           /\ hist'[t][r.rgen] # None
           /\ SameServer(hist[t][r.rgen], hist'[t][r.rgen])
    <2>1. \A r \in SentResults(t) : r.rgen \in Generation /\ ServedRun(hist[t][r.rgen])
      BY DEF SentResults, LedgerInv, TypeOK, Message, ResultsOfServedRuns
    <2> QED
      BY <2>1, EndedRunKeepsServer DEF ServedRun
  <1>2. m.id # n.id
    <2>1. IdsMatch'
      BY IdsMatchStep
    <2> QED
      BY <2>1 DEF IdsMatch, SentResults
  <1>3. ASSUME NEW a \in SentResults(t), NEW b \in SentResults(t),
               a.rgen = m.rgen, a.id = m.id, b.rgen = n.rgen, b.id = n.id
        PROVE  Strangers(hist'[t][m.rgen], hist'[t][n.rgen])
    <2>1. Strangers(hist[t][m.rgen], hist[t][n.rgen])
      BY <1>2, <1>3 DEF OneUnconfirmedResult, Strangers
    <2>2. /\ SameServer(hist[t][m.rgen], hist'[t][m.rgen])
          /\ SameServer(hist[t][n.rgen], hist'[t][n.rgen])
      BY <1>1, <1>3
    <2> QED
      BY <2>1, <2>2, StrangersStay
  <1>4. ASSUME NEW x, NEW y, NEW b \in SentResults(t), NEW i \in MessageId, NEW exact,
               x \in SentResults(t)', b.rgen = y.rgen, b.id = y.id,
               x = msg'[i], msg[i] # None, SameLetter(msg[i], x), x.id # y.id,
               UNCHANGED <<task, hist>>, ClaimTaskResult(i, exact)
        PROVE  Strangers(hist'[t][x.rgen], hist'[t][y.rgen])
    <2>1. msg[i].to = t /\ msg[i].rgen = x.rgen /\ msg[i] \in Message
      BY <1>4 DEF SentResults, SameLetter, LedgerInv, TypeOK
    <2>2. GrokMayTake(msg[i], task[t]) /\ task[t] # None
      BY <1>4, <2>1, GrokClaim
    <2> DEFINE current == task[t]
               a == hist[t][x.rgen]
               c == hist[t][y.rgen]
    <2>3. /\ x.rgen \in Generation /\ y.rgen \in Generation
          /\ current.gen \in Generation /\ x.rgen <= current.gen
      BY <1>1, <1>4, <2>1, <2>2
      DEF GrokMayTake, GrokHistory, Message, LedgerInv, TypeOK, Row
    <2>4. a # None /\ SameProcess(a, current) /\ a.gen = x.rgen
      <3>1. x.rgen \in x.rgen .. current.gen
        BY <2>3 DEF Generation
      <3>2. a # None /\ SameProcess(a, current)
        BY <2>1, <2>2, <3>1 DEF GrokMayTake, GrokHistory
      <3> QED
        BY <2>3, <3>2 DEF LedgerInv, HistoryMirrorsCurrent
    <2>5. c # None /\ ~SameProcess(c, current)
      BY <1>4, <2>1, <2>2 DEF GrokMayTake, SlotFree
    <2>6. c.gen = y.rgen /\ c.gen <= current.gen
      BY <2>2, <2>3, <2>5 DEF LedgerInv, HistoryMirrorsCurrent
    <2>7. Strangers(a, c)
      BY <2>3, <2>4, <2>5, <2>6, ClaimedStranger DEF Generation
    <2> QED
      BY <1>4, <2>7
  <1>5. ASSUME NEW i \in MessageId, NEW j \in MessageId,
               m = msg'[i], n = msg'[j],
               \A k \in MessageId \ {i} : msg'[k] = msg[k], msg[j] # None,
               \A k \in MessageId \ {j} : msg'[k] = msg[k],
               \E exact \in BOOLEAN : ClaimTaskResult(j, exact)
        PROVE  FALSE
    <2>1. i # j
      BY <1>2, <1>5
    <2>2. msg'[j] = msg[j]
      BY <1>5, <2>1
    <2> QED
      BY <1>5, <2>2 DEF ClaimTaskResult, Waiting, SentResults
  <1>6. Strangers(hist'[t][n.rgen], hist'[t][m.rgen])
           => Strangers(hist'[t][m.rgen], hist'[t][n.rgen])
    BY DEF Strangers
  <1> QED
    BY <1>2, <1>3, <1>4, <1>5, <1>6, SentOrigin

-----------------------------------------------------------------------------
(* What a turn of the user leaves behind in a claude task *)

\* The process of its own run that a client saw is still the one of that run.
OwnProcessStays ==
    \A t \in Task :
       held[t] # None /\ held[t].runtime = <<t, held[t].gen>> =>
          /\ hist[t][held[t].gen] # None
          /\ hist[t][held[t].gen].runtime = held[t].runtime

\* No result of an earlier run started the run g: either a process was started
\* for it, or the input that drives it is of the user, or of the run itself.
UserDriven(t, g, run) ==
    /\ run # None
    /\ \/ run.runtime = <<t, g>>
       \/ run.current = None
       \/ run.current.mail = None
       \/ run.current.sgen = g

\* A claude run the user wrote into is never one that a result started.
UserTurns ==
    \A j \in MessageId :
       msg[j] # None /\ msg[j].subject = "user_input" /\ Harness[msg[j].to] = "claude"
       => UserDriven(msg[j].to, msg[j].rgen, hist[msg[j].to][msg[j].rgen])

\* A run keeps the process that was started for it.
LEMMA OwnProcessStep ==
    ASSUME LedgerInv, KnownRows, IdsMatch, HeldIsPast, OwnProcessStays,
           [ClientNext]_vars
    PROVE  OwnProcessStays'
  <1> SUFFICES ASSUME NEW t \in Task, held'[t] # None,
                      held'[t].runtime = <<t, held'[t].gen>>
               PROVE  /\ hist'[t][held'[t].gen] # None
                      /\ hist'[t][held'[t].gen].runtime = held'[t].runtime
    BY DEF OwnProcessStays
  <1> DEFINE g == held'[t].gen
  <1>1. held'[t] \in Row /\ g \in Generation
    BY KnownRowsStep DEF KnownRows, Row
  <1>2. CASE held'[t] = held[t]
    <2>1. hist[t][g] # None /\ hist[t][g].runtime = <<t, g>>
      BY <1>2 DEF OwnProcessStays
    <2>2. hist[t][g].gen = g /\ hist[t][g] \in Row
      BY <1>1, <2>1 DEF LedgerInv, TypeOK, HistoryMirrorsCurrent
    <2>3. hist'[t][g] # None /\ hist'[t][g].runtime = <<t, g>>
      <3> DEFINE old == hist[t][g]
                 new == hist'[t][g]
      <3>1. ASSUME new \in Row, Builds(t, old, new)
            PROVE  new # None /\ new.runtime = <<t, g>>
        BY <2>1, <2>2, <3>1, NoneAssumption DEF Builds, StartsProcess
      <3>2. ASSUME old.rev < MaxRev, new = Interrupted(old)
            PROVE  new # None /\ new.runtime = <<t, g>>
        <4>1. new \in Row /\ new.runtime = old.runtime
          BY <2>2, <3>2, InterruptedRow DEF Interrupted, Row
        <4> QED
          BY <2>1, <4>1, NoneAssumption
      <3> HIDE DEF old, new
      <3> QED
        BY <1>1, <2>1, <3>1, <3>2, RunStep DEF old, new
    <2> QED
      BY <2>3
  <1>3. CASE held'[t] # held[t]
    <2>1. held'[t] = task[t] /\ hist' = hist
      BY <1>3, RowsStep DEF KnownRows
    <2>2. hist[t][g] = task[t]
      BY <1>1, <2>1 DEF LedgerInv, HistoryMirrorsCurrent
    <2> QED
      BY <2>1, <2>2
  <1> QED
    BY <1>2, <1>3

\* A run the user wrote into is not turned into one a result started.
LEMMA UserDrivenStays ==
    ASSUME LedgerInv, KnownRows, IdsMatch, HeldIsPast, [ClientNext]_vars,
           NEW t \in Task, Harness[t] = "claude", NEW g \in Generation,
           UserDriven(t, g, hist[t][g])
    PROVE  UserDriven(t, g, hist'[t][g])
  <1> DEFINE old == hist[t][g]
             new == hist'[t][g]
  <1>1. old # None /\ old \in Row /\ old.gen = g
    BY DEF UserDriven, LedgerInv, TypeOK, HistoryMirrorsCurrent
  <1>2. CASE new = old
    BY <1>2
  <1>3. ASSUME new \in Row, Builds(t, old, new)
        PROVE  UserDriven(t, g, new)
    <2>1. CASE StartsProcess(t, old, new)
      BY <1>1, <1>3, <2>1, NoneAssumption DEF StartsProcess, UserDriven
    <2>2. CASE new.runtime = old.runtime /\ new.current = old.current
      BY <1>3, <2>2, NoneAssumption DEF UserDriven
    <2>3. CASE AddsInput(t, old, new) /\ new.runtime = old.runtime
      <3>1. new.current = old.current \/ new.current = WithoutMail(old.current)
        BY <2>3 DEF AddsInput
      <3>2. ASSUME new.current # None, new.current = WithoutMail(old.current)
            PROVE  new.current.mail = None
        BY <1>1, <3>2 DEF WithoutMail, Row, Link
      <3> QED
        BY <1>3, <2>2, <2>3, <3>1, <3>2, NoneAssumption DEF UserDriven
    <2>4. CASE OpensTurn(t, old, new)
      BY <1>1, <1>3, <2>4, NoneAssumption DEF OpensTurn, UserDriven
    <2> QED
      BY <1>3, <2>1, <2>2, <2>3, <2>4
      DEF Builds, KeepsInputs, RecordsTurn, LosesInput
  <1>4. ASSUME new = Interrupted(old), old.rev < MaxRev
        PROVE  UserDriven(t, g, new)
    <2>1. new \in Row /\ new.runtime = old.runtime /\ new.current = old.current
      BY <1>1, <1>4, InterruptedRow DEF Interrupted, Row
    <2> QED
      BY <2>1, NoneAssumption DEF UserDriven
  <1> HIDE DEF old, new
  <1> QED
    BY <1>1, <1>2, <1>3, <1>4, RunStep DEF old, new

\* A checkpoint without a message stores none.
LEMMA CheckpointStoresNoMail ==
    ASSUME NEW t, NEW new, NEW expected, CheckpointTask(t, new, expected),
           NEW i \in MessageId, msg[i] = None
    PROVE  msg'[i] = None
  BY DEF CheckpointTask, MailAfter

\* A message that is queued as it is sent is stored as it is.
LEMMA EnqueuedIsStored ==
    ASSUME LedgerInv, NEW m, EnqueueMessage(m), NEW i \in MessageId,
           msg[i] = None, msg'[i] # None
    PROVE  msg'[i] = m
  BY DEF EnqueueMessage, WithMessage, Enqueued, MayInsert, Message, LedgerInv, TypeOK

\* Inputs of the user are stored by no other action.
LEMMA NewMailIsInput ==
    ASSUME LedgerInv, [ClientNext]_vars, NEW i \in MessageId,
           msg[i] = None, msg'[i] # None, msg'[i].subject = "user_input"
    PROVE  \E t \in Task, j \in Input : PrepareInput(t, j) \/ SubmitInput(t, j)
  <1>1. ClientNext
    BY DEF vars
  <1>2. ASSUME NEW t \in Task,
               \/ LaunchTask(t) \/ ResumeTask(t) \/ StartProcess(t)
               \/ BindSession(t) \/ ReportState(t) \/ FinishRun(t)
               \/ AcceptTurn(t) \/ StartTurn(t) \/ RunTurn(t) \/ DropInput(t)
        PROVE  FALSE
    <2>1. \E new, expected : CheckpointTask(t, new, expected)
      <3>1. CASE LaunchTask(t) BY <3>1 DEF LaunchTask
      <3>2. CASE ResumeTask(t) BY <3>2 DEF ResumeTask
      <3>3. CASE StartProcess(t) BY <3>3 DEF StartProcess
      <3>4. CASE BindSession(t) BY <3>4 DEF BindSession, Commit
      <3>5. CASE ReportState(t) BY <3>5 DEF ReportState, Commit
      <3>6. CASE FinishRun(t) BY <3>6 DEF FinishRun, Commit
      <3>7. CASE AcceptTurn(t) BY <3>7 DEF AcceptTurn, Commit
      <3>8. CASE StartTurn(t) BY <3>8 DEF StartTurn, GrokStart, ClaudeStart, Commit
      <3>9. CASE RunTurn(t) BY <3>9 DEF RunTurn, Commit
      <3>10. CASE DropInput(t) BY <3>10 DEF DropInput, Commit
      <3> QED
        BY <1>2, <3>1, <3>2, <3>3, <3>4, <3>5, <3>6, <3>7, <3>8, <3>9, <3>10
    <2> QED
      BY <2>1, CheckpointStoresNoMail
  <1>3. ASSUME NEW j \in MessageId, LinkMail(j)
        PROVE  FALSE
    BY <1>3, CheckpointStoresNoMail DEF LinkMail, GrokLink, ClaudeLink, Commit
  <1>4. ASSUME NEW t \in Task, MintResult(t)
        PROVE  FALSE
    <2> DEFINE m == ResultMessage(t, task[t])
               minted == [m EXCEPT !.state = MintedState(m)]
    <2>1. m \in Message /\ msg' = [msg EXCEPT ![m.id] = minted]
      BY <1>4, ResultMessageType DEF MintResult, EnqueueTaskResult
    <2>2. m.subject = "local_task_result"
      BY DEF ResultMessage
    <2> HIDE DEF m
    <2>3. minted.subject = "local_task_result"
      BY <2>1, <2>2 DEF Message
    <2> HIDE DEF minted
    <2> QED
      BY <2>1, <2>3 DEF LedgerInv, TypeOK
  <1>5. ASSUME NEW j \in Input, SendMessage(j)
        PROVE  FALSE
    BY <1>5, EnqueuedIsStored DEF SendMessage
  <1>6. ASSUME NEW j \in MessageId, MailAction(j)
        PROVE  FALSE
    BY <1>6, MailActionMoves DEF MailAction, MovesLetter, Move, LedgerInv, TypeOK
  <1>7. ASSUME Restart \/ (\E t \in Task : Hold(t))
        PROVE  FALSE
    BY <1>7 DEF Restart, RecoverTasks, Hold
  <1>8. Input \subseteq MessageId
    BY DEF MessageId
  <1> QED
    BY <1>1, <1>2, <1>3, <1>4, <1>5, <1>6, <1>7, <1>8 DEF ClientNext, MailAction

\* The input a fresh process is prepared for is of the run it was started for.
LEMMA PreparedIsDriven ==
    ASSUME LedgerInv, KnownRows, OwnProcessStays,
           NEW t \in Task, NEW j \in Input, PrepareInput(t, j),
           NEW i \in MessageId, msg[i] = None, msg'[i] # None
    PROVE  UserDriven(msg'[i].to, msg'[i].rgen, hist'[msg'[i].to][msg'[i].rgen])
  <1>1. PICK old \in Known(t) :
           old.runtime = <<t, old.gen>> /\ EnqueueMessage(UserInput(t, old.gen, j))
    BY DEF PrepareInput
  <1>2. msg'[i] = UserInput(t, old.gen, j) /\ hist' = hist
    BY <1>1, EnqueuedIsStored DEF EnqueueMessage
  <1>3. msg'[i].to = t /\ msg'[i].rgen = old.gen
    BY <1>2 DEF UserInput
  <1>4. hist[t][old.gen] # None /\ hist[t][old.gen].runtime = <<t, old.gen>>
    <2>1. CASE old = task[t] /\ task[t] # None
      BY <1>1, <2>1 DEF LedgerInv, TypeOK, Row, HistoryMirrorsCurrent
    <2>2. CASE old = held[t] /\ held[t] # None
      BY <1>1, <2>2 DEF OwnProcessStays
    <2> QED
      BY <2>1, <2>2 DEF Known
  <1> QED
    BY <1>2, <1>3, <1>4 DEF UserDriven

\* A turn of the user takes the result out of what drives the run.
LEMMA SubmittedIsDriven ==
    ASSUME LedgerInv, KnownRows,
           NEW t \in Task, NEW j \in Input, SubmitInput(t, j),
           NEW i \in MessageId, msg[i] = None, msg'[i] # None,
           Harness[msg'[i].to] = "claude"
    PROVE  UserDriven(msg'[i].to, msg'[i].rgen, hist'[msg'[i].to][msg'[i].rgen])
  <1>1. ASSUME NEW new, NEW expected, NEW m,
               CheckpointTaskWithMessage(t, new, expected, m)
        PROVE  msg'[i] = m /\ hist' = StoredRuns(t, new) /\ new \in Row /\ m \in Message
    <2> DEFINE M == IF Repeats(t, new) THEN msg
                    ELSE MailAfter(StoredRuns(t, new), t, task[t], new)
    <2>1. M[i] = None
      BY DEF MailAfter
    <2>2. /\ Enqueued(M, m) \/ (M[m.id] = None /\ MayInsert(StoredTasks(t, new), m))
          /\ msg' = WithMessage(M, m) /\ hist' = StoredRuns(t, new)
      BY <1>1 DEF CheckpointTaskWithMessage
    <2>3. M \in [MessageId -> Message \cup {None}]
      BY MailAfterType DEF LedgerInv, TypeOK
    <2>4. new \in Row
      BY <1>1 DEF CheckpointTaskWithMessage, MayCheckpoint, ValidRow, Repeats,
         LedgerInv, TypeOK
    <2> HIDE DEF M
    <2>5. ~Enqueued(M, m)
      BY <2>1, <2>2 DEF WithMessage
    <2>6. m \in Message /\ msg' = [M EXCEPT ![m.id] = m]
      BY <2>2, <2>5 DEF WithMessage, MayInsert
    <2>7. msg'[i] = m
      BY <2>1, <2>3, <2>6 DEF Message
    <2> QED
      BY <2>2, <2>4, <2>6, <2>7
  <1>2. PICK old \in Known(t) :
           GrokSubmit(t, old, j) \/ ClaudeSubmit(t, old, j) \/ CodexSubmit(t, old, j)
    BY DEF SubmitInput
  <1>3. ASSUME Harness[t] # "claude", NEW g,
               msg'[i] = UserInput(t, g, j)
        PROVE  FALSE
    BY <1>3 DEF UserInput
  <1>4. CASE GrokSubmit(t, old, j)
    BY <1>1, <1>3, <1>4 DEF GrokSubmit, CommitWithMessage
  <1>5. CASE CodexSubmit(t, old, j)
    BY <1>1, <1>3, <1>5, EnqueuedIsStored DEF CodexSubmit, CommitWithMessage
  <1>6. CASE ClaudeSubmit(t, old, j)
    <2> DEFINE next == IF IsTerminal(old) THEN NextRun(old) ELSE Revised(old)
               waiting == <<NewLink(j, next.gen, None, None)>>
               new == [next EXCEPT !.pending = waiting, !.current = WithoutMail(@)]
    <2>1. CheckpointTaskWithMessage(t, new, old.gen, UserInput(t, new.gen, j))
      BY <1>6 DEF ClaudeSubmit, CommitWithMessage
    <2>2. old \in Row
      BY <1>2, KnownType
    <2>3. DOMAIN next = DOMAIN old /\ next.current = old.current
      BY <2>2, NextRunFields, RevisedFields DEF KeepsInputs
    <2> HIDE DEF next, waiting
    <2>4. new.current = WithoutMail(old.current)
      BY <2>2, <2>3 DEF Row
    <2> HIDE DEF new
    <2>5. new.current = None \/ new.current.mail = None
      BY <2>2, <2>4 DEF WithoutMail, Row, Link
    <2>6. /\ msg'[i] = UserInput(t, new.gen, j) /\ new \in Row
          /\ hist' = StoredRuns(t, new)
      BY <1>1, <2>1
    <2>7. hist'[t][new.gen] = new /\ new # None
      BY <2>6, NoneAssumption DEF StoredRuns, Row, LedgerInv, TypeOK
    <2>8. msg'[i].to = t /\ msg'[i].rgen = new.gen
      BY <2>6 DEF UserInput
    <2> QED
      BY <2>5, <2>7, <2>8 DEF UserDriven
  <1> QED
    BY <1>2, <1>4, <1>5, <1>6

\* Every input of the user, old or new, is in a run no result started.
LEMMA UserTurnsStep ==
    ASSUME LedgerInv, KnownRows, IdsMatch, HeldIsPast, OwnProcessStays, UserTurns,
           [ClientNext]_vars
    PROVE  UserTurns'
  <1> SUFFICES ASSUME NEW j \in MessageId, msg'[j] # None,
                      msg'[j].subject = "user_input", Harness[msg'[j].to] = "claude"
               PROVE  UserDriven(msg'[j].to, msg'[j].rgen,
                                 hist'[msg'[j].to][msg'[j].rgen])
    BY DEF UserTurns
  <1>1. CASE msg[j] = None
    BY <1>1, NewMailIsInput, PreparedIsDriven, SubmittedIsDriven
  <1>2. CASE msg[j] # None
    <2>1. SameLetter(msg[j], msg'[j]) /\ msg[j] \in Message
      BY <1>2, LettersStay DEF LedgerInv, TypeOK
    <2>2. UserDriven(msg[j].to, msg[j].rgen, hist[msg[j].to][msg[j].rgen])
      BY <1>2, <2>1 DEF SameLetter, UserTurns
    <2>3. msg[j].to \in Task /\ msg[j].rgen \in Generation
      BY <2>1 DEF Message
    <2> QED
      BY <2>1, <2>2, <2>3, UserDrivenStays DEF SameLetter
  <1> QED
    BY <1>1, <1>2

\* A run a result drives goes on in the process that served the run before; the
\* process of an own run could not have served an earlier one.
LEMMA ResultsStayBeforeUserTurns ==
    ASSUME LedgerInv, RowsTell, UserTurns,
           NEW i \in MessageId, NEW exact, ClaimTaskResult(i, exact),
           Harness[msg[i].to] = "claude",
           NEW j \in MessageId, msg[j] # None, msg[j].subject = "user_input",
           msg[j].to = msg[i].to
    PROVE  msg[j].rgen <= msg[i].rgen
  <1> DEFINE t == msg[i].to
             g == msg[j].rgen
             h == msg[i].rgen
             current == task[t]
  <1>1. /\ t \in Task /\ g \in Generation /\ h \in Generation
        /\ current # None /\ current.gen \in Generation
    BY DEF ClaimTaskResult, Waiting, LedgerInv, TypeOK, Message, Row
  <1>2. UserDriven(t, g, hist[t][g])
    BY DEF UserTurns
  <1>3. g <= current.gen /\ hist[t][g].gen = g
    BY <1>1, <1>2 DEF UserDriven, LedgerInv, HistoryMirrorsCurrent
  <1>4. CASE current.state # "completed"
    <2>1. current.gen = h
      BY <1>4 DEF ClaimTaskResult
    <2> QED
      BY <1>3, <2>1
  <1>5. CASE current.state = "completed"
    <2>1. ClaudeHistory(hist, msg, msg[i], current)
      BY <1>5 DEF ClaimTaskResult, ClaudeMayTake
    <2> SUFFICES ASSUME ~(g <= h)
                 PROVE  FALSE
      OBVIOUS
    <2>2. g \in h + 1 .. current.gen /\ g - 1 \in Generation /\ g - 1 # g
      <3>1. /\ g \in Nat /\ h \in Nat /\ current.gen \in Nat /\ h >= 1 /\ g <= MaxGen
            /\ g <= current.gen /\ ~(g <= h)
        BY <1>1, <1>3, LimitsAssumption DEF Generation
      <3> HIDE DEF g, h, current
      <3> QED
        BY <3>1, LimitsAssumption DEF Generation
    <2>3. /\ hist[t][g] # None /\ hist[t][g - 1] # None
          /\ DrivenByResult(hist, msg, t, hist[t][g - 1], hist[t][g], current)
      BY <2>1, <2>2 DEF ClaudeHistory
    <2>4. hist[t][g - 1].gen = g - 1
      BY <1>1, <2>2, <2>3 DEF LedgerInv, HistoryMirrorsCurrent
    <2>5. /\ hist[t][g].current # None /\ hist[t][g].current.mail # None
          /\ hist[t][g].current.sgen = g - 1 /\ SameProcess(hist[t][g], current)
      BY <2>3, <2>4 DEF DrivenByResult
    <2>6. hist[t][g].runtime = <<t, g>>
      <3> HIDE DEF g, h, current
      <3> QED
        BY <1>2, <2>2, <2>5 DEF UserDriven
    <2>7. hist[t][h] # None /\ SameProcess(hist[t][h], current)
      BY <2>1 DEF ClaudeHistory
    <2>8. hist[t][h].runtime = <<t, g>> /\ hist[t][h].gen = h
      BY <1>1, <2>5, <2>6, <2>7 DEF SameProcess, LedgerInv, HistoryMirrorsCurrent
    <2>9. hist[t][h] \in RowsOf(t)
      BY <1>1, <2>7 DEF RowsOf
    <2>10. OwnRuntime(t, hist[t][h])
      BY <1>1, <2>9 DEF RowsTell, RowTells
    <2>11. PICK k \in 1 .. h : <<t, g>> = <<t, k>>
      BY <2>7, <2>8, <2>10 DEF OwnRuntime, SameProcess
    <2> QED
      BY <1>1, <2>11 DEF Generation
  <1> QED
    BY <1>4, <1>5

-----------------------------------------------------------------------------
(* The invariant of the callers, and what it gives *)

\* What the rows, the messages and the memories of clients keep in common.
ClientInv ==
    /\ LedgerInv
    /\ KnownRows /\ HeldIsPast /\ OwnProcessStays
    /\ IdsMatch /\ NativeReceipts
    /\ RowsTell
    /\ ResultsOfServedRuns /\ OneUnconfirmedResult
    /\ UserTurns

\* Before the first launch there is no row, no message and no memory.
LEMMA ClientInitInv ==
    ASSUME ClientInit
    PROVE  ClientInv
  <1>1. Init /\ LedgerInv
    BY InitInv DEF ClientInit
  <1>2. /\ \A t \in Task : held[t] = None /\ RowsOf(t) = {}
        /\ \A i \in MessageId : msg[i] = None
        /\ KnownRows
    BY <1>1 DEF ClientInit, Init, RowsOf, KnownRows
  <1>3. \A t \in Task : SentResults(t) = {}
    BY <1>2 DEF SentResults
  <1> QED
    BY <1>1, <1>2, <1>3
    DEF ClientInv, HeldIsPast, OwnProcessStays, IdsMatch, NativeReceipts, RowsTell,
        ResultsOfServedRuns, OneUnconfirmedResult, UserTurns

\* Every step of every caller keeps the invariant.
LEMMA ClientNextInv ==
    ASSUME ClientInv, [ClientNext]_vars
    PROVE  ClientInv'
  <1>1. LedgerInv'
    BY ClientTakesNext DEF ClientInv
  <1> QED
    BY <1>1, KnownRowsStep, HeldIsPastStep, OwnProcessStep, IdsMatchStep,
       NativeReceiptsStep, RowsTellStep, ServedRunsStep, OneResultStep, UserTurnsStep
    DEF ClientInv

\* The invariant of the callers holds throughout.
LEMMA ClientInvariant == ClientSpec => []ClientInv
  BY ClientInitInv, ClientNextInv, PTL DEF ClientSpec

\* A grok process is never handed a second result before the first was answered,
\* whatever rows its worker holds and however its runs follow each other
\* (claim_result_if_current).
THEOREM OneResultAtATime == ClientSpec => []OneUnconfirmedResult
  BY ClientInvariant, PTL DEF ClientInv

\* No run was opened for an input whose receipt was not durable before
\* (TurnStarted in commit_runtime_event).
THEOREM RunsFollowReceipts == ClientSpec => []CurrentInputWasReceived
  <1>1. ClientInv => CurrentInputWasReceived
    <2> SUFFICES ASSUME ClientInv, NEW t \in Task, NEW g \in Generation,
                        hist[t][g] # None, hist[t][g].current # None
                 PROVE  Receipted(msg[hist[t][g].current.id])
      BY DEF CurrentInputWasReceived, Receipted
    <2>1. hist[t][g] \in RowsOf(t)
      BY DEF RowsOf
    <2> QED
      BY <2>1 DEF ClientInv, RowsTell, RowTells, DriverReceived
  <1> QED
    BY <1>1, ClientInvariant, PTL

\* No worker stores a native queue that grok_input_links would refuse to read.
THEOREM QueuesAreReadable == ClientSpec => []QueueReadable
  <1>1. ClientInv => QueueReadable
    <2> SUFFICES ASSUME ClientInv, NEW t \in Task, task[t] # None, Harness[t] = "grok"
                 PROVE  QueueWellFormed(task[t])
      BY DEF QueueReadable
    <2>1. task[t] \in RowsOf(t) /\ task[t] \in Row
      BY KnownIsKept DEF Known, ClientInv
    <2>2. Readable(task[t])
      BY <2>1 DEF ClientInv, RowsTell, RowTells
    <2> QED
      BY <2>1, <2>2, ReadableIsWellFormed
  <1> QED
    BY <1>1, ClientInvariant, PTL

\* A claude process is handed no result over a turn of the user, even when the
\* worker that claims it holds a row from before that turn
\* (claude_result_history_matches, send_user_request).
THEOREM ResultsStopAtUserTurns == ClientSpec => NoResultCrossesUserTurn
  <1>1. ClientInv /\ [ClientNext]_vars =>
          [\A i, j \in MessageId :
              /\ msg[i] # None /\ msg[i].state = "queued" /\ msg'[i].state = "sent"
              /\ IsResult(msg[i]) /\ Harness[msg[i].to] = "claude"
              /\ msg[j] # None /\ msg[j].subject = "user_input"
              /\ msg[j].to = msg[i].to
              => msg[j].rgen <= msg[i].rgen]_vars
    <2> SUFFICES ASSUME ClientInv, [ClientNext]_vars,
                        NEW i \in MessageId, NEW j \in MessageId,
                        msg[i] # None, msg[i].state = "queued", msg'[i].state = "sent",
                        IsResult(msg[i]), Harness[msg[i].to] = "claude",
                        msg[j] # None, msg[j].subject = "user_input",
                        msg[j].to = msg[i].to
                 PROVE  msg[j].rgen <= msg[i].rgen
      OBVIOUS
    <2>1. \E exact \in BOOLEAN : ClaimTaskResult(i, exact)
      BY ResultsAreClaimed DEF ClientInv
    <2> QED
      BY <2>1, ResultsStayBeforeUserTurns DEF ClientInv
  <1> QED
    BY <1>1, ClientInvariant, PTL DEF ClientSpec, NoResultCrossesUserTurn

=============================================================================
