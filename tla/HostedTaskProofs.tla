--------------------------- MODULE HostedTaskProofs ---------------------------
(***************************************************************************)
(* Proofs about HostedTask.  Behind counts the events that are done with:   *)
(* acknowledged, or marked by a replay.  The invariant says that the rows   *)
(* depict the first Behind events of the log, or one event more, and that   *)
(* the link knows of the log what a reader of as many events knows.  All    *)
(* writes of an event keep this, made once or again.                        *)
(***************************************************************************)
EXTENDS HostedTask, SequenceTheorems, TLAPS

-----------------------------------------------------------------------------
(* What the first n events say *)

Told(events, kind, m, n) == \E i \in 1..n : events[i].kind = kind /\ events[i].msg = m
InTurn(events, m, n) == Told(events, "started", m, n) /\ ~Told(events, "finished", m, n)
Quiet(events, n) == \A m \in Message : ~InTurn(events, m, n)

\* A turn starts once, while no other is in course, and finishes in its turn.  When the
\* command for it is accepted is left open: before the start, or after, or never.
InOrder(events) ==
    /\ \A i \in 1..Len(events) :
        LET m == events[i].msg IN
        /\ events[i].kind = "started" => ~Told(events, "started", m, i - 1) /\ Quiet(events, i - 1)
        /\ events[i].kind = "finished" => InTurn(events, m, i - 1)
    /\ \A n \in 0..Len(events) : \A m, k \in Message :
          InTurn(events, m, n) /\ InTurn(events, k, n) => m = k

\* The protocol state of a reader of n events.  Of turns that have started, readers
\* differ in whether they still count them as accepted.
Knows(k, n) ==
    /\ \A m \in Message : k.active = m <=> InTurn(log, m, n)
    /\ \A m \in Message : Told(log, "accepted", m, n) /\ ~Told(log, "started", m, n) => m \in k.accepted
    /\ k.finished = {m \in Message : Told(log, "finished", m, n)}

Row(e) == [turn |-> e.msg, state |-> e.outcome]

\* The rows after the first n events: each turn that started has its run, an outcome is
\* in the run of its turn, and a turn in course is in the last run; between turns the
\* last run is over, or is opened for a turn to come.
HaveRuns(n) ==
    \A m \in Message : Told(log, "started", m, n) <=> \E g \in DOMAIN run : run[g].turn = m
HaveOutcomes(n) ==
    \A i \in 1..n : log[i].kind = "finished" => \E g \in DOMAIN run : run[g] = Row(log[i])
InCourse(n) == \A m \in Message : InTurn(log, m, n) => run[Gen].turn = m /\ ~IsTerminal
Between(n) == Quiet(log, n) => IsTerminal \/ run[Gen].turn = None

Depicted(n) == HaveRuns(n) /\ HaveOutcomes(n) /\ InCourse(n) /\ Between(n)

\* And no run was opened since: the n-th event can be committed again.
Newly(n) == Depicted(n) /\ (log[n].kind = "finished" => run[Gen] = Row(log[n]))

\* The outcome an event reports was enqueued for the parent.
Sent(i) == log[i].kind = "finished" => \E g \in results : run[g] = Row(log[i])

-----------------------------------------------------------------------------
(* The invariant, in parts *)

\* The reader is at the first event not done with and knows what went before; only an
\* exited host has a mark.
LinkInv ==
    /\ mark # None => stage = "exited"
    /\ link.mode = "replay" => stage = "exited"
    /\ link.mode = "catchup" => link.upto <= Len(log)
    /\ Behind <= Len(log)
    /\ link.owner <= epoch
    /\ Reading => link.at = Behind
    /\ ~Reading => link.step = "next"
    /\ Reading /\ link.step # "next" => Behind < Len(log)
    /\ link.step = "opened" => Due.kind = "started"
    /\ link.step \in {"next", "opened"} /\ Reading => Knows(link, link.at)
    /\ link.step \in {"stored", "asked"} => Knows(link, link.at + 1)

\* The event that is due may be in the rows: its reader is at it, or an earlier reader
\* was.  A live worker between two events has no such event before it; it may take a
\* command then, and open a run.
Repeated ==
    \/ link.step # "next"
    \/ /\ link.mode # "live"
       /\ Behind < (IF link.mode = "catchup" THEN link.upto ELSE Len(log))

\* The rows are at that event, or one further, and its outcomes are on their way.
RowsInv ==
    /\ Depicted(Behind) \/ (Repeated /\ Newly(Behind + 1))
    /\ link.step # "next" => Newly(Behind + 1)
    /\ \A i \in 1..Behind : Sent(i)
    /\ link.step = "asked" => Sent(Behind + 1)

\* An acknowledgement under way of the owner of now has no reader beside it, and
\* is of an event that is stored.
Settled(l) ==
    \/ l.through <= acked
    \/ /\ l.through = acked + 1 /\ acked < Len(log)
       /\ Depicted(acked + 1) /\ Sent(acked + 1)
LateInv ==
    stage = "open" => \A l \in late :
        /\ l.owner <= epoch
        /\ l.owner = epoch => ~Reading /\ Settled(l)

HostedInv == HostedTypeOK /\ InOrder(log) /\ LinkInv /\ RowsInv /\ LateInv

-----------------------------------------------------------------------------
(* The log *)

LEMMA ToldNext ==
    ASSUME NEW events, NEW kind, NEW m, NEW n \in Nat
    PROVE  /\ ~Told(events, kind, m, 0)
           /\ Told(events, kind, m, n + 1) <=>
                 \/ Told(events, kind, m, n)
                 \/ events[n + 1].kind = kind /\ events[n + 1].msg = m
  <1>1. 1..(n + 1) = (1..n) \cup {n + 1}
    OBVIOUS
  <1> QED
    BY <1>1 DEF Told

\* What the log said stays said.
LEMMA ToldPrefix ==
    ASSUME NEW events, NEW more, NEW n \in Nat, \A i \in 1..n : more[i] = events[i]
    PROVE  \A kind, m : Told(more, kind, m, n) <=> Told(events, kind, m, n)
  BY DEF Told

LEMMA ToldOther ==
    ASSUME NEW events, NEW n \in Nat, NEW kind, events[n + 1].kind # kind
    PROVE  \A m : Told(events, kind, m, n + 1) <=> Told(events, kind, m, n)
  BY ToldNext

LEMMA ToldThis ==
    ASSUME NEW events, NEW n \in Nat, NEW kind, events[n + 1].kind = kind
    PROVE  \A m : Told(events, kind, m, n + 1) <=> Told(events, kind, m, n) \/ m = events[n + 1].msg
  <1> SUFFICES ASSUME NEW m
               PROVE  Told(events, kind, m, n + 1) <=> Told(events, kind, m, n) \/ m = events[n + 1].msg
    OBVIOUS
  <1>1. Told(events, kind, m, n + 1) <=>
            \/ Told(events, kind, m, n)
            \/ events[n + 1].kind = kind /\ events[n + 1].msg = m
    BY ToldNext
  <1> QED
    BY <1>1

LEMMA InTurnNext ==
    ASSUME NEW events, NEW m, NEW n \in Nat
    PROVE  /\ ~InTurn(events, m, 0)
           /\ events[n + 1].kind \notin {"started", "finished"} =>
                 InTurn(events, m, n + 1) <=> InTurn(events, m, n)
  BY ToldNext DEF InTurn

\* The operators of RuntimeEvents, of the whole log and of the part up to n.
LEMMA ReportedIsTold ==
    ASSUME NEW events \in Seq(Event)
    PROVE  \A kind, m : Reported(events, kind, m) <=> Told(events, kind, m, Len(events))
  BY LenProperties DEF Reported, Told

LEMMA TurningIsInTurn ==
    ASSUME NEW events \in Seq(Event)
    PROVE  Turning(events) = {m \in Message : InTurn(events, m, Len(events))}
  BY ReportedIsTold DEF Turning, InTurn

LEMMA PartOfLog ==
    ASSUME NEW events \in Seq(Event), NEW n \in 0..Len(events)
    PROVE  /\ SubSeq(events, 1, n) \in Seq(Event) /\ Len(SubSeq(events, 1, n)) = n
           /\ \A i \in 1..n : SubSeq(events, 1, n)[i] = events[i]
  <1>1. n \in Int /\ \A i \in 1..n : events[i] \in Event
    BY LenProperties, ElementOfSeq
  <1> QED
    BY <1>1, SubSeqProperties

\* Links that a connection, or a snapshot, begins with, and one that goes on.
LEMMA LinkFrom ==
    ASSUME NEW n \in Nat, NEW active \in Message \cup {None},
           NEW accepted \in SUBSET Message, NEW finished \in SUBSET Message
    PROVE  [NoLink EXCEPT !.at = n, !.active = active, !.accepted = accepted,
                          !.finished = finished] \in Link
  BY DEF NoLink, Link

LEMMA LinkOwned ==
    ASSUME NEW k \in Link, NEW mode \in {"catchup", "replay"}, NEW owner \in Nat, NEW upto \in Nat
    PROVE  /\ [k EXCEPT !.mode = mode, !.owner = owner, !.upto = upto] \in Link
           /\ [k EXCEPT !.mode = mode, !.upto = upto] \in Link
  BY DEF Link

LEMMA LinkGoesOn ==
    ASSUME NEW k \in Link, NEW n \in Nat
    PROVE  /\ [k EXCEPT !.at = n, !.step = "next"] \in Link
           /\ [k EXCEPT !.mode = "live"] \in Link
  BY DEF Link

\* What is reported as finished was started.
LEMMA FinishedWasStarted ==
    ASSUME log \in Seq(Event), InOrder(log), NEW n \in 0..Len(log), NEW m,
           Told(log, "finished", m, n)
    PROVE  Told(log, "started", m, n)
  <1>1. PICK i \in 1..n : log[i].kind = "finished" /\ log[i].msg = m
    BY DEF Told
  <1>2. Len(log) \in Nat
    BY LenProperties
  <1>3. i \in 1..Len(log)
    BY <1>1, <1>2
  <1>4. Told(log, "started", m, i - 1)
    BY <1>1, <1>3 DEF InOrder, InTurn
  <1> QED
    BY <1>1, <1>2, <1>4 DEF Told

LEMMA AfterKnows ==
    ASSUME log \in Seq(Event), InOrder(log), NEW n \in 0..Len(log)
    PROVE  /\ Knows(After(n), n) /\ After(n).active \in Message \cup {None}
           /\ After(n).accepted \subseteq Message /\ After(n).finished \subseteq Message
           /\ After(n) \in Link /\ After(n).at = n /\ After(n).step = "next"
  <1> DEFINE seenOf == SubSeq(log, 1, n)
  <1>1. seenOf \in Seq(Event) /\ Len(seenOf) = n /\ \A i \in 1..n : seenOf[i] = log[i]
    BY PartOfLog
  <1>2. n \in Nat
    BY LenProperties
  <1> HIDE DEF seenOf
  <1>3. \A kind, m : Reported(seenOf, kind, m) <=> Told(log, kind, m, n)
    BY <1>1, <1>2, ReportedIsTold, ToldPrefix
  <1>4. Turning(seenOf) = {m \in Message : InTurn(log, m, n)}
    BY <1>3 DEF Turning, InTurn
  <1> DEFINE turns == Turning(seenOf)
             active == IF turns = {} THEN None ELSE CHOOSE m \in turns : TRUE
             accepted == Awaited(seenOf)
             finished == {m \in Message : Reported(seenOf, "finished", m)}
  <1>5. After(n) = [NoLink EXCEPT !.at = n, !.active = active, !.accepted = accepted,
                                  !.finished = finished]
    BY DEF After, seenOf
  <1>6. \A m \in Message : Told(log, "accepted", m, n) /\ ~Told(log, "started", m, n) => m \in accepted
    <2> SUFFICES ASSUME NEW m \in Message, Told(log, "accepted", m, n), ~Told(log, "started", m, n)
                 PROVE  m \in accepted
      OBVIOUS
    <2>1. PICK i \in 1..n : log[i].kind = "accepted" /\ log[i].msg = m
      BY DEF Told
    <2>2. ~Told(log, "finished", m, n)
      BY FinishedWasStarted
    <2>3. \A j \in 1..n : log[j].kind \in {"started", "finished"} => log[j].msg # m
      BY <2>2 DEF Told
    <2>4. i \in DOMAIN seenOf /\ i + 1..Len(seenOf) \subseteq 1..n
      BY <1>1, <1>2, <2>1, LenProperties
    <2> QED
      BY <1>1, <2>1, <2>3, <2>4 DEF Awaited
  <1>7. finished = {m \in Message : Told(log, "finished", m, n)}
    BY <1>3
  <1>8. active \in Message \cup {None} /\ \A m \in Message : active = m <=> InTurn(log, m, n)
    <2>1. CASE turns = {}
      BY <1>4, <2>1, NothingAssumption
    <2>2. CASE turns # {}
      <3>1. active \in turns
        BY <2>2
      <3>2. \A m, k \in turns : m = k
        BY <1>4 DEF InOrder
      <3> QED
        BY <1>4, <3>1, <3>2
    <2> QED
      BY <2>1, <2>2
  <1>12. accepted \subseteq Message
    BY DEF Awaited
  <1> HIDE DEF active, accepted, finished
  <1>9. /\ After(n).active = active /\ After(n).accepted = accepted
        /\ After(n).finished = finished /\ After(n).at = n /\ After(n).step = "next"
    BY <1>5 DEF NoLink
  <1>10. accepted \subseteq Message /\ finished \subseteq Message
    BY <1>7, <1>12
  <1>11. After(n) \in Link
    <2>1. /\ active \in Message \cup {None} /\ accepted \in SUBSET Message
          /\ finished \in SUBSET Message
      BY <1>8, <1>10
    <2>2. [NoLink EXCEPT !.at = n, !.active = active, !.accepted = accepted,
                         !.finished = finished] \in Link
      BY <1>2, <2>1, LinkFrom, Zenon
    <2> QED
      BY <1>5, <2>2
  <1> QED
    BY <1>6, <1>7, <1>8, <1>9, <1>10, <1>11 DEF Knows

\* Reports of the CLI come in order.
LEMMA ReportKeepsOrder ==
    ASSUME log \in Seq(Event), InOrder(log), sent \subseteq Message,
           NEW e \in Possible(sent), log' = Append(log, e)
    PROVE  /\ log' \in Seq(Event) /\ Len(log') = Len(log) + 1 /\ InOrder(log')
           /\ \A i \in 1..Len(log) : log'[i] = log[i]
  <1>1. e \in Event
    BY DEF Possible, Reports, Event, Turning
  <1>2. /\ log' \in Seq(Event) /\ Len(log') = Len(log) + 1 /\ Len(log) \in Nat
        /\ log'[Len(log) + 1] = e /\ \A i \in 1..Len(log) : log'[i] = log[i]
    BY <1>1, LenProperties
  <1> DEFINE n == Len(log)
  <1>3. \A i \in 0..n : \A kind, m : Told(log', kind, m, i) <=> Told(log, kind, m, i)
    BY <1>2 DEF Told
  <1>4. \A i \in 0..n : \A m : InTurn(log', m, i) <=> InTurn(log, m, i)
    BY <1>3 DEF InTurn
  <1>5. /\ e.kind = "started" => ~Told(log, "started", e.msg, n) /\ Quiet(log, n)
        /\ e.kind = "finished" => InTurn(log, e.msg, n)
    <2>1. CASE e.kind = "started"
      <3>1. UnderWay(log) \subseteq {e.msg} /\ ~Reported(log, "started", e.msg)
        BY <2>1 DEF Possible, Reports
      <3>2. Turning(log) = {}
        BY <3>1 DEF Turning, UnderWay
      <3> QED
        BY <2>1, <3>1, <3>2, ReportedIsTold, TurningIsInTurn DEF Quiet
    <2>2. CASE e.kind = "finished"
      <3>1. e.msg \in Turning(log)
        BY <2>2 DEF Possible, Reports
      <3> QED
        BY <2>2, <3>1, TurningIsInTurn
    <2> QED
      BY <2>1, <2>2
  <1>6. ASSUME NEW i \in 1..Len(log')
        PROVE  LET m == log'[i].msg IN
               /\ log'[i].kind = "started" =>
                     ~Told(log', "started", m, i - 1) /\ Quiet(log', i - 1)
               /\ log'[i].kind = "finished" => InTurn(log', m, i - 1)
    <2>1. i - 1 \in 0..n
      BY <1>2
    <2>2. CASE i = n + 1
      <3>1. i - 1 = n /\ log'[i] = e
        BY <1>2, <2>2
      <3> QED
        BY <1>3, <1>4, <1>5, <2>1, <3>1 DEF Quiet
    <2>3. CASE i \in 1..n
      <3>1. log'[i] = log[i]
        BY <1>2, <2>3
      <3> QED
        BY <1>3, <1>4, <2>1, <2>3, <3>1 DEF Quiet, InOrder
    <2> QED
      BY <1>2, <2>2, <2>3
  <1>7. ASSUME NEW i \in 0..Len(log'), NEW m \in Message, NEW k \in Message,
               InTurn(log', m, i), InTurn(log', k, i)
        PROVE  m = k
    <2>1. CASE i \in 0..n
      BY <1>4, <1>7, <2>1 DEF InOrder
    <2>2. CASE i = n + 1
      <3>1. ASSUME NEW x \in Message, InTurn(log', x, i), ~InTurn(log, x, n)
            PROVE  e.kind = "started" /\ e.msg = x
        <4>1. \A kind : Told(log', kind, x, n + 1) <=>
                  Told(log', kind, x, n) \/ (log'[n + 1].kind = kind /\ log'[n + 1].msg = x)
          <5> DEFINE more == log'
          <5>1. n \in Nat
            BY <1>2
          <5> HIDE DEF n, more
          <5>2. \A kind : Told(more, kind, x, n + 1) <=>
                    Told(more, kind, x, n) \/ (more[n + 1].kind = kind /\ more[n + 1].msg = x)
            BY <5>1, ToldNext
          <5> QED
            BY <5>2 DEF more
        <4>2. \A kind : Told(log', kind, x, n) <=> Told(log, kind, x, n)
          BY <1>2, <1>3
        <4>3. Told(log', "started", x, n + 1) /\ ~Told(log', "finished", x, n + 1)
          BY <2>2, <3>1 DEF InTurn
        <4>4. log'[n + 1].kind = "started" /\ log'[n + 1].msg = x
          BY <3>1, <4>1, <4>2, <4>3 DEF InTurn
        <4> QED
          BY <1>2, <4>4
      <3>2. e.kind = "started" => Quiet(log, n)
        BY <1>5
      <3> QED
        BY <1>2, <1>7, <3>1, <3>2 DEF Quiet, InOrder
    <2> QED
      BY <1>2, <2>1, <2>2
  <1> QED
    BY <1>2, <1>6, <1>7 DEF InOrder

-----------------------------------------------------------------------------
(* The rows *)

RunRow == [turn : Message \cup {None}, state : State]
RowTypes == run \in Seq(RunRow) /\ run # <<>>

LEMMA GenIsLast ==
    ASSUME RowTypes
    PROVE  /\ Gen \in Nat \ {0} /\ DOMAIN run = 1..Gen
           /\ \A g \in 1..Gen : run[g] \in RunRow
  BY LenProperties, EmptySeq DEF RowTypes, Gen

LEMMA SeqWritten ==
    ASSUME NEW S, NEW seq \in Seq(S), NEW i \in 1..Len(seq), NEW e \in S,
           NEW t, t = [seq EXCEPT ![i] = e]
    PROVE  /\ t \in Seq(S) /\ Len(t) = Len(seq)
           /\ \A j \in 1..Len(seq) : t[j] = IF j = i THEN e ELSE seq[j]
  <1>1. /\ [seq EXCEPT ![i] = e] \in Seq(S)
        /\ Len([seq EXCEPT ![i] = e]) = Len(seq)
        /\ \A j \in 1..Len(seq) : [seq EXCEPT ![i] = e][j] = IF j = i THEN e ELSE seq[j]
    BY ExceptSeq
  <1> QED
    BY <1>1

LEMMA RowWritten ==
    ASSUME RowTypes, NEW r \in RunRow, run' = [run EXCEPT ![Gen] = r]
    PROVE  /\ RowTypes' /\ Gen' = Gen /\ run'[Gen] = r
           /\ \A g \in 1..Gen : g # Gen => run'[g] = run[g]
  <1> DEFINE i == Gen
  <1>1. i \in 1..Len(run) /\ run \in Seq(RunRow) /\ i = Len(run) /\ i \in Nat \ {0}
    BY GenIsLast DEF RowTypes, Gen
  <1>2. run' = [run EXCEPT ![i] = r]
    OBVIOUS
  <1> HIDE DEF i
  <1>3. /\ run' \in Seq(RunRow) /\ Len(run') = Len(run)
        /\ \A j \in 1..Len(run) : run'[j] = IF j = i THEN r ELSE run[j]
    <2> DEFINE new == run'
    <2>1. new = [run EXCEPT ![i] = r]
      BY <1>2
    <2> HIDE DEF new, RunRow
    <2>2. /\ new \in Seq(RunRow) /\ Len(new) = Len(run)
          /\ \A j \in 1..Len(run) : new[j] = IF j = i THEN r ELSE run[j]
      BY <1>1, <2>1, SeqWritten
    <2> QED
      BY <2>2 DEF new
  <1>4. run' # <<>>
    BY <1>1, <1>3, EmptySeq
  <1>5. run'[i] = r /\ \A j \in 1..i : j # i => run'[j] = run[j]
    BY <1>1, <1>3
  <1> QED
    BY <1>1, <1>3, <1>4, <1>5 DEF RowTypes, Gen, i

LEMMA RowMoved ==
    ASSUME RowTypes, NEW to \in State, run' = Moved(to)
    PROVE  /\ RowTypes' /\ Gen' = Gen
           /\ run'[Gen] = [turn |-> run[Gen].turn, state |-> to]
           /\ \A g \in 1..Gen : g # Gen => run'[g] = run[g]
  <1> DEFINE r == [turn |-> run[Gen].turn, state |-> to]
  <1>1. run[Gen] \in RunRow
    BY GenIsLast
  <1>2. [run[Gen] EXCEPT !.state = to] = r
    BY <1>1 DEF RunRow
  <1>3. run' = [run EXCEPT ![Gen] = [run[Gen] EXCEPT !.state = to]]
    BY DEF Moved
  <1>4. r \in RunRow
    BY <1>1 DEF RunRow
  <1> HIDE DEF r
  <1>5. run' = [run EXCEPT ![Gen] = r]
    BY <1>2, <1>3
  <1>6. /\ RowTypes' /\ Gen' = Gen /\ run'[Gen] = r
        /\ \A g \in 1..Gen : g # Gen => run'[g] = run[g]
    BY <1>4, <1>5, RowWritten
  <1> QED
    BY <1>6 DEF r

LEMMA RowAdded ==
    ASSUME RowTypes, NEW r \in RunRow, run' = Append(run, r)
    PROVE  /\ RowTypes' /\ Gen' = Gen + 1 /\ run'[Gen + 1] = r
           /\ \A g \in 1..Gen : run'[g] = run[g]
  BY GenIsLast DEF RowTypes, Gen

LEMMA EndedIsNotActive ==
    /\ Outcome \subseteq State /\ {"queued", "running"} \subseteq State \ Outcome
    /\ IsActive => ~IsTerminal
    /\ {"unconfirmed", "disconnected"} \subseteq State \ Outcome
  BY TaskAssumption DEF State, Active, TaskAssumption, IsActive, IsTerminal

LEMMA DueTypes ==
    ASSUME log \in Seq(Event), NEW i \in 1..Len(log)
    PROVE  /\ log[i] \in Event
           /\ log[i].kind \in {"accepted", "started", "finished"} => log[i].msg \in Message
           /\ log[i].kind = "finished" => log[i].outcome \in Outcome
  BY ElementOfSeq DEF Event

LEMMA DepictedOnMove ==
    ASSUME RowTypes, log \in Seq(Event), NEW n \in 0..Len(log), Depicted(n), ~IsTerminal,
           NEW to \in State \ Outcome, run' = Moved(to), log' = log
    PROVE  Depicted(n)'
  <1>1. /\ Gen' = Gen /\ run'[Gen] = [turn |-> run[Gen].turn, state |-> to]
        /\ \A g \in 1..Gen : g # Gen => run'[g] = run[g]
        /\ RowTypes' /\ Gen \in 1..Gen /\ DOMAIN run = 1..Gen /\ DOMAIN run' = 1..Gen
    <2>1. /\ RowTypes' /\ Gen' = Gen /\ run'[Gen] = [turn |-> run[Gen].turn, state |-> to]
          /\ \A g \in 1..Gen : g # Gen => run'[g] = run[g]
      BY RowMoved
    <2>2. DOMAIN run' = 1..Gen'
      BY <2>1, LenProperties DEF RowTypes, Gen
    <2> QED
      BY <2>1, <2>2, GenIsLast
  <1>2. \A g \in 1..Gen : run'[g].turn = run[g].turn
    BY <1>1
  <1>3. ASSUME NEW i \in 1..n, log[i].kind = "finished"
        PROVE  log[i].outcome \in Outcome
    BY <1>3, DueTypes, LenProperties
  <1>4. ASSUME NEW i \in 1..n, log[i].kind = "finished", NEW g \in 1..Gen,
               run[g] = Row(log[i])
        PROVE  g # Gen
    BY <1>3, <1>4 DEF Row, IsTerminal, Now
  <1>5. ~IsTerminal'
    BY <1>1 DEF IsTerminal, Now
  <1>6. HaveRuns(n)'
    BY <1>1, <1>2 DEF Depicted, HaveRuns
  <1>7. HaveOutcomes(n)'
    <2> SUFFICES ASSUME NEW i \in 1..n, log[i].kind = "finished"
                 PROVE  \E g \in 1..Gen : run'[g] = Row(log[i])
      BY <1>1 DEF HaveOutcomes
    <2>1. PICK g \in 1..Gen : run[g] = Row(log[i])
      BY <1>1 DEF Depicted, HaveOutcomes
    <2> QED
      BY <1>1, <1>4, <2>1
  <1>8. InCourse(n)' /\ Between(n)'
    BY <1>1, <1>2, <1>5 DEF Depicted, InCourse, Between
  <1> QED
    BY <1>6, <1>7, <1>8 DEF Depicted

\* A run that is opened for a turn to come.
RowsOpen ==
    /\ log' = log /\ IsTerminal
    /\ run' = Append(run, [turn |-> None, state |-> "queued"])

LEMMA OpenedRows ==
    ASSUME RowTypes, RowsOpen
    PROVE  /\ RowTypes' /\ Gen' = Gen + 1 /\ DOMAIN run = 1..Gen /\ DOMAIN run' = 1..(Gen + 1)
           /\ run'[Gen + 1] = [turn |-> None, state |-> "queued"] /\ Gen \in Nat \ {0}
           /\ \A g \in 1..Gen : run'[g] = run[g]
  <1>1. [turn |-> None, state |-> "queued"] \in RunRow
    BY DEF RunRow, State, Active
  <1>2. /\ RowTypes' /\ Gen' = Gen + 1 /\ run'[Gen + 1] = [turn |-> None, state |-> "queued"]
        /\ \A g \in 1..Gen : run'[g] = run[g]
    BY <1>1, RowAdded DEF RowsOpen
  <1> QED
    BY <1>2, GenIsLast, LenProperties DEF RowTypes, Gen

LEMMA DepictedOnOpen ==
    ASSUME RowTypes, NEW n \in Nat, Depicted(n), RowsOpen
    PROVE  Depicted(n)'
  <1>1. /\ Gen' = Gen + 1 /\ DOMAIN run = 1..Gen /\ DOMAIN run' = 1..(Gen + 1)
        /\ run'[Gen + 1].turn = None /\ Gen \in Nat \ {0} /\ log' = log
        /\ \A g \in 1..Gen : run'[g] = run[g]
    BY OpenedRows DEF RowsOpen
  <1>2. HaveRuns(n)'
    <2> SUFFICES ASSUME NEW m \in Message
                 PROVE  Told(log, "started", m, n) <=> \E g \in 1..(Gen + 1) : run'[g].turn = m
      BY <1>1 DEF HaveRuns
    <2>1. Told(log, "started", m, n) <=> \E g \in 1..Gen : run[g].turn = m
      BY <1>1 DEF Depicted, HaveRuns
    <2>2. m # None
      BY NothingAssumption
    <2>3. \A g \in 1..(Gen + 1) : run'[g].turn = m => g \in 1..Gen
      BY <1>1, <2>2
    <2>4. 1..Gen \subseteq 1..(Gen + 1)
      BY <1>1
    <2> QED
      BY <1>1, <2>1, <2>3, <2>4
  <1>3. HaveOutcomes(n)'
    <2> SUFFICES ASSUME NEW i \in 1..n, log[i].kind = "finished"
                 PROVE  \E g \in 1..(Gen + 1) : run'[g] = Row(log[i])
      BY <1>1 DEF HaveOutcomes
    <2>1. PICK g \in 1..Gen : run[g] = Row(log[i])
      BY <1>1 DEF Depicted, HaveOutcomes
    <2> QED
      BY <1>1, <2>1
  <1>4. InCourse(n)' /\ Between(n)'
    BY <1>1 DEF Depicted, InCourse, Between, RowsOpen
  <1> QED
    BY <1>2, <1>3, <1>4 DEF Depicted

\* An event that is not of a turn shows in no row.
LEMMA DepictedSkip ==
    ASSUME NEW n \in Nat, Depicted(n), log[n + 1].kind \notin {"started", "finished"}
    PROVE  Newly(n + 1)
  <1>1. \A m : /\ Told(log, "started", m, n + 1) <=> Told(log, "started", m, n)
               /\ InTurn(log, m, n + 1) <=> InTurn(log, m, n)
    BY ToldNext, InTurnNext
  <1>2. Quiet(log, n + 1) <=> Quiet(log, n)
    BY <1>1 DEF Quiet
  <1>3. HaveRuns(n + 1) /\ InCourse(n + 1) /\ Between(n + 1)
    BY <1>1, <1>2 DEF Depicted, HaveRuns, InCourse, Between
  <1>4. \A i \in 1..(n + 1) : log[i].kind = "finished" => i \in 1..n
    OBVIOUS
  <1>5. HaveOutcomes(n + 1)
    BY <1>4 DEF Depicted, HaveOutcomes
  <1> QED
    BY <1>3, <1>5 DEF Depicted, Newly

\* What happens later does not change the picture of what happened.
LEMMA DepictedLater ==
    ASSUME NEW n \in Nat, Depicted(n), run' = run,
           \A i \in 1..n : log'[i] = log[i]
    PROVE  Depicted(n)'
  <1> DEFINE more == log'
  <1>1. \A i \in 1..n : more[i] = log[i]
    OBVIOUS
  <1> HIDE DEF more
  <1>2. \A kind, m : Told(more, kind, m, n) <=> Told(log, kind, m, n)
    BY <1>1, ToldPrefix
  <1>3. \A m : InTurn(more, m, n) <=> InTurn(log, m, n)
    BY <1>2 DEF InTurn
  <1>4. Quiet(more, n) <=> Quiet(log, n)
    BY <1>3 DEF Quiet
  <1> USE DEF more
  <1>5. Gen' = Gen /\ IsTerminal' = IsTerminal
    BY DEF Gen, IsTerminal, Now
  <1>6. HaveRuns(n)' /\ InCourse(n)' /\ Between(n)'
    BY <1>2, <1>3, <1>4, <1>5 DEF Depicted, HaveRuns, InCourse, Between
  <1>7. HaveOutcomes(n)'
    BY <1>1 DEF Depicted, HaveOutcomes
  <1> QED
    BY <1>6, <1>7 DEF Depicted

-----------------------------------------------------------------------------
(* The rows when a turn starts or finishes *)

Coming(n) == n \in Nat /\ n < Len(log)

LEMMA EventTypes ==
    ASSUME log \in Seq(Event), NEW n, Coming(n)
    PROVE  /\ n \in 0..Len(log) /\ n + 1 \in 1..Len(log) /\ Len(log) \in Nat
           /\ n + 1 \in 0..Len(log)
           /\ log[n + 1].kind \in {"accepted", "started", "finished"} => log[n + 1].msg \in Message
           /\ log[n + 1].kind = "finished" => log[n + 1].outcome \in Outcome
  <1>1. n \in 0..Len(log) /\ n + 1 \in 1..Len(log) /\ Len(log) \in Nat /\ n + 1 \in 0..Len(log)
    BY LenProperties DEF Coming
  <1> QED
    BY <1>1, DueTypes

\* A turn that starts is new, and it is the only one.
LEMMA StartedIsNew ==
    ASSUME log \in Seq(Event), InOrder(log), NEW n, Coming(n), log[n + 1].kind = "started"
    PROVE  LET m == log[n + 1].msg IN
           /\ m \in Message
           /\ ~Told(log, "started", m, n) /\ ~Told(log, "finished", m, n) /\ Quiet(log, n)
           /\ \A x \in Message :
                 /\ InTurn(log, x, n + 1) <=> x = m
                 /\ Told(log, "started", x, n + 1) <=> Told(log, "started", x, n) \/ x = m
           /\ ~Quiet(log, n + 1)
  <1> DEFINE m == log[n + 1].msg
  <1>1. /\ n \in 0..Len(log) /\ n + 1 \in 1..Len(log) /\ m \in Message /\ n \in Nat
        /\ (n + 1) - 1 = n
    BY EventTypes DEF Coming
  <1>2. ~Told(log, "started", m, n) /\ Quiet(log, n)
    BY <1>1 DEF InOrder
  <1>3. ~Told(log, "finished", m, n)
    BY <1>1, <1>2, FinishedWasStarted
  <1>4. \A x \in Message :
           /\ Told(log, "started", x, n + 1) <=> Told(log, "started", x, n) \/ x = m
           /\ Told(log, "finished", x, n + 1) <=> Told(log, "finished", x, n)
    <2> TAKE x \in Message
    <2>1. 1..(n + 1) = (1..n) \cup {n + 1}
      BY <1>1
    <2>2. Told(log, "started", x, n + 1) <=>
             \/ Told(log, "started", x, n)
             \/ log[n + 1].kind = "started" /\ log[n + 1].msg = x
      BY <2>1 DEF Told
    <2>3. Told(log, "finished", x, n + 1) <=>
             \/ Told(log, "finished", x, n)
             \/ log[n + 1].kind = "finished" /\ log[n + 1].msg = x
      BY <2>1 DEF Told
    <2> QED
      BY <2>2, <2>3
  <1>5. \A x \in Message : InTurn(log, x, n + 1) <=> x = m
    BY <1>2, <1>3, <1>4 DEF InTurn, Quiet
  <1> QED
    BY <1>1, <1>2, <1>3, <1>4, <1>5 DEF Quiet

\* So is a turn that finishes.
LEMMA FinishedWasIn ==
    ASSUME log \in Seq(Event), InOrder(log), NEW n, Coming(n), log[n + 1].kind = "finished"
    PROVE  LET m == log[n + 1].msg IN
           /\ m \in Message /\ InTurn(log, m, n) /\ log[n + 1].outcome \in Outcome
           /\ Told(log, "finished", m, n + 1)
           /\ \A x \in Message :
                 /\ InTurn(log, x, n) => x = m
                 /\ ~InTurn(log, x, n + 1)
                 /\ Told(log, "started", x, n + 1) <=> Told(log, "started", x, n)
  <1> DEFINE m == log[n + 1].msg
  <1>1. /\ n \in 0..Len(log) /\ n + 1 \in 1..Len(log) /\ m \in Message /\ n \in Nat
        /\ (n + 1) - 1 = n /\ log[n + 1].outcome \in Outcome
    BY EventTypes DEF Coming
  <1>2. InTurn(log, m, n)
    BY <1>1 DEF InOrder
  <1>3. \A x \in Message : InTurn(log, x, n) => x = m
    BY <1>1, <1>2 DEF InOrder
  <1>4. \A x \in Message :
           /\ Told(log, "started", x, n + 1) <=> Told(log, "started", x, n)
           /\ Told(log, "finished", x, n + 1) <=> Told(log, "finished", x, n) \/ x = m
    <2>1. log[n + 1].kind # "started"
      OBVIOUS
    <2>2. \A x : Told(log, "started", x, n + 1) <=> Told(log, "started", x, n)
      BY <1>1, <2>1, ToldOther
    <2>3. \A x : Told(log, "finished", x, n + 1) <=> Told(log, "finished", x, n) \/ x = m
      BY <1>1, ToldThis
    <2> QED
      BY <2>2, <2>3
  <1>5. \A x \in Message : ~InTurn(log, x, n + 1)
    BY <1>3, <1>4 DEF InTurn
  <1> QED
    BY <1>1, <1>2, <1>3, <1>4, <1>5

\* The row that a turn starts in is one without a turn, unless it has started there before.
LEMMA StartedInOpened ==
    ASSUME RowTypes, log \in Seq(Event), InOrder(log), NEW n, Coming(n),
           log[n + 1].kind = "started", ~IsTerminal, Depicted(n)
    PROVE  run[Gen].turn = None
  BY StartedIsNew DEF Depicted, Between

LEMMA StartedAgain ==
    ASSUME RowTypes, log \in Seq(Event), InOrder(log), NEW n, Coming(n),
           log[n + 1].kind = "started", Depicted(n + 1)
    PROVE  run[Gen].turn = log[n + 1].msg /\ ~IsTerminal
  BY StartedIsNew DEF Depicted, InCourse

LEMMA FinishedAgain ==
    ASSUME NEW n, log[n + 1].kind = "finished", Newly(n + 1)
    PROVE  run[Gen] = Row(log[n + 1])
  BY DEF Newly

LEMMA FinishedOnce ==
    ASSUME RowTypes, log \in Seq(Event), InOrder(log), NEW n, Coming(n),
           log[n + 1].kind = "finished", Depicted(n)
    PROVE  run[Gen].turn = log[n + 1].msg /\ ~IsTerminal
  BY FinishedWasIn DEF Depicted, InCourse

\* What the three writes of a turn do to the rows.
Starts(n) == run' = [run EXCEPT ![Gen] = [turn |-> log[n + 1].msg, state |-> "running"]]
Opens(n) == run' = Append(run, [turn |-> log[n + 1].msg, state |-> "queued"])
Finishes(n) == run' = Moved(log[n + 1].outcome)

LEMMA StartDepicted ==
    ASSUME RowTypes, log \in Seq(Event), InOrder(log), NEW n, Coming(n), log' = log,
           log[n + 1].kind = "started", ~IsTerminal, Starts(n), Depicted(n) \/ Newly(n + 1)
    PROVE  Newly(n + 1)' /\ RowTypes' /\ Gen' = Gen
  <1> DEFINE m == log[n + 1].msg
             r == [turn |-> m, state |-> "running"]
  <1>1. m \in Message /\ r \in RunRow /\ n + 1 \in 0..Len(log) /\ n \in Nat
    BY EventTypes DEF RunRow, State, Active, Coming
  <1>2. /\ RowTypes' /\ Gen' = Gen /\ run'[Gen] = r
        /\ \A g \in 1..Gen : g # Gen => run'[g] = run[g]
    BY <1>1, RowWritten DEF Starts
  <1>3. ASSUME Depicted(n + 1)
        PROVE  Depicted(n + 1)'
    <2>1. run[Gen].turn = m
      BY <1>3, StartedAgain
    <2>2. run[Gen] \in RunRow
      BY GenIsLast
    <2>3. [run[Gen] EXCEPT !.state = "running"] = r
      BY <2>1, <2>2 DEF RunRow
    <2>4. run' = Moved("running")
      BY <2>3 DEF Moved, Starts
    <2>5. "running" \in State \ Outcome
      BY EndedIsNotActive
    <2> QED
      BY <1>1, <1>2, <1>3, <2>4, <2>5, DepictedOnMove
  <1>4. ASSUME Depicted(n)
        PROVE  Depicted(n + 1)'
    <2>1. run[Gen].turn = None
      BY <1>4, StartedInOpened
    <2>2. /\ \A x \in Message : /\ Told(log, "started", x, n + 1) <=> Told(log, "started", x, n) \/ x = m
                                /\ InTurn(log, x, n + 1) <=> x = m
          /\ ~Quiet(log, n + 1)
      BY StartedIsNew
    <2>3. DOMAIN run = 1..Gen /\ DOMAIN run' = 1..Gen /\ Gen \in 1..Gen
      BY <1>2, GenIsLast, LenProperties DEF RowTypes, Gen
    <2>4. ~IsTerminal'
      BY <1>2, EndedIsNotActive DEF IsTerminal, Now
    <2>5. r.turn = m /\ \A x \in Message : x # None
      BY NothingAssumption
    <2> HIDE DEF m, r
    <2>6. HaveRuns(n + 1)'
      <3> SUFFICES ASSUME NEW x \in Message
                   PROVE  Told(log, "started", x, n + 1) <=> \E g \in 1..Gen : run'[g].turn = x
        BY <2>3 DEF HaveRuns
      <3>1. Told(log, "started", x, n) <=> \E g \in 1..Gen : run[g].turn = x
        BY <1>4, <2>3 DEF Depicted, HaveRuns
      <3>2. ASSUME NEW g \in 1..Gen, run[g].turn = x
            PROVE  run'[g].turn = x
        BY <1>2, <2>1, <2>5, <3>2
      <3>3. ASSUME NEW g \in 1..Gen, run'[g].turn = x
            PROVE  run[g].turn = x \/ x = m
        BY <1>2, <2>5, <3>3
      <3>4. run'[Gen].turn = m
        BY <1>2, <2>5
      <3> QED
        BY <2>2, <2>3, <3>1, <3>2, <3>3, <3>4
    <2>7. HaveOutcomes(n + 1)'
      <3> SUFFICES ASSUME NEW i \in 1..(n + 1), log[i].kind = "finished"
                   PROVE  \E g \in 1..Gen : run'[g] = Row(log[i])
        BY <2>3 DEF HaveOutcomes
      <3>1. i \in 1..n /\ i \in 1..Len(log)
        BY EventTypes
      <3>2. log[i].msg \in Message
        BY <3>1, DueTypes
      <3>3. PICK g \in 1..Gen : run[g] = Row(log[i])
        BY <1>4, <2>3, <3>1 DEF Depicted, HaveOutcomes
      <3>4. g # Gen
        BY <2>1, <2>5, <3>2, <3>3 DEF Row
      <3> QED
        BY <1>2, <3>3, <3>4
    <2>8. InCourse(n + 1)' /\ Between(n + 1)'
      BY <1>1, <1>2, <2>2, <2>4, <2>5 DEF InCourse, Between
    <2> QED
      BY <2>6, <2>7, <2>8 DEF Depicted
  <1>5. Depicted(n + 1)'
    BY <1>3, <1>4 DEF Newly
  <1> QED
    BY <1>2, <1>5 DEF Newly

LEMMA OpenDepicted ==
    ASSUME RowTypes, log \in Seq(Event), InOrder(log), NEW n, Coming(n), log' = log,
           log[n + 1].kind = "started", IsTerminal, Opens(n), Depicted(n) \/ Newly(n + 1)
    PROVE  /\ Depicted(n) /\ Newly(n + 1)' /\ RowTypes' /\ Gen' = Gen + 1
           /\ \A g \in 1..Gen : run'[g] = run[g]
  <1> DEFINE m == log[n + 1].msg
             r == [turn |-> m, state |-> "queued"]
  <1>1. m \in Message /\ r \in RunRow /\ n + 1 \in 0..Len(log) /\ n \in Nat
    BY EventTypes DEF RunRow, State, Active, Coming
  <1>2. /\ RowTypes' /\ Gen' = Gen + 1 /\ run'[Gen + 1] = r
        /\ \A g \in 1..Gen : run'[g] = run[g]
    BY <1>1, RowAdded DEF Opens
  <1>3. DOMAIN run = 1..Gen /\ DOMAIN run' = 1..(Gen + 1) /\ Gen \in Nat \ {0}
    BY <1>2, GenIsLast, LenProperties DEF RowTypes, Gen
  <1>4. Depicted(n)
    BY StartedAgain DEF Newly
  <1>5. /\ \A x \in Message : /\ Told(log, "started", x, n + 1) <=> Told(log, "started", x, n) \/ x = m
                              /\ InTurn(log, x, n + 1) <=> x = m
        /\ ~Quiet(log, n + 1)
    BY StartedIsNew
  <1>6. ~IsTerminal'
    BY <1>2, EndedIsNotActive DEF IsTerminal, Now
  <1>7. HaveRuns(n + 1)'
    <2>1. \A x \in Message : (\E g \in DOMAIN run' : run'[g].turn = x) <=>
              (\E g \in DOMAIN run : run[g].turn = x) \/ x = m
      <3>1. r.turn = m
        OBVIOUS
      <3>2. ASSUME NEW x, NEW g \in DOMAIN run', run'[g].turn = x
            PROVE  (\E h \in DOMAIN run : run[h].turn = x) \/ x = m
        <4>1. CASE g = Gen + 1
          BY <1>2, <3>1, <3>2, <4>1
        <4>2. CASE g \in 1..Gen
          BY <1>2, <1>3, <3>2, <4>2
        <4> QED
          BY <1>3, <4>1, <4>2
      <3>3. ASSUME NEW x, NEW h \in DOMAIN run, run[h].turn = x
            PROVE  \E g \in DOMAIN run' : run'[g].turn = x
        <4>1. h \in DOMAIN run' /\ run'[h] = run[h]
          BY <1>2, <1>3
        <4> QED
          BY <3>3, <4>1
      <3>4. \E g \in DOMAIN run' : run'[g].turn = m
        BY <1>2, <1>3, <3>1
      <3> HIDE DEF m, r
      <3> QED
        BY <3>2, <3>3, <3>4
    <2>2. HaveRuns(n)
      BY <1>4 DEF Depicted
    <2>3. ASSUME NEW x \in Message
          PROVE  Told(log, "started", x, n + 1) <=> \E g \in DOMAIN run' : run'[g].turn = x
      BY <1>5, <2>1, <2>2 DEF HaveRuns
    <2> QED
      BY <2>3 DEF HaveRuns
  <1>8. HaveOutcomes(n + 1)'
    <2>1. \A i \in 1..(n + 1) : log[i].kind = "finished" => i \in 1..n
      BY <1>1
    <2>2. HaveOutcomes(n)
      BY <1>4 DEF Depicted
    <2>3. ASSUME NEW i \in 1..(n + 1), log[i].kind = "finished"
          PROVE  \E g \in DOMAIN run' : run'[g] = Row(log[i])
      <3>1. PICK g \in 1..Gen : run[g] = Row(log[i])
        BY <1>3, <2>1, <2>2, <2>3 DEF HaveOutcomes
      <3> QED
        BY <1>2, <1>3, <3>1
    <2> QED
      BY <2>3 DEF HaveOutcomes
  <1>10. InCourse(n + 1)'
    <2>1. run'[Gen'].turn = m
      BY <1>2
    <2> QED
      BY <1>5, <1>6, <2>1 DEF InCourse
  <1>11. Between(n + 1)'
    BY <1>1, <1>5 DEF Between
  <1> QED
    BY <1>2, <1>4, <1>7, <1>8, <1>10, <1>11 DEF Depicted, Newly

LEMMA FinishDepicted ==
    ASSUME RowTypes, log \in Seq(Event), InOrder(log), NEW n, Coming(n), log' = log,
           log[n + 1].kind = "finished", Finishes(n), Depicted(n) \/ Newly(n + 1)
    PROVE  /\ Newly(n + 1)' /\ RowTypes' /\ Gen' = Gen /\ run'[Gen] = Row(log[n + 1])
           /\ run' = run \/ (Depicted(n) /\ ~IsTerminal)
  <1> DEFINE m == log[n + 1].msg
             o == log[n + 1].outcome
  <1>1. m \in Message /\ o \in Outcome /\ o \in State /\ n + 1 \in 0..Len(log) /\ n \in Nat
    BY EventTypes, EndedIsNotActive DEF Coming
  <1>2. /\ RowTypes' /\ Gen' = Gen /\ run'[Gen] = [turn |-> run[Gen].turn, state |-> o]
        /\ \A g \in 1..Gen : g # Gen => run'[g] = run[g]
    BY <1>1, RowMoved DEF Finishes
  <1>3. run[Gen].turn = m
    <2>1. CASE Depicted(n)
      BY <2>1, FinishedOnce
    <2>2. CASE Newly(n + 1)
      <3>1. run[Gen] = Row(log[n + 1])
        BY <2>2, FinishedAgain
      <3> QED
        BY <3>1 DEF Row
    <2> QED
      BY <2>1, <2>2
  <1>4. run'[Gen] = Row(log[n + 1])
    BY <1>2, <1>3 DEF Row
  <1>5. CASE Newly(n + 1)
    <2>1. run[Gen] = Row(log[n + 1])
      BY <1>5, FinishedAgain
    <2>2. [run[Gen] EXCEPT !.state = o] = run[Gen]
      BY <2>1 DEF Row
    <2>3. run' = [run EXCEPT ![Gen] = run[Gen]]
      BY <2>2 DEF Moved, Finishes
    <2>4. run' = run
      BY <2>3, GenIsLast DEF RowTypes
    <2> QED
      BY <1>1, <1>2, <1>4, <1>5, <2>4, DepictedLater DEF Newly
  <1>6. CASE Depicted(n)
    <2>1. ~IsTerminal
      BY <1>6, FinishedOnce
    <2>2. /\ \A x \in Message : /\ ~InTurn(log, x, n + 1)
                                /\ Told(log, "started", x, n + 1) <=> Told(log, "started", x, n)
          /\ Told(log, "started", m, n)
      BY FinishedWasIn DEF InTurn
    <2>3. IsTerminal'
      BY <1>1, <1>2 DEF IsTerminal, Now
    <2>4. DOMAIN run = 1..Gen /\ DOMAIN run' = 1..Gen /\ Gen \in 1..Gen
      BY <1>2, GenIsLast, LenProperties DEF RowTypes, Gen
    <2>5. \A g \in 1..Gen : run'[g].turn = run[g].turn
      BY <1>2
    <2>6. HaveRuns(n + 1)'
      <3>1. HaveRuns(n)
        BY <1>6 DEF Depicted
      <3>2. ASSUME NEW x \in Message
            PROVE  Told(log, "started", x, n + 1) <=> \E g \in DOMAIN run' : run'[g].turn = x
        <4>1. (\E g \in DOMAIN run' : run'[g].turn = x) <=> \E g \in DOMAIN run : run[g].turn = x
          BY <2>4, <2>5
        <4>2. Told(log, "started", x, n) <=> \E g \in DOMAIN run : run[g].turn = x
          BY <3>1 DEF HaveRuns
        <4>3. Told(log, "started", x, n + 1) <=> Told(log, "started", x, n)
          BY <2>2
        <4> QED
          BY <4>1, <4>2, <4>3
      <3> QED
        BY <3>2 DEF HaveRuns
    <2>10. InCourse(n + 1)' /\ Between(n + 1)'
      BY <1>1, <2>2, <2>3 DEF InCourse, Between
    <2>7. \A i \in 1..n : log[i].kind = "finished" => log[i].outcome \in Outcome
      BY DueTypes, EventTypes
    <2>8. HaveOutcomes(n + 1)'
      <3> SUFFICES ASSUME NEW i \in 1..(n + 1), log[i].kind = "finished"
                   PROVE  \E g \in 1..Gen : run'[g] = Row(log[i])
        BY <2>4 DEF HaveOutcomes
      <3>1. CASE i = n + 1
        BY <1>4, <2>4, <3>1
      <3>2. CASE i \in 1..n
        <4>1. PICK g \in 1..Gen : run[g] = Row(log[i])
          BY <1>6, <2>4, <3>2 DEF Depicted, HaveOutcomes
        <4>2. g # Gen
          BY <2>1, <2>7, <3>2, <4>1 DEF Row, IsTerminal, Now
        <4> QED
          BY <1>2, <4>1, <4>2
      <3> QED
        BY <1>1, <3>1, <3>2
    <2> QED
      BY <1>2, <1>4, <1>6, <2>1, <2>6, <2>8, <2>10 DEF Depicted, Newly
  <1> QED
    BY <1>5, <1>6

-----------------------------------------------------------------------------
(* What most steps leave as it was: outcomes, and the picture the rows give of the log *)

Longer ==
    /\ log' \in Seq(Event) /\ Len(log) \in Nat /\ Len(log') \in Nat /\ Len(log) <= Len(log')
    /\ \A i \in 1..Len(log) : log'[i] = log[i]
OutcomesKept ==
    \A g \in DOMAIN run : run[g].state \in Outcome => g \in DOMAIN run' /\ run'[g] = run[g]
RowsMove ==
    \/ run' = run
    \/ /\ log' = log /\ ~IsTerminal
       /\ \E to \in State \ Outcome : run' = Moved(to)

LEMMA RowsOfType == HostedTypeOK => RowTypes
  BY DEF HostedTypeOK, RowTypes, RunRow

LEMMA SameLonger == HostedTypeOK /\ log' = log => Longer
  BY LenProperties DEF HostedTypeOK, Longer

LEMMA MoveKeepsOutcomes ==
    ASSUME RowTypes, RowsMove \/ RowsOpen
    PROVE  OutcomesKept /\ RowTypes' /\ DOMAIN run \subseteq DOMAIN run'
  <1>1. CASE run' = run
    BY <1>1 DEF OutcomesKept, RowTypes
  <1>2. CASE ~IsTerminal /\ \E to \in State \ Outcome : run' = Moved(to)
    <2>1. /\ RowTypes' /\ Gen' = Gen /\ \A g \in 1..Gen : g # Gen => run'[g] = run[g]
      BY <1>2, RowMoved
    <2>2. DOMAIN run = 1..Gen /\ DOMAIN run' = 1..Gen
      BY <2>1, GenIsLast, LenProperties DEF RowTypes, Gen
    <2> QED
      BY <1>2, <2>1, <2>2 DEF OutcomesKept, IsTerminal, Now
  <1>3. CASE RowsOpen
    <2>1. /\ RowTypes' /\ DOMAIN run = 1..Gen /\ DOMAIN run' = 1..(Gen + 1) /\ Gen \in Nat \ {0}
          /\ \A g \in 1..Gen : run'[g] = run[g]
      BY <1>3, OpenedRows
    <2>2. 1..Gen \subseteq 1..(Gen + 1)
      BY <2>1
    <2> QED
      BY <2>1, <2>2 DEF OutcomesKept
  <1> QED
    BY <1>1, <1>2, <1>3 DEF RowsMove

LEMMA MoveKeepsPicture ==
    ASSUME HostedTypeOK, Longer, RowsMove \/ RowsOpen, NEW n \in 0..Len(log), Depicted(n)
    PROVE  Depicted(n)'
  <1>1. RowTypes /\ log \in Seq(Event) /\ n \in Nat /\ \A i \in 1..n : log'[i] = log[i]
    <2>1. n \in Nat /\ \A i \in 1..n : log'[i] = log[i]
      BY DEF Longer
    <2> QED
      BY <2>1, RowsOfType DEF HostedTypeOK
  <1>2. CASE run' = run
    BY <1>1, <1>2, DepictedLater
  <1>3. CASE log' = log /\ ~IsTerminal /\ \E to \in State \ Outcome : run' = Moved(to)
    BY <1>1, <1>3, DepictedOnMove
  <1>4. CASE RowsOpen
    BY <1>1, <1>4, DepictedOnOpen
  <1> QED
    BY <1>2, <1>3, <1>4 DEF RowsMove

LEMMA MoveKeepsNew ==
    ASSUME HostedTypeOK, Longer, RowsMove, NEW n \in 1..Len(log), Newly(n)
    PROVE  Newly(n)'
  <1>1. n \in 0..Len(log) /\ log'[n] = log[n]
    BY DEF Longer
  <1>2. Depicted(n)'
    BY <1>1, MoveKeepsPicture DEF Newly
  <1>3. ASSUME log[n].kind = "finished"
        PROVE  run'[Len(run')] = Row(log[n])
    <2>1. run[Gen] = Row(log[n]) /\ log[n].outcome \in Outcome
      BY <1>3, DueTypes DEF Newly, HostedTypeOK
    <2>2. IsTerminal
      BY <2>1 DEF Row, IsTerminal, Now
    <2>3. run' = run
      BY <2>2 DEF RowsMove
    <2> QED
      BY <2>1, <2>3 DEF Gen
  <1> QED
    BY <1>1, <1>2, <1>3 DEF Newly, Gen, Row

LEMMA SentStays ==
    ASSUME HostedTypeOK, Longer, OutcomesKept, results \subseteq results',
           NEW i \in 1..Len(log), Sent(i)
    PROVE  Sent(i)'
  <1> SUFFICES ASSUME log[i].kind = "finished"
               PROVE  \E g \in results' : run'[g] = Row(log[i])
    BY DEF Sent, Longer
  <1>1. PICK g \in results : run[g] = Row(log[i])
    BY DEF Sent
  <1>2. log[i].outcome \in Outcome
    BY DueTypes DEF HostedTypeOK
  <1>3. run[g].state \in Outcome /\ g \in DOMAIN run
    BY <1>1, <1>2 DEF Row, HostedTypeOK
  <1> QED
    BY <1>1, <1>3 DEF OutcomesKept

\* What is known of the log stays true of the same part of it.
LEMMA KnowsLater ==
    ASSUME Longer, NEW n \in 0..Len(log), Knows(link, n),
           link'.active = link.active, link'.accepted = link.accepted,
           link'.finished = link.finished
    PROVE  Knows(link, n)'
  <1> DEFINE more == log'
  <1>1. n \in Nat /\ \A i \in 1..n : more[i] = log[i]
    BY DEF Longer
  <1> HIDE DEF more
  <1>2. \A kind, m : Told(more, kind, m, n) <=> Told(log, kind, m, n)
    BY <1>1, ToldPrefix
  <1>3. \A m : InTurn(more, m, n) <=> InTurn(log, m, n)
    BY <1>2 DEF InTurn
  <1> QED
    BY <1>2, <1>3 DEF Knows, more

-----------------------------------------------------------------------------
(* Types *)

LEMMA DueComes ==
    ASSUME HostedTypeOK, LinkInv, HasNext
    PROVE  /\ Coming(link.at) /\ link.at = Behind /\ Reading
           /\ Due = log[link.at + 1]
           /\ Due.kind \in {"accepted", "started", "finished"} => Due.msg \in Message
           /\ Due.kind = "finished" => Due.outcome \in Outcome
  <1>1. link \in Link /\ log \in Seq(Event) /\ Len(log) \in Nat
    BY LenProperties DEF HostedTypeOK
  <1>2. link.at \in Nat /\ link.at < Len(log)
    BY <1>1 DEF HasNext, LinkInv, Link
  <1>3. Coming(link.at)
    BY <1>2 DEF Coming
  <1> QED
    BY <1>1, <1>3, EventTypes DEF HasNext, LinkInv, Due

\* The writes of an event that is taken up; a start may be refused instead.
Commits ==
    OpenRun \/ StartTurn \/ FinishTurn \/ NoteAccepted \/ NoteDisconnected \/ NoteOther
    \/ EnqueueResult

LEMMA CommitOrRefuse == Commit <=> Commits \/ RefuseStart
  BY DEF Commit, Commits

LEMMA LinkTypes ==
    ASSUME HostedTypeOK, InOrder(log), LinkInv, TaskNext
    PROVE  link' \in Link
  <1>1. /\ link \in Link /\ log \in Seq(Event) /\ Len(log) \in Nat /\ acked \in 0..Len(log)
        /\ epoch \in Nat
    BY LenProperties DEF HostedTypeOK
  <1>2. NoLink \in Link
    BY DEF NoLink, Link
  <1>3. ASSUME Commits
        PROVE  link' \in Link
    <2>1. HasNext /\ (Due.kind \in {"accepted", "started", "finished"} => Due.msg \in Message)
      BY <1>3, DueComes DEF Commits, OpenRun, AtRest, StartTurn, FinishTurn, NoteAccepted,
                            NoteDisconnected, NoteOther, EnqueueResult, At
    <2>2. ASSUME OpenRun \/ NoteDisconnected \/ NoteOther \/ EnqueueResult
          PROVE  link' \in Link
      BY <1>1, <2>2 DEF OpenRun, NoteDisconnected, NoteOther, EnqueueResult, Link
    <2>3. ASSUME StartTurn
          PROVE  link' \in Link
      BY <1>1, <2>1, <2>3 DEF StartTurn, Link
    <2>4. ASSUME FinishTurn
          PROVE  link' \in Link
      <3>1. PICK known \in {link.accepted, link.accepted \ {Due.msg}} :
                link' = [link EXCEPT !.step = "stored", !.active = None,
                                     !.finished = @ \cup {Due.msg}, !.accepted = known]
        BY <2>4 DEF FinishTurn
      <3>2. known \subseteq Message /\ Due.msg \in Message
        BY <1>1, <2>1, <2>4 DEF FinishTurn, At, Link
      <3> QED
        BY <1>1, <3>1, <3>2 DEF Link
    <2>5. ASSUME NoteAccepted
          PROVE  link' \in Link
      <3>1. PICK known \in {link.accepted, link.accepted \cup {Due.msg}} :
                link' = [link EXCEPT !.step = "stored", !.accepted = known]
        BY <2>5 DEF NoteAccepted
      <3>2. known \subseteq Message
        BY <1>1, <2>1, <2>5 DEF NoteAccepted, At, Link
      <3> QED
        BY <1>1, <3>1, <3>2 DEF Link
    <2> QED
      BY <1>3, <2>2, <2>3, <2>4, <2>5 DEF Commits
  <1>4. ASSUME Settle
        PROVE  link' \in Link
    <2>1. link' \in {link, NoLink, Advanced, [link EXCEPT !.mode = "live"]}
      BY <1>4 DEF Settle, AcknowledgeEvent, MarkEvent, GoLive, MarkReplayed, EndReplay
    <2>2. Advanced \in Link /\ [link EXCEPT !.mode = "live"] \in Link
      <3>1. link.at + 1 \in Nat
        BY <1>1 DEF Link
      <3> QED
        BY <1>1, <3>1, LinkGoesOn DEF Advanced
    <2> QED
      BY <1>1, <1>2, <2>1, <2>2
  <1>5. ASSUME RefuseStart \/ Break \/ EndWorker \/ AppDies
        PROVE  link' \in Link
    BY <1>2, <1>5 DEF RefuseStart, Break, EndWorker, AppDies, Link
  <1>6. ASSUME Reattach
        PROVE  link' \in Link
    <2>1. After(acked) \in Link
      BY <1>1, AfterKnows
    <2>2. link' = [After(acked) EXCEPT !.mode = "catchup", !.owner = epoch + 1,
                                       !.upto = Len(log)]
      BY <1>6 DEF Reattach
    <2> DEFINE k == After(acked)
    <2>3. k \in Link /\ link' = [k EXCEPT !.mode = "catchup", !.owner = epoch + 1,
                                          !.upto = Len(log)]
      BY <2>1, <2>2
    <2>4. epoch + 1 \in Nat
      BY <1>1
    <2> QED
      BY <1>1, <2>3, <2>4, LinkOwned
  <1>7. ASSUME Replay
        PROVE  link' \in Link
    <2>1. ReplayFrom = Behind
      BY DEF ReplayFrom, Behind
    <2>2. Behind \in 0..Len(log)
      BY <1>1 DEF LinkInv, Behind, HostedTypeOK
    <2>3. After(Behind) \in Link
      BY <1>1, <2>2, AfterKnows
    <2>4. link' = [After(Behind) EXCEPT !.mode = "replay", !.upto = Len(log)]
      BY <1>7, <2>1 DEF Replay
    <2> DEFINE k == After(Behind)
    <2>5. k \in Link /\ link' = [k EXCEPT !.mode = "replay", !.upto = Len(log)]
      BY <2>3, <2>4
    <2> QED
      BY <1>1, <2>5, LinkOwned
  <1>8. ASSUME \/ (\E e \in Possible(sent) : HostReports(e)) \/ (\E how \in {"exited", "gone"} : HostCloses(how))
               \/ (\E l \in late : LateAcknowledge(l))
               \/ Submit \/ Refresh \/ LeaveAlone \/ GiveUp \/ AppStarts
        PROVE  link' \in Link
    BY <1>1, <1>8 DEF HostReports, HostCloses, LateAcknowledge, Submit, Refresh, LeaveAlone,
                      GiveUp, AppStarts
  <1> QED
    BY <1>3, <1>4, <1>5, <1>6, <1>7, <1>8, CommitOrRefuse DEF TaskNext, Recover

\* The three writes that belong to a turn, and everything else.
TurnWrite == OpenRun \/ StartTurn \/ FinishTurn

LEMMA TurnStep ==
    ASSUME HostedInv, TurnWrite, NEW n, n = Behind
    PROVE  /\ Coming(n) /\ link.at = n /\ Newly(n + 1)' /\ RowTypes'
           /\ OutcomesKept /\ DOMAIN run \subseteq DOMAIN run' /\ Longer
           /\ results' = results /\ log' = log
  <1>1. HostedTypeOK /\ LinkInv /\ InOrder(log) /\ RowsInv /\ RowTypes /\ log \in Seq(Event)
    BY RowsOfType DEF HostedInv, HostedTypeOK
  <1>2. HasNext /\ log' = log /\ results' = results
    BY DEF TurnWrite, OpenRun, AtRest, StartTurn, FinishTurn, At, feed, row
  <1>3. Coming(n) /\ link.at = n /\ Due = log[n + 1] /\ Reading
    BY <1>1, <1>2, DueComes
  <1>4. Longer
    BY <1>1, <1>2, SameLonger
  <1>5. Depicted(n) \/ Newly(n + 1)
    BY <1>1 DEF RowsInv
  <1>6. DOMAIN run = 1..Gen /\ Gen \in Nat \ {0}
    BY <1>1, GenIsLast
  <1>7. RowTypes' => DOMAIN run' = 1..Gen'
    BY LenProperties DEF RowTypes, Gen
  <1>8. ASSUME OpenRun
        PROVE  Newly(n + 1)' /\ RowTypes' /\ OutcomesKept /\ DOMAIN run \subseteq DOMAIN run'
    <2>1. log[n + 1].kind = "started" /\ IsTerminal /\ Opens(n)
      BY <1>3, <1>8 DEF OpenRun, AtRest, At, Opens
    <2>2. /\ Newly(n + 1)' /\ RowTypes' /\ Gen' = Gen + 1
          /\ \A g \in 1..Gen : run'[g] = run[g]
      BY <1>1, <1>2, <1>3, <1>5, <2>1, OpenDepicted
    <2> QED
      BY <1>6, <1>7, <2>2 DEF OutcomesKept
  <1>9. ASSUME StartTurn
        PROVE  Newly(n + 1)' /\ RowTypes' /\ OutcomesKept /\ DOMAIN run \subseteq DOMAIN run'
    <2>1. log[n + 1].kind = "started" /\ ~IsTerminal /\ Starts(n)
      BY <1>3, <1>9 DEF StartTurn, Starts
    <2>2. Newly(n + 1)' /\ RowTypes' /\ Gen' = Gen
      BY <1>1, <1>2, <1>3, <1>5, <2>1, StartDepicted
    <2>3. \A g \in 1..Gen : g # Gen => run'[g] = run[g]
      BY <1>6, <2>1 DEF Starts
    <2> QED
      BY <1>6, <1>7, <2>1, <2>2, <2>3 DEF OutcomesKept, IsTerminal, Now
  <1>10. ASSUME FinishTurn
         PROVE  Newly(n + 1)' /\ RowTypes' /\ OutcomesKept /\ DOMAIN run \subseteq DOMAIN run'
    <2>1. log[n + 1].kind = "finished" /\ Finishes(n)
      BY <1>3, <1>10 DEF FinishTurn, At, Finishes
    <2>2. /\ Newly(n + 1)' /\ RowTypes' /\ Gen' = Gen
          /\ run' = run \/ ~IsTerminal
      BY <1>1, <1>2, <1>3, <1>5, <2>1, FinishDepicted
    <2>3. \A g \in 1..Gen : g # Gen => run'[g] = run[g]
      BY <1>6, <2>1 DEF Finishes, Moved
    <2> QED
      BY <1>6, <1>7, <2>2, <2>3 DEF OutcomesKept, IsTerminal, Now
  <1> QED
    BY <1>2, <1>3, <1>4, <1>8, <1>9, <1>10 DEF TurnWrite

LEMMA OtherStep ==
    ASSUME HostedInv, TaskNext, ~TurnWrite
    PROVE  /\ RowsMove \/ (Submit /\ RowsOpen)
           /\ Longer /\ InOrder(log')
           /\ results \subseteq results' /\ results' \subseteq results \cup {Gen}
  <1>1. HostedTypeOK /\ InOrder(log) /\ log \in Seq(Event) /\ sent \subseteq Message
    BY DEF HostedInv, HostedTypeOK
  <1>2. ASSUME NEW e \in Possible(sent), HostReports(e)
        PROVE  RowsMove /\ Longer /\ InOrder(log') /\ results' = results
    <2>1. log' = Append(log, e) /\ run' = run /\ results' = results
      BY <1>2 DEF HostReports, Report
    <2>2. /\ log' \in Seq(Event) /\ Len(log') = Len(log) + 1 /\ InOrder(log')
          /\ \A i \in 1..Len(log) : log'[i] = log[i]
      BY <1>1, <2>1, ReportKeepsOrder
    <2> QED
      BY <1>1, <2>1, <2>2, LenProperties DEF RowsMove, Longer
  <1>3. ASSUME NoteDisconnected \/ EndReplay \/ EndWorker \/ GiveUp \/ AppStarts
        PROVE  RowsMove /\ log' = log
    <2>1. log' = log
      BY <1>3 DEF NoteDisconnected, EndReplay, EndWorker, GiveUp, AppStarts, feed
    <2>2. \/ run' = run
          \/ /\ ~IsTerminal
             /\ run' \in {Moved("unconfirmed"), Moved("disconnected")}
      BY <1>3, EndedIsNotActive
         DEF NoteDisconnected, EndReplay, EndWorker, GiveUp, AppStarts, Unowned
    <2> QED
      BY <2>1, <2>2, EndedIsNotActive DEF RowsMove
  <1>4. ASSUME \/ (\E how \in {"exited", "gone"} : HostCloses(how))
               \/ (\E l \in late : LateAcknowledge(l))
               \/ RefuseStart \/ NoteAccepted \/ NoteOther \/ EnqueueResult
               \/ AcknowledgeEvent \/ MarkEvent \/ GoLive \/ MarkReplayed
               \/ Break \/ Refresh \/ LeaveAlone \/ Reattach \/ Replay \/ AppDies
        PROVE  run' = run /\ log' = log
    BY <1>4 DEF HostCloses, Close, LateAcknowledge, Acknowledge, RefuseStart, NoteAccepted, NoteOther,
                EnqueueResult, AcknowledgeEvent, MarkEvent, GoLive, MarkReplayed, Break,
                Refresh, LeaveAlone, Reattach, Claim, Replay, AppDies, feed, row
  <1>5. ASSUME EnqueueResult \/ EndReplay \/ LeaveAlone \/ Reattach
        PROVE  results \subseteq results' /\ results' \subseteq results \cup {Gen}
    BY <1>5 DEF EnqueueResult, ResultOfEvent, EndReplay, LeaveAlone, Reattach, Recovered
  <1>6. ASSUME \/ (\E how \in {"exited", "gone"} : HostCloses(how))
               \/ (\E l \in late : LateAcknowledge(l))
               \/ Submit \/ RefuseStart \/ NoteAccepted \/ NoteOther \/ NoteDisconnected
               \/ AcknowledgeEvent \/ MarkEvent \/ GoLive \/ MarkReplayed
               \/ Break \/ EndWorker \/ Refresh \/ Replay \/ GiveUp \/ AppDies \/ AppStarts
        PROVE  results' = results
    BY <1>6 DEF HostCloses, LateAcknowledge, Submit, RefuseStart, NoteAccepted, NoteOther, NoteDisconnected,
                AcknowledgeEvent, MarkEvent, GoLive, MarkReplayed, Break, EndWorker,
                Refresh, Replay, GiveUp, AppDies, AppStarts, row
  <1>7. log' = log => Longer /\ InOrder(log')
    BY <1>1, SameLonger
  <1>10. ASSUME Submit
         PROVE  (RowsMove \/ (Submit /\ RowsOpen)) /\ log' = log
    BY <1>10 DEF Submit, RowsMove, RowsOpen, feed
  <1>8. ASSUME \A e \in Possible(sent) : ~HostReports(e)
        PROVE  (RowsMove \/ (Submit /\ RowsOpen)) /\ log' = log
    BY <1>3, <1>4, <1>8, <1>10 DEF TaskNext, Commit, Settle, Recover, TurnWrite, RowsMove
  <1>9. ASSUME \A e \in Possible(sent) : ~HostReports(e)
        PROVE  results \subseteq results' /\ results' \subseteq results \cup {Gen}
    BY <1>5, <1>6, <1>9 DEF TaskNext, Commit, Settle, Recover, TurnWrite
  <1> QED
    BY <1>2, <1>7, <1>8, <1>9

\* Messages to the feed name a position of the log.
LEMMA FeedStep ==
    ASSUME HostedInv, TaskNext
    PROVE  /\ acked' \in 0..Len(log') /\ epoch' \in Nat /\ acked <= acked' /\ epoch <= epoch'
           /\ stage' \in {"open", "exited", "gone"} /\ (stage # "open" => stage' = stage)
           /\ Longer
  <1>1. HostedTypeOK /\ LinkInv /\ link \in Link /\ epoch \in Nat /\ acked \in 0..Len(log)
    BY DEF HostedInv, HostedTypeOK
  <1>2. Longer
    <2>1. CASE TurnWrite
      <3>1. PICK n : n = Behind
        OBVIOUS
      <3> QED
        BY <2>1, <3>1, TurnStep
    <2> QED
      BY <2>1, OtherStep
  <1>3. \/ UNCHANGED <<acked, epoch, stage>>
        \/ \E owner, through \in Nat : Acknowledge(owner, through)
        \/ Claim
        \/ \E how \in {"exited", "gone"} : Close(how)
    <2>1. ASSUME NEW l \in late, LateAcknowledge(l)
          PROVE  UNCHANGED <<acked, epoch, stage>> \/ Acknowledge(l.owner, l.through)
      BY <2>1 DEF LateAcknowledge, feed
    <2>2. \A l \in late : l.owner \in Nat /\ l.through \in Nat
      BY DEF HostedInv, HostedTypeOK
    <2>3. ASSUME AcknowledgeEvent
          PROVE  Acknowledge(link.owner, link.at + 1) /\ link.owner \in Nat /\ link.at + 1 \in Nat
      BY <1>1, <2>3 DEF AcknowledgeEvent, Link
    <2>4. ASSUME \/ (\E e \in Possible(sent) : HostReports(e)) \/ Commit \/ MarkEvent \/ GoLive
                 \/ MarkReplayed \/ EndReplay \/ Break \/ EndWorker \/ Refresh \/ LeaveAlone
                 \/ Replay \/ GiveUp \/ AppDies \/ AppStarts \/ Submit
          PROVE  UNCHANGED <<acked, epoch, stage>>
      BY <2>4 DEF HostReports, Report, Submit, Commit, OpenRun, RefuseStart, StartTurn, FinishTurn, NoteAccepted,
                  NoteDisconnected, NoteOther, EnqueueResult, MarkEvent, GoLive, MarkReplayed,
                  EndReplay, Break, EndWorker, Refresh, LeaveAlone, Replay, GiveUp, AppDies,
                  AppStarts, feed
    <2>5. Reattach => Claim
      BY DEF Reattach
    <2>6. \A how : HostCloses(how) => Close(how)
      BY DEF HostCloses
    <2> QED
      BY <2>1, <2>2, <2>3, <2>4, <2>5, <2>6 DEF TaskNext, Settle, Recover
  <1>4. stage \in {"open", "exited", "gone"} /\ Len(log) \in Nat
    BY LenProperties DEF HostedInv, HostedTypeOK
  <1>5. CASE UNCHANGED <<acked, epoch, stage>>
    BY <1>1, <1>2, <1>4, <1>5 DEF Longer
  <1>6. CASE \E owner, through \in Nat : Acknowledge(owner, through)
    BY <1>1, <1>2, <1>4, <1>6 DEF Acknowledge, Longer
  <1>7. CASE Claim
    BY <1>1, <1>2, <1>4, <1>7 DEF Claim, Longer
  <1>8. CASE \E how \in {"exited", "gone"} : Close(how)
    BY <1>1, <1>2, <1>4, <1>8 DEF Close, Longer
  <1> QED
    BY <1>3, <1>5, <1>6, <1>7, <1>8

Request == [owner : Nat, through : Nat]
AppTypes == app \in [up : BOOLEAN, pass : {"none", "free", "owned"}, deaths : Nat, refreshes : Nat]

LEMMA AbandonedTypes ==
    ASSUME link \in Link, late \subseteq Request
    PROVE  Abandoned \subseteq Request
  <1>1. [owner |-> link.owner, through |-> link.at + 1] \in Request
    <2>1. link.owner \in Nat /\ link.at + 1 \in Nat
      BY DEF Link
    <2> QED
      BY <2>1 DEF Request
  <1> QED
    BY <1>1 DEF Abandoned

LEMMA AppStep ==
    ASSUME AppTypes, TaskNext
    PROVE  AppTypes'
  <1>1. PassOver \in [up : BOOLEAN, pass : {"none", "free", "owned"}, deaths : Nat, refreshes : Nat]
    BY DEF PassOver, AppTypes
  <1>2. \A connected \in BOOLEAN : Requested(connected) \in
            [up : BOOLEAN, pass : {"none", "free", "owned"}, deaths : Nat, refreshes : Nat]
    BY DEF Requested, AppTypes
  <1>3. ASSUME Refresh
        PROVE  AppTypes'
    <2> DEFINE connected == link.mode \in {"live", "ended"}
               asked == Requested(connected)
               n == asked.refreshes + 1
    <2>1. app' = [asked EXCEPT !.refreshes = n]
      BY <1>3 DEF Refresh
    <2>2. asked \in [up : BOOLEAN, pass : {"none", "free", "owned"}, deaths : Nat, refreshes : Nat]
      BY DEF Requested, AppTypes
    <2>3. n \in Nat
      BY <2>2
    <2> HIDE DEF asked, n
    <2> QED
      BY <2>1, <2>2, <2>3 DEF AppTypes
  <1>4. ASSUME AppDies
        PROVE  AppTypes'
    <2> DEFINE n == app.deaths + 1
    <2>1. app' = [app EXCEPT !.up = FALSE, !.pass = "none", !.deaths = n]
      BY <1>4 DEF AppDies
    <2>2. n \in Nat
      BY DEF AppTypes
    <2> HIDE DEF n
    <2> QED
      BY <2>1, <2>2 DEF AppTypes
  <1>5. ASSUME AppStarts
        PROVE  AppTypes'
    BY <1>5 DEF AppStarts, AppTypes
  <1>6. ASSUME Commit \/ Settle \/ Break \/ EndWorker \/ Recover
        PROVE  app' \in {app, PassOver, Requested(FALSE)}
    BY <1>6 DEF Commit, OpenRun, RefuseStart, StartTurn, FinishTurn, NoteAccepted, NoteDisconnected,
                NoteOther, EnqueueResult, Settle, AcknowledgeEvent, MarkEvent, GoLive,
                MarkReplayed, EndReplay, Break, EndWorker, Recover, LeaveAlone, Reattach,
                Replay, GiveUp
  <1>7. ASSUME \/ (\E e \in Possible(sent) : HostReports(e))
               \/ (\E how \in {"exited", "gone"} : HostCloses(how))
               \/ (\E l \in late : LateAcknowledge(l)) \/ Submit
        PROVE  app' = app
    BY <1>7 DEF HostReports, HostCloses, LateAcknowledge, Submit
  <1> QED
    BY <1>1, <1>2, <1>3, <1>4, <1>5, <1>6, <1>7 DEF TaskNext, AppTypes

LEMMA TypeStep ==
    ASSUME HostedInv, TaskNext
    PROVE  HostedTypeOK'
  <1>1. HostedTypeOK /\ LinkInv /\ InOrder(log) /\ link \in Link /\ RowTypes
    BY RowsOfType DEF HostedInv, HostedTypeOK
  <1>2. /\ log' \in Seq(Event) /\ acked' \in 0..Len(log') /\ epoch' \in Nat
        /\ stage' \in {"open", "exited", "gone"}
    BY FeedStep DEF Longer
  <1>3. link' \in Link
    BY <1>1, LinkTypes
  <1>4. RowTypes' /\ results' \subseteq DOMAIN run'
    <2>1. CASE TurnWrite
      <3>1. PICK n : n = Behind
        OBVIOUS
      <3> QED
        BY <1>1, <2>1, <3>1, TurnStep DEF HostedTypeOK
    <2>2. CASE ~TurnWrite
      <3>1. (RowsMove \/ RowsOpen) /\ results' \subseteq results \cup {Gen}
        BY <2>2, OtherStep
      <3>2. RowTypes' /\ DOMAIN run \subseteq DOMAIN run' /\ Gen \in DOMAIN run
        BY <1>1, <3>1, MoveKeepsOutcomes, GenIsLast
      <3> QED
        BY <1>1, <3>1, <3>2 DEF HostedTypeOK
    <2> QED
      BY <2>1, <2>2
  <1>5. AppTypes'
    BY <1>1, AppStep DEF HostedTypeOK, AppTypes
  <1>6. mark' \in Nat \cup {None}
    <2>1. mark' \in {mark, link.at + 1, link.at}
      BY DEF TaskNext, HostReports, HostCloses, LateAcknowledge, Submit, Commit, OpenRun,
             RefuseStart, StartTurn, FinishTurn, NoteAccepted, NoteDisconnected, NoteOther, EnqueueResult, Settle,
             AcknowledgeEvent, MarkEvent, GoLive, MarkReplayed, EndReplay, Break, EndWorker,
             Refresh, Recover, LeaveAlone, Reattach, Replay, GiveUp, AppDies, AppStarts, row
    <2> QED
      BY <1>1, <2>1 DEF HostedTypeOK, Link
  <1>7. late' \subseteq Request
    <2>1. late' \subseteq late \cup Abandoned
      BY DEF TaskNext, HostReports, HostCloses, LateAcknowledge, Submit, Commit, OpenRun,
             RefuseStart, StartTurn, FinishTurn, NoteAccepted, NoteDisconnected, NoteOther, EnqueueResult, Settle,
             AcknowledgeEvent, MarkEvent, GoLive, MarkReplayed, EndReplay, Break, EndWorker,
             Refresh, Recover, LeaveAlone, Reattach, Replay, GiveUp, AppDies, AppStarts
    <2>2. late \subseteq Request
      BY <1>1 DEF HostedTypeOK, Request
    <2> QED
      BY <1>1, <2>1, <2>2, AbandonedTypes
  <1>8. sent' \subseteq Message
    <2>1. CASE Submit
      <3>1. sent \subseteq Message /\ sent # Message
        BY <1>1, <2>1 DEF HostedTypeOK, Submit
      <3>2. \E m \in Message : m \notin sent
        BY <3>1
      <3>3. (CHOOSE m \in Message : m \notin sent) \in Message
        BY <3>2
      <3> QED
        BY <2>1, <3>1, <3>3 DEF Submit
    <2>2. CASE ~Submit
      <3>1. sent' = sent
        BY <2>2 DEF TaskNext, HostReports, HostCloses, LateAcknowledge, Commit, OpenRun,
             RefuseStart, StartTurn, FinishTurn, NoteAccepted, NoteDisconnected, NoteOther,
             EnqueueResult, Settle, AcknowledgeEvent, MarkEvent, GoLive, MarkReplayed, EndReplay,
             Break, EndWorker, Refresh, Recover, LeaveAlone, Reattach, Replay, GiveUp, AppDies,
             AppStarts
      <3> QED
        BY <1>1, <3>1 DEF HostedTypeOK
    <2> QED
      BY <2>1, <2>2
  <1> QED
    BY <1>2, <1>3, <1>4, <1>5, <1>6, <1>7, <1>8
       DEF HostedTypeOK, RowTypes, RunRow, AppTypes, Request

-----------------------------------------------------------------------------
(* The link *)

\* What is known of one event more.
LEMMA KnowsStarted ==
    ASSUME log \in Seq(Event), InOrder(log), NEW n, Coming(n), log[n + 1].kind = "started",
           NEW k, NEW k2, Knows(k, n), k2.active = log[n + 1].msg,
           k2.accepted = k.accepted \ {log[n + 1].msg}, k2.finished = k.finished
    PROVE  Knows(k2, n + 1)
  <1> DEFINE m == log[n + 1].msg
  <1>1. /\ m \in Message /\ n \in Nat
        /\ \A x \in Message : /\ InTurn(log, x, n + 1) <=> x = m
                              /\ Told(log, "started", x, n + 1) <=> Told(log, "started", x, n) \/ x = m
    BY StartedIsNew DEF Coming
  <1>2. \A x : /\ Told(log, "accepted", x, n + 1) <=> Told(log, "accepted", x, n)
               /\ Told(log, "finished", x, n + 1) <=> Told(log, "finished", x, n)
    BY <1>1, ToldNext
  <1>3. \A x \in Message :
            Told(log, "accepted", x, n + 1) /\ ~Told(log, "started", x, n + 1) => x \in k2.accepted
    BY <1>1, <1>2 DEF Knows
  <1> QED
    BY <1>1, <1>2, <1>3 DEF Knows

LEMMA KnowsFinished ==
    ASSUME log \in Seq(Event), InOrder(log), NEW n, Coming(n), log[n + 1].kind = "finished",
           NEW k, NEW k2, Knows(k, n), k2.active = None,
           k2.accepted \in {k.accepted, k.accepted \ {log[n + 1].msg}},
           k2.finished = k.finished \cup {log[n + 1].msg}
    PROVE  Knows(k2, n + 1)
  <1> DEFINE m == log[n + 1].msg
  <1>1. /\ m \in Message /\ n \in Nat
        /\ \A x \in Message : /\ ~InTurn(log, x, n + 1)
                              /\ Told(log, "started", x, n + 1) <=> Told(log, "started", x, n)
        /\ Told(log, "started", m, n)
    BY FinishedWasIn DEF Coming, InTurn
  <1>2. \A x : Told(log, "accepted", x, n + 1) <=> Told(log, "accepted", x, n)
    BY <1>1, ToldOther
  <1>5. \A x : Told(log, "finished", x, n + 1) <=> Told(log, "finished", x, n) \/ x = m
    BY <1>1, ToldThis
  <1>3. \A x \in Message : x # None
    BY NothingAssumption
  <1>4. k2.finished = {x \in Message : Told(log, "finished", x, n + 1)}
    BY <1>1, <1>5 DEF Knows
  <1> QED
    BY <1>1, <1>2, <1>3, <1>4 DEF Knows

LEMMA KnowsAccepted ==
    ASSUME log \in Seq(Event), InOrder(log), NEW n, Coming(n), log[n + 1].kind = "accepted",
           NEW k, NEW k2, Knows(k, n), k2.active = k.active, k2.finished = k.finished,
           \/ k2.accepted = k.accepted \cup {log[n + 1].msg}
           \/ /\ k2.accepted = k.accepted
              /\ log[n + 1].msg = k.active \/ log[n + 1].msg \in k.finished
    PROVE  Knows(k2, n + 1)
  <1> DEFINE m == log[n + 1].msg
  <1>1. /\ m \in Message /\ n \in Nat /\ n \in 0..Len(log) /\ n + 1 \in 1..Len(log)
        /\ (n + 1) - 1 = n
    BY EventTypes DEF Coming
  <1>4. m = k.active \/ m \in k.finished => Told(log, "started", m, n)
    BY <1>1, FinishedWasStarted DEF Knows, InTurn
  <1>5. \A x : Told(log, "accepted", x, n + 1) <=> Told(log, "accepted", x, n) \/ x = m
    BY <1>1, ToldThis
  <1>6. \A x : /\ Told(log, "started", x, n + 1) <=> Told(log, "started", x, n)
               /\ Told(log, "finished", x, n + 1) <=> Told(log, "finished", x, n)
    <2>1. log[n + 1].kind # "started" /\ log[n + 1].kind # "finished"
      OBVIOUS
    <2> QED
      BY <1>1, <2>1, ToldOther
  <1>7. \A x : InTurn(log, x, n + 1) <=> InTurn(log, x, n)
    BY <1>6 DEF InTurn
  <1>8. \A x \in Message :
            Told(log, "accepted", x, n + 1) /\ ~Told(log, "started", x, n + 1) => x \in k2.accepted
    BY <1>1, <1>4, <1>5, <1>6 DEF Knows
  <1> QED
    BY <1>6, <1>7, <1>8 DEF Knows

LEMMA KnowsOther ==
    ASSUME log \in Seq(Event), NEW n, Coming(n),
           log[n + 1].kind \notin {"accepted", "started", "finished"},
           NEW k, NEW k2, Knows(k, n), k2.active = k.active, k2.finished = k.finished,
           k2.accepted = k.accepted
    PROVE  Knows(k2, n + 1)
  <1>1. n \in Nat
    BY DEF Coming
  <1>2. /\ log[n + 1].kind # "accepted" /\ log[n + 1].kind # "started"
        /\ log[n + 1].kind # "finished"
    OBVIOUS
  <1>3. \A x : /\ Told(log, "accepted", x, n + 1) <=> Told(log, "accepted", x, n)
               /\ Told(log, "started", x, n + 1) <=> Told(log, "started", x, n)
               /\ Told(log, "finished", x, n + 1) <=> Told(log, "finished", x, n)
    BY <1>1, <1>2, ToldOther
  <1>4. \A x : InTurn(log, x, n + 1) <=> InTurn(log, x, n)
    BY <1>3 DEF InTurn
  <1> QED
    BY <1>3, <1>4 DEF Knows

\* Steps that leave the link as it is.
LEMMA LinkRests ==
    ASSUME HostedInv, TaskNext, link' = link, Reading => Behind' = Behind,
           Behind' <= Len(log'), mark' # None => stage' = "exited"
    PROVE  LinkInv'
  <1>1. /\ LinkInv /\ Longer /\ epoch <= epoch' /\ (stage # "open" => stage' = stage)
        /\ link \in Link /\ epoch \in Nat /\ epoch' \in Nat
    BY FeedStep DEF HostedInv, HostedTypeOK
  <1>2. Reading' <=> Reading
    BY DEF Reading
  <1>3. Reading /\ link.step # "next" => Due' = Due /\ Behind < Len(log')
    BY <1>1 DEF LinkInv, Longer, Due, Link
  <1>4. ASSUME Reading, link.step \in {"next", "opened"}
        PROVE  Knows(link, link.at)'
    <2>1. PICK n : n = link.at
      OBVIOUS
    <2>2. n \in 0..Len(log) /\ Knows(link, n) /\ link'.at = n
      BY <1>1, <1>4, <2>1 DEF LinkInv, Link, Longer
    <2>3. Knows(link, n)'
      BY <1>1, <2>2, KnowsLater
    <2> QED
      BY <2>2, <2>3 DEF Knows
  <1>5. ASSUME link.step \in {"stored", "asked"}
        PROVE  Knows(link, link.at + 1)'
    <2>1. PICK n : n = link.at + 1
      OBVIOUS
    <2>2. n \in 0..Len(log) /\ Knows(link, n) /\ link'.at + 1 = n
      BY <1>1, <1>5, <2>1 DEF LinkInv, Link, Longer
    <2>3. Knows(link, n)'
      BY <1>1, <2>2, KnowsLater
    <2> QED
      BY <2>2, <2>3 DEF Knows
  <1>6. link.owner \in Nat
    BY <1>1 DEF Link
  <1>7. link'.mode = "catchup" => link'.upto <= Len(log')
    BY <1>1 DEF LinkInv, Longer, Link
  <1> QED
    BY <1>1, <1>2, <1>3, <1>4, <1>5, <1>6, <1>7 DEF LinkInv

\* Steps that end it.
LEMMA LinkEnds ==
    ASSUME HostedInv, TaskNext, link' \in {NoLink, [NoLink EXCEPT !.mode = "ended"]},
           Behind' = Behind, mark' # None => stage' = "exited"
    PROVE  LinkInv'
  <1>1. LinkInv /\ Longer /\ epoch' \in Nat /\ Behind <= Len(log')
    <2>1. LinkInv /\ Longer /\ epoch' \in Nat /\ Behind \in Nat
      BY FeedStep DEF HostedInv, HostedTypeOK, Behind
    <2> QED
      BY <2>1 DEF LinkInv, Longer
  <1>2. ~Reading' /\ link'.step = "next" /\ link'.owner = 0 /\ link'.mode \in {"none", "ended"}
    BY DEF NoLink, Reading
  <1> QED
    BY <1>1, <1>2 DEF LinkInv

\* Steps that take the event that is due one step further.
LEMMA LinkCommits ==
    ASSUME HostedInv, HasNext, UNCHANGED <<feed, mark>>,
           link'.mode = link.mode, link'.owner = link.owner, link'.at = link.at,
           link'.upto = link.upto,
           \/ /\ link'.step = "opened" /\ Due.kind = "started"
              /\ Knows(link', link.at)
           \/ /\ link'.step \in {"stored", "asked"}
              /\ Knows(link', link.at + 1)
    PROVE  LinkInv'
  <1>1. HostedTypeOK /\ LinkInv
    BY DEF HostedInv
  <1>2. /\ log' = log /\ epoch' = epoch /\ stage' = stage /\ Behind' = Behind
        /\ (Reading' <=> Reading) /\ Due' = Due
    BY DEF feed, Behind, Reading, Due
  <1>3. Reading /\ Behind < Len(log)
    BY <1>1, DueComes DEF Coming
  <1>4. \A n : Knows(link', n) => Knows(link, n)'
    BY <1>2 DEF Knows
  <1>5. /\ link'.step = "opened" => Knows(link, link.at)'
        /\ link'.step # "opened" => Knows(link, link.at + 1)'
    BY <1>2 DEF Knows
  <1> QED
    BY <1>1, <1>2, <1>3, <1>5 DEF LinkInv

LEMMA CommitLinks ==
    ASSUME HostedInv, Commits
    PROVE  LinkInv'
  <1>1. HostedTypeOK /\ LinkInv /\ InOrder(log) /\ log \in Seq(Event) /\ link \in Link
    BY DEF HostedInv, HostedTypeOK
  <1>2. HasNext /\ UNCHANGED <<feed, mark>>
    BY DEF Commits, OpenRun, AtRest, StartTurn, FinishTurn, NoteAccepted, NoteDisconnected,
           NoteOther, EnqueueResult, At, row
  <1>3. PICK n : n = link.at
    OBVIOUS
  <1>4. Coming(n) /\ Reading /\ Due = log[n + 1]
    BY <1>1, <1>2, <1>3, DueComes
  <1>5. /\ link'.mode = link.mode /\ link'.owner = link.owner /\ link'.at = n
        /\ link'.upto = link.upto
    BY <1>1, <1>3 DEF Commits, OpenRun, StartTurn, FinishTurn, NoteAccepted, NoteDisconnected,
                      NoteOther, EnqueueResult, Link
  <1>6. link.step \in {"next", "opened"} => Knows(link, n)
    BY <1>1, <1>3, <1>4 DEF LinkInv
  <1>7. ASSUME OpenRun
        PROVE  link'.step = "opened" /\ Due.kind = "started" /\ Knows(link', n)
    <2>1. /\ link'.step = "opened" /\ Due.kind = "started" /\ link.step = "next"
          /\ link'.active = link.active /\ link'.accepted = link.accepted
          /\ link'.finished = link.finished
      BY <1>1, <1>7 DEF OpenRun, AtRest, At, Link
    <2> QED
      BY <1>6, <2>1 DEF Knows
  <1>8. ASSUME StartTurn
        PROVE  link'.step = "stored" /\ Knows(link', n + 1)
    <2>1. /\ link'.step = "stored" /\ Due.kind = "started" /\ link.step \in {"next", "opened"}
          /\ link'.active = Due.msg /\ link'.accepted = link.accepted \ {Due.msg}
          /\ link'.finished = link.finished
      BY <1>1, <1>8 DEF StartTurn, Link
    <2> QED
      BY <1>1, <1>4, <1>6, <2>1, KnowsStarted
  <1>9. ASSUME FinishTurn
        PROVE  link'.step = "stored" /\ Knows(link', n + 1)
    <2>1. /\ link'.step = "stored" /\ Due.kind = "finished" /\ link.step = "next"
          /\ link'.active = None
          /\ link'.accepted \in {link.accepted, link.accepted \ {Due.msg}}
          /\ link'.finished = link.finished \cup {Due.msg}
      BY <1>1, <1>9 DEF FinishTurn, At, Link
    <2> QED
      BY <1>1, <1>4, <1>6, <2>1, KnowsFinished
  <1>10. ASSUME NoteAccepted
         PROVE  link'.step = "stored" /\ Knows(link', n + 1)
    <2>1. /\ link'.step = "stored" /\ Due.kind = "accepted" /\ link.step = "next"
          /\ link'.active = link.active /\ link'.finished = link.finished
          /\ \/ link'.accepted = link.accepted \cup {Due.msg}
             \/ /\ link'.accepted = link.accepted
                /\ Due.msg = link.active \/ Due.msg \in link.finished
      BY <1>1, <1>10 DEF NoteAccepted, At, Link
    <2> QED
      BY <1>1, <1>4, <1>6, <2>1, KnowsAccepted
  <1>11. ASSUME NoteDisconnected \/ NoteOther
         PROVE  link'.step = "stored" /\ Knows(link', n + 1)
    <2>1. /\ link'.step = "stored" /\ Due.kind \notin {"accepted", "started", "finished"}
          /\ link.step = "next"
          /\ link'.active = link.active /\ link'.finished = link.finished
          /\ link'.accepted = link.accepted
      BY <1>1, <1>11 DEF NoteDisconnected, NoteOther, At, Link
    <2> QED
      BY <1>1, <1>4, <1>6, <2>1, KnowsOther
  <1>12. ASSUME EnqueueResult
         PROVE  link'.step = "asked" /\ Knows(link', n + 1)
    <2>1. /\ link'.step = "asked" /\ link.step = "stored"
          /\ link'.active = link.active /\ link'.finished = link.finished
          /\ link'.accepted = link.accepted
      BY <1>1, <1>12 DEF EnqueueResult, Link
    <2> QED
      BY <1>1, <1>3, <2>1 DEF Knows, LinkInv
  <1>13. \/ link'.step = "opened" /\ Due.kind = "started" /\ Knows(link', n)
         \/ link'.step \in {"stored", "asked"} /\ Knows(link', n + 1)
    BY <1>7, <1>8, <1>9, <1>10, <1>11, <1>12 DEF Commits
  <1> QED
    BY <1>2, <1>3, <1>5, <1>13, LinkCommits

\* The event is done with: acknowledged, or marked by a replay.
LEMMA DoneLinks ==
    ASSUME HostedInv, AcknowledgeEvent \/ MarkEvent
    PROVE  /\ LinkInv' /\ Coming(Behind) /\ Behind' = Behind + 1 /\ link.at = Behind
           /\ Reading /\ log' = log /\ stage' = stage /\ link.step = "asked"
  <1>1. HostedTypeOK /\ LinkInv /\ link \in Link /\ Len(log) \in Nat /\ log \in Seq(Event)
    BY LenProperties DEF HostedInv, HostedTypeOK
  <1>2. /\ link.step = "asked" /\ Reading /\ link' = Advanced /\ log' = log /\ stage' = stage
        /\ epoch' = epoch
    BY DEF AcknowledgeEvent, MarkEvent, Acknowledge, feed, Reading
  <1>3. link.at \in Nat /\ link.at = Behind /\ Coming(link.at)
    BY <1>1, <1>2 DEF LinkInv, Link, Coming
  <1>4. Behind' = link.at + 1 /\ (mark' # None => stage = "exited")
    <2>1. CASE AcknowledgeEvent
      <3>1. stage = "open" /\ acked' = link.at + 1 /\ mark' = mark
        BY <2>1 DEF AcknowledgeEvent, Acknowledge, row
      <3>2. mark = None
        BY <1>1, <3>1 DEF LinkInv
      <3> QED
        BY <3>1, <3>2 DEF Behind
    <2>2. CASE MarkEvent
      <3>1. mark' = link.at + 1 /\ link.at + 1 \in Nat /\ link.mode = "replay"
        BY <1>3, <2>2 DEF MarkEvent
      <3>2. mark' # None
        BY <3>1, NothingAssumption
      <3> QED
        BY <1>1, <3>1, <3>2 DEF Behind, LinkInv
    <2> QED
      BY <2>1, <2>2
  <1>5. /\ link'.mode = link.mode /\ link'.owner = link.owner /\ link'.at = link.at + 1
        /\ link'.upto = link.upto /\ link'.step = "next" /\ link'.active = link.active
        /\ link'.accepted = link.accepted /\ link'.finished = link.finished
    BY <1>1, <1>2 DEF Advanced, Link
  <1>7. Knows(link, link.at)'
    <2>1. PICK n : n = link.at + 1
      OBVIOUS
    <2>2. Knows(link, n)
      BY <1>1, <1>2, <2>1 DEF LinkInv
    <2> QED
      BY <1>2, <1>5, <2>1, <2>2 DEF Knows
  <1>8. Reading' /\ link.at + 1 <= Len(log)
    BY <1>1, <1>2, <1>3, <1>5 DEF Reading, Coming
  <1>9. LinkInv'
    BY <1>1, <1>2, <1>3, <1>4, <1>5, <1>7, <1>8 DEF LinkInv
  <1> QED
    BY <1>2, <1>3, <1>4, <1>9

\* An acknowledgement that comes late is of the event that was due.
LEMMA LateStep ==
    ASSUME HostedInv, NEW l \in late, LateAcknowledge(l), NEW n, n = Behind
    PROVE  /\ link' = link /\ log' = log /\ mark' = mark /\ run' = run /\ results' = results
           /\ Behind' # n => /\ Behind' = n + 1 /\ Coming(n) /\ ~Reading
                             /\ Depicted(n + 1) /\ Sent(n + 1)
  <1>1. HostedTypeOK /\ LinkInv /\ LateInv /\ acked \in Nat /\ Len(log) \in Nat
    BY LenProperties DEF HostedInv, HostedTypeOK
  <1>2. link' = link /\ log' = log /\ mark' = mark /\ run' = run /\ results' = results
    BY DEF LateAcknowledge, Acknowledge, feed
  <1>3. CASE UNCHANGED feed
    BY <1>2, <1>3 DEF feed, Behind
  <1>4. CASE Acknowledge(l.owner, l.through)
    <2>1. stage = "open" /\ l.owner = epoch /\ acked < l.through /\ acked' = l.through
      BY <1>4 DEF Acknowledge
    <2>2. mark = None
      BY <1>1, <2>1 DEF LinkInv
    <2>3. n = acked /\ Behind' = l.through
      BY <1>2, <2>1, <2>2 DEF Behind
    <2>4. l.through \in Nat
      BY <1>1 DEF HostedTypeOK
    <2>5. /\ ~Reading /\ l.through = acked + 1 /\ acked < Len(log)
          /\ Depicted(acked + 1) /\ Sent(acked + 1)
      BY <1>1, <2>1, <2>4 DEF LateInv, Settled
    <2> QED
      BY <1>1, <1>2, <2>3, <2>5 DEF Coming
  <1> QED
    BY <1>3, <1>4 DEF LateAcknowledge

\* Otherwise only the acknowledgement and the mark move the place.
LEMMA PlaceRests ==
    ASSUME HostedInv, TaskNext, ~AcknowledgeEvent, ~MarkEvent, \A l \in late : ~LateAcknowledge(l)
    PROVE  Behind' = Behind /\ (mark' # None => stage' = "exited")
  <1>1. HostedTypeOK /\ LinkInv
    BY DEF HostedInv
  <1>2. stage # "open" => stage' = stage
    BY FeedStep
  <1>3. CASE MarkReplayed
    <2>1. Reading /\ link.at = Behind /\ stage = "exited" /\ mark' = link.at /\ acked' = acked
      BY <1>1, <1>3 DEF LinkInv, MarkReplayed, Reading, feed
    <2>2. mark' # None
      BY <1>1, <2>1, NothingAssumption DEF HostedTypeOK, Link
    <2> QED
      BY <1>2, <2>1, <2>2 DEF Behind
  <1>4. CASE ~MarkReplayed
    <2>1. UNCHANGED <<acked, mark>>
      BY <1>4 DEF TaskNext, HostReports, Report, HostCloses, Close, Submit, Commit, OpenRun,
             RefuseStart, StartTurn,
             FinishTurn, NoteAccepted, NoteDisconnected, NoteOther, EnqueueResult, Settle, GoLive,
             EndReplay, Break, EndWorker, Refresh, Recover, LeaveAlone, Reattach, Claim, Replay,
             GiveUp, AppDies, AppStarts, feed, row
    <2> QED
      BY <1>1, <1>2, <2>1 DEF Behind, LinkInv
  <1> QED
    BY <1>3, <1>4

LEMMA LinkBegins ==
    ASSUME HostedInv, Reattach \/ Replay
    PROVE  /\ LinkInv' /\ Behind' = Behind /\ link'.step = "next" /\ link'.at = Behind
           /\ log' = log /\ Reading' /\ ~Reading /\ run' = run
  <1>1. /\ HostedTypeOK /\ LinkInv /\ InOrder(log) /\ log \in Seq(Event) /\ epoch \in Nat
        /\ Len(log) \in Nat /\ Behind \in 0..Len(log)
    BY LenProperties DEF HostedInv, HostedTypeOK, LinkInv, Behind
  <1>2. PICK k : k = After(Behind)
    OBVIOUS
  <1>3. Knows(k, Behind) /\ k \in Link /\ k.at = Behind /\ k.step = "next"
    BY <1>1, <1>2, AfterKnows
  <1>4. /\ log' = log /\ Behind' = Behind /\ mark' = mark /\ run' = run
        /\ stage' = stage /\ ~Reading /\ epoch' \in {epoch, epoch + 1}
    BY DEF Reattach, Replay, Claim, Unowned, feed, row, Behind, Reading
  <1>5. /\ link'.mode \in {"catchup", "replay"} /\ link'.at = Behind /\ link'.step = "next"
        /\ link'.active = k.active /\ link'.accepted = k.accepted /\ link'.finished = k.finished
        /\ link'.upto = Len(log) /\ link'.owner <= epoch'
        /\ (link'.mode = "replay" => stage = "exited")
    <2>1. CASE Reattach
      <3>1. stage = "open" /\ epoch' = epoch + 1
        BY <2>1 DEF Reattach, Claim
      <3>2. mark = None
        BY <1>1, <3>1 DEF LinkInv
      <3>3. link' = [k EXCEPT !.mode = "catchup", !.owner = epoch + 1, !.upto = Len(log)]
        BY <1>2, <2>1, <3>2 DEF Reattach, Behind
      <3> DEFINE e == epoch + 1
                 u == Len(log)
      <3>4. link' = [k EXCEPT !.mode = "catchup", !.owner = e, !.upto = u] /\ e \in Nat
        BY <1>1, <3>3
      <3> HIDE DEF e, u
      <3>5. /\ link'.mode = "catchup" /\ link'.at = k.at /\ link'.step = k.step
            /\ link'.active = k.active /\ link'.accepted = k.accepted
            /\ link'.finished = k.finished /\ link'.upto = u /\ link'.owner = e
        BY <1>3, <3>4 DEF Link
      <3> QED
        BY <1>3, <3>1, <3>5, <1>1 DEF e, u
    <2>2. CASE Replay
      <3>1. stage = "exited" /\ epoch' = epoch
        BY <2>2 DEF Replay, feed
      <3>2. link' = [k EXCEPT !.mode = "replay", !.upto = Len(log)]
        BY <1>2, <2>2 DEF Replay, ReplayFrom, Behind
      <3>3. k.owner = 0
        BY <1>2 DEF After, NoLink
      <3> DEFINE u == Len(log)
      <3>4. link' = [k EXCEPT !.mode = "replay", !.upto = u]
        BY <3>2
      <3> HIDE DEF u
      <3>5. /\ link'.mode = "replay" /\ link'.at = k.at /\ link'.step = k.step
            /\ link'.active = k.active /\ link'.accepted = k.accepted
            /\ link'.finished = k.finished /\ link'.upto = u /\ link'.owner = k.owner
        BY <1>3, <3>4 DEF Link
      <3> QED
        BY <1>1, <1>3, <3>1, <3>3, <3>5 DEF u
    <2> QED
      BY <2>1, <2>2
  <1>6. Reading'
    BY <1>5 DEF Reading
  <1>7. Knows(link, link.at)'
    BY <1>3, <1>4, <1>5 DEF Knows
  <1>8. LinkInv'
    BY <1>1, <1>4, <1>5, <1>6, <1>7 DEF LinkInv
  <1> QED
    BY <1>4, <1>5, <1>6, <1>8

LEMMA LinkStep ==
    ASSUME HostedInv, TaskNext
    PROVE  LinkInv'
  <1>1. HostedTypeOK /\ LinkInv /\ Longer /\ link \in Link
    BY FeedStep DEF HostedInv, HostedTypeOK
  <1>2. CASE Commits
    BY <1>2, CommitLinks
  <1>3. CASE AcknowledgeEvent \/ MarkEvent
    BY <1>3, DoneLinks
  <1>4. CASE \E l \in late : LateAcknowledge(l)
    <2>1. PICK l \in late : LateAcknowledge(l)
      BY <1>4
    <2>2. PICK n : n = Behind
      OBVIOUS
    <2>3. /\ link' = link /\ log' = log /\ mark' = mark
          /\ Behind' # n => Behind' = n + 1 /\ Coming(n) /\ ~Reading
      BY <2>1, <2>2, LateStep
    <2>4. Behind' <= Len(log') /\ (Reading => Behind' = Behind)
      BY <1>1, <2>2, <2>3, LenProperties DEF Coming, LinkInv, HostedTypeOK
    <2>5. mark' # None => stage' = "exited"
      BY <1>1, <2>3, FeedStep DEF LinkInv
    <2> QED
      BY <2>3, <2>4, <2>5, LinkRests
  <1>5. CASE GoLive
    <2>1. /\ link' = [link EXCEPT !.mode = "live"] /\ Reading /\ Reading'
          /\ UNCHANGED <<feed, mark>>
      BY <1>1, <1>5 DEF GoLive, Reading, row, Link
    <2>2. /\ link'.mode = "live" /\ link'.at = link.at /\ link'.step = link.step
          /\ link'.active = link.active /\ link'.accepted = link.accepted
          /\ link'.finished = link.finished /\ link'.owner = link.owner
      BY <1>1, <2>1 DEF Link
    <2>3. /\ log' = log /\ Behind' = Behind /\ Due' = Due /\ stage' = stage
          /\ epoch' = epoch
      BY <2>1, <2>2 DEF feed, Behind, Due
    <2>4. (Knows(link, link.at) => Knows(link, link.at)') /\ (Knows(link, link.at + 1) => Knows(link, link.at + 1)')
      BY <2>2, <2>3 DEF Knows
    <2> QED
      BY <1>1, <2>1, <2>2, <2>3, <2>4 DEF LinkInv
  <1>6. CASE Reattach \/ Replay
    BY <1>6, LinkBegins
  <1>7. ASSUME ~Commits, ~AcknowledgeEvent, ~MarkEvent, ~GoLive, ~Reattach, ~Replay,
               \A l \in late : ~LateAcknowledge(l)
        PROVE  LinkInv'
    <2>1. Behind' = Behind /\ (mark' # None => stage' = "exited")
      BY <1>7, PlaceRests
    <2>2. link' \in {link, NoLink, [NoLink EXCEPT !.mode = "ended"]}
      BY <1>7, CommitOrRefuse
         DEF TaskNext, HostReports, HostCloses, Submit, RefuseStart, Settle, MarkReplayed,
                  EndReplay, Break, EndWorker, Refresh, Recover, LeaveAlone, GiveUp, AppDies, AppStarts
    <2>3. Behind <= Len(log')
      BY <1>1 DEF LinkInv, Longer, Behind, HostedTypeOK
    <2> QED
      BY <2>1, <2>2, <2>3, LinkRests, LinkEnds
  <1> QED
    BY <1>2, <1>3, <1>4, <1>5, <1>6, <1>7

-----------------------------------------------------------------------------
(* The rows follow the log *)

LEMMA PlaceTypes ==
    ASSUME HostedTypeOK, LinkInv
    PROVE  /\ Behind \in 0..Len(log) /\ Len(log) \in Nat
           /\ link.step # "next" => Behind + 1 \in 0..Len(log)
           /\ Reading => link.at = Behind
  BY LenProperties DEF HostedTypeOK, LinkInv, Behind

LEMMA TurnRows ==
    ASSUME HostedInv, TaskNext, TurnWrite
    PROVE  RowsInv'
  <1>1. PICK n : n = Behind
    OBVIOUS
  <1>2. HostedTypeOK /\ LinkInv /\ RowsInv /\ link \in Link
    BY DEF HostedInv, HostedTypeOK
  <1>3. /\ Coming(n) /\ Newly(n + 1)' /\ OutcomesKept /\ Longer /\ results' = results
        /\ log' = log
    BY <1>1, TurnStep
  <1>4. Behind' = n
    BY <1>1 DEF TurnWrite, OpenRun, StartTurn, FinishTurn, feed, Behind
  <1>5. link'.step \in {"opened", "stored"}
    BY <1>2 DEF TurnWrite, OpenRun, StartTurn, FinishTurn, Link
  <1>6. ASSUME NEW i \in 1..n
        PROVE  Sent(i)'
    <2>1. i \in 1..Len(log) /\ Sent(i)
      BY <1>1, <1>2, PlaceTypes DEF RowsInv
    <2> QED
      BY <1>2, <1>3, <2>1, SentStays
  <1>7. Newly(Behind + 1)'
    BY <1>3, <1>4 DEF Newly, Depicted, HaveRuns, HaveOutcomes, InCourse, Between
  <1> QED
    BY <1>4, <1>5, <1>6, <1>7 DEF RowsInv, Repeated

\* One place further in the log.
LEMMA DoneRows ==
    ASSUME HostedInv, NEW n, n = Behind, Behind' = n + 1, log' = log, run' = run,
           results' = results, Coming(n), Depicted(n + 1), Sent(n + 1), link'.step = "next"
    PROVE  RowsInv'
  <1>1. HostedTypeOK /\ LinkInv /\ RowsInv /\ n \in Nat /\ Longer
    BY SameLonger DEF HostedInv, Coming
  <1>2. Depicted(n + 1)'
    <2>1. n + 1 \in 0..Len(log)
      BY <1>1 DEF Coming, Longer
    <2> QED
      BY <1>1, <2>1, MoveKeepsPicture DEF RowsMove
  <1>3. ASSUME NEW i \in 1..(n + 1)
        PROVE  Sent(i)'
    <2>1. Sent(i)
      BY <1>1, <1>3 DEF RowsInv
    <2> QED
      BY <2>1 DEF Sent
  <1>4. Depicted(Behind)'
    BY <1>2 DEF Depicted, HaveRuns, HaveOutcomes, InCourse, Between
  <1> QED
    BY <1>3, <1>4 DEF RowsInv

LEMMA RepeatedComes ==
    ASSUME HostedTypeOK, LinkInv, Repeated
    PROVE  Coming(Behind)
  <1>1. Behind \in 0..Len(log) /\ Len(log) \in Nat /\ link \in Link
    BY PlaceTypes DEF HostedTypeOK
  <1>2. Behind < Len(log)
    BY <1>1 DEF Repeated, LinkInv, Link
  <1> QED
    BY <1>1, <1>2 DEF Coming

\* Until the event is done with.
LEMMA RepeatedStays ==
    ASSUME HostedInv, TaskNext, Behind' = Behind, Repeated
    PROVE  Repeated'
  <1>1. HostedTypeOK /\ LinkInv /\ Longer /\ link \in Link /\ Coming(Behind)
    BY FeedStep, RepeatedComes DEF HostedInv, HostedTypeOK
  <1>2. Behind < Len(log) /\ Behind' < Len(log') /\ Behind \in Nat
    BY <1>1 DEF Coming, Longer
  <1>3. CASE link' \in {NoLink, [NoLink EXCEPT !.mode = "ended"]}
    BY <1>2, <1>3 DEF NoLink, Repeated
  <1>4. CASE Commits
    <2>1. link'.step # "next"
      BY <1>1, <1>4 DEF Commits, OpenRun, StartTurn, FinishTurn, NoteAccepted, NoteDisconnected,
                        NoteOther, EnqueueResult, Link
    <2> QED
      BY <2>1 DEF Repeated
  <1>5. CASE GoLive
    <2>1. link.mode = "catchup" /\ link.at = link.upto /\ link'.step = link.step
      BY <1>1, <1>5 DEF GoLive, Link
    <2>2. link.at = Behind
      BY <1>1, <2>1 DEF LinkInv, Reading
    <2> QED
      BY <1>2, <2>1, <2>2 DEF Repeated
  <1>6. CASE Reattach \/ Replay
    <2>1. link'.mode # "live" /\ (link'.mode = "catchup" => link'.upto = Len(log))
      <3>1. PICK k, owner, u : /\ k \in Link /\ u = Len(log)
                               /\ \/ link' = [k EXCEPT !.mode = "catchup", !.owner = owner, !.upto = u]
                                  \/ link' = [k EXCEPT !.mode = "replay", !.upto = u]
        <4>1. \A n \in 0..Len(log) : After(n) \in Link
          BY <1>1, AfterKnows DEF HostedInv, HostedTypeOK
        <4>2. acked \in 0..Len(log) /\ ReplayFrom = Behind /\ Behind \in 0..Len(log)
          BY <1>1, PlaceTypes DEF HostedTypeOK, ReplayFrom, Behind
        <4> QED
          BY <1>6, <4>1, <4>2 DEF Reattach, Replay
      <3> QED
        BY <3>1 DEF Link
    <2> QED
      BY <1>2, <2>1 DEF Repeated
  <1>7. CASE link' = link
    BY <1>1, <1>2, <1>7 DEF Repeated, Longer, Link
  <1>8. ~AcknowledgeEvent /\ ~MarkEvent
    BY <1>2, DoneLinks
  <1> QED
    BY <1>3, <1>4, <1>5, <1>6, <1>7, <1>8, CommitOrRefuse
       DEF TaskNext, HostReports, HostCloses, LateAcknowledge, Submit, RefuseStart, Settle,
           MarkReplayed, EndReplay, Break, EndWorker, Refresh, Recover, LeaveAlone, GiveUp,
           AppDies, AppStarts

LEMMA RestRows ==
    ASSUME HostedInv, TaskNext, ~TurnWrite, Behind' = Behind
    PROVE  RowsInv'
  <1>1. HostedTypeOK /\ LinkInv /\ RowsInv /\ InOrder(log) /\ link \in Link /\ log \in Seq(Event)
    BY DEF HostedInv, HostedTypeOK
  <1>2. /\ RowsMove \/ (Submit /\ RowsOpen)
        /\ Longer /\ results \subseteq results' /\ RowTypes /\ OutcomesKept
    BY <1>1, OtherStep, RowsOfType, MoveKeepsOutcomes
  <1>3. PICK n : n = Behind
    OBVIOUS
  <1>4. n \in 0..Len(log) /\ Len(log) \in Nat /\ (link.step # "next" => n + 1 \in 0..Len(log))
    BY <1>1, <1>3, PlaceTypes
  <1>5. /\ Depicted(n) => Depicted(n)'
        /\ ~Submit /\ n + 1 \in 0..Len(log) /\ Newly(n + 1) => Newly(n + 1)'
    <2>1. n + 1 \in 0..Len(log) => n + 1 \in 1..Len(log)
      BY <1>4
    <2> QED
      BY <1>1, <1>2, <1>4, <2>1, MoveKeepsPicture, MoveKeepsNew
  <1>6. (Depicted(n)' => Depicted(Behind)') /\ (Newly(n + 1)' => Newly(Behind + 1)')
    BY <1>3 DEF Newly, Depicted, HaveRuns, HaveOutcomes, InCourse, Between
  <1>15. Submit => link.step = "next" /\ link' = link /\ ~Repeated
    BY DEF Submit, Repeated
  <1>16. Repeated => Coming(n)
    BY <1>1, <1>3, RepeatedComes
  <1>7. Depicted(Behind)' \/ (Repeated /\ Newly(Behind + 1))'
    <2>1. CASE Depicted(n)
      BY <1>5, <1>6, <2>1
    <2>2. CASE Repeated /\ Newly(n + 1)
      <3>1. n + 1 \in 0..Len(log)
        BY <1>16, <1>4, <2>2 DEF Coming
      <3>2. Repeated'
        BY <2>2, RepeatedStays
      <3> QED
        BY <1>5, <1>6, <1>15, <2>2, <3>1, <3>2
    <2> QED
      BY <1>1, <1>3, <2>1, <2>2 DEF RowsInv
  <1>8. \A i \in 1..Behind' : Sent(i)'
    <2> SUFFICES ASSUME NEW i \in 1..n
                 PROVE  Sent(i)'
      BY <1>3
    <2>1. i \in 1..Len(log) /\ Sent(i)
      BY <1>1, <1>3, <1>4 DEF RowsInv
    <2> QED
      BY <1>1, <1>2, <2>1, SentStays
  <1>9. ASSUME NoteAccepted \/ NoteDisconnected \/ NoteOther
        PROVE  Newly(n + 1)' /\ link'.step = "stored"
    <2>1. /\ HasNext /\ link.step = "next" /\ link'.step = "stored"
          /\ Due.kind \notin {"started", "finished"}
      BY <1>1, <1>9 DEF NoteAccepted, NoteDisconnected, NoteOther, At, Link
    <2>2. Coming(n) /\ Due = log[n + 1]
      BY <1>1, <1>3, <2>1, DueComes
    <2>3. Newly(n + 1)
      BY <1>1, <1>3, <1>4, <2>1, <2>2, DepictedSkip DEF RowsInv
    <2>4. n + 1 \in 0..Len(log)
      BY <1>1, <2>2, EventTypes
    <2>5. ~Submit
      BY <1>1, <2>1 DEF Submit
    <2> QED
      BY <1>5, <2>1, <2>3, <2>4, <2>5
  <1>10. ASSUME EnqueueResult
         PROVE  Newly(n + 1)' /\ Sent(n + 1)'
    <2>1. HasNext /\ link.step = "stored" /\ results' = results \cup ResultOfEvent /\ run' = run /\ log' = log
      BY <1>10 DEF EnqueueResult, feed
    <2>2. /\ Coming(n) /\ Due = log[n + 1] /\ Newly(n + 1) /\ n + 1 \in 0..Len(log)
          /\ ~Submit
      BY <1>1, <1>3, <1>4, <2>1, DueComes DEF RowsInv, Submit
    <2>3. ASSUME log[n + 1].kind = "finished"
          PROVE  \E g \in results' : run'[g] = Row(log[n + 1])
      <3>1. run[Gen] = Row(log[n + 1]) /\ log[n + 1].outcome \in Outcome
        BY <1>1, <1>2, <2>2, <2>3, FinishedAgain, EventTypes
      <3>2. IsTerminal
        BY <3>1 DEF Row, IsTerminal, Now
      <3> QED
        BY <2>1, <2>2, <2>3, <3>1, <3>2 DEF ResultOfEvent
    <2> QED
      BY <1>5, <2>1, <2>2, <2>3 DEF Sent
  <1>11. ASSUME ~NoteAccepted, ~NoteDisconnected, ~NoteOther, ~EnqueueResult
         PROVE  link'.step \in {"next", link.step}
    <2>1. CASE Reattach \/ Replay
      BY <2>1, LinkBegins
    <2>2. ASSUME ~Reattach, ~Replay
          PROVE  link' \in {link, NoLink, [NoLink EXCEPT !.mode = "ended"], Advanced,
                            [link EXCEPT !.mode = "live"]}
      BY <1>11, <2>2
         DEF TurnWrite, TaskNext, HostReports, HostCloses, LateAcknowledge, Submit, Commit,
         RefuseStart, Settle, AcknowledgeEvent, MarkEvent, GoLive, MarkReplayed, EndReplay, Break, EndWorker,
         Refresh, Recover, LeaveAlone, GiveUp, AppDies, AppStarts
    <2>3. /\ NoLink.step = "next" /\ [NoLink EXCEPT !.mode = "ended"].step = "next"
          /\ Advanced.step = "next" /\ [link EXCEPT !.mode = "live"].step = link.step
      BY <1>1 DEF NoLink, Advanced, Link
    <2> QED
      BY <2>1, <2>2, <2>3
  <1>12. link'.step # "next" => Newly(n + 1)'
    <2>1. CASE link.step # "next"
      BY <1>1, <1>3, <1>4, <1>5, <1>15, <2>1 DEF RowsInv
    <2>2. CASE link.step = "next"
      BY <1>9, <1>10, <1>11, <2>2
    <2> QED
      BY <2>1, <2>2
  <1>13. link'.step = "asked" => Sent(n + 1)'
    <2>1. CASE EnqueueResult
      BY <1>10, <2>1
    <2>2. CASE ~EnqueueResult /\ link'.step = "asked"
      <3>1. link.step = "asked"
        BY <1>9, <1>11, <2>2
      <3>2. Sent(n + 1) /\ n + 1 \in 1..Len(log)
        BY <1>1, <1>3, <1>4, <3>1 DEF RowsInv
      <3> QED
        BY <1>1, <1>2, <3>2, SentStays
    <2> QED
      BY <2>1, <2>2
  <1>14. Sent(n + 1)' => Sent(Behind + 1)'
    BY <1>3 DEF Sent
  <1> QED
    BY <1>6, <1>7, <1>8, <1>12, <1>13, <1>14 DEF RowsInv

LEMMA RowsStep ==
    ASSUME HostedInv, TaskNext
    PROVE  RowsInv'
  <1>1. PICK n : n = Behind
    OBVIOUS
  <1>2. CASE TurnWrite
    BY <1>2, TurnRows
  <1>3. CASE AcknowledgeEvent \/ MarkEvent
    <2>1. Coming(n) /\ Behind' = n + 1 /\ log' = log /\ link.step = "asked"
      BY <1>1, <1>3, DoneLinks
    <2>2. Depicted(n + 1) /\ Sent(n + 1)
      BY <1>1, <2>1 DEF HostedInv, RowsInv, Newly
    <2>3. run' = run /\ results' = results /\ link'.step = "next"
      BY <1>3 DEF AcknowledgeEvent, MarkEvent, row, Advanced, HostedInv, HostedTypeOK, Link
    <2> QED
      BY <1>1, <2>1, <2>2, <2>3, DoneRows
  <1>4. CASE ~TurnWrite /\ \E l \in late : LateAcknowledge(l)
    <2>1. PICK l \in late : LateAcknowledge(l)
      BY <1>4
    <2>2. /\ link' = link /\ log' = log /\ run' = run /\ results' = results
          /\ Behind' # n => Behind' = n + 1 /\ Coming(n) /\ ~Reading /\ Depicted(n + 1) /\ Sent(n + 1)
      BY <1>1, <2>1, LateStep
    <2>3. CASE Behind' = n
      BY <1>1, <1>4, <2>3, RestRows
    <2>4. CASE Behind' # n
      <3>1. link'.step = "next"
        BY <2>2, <2>4 DEF HostedInv, LinkInv
      <3> QED
        BY <1>1, <2>2, <2>4, <3>1, DoneRows
    <2> QED
      BY <2>3, <2>4
  <1>5. ASSUME ~TurnWrite, ~AcknowledgeEvent, ~MarkEvent, \A l \in late : ~LateAcknowledge(l)
        PROVE  RowsInv'
    <2>1. Behind' = Behind
      BY <1>5, PlaceRests
    <2> QED
      BY <1>5, <2>1, RestRows
  <1> QED
    BY <1>2, <1>3, <1>4, <1>5

-----------------------------------------------------------------------------
(* Acknowledgements under way *)

LEMMA OpenMeansAcked ==
    ASSUME HostedInv, TaskNext, stage' = "open"
    PROVE  stage = "open" /\ mark = None /\ mark' = None /\ Behind = acked /\ Behind' = acked'
  <1>1. stage = "open"
    BY FeedStep
  <1>2. LinkInv' /\ LinkInv
    BY LinkStep DEF HostedInv
  <1> QED
    BY <1>1, <1>2 DEF LinkInv, Behind

LEMMA SettledStays ==
    ASSUME HostedInv, TaskNext, ~TurnWrite, NEW l \in late, Settled(l)
    PROVE  Settled(l)'
  <1>1. HostedTypeOK /\ Longer /\ acked <= acked' /\ acked \in 0..Len(log) /\ acked' \in Nat
    <2>1. HostedTypeOK /\ acked \in 0..Len(log)
      BY DEF HostedInv, HostedTypeOK
    <2>2. Longer /\ acked <= acked' /\ acked' \in 0..Len(log')
      BY FeedStep
    <2> QED
      BY <2>1, <2>2
  <1>2. l.through \in Nat
    BY <1>1 DEF HostedTypeOK
  <1>3. CASE l.through <= acked \/ acked' # acked
    BY <1>1, <1>2, <1>3 DEF Settled
  <1>4. CASE ~(l.through <= acked) /\ acked' = acked
    <2>1. PICK n : n = acked + 1
      OBVIOUS
    <2>2. l.through = n /\ n \in 1..Len(log) /\ Depicted(n) /\ Sent(n) /\ n \in 0..Len(log)
      BY <1>1, <1>4, <2>1 DEF Settled, Longer
    <2>3. (RowsMove \/ RowsOpen) /\ RowTypes /\ OutcomesKept /\ results \subseteq results'
      BY <1>1, OtherStep, RowsOfType, MoveKeepsOutcomes
    <2>4. Depicted(n)' /\ Sent(n)'
      BY <1>1, <2>2, <2>3, MoveKeepsPicture, SentStays
    <2>5. Depicted(acked + 1)' /\ Sent(acked + 1)'
      BY <1>4, <2>1, <2>4
         DEF Depicted, HaveRuns, HaveOutcomes, InCourse, Between, Sent
    <2> QED
      BY <1>1, <1>4, <2>1, <2>2, <2>5 DEF Settled, Longer
  <1> QED
    BY <1>3, <1>4

LEMMA LateInvStep ==
    ASSUME HostedInv, TaskNext
    PROVE  LateInv'
  <1> SUFFICES ASSUME stage' = "open", NEW l \in late'
               PROVE  /\ l.owner <= epoch'
                      /\ l.owner = epoch' => ~Reading' /\ Settled(l)'
    BY DEF LateInv
  <1>1. /\ HostedTypeOK /\ LinkInv /\ RowsInv /\ LateInv /\ link \in Link /\ epoch \in Nat
        /\ epoch' \in Nat /\ epoch <= epoch' /\ Longer
    BY FeedStep DEF HostedInv, HostedTypeOK
  <1>2. stage = "open" /\ Behind = acked /\ Behind' = acked'
    BY OpenMeansAcked
  <1>3. CASE l \in late /\ Reattach
    <2>1. epoch' = epoch + 1 /\ l.owner <= epoch /\ l.owner \in Nat
      BY <1>1, <1>2, <1>3 DEF Reattach, Claim, LateInv, HostedTypeOK
    <2> QED
      BY <1>1, <2>1
  <1>4. CASE l \in late /\ ~Reattach
    <2>1. l.owner <= epoch /\ l.owner \in Nat
      BY <1>1, <1>2, <1>4 DEF LateInv, HostedTypeOK
    <2>2. ASSUME l.owner = epoch'
          PROVE  ~Reading' /\ Settled(l)'
      <3>1. l.owner = epoch
        BY <1>1, <2>1, <2>2
      <3>2. ~Reading /\ Settled(l)
        BY <1>1, <1>2, <1>4, <3>1 DEF LateInv
      <3>3. ~TurnWrite
        BY <3>2 DEF TurnWrite, OpenRun, AtRest, StartTurn, FinishTurn, At, HasNext
      <3>4. ~Reading'
        <4>1. ~Replay
          BY <1>2 DEF Replay
        <4>2. ~Commit /\ ~GoLive /\ ~AcknowledgeEvent /\ ~MarkEvent
          BY <3>2 DEF Commit, OpenRun, RefuseStart, AtRest, StartTurn, FinishTurn, NoteAccepted,
                      NoteDisconnected, NoteOther, EnqueueResult, At, HasNext, Reading, GoLive, AcknowledgeEvent,
                      MarkEvent
        <4>3. link' \in {link, NoLink, [NoLink EXCEPT !.mode = "ended"]}
          BY <1>4, <4>1, <4>2 DEF TaskNext, HostReports, HostCloses, LateAcknowledge, Submit, Settle,
             MarkReplayed, EndReplay, Break, EndWorker, Refresh, Recover, LeaveAlone, GiveUp,
             AppDies, AppStarts
        <4> QED
          BY <3>2, <4>3 DEF Reading, NoLink
      <3> QED
        BY <1>4, <3>2, <3>3, <3>4, SettledStays
    <2>3. l.owner <= epoch'
      BY <1>1, <2>1
    <2> QED
      BY <2>2, <2>3
  <1>5. CASE l \notin late
    <2>1. Break \/ AppDies
      BY <1>5 DEF TaskNext, HostReports, HostCloses, LateAcknowledge, Submit, Commit, OpenRun,
         RefuseStart, StartTurn, FinishTurn, NoteAccepted, NoteDisconnected, NoteOther, EnqueueResult, Settle,
         AcknowledgeEvent, MarkEvent, GoLive, MarkReplayed, EndReplay, EndWorker, Refresh,
         Recover, LeaveAlone, Reattach, Replay, GiveUp, AppStarts
    <2>2. l \in Abandoned
      BY <1>5, <2>1 DEF Break, AppDies
    <2>3. /\ link.step = "asked" /\ link.mode \in {"catchup", "live"}
          /\ l.owner = link.owner /\ l.through = link.at + 1
      BY <1>5, <2>2 DEF Abandoned
    <2>4. Reading /\ link.at = acked /\ acked < Len(log)
      BY <1>1, <1>2, <2>3 DEF LinkInv, Reading
    <2>5. Depicted(acked + 1) /\ Sent(acked + 1)
      BY <1>1, <1>2, <2>3 DEF RowsInv, Newly
    <2>6. UNCHANGED <<log, acked, epoch, run, results>> /\ ~Reading'
      BY <2>1 DEF Break, AppDies, feed, row, Reading, NoLink
    <2>7. Depicted(acked + 1)' /\ Sent(acked + 1)'
      <3>1. PICK n : n = acked + 1
        OBVIOUS
      <3>2. Depicted(n) /\ n \in 0..Len(log) /\ RowsMove /\ acked' + 1 = n
        BY <1>1, <2>4, <2>5, <2>6, <3>1 DEF RowsMove, HostedTypeOK, Longer
      <3>3. Depicted(n)'
        BY <1>1, <3>2, MoveKeepsPicture
      <3> QED
        BY <2>5, <2>6, <3>1, <3>2, <3>3
           DEF Depicted, HaveRuns, HaveOutcomes, InCourse, Between, Sent
    <2>8. Settled(l)'
      BY <2>3, <2>4, <2>6, <2>7 DEF Settled
    <2> QED
      BY <1>1, <2>3, <2>6, <2>8 DEF LinkInv
  <1> QED
    BY <1>3, <1>4, <1>5

-----------------------------------------------------------------------------
(* The invariant *)

LEMMA HostedInit == TaskInit => HostedInv
  <1> SUFFICES ASSUME TaskInit
               PROVE  HostedInv
    OBVIOUS
  <1> DEFINE first == [turn |-> None, state |-> "queued"]
  <1>1. /\ log = <<>> /\ acked = 0 /\ epoch = 1 /\ stage = "open" /\ run = <<first>>
        /\ mark = None /\ results = {} /\ late = {} /\ sent = {}
        /\ link = [NoLink EXCEPT !.mode = "live", !.owner = 1]
        /\ app = [up |-> TRUE, pass |-> "none", deaths |-> 0, refreshes |-> 0]
    BY DEF TaskInit
  <1>2. log \in Seq(Event) /\ Len(log) = 0
    BY <1>1, EmptySeq
  <1>3. first \in RunRow /\ first.turn = None /\ first.state = "queued"
    BY DEF RunRow, State, Active
  <1>4. /\ RowTypes /\ Gen = 1 /\ run[1] = first /\ DOMAIN run = {1}
    <2> HIDE DEF first
    <2>1. run = <<first>>
      BY <1>1
    <2> QED
      BY <1>3, <2>1 DEF RowTypes, Gen
  <1>5. /\ link \in Link /\ link.mode = "live" /\ link.owner = 1 /\ link.at = 0
        /\ link.step = "next" /\ link.active = None /\ link.accepted = {} /\ link.finished = {}
    BY <1>1 DEF NoLink, Link
  <1>6. HostedTypeOK
    BY <1>1, <1>2, <1>4, <1>5 DEF HostedTypeOK, RowTypes, RunRow
  <1>7. InOrder(log)
    BY <1>2 DEF InOrder, InTurn, Told
  <1>8. Behind = 0
    BY <1>1 DEF Behind
  <1>9. Knows(link, 0)
    <2>1. \A m \in Message : m # None
      BY NothingAssumption
    <2> QED
      BY <1>5, <2>1 DEF Knows, InTurn, Told
  <1>10. LinkInv
    BY <1>1, <1>2, <1>5, <1>8, <1>9 DEF LinkInv, Reading
  <1>11. Depicted(0)
    <2>1. \A m \in Message : run[1].turn # m
      BY <1>3, <1>4, NothingAssumption
    <2>2. ~IsTerminal
      BY <1>3, <1>4, EndedIsNotActive DEF IsTerminal, Now
    <2>3. \A kind, m : ~Told(log, kind, m, 0)
      BY DEF Told
    <2>4. HaveRuns(0) /\ HaveOutcomes(0)
      BY <1>4, <2>1, <2>3 DEF HaveRuns, HaveOutcomes
    <2>5. InCourse(0) /\ Between(0)
      BY <1>3, <1>4, <2>2, <2>3 DEF InCourse, Between, InTurn
    <2> QED
      BY <2>4, <2>5 DEF Depicted
  <1>12. RowsInv
    BY <1>5, <1>8, <1>11 DEF RowsInv
  <1> QED
    BY <1>1, <1>6, <1>7, <1>10, <1>12 DEF HostedInv, LateInv

LEMMA HostedRests == HostedInv /\ UNCHANGED taskVars => HostedInv'
  <1> SUFFICES ASSUME HostedInv, UNCHANGED taskVars
               PROVE  HostedInv'
    OBVIOUS
  <1>1. UNCHANGED <<log, acked, epoch, stage, sent, run, mark, results, link, app, late>>
    BY DEF taskVars
  <1>2. HostedTypeOK' /\ InOrder(log)'
    BY <1>1 DEF HostedInv, HostedTypeOK
  <1>3. Behind' = Behind /\ Due' = Due /\ Gen' = Gen /\ IsTerminal' = IsTerminal
        /\ (Reading' <=> Reading)
    BY <1>1 DEF Behind, Due, Gen, IsTerminal, Now, Reading
  <1>4. LinkInv'
    BY <1>1, <1>3 DEF HostedInv, LinkInv, Knows
  <1>5. RowsInv'
    BY <1>1, <1>3 DEF HostedInv, RowsInv, Repeated, Newly, Depicted, HaveRuns, HaveOutcomes, InCourse, Between, Sent
  <1>6. LateInv'
    BY <1>1, <1>3 DEF HostedInv, LateInv, Settled, Depicted, HaveRuns, HaveOutcomes, InCourse, Between, Sent
  <1> QED
    BY <1>2, <1>4, <1>5, <1>6 DEF HostedInv

LEMMA HostedStep == HostedInv /\ [TaskNext]_taskVars => HostedInv'
  <1> SUFFICES ASSUME HostedInv, [TaskNext]_taskVars
               PROVE  HostedInv'
    OBVIOUS
  <1>1. CASE UNCHANGED taskVars
    BY <1>1, HostedRests
  <1>2. CASE TaskNext
    <2>1. InOrder(log')
      <3>1. CASE TurnWrite
        BY <3>1 DEF TurnWrite, OpenRun, StartTurn, FinishTurn, feed, HostedInv
      <3>2. CASE ~TurnWrite
        BY <1>2, <3>2, OtherStep
      <3> QED
        BY <3>1, <3>2
    <2>2. HostedTypeOK' /\ LinkInv' /\ RowsInv' /\ LateInv'
      BY <1>2, TypeStep, LinkStep, RowsStep, LateInvStep
    <2> QED
      BY <2>1, <2>2 DEF HostedInv
  <1> QED
    BY <1>1, <1>2

LEMMA HostedAlways == TaskSpec => []HostedInv
  BY HostedInit, HostedStep, PTL DEF TaskSpec

\* The rows, the link and what is under way keep their types through every
\* interleaving of the worker, the recovery, the host and their failures
\* (coordinator.rs:4508-4525, 657-830).
THEOREM HostedTypesHold == TaskSpec => []HostedTypeOK
  BY HostedAlways, PTL DEF HostedInv

\* An event that was acknowledged is in the rows, its run and its outcome, and
\* the outcome is on its way to the parent, wherever the worker was cut off
\* (commit_runtime_event before acknowledge_events, coordinator.rs:4508-4525).
THEOREM StoredBeforeAcknowledged == TaskSpec => []AckedIsStored
  <1>1. HostedInv => AckedIsStored
    <2> SUFFICES ASSUME HostedInv, NEW i \in 1..Behind
                 PROVE  Shown(log[i])
      BY DEF AckedIsStored
    <2>1. HostedTypeOK /\ LinkInv /\ RowsInv /\ RowTypes /\ InOrder(log) /\ log \in Seq(Event)
      BY RowsOfType DEF HostedInv, HostedTypeOK
    <2>2. PICK n : n = Behind
      OBVIOUS
    <2>3. n \in 0..Len(log) /\ Len(log) \in Nat /\ i \in 1..n /\ i \in 1..Len(log)
      BY <2>1, <2>2, PlaceTypes
    <2>4. Sent(i)
      BY <2>1 DEF RowsInv
    <2>5. ASSUME log[i].kind = "started"
          PROVE  \E g \in DOMAIN run : run[g].turn = log[i].msg
      <3>1. log[i].msg \in Message
        BY <2>1, <2>3, <2>5, DueTypes
      <3>2. Told(log, "started", log[i].msg, n) /\ Told(log, "started", log[i].msg, n + 1)
        BY <2>3, <2>5 DEF Told
      <3>3. HaveRuns(n) \/ HaveRuns(n + 1)
        BY <2>1, <2>2 DEF RowsInv, Newly, Depicted
      <3> QED
        BY <3>1, <3>2, <3>3 DEF HaveRuns
    <2> QED
      BY <2>4, <2>5 DEF Shown, Sent, Row
  <1> QED
    BY <1>1, HostedAlways, PTL

\* Protocol state rebuilt from the host's snapshot never passes over an event that was
\* not acknowledged, in whatever order a turn's acceptance, start and end came; and a
\* turn that was accepted before it started is known as accepted to every reader, so
\* that its start finds or opens its run (runtime_event_is_stale, coordinator.rs:3963-3985,
\* and 4186-4222).
THEOREM NoEventPassedOver == TaskSpec => []EveryEventApplies
  <1>1. HostedInv => EveryEventApplies
    <2> SUFFICES ASSUME HostedInv, HasNext, link.step = "next"
                 PROVE  /\ ~IsStale
                        /\ (/\ Due.kind = "started"
                            /\ \E i \in 1..link.at : log[i].kind = "accepted" /\ log[i].msg = Due.msg)
                              => Due.msg \in link.accepted
      BY DEF EveryEventApplies
    <2>1. HostedTypeOK /\ LinkInv /\ InOrder(log) /\ log \in Seq(Event)
      BY DEF HostedInv, HostedTypeOK
    <2>2. PICK n : n = link.at
      OBVIOUS
    <2>3. Coming(n) /\ Reading /\ Due = log[n + 1]
      BY <2>1, <2>2, DueComes
    <2>4. Knows(link, n)
      BY <2>1, <2>2, <2>3 DEF LinkInv
    <2>5. ASSUME Due.kind = "started"
          PROVE  /\ link.active # Due.msg /\ Due.msg \notin link.finished
                 /\ Told(log, "accepted", Due.msg, n) => Due.msg \in link.accepted
      BY <2>1, <2>3, <2>4, <2>5, StartedIsNew DEF Knows, InTurn
    <2>6. ASSUME Due.kind = "finished"
          PROVE  link.active = Due.msg
      BY <2>1, <2>3, <2>4, <2>6, FinishedWasIn DEF Knows
    <2> QED
      BY <2>2, <2>5, <2>6 DEF IsStale, Told
  <1> QED
    BY <1>1, HostedAlways, PTL

-----------------------------------------------------------------------------
(* The rows as a history of turns *)

Entry(r) == [turn |-> r.turn, outcome |-> IF r.state \in Outcome THEN r.state ELSE None]
HistoryOf(rows) == [g \in DOMAIN rows |-> Entry(rows[g])]
History == HistoryOf(run)
HistoryRow == [turn : Message \cup {None}, outcome : Outcome \cup {None}]

LEMMA HistoryRead ==
    History = [g \in DOMAIN run |->
                  [turn |-> run[g].turn,
                   outcome |-> IF run[g].state \in Outcome THEN run[g].state ELSE None]]
  BY DEF History, HistoryOf, Entry

LEMMA FunctionIsSeq ==
    ASSUME NEW S, NEW n \in Nat, NEW f \in [1..n -> S]
    PROVE  f \in Seq(S) /\ Len(f) = n
  <1>1. f \in Seq(S)
    BY SeqDef
  <1>2. 1..Len(f) = 1..n /\ Len(f) \in Nat
    BY <1>1, LenProperties
  <1> QED
    BY <1>1, <1>2

LEMMA HistoryOfRows ==
    ASSUME NEW rows \in Seq(RunRow)
    PROVE  /\ HistoryOf(rows) \in Seq(HistoryRow) /\ Len(HistoryOf(rows)) = Len(rows)
           /\ DOMAIN HistoryOf(rows) = 1..Len(rows)
           /\ \A g \in 1..Len(rows) : HistoryOf(rows)[g] = Entry(rows[g])
           /\ HistoryOf(rows) \in [1..Len(rows) -> HistoryRow]
  <1>1. Len(rows) \in Nat /\ DOMAIN rows = 1..Len(rows) /\ \A g \in 1..Len(rows) : rows[g] \in RunRow
    BY LenProperties, ElementOfSeq
  <1>2. \A g \in 1..Len(rows) : Entry(rows[g]) \in HistoryRow
    BY <1>1 DEF RunRow, HistoryRow, Entry
  <1>3. HistoryOf(rows) \in [1..Len(rows) -> HistoryRow]
    BY <1>1, <1>2 DEF HistoryOf
  <1> QED
    BY <1>1, <1>3, FunctionIsSeq DEF HistoryOf

LEMMA HistoryTypes ==
    ASSUME RowTypes
    PROVE  /\ History \in Seq(HistoryRow) /\ Len(History) = Gen /\ DOMAIN History = 1..Gen
           /\ \A g \in 1..Gen : History[g] = Entry(run[g])
           /\ History \in [1..Gen -> HistoryRow]
  BY HistoryOfRows DEF RowTypes, Gen, History

LEMMA HistoryTypesNext ==
    ASSUME RowTypes'
    PROVE  /\ History' \in Seq(HistoryRow) /\ Len(History') = Gen'
           /\ \A g \in 1..Gen' : History'[g] = Entry(run'[g])
           /\ History' \in [1..Gen' -> HistoryRow]
  <1> DEFINE rows == run'
  <1>1. rows \in Seq(RunRow)
    BY DEF RowTypes, RunRow, State, Active
  <1>2. Gen' = Len(rows) /\ History' = HistoryOf(rows)
    BY DEF Gen, History, HistoryOf, Entry
  <1> HIDE DEF rows
  <1>3. /\ HistoryOf(rows) \in Seq(HistoryRow) /\ Len(HistoryOf(rows)) = Len(rows)
        /\ \A g \in 1..Len(rows) : HistoryOf(rows)[g] = Entry(rows[g])
        /\ HistoryOf(rows) \in [1..Len(rows) -> HistoryRow]
    BY <1>1, HistoryOfRows
  <1> QED
    BY <1>2, <1>3 DEF rows

\* Writes that show nothing of a turn.
LEMMA HistoryRests ==
    ASSUME RowTypes, RowsMove
    PROVE  History' = History
  <1>1. CASE run' = run
    BY <1>1 DEF History, HistoryOf, Entry
  <1>2. CASE ~IsTerminal /\ \E to \in State \ Outcome : run' = Moved(to)
    <2>1. PICK to \in State \ Outcome : run' = Moved(to)
      BY <1>2
    <2>2. /\ RowTypes' /\ Gen' = Gen /\ run'[Gen] = [turn |-> run[Gen].turn, state |-> to]
          /\ \A g \in 1..Gen : g # Gen => run'[g] = run[g]
      BY <2>1, RowMoved
    <2>3. DOMAIN run = 1..Gen /\ DOMAIN run' = 1..Gen
      BY <2>2, GenIsLast, LenProperties DEF RowTypes, Gen
    <2>4. ASSUME NEW g \in 1..Gen
          PROVE  Entry(run'[g]) = Entry(run[g])
      BY <1>2, <2>2 DEF Entry, IsTerminal, Now
    <2> QED
      BY <2>3, <2>4 DEF History, HistoryOf, Entry
  <1> QED
    BY <1>1, <1>2 DEF RowsMove

\* The three writes of a turn begin or end a run, or were made before.
LEMMA OpenBegins ==
    ASSUME RowTypes, RowTypes', NEW m \in Message, IsTerminal,
           run' = Append(run, [turn |-> m, state |-> "queued"]),
           \A g \in DOMAIN run : run[g].turn # m
    PROVE  /\ \A g \in DOMAIN History : History[g].turn # m
           /\ History[Len(History)].outcome # None
           /\ History' = Append(History, [turn |-> m, outcome |-> None])
  <1> DEFINE r == [turn |-> m, state |-> "queued"]
             e == [turn |-> m, outcome |-> None]
  <1>1. r \in RunRow /\ e \in HistoryRow /\ Entry(r) = e
    BY EndedIsNotActive DEF RunRow, State, Active, HistoryRow, Entry
  <1> HIDE DEF r, e
  <1>2. /\ Gen' = Gen + 1 /\ run'[Gen + 1] = r /\ \A g \in 1..Gen : run'[g] = run[g]
    BY <1>1, RowAdded DEF r
  <1>3. /\ History \in Seq(HistoryRow) /\ Len(History) = Gen /\ DOMAIN History = 1..Gen
        /\ \A g \in 1..Gen : History[g] = Entry(run[g])
        /\ Gen \in Nat \ {0} /\ DOMAIN run = 1..Gen
    BY HistoryTypes, GenIsLast
  <1>4. /\ History' \in Seq(HistoryRow) /\ Len(History') = Gen'
        /\ \A g \in 1..Gen' : History'[g] = Entry(run'[g])
    BY HistoryTypesNext
  <1>5. /\ Append(History, e) \in Seq(HistoryRow) /\ Len(Append(History, e)) = Gen + 1
        /\ Append(History, e)[Gen + 1] = e
        /\ \A g \in 1..Gen : Append(History, e)[g] = History[g]
    BY <1>1, <1>3
  <1>6. \A g \in 1..(Gen + 1) : History'[g] = Append(History, e)[g]
    <2> SUFFICES ASSUME NEW g \in 1..(Gen + 1)
                 PROVE  History'[g] = Append(History, e)[g]
      OBVIOUS
    <2>1. CASE g = Gen + 1
      BY <1>1, <1>2, <1>4, <1>5, <2>1
    <2>2. CASE g \in 1..Gen
      BY <1>2, <1>3, <1>4, <1>5, <2>2
    <2> QED
      BY <1>3, <2>1, <2>2
  <1>7. History' = Append(History, e)
    <2> DEFINE old == Append(History, e)
               new == History'
    <2>1. old \in Seq(HistoryRow) /\ new \in Seq(HistoryRow) /\ Len(new) = Len(old)
          /\ \A g \in 1..Len(new) : new[g] = old[g]
      BY <1>2, <1>4, <1>5, <1>6
    <2> HIDE DEF old, new
    <2>2. new = old
      BY <2>1, SeqEqual
    <2> QED
      BY <2>2 DEF old, new
  <1>8. \A g \in DOMAIN History : History[g].turn # m
    BY <1>3 DEF Entry
  <1>9. History[Len(History)].outcome # None
    BY <1>3, NothingAssumption DEF Entry, IsTerminal, Now
  <1> QED
    BY <1>7, <1>8, <1>9 DEF e

LEMMA HistoryWritten ==
    ASSUME RowTypes, RowTypes', Gen' = Gen, \A g \in 1..Gen : g # Gen => run'[g] = run[g],
           NEW e \in HistoryRow, Entry(run'[Gen]) = e
    PROVE  History' = [History EXCEPT ![Gen] = e]
  <1>1. /\ DOMAIN History = 1..Gen /\ \A g \in 1..Gen : History[g] = Entry(run[g])
        /\ History \in [1..Gen -> HistoryRow]
    BY HistoryTypes
  <1>2. /\ History' \in [1..Gen -> HistoryRow]
        /\ \A g \in 1..Gen : History'[g] = Entry(run'[g])
    BY HistoryTypesNext
  <1>3. \A g \in 1..Gen : History'[g] = [History EXCEPT ![Gen] = e][g]
    BY <1>1, <1>2
  <1>4. [History EXCEPT ![Gen] = e] \in [1..Gen -> HistoryRow]
    BY <1>1
  <1> QED
    BY <1>2, <1>3, <1>4

LEMMA StartBegins ==
    ASSUME RowTypes, RowTypes', Gen' = Gen, NEW m \in Message, ~IsTerminal,
           run' = [run EXCEPT ![Gen] = [turn |-> m, state |-> "running"]],
           run[Gen].turn = None, \A g \in DOMAIN run : run[g].turn # m
    PROVE  /\ \A g \in DOMAIN History : History[g].turn # m
           /\ History[Len(History)] = [turn |-> None, outcome |-> None]
           /\ History' = [History EXCEPT ![Len(History)].turn = m]
  <1> DEFINE r == [turn |-> m, state |-> "running"]
             e == [turn |-> m, outcome |-> None]
  <1>1. r \in RunRow /\ e \in HistoryRow /\ Entry(r) = e
    BY EndedIsNotActive DEF RunRow, State, Active, HistoryRow, Entry
  <1>2. /\ Len(History) = Gen /\ DOMAIN History = 1..Gen /\ DOMAIN run = 1..Gen /\ Gen \in 1..Gen
        /\ \A g \in 1..Gen : History[g] = Entry(run[g])
    BY HistoryTypes, GenIsLast
  <1>3. History[Gen] = [turn |-> None, outcome |-> None]
    BY <1>2 DEF Entry, IsTerminal, Now
  <1>4. History' = [History EXCEPT ![Gen] = e]
    <2>1. run'[Gen] = r /\ \A g \in 1..Gen : g # Gen => run'[g] = run[g]
      <3> HIDE DEF r
      <3>1. run' = [run EXCEPT ![Gen] = r]
        BY DEF r
      <3> QED
        BY <1>1, <3>1, RowWritten
    <2> HIDE DEF r, e
    <2> QED
      BY <1>1, <2>1, HistoryWritten
  <1>5. [History[Gen] EXCEPT !.turn = m] = e
    BY <1>3
  <1>6. History' = [History EXCEPT ![Len(History)].turn = m]
    <2> HIDE DEF e
    <2>1. [History EXCEPT ![Gen].turn = m] = [History EXCEPT ![Gen] = [History[Gen] EXCEPT !.turn = m]]
      OBVIOUS
    <2> QED
      BY <1>2, <1>4, <1>5, <2>1
  <1>7. \A g \in DOMAIN History : History[g].turn # m
    BY <1>2 DEF Entry
  <1> QED
    BY <1>2, <1>3, <1>6, <1>7

LEMMA FinishEnds ==
    ASSUME RowTypes, RowTypes', Gen' = Gen, NEW o \in Outcome, ~IsTerminal,
           run' = Moved(o), run[Gen].turn \in Message
    PROVE  /\ History[Len(History)].turn # None /\ History[Len(History)].outcome = None
           /\ History' = [History EXCEPT ![Len(History)].outcome = o]
  <1> DEFINE m == run[Gen].turn
             e == [turn |-> m, outcome |-> o]
  <1>1. e \in HistoryRow
    BY DEF HistoryRow
  <1>2. /\ Len(History) = Gen /\ DOMAIN History = 1..Gen /\ Gen \in 1..Gen
        /\ \A g \in 1..Gen : History[g] = Entry(run[g])
    BY HistoryTypes, GenIsLast
  <1>3. History[Gen] = [turn |-> m, outcome |-> None]
    BY <1>2 DEF Entry, IsTerminal, Now
  <1>4. History' = [History EXCEPT ![Gen] = e]
    <2>1. /\ run'[Gen] = [turn |-> m, state |-> o]
          /\ \A g \in 1..Gen : g # Gen => run'[g] = run[g]
      BY RowMoved, EndedIsNotActive
    <2>2. Entry(run'[Gen]) = e
      BY <2>1 DEF Entry
    <2> HIDE DEF m, e
    <2> QED
      BY <1>1, <2>1, <2>2, HistoryWritten
  <1>5. [History[Gen] EXCEPT !.outcome = o] = e
    BY <1>3
  <1>6. History' = [History EXCEPT ![Gen].outcome = o]
    <2> HIDE DEF e
    <2>1. [History EXCEPT ![Gen].outcome = o] = [History EXCEPT ![Gen] = [History[Gen] EXCEPT !.outcome = o]]
      OBVIOUS
    <2> QED
      BY <1>4, <1>5, <2>1
  <1>7. m # None
    BY NothingAssumption
  <1> QED
    BY <1>2, <1>3, <1>6, <1>7

\* What the three writes of a turn make of the history.
LEMMA TurnShows ==
    ASSUME HostedInv, TurnWrite
    PROVE  Runs!RunsNext \/ History' = History
  <1>1. HostedTypeOK /\ LinkInv /\ InOrder(log) /\ RowsInv /\ RowTypes /\ log \in Seq(Event)
    BY RowsOfType DEF HostedInv, HostedTypeOK
  <1>2. HasNext /\ log' = log
    BY DEF TurnWrite, OpenRun, AtRest, StartTurn, FinishTurn, At, feed
  <1>3. PICK n : n = Behind
    OBVIOUS
  <1>4. /\ Coming(n) /\ Due = log[n + 1]
        /\ Due.kind \in {"started", "finished"} => Due.msg \in Message
        /\ Due.kind = "finished" => Due.outcome \in Outcome
    BY <1>1, <1>2, <1>3, DueComes
  <1>5. Depicted(n) \/ Newly(n + 1)
    BY <1>1, <1>3 DEF RowsInv
  <1>6. n \in Nat
    BY <1>4 DEF Coming
  <1>7. PICK m, o : m = Due.msg /\ o = Due.outcome
    OBVIOUS
  <1>8. ASSUME OpenRun
        PROVE  Runs!RunsNext
    <2>1. log[n + 1].kind = "started" /\ IsTerminal /\ Opens(n)
      BY <1>4, <1>8 DEF OpenRun, AtRest, At, Opens
    <2>2. Depicted(n) /\ RowTypes'
      BY <1>1, <1>2, <1>4, <1>5, <2>1, OpenDepicted
    <2>3. m \in Message /\ ~Told(log, "started", m, n)
      BY <1>1, <1>4, <1>7, <2>1, StartedIsNew
    <2>4. \A g \in DOMAIN run : run[g].turn # m
      BY <2>2, <2>3 DEF Depicted, HaveRuns
    <2>5. run' = Append(run, [turn |-> m, state |-> "queued"])
      BY <1>7, <1>8 DEF OpenRun
    <2>6. /\ \A g \in DOMAIN History : History[g].turn # m
          /\ History[Len(History)].outcome # None
          /\ History' = Append(History, [turn |-> m, outcome |-> None])
      BY <1>1, <2>1, <2>2, <2>3, <2>4, <2>5, OpenBegins
    <2>7. Runs!Begin(m)
      BY <2>6, HistoryRead DEF Runs!Begin, Runs!Fresh, History, HistoryOf, Entry
    <2> QED
      BY <2>3, <2>7 DEF Runs!RunsNext
  <1>9. ASSUME StartTurn
        PROVE  Runs!RunsNext \/ History' = History
    <2>1. log[n + 1].kind = "started" /\ ~IsTerminal /\ Starts(n) /\ m \in Message
      BY <1>4, <1>9, <1>7 DEF StartTurn, Starts
    <2>2. RowTypes' /\ Gen' = Gen
      BY <1>1, <1>2, <1>4, <1>5, <2>1, StartDepicted
    <2>3. run' = [run EXCEPT ![Gen] = [turn |-> m, state |-> "running"]]
      BY <1>7, <1>9 DEF StartTurn
    <2>4. CASE Depicted(n)
      <3>1. run[Gen].turn = None /\ \A g \in DOMAIN run : run[g].turn # m
        <4>1. ~Told(log, "started", m, n)
          BY <1>1, <1>4, <1>7, <2>1, StartedIsNew
        <4> QED
          BY <1>1, <1>4, <2>1, <2>4, <4>1, StartedInOpened DEF Depicted, HaveRuns
      <3>2. /\ \A g \in DOMAIN History : History[g].turn # m
            /\ History[Len(History)] = [turn |-> None, outcome |-> None]
            /\ History' = [History EXCEPT ![Len(History)].turn = m]
        BY <1>1, <2>1, <2>2, <2>3, <3>1, StartBegins
      <3>3. Runs!Begin(m)
        BY <3>2 DEF Runs!Begin, Runs!Fresh, Runs!Unbegun, History, HistoryOf, Entry
      <3> QED
        BY <2>1, <3>3 DEF Runs!RunsNext
    <2>5. CASE Newly(n + 1)
      <3>1. run[Gen].turn = m /\ run[Gen] \in RunRow
        BY <1>1, <1>4, <1>7, <2>1, <2>5, StartedAgain, GenIsLast DEF Newly
      <3>2. [run[Gen] EXCEPT !.state = "running"] = [turn |-> m, state |-> "running"]
        BY <3>1 DEF RunRow
      <3>3. run' = Moved("running")
        BY <2>3, <3>2 DEF Moved
      <3> QED
        BY <1>1, <1>2, <2>1, <3>3, EndedIsNotActive, HistoryRests DEF RowsMove
    <2> QED
      BY <1>5, <2>4, <2>5
  <1>10. ASSUME FinishTurn
        PROVE  Runs!RunsNext \/ History' = History
    <2>1. log[n + 1].kind = "finished" /\ Finishes(n) /\ run' = Moved(o) /\ o \in Outcome
      BY <1>4, <1>10, <1>7 DEF FinishTurn, At, Finishes
    <2>2. RowTypes' /\ Gen' = Gen /\ (run' = run \/ (Depicted(n) /\ ~IsTerminal))
      BY <1>1, <1>2, <1>4, <1>5, <2>1, FinishDepicted
    <2>3. CASE run' = run
      BY <2>3 DEF History, HistoryOf, Entry
    <2>4. CASE Depicted(n) /\ ~IsTerminal
      <3>1. run[Gen].turn \in Message
        BY <1>1, <1>4, <1>7, <2>1, <2>4, FinishedOnce
      <3>2. /\ History[Len(History)].turn # None /\ History[Len(History)].outcome = None
            /\ History' = [History EXCEPT ![Len(History)].outcome = o]
        BY <1>1, <2>1, <2>2, <2>4, <3>1, FinishEnds
      <3>3. Runs!End(o)
        BY <3>2 DEF Runs!End, History, HistoryOf, Entry
      <3> QED
        BY <2>1, <3>3 DEF Runs!RunsNext
    <2> QED
      BY <2>2, <2>3, <2>4
  <1> QED
    BY <1>8, <1>9, <1>10 DEF TurnWrite

\* A run that is opened for a command.
LEMMA OpenShows ==
    ASSUME RowTypes, RowsOpen
    PROVE  Runs!RunsNext
  <1> DEFINE e == [turn |-> None, outcome |-> None]
  <1>1. /\ RowTypes' /\ Gen' = Gen + 1 /\ Gen \in Nat \ {0}
        /\ run'[Gen + 1] = [turn |-> None, state |-> "queued"]
        /\ \A g \in 1..Gen : run'[g] = run[g]
    BY OpenedRows
  <1>2. /\ e \in HistoryRow /\ Entry(run'[Gen + 1]) = e
    BY <1>1, EndedIsNotActive DEF HistoryRow, Entry
  <1> HIDE DEF e
  <1>3. /\ History \in Seq(HistoryRow) /\ Len(History) = Gen
        /\ \A g \in 1..Gen : History[g] = Entry(run[g])
    BY HistoryTypes
  <1>4. /\ History' \in Seq(HistoryRow) /\ Len(History') = Gen'
        /\ \A g \in 1..Gen' : History'[g] = Entry(run'[g])
    BY <1>1, HistoryTypesNext
  <1>5. /\ Append(History, e) \in Seq(HistoryRow) /\ Len(Append(History, e)) = Gen + 1
        /\ Append(History, e)[Gen + 1] = e
        /\ \A g \in 1..Gen : Append(History, e)[g] = History[g]
    BY <1>1, <1>2, <1>3
  <1>6. \A g \in 1..(Gen + 1) : History'[g] = Append(History, e)[g]
    <2> SUFFICES ASSUME NEW g \in 1..(Gen + 1)
                 PROVE  History'[g] = Append(History, e)[g]
      OBVIOUS
    <2>1. CASE g = Gen + 1
      BY <1>1, <1>2, <1>4, <1>5, <2>1
    <2>2. CASE g \in 1..Gen
      <3>1. History'[g] = Entry(run'[g]) /\ History[g] = Entry(run[g])
        BY <1>1, <1>3, <1>4, <2>2
      <3>2. run'[g] = run[g] /\ Append(History, e)[g] = History[g]
        BY <1>1, <1>5, <2>2
      <3> QED
        BY <3>1, <3>2
    <2>3. g = Gen + 1 \/ g \in 1..Gen
      <3>1. Gen \in Nat
        BY <1>1
      <3> QED
        BY <3>1
    <2> QED
      BY <2>1, <2>2, <2>3
  <1>7. History' = Append(History, e)
    <2> DEFINE old == Append(History, e)
               new == History'
    <2>1. old \in Seq(HistoryRow) /\ new \in Seq(HistoryRow) /\ Len(new) = Len(old)
          /\ \A g \in 1..Len(new) : new[g] = old[g]
      BY <1>1, <1>4, <1>5, <1>6
    <2> HIDE DEF old, new
    <2>2. new = old
      BY <2>1, SeqEqual
    <2> QED
      BY <2>2 DEF old, new
  <1>8. History[Len(History)].outcome # None
    BY <1>1, <1>3, NothingAssumption DEF Entry, IsTerminal, Now, RowsOpen
  <1>9. Runs!Open
    BY <1>7, <1>8 DEF e, Runs!Open, Runs!Unbegun, History, HistoryOf, Entry
  <1> QED
    BY <1>9 DEF Runs!RunsNext

\* However often an event is committed again, by the worker, by a recovery that
\* reattaches or by one that replays, the rows are a history in which a turn has
\* one run and a run that ended keeps its outcome
\* (coordinator.rs:4218-4256, 4632-4912).
THEOREM HistoryIsOfRuns == TaskSpec => RunsImplemented
  <1>1. TaskInit => Runs!RunsInit
    <2> SUFFICES ASSUME TaskInit
                 PROVE  History = <<Runs!Unbegun>>
      BY DEF Runs!RunsInit, History, HistoryOf, Entry
    <2>1. RowTypes /\ Gen = 1 /\ run[1] = [turn |-> None, state |-> "queued"]
      <3>1. HostedTypeOK
        BY HostedInit DEF HostedInv
      <3>2. run = <<[turn |-> None, state |-> "queued"]>>
        BY DEF TaskInit
      <3> QED
        BY <3>1, <3>2, RowsOfType DEF Gen
    <2> DEFINE e == Runs!Unbegun
    <2>2. History \in Seq(HistoryRow) /\ Len(History) = 1 /\ History[1] = e
      BY <2>1, HistoryTypes, EndedIsNotActive DEF Entry, Runs!Unbegun
    <2>3. e \in HistoryRow
      BY DEF HistoryRow, Runs!Unbegun
    <2> HIDE DEF e
    <2>4. <<e>> \in Seq(HistoryRow) /\ Len(<<e>>) = 1 /\ <<e>>[1] = e
      BY <2>3
    <2>5. History = <<e>>
      BY <2>2, <2>4, SeqEqual
    <2> QED
      BY <2>5 DEF e
  <1>2. HostedInv /\ [TaskNext]_taskVars => Runs!RunsNext \/ History' = History
    <2> SUFFICES ASSUME HostedInv, [TaskNext]_taskVars
                 PROVE  Runs!RunsNext \/ History' = History
      OBVIOUS
    <2>1. CASE UNCHANGED taskVars
      BY <2>1 DEF taskVars, History, HistoryOf, Entry
    <2>2. CASE TurnWrite
      BY <2>2, TurnShows
    <2>3. CASE TaskNext /\ ~TurnWrite
      BY <2>3, OtherStep, RowsOfType, HistoryRests, OpenShows DEF HostedInv
    <2> QED
      BY <2>1, <2>2, <2>3
  <1>3. HostedInv /\ [TaskNext]_taskVars => [Runs!RunsNext]_([g \in DOMAIN run |->
            [turn |-> run[g].turn,
             outcome |-> IF run[g].state \in Outcome THEN run[g].state ELSE None]])
    BY <1>2 DEF History, HistoryOf, Entry
  <1> QED
    BY <1>1, <1>3, HostedAlways, PTL DEF TaskSpec, RunsImplemented, Runs!RunsSpec
=============================================================================
