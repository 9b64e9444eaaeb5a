----------------------------- MODULE RuntimeHost -----------------------------
(***************************************************************************)
(* The process that runs a native CLI for the application and outlives it.  *)
(* It answers requests of the connections that claim it one after another,  *)
(* hands their commands to the CLI, records what the CLI reports, and       *)
(* writes each change to a chained journal before it shows it.  A command   *)
(* request waits for room in the CLI's queue without the lock, so that      *)
(* other requests, a new owner or the end of the CLI come in between.       *)
(***************************************************************************)
EXTENDS RuntimeEvents, FiniteSets, SequencesExt

CONSTANTS
    Client,     \* connections of the application, past and present
    Body,       \* what a command says; its digest
    MaxEpoch,   \* the largest owner epoch (u64::MAX in the code)
    MaxEvent,   \* MAX_JOURNAL_EVENTS
    MaxRecord,  \* records that fit into MAX_JOURNAL_BYTES
    MaxCalls,   \* bound on command requests at the host at one time
    Faults,     \* bound on writes of the journal that fail
    None

VARIABLES
    journal,    \* the records in runtime.journal
    host,       \* RuntimeHostState and how far run_worker has come
    native,     \* the adapter of the CLI: "running", or "ended"
    handed,     \* the commands the adapter took from its queue
    calls,      \* Command requests between two looks at the state
    mine,       \* connection -> the owner epoch it was granted, or None
    receipt,    \* host-exit.json, or None
    faults      \* failed journal writes so far

requests == <<calls, mine>>
hostVars == <<journal, host, native, handed, calls, mine, receipt, faults>>

ASSUME HostAssumption ==
    MaxEpoch \in Nat /\ MaxEvent \in Nat /\ MaxRecord \in Nat
    /\ MaxCalls \in Nat /\ Faults \in Nat

Disposition == {"recorded", "delivered", "accepted", "failed"}
Status == [body : Body, disposition : Disposition]

ASSUME NoStatus == None \notin Status

Entry ==
    [kind : {"claim"}, epoch : Nat, client : Client]
    \cup [kind : {"command", "status"}, msg : Message, status : Status]
    \cup [kind : {"event"}, event : Event]
    \cup [kind : {"ack"}, epoch : Nat, through : Nat]
    \cup [kind : {"torn"}]

Record == [seq : Nat, entry : Entry]

HostInit ==
    /\ journal = <<>>
    /\ host = [epoch |-> 0, owner |-> None, acked |-> 0, next |-> 1,
               events |-> <<>>, commands |-> [m \in Message |-> None],
               sealed |-> FALSE, recorder |-> "open", phase |-> "serving"]
    /\ native = "running" /\ handed = <<>> /\ receipt = None /\ faults = 0
    /\ calls = {}
    /\ mine = [c \in Client |-> None]

-----------------------------------------------------------------------------
(* The journal *)

Numbered(entries, n) == [i \in 1..n |-> [seq |-> host.next + i - 1, entry |-> entries[i]]]

\* append, once for each entry: the first n succeed.  A write that fails may
\* have left its record, or a part of it, in the file all the same; a journal
\* that is sealed or full refuses without writing.
Written(entries, n) ==
    LET room == IF host.sealed THEN 0 ELSE MaxRecord - (host.next - 1)
        done == Numbered(entries, n) IN
    /\ n <= Len(entries) /\ n <= room
    /\ IF n = Len(entries) \/ n = room
       THEN journal' = journal \o done /\ UNCHANGED faults
       ELSE /\ faults < Faults
            /\ faults' = faults + 1
            /\ \E rest \in {<<>>, <<entries[n + 1]>>, <<[kind |-> "torn"]>>} :
                 journal' = journal \o
                     Numbered(SubSeq(entries, 1, n) \o rest, n + Len(rest))

Claimed(epoch, c) == [kind |-> "claim", epoch |-> epoch, client |-> c]
Commanded(m, status) == [kind |-> "command", msg |-> m, status |-> status]
Updated(m, status) == [kind |-> "status", msg |-> m, status |-> status]
Happened(e) == [kind |-> "event", event |-> e]
Acked(epoch, n) == [kind |-> "ack", epoch |-> epoch, through |-> n]

-----------------------------------------------------------------------------
(* handle_request *)

Serving == host.phase = "serving"
Owns(c, epoch) == host.epoch = epoch /\ host.owner = c

\* The caller read the epoch earlier (Inspect, which changes nothing); a claim
\* under another one is refused.  The answer may come after it has given up.
ClaimOwner(c, expected) ==
    /\ Serving /\ expected = host.epoch /\ host.epoch < MaxEpoch
    /\ \E n \in 0..1 :
         /\ Written(<<Claimed(host.epoch + 1, c)>>, n)
         /\ IF n = 0 THEN UNCHANGED <<host, mine>>
            ELSE /\ host' = [host EXCEPT !.epoch = @ + 1, !.owner = c, !.next = @ + 1]
                 /\ mine' \in {mine, [mine EXCEPT ![c] = host.epoch + 1]}
    /\ UNCHANGED <<native, handed, calls, receipt>>

\* A command that is known, or of another owner, is answered at once.
ReceiveCommand(c, m, b) ==
    /\ Serving /\ mine[c] # None /\ Owns(c, mine[c]) /\ Cardinality(calls) < MaxCalls
    /\ host.commands[m] = None
    /\ calls' = calls \cup
         {[client |-> c, epoch |-> mine[c], msg |-> m, body |-> b, step |-> "waiting"]}
    /\ UNCHANGED <<journal, host, native, handed, mine, receipt, faults>>

\* reserve_command: room in the queue, or the queue is closed.
ReserveCapacity(call) ==
    /\ call.step = "waiting"
    /\ calls' = (calls \ {call}) \cup
         {[call EXCEPT !.step = IF native = "running" THEN "permitted" ELSE "closed"]}
    /\ UNCHANGED <<journal, host, native, handed, mine, receipt, faults>>

OwnedOnly(call) == Owns(call.client, call.epoch)     \* mutant: one look at commands
UnknownOnly(call) == host.commands[call.msg] = None   \* mutant: one look at the owner
Admissible(call) ==
    Owns(call.client, call.epoch) /\ host.commands[call.msg] = None

RejectCommand(call) ==
    /\ call.step \in {"permitted", "closed"} /\ ~Admissible(call)
    /\ calls' = calls \ {call}
    /\ UNCHANGED <<journal, host, native, handed, mine, receipt, faults>>

\* mutant: the command is sent before its record is written
HandedFirst(call, n) ==
    IF native = "running"
    THEN Append(handed, [msg |-> call.msg, body |-> call.body, epoch |-> call.epoch])
    ELSE handed

\* A permit of a queue whose reader has gone delivers to nobody.
HandedAfter(call, n) ==
    IF n = 1 /\ native = "running"
    THEN Append(handed, [msg |-> call.msg, body |-> call.body, epoch |-> call.epoch])
    ELSE handed

DeliverCommand(call) ==
    /\ call.step = "permitted" /\ Admissible(call)
    /\ \E n \in 0..1 :
         LET status == [body |-> call.body, disposition |-> "recorded"] IN
         /\ Written(<<Commanded(call.msg, status)>>, n)
         /\ handed' = HandedAfter(call, n)
         /\ IF n = 0 THEN calls' = calls \ {call} /\ UNCHANGED host
            ELSE /\ host' = [host EXCEPT !.next = @ + 1, !.commands[call.msg] = status]
                 /\ calls' = (calls \ {call}) \cup {[call EXCEPT !.step = "sent"]}
    /\ UNCHANGED <<native, mine, receipt>>

Overfull == Len(host.events) > MaxEvent    \* mutant: the limit is off by one
Exhausted == Len(host.events) >= MaxEvent

\* record_event and update_command: what the snapshot holds after the first n
\* of the writes an event e asks for.
Entries(e) ==
    IF e.kind \in {"accepted", "undelivered", "refused"} /\ host.commands[e.msg] # None
    THEN LET status == [host.commands[e.msg] EXCEPT !.disposition =
                            IF e.kind = "accepted" THEN "accepted" ELSE "failed"]
         IN <<Happened(e), Updated(e.msg, status)>>
    ELSE <<Happened(e)>>

Recorded(state, entries, n) ==
    LET shown == [state EXCEPT !.next = @ + n] IN
    CASE n = 0 -> shown
      [] n = 1 -> [shown EXCEPT !.events = Append(@, entries[1].event)]
      [] n = 2 -> [shown EXCEPT !.events = Append(@, entries[1].event),
                                !.commands[entries[2].msg] = entries[2].status]

\* The queue is closed: the command is recorded together with its failure.
FailCommand(call) ==
    LET m == call.msg
        status == [body |-> call.body, disposition |-> "recorded"]
        failure == [kind |-> "undelivered", msg |-> m]
        entries == <<Commanded(m, status), Happened(failure),
                     Updated(m, [status EXCEPT !.disposition = "failed"])>>
        known == [host EXCEPT !.commands[m] = status, !.next = @ + 1]
        room == IF Exhausted THEN 1 ELSE 3 IN
    /\ call.step = "closed" /\ Admissible(call)
    /\ \E n \in 0..3 :
         /\ n <= room
         /\ Written(SubSeq(entries, 1, room), n)
         /\ host' = IF n = 0 THEN host ELSE Recorded(known, Tail(entries), n - 1)
    /\ calls' = calls \ {call}
    /\ UNCHANGED <<native, handed, mine, receipt>>

NeverOvertaken(call) == FALSE    \* mutant: the report is always written
Overtaken(call) == host.commands[call.msg].disposition # "recorded"

\* The CLI may have answered since; a stronger disposition stays.
ReportDelivered(call) ==
    /\ call.step = "sent"
    /\ calls' = calls \ {call}
    /\ IF Overtaken(call)
       THEN UNCHANGED <<journal, host, faults>>
       ELSE LET status == [body |-> call.body, disposition |-> "delivered"] IN
            \E n \in 0..1 :
              /\ Written(<<Updated(call.msg, status)>>, n)
              /\ host' = IF n = 0 THEN host
                         ELSE [host EXCEPT !.next = @ + 1, !.commands[call.msg] = status]
    /\ UNCHANGED <<native, handed, mine, receipt>>

AnyKnown(through) == through <= Len(host.events)   \* mutant: may go back
Acknowledgeable(through) == host.acked < through /\ through <= Len(host.events)

AckEvents(c, through) ==
    /\ Serving /\ mine[c] # None /\ Owns(c, mine[c])
    /\ Acknowledgeable(through)
    /\ \E n \in 0..1 :
         /\ Written(<<Acked(mine[c], through)>>, n)
         /\ host' = IF n = 0 THEN host
                    ELSE [host EXCEPT !.next = @ + 1, !.acked = through]
    /\ UNCHANGED <<native, handed, calls, mine, receipt>>

-----------------------------------------------------------------------------
(* The event task, run_connection and run_worker *)

Handed(m) == \E i \in DOMAIN handed : handed[i].msg = m

\* One event of the adapter's channel.  After the first failure the event task
\* stops, and with it the adapter.
RecordEvent(e) ==
    /\ host.recorder = "open" /\ host.phase = "serving"
    /\ LET entries == Entries(e) IN
       IF Exhausted
       THEN /\ host' = [host EXCEPT !.recorder = "failed"]
            /\ native' = "ended"
            /\ UNCHANGED <<journal, faults>>
       ELSE \E n \in 0..Len(entries) :
              /\ Written(entries, n)
              /\ IF n = Len(entries)
                 THEN host' = Recorded(host, entries, n) /\ UNCHANGED native
                 ELSE /\ host' = [Recorded(host, entries, n) EXCEPT !.recorder = "failed"]
                      /\ native' = "ended"
    /\ UNCHANGED <<handed, calls, mine, receipt>>

AdapterEnds ==
    /\ host.phase = "serving" /\ native = "running"
    /\ native' = "ended"
    /\ UNCHANGED <<journal, host, handed, calls, mine, receipt, faults>>

\* The channel is closed and empty.
RecorderEnds ==
    /\ host.recorder = "open" /\ native = "ended" /\ host.phase = "serving"
    /\ host' = [host EXCEPT !.recorder = "done"]
    /\ UNCHANGED <<journal, native, handed, calls, mine, receipt, faults>>

StopServing ==
    /\ host.phase = "serving" /\ host.recorder # "open"
    /\ host' = [host EXCEPT !.phase = "closing"]
    /\ UNCHANGED <<journal, native, handed, calls, mine, receipt, faults>>

LeftOpen(state) == [state EXCEPT !.phase = "exited"]   \* mutant: no seal
Sealed(state) == [state EXCEPT !.sealed = TRUE, !.phase = "exited"]

\* write_exit_receipt.  The CLI's own process may not have been seen to end.
WriteReceipt(exited) ==
    /\ host.phase = "closing"
    /\ host' = Sealed(host)
    /\ receipt' = [records |-> host.next - 1, last |-> Len(host.events),
                   acked |-> host.acked, exited |-> exited,
                   completed |-> host.recorder = "done"]
    /\ UNCHANGED <<journal, native, handed, calls, mine, faults>>

\* The host is killed, or its machine stops.
HostDies ==
    /\ host.phase \in {"serving", "closing"}
    /\ host' = [host EXCEPT !.phase = "gone"]
    /\ native' = "ended" /\ calls' = {}
    /\ UNCHANGED <<journal, handed, mine, receipt, faults>>

-----------------------------------------------------------------------------
(* verify_journal and confirmed_exit *)

Chained == \A i \in DOMAIN journal : journal[i].seq = i /\ journal[i].entry.kind # "torn"

\* The numbers of the records of a kind, and the last of some numbers.
Of(records, kind) == {i \in DOMAIN records : records[i].entry.kind = kind}
IsLast(i, numbers) == i \in numbers /\ \A j \in numbers : j <= i

\* An acknowledgement is of events that precede it, and none goes back.
AcksInOrder(records) ==
    \A i \in Of(records, "ack") :
        /\ records[i].entry.through <= Cardinality({j \in Of(records, "event") : j < i})
        /\ \A j \in Of(records, "ack") :
              j < i => records[j].entry.through <= records[i].entry.through

\* What reading the records one after another gives: the events in their order,
\* the acknowledgement and the status of each command that came last.
ShowsEvents(records, events) ==
    LET at == Of(records, "event") IN
    /\ Len(events) = Cardinality(at)
    /\ \A i \in at :
          events[Cardinality({j \in at : j <= i})] = records[i].entry.event

ShowsAck(records, through) ==
    \/ Of(records, "ack") = {} /\ through = 0
    \/ \E i \in Of(records, "ack") :
          IsLast(i, Of(records, "ack")) /\ records[i].entry.through = through

ShowsStatus(records, m, status) ==
    LET at == {i \in Of(records, "command") \cup Of(records, "status") :
                  records[i].entry.msg = m} IN
    \/ at = {} /\ status = None
    \/ \E i \in at : IsLast(i, at) /\ records[i].entry.status = status

AnyJournal == TRUE     \* mutant: only the counters of the receipt are compared
\* The receipt names the digest of the last record, and with it the chain.
SameJournal == receipt.records = Len(journal)

Confirmed ==
    /\ receipt # None
    /\ receipt.exited /\ receipt.completed
    /\ Chained /\ SameJournal
    /\ receipt.last = Cardinality(Of(journal, "event"))
    /\ AcksInOrder(journal) /\ ShowsAck(journal, receipt.acked)

HostNext ==
    \/ \E c \in Client, expected \in 0..MaxEpoch : ClaimOwner(c, expected)
    \/ \E c \in Client, m \in Message, b \in Body : ReceiveCommand(c, m, b)
    \/ \E call \in calls :
         \/ ReserveCapacity(call) \/ RejectCommand(call) \/ DeliverCommand(call)
         \/ FailCommand(call) \/ ReportDelivered(call)
    \/ \E c \in Client, n \in 1..MaxEvent : AckEvents(c, n)
    \/ \E e \in Reports(host.events, {m \in Message : Handed(m)}) : RecordEvent(e)
    \/ AdapterEnds \/ RecorderEnds \/ StopServing \/ HostDies
    \/ \E exited \in BOOLEAN : WriteReceipt(exited)

\* The application sees less of a host than it keeps.
Feed == INSTANCE EventFeed WITH
    log <- host.events, acked <- host.acked, epoch <- host.epoch,
    stage <- IF host.phase \in {"serving", "closing"} THEN "open"
             ELSE IF Confirmed THEN "exited" ELSE "gone"

HostSpec == HostInit /\ [][HostNext]_hostVars

-----------------------------------------------------------------------------
(* Properties *)

\* Types of everything the host process and its requests hold, and the limit on
\* recorded events (runtime_host.rs:555-561).
HostTypeOK ==
    /\ journal \in Seq(Record)
    /\ host \in [epoch : Nat, owner : Client \cup {None}, acked : Nat, next : Nat \ {0},
                 events : Seq(Event), commands : [Message -> Status \cup {None}],
                 sealed : BOOLEAN, recorder : {"open", "done", "failed"},
                 phase : {"serving", "closing", "exited", "gone"}]
    /\ native \in {"running", "ended"}
    /\ handed \in Seq([msg : Message, body : Body, epoch : Nat])
    /\ calls \subseteq [client : Client, epoch : Nat, msg : Message, body : Body,
                        step : {"waiting", "permitted", "closed", "sent"}]
    /\ mine \in [Client -> Nat \cup {None}]
    /\ receipt \in [records : Nat, last : Nat, acked : Nat, exited : BOOLEAN,
                    completed : BOOLEAN] \cup {None}
    /\ faults \in Nat
    /\ Len(host.events) <= MaxEvent /\ host.acked <= Len(host.events)

\* A command reaches the CLI once at most, whoever sends it again and however
\* its first request ended (runtime_host.rs:930-958, the second look after the
\* wait for capacity).
DeliveredOnce ==
    \A i, j \in DOMAIN handed : handed[i].msg = handed[j].msg => i = j

\* The journal knows of every command the CLI may have carried out, with what
\* it said, also when the host is killed right after (runtime_host.rs:965-1000).
HandedIsJournalled ==
    \A i \in DOMAIN handed : \E j \in DOMAIN journal :
        /\ journal[j].entry.kind = "command"
        /\ journal[j].entry.msg = handed[i].msg
        /\ journal[j].entry.status.body = handed[i].body

\* A command waiting for capacity while another connection takes over is not
\* handed to the CLI for its old owner (runtime_host.rs:907-908, 935-944).
OnlyOwnerDelivers ==
    [][Len(handed') > Len(handed) => Last(handed').epoch = host.epoch]_hostVars

\* What is known of a command is never taken back: an answer of the CLI that
\* overtakes the request's own report stays (runtime_host.rs:1007-1012).
Known(status) ==
    CASE status = None -> 0
      [] status # None /\ status.disposition = "recorded" -> 1
      [] status # None /\ status.disposition = "delivered" -> 2
      [] status # None /\ status.disposition \in {"accepted", "failed"} -> 3
KnowledgeOnlyGrows ==
    [][\A m \in Message : Known(host'.commands[m]) >= Known(host.commands[m])]_hostVars

\* A command reported as not delivered never reaches the CLI, before or after
\* (runtime_host.rs:976-995).
UndeliveredNeverHanded ==
    \A m \in Message : Reported(host.events, "undelivered", m) => ~Handed(m)

\* An exit that recovery accepts left in the journal every event and every
\* acknowledgement the host ever showed to a connection, and what it knew of
\* each command (runtime_host.rs:2401-2443 against 519-552).
ConfirmedExitIsComplete ==
    Confirmed =>
        /\ ShowsEvents(journal, host.events) /\ ShowsAck(journal, host.acked)
        /\ \A m \in Message : ShowsStatus(journal, m, host.commands[m])

\* Requests still under way when the host ends do not spoil its receipt: with a
\* disk that never failed, a completed exit is accepted, and stays so
\* (runtime_host.rs:2619-2620).
UnfaultedExitConfirms ==
    (receipt # None /\ faults = 0 /\ receipt.exited /\ receipt.completed) => Confirmed

\* The host with its journal, its failing disk and its unfinished requests is
\* the feed its connections rely on (runtime_host.rs:789-1139).
FeedImplemented == Feed!FeedSpec

=============================================================================
