-------------------------- MODULE RuntimeHostProofs --------------------------
(***************************************************************************)
(* What holds of a runtime host with any number of connections, commands,   *)
(* requests under way and failing writes: its types, that a command reaches *)
(* the CLI once and only for its owner, that what was told of a command is  *)
(* true and stays, that the host is the feed its connections rely on, and   *)
(* that a journal which recovery accepts tells all that the host has shown. *)
(***************************************************************************)
EXTENDS RuntimeHost, SequenceTheorems, FiniteSetTheorems, TLAPS

-----------------------------------------------------------------------------
(* Types *)

Commands == [Message -> Status \cup {None}]
HostState ==
    [epoch : Nat, owner : Client \cup {None}, acked : Nat, next : Nat \ {0},
     events : Seq(Event), commands : Commands,
     sealed : BOOLEAN, recorder : {"open", "done", "failed"},
     phase : {"serving", "closing", "exited", "gone"}]

Request ==
    [client : Client, epoch : Nat, msg : Message, body : Body,
     step : {"waiting", "permitted", "closed", "sent"}]

\* A record of the journal, with its number.
LEMMA NumberedTypes ==
    ASSUME NEW n \in Nat, NEW entries, \A i \in 1..n : entries[i] \in Entry,
           host.next \in Nat \ {0}
    PROVE  Numbered(entries, n) \in Seq(Record)
  <1>1. \A i \in 1..n : [seq |-> host.next + i - 1, entry |-> entries[i]] \in Record
    BY DEF Record
  <1> QED
    BY <1>1, IsASeq DEF Numbered

LEMMA Singleton ==
    ASSUME NEW S, NEW e \in S
    PROVE  <<e>> \in Seq(S) /\ Len(<<e>>) = 1 /\ <<e>>[1] = e
  OBVIOUS

LEMMA NoneNumbered == ASSUME NEW entries PROVE Numbered(entries, 0) = <<>>
  BY DEF Numbered

\* Writes only add records, and a sealed journal takes none.
LEMMA WrittenTypes ==
    ASSUME HostTypeOK, NEW entries \in Seq(Entry), NEW n \in Nat, Written(entries, n)
    PROVE  /\ n <= Len(entries)
           /\ \E extra \in Seq(Record) :
                 /\ journal' = journal \o extra
                 /\ n > 0 => Len(extra) > 0 /\ extra[1].entry = entries[1]
           /\ journal' \in Seq(Record) /\ faults' \in Nat
           /\ host.sealed => n = 0 /\ journal' = journal
  <1> DEFINE done == Numbered(entries, n)
             room == IF host.sealed THEN 0 ELSE MaxRecord - (host.next - 1)
             Cut(rest) == Numbered(SubSeq(entries, 1, n) \o rest, n + Len(rest))
  <1>1. host.next \in Nat \ {0} /\ journal \in Seq(Record) /\ Len(entries) \in Nat /\ faults \in Nat
    BY LenProperties DEF HostTypeOK
  <1>2. n <= Len(entries) /\ n <= room
    BY DEF Written
  <1>3. \A i \in 1..n : entries[i] \in Entry
    BY <1>1, <1>2, ElementOfSeq
  <1>4. done \in Seq(Record)
    BY <1>1, <1>3, NumberedTypes
  <1>5. n > 0 => Len(done) > 0 /\ done[1].entry = entries[1]
    BY DEF Numbered
  <1>6. CASE n = Len(entries) \/ n = room
    <2>1. journal' = journal \o done /\ faults' = faults
      BY <1>6 DEF Written
    <2>2. host.sealed => n = 0 /\ journal' = journal
      BY <1>1, <1>2, <2>1, NoneNumbered, ConcatEmptySeq
    <2> QED
      BY <1>1, <1>2, <1>4, <1>5, <2>1, <2>2, ConcatProperties
  <1>7. CASE ~(n = Len(entries) \/ n = room)
    <2>1. /\ faults' = faults + 1
          /\ \E rest \in {<<>>, <<entries[n + 1]>>, <<[kind |-> "torn"]>>} :
                 journal' = journal \o Cut(rest)
      BY <1>7 DEF Written
    <2>2. n + 1 \in 1..Len(entries) /\ entries[n + 1] \in Entry /\ ~host.sealed
      BY <1>1, <1>2, <1>7, ElementOfSeq
    <2>3. [kind |-> "torn"] \in Entry
      BY DEF Entry
    <2>4. ASSUME NEW rest \in Seq(Entry), Len(rest) \in {0, 1}
          PROVE  Cut(rest) \in Seq(Record) /\ (n > 0 => /\ Len(Cut(rest)) > 0
                                                        /\ Cut(rest)[1].entry = entries[1])
      <3> DEFINE all == SubSeq(entries, 1, n) \o rest
      <3>1. SubSeq(entries, 1, n) \in Seq(Entry) /\ Len(SubSeq(entries, 1, n)) = n
            /\ (n > 0 => SubSeq(entries, 1, n)[1] = entries[1])
        BY <1>3, SubSeqProperties
      <3>2. /\ all \in Seq(Entry) /\ Len(all) = n + Len(rest)
            /\ (n > 0 => all[1] = entries[1])
        BY <3>1, <2>4, ConcatProperties
      <3>3. \A i \in 1..(n + Len(rest)) : all[i] \in Entry
        BY <3>2, ElementOfSeq
      <3> HIDE DEF all
      <3>4. Numbered(all, n + Len(rest)) \in Seq(Record)
        BY <1>1, <2>4, <3>3, NumberedTypes
      <3>5. n > 0 => /\ Len(Numbered(all, n + Len(rest))) > 0
                     /\ Numbered(all, n + Len(rest))[1].entry = all[1]
        BY <2>4 DEF Numbered
      <3> QED
        BY <3>2, <3>4, <3>5 DEF all
    <2>5. \A rest \in {<<>>, <<entries[n + 1]>>, <<[kind |-> "torn"]>>} :
              rest \in Seq(Entry) /\ Len(rest) \in {0, 1}
      BY <2>2, <2>3, Singleton, EmptySeq
    <2> HIDE DEF Cut
    <2>6. PICK extra \in Seq(Record) :
              /\ journal' = journal \o extra
              /\ n > 0 => Len(extra) > 0 /\ extra[1].entry = entries[1]
      BY <2>1, <2>4, <2>5
    <2>7. journal' \in Seq(Record) /\ faults' \in Nat
      BY <1>1, <2>1, <2>6, ConcatProperties
    <2> QED
      BY <1>2, <2>2, <2>6, <2>7
  <1> QED
    BY <1>6, <1>7

LEMMA Pair ==
    ASSUME NEW S, NEW a \in S, NEW b \in S
    PROVE  /\ <<a, b>> \in Seq(S) /\ Len(<<a, b>>) = 2
           /\ <<a, b>>[1] = a /\ <<a, b>>[2] = b
  OBVIOUS

LEMMA Triple ==
    ASSUME NEW S, NEW a \in S, NEW b \in S, NEW c \in S
    PROVE  /\ <<a, b, c>> \in Seq(S) /\ Len(<<a, b, c>>) = 3
           /\ <<a, b, c>>[1] = a /\ <<a, b, c>>[2] = b /\ <<a, b, c>>[3] = c
  OBVIOUS

\* The CLI never reports what only the host can say.
LEMMA ReportTypes ==
    ASSUME NEW log, NEW taken \in SUBSET Message, NEW e \in Reports(log, taken)
    PROVE  e \in Event /\ e.kind # "undelivered"
  <1>1. Turning(log) \subseteq Message
    BY DEF Turning
  <1> QED
    BY <1>1 DEF Reports, Event

\* The entries an event asks for: itself, and what it tells of a command.
LEMMA EntriesTypes ==
    ASSUME HostTypeOK, NEW e \in Event
    PROVE  /\ Entries(e) \in Seq(Entry) /\ Len(Entries(e)) \in {1, 2}
           /\ Entries(e)[1].event = e
           /\ Len(Entries(e)) = 2 =>
                 /\ Entries(e)[2].msg \in Message /\ Entries(e)[2].msg = e.msg
                 /\ Entries(e)[2].status \in Status
                 /\ Entries(e)[2].status.disposition \in {"accepted", "failed"}
                 /\ host.commands[e.msg] # None
  <1>1. Happened(e) \in Entry
    BY DEF Happened, Entry
  <1>2. CASE ~(e.kind \in {"accepted", "undelivered", "refused"} /\ host.commands[e.msg] # None)
    <2>1. Entries(e) = <<Happened(e)>>
      BY <1>2 DEF Entries
    <2> QED
      BY <1>1, <2>1, Singleton DEF Happened
  <1>3. CASE e.kind \in {"accepted", "undelivered", "refused"} /\ host.commands[e.msg] # None
    <2> DEFINE status == [host.commands[e.msg] EXCEPT !.disposition =
                              IF e.kind = "accepted" THEN "accepted" ELSE "failed"]
    <2>1. e.msg \in Message
      BY <1>3 DEF Event
    <2>2. host.commands[e.msg] \in Status
      BY <1>3, <2>1 DEF HostTypeOK
    <2>3. status \in Status /\ status.disposition \in {"accepted", "failed"}
      BY <2>2 DEF Status, Disposition
    <2>4. Updated(e.msg, status) \in Entry
      BY <2>1, <2>3 DEF Updated, Entry
    <2>5. Entries(e) = <<Happened(e), Updated(e.msg, status)>>
      BY <1>3 DEF Entries
    <2> HIDE DEF status
    <2>6. /\ Entries(e) \in Seq(Entry) /\ Len(Entries(e)) = 2
          /\ Entries(e)[1] = Happened(e) /\ Entries(e)[2] = Updated(e.msg, status)
      BY <1>1, <2>4, <2>5, Pair
    <2> QED
      BY <1>3, <2>1, <2>3, <2>6 DEF Happened, Updated
  <1> QED
    BY <1>2, <1>3

LEMMA StateTypes ==
    ASSUME NEW state \in HostState
    PROVE  state.events \in Seq(Event) /\ state.commands \in Commands /\ state.next \in Nat \ {0}
  BY DEF HostState

\* What a write of an event leaves alone.
SameElse(new, old) ==
    /\ new.acked = old.acked /\ new.epoch = old.epoch /\ new.owner = old.owner
    /\ new.phase = old.phase /\ new.sealed = old.sealed /\ new.recorder = old.recorder

\* What the snapshot holds after some of the writes.
LEMMA RecordedTypes ==
    ASSUME NEW state \in HostState, NEW entries, NEW n \in {0, 1, 2},
           n > 0 => entries[1].event \in Event,
           n = 2 => entries[2].msg \in Message /\ entries[2].status \in Status
    PROVE  /\ Recorded(state, entries, n) \in HostState
           /\ SameElse(Recorded(state, entries, n), state)
           /\ Recorded(state, entries, n).events =
                  IF n = 0 THEN state.events ELSE Append(state.events, entries[1].event)
           /\ Recorded(state, entries, n).commands =
                  IF n = 2
                  THEN [state.commands EXCEPT ![entries[2].msg] = entries[2].status]
                  ELSE state.commands
  <1> DEFINE longer == Append(state.events, entries[1].event)
             known == [state.commands EXCEPT ![entries[2].msg] = entries[2].status]
             next == state.next + n
             new == Recorded(state, entries, n)
  <1>1. state.events \in Seq(Event) /\ state.commands \in Commands /\ next \in Nat \ {0}
    BY StateTypes
  <1>2. CASE n = 0
    <2>1. new = [state EXCEPT !.next = next]
      BY <1>2 DEF Recorded
    <2> HIDE DEF new, next
    <2>2. /\ new \in HostState /\ SameElse(new, state)
          /\ new.events = state.events /\ new.commands = state.commands
      BY <1>1, <2>1 DEF HostState, SameElse
    <2> QED
      BY <1>2, <2>2 DEF new
  <1>3. CASE n = 1
    <2>1. longer \in Seq(Event)
      BY <1>1, <1>3, AppendProperties
    <2>2. new = [state EXCEPT !.next = next, !.events = longer]
      BY <1>3 DEF Recorded, HostState
    <2> HIDE DEF new, next, longer
    <2>3. /\ new \in HostState /\ SameElse(new, state)
          /\ new.events = longer /\ new.commands = state.commands
      BY <1>1, <2>1, <2>2 DEF HostState, SameElse
    <2> QED
      BY <1>3, <2>3 DEF new, longer
  <1>4. CASE n = 2
    <2>1. longer \in Seq(Event)
      BY <1>1, <1>4, AppendProperties
    <2>2. known \in Commands
      BY <1>1, <1>4 DEF Commands
    <2>3. new = [state EXCEPT !.next = next, !.events = longer, !.commands = known]
      BY <1>4 DEF Recorded, HostState
    <2> HIDE DEF new, next, longer, known
    <2>4. /\ new \in HostState /\ SameElse(new, state)
          /\ new.events = longer /\ new.commands = known
      BY <1>1, <2>1, <2>2, <2>3 DEF HostState, SameElse
    <2> QED
      BY <1>4, <2>4 DEF new, longer, known
  <1> QED
    BY <1>2, <1>3, <1>4

\* The types of everything but the journal, which all requests share.
Parts ==
    /\ host \in HostState /\ Len(host.events) <= MaxEvent /\ host.acked <= Len(host.events)
    /\ native \in {"running", "ended"}
    /\ handed \in Seq([msg : Message, body : Body, epoch : Nat])
    /\ calls \subseteq Request
    /\ mine \in [Client -> Nat \cup {None}]
    /\ receipt \in [records : Nat, last : Nat, acked : Nat, exited : BOOLEAN,
                    completed : BOOLEAN] \cup {None}

LEMMA PartsAreTypes ==
    HostTypeOK <=> Parts /\ journal \in Seq(Record) /\ faults \in Nat
  BY DEF HostTypeOK, Parts, HostState, Commands, Request

LEMMA PartsNext ==
    ASSUME Parts', journal' \in Seq(Record), faults' \in Nat
    PROVE  HostTypeOK'
  BY DEF HostTypeOK, Parts, HostState, Commands, Request

\* The journal grows, and a host that has sealed it changes nothing any more.
Grows ==
    /\ \E extra \in Seq(Record) : journal' = journal \o extra
    /\ journal' \in Seq(Record) /\ faults' \in Nat
    /\ host.sealed => host' = host /\ journal' = journal

LEMMA StillGrows ==
    ASSUME HostTypeOK, journal' = journal, faults' = faults, host.sealed => host' = host
    PROVE  Grows
  <1>1. <<>> \in Seq(Record) /\ journal = journal \o <<>>
    BY EmptySeq, ConcatEmptySeq DEF HostTypeOK
  <1> QED
    BY <1>1 DEF Grows, HostTypeOK

\* One entry, or none.
LEMMA OneEntry ==
    ASSUME HostTypeOK, NEW entry \in Entry, NEW n \in 0..1, Written(<<entry>>, n),
           n = 0 => host' = host
    PROVE  Grows
  <1>1. <<entry>> \in Seq(Entry) /\ n \in Nat
    BY Singleton
  <1> QED
    BY <1>1, WrittenTypes DEF Grows

LEMMA ClaimTypes ==
    ASSUME HostTypeOK, NEW c \in Client, NEW expected, ClaimOwner(c, expected)
    PROVE  HostTypeOK' /\ Grows
  <1>1. PICK n \in 0..1 :
            /\ Written(<<Claimed(host.epoch + 1, c)>>, n)
            /\ IF n = 0 THEN UNCHANGED <<host, mine>>
               ELSE /\ host' = [host EXCEPT !.epoch = @ + 1, !.owner = c, !.next = @ + 1]
                    /\ mine' \in {mine, [mine EXCEPT ![c] = host.epoch + 1]}
    BY DEF ClaimOwner
  <1>2. Parts
    BY PartsAreTypes
  <1>3. host.epoch + 1 \in Nat
    BY <1>2 DEF Parts, HostState
  <1>4. Claimed(host.epoch + 1, c) \in Entry
    BY <1>3 DEF Claimed, Entry
  <1>5. Grows
    BY <1>1, <1>4, OneEntry
  <1>6. host' \in HostState /\ host'.events = host.events /\ host'.acked = host.acked
    <2>1. CASE n = 0
      BY <1>1, <1>2, <2>1 DEF Parts
    <2>2. CASE n # 0
      <3> DEFINE epoch == host.epoch + 1
                 next == host.next + 1
      <3>1. host' = [host EXCEPT !.epoch = epoch, !.owner = c, !.next = next]
        BY <1>1, <2>2
      <3>2. host \in HostState /\ epoch \in Nat /\ next \in Nat \ {0}
        BY <1>2 DEF Parts, HostState
      <3> HIDE DEF epoch, next
      <3>3. host' \in HostState
        BY <3>1, <3>2 DEF HostState
      <3>4. host'.events = host.events /\ host'.acked = host.acked
        BY <3>1, <3>2 DEF HostState
      <3> QED
        BY <3>3, <3>4
    <2> QED
      BY <2>1, <2>2
  <1>7. mine' \in [Client -> Nat \cup {None}]
    BY <1>1, <1>2, <1>3 DEF Parts
  <1>8. Parts'
    BY <1>2, <1>6, <1>7 DEF Parts, ClaimOwner
  <1> QED
    BY <1>5, <1>8, PartsNext DEF Grows

\* Requests come, wait and go.
LEMMA RequestTypes ==
    ASSUME HostTypeOK,
           \/ \E c \in Client, m \in Message, b \in Body : ReceiveCommand(c, m, b)
           \/ \E call \in calls : ReserveCapacity(call) \/ RejectCommand(call)
    PROVE  HostTypeOK' /\ Grows
  <1>1. Parts
    BY PartsAreTypes
  <1>2. /\ UNCHANGED <<journal, host, native, handed, mine, receipt, faults>>
        /\ calls' \subseteq Request
    <2>1. ASSUME NEW c \in Client, NEW m \in Message, NEW b \in Body, ReceiveCommand(c, m, b)
          PROVE  calls' \subseteq Request
      BY <1>1, <2>1 DEF ReceiveCommand, Parts, Request
    <2>2. ASSUME NEW call \in calls, ReserveCapacity(call) \/ RejectCommand(call)
          PROVE  calls' \subseteq Request
      BY <1>1, <2>2 DEF ReserveCapacity, RejectCommand, Parts, Request
    <2> QED
      BY <2>1, <2>2 DEF ReceiveCommand, ReserveCapacity, RejectCommand
  <1>3. Parts' /\ Grows
    BY <1>1, <1>2, StillGrows DEF Parts
  <1> QED
    BY <1>3, PartsNext DEF Grows

\* A command's status, stored with one write.
WithStatus(m, status) == [host EXCEPT !.next = @ + 1, !.commands[m] = status]

LEMMA OneStatus ==
    ASSUME Parts, NEW m \in Message, NEW status \in Status
    PROVE  /\ WithStatus(m, status) \in HostState /\ SameElse(WithStatus(m, status), host)
           /\ WithStatus(m, status).events = host.events
           /\ WithStatus(m, status).commands = [host.commands EXCEPT ![m] = status]
  <1> DEFINE next == host.next + 1
             known == [host.commands EXCEPT ![m] = status]
             new == WithStatus(m, status)
  <1>1. host \in HostState
    BY DEF Parts
  <1>2. next \in Nat \ {0} /\ known \in Commands
    BY <1>1 DEF HostState, Commands
  <1>3. new = [host EXCEPT !.next = next, !.commands = known]
    BY <1>1 DEF HostState, WithStatus
  <1> HIDE DEF next, known, new
  <1>4. new \in HostState /\ SameElse(new, host) /\ new.events = host.events /\ new.commands = known
    BY <1>1, <1>2, <1>3 DEF HostState, SameElse
  <1> QED
    BY <1>4 DEF known, new

LEMMA CallTypes ==
    ASSUME Parts, NEW call \in calls
    PROVE  /\ call \in Request /\ call.msg \in Message /\ call.body \in Body
           /\ call.epoch \in Nat /\ calls \ {call} \subseteq Request
           /\ (calls \ {call}) \cup {[call EXCEPT !.step = "sent"]} \subseteq Request
           /\ \A disposition \in Disposition :
                 [body |-> call.body, disposition |-> disposition] \in Status
           /\ [msg |-> call.msg, body |-> call.body, epoch |-> call.epoch]
                 \in [msg : Message, body : Body, epoch : Nat]
  BY DEF Parts, Request, Status

LEMMA DeliverTypes ==
    ASSUME HostTypeOK, NEW call \in calls, DeliverCommand(call)
    PROVE  HostTypeOK' /\ Grows
  <1> DEFINE status == [body |-> call.body, disposition |-> "recorded"]
             command == [msg |-> call.msg, body |-> call.body, epoch |-> call.epoch]
  <1>1. Parts
    BY PartsAreTypes
  <1>2. /\ status \in Status /\ call.msg \in Message
        /\ command \in [msg : Message, body : Body, epoch : Nat]
        /\ calls' \subseteq Request
    <2>1. status \in Status
      BY <1>1, CallTypes DEF Disposition
    <2>2. calls' \subseteq Request
      BY <1>1, CallTypes DEF DeliverCommand
    <2> QED
      BY <1>1, <2>1, <2>2, CallTypes
  <1>3. Commanded(call.msg, status) \in Entry
    BY <1>2 DEF Commanded, Entry
  <1> HIDE DEF status
  <1>4. PICK n \in 0..1 :
            /\ Written(<<Commanded(call.msg, status)>>, n)
            /\ handed' = HandedAfter(call, n)
            /\ n = 0 => host' = host
            /\ n = 1 => host' = WithStatus(call.msg, status)
    BY DEF DeliverCommand, status, WithStatus
  <1>5. Grows
    BY <1>3, <1>4, OneEntry
  <1>6. host' \in HostState /\ host'.events = host.events /\ host'.acked = host.acked
    <2>1. CASE n = 0
      BY <1>1, <1>4, <2>1 DEF Parts
    <2>2. CASE n = 1
      <3> DEFINE new == WithStatus(call.msg, status)
      <3>1. new \in HostState /\ SameElse(new, host) /\ new.events = host.events
        BY <1>1, <1>2, OneStatus
      <3>2. host' = new
        BY <1>4, <2>2
      <3> HIDE DEF new
      <3> QED
        BY <3>1, <3>2 DEF SameElse
    <2> QED
      BY <2>1, <2>2
  <1>7. handed' \in Seq([msg : Message, body : Body, epoch : Nat])
    BY <1>1, <1>2, <1>4, AppendProperties DEF HandedAfter, Parts
  <1>8. Parts'
    BY <1>1, <1>2, <1>6, <1>7 DEF Parts, DeliverCommand
  <1> QED
    BY <1>5, <1>8, PartsNext DEF Grows

LEMMA ReportDeliveredTypes ==
    ASSUME HostTypeOK, NEW call \in calls, ReportDelivered(call)
    PROVE  HostTypeOK' /\ Grows
  <1> DEFINE status == [body |-> call.body, disposition |-> "delivered"]
  <1>1. Parts
    BY PartsAreTypes
  <1>2. status \in Status /\ call.msg \in Message /\ calls' \subseteq Request
    BY <1>1, CallTypes DEF Disposition, ReportDelivered
  <1>3. Updated(call.msg, status) \in Entry
    BY <1>2 DEF Updated, Entry
  <1> HIDE DEF status
  <1>4. CASE Overtaken(call)
    <2>1. UNCHANGED <<journal, host, faults>>
      BY <1>4 DEF ReportDelivered
    <2>2. Parts' /\ Grows
      BY <1>1, <1>2, <2>1, StillGrows DEF Parts, ReportDelivered
    <2> QED
      BY <2>2, PartsNext DEF Grows
  <1>5. CASE ~Overtaken(call)
    <2>1. PICK n \in 0..1 :
              /\ Written(<<Updated(call.msg, status)>>, n)
              /\ n = 0 => host' = host
              /\ n = 1 => host' = WithStatus(call.msg, status)
      BY <1>5 DEF ReportDelivered, status, WithStatus
    <2>2. Grows
      BY <1>3, <2>1, OneEntry
    <2>3. host' \in HostState /\ host'.events = host.events /\ host'.acked = host.acked
      <3>1. CASE n = 0
        BY <1>1, <2>1, <3>1 DEF Parts
      <3>2. CASE n = 1
        <4> DEFINE new == WithStatus(call.msg, status)
        <4>1. new \in HostState /\ SameElse(new, host) /\ new.events = host.events
          BY <1>1, <1>2, OneStatus
        <4>2. host' = new
          BY <2>1, <3>2
        <4> HIDE DEF new
        <4> QED
          BY <4>1, <4>2 DEF SameElse
      <3> QED
        BY <3>1, <3>2
    <2>4. Parts'
      BY <1>1, <1>2, <2>3 DEF Parts, ReportDelivered
    <2> QED
      BY <2>2, <2>4, PartsNext DEF Grows
  <1> QED
    BY <1>4, <1>5

LEMMA AckTypes ==
    ASSUME HostTypeOK, NEW c \in Client, NEW through \in 1..MaxEvent, AckEvents(c, through)
    PROVE  HostTypeOK' /\ Grows
  <1>1. Parts /\ mine[c] \in Nat /\ through \in Nat
    BY PartsAreTypes DEF Parts, AckEvents
  <1>2. Acked(mine[c], through) \in Entry
    BY <1>1 DEF Acked, Entry
  <1>3. PICK n \in 0..1 :
            /\ Written(<<Acked(mine[c], through)>>, n)
            /\ host' = IF n = 0 THEN host
                       ELSE [host EXCEPT !.next = @ + 1, !.acked = through]
    BY DEF AckEvents
  <1>4. Grows
    BY <1>2, <1>3, OneEntry
  <1>5. host' \in HostState /\ host'.events = host.events /\ host'.acked \in {host.acked, through}
    <2> DEFINE next == host.next + 1
    <2>1. host \in HostState /\ next \in Nat \ {0}
      BY <1>1 DEF Parts, HostState
    <2>2. host' = host \/ host' = [host EXCEPT !.next = next, !.acked = through]
      BY <1>3
    <2> HIDE DEF next
    <2>3. host' \in HostState
      BY <1>1, <2>1, <2>2 DEF HostState
    <2> QED
      BY <1>1, <2>1, <2>2 DEF HostState
  <1>6. Parts'
    BY <1>1, <1>5 DEF Parts, AckEvents, Acknowledgeable
  <1> QED
    BY <1>4, <1>6, PartsNext DEF Grows

\* Only the end of the host seals the journal.
SealedAtEnd == host.sealed <=> host.phase = "exited"

\* What the host shows of an event, or of a command it could not send.
Shows(e, limit) ==
    \/ host'.events = host.events
    \/ host'.events = Append(host.events, e) /\ Len(host.events) < limit

LEMMA ShownTypes ==
    ASSUME Parts, MaxEvent \in Nat, NEW e \in Event, Shows(e, MaxEvent)
    PROVE  /\ Len(host'.events) <= MaxEvent /\ host.acked <= Len(host'.events)
           /\ Len(host'.events) >= Len(host.events)
  <1>1. host.events \in Seq(Event) /\ Len(host.events) \in Nat /\ host.acked \in Nat
    BY LenProperties DEF Parts, HostState
  <1>2. host'.events = Append(host.events, e) => Len(host'.events) = Len(host.events) + 1
    BY <1>1, AppendProperties
  <1> QED
    BY <1>1, <1>2 DEF Parts, Shows

LEMMA FailTypes ==
    ASSUME HostTypeOK, NEW call \in calls, FailCommand(call)
    PROVE  /\ HostTypeOK' /\ Grows
           /\ Shows([kind |-> "undelivered", msg |-> call.msg], MaxEvent)
           /\ \/ host' = host
              \/ /\ SameElse(host', host)
                 /\ \E status \in Status :
                       host'.commands = [host.commands EXCEPT ![call.msg] = status]
  <1> DEFINE m == call.msg
             status == [body |-> call.body, disposition |-> "recorded"]
             failed == [status EXCEPT !.disposition = "failed"]
             failure == [kind |-> "undelivered", msg |-> m]
             entries == <<Commanded(m, status), Happened(failure), Updated(m, failed)>>
             known == [host EXCEPT !.commands[m] = status, !.next = @ + 1]
             room == IF Exhausted THEN 1 ELSE 3
  <1>1. Parts /\ m \in Message /\ calls' \subseteq Request
    BY PartsAreTypes, CallTypes DEF FailCommand
  <1>2. status \in Status /\ failed \in Status /\ failure \in Event
    BY <1>1, CallTypes DEF Disposition, Status, Event
  <1>3. /\ Commanded(m, status) \in Entry /\ Happened(failure) \in Entry
        /\ Updated(m, failed) \in Entry
    BY <1>1, <1>2 DEF Commanded, Happened, Updated, Entry
  <1>4. /\ entries \in Seq(Entry) /\ Len(entries) = 3
        /\ entries[1] = Commanded(m, status) /\ entries[2] = Happened(failure)
        /\ entries[3] = Updated(m, failed)
    BY <1>3, Triple
  <1>5. /\ Tail(entries)[1] = Happened(failure) /\ Tail(entries)[2] = Updated(m, failed)
    <2>1. Tail(entries) = <<Happened(failure), Updated(m, failed)>>
      OBVIOUS
    <2> QED
      BY <2>1
  <1>6. room \in {1, 3} /\ (room = 3 => Len(host.events) < MaxEvent)
    <2>1. Len(host.events) \in Nat
      BY <1>1, LenProperties DEF Parts, HostState
    <2> QED
      BY <2>1, HostAssumption DEF Exhausted, HostAssumption
  <1>7. PICK n \in 0..3 :
            /\ n <= room /\ Written(SubSeq(entries, 1, room), n)
            /\ host' = IF n = 0 THEN host ELSE Recorded(known, Tail(entries), n - 1)
    BY DEF FailCommand
  <1> HIDE DEF entries, room, failure
  <1>8. SubSeq(entries, 1, room) \in Seq(Entry)
    <2>1. \A i \in 1..room : entries[i] \in Entry
      BY <1>3, <1>4, <1>6
    <2> QED
      BY <1>6, <2>1, SubSeqProperties
  <1>9. Grows
    <2> DEFINE cut == SubSeq(entries, 1, room)
    <2>1. cut \in Seq(Entry) /\ n \in Nat /\ Written(cut, n)
      BY <1>7, <1>8
    <2> HIDE DEF cut
    <2>2. /\ \E extra \in Seq(Record) : journal' = journal \o extra
          /\ journal' \in Seq(Record) /\ faults' \in Nat
          /\ host.sealed => n = 0 /\ journal' = journal
      BY <2>1, WrittenTypes
    <2> QED
      BY <1>7, <2>2 DEF Grows
  <1>10. /\ known \in HostState /\ SameElse(known, host) /\ known.events = host.events
         /\ known.commands = [host.commands EXCEPT ![m] = status]
    <2>1. known = WithStatus(m, status)
      BY <1>1 DEF Parts, HostState, WithStatus
    <2> HIDE DEF known, status
    <2> QED
      BY <1>1, <1>2, <2>1, OneStatus
  <1>11. /\ host' \in HostState /\ SameElse(host', host)
         /\ \/ host'.events = host.events
            \/ host'.events = Append(host.events, failure) /\ room = 3
         /\ \/ host' = host
            \/ \E new \in Status : host'.commands = [host.commands EXCEPT ![m] = new]
    <2>1. CASE n = 0
      <3>1. host' = host
        BY <1>7, <2>1
      <3> QED
        BY <1>1, <3>1 DEF Parts, SameElse
    <2>2. CASE n # 0
      <3> DEFINE k == n - 1
      <3> HIDE DEF known, status, failed
      <3>1. k \in {0, 1, 2} /\ (k > 0 => room = 3)
        BY <1>6, <1>7, <2>2
      <3>2. host' = Recorded(known, Tail(entries), k)
        BY <1>7, <2>2
      <3> DEFINE shown == Tail(entries)
      <3>3. /\ shown[1].event = failure
            /\ shown[2].msg = m /\ shown[2].status = failed
        <4>1. /\ Happened(failure) = [kind |-> "event", event |-> failure]
              /\ Updated(m, failed) = [kind |-> "status", msg |-> m, status |-> failed]
          BY DEF Happened, Updated
        <4>2. shown[1] = Happened(failure) /\ shown[2] = Updated(m, failed)
          BY <1>5
        <4> HIDE DEF shown
        <4> QED
          BY <4>1, <4>2
      <3> HIDE DEF k, shown
      <3>4. /\ host' \in HostState /\ SameElse(host', known)
            /\ host'.events = IF k = 0 THEN known.events ELSE Append(known.events, failure)
            /\ host'.commands = IF k = 2 THEN [known.commands EXCEPT ![m] = failed]
                                ELSE known.commands
        <4>1. /\ shown[1].event = failure /\ shown[1].event \in Event
              /\ shown[2].msg = m /\ shown[2].msg \in Message
              /\ shown[2].status = failed /\ shown[2].status \in Status
          BY <1>1, <1>2, <3>3 DEF shown
        <4>2. host' = Recorded(known, shown, k) /\ known \in HostState
          BY <1>10, <3>2 DEF shown
        <4>3. /\ Recorded(known, shown, k) \in HostState
              /\ SameElse(Recorded(known, shown, k), known)
              /\ Recorded(known, shown, k).events =
                     IF k = 0 THEN known.events ELSE Append(known.events, shown[1].event)
              /\ Recorded(known, shown, k).commands =
                     IF k = 2 THEN [known.commands EXCEPT ![shown[2].msg] = shown[2].status]
                     ELSE known.commands
          <5>1. k > 0 => shown[1].event \in Event
            BY <4>1
          <5>2. k = 2 => shown[2].msg \in Message /\ shown[2].status \in Status
            BY <4>1
          <5> QED
            BY <3>1, <4>2, <5>1, <5>2, RecordedTypes, Zenon
        <4> QED
          BY <4>1, <4>2, <4>3
      <3>5. [[host.commands EXCEPT ![m] = status] EXCEPT ![m] = failed]
                = [host.commands EXCEPT ![m] = failed]
        BY <1>1 DEF Parts, HostState, Commands
      <3> QED
        BY <1>2, <1>10, <3>1, <3>4, <3>5 DEF SameElse
    <2> QED
      BY <2>1, <2>2
  <1>12. Shows(failure, MaxEvent)
    BY <1>6, <1>11 DEF Shows
  <1>13. Parts'
    <2>1. Len(host'.events) <= MaxEvent /\ host'.acked <= Len(host'.events)
      BY <1>1, <1>2, <1>11, <1>12, HostAssumption, ShownTypes DEF SameElse, HostAssumption
    <2> QED
      BY <1>1, <1>11, <2>1 DEF Parts, FailCommand
  <1> QED
    BY <1>9, <1>11, <1>12, <1>13, PartsNext DEF Grows, failure

\* What the end of the event task, of the CLI or of the host leaves alone.
EndedBy(old, new) ==
    /\ new.acked = old.acked /\ new.epoch = old.epoch /\ new.owner = old.owner
    /\ new.events = old.events /\ new.commands = old.commands

LEMMA EventTypes ==
    ASSUME HostTypeOK, SealedAtEnd,
           NEW e \in Event, e.kind # "undelivered", RecordEvent(e)
    PROVE  /\ HostTypeOK' /\ Grows /\ Shows(e, MaxEvent)
           /\ host.phase = "serving" /\ SealedAtEnd'
           /\ host'.epoch = host.epoch /\ host'.acked = host.acked
           /\ host'.owner = host.owner /\ host'.phase = host.phase
           /\ \/ host'.commands = host.commands
              \/ /\ e.msg \in Message /\ host.commands[e.msg] # None
                 /\ \E status \in Status :
                       /\ status.disposition \in {"accepted", "failed"}
                       /\ host'.commands = [host.commands EXCEPT ![e.msg] = status]
  <1> DEFINE entries == Entries(e)
  <1>1. Parts /\ host \in HostState /\ host.phase = "serving" /\ ~host.sealed
    BY PartsAreTypes DEF Parts, RecordEvent, SealedAtEnd
  <1>2. /\ entries \in Seq(Entry) /\ Len(entries) \in {1, 2} /\ entries[1].event = e
        /\ Len(entries) = 2 =>
              /\ entries[2].msg \in Message /\ entries[2].msg = e.msg
              /\ entries[2].status \in Status
              /\ entries[2].status.disposition \in {"accepted", "failed"}
              /\ host.commands[e.msg] # None
    BY EntriesTypes
  <1>3. /\ Len(host.events) \in Nat /\ handed' = handed /\ calls' = calls
        /\ mine' = mine /\ receipt' = receipt
    BY <1>1, LenProperties DEF HostState, RecordEvent
  <1>4. CASE Exhausted
    <2>1. /\ host' = [host EXCEPT !.recorder = "failed"] /\ native' = "ended"
          /\ journal' = journal /\ faults' = faults
      BY <1>4 DEF RecordEvent
    <2>2. /\ host' \in HostState /\ EndedBy(host, host')
          /\ host'.phase = host.phase /\ host'.sealed = host.sealed
      BY <1>1, <2>1 DEF HostState, EndedBy
    <2>3. Grows
      BY <1>1, <2>1, StillGrows
    <2>4. Parts'
      BY <1>1, <1>3, <2>1, <2>2 DEF Parts, EndedBy
    <2> QED
      BY <1>1, <2>2, <2>3, <2>4, PartsNext DEF Grows, EndedBy, Shows, SealedAtEnd
  <1>5. CASE ~Exhausted
    <2>1. PICK n \in 0..Len(entries) :
              /\ Written(entries, n)
              /\ IF n = Len(entries)
                 THEN host' = Recorded(host, entries, n) /\ UNCHANGED native
                 ELSE /\ host' = [Recorded(host, entries, n) EXCEPT !.recorder = "failed"]
                      /\ native' = "ended"
      BY <1>5 DEF RecordEvent
    <2> DEFINE shown == Recorded(host, entries, n)
    <2> HIDE DEF entries
    <2>2. /\ n \in {0, 1, 2} /\ n \in Nat /\ (n = 2 => Len(entries) = 2)
      <3> DEFINE len == Len(entries)
      <3>1. len \in {1, 2} /\ n \in 0..len
        BY <1>2
      <3> HIDE DEF len
      <3>2. len = 1 => n \in {0, 1}
        BY <3>1
      <3>3. len = 2 => n \in {0, 1, 2}
        BY <3>1
      <3> QED
        BY <3>1, <3>2, <3>3 DEF len
    <2>3. /\ shown \in HostState /\ SameElse(shown, host)
          /\ shown.events = IF n = 0 THEN host.events ELSE Append(host.events, e)
          /\ shown.commands = IF n = 2
                              THEN [host.commands EXCEPT ![entries[2].msg] = entries[2].status]
                              ELSE host.commands
      <3>1. /\ n > 0 => entries[1].event \in Event
            /\ n = 2 => entries[2].msg \in Message /\ entries[2].status \in Status
        BY <1>2, <2>2
      <3>2. /\ Recorded(host, entries, n) \in HostState
            /\ SameElse(Recorded(host, entries, n), host)
            /\ Recorded(host, entries, n).events =
                   IF n = 0 THEN host.events ELSE Append(host.events, entries[1].event)
            /\ Recorded(host, entries, n).commands =
                   IF n = 2
                   THEN [host.commands EXCEPT ![entries[2].msg] = entries[2].status]
                   ELSE host.commands
        BY <1>1, <2>2, <3>1, RecordedTypes
      <3> QED
        BY <1>2, <3>2
    <2>4. host' = shown \/ host' = [shown EXCEPT !.recorder = "failed"]
      BY <2>1
    <2> HIDE DEF shown
    <2>5. /\ host' \in HostState /\ host'.events = shown.events
          /\ host'.commands = shown.commands /\ host'.acked = shown.acked
          /\ host'.epoch = shown.epoch /\ host'.owner = shown.owner
          /\ host'.phase = shown.phase /\ host'.sealed = shown.sealed
      BY <2>3, <2>4 DEF HostState
    <2>6. Grows
      <3>1. /\ \E extra \in Seq(Record) : journal' = journal \o extra
            /\ journal' \in Seq(Record) /\ faults' \in Nat
        BY <1>2, <2>1, <2>2, WrittenTypes
      <3> QED
        BY <1>1, <3>1 DEF Grows
    <2>7. Shows(e, MaxEvent)
      BY <1>3, <1>5, <2>3, <2>5, HostAssumption DEF Shows, Exhausted, HostAssumption
    <2>8. Len(host'.events) <= MaxEvent /\ host'.acked <= Len(host'.events)
      BY <1>1, <2>3, <2>5, <2>7, HostAssumption, ShownTypes DEF SameElse, HostAssumption
    <2>9. Parts'
      BY <1>1, <1>3, <2>1, <2>5, <2>8 DEF Parts
    <2>10. \/ host'.commands = host.commands
           \/ /\ e.msg \in Message /\ host.commands[e.msg] # None
              /\ \E status \in Status :
                    /\ status.disposition \in {"accepted", "failed"}
                    /\ host'.commands = [host.commands EXCEPT ![e.msg] = status]
      BY <1>2, <2>2, <2>3, <2>5
    <2>11. SealedAtEnd'
      BY <1>1, <2>3, <2>5 DEF SealedAtEnd, SameElse
    <2> QED
      BY <1>1, <2>3, <2>5, <2>6, <2>7, <2>9, <2>10, <2>11, PartsNext DEF Grows, SameElse
  <1> QED
    BY <1>4, <1>5

LEMMA EndTypes ==
    ASSUME HostTypeOK, SealedAtEnd,
           \/ AdapterEnds \/ RecorderEnds \/ StopServing \/ HostDies
           \/ \E exited \in BOOLEAN : WriteReceipt(exited)
    PROVE  /\ HostTypeOK' /\ Grows /\ SealedAtEnd'
           /\ EndedBy(host, host') /\ handed' = handed /\ mine' = mine
           /\ calls' = calls \/ calls' = {}
  <1>1. Parts /\ host \in HostState /\ Len(host.events) \in Nat
    BY PartsAreTypes, LenProperties DEF Parts, HostState
  <1>2. host.sealed => host.phase = "exited"
    BY DEF SealedAtEnd
  <1>3. /\ journal' = journal /\ faults' = faults /\ handed' = handed /\ mine' = mine
        /\ (calls' = calls \/ calls' = {}) /\ (host.sealed => host' = host)
        /\ native' \in {"running", "ended"}
    BY <1>1, <1>2 DEF Parts, AdapterEnds, RecorderEnds, StopServing, HostDies, WriteReceipt
  <1>4. host' \in HostState /\ EndedBy(host, host')
    <2>1. CASE host' = host
      BY <1>1, <2>1 DEF EndedBy
    <2>2. CASE host' = [host EXCEPT !.recorder = "done"]
      BY <1>1, <2>2 DEF HostState, EndedBy
    <2>3. ASSUME NEW phase \in {"closing", "gone"}, host' = [host EXCEPT !.phase = phase]
          PROVE  host' \in HostState /\ EndedBy(host, host')
      BY <1>1, <2>3 DEF HostState, EndedBy
    <2>4. CASE host' = [host EXCEPT !.sealed = TRUE, !.phase = "exited"]
      BY <1>1, <2>4 DEF HostState, EndedBy
    <2> QED
      BY <2>1, <2>2, <2>3, <2>4
         DEF AdapterEnds, RecorderEnds, StopServing, HostDies, WriteReceipt, Sealed
  <1>5. SealedAtEnd'
    BY <1>1 DEF AdapterEnds, RecorderEnds, StopServing, HostDies, WriteReceipt, Sealed,
                HostState, SealedAtEnd
  <1>6. receipt' \in [records : Nat, last : Nat, acked : Nat, exited : BOOLEAN,
                      completed : BOOLEAN] \cup {None}
    <2>1. host.next - 1 \in Nat
      BY <1>1 DEF HostState
    <2>2. ASSUME NEW exited \in BOOLEAN, WriteReceipt(exited)
          PROVE  receipt' \in [records : Nat, last : Nat, acked : Nat, exited : BOOLEAN,
                               completed : BOOLEAN]
      <3> DEFINE records == host.next - 1
                 last == Len(host.events)
                 completed == host.recorder = "done"
      <3>1. receipt' = [records |-> records, last |-> last, acked |-> host.acked,
                        exited |-> exited, completed |-> completed]
        BY <2>2 DEF WriteReceipt
      <3>2. records \in Nat /\ last \in Nat /\ host.acked \in Nat /\ completed \in BOOLEAN
        BY <1>1, <2>1 DEF HostState
      <3> HIDE DEF records, last, completed
      <3> QED
        BY <3>1, <3>2
    <2>3. receipt' = receipt \/ \E exited \in BOOLEAN : WriteReceipt(exited)
      BY DEF AdapterEnds, RecorderEnds, StopServing, HostDies
    <2> QED
      BY <1>1, <2>2, <2>3 DEF Parts
  <1>7. Grows
    BY <1>3, StillGrows
  <1>8. Parts'
    BY <1>1, <1>3, <1>4, <1>6 DEF Parts, EndedBy
  <1> QED
    BY <1>3, <1>4, <1>5, <1>7, <1>8, PartsNext DEF Grows

\* One lemma for each kind of step, put together.
LEMMA TypesStep ==
    ASSUME HostTypeOK, SealedAtEnd, HostNext
    PROVE  HostTypeOK' /\ Grows /\ SealedAtEnd'
  <1>1. host \in HostState
    BY PartsAreTypes DEF Parts
  <1>2. ASSUME NEW c \in Client, NEW expected \in 0..MaxEpoch, ClaimOwner(c, expected)
        PROVE  HostTypeOK' /\ Grows /\ SealedAtEnd'
    <2>1. SealedAtEnd'
      BY <1>1, <1>2 DEF ClaimOwner, SealedAtEnd, HostState
    <2> QED
      BY <1>2, <2>1, ClaimTypes
  <1>3. ASSUME \/ \E c \in Client, m \in Message, b \in Body : ReceiveCommand(c, m, b)
               \/ \E call \in calls : ReserveCapacity(call) \/ RejectCommand(call)
        PROVE  HostTypeOK' /\ Grows /\ SealedAtEnd'
    <2>1. SealedAtEnd'
      BY <1>3 DEF ReceiveCommand, ReserveCapacity, RejectCommand, SealedAtEnd
    <2> QED
      BY <1>3, <2>1, RequestTypes
  <1>4. ASSUME NEW call \in calls, DeliverCommand(call)
        PROVE  HostTypeOK' /\ Grows /\ SealedAtEnd'
    <2>1. SealedAtEnd'
      BY <1>1, <1>4 DEF DeliverCommand, SealedAtEnd, HostState
    <2> QED
      BY <1>4, <2>1, DeliverTypes
  <1>5. ASSUME NEW call \in calls, FailCommand(call)
        PROVE  HostTypeOK' /\ Grows /\ SealedAtEnd'
    <2>1. HostTypeOK' /\ Grows /\ (host' = host \/ SameElse(host', host))
      BY <1>5, FailTypes
    <2> QED
      BY <2>1 DEF SealedAtEnd, SameElse
  <1>6. ASSUME NEW call \in calls, ReportDelivered(call)
        PROVE  HostTypeOK' /\ Grows /\ SealedAtEnd'
    <2>1. SealedAtEnd'
      BY <1>1, <1>6 DEF ReportDelivered, SealedAtEnd, HostState
    <2> QED
      BY <1>6, <2>1, ReportDeliveredTypes
  <1>7. ASSUME NEW c \in Client, NEW through \in 1..MaxEvent, AckEvents(c, through)
        PROVE  HostTypeOK' /\ Grows /\ SealedAtEnd'
    <2>1. SealedAtEnd'
      BY <1>1, <1>7 DEF AckEvents, SealedAtEnd, HostState
    <2> QED
      BY <1>7, <2>1, AckTypes
  <1>8. ASSUME NEW e \in Reports(host.events, {m \in Message : Handed(m)}), RecordEvent(e)
        PROVE  HostTypeOK' /\ Grows /\ SealedAtEnd'
    BY <1>8, EventTypes, ReportTypes
  <1>9. ASSUME \/ AdapterEnds \/ RecorderEnds \/ StopServing \/ HostDies
               \/ \E exited \in BOOLEAN : WriteReceipt(exited)
        PROVE  HostTypeOK' /\ Grows /\ SealedAtEnd'
    BY <1>9, EndTypes
  <1> QED
    BY <1>2, <1>3, <1>4, <1>5, <1>6, <1>7, <1>8, <1>9 DEF HostNext

LEMMA TypesUnchanged ==
    ASSUME HostTypeOK, SealedAtEnd, UNCHANGED hostVars
    PROVE  HostTypeOK' /\ SealedAtEnd'
  BY DEF hostVars, HostTypeOK, SealedAtEnd

LEMMA InitTypes == HostInit => HostTypeOK /\ SealedAtEnd
  <1> SUFFICES ASSUME HostInit PROVE HostTypeOK /\ SealedAtEnd
    OBVIOUS
  <1>1. host.events = <<>> /\ Len(host.events) = 0 /\ host.acked = 0
    BY DEF HostInit
  <1>2. <<>> \in Seq(Record) /\ <<>> \in Seq(Event)
        /\ <<>> \in Seq([msg : Message, body : Body, epoch : Nat])
    BY EmptySeq
  <1>3. host \in HostState
    BY <1>2 DEF HostInit, HostState, Commands
  <1>4. Parts
    BY <1>1, <1>2, <1>3, HostAssumption DEF HostInit, Parts, HostAssumption
  <1>5. SealedAtEnd
    BY DEF HostInit, SealedAtEnd
  <1> QED
    BY <1>2, <1>4, <1>5, PartsAreTypes DEF HostInit

\* The host's state, its journal and its requests keep their types, and no more
\* events are kept than the limit allows (runtime_host.rs:555-561).
THEOREM HostTypesHold == HostSpec => []HostTypeOK
  <1>1. HostTypeOK /\ SealedAtEnd /\ [HostNext]_hostVars => HostTypeOK' /\ SealedAtEnd'
    BY TypesStep, TypesUnchanged
  <1> QED
    BY <1>1, InitTypes, PTL DEF HostSpec

-----------------------------------------------------------------------------
(* What is known of a command *)

LEMMA KnownValues ==
    ASSUME NEW status \in Status \cup {None}
    PROVE  /\ Known(status) \in 0..3 /\ (Known(status) = 0 <=> status = None)
           /\ status # None =>
                 /\ status.disposition = "recorded" => Known(status) = 1
                 /\ status.disposition = "delivered" => Known(status) = 2
                 /\ status.disposition \in {"accepted", "failed"} => Known(status) = 3
  BY NoStatus DEF Known, Status, Disposition

\* One status replaces a weaker one.
Learns(old, new) ==
    \/ new = old
    \/ \E m \in Message, status \in Status :
          /\ new = [old EXCEPT ![m] = status]
          /\ \/ old[m] = None
             \/ status.disposition \in {"accepted", "failed"}
             \/ status.disposition = "delivered" /\ old[m].disposition = "recorded"

LEMMA LearnsGrows ==
    ASSUME NEW old \in Commands, NEW new, Learns(old, new)
    PROVE  \A m \in Message : Known(new[m]) >= Known(old[m])
  <1>1. CASE new = old
    BY <1>1, KnownValues DEF Commands
  <1>2. CASE new # old
    <2>1. PICK m \in Message, status \in Status :
              /\ new = [old EXCEPT ![m] = status]
              /\ \/ old[m] = None
                 \/ status.disposition \in {"accepted", "failed"}
                 \/ status.disposition = "delivered" /\ old[m].disposition = "recorded"
      BY <1>2 DEF Learns
    <2>2. old[m] \in Status \cup {None} /\ status # None
      BY NoStatus DEF Commands
    <2>3. Known(status) >= Known(old[m])
      BY <2>1, <2>2, KnownValues
    <2>4. ASSUME NEW other \in Message PROVE Known(new[other]) >= Known(old[other])
      <3>1. CASE other = m
        <4>1. new[other] = status
          BY <2>1, <3>1 DEF Commands
        <4> QED
          BY <2>3, <3>1, <4>1
      <3>2. CASE other # m
        <4>1. new[other] = old[other] /\ old[other] \in Status \cup {None}
          BY <2>1, <3>2 DEF Commands
        <4>2. Known(old[other]) \in 0..3
          BY <4>1, KnownValues
        <4> QED
          BY <4>1, <4>2
      <3> QED
        BY <3>1, <3>2
    <2> QED
      BY <2>4
  <1> QED
    BY <1>1, <1>2

\* A command is handed over for the owner of now, with its record in the journal.
Hands(call) ==
    /\ host.commands[call.msg] = None /\ host'.commands[call.msg] # None
    /\ handed' = Append(handed, [msg |-> call.msg, body |-> call.body, epoch |-> call.epoch])
    /\ host.epoch = call.epoch
    /\ \E j \in DOMAIN journal' :
          /\ journal'[j].entry.kind = "command" /\ journal'[j].entry.msg = call.msg
          /\ journal'[j].entry.status.body = call.body

LEMMA DeliverStep ==
    ASSUME HostTypeOK, NEW call \in calls, DeliverCommand(call)
    PROVE  /\ Learns(host.commands, host'.commands) /\ host'.events = host.events
           /\ handed' = handed \/ Hands(call)
  <1> DEFINE status == [body |-> call.body, disposition |-> "recorded"]
             new == WithStatus(call.msg, status)
  <1>1. Parts /\ call.msg \in Message /\ status \in Status /\ host.commands[call.msg] = None
        /\ host.epoch = call.epoch
    BY PartsAreTypes, CallTypes DEF DeliverCommand, Admissible, Owns, Disposition
  <1>2. Commanded(call.msg, status) \in Entry
    BY <1>1 DEF Commanded, Entry
  <1>3. /\ Commanded(call.msg, status).kind = "command"
        /\ Commanded(call.msg, status).msg = call.msg
        /\ Commanded(call.msg, status).status.body = call.body
    BY DEF Commanded
  <1> HIDE DEF status
  <1>4. PICK n \in 0..1 :
            /\ Written(<<Commanded(call.msg, status)>>, n)
            /\ handed' = HandedAfter(call, n)
            /\ n = 0 => host' = host
            /\ n = 1 => host' = new
    BY DEF DeliverCommand, status, WithStatus
  <1>5. CASE n = 0
    BY <1>4, <1>5 DEF HandedAfter, Learns
  <1>6. CASE n = 1
    <2>1. /\ new.events = host.events
          /\ new.commands = [host.commands EXCEPT ![call.msg] = status]
      BY <1>1, OneStatus
    <2> HIDE DEF new
    <2>2. Learns(host.commands, host'.commands) /\ host'.events = host.events
      BY <1>1, <1>4, <1>6, <2>1 DEF Learns
    <2>3. host'.commands[call.msg] # None
      BY <1>1, <1>4, <1>6, <2>1, NoStatus DEF Parts, HostState, Commands
    <2>4. PICK extra \in Seq(Record) :
              /\ journal' = journal \o extra
              /\ Len(extra) > 0 /\ extra[1].entry = Commanded(call.msg, status)
      <3> DEFINE entries == <<Commanded(call.msg, status)>>
      <3>1. entries \in Seq(Entry) /\ entries[1] = Commanded(call.msg, status)
        BY <1>2, Singleton
      <3>2. n \in Nat /\ n > 0 /\ Written(entries, n)
        BY <1>4, <1>6
      <3> HIDE DEF entries
      <3> QED
        BY <3>1, <3>2, WrittenTypes
    <2>5. /\ Len(journal) + 1 \in DOMAIN journal'
          /\ journal'[Len(journal) + 1] = extra[1]
      <3>1. journal \in Seq(Record) /\ Len(journal) \in Nat /\ Len(extra) \in Nat
        BY LenProperties DEF HostTypeOK
      <3>2. /\ Len(journal') = Len(journal) + Len(extra) /\ journal' \in Seq(Record)
            /\ journal'[Len(journal) + 1] = extra[1]
        BY <2>4, <3>1, ConcatProperties
      <3> QED
        BY <2>4, <3>1, <3>2, LenProperties
    <2>6. handed' = handed \/ handed' =
              Append(handed, [msg |-> call.msg, body |-> call.body, epoch |-> call.epoch])
      BY <1>4 DEF HandedAfter
    <2>7. \E j \in DOMAIN journal' :
              /\ journal'[j].entry.kind = "command" /\ journal'[j].entry.msg = call.msg
              /\ journal'[j].entry.status.body = call.body
      BY <1>3, <2>4, <2>5
    <2> QED
      BY <1>1, <2>2, <2>3, <2>6, <2>7 DEF Hands
  <1> QED
    BY <1>5, <1>6

\* The host tells of a command it could not send, and of no other.
Undelivers(m) ==
    /\ host.commands[m] = None
    /\ \/ host' = host
       \/ /\ host'.commands[m] # None
          /\ Shows([kind |-> "undelivered", msg |-> m], MaxEvent)
          /\ SameElse(host', host)

LEMMA FailStep ==
    ASSUME HostTypeOK, NEW call \in calls, FailCommand(call)
    PROVE  /\ Learns(host.commands, host'.commands) /\ handed' = handed
           /\ call.msg \in Message /\ Undelivers(call.msg)
  <1>1. Parts /\ call.msg \in Message /\ host.commands[call.msg] = None /\ handed' = handed
    BY PartsAreTypes, CallTypes DEF FailCommand, Admissible
  <1>2. /\ Shows([kind |-> "undelivered", msg |-> call.msg], MaxEvent)
        /\ \/ host' = host
           \/ /\ SameElse(host', host)
              /\ \E status \in Status :
                    host'.commands = [host.commands EXCEPT ![call.msg] = status]
    BY FailTypes
  <1>3. CASE host' = host
    BY <1>1, <1>3 DEF Learns, Undelivers
  <1>4. CASE host' # host
    <2>1. PICK status \in Status :
              host'.commands = [host.commands EXCEPT ![call.msg] = status]
      BY <1>2, <1>4
    <2>2. Learns(host.commands, host'.commands)
      BY <1>1, <2>1 DEF Learns
    <2>3. host'.commands[call.msg] # None
      BY <1>1, <2>1, NoStatus DEF Parts, HostState, Commands
    <2> QED
      BY <1>1, <1>2, <1>4, <2>2, <2>3 DEF Undelivers
  <1> QED
    BY <1>3, <1>4

LEMMA ReportDeliveredStep ==
    ASSUME HostTypeOK, NEW call \in calls, ReportDelivered(call)
    PROVE  /\ Learns(host.commands, host'.commands) /\ handed' = handed
           /\ host'.events = host.events
  <1> DEFINE status == [body |-> call.body, disposition |-> "delivered"]
             new == WithStatus(call.msg, status)
  <1>1. Parts /\ call.msg \in Message /\ status \in Status /\ handed' = handed
        /\ status.disposition = "delivered"
    BY PartsAreTypes, CallTypes DEF ReportDelivered, Disposition
  <1>2. host' = host \/ (~Overtaken(call) /\ host' = new)
    BY DEF ReportDelivered, WithStatus
  <1> HIDE DEF status
  <1>3. new.events = host.events /\ new.commands = [host.commands EXCEPT ![call.msg] = status]
    BY <1>1, OneStatus
  <1> HIDE DEF new
  <1> QED
    BY <1>1, <1>2, <1>3 DEF Learns, Overtaken

\* Everything else leaves commands and events alone.
LEMMA OtherStep ==
    ASSUME HostTypeOK, SealedAtEnd,
           \/ \E c \in Client, expected \in 0..MaxEpoch : ClaimOwner(c, expected)
           \/ \E c \in Client, m \in Message, b \in Body : ReceiveCommand(c, m, b)
           \/ \E call \in calls : ReserveCapacity(call) \/ RejectCommand(call)
           \/ \E c \in Client, n \in 1..MaxEvent : AckEvents(c, n)
           \/ AdapterEnds \/ RecorderEnds \/ StopServing \/ HostDies
           \/ \E exited \in BOOLEAN : WriteReceipt(exited)
    PROVE  /\ host'.commands = host.commands /\ host'.events = host.events
           /\ handed' = handed
  <1>1. host \in HostState
    BY PartsAreTypes DEF Parts
  <1>2. ASSUME NEW c \in Client, NEW expected \in 0..MaxEpoch, ClaimOwner(c, expected)
        PROVE  /\ host'.commands = host.commands /\ host'.events = host.events
               /\ handed' = handed
    BY <1>1, <1>2 DEF ClaimOwner, HostState
  <1>3. ASSUME \/ \E c \in Client, m \in Message, b \in Body : ReceiveCommand(c, m, b)
               \/ \E call \in calls : ReserveCapacity(call) \/ RejectCommand(call)
        PROVE  /\ host'.commands = host.commands /\ host'.events = host.events
               /\ handed' = handed
    BY <1>3 DEF ReceiveCommand, ReserveCapacity, RejectCommand
  <1>4. ASSUME NEW c \in Client, NEW n \in 1..MaxEvent, AckEvents(c, n)
        PROVE  /\ host'.commands = host.commands /\ host'.events = host.events
               /\ handed' = handed
    BY <1>1, <1>4 DEF AckEvents, HostState
  <1>5. ASSUME \/ AdapterEnds \/ RecorderEnds \/ StopServing \/ HostDies
               \/ \E exited \in BOOLEAN : WriteReceipt(exited)
        PROVE  /\ host'.commands = host.commands /\ host'.events = host.events
               /\ handed' = handed
    BY <1>5, EndTypes DEF EndedBy
  <1> QED
    BY <1>2, <1>3, <1>4, <1>5

\* The four ways in which a step can concern commands and events.
LEMMA HostStep ==
    ASSUME HostTypeOK, SealedAtEnd, HostNext
    PROVE  /\ Learns(host.commands, host'.commands)
           /\ \/ handed' = handed /\ host'.events = host.events
              \/ /\ \E call \in calls : Hands(call)
                 /\ host'.events = host.events
              \/ handed' = handed /\ \E m \in Message : Undelivers(m)
              \/ /\ handed' = handed
                 /\ \E e \in Reports(host.events, {m \in Message : Handed(m)}) :
                       Shows(e, MaxEvent)
  <1>1. ASSUME NEW call \in calls, DeliverCommand(call)
        PROVE  /\ Learns(host.commands, host'.commands) /\ host'.events = host.events
               /\ handed' = handed \/ Hands(call)
    BY <1>1, DeliverStep
  <1>2. ASSUME NEW call \in calls, FailCommand(call)
        PROVE  /\ Learns(host.commands, host'.commands) /\ handed' = handed
               /\ call.msg \in Message /\ Undelivers(call.msg)
    BY <1>2, FailStep
  <1>3. ASSUME NEW call \in calls, ReportDelivered(call)
        PROVE  /\ Learns(host.commands, host'.commands) /\ handed' = handed
               /\ host'.events = host.events
    BY <1>3, ReportDeliveredStep
  <1>4. ASSUME NEW e \in Reports(host.events, {m \in Message : Handed(m)}), RecordEvent(e)
        PROVE  /\ Learns(host.commands, host'.commands) /\ handed' = handed
               /\ Shows(e, MaxEvent)
    <2>1. e \in Event /\ e.kind # "undelivered"
      BY ReportTypes
    <2> QED
      BY <1>4, <2>1, EventTypes DEF Learns, RecordEvent
  <1>5. ASSUME \/ \E c \in Client, expected \in 0..MaxEpoch : ClaimOwner(c, expected)
               \/ \E c \in Client, m \in Message, b \in Body : ReceiveCommand(c, m, b)
               \/ \E call \in calls : ReserveCapacity(call) \/ RejectCommand(call)
               \/ \E c \in Client, n \in 1..MaxEvent : AckEvents(c, n)
               \/ AdapterEnds \/ RecorderEnds \/ StopServing \/ HostDies
               \/ \E exited \in BOOLEAN : WriteReceipt(exited)
        PROVE  /\ Learns(host.commands, host'.commands) /\ handed' = handed
               /\ host'.events = host.events
    BY <1>5, OtherStep DEF Learns
  <1> QED
    BY <1>1, <1>2, <1>3, <1>4, <1>5 DEF HostNext

\* What is known of a command is never taken back: an answer of the CLI that
\* overtakes the request's own report stays (runtime_host.rs:1007-1012).
THEOREM KnowledgeStays == HostSpec => KnowledgeOnlyGrows
  <1> DEFINE Growing == \A m \in Message : Known(host'.commands[m]) >= Known(host.commands[m])
  <1>1. HostTypeOK /\ SealedAtEnd /\ HostNext => Growing
    <2> SUFFICES ASSUME HostTypeOK, SealedAtEnd, HostNext PROVE Growing
      OBVIOUS
    <2>1. host.commands \in Commands
      BY DEF HostTypeOK, Commands
    <2> QED
      BY <2>1, HostStep, LearnsGrows
  <1>2. HostTypeOK /\ UNCHANGED hostVars => Growing
    <2> SUFFICES ASSUME HostTypeOK, UNCHANGED hostVars PROVE Growing
      OBVIOUS
    <2>1. host.commands \in Commands /\ host'.commands = host.commands
      BY DEF HostTypeOK, Commands, hostVars
    <2> QED
      BY <2>1, LearnsGrows DEF Learns
  <1>3. HostTypeOK /\ SealedAtEnd /\ [HostNext]_hostVars =>
            HostTypeOK' /\ SealedAtEnd' /\ [Growing]_hostVars
    BY <1>1, <1>2, TypesStep, TypesUnchanged
  <1> QED
    BY <1>3, InitTypes, PTL DEF HostSpec, KnowledgeOnlyGrows

\* A command waiting for capacity while another connection takes over is not
\* handed to the CLI for its old owner (runtime_host.rs:907-908, 935-944).
THEOREM OwnerDelivers == HostSpec => OnlyOwnerDelivers
  <1> DEFINE Owned == Len(handed') > Len(handed) => Last(handed').epoch = host.epoch
  <1>1. HostTypeOK /\ SealedAtEnd /\ HostNext => Owned
    <2> SUFFICES ASSUME HostTypeOK, SealedAtEnd, HostNext, handed' # handed PROVE Owned
      BY LenProperties DEF HostTypeOK
    <2>1. PICK call \in calls : Hands(call)
      BY HostStep
    <2> DEFINE command == [msg |-> call.msg, body |-> call.body, epoch |-> call.epoch]
    <2>2. handed' = Append(handed, command) /\ command.epoch = host.epoch
      BY <2>1 DEF Hands
    <2>3. handed \in Seq([msg : Message, body : Body, epoch : Nat]) /\ Len(handed) \in Nat
          /\ command \in [msg : Message, body : Body, epoch : Nat]
      BY PartsAreTypes, CallTypes, LenProperties DEF Parts
    <2> HIDE DEF command
    <2>4. Len(handed') = Len(handed) + 1 /\ handed'[Len(handed) + 1] = command
      BY <2>2, <2>3, AppendProperties
    <2> QED
      BY <2>2, <2>3, <2>4 DEF Last
  <1>2. UNCHANGED hostVars => handed' = handed
    BY DEF hostVars
  <1>3. HostTypeOK /\ SealedAtEnd /\ [HostNext]_hostVars =>
            HostTypeOK' /\ SealedAtEnd' /\ [Owned]_hostVars
    BY <1>1, TypesStep, TypesUnchanged
  <1> QED
    BY <1>3, InitTypes, PTL DEF HostSpec, OnlyOwnerDelivers

-----------------------------------------------------------------------------
(* Commands that were handed over, and those that were not *)

HandedKnown == \A i \in DOMAIN handed : host.commands[handed[i].msg] # None
AnsweredKnown == \A m \in Message : Answered(host.events, m) => host.commands[m] # None

CommandInv ==
    /\ HostTypeOK /\ SealedAtEnd
    /\ HandedKnown /\ AnsweredKnown
    /\ UndeliveredNeverHanded /\ DeliveredOnce /\ HandedIsJournalled

LEMMA KnownStays ==
    ASSUME HostTypeOK, HostTypeOK', Learns(host.commands, host'.commands),
           NEW m \in Message, host.commands[m] # None
    PROVE  host'.commands[m] # None
  <1>1. host.commands \in Commands /\ host'.commands \in Commands
    BY DEF HostTypeOK, Commands
  <1>2. Known(host'.commands[m]) >= Known(host.commands[m])
    BY <1>1, LearnsGrows
  <1>3. host'.commands[m] \in Status \cup {None} /\ host.commands[m] \in Status \cup {None}
    BY <1>1 DEF Commands
  <1> QED
    BY <1>2, <1>3, KnownValues

LEMMA ReportedAppend ==
    ASSUME NEW log \in Seq(Event), NEW e, NEW kind, NEW m,
           Reported(Append(log, e), kind, m)
    PROVE  Reported(log, kind, m) \/ (e.kind = kind /\ e.msg = m)
  <1> DEFINE longer == Append(log, e)
  <1>1. /\ Len(log) \in Nat /\ DOMAIN log = 1..Len(log)
        /\ DOMAIN longer = 1..(Len(log) + 1) /\ longer[Len(log) + 1] = e
        /\ \A i \in 1..Len(log) : longer[i] = log[i]
    BY AppendProperties, LenProperties
  <1>2. PICK i \in DOMAIN longer : longer[i].kind = kind /\ longer[i].msg = m
    BY DEF Reported
  <1> HIDE DEF longer
  <1>3. CASE i = Len(log) + 1
    BY <1>1, <1>2, <1>3
  <1>4. CASE i # Len(log) + 1
    BY <1>1, <1>2, <1>4 DEF Reported
  <1> QED
    BY <1>3, <1>4

\* An answer that was shown before, or is shown now.
LEMMA AnsweredNow ==
    ASSUME HostTypeOK, NEW e, Shows(e, MaxEvent), NEW m, Answered(host'.events, m)
    PROVE  Answered(host.events, m)
           \/ (e.kind \in {"accepted", "undelivered", "refused"} /\ e.msg = m)
  <1>1. host.events \in Seq(Event)
    BY DEF HostTypeOK
  <1>2. PICK kind \in {"accepted", "undelivered", "refused"} : Reported(host'.events, kind, m)
    BY DEF Answered
  <1>3. Reported(host.events, kind, m) \/ (e.kind = kind /\ e.msg = m)
    <2>1. CASE host'.events = host.events
      BY <1>2, <2>1
    <2>2. CASE host'.events = Append(host.events, e)
      <3>1. Reported(Append(host.events, e), kind, m)
        BY <1>2, <2>2
      <3> QED
        BY <1>1, <3>1, ReportedAppend
    <2> QED
      BY <2>1, <2>2 DEF Shows
  <1> QED
    BY <1>2, <1>3 DEF Answered

\* What a report of the CLI can answer.
LEMMA ReportAnswers ==
    ASSUME NEW e \in Reports(host.events, {m \in Message : Handed(m)}),
           e.kind \in {"accepted", "undelivered", "refused"}
    PROVE  e.msg \in Message /\ Handed(e.msg) /\ e.kind # "undelivered"
           /\ ~Answered(host.events, e.msg)
  BY DEF Reports, Turning

LEMMA CommandStep ==
    ASSUME CommandInv, HostNext
    PROVE  CommandInv'
  <1>1. HostTypeOK /\ SealedAtEnd /\ HandedKnown /\ AnsweredKnown
        /\ UndeliveredNeverHanded /\ DeliveredOnce /\ HandedIsJournalled
    BY DEF CommandInv
  <1>2. HostTypeOK' /\ Grows /\ SealedAtEnd' /\ Learns(host.commands, host'.commands)
    BY <1>1, TypesStep, HostStep
  <1>3. /\ handed \in Seq([msg : Message, body : Body, epoch : Nat])
        /\ Len(handed) \in Nat /\ DOMAIN handed = 1..Len(handed)
        /\ \A i \in DOMAIN handed : handed[i].msg \in Message
    <2>1. handed \in Seq([msg : Message, body : Body, epoch : Nat])
      BY <1>1 DEF HostTypeOK
    <2>2. Len(handed) \in Nat /\ DOMAIN handed = 1..Len(handed)
      BY <2>1, LenProperties
    <2>3. \A i \in 1..Len(handed) : handed[i] \in [msg : Message, body : Body, epoch : Nat]
      BY <2>1, ElementOfSeq
    <2> QED
      BY <2>1, <2>2, <2>3
  <1>4. \A m \in Message : host.commands[m] # None => host'.commands[m] # None
    BY <1>1, <1>2, KnownStays
  <1>5. ASSUME NEW r \in DOMAIN journal
        PROVE  r \in DOMAIN journal' /\ journal'[r] = journal[r]
    <2>1. PICK extra \in Seq(Record) : journal' = journal \o extra
      BY <1>2 DEF Grows
    <2>2. journal \in Seq(Record)
      BY <1>1 DEF HostTypeOK
    <2> QED
      BY <2>1, <2>2, ConcatProperties, LenProperties
  <1>6. \A i \in DOMAIN handed : \E j \in DOMAIN journal' :
            /\ journal'[j].entry.kind = "command"
            /\ journal'[j].entry.msg = handed[i].msg
            /\ journal'[j].entry.status.body = handed[i].body
    BY <1>1, <1>5 DEF HandedIsJournalled
  <1>7. CASE handed' = handed /\ host'.events = host.events
    <2>1. HandedKnown' /\ AnsweredKnown'
      BY <1>1, <1>3, <1>4, <1>7 DEF HandedKnown, AnsweredKnown
    <2>2. UndeliveredNeverHanded' /\ DeliveredOnce'
      BY <1>1, <1>7 DEF UndeliveredNeverHanded, DeliveredOnce, Handed
    <2>3. HandedIsJournalled'
      BY <1>6, <1>7 DEF HandedIsJournalled
    <2> QED
      BY <1>2, <2>1, <2>2, <2>3 DEF CommandInv
  <1>8. ASSUME NEW call \in calls, Hands(call), host'.events = host.events
        PROVE  CommandInv'
    <2> DEFINE command == [msg |-> call.msg, body |-> call.body, epoch |-> call.epoch]
    <2>1. /\ handed' = Append(handed, command) /\ host.commands[call.msg] = None
          /\ host'.commands[call.msg] # None
          /\ \E j \in DOMAIN journal' :
                /\ journal'[j].entry.kind = "command" /\ journal'[j].entry.msg = call.msg
                /\ journal'[j].entry.status.body = call.body
      BY <1>8 DEF Hands
    <2>2. call.msg \in Message /\ command \in [msg : Message, body : Body, epoch : Nat]
      BY <1>1, PartsAreTypes, CallTypes
    <2>3. command.msg = call.msg /\ command.body = call.body
      OBVIOUS
    <2> HIDE DEF command
    <2>4. /\ DOMAIN handed' = 1..(Len(handed) + 1) /\ handed'[Len(handed) + 1] = command
          /\ \A i \in DOMAIN handed : handed'[i] = handed[i]
      BY <1>3, <2>1, <2>2, AppendProperties, LenProperties
    <2>5. \A i \in DOMAIN handed : handed[i].msg # call.msg
      BY <1>1, <2>1 DEF HandedKnown
    <2>6. HandedKnown'
      BY <1>1, <1>3, <1>4, <2>1, <2>3, <2>4 DEF HandedKnown
    <2>7. AnsweredKnown'
      BY <1>1, <1>4, <1>8 DEF AnsweredKnown
    <2>8. DeliveredOnce'
      <3>1. ASSUME NEW i \in DOMAIN handed', NEW j \in DOMAIN handed', i < j,
                   handed'[i].msg = handed'[j].msg
            PROVE  FALSE
        <4>1. i \in DOMAIN handed /\ handed'[i] = handed[i]
          BY <1>3, <2>4, <3>1
        <4>2. CASE j \in DOMAIN handed
          BY <1>1, <2>4, <3>1, <4>1, <4>2 DEF DeliveredOnce
        <4>3. CASE j = Len(handed) + 1
          BY <2>3, <2>4, <2>5, <3>1, <4>1, <4>3
        <4> QED
          BY <1>3, <2>4, <4>2, <4>3
      <3>2. \A i, j \in DOMAIN handed' : i \in Int /\ j \in Int
        BY <2>4
      <3> QED
        BY <3>1, <3>2 DEF DeliveredOnce
    <2>9. UndeliveredNeverHanded'
      <3>1. ASSUME NEW m \in Message, Reported(host'.events, "undelivered", m),
                   NEW i \in DOMAIN handed', handed'[i].msg = m
            PROVE  FALSE
        <4>1. Answered(host.events, m)
          BY <1>8, <3>1 DEF Answered
        <4>2. host.commands[m] # None /\ ~Handed(m)
          BY <1>1, <1>8, <3>1, <4>1 DEF AnsweredKnown, UndeliveredNeverHanded
        <4> QED
          BY <1>3, <2>1, <2>3, <2>4, <3>1, <4>2 DEF Handed
      <3> QED
        BY <3>1 DEF UndeliveredNeverHanded, Handed
    <2>10. HandedIsJournalled'
      BY <1>3, <1>6, <2>1, <2>3, <2>4 DEF HandedIsJournalled
    <2> QED
      BY <1>2, <2>6, <2>7, <2>8, <2>9, <2>10 DEF CommandInv
  <1>9. ASSUME handed' = handed, NEW e, Shows(e, MaxEvent),
               e.kind \in {"accepted", "undelivered", "refused"} =>
                   /\ e.msg \in Message /\ host'.commands[e.msg] # None
                   /\ e.kind = "undelivered" => ~Handed(e.msg)
        PROVE  CommandInv'
    <2>1. AnsweredKnown'
      <3>1. ASSUME NEW m \in Message, Answered(host'.events, m)
            PROVE  host'.commands[m] # None
        BY <1>1, <1>4, <1>9, <3>1, AnsweredNow DEF AnsweredKnown
      <3> QED
        BY <3>1 DEF AnsweredKnown
    <2>2. HandedKnown' /\ DeliveredOnce' /\ HandedIsJournalled'
      BY <1>1, <1>3, <1>4, <1>6, <1>9 DEF HandedKnown, DeliveredOnce, HandedIsJournalled
    <2>3. UndeliveredNeverHanded'
      <3>1. ASSUME NEW m \in Message, Reported(host'.events, "undelivered", m)
            PROVE  ~Handed(m)
        <4>1. Reported(host.events, "undelivered", m) \/ (e.kind = "undelivered" /\ e.msg = m)
          <5>1. host.events \in Seq(Event)
            BY <1>1 DEF HostTypeOK
          <5>2. CASE host'.events = Append(host.events, e)
            <6>1. Reported(Append(host.events, e), "undelivered", m)
              BY <3>1, <5>2
            <6> QED
              BY <5>1, <6>1, ReportedAppend
          <5> QED
            BY <1>9, <3>1, <5>2 DEF Shows
        <4> QED
          BY <1>1, <1>9, <4>1 DEF UndeliveredNeverHanded
      <3> QED
        BY <1>9, <3>1 DEF UndeliveredNeverHanded, Handed
    <2> QED
      BY <1>2, <2>1, <2>2, <2>3 DEF CommandInv
  <1>10. ASSUME handed' = handed, NEW m \in Message, Undelivers(m), host' # host
         PROVE  CommandInv'
    <2> DEFINE failure == [kind |-> "undelivered", msg |-> m]
    <2>1. Shows(failure, MaxEvent) /\ host'.commands[m] # None /\ host.commands[m] = None
      BY <1>10 DEF Undelivers
    <2>2. ~Handed(m)
      BY <1>1, <2>1 DEF Handed, HandedKnown
    <2>3. failure.kind = "undelivered" /\ failure.msg = m
      OBVIOUS
    <2> HIDE DEF failure
    <2> QED
      BY <1>9, <1>10, <2>1, <2>2, <2>3
  <1>11. ASSUME handed' = handed,
                NEW e \in Reports(host.events, {m \in Message : Handed(m)}), Shows(e, MaxEvent)
         PROVE  CommandInv'
    <2>1. e.kind \in {"accepted", "undelivered", "refused"} =>
              /\ e.msg \in Message /\ Handed(e.msg) /\ e.kind # "undelivered"
      BY ReportAnswers
    <2>2. e.kind \in {"accepted", "undelivered", "refused"} => host'.commands[e.msg] # None
      BY <1>1, <1>4, <2>1 DEF Handed, HandedKnown
    <2> QED
      BY <1>9, <1>11, <2>1, <2>2
  <1> QED
    BY <1>1, <1>7, <1>8, <1>10, <1>11, HostStep

LEMMA CommandInit == HostInit => CommandInv
  <1> SUFFICES ASSUME HostInit PROVE CommandInv
    OBVIOUS
  <1>1. host.events = <<>> /\ handed = <<>> /\ HostTypeOK /\ SealedAtEnd
    BY InitTypes DEF HostInit
  <1> QED
    BY <1>1 DEF CommandInv, HandedKnown, AnsweredKnown, UndeliveredNeverHanded,
                DeliveredOnce, HandedIsJournalled, Answered, Reported

LEMMA CommandUnchanged ==
    ASSUME CommandInv, UNCHANGED hostVars
    PROVE  CommandInv'
  <1>1. HostTypeOK' /\ SealedAtEnd'
    BY TypesUnchanged DEF CommandInv
  <1> QED
    BY <1>1 DEF CommandInv, hostVars, HandedKnown, AnsweredKnown, UndeliveredNeverHanded,
                DeliveredOnce, HandedIsJournalled, Handed

LEMMA CommandsHold == HostSpec => []CommandInv
  <1>1. CommandInv /\ [HostNext]_hostVars => CommandInv'
    BY CommandStep, CommandUnchanged
  <1> QED
    BY <1>1, CommandInit, PTL DEF HostSpec

\* A command reaches the CLI once at most, whoever sends it again and however
\* its first request ended (runtime_host.rs:930-958).
THEOREM CommandsReachTheCliOnce == HostSpec => []DeliveredOnce
  BY CommandsHold, PTL DEF CommandInv

\* The journal knows of every command the CLI may have carried out, with what
\* it said, also when the host is killed right after (runtime_host.rs:965-1000).
THEOREM JournalKnowsWhatWasHanded == HostSpec => []HandedIsJournalled
  BY CommandsHold, PTL DEF CommandInv

\* A command reported as not delivered never reaches the CLI, before or after
\* (runtime_host.rs:976-995).
THEOREM UndeliveredStaysSo == HostSpec => []UndeliveredNeverHanded
  BY CommandsHold, PTL DEF CommandInv

-----------------------------------------------------------------------------
(* The host is the feed its connections rely on *)

Stage ==
    IF host.phase \in {"serving", "closing"} THEN "open"
    ELSE IF Confirmed THEN "exited" ELSE "gone"

\* A granted epoch is never the one before the first claim.
Granted == \A c \in Client : mine[c] # None => mine[c] > 0

\* A host that died finishes no request.
GoneIsIdle == host.phase = "gone" => calls = {}

FeedInv == CommandInv /\ Granted /\ GoneIsIdle

LEMMA FeedInvInit == HostInit => FeedInv
  BY CommandInit DEF HostInit, FeedInv, Granted, GoneIsIdle

LEMMA FeedInvStep ==
    ASSUME FeedInv, [HostNext]_hostVars
    PROVE  FeedInv'
  <1>1. HostTypeOK /\ SealedAtEnd /\ CommandInv'
    BY CommandStep, CommandUnchanged DEF FeedInv, CommandInv
  <1>2. host \in HostState /\ Parts /\ Granted /\ GoneIsIdle
    BY <1>1, PartsAreTypes DEF Parts, FeedInv
  <1>3. Granted'
    <2>1. ASSUME NEW c \in Client, NEW expected \in 0..MaxEpoch, ClaimOwner(c, expected)
          PROVE  Granted'
      <3>1. mine' \in {mine, [mine EXCEPT ![c] = host.epoch + 1]}
        BY <2>1 DEF ClaimOwner
      <3>2. host.epoch + 1 > 0 /\ mine \in [Client -> Nat \cup {None}]
        BY <1>2 DEF Parts, HostState
      <3> QED
        BY <1>2, <3>1, <3>2 DEF Granted
    <2>2. ASSUME UNCHANGED mine PROVE Granted'
      BY <1>2, <2>2 DEF Granted
    <2>3. mine' = mine \/ \E c \in Client, expected \in 0..MaxEpoch : ClaimOwner(c, expected)
      BY DEF HostNext, hostVars, ReceiveCommand, ReserveCapacity, RejectCommand,
             DeliverCommand, FailCommand, ReportDelivered, AckEvents, RecordEvent,
             AdapterEnds, RecorderEnds, StopServing, HostDies, WriteReceipt
    <2> QED
      BY <2>1, <2>2, <2>3
  <1>4. GoneIsIdle'
    <2>1. CASE host.phase = "gone"
      BY <1>2, <2>1
      DEF GoneIsIdle, HostNext, hostVars, ClaimOwner, Serving, ReceiveCommand, AckEvents,
          RecordEvent, AdapterEnds, RecorderEnds, StopServing, HostDies, WriteReceipt
    <2>2. CASE host.phase # "gone"
      <3>1. HostDies => GoneIsIdle'
        BY DEF HostDies, GoneIsIdle
      <3>2. ASSUME HostNext \/ UNCHANGED hostVars, ~HostDies
            PROVE  host'.phase # "gone"
        <4>1. ASSUME NEW call \in calls, FailCommand(call) PROVE host'.phase # "gone"
          BY <1>1, <2>2, <4>1, FailTypes DEF SameElse
        <4>2. ASSUME NEW e \in Reports(host.events, {m \in Message : Handed(m)}), RecordEvent(e)
              PROVE  host'.phase # "gone"
          BY <1>1, <2>2, <4>2, EventTypes, ReportTypes
        <4> QED
          BY <1>2, <2>2, <3>2, <4>1, <4>2
          DEF HostNext, hostVars, HostState, ClaimOwner, ReceiveCommand, ReserveCapacity,
              RejectCommand, DeliverCommand, ReportDelivered, AckEvents, AdapterEnds,
              RecorderEnds, StopServing, WriteReceipt, Sealed
      <3> QED
        BY <3>1, <3>2 DEF GoneIsIdle
    <2> QED
      BY <2>1, <2>2
  <1> QED
    BY <1>1, <1>3, <1>4 DEF FeedInv

FeedKept ==
    /\ host'.events = host.events /\ host'.acked = host.acked
    /\ host'.epoch = host.epoch /\ Stage' = Stage

LEMMA SameConfirmed ==
    ASSUME journal' = journal, receipt' = receipt
    PROVE  Confirmed' = Confirmed
  <1>1. /\ receipt.last = Cardinality(Of(journal, "event"))
            <=> (receipt.last = Cardinality(Of(journal, "event")))'
        /\ ShowsAck(journal, receipt.acked) <=> ShowsAck(journal, receipt.acked)'
        /\ AcksInOrder(journal) <=> AcksInOrder(journal)'
    BY DEF Of, ShowsAck, IsLast, AcksInOrder
  <1>2. Chained' = Chained /\ SameJournal' = SameJournal
    BY DEF Chained, SameJournal
  <1> QED
    BY <1>1, <1>2 DEF Confirmed

\* Requests that end after the host has closed its journal change nothing.
LEMMA StageKept ==
    ASSUME FeedInv, Grows, receipt' = receipt, host'.phase = host.phase, host.phase # "gone"
    PROVE  Stage' = Stage /\ (Stage # "open" => host' = host)
  <1>1. SealedAtEnd /\ host.phase \in {"serving", "closing", "exited"}
    BY DEF FeedInv, CommandInv, HostTypeOK
  <1>2. CASE host.phase = "exited"
    <2>1. host' = host /\ journal' = journal
      BY <1>1, <1>2 DEF SealedAtEnd, Grows
    <2>2. Confirmed' = Confirmed
      BY <2>1, SameConfirmed
    <2> QED
      BY <1>2, <2>1, <2>2 DEF Stage
  <1>3. CASE host.phase # "exited"
    BY <1>1, <1>3 DEF Stage
  <1> QED
    BY <1>2, <1>3

\* The phases in which the feed is open.
LEMMA StageOpen ==
    ASSUME host.phase \in {"serving", "closing"} PROVE Stage = "open"
  BY DEF Stage

\* The feed lets the CLI report as much as the host does, on any command.
LEMMA FeedReports ==
    ASSUME NEW events, NEW taken \in SUBSET Message, NEW e \in Reports(events, taken)
    PROVE  e \in Feed!Reports(events, Message)
  <1>1. /\ Was(events, "ready") <=> Feed!Was(events, "ready")
        /\ Was(events, "disconnected") <=> Feed!Was(events, "disconnected")
    BY DEF Was, Feed!Was
  <1>2. /\ \A m : Answered(events, m) <=> Feed!Answered(events, m)
        /\ \A kind, m : Reported(events, kind, m) <=> Feed!Reported(events, kind, m)
    BY DEF Answered, Feed!Answered, Reported, Feed!Reported
  <1>3. UnderWay(events) = Feed!UnderWay(events) /\ Turning(events) = Feed!Turning(events)
    BY <1>2 DEF UnderWay, Feed!UnderWay, Turning, Feed!Turning
  <1> QED
    BY <1>1, <1>2, <1>3 DEF Reports, Feed!Reports

LEMMA FeedMoves ==
    ASSUME FeedInv, HostNext
    PROVE  \/ FeedKept
           \/ \E e \in Feed!Possible(Message) :
                 /\ Stage = "open" /\ Stage' = "open" /\ host'.events = Append(host.events, e)
                 /\ host'.acked = host.acked /\ host'.epoch = host.epoch
           \/ /\ Stage = "open" /\ Stage' = "open" /\ host'.epoch = host.epoch + 1
              /\ host'.events = host.events /\ host'.acked = host.acked
           \/ \E n \in 1..Len(host.events) :
                 /\ Stage = "open" /\ Stage' = "open" /\ 0 < host.epoch
                 /\ host.acked < n /\ host'.acked = n
                 /\ host'.events = host.events /\ host'.epoch = host.epoch
           \/ /\ Stage = "open" /\ Stage' \in {"exited", "gone"}
              /\ host'.events = host.events /\ host'.acked = host.acked
              /\ host'.epoch = host.epoch
  <1>1. HostTypeOK /\ SealedAtEnd /\ AnsweredKnown /\ HandedKnown /\ Granted /\ GoneIsIdle
        /\ Grows /\ HostTypeOK'
    BY TypesStep DEF FeedInv, CommandInv
  <1>2. host \in HostState /\ Parts /\ Len(host.events) \in Nat
    BY <1>1, PartsAreTypes, LenProperties DEF Parts, HostState
  <1>3. ASSUME NEW c \in Client, NEW expected \in 0..MaxEpoch, ClaimOwner(c, expected)
        PROVE  FeedKept
               \/ /\ Stage = "open" /\ Stage' = "open" /\ host'.epoch = host.epoch + 1
                  /\ host'.events = host.events /\ host'.acked = host.acked
    <2>1. /\ \/ host'.epoch = host.epoch
             \/ host'.epoch = host.epoch + 1
          /\ host'.events = host.events /\ host'.acked = host.acked
          /\ host'.phase = host.phase /\ host.phase = "serving" /\ receipt' = receipt
      BY <1>2, <1>3 DEF ClaimOwner, HostState, Serving
    <2>2. Stage = "open" /\ Stage' = "open"
      BY <2>1 DEF Stage
    <2> QED
      BY <2>1, <2>2 DEF FeedKept
  <1>4. ASSUME \/ \E c \in Client, m \in Message, b \in Body : ReceiveCommand(c, m, b)
               \/ \E call \in calls : ReserveCapacity(call) \/ RejectCommand(call)
        PROVE  FeedKept
    <2>1. journal' = journal /\ receipt' = receipt /\ host' = host
      BY <1>4 DEF ReceiveCommand, ReserveCapacity, RejectCommand
    <2>2. Confirmed' = Confirmed
      BY <2>1, SameConfirmed
    <2> QED
      BY <2>1, <2>2 DEF FeedKept, Stage
  <1>5. ASSUME NEW call \in calls, DeliverCommand(call) \/ ReportDelivered(call)
        PROVE  FeedKept
    <2>1. /\ host'.events = host.events /\ host'.acked = host.acked
          /\ host'.epoch = host.epoch /\ host'.phase = host.phase /\ receipt' = receipt
      BY <1>2, <1>5 DEF DeliverCommand, ReportDelivered, HostState
    <2>2. host.phase # "gone"
      BY <1>1 DEF GoneIsIdle
    <2>3. Stage' = Stage
      BY <1>1, <2>1, <2>2, StageKept
    <2> QED
      BY <2>1, <2>3 DEF FeedKept
  <1>6. ASSUME NEW call \in calls, FailCommand(call)
        PROVE  FeedKept \/ \E e \in Feed!Possible(Message) :
                 /\ Stage = "open" /\ Stage' = "open" /\ host'.events = Append(host.events, e)
                 /\ host'.acked = host.acked /\ host'.epoch = host.epoch
    <2> DEFINE e == [kind |-> "undelivered", msg |-> call.msg]
    <2>1. /\ call.msg \in Message /\ host.commands[call.msg] = None
          /\ host' = host \/ (SameElse(host', host) /\ Shows(e, MaxEvent))
          /\ receipt' = receipt
      BY <1>1, <1>6, FailStep DEF Undelivers, FailCommand
    <2>2. host'.acked = host.acked /\ host'.epoch = host.epoch /\ host'.phase = host.phase
      BY <2>1 DEF SameElse
    <2>3. host.phase # "gone"
      BY <1>1 DEF GoneIsIdle
    <2>4. Stage' = Stage /\ (Stage # "open" => host' = host)
      BY <1>1, <2>1, <2>2, <2>3, StageKept
    <2>5. e \in Feed!Possible(Message)
      <3>1. ~Answered(host.events, call.msg)
        BY <1>1, <2>1 DEF AnsweredKnown
      <3> QED
        BY <2>1, <3>1 DEF Feed!Possible, Feed!Answered, Feed!Reported, Answered, Reported
    <2> HIDE DEF e
    <2>6. CASE host'.events = host.events
      BY <2>2, <2>4, <2>6 DEF FeedKept
    <2>7. CASE host'.events # host.events
      <3>1. host'.events = Append(host.events, e) /\ Stage = "open"
        BY <2>1, <2>4, <2>7 DEF Shows
      <3> QED
        BY <2>2, <2>4, <2>5, <3>1
    <2> QED
      BY <2>6, <2>7
  <1>7. ASSUME NEW c \in Client, NEW n \in 1..MaxEvent, AckEvents(c, n)
        PROVE  FeedKept \/ \E m \in 1..Len(host.events) :
                 /\ Stage = "open" /\ Stage' = "open" /\ 0 < host.epoch
                 /\ host.acked < m /\ host'.acked = m
                 /\ host'.events = host.events /\ host'.epoch = host.epoch
    <2>1. /\ host'.acked = host.acked \/ host'.acked = n
          /\ host'.events = host.events /\ host'.epoch = host.epoch
          /\ host'.phase = host.phase /\ host.phase = "serving"
          /\ host.acked < n /\ n \in 1..Len(host.events)
      BY <1>2, <1>7 DEF AckEvents, HostState, Serving, Acknowledgeable
    <2>2. 0 < host.epoch
      BY <1>1, <1>7 DEF AckEvents, Owns, Granted
    <2>3. Stage = "open" /\ Stage' = "open"
      BY <2>1 DEF Stage
    <2> QED
      BY <2>1, <2>2, <2>3 DEF FeedKept
  <1>8. ASSUME NEW e \in Reports(host.events, {m \in Message : Handed(m)}), RecordEvent(e)
        PROVE  FeedKept \/ \E r \in Feed!Possible(Message) :
                 /\ Stage = "open" /\ Stage' = "open" /\ host'.events = Append(host.events, r)
                 /\ host'.acked = host.acked /\ host'.epoch = host.epoch
    <2>1. /\ Shows(e, MaxEvent) /\ host'.epoch = host.epoch /\ host'.acked = host.acked
          /\ host.phase = "serving" /\ host'.phase = host.phase
      BY <1>1, <1>8, EventTypes, ReportTypes
    <2>2. Stage = "open" /\ Stage' = "open"
      BY <2>1 DEF Stage
    <2>3. e \in Feed!Possible(Message)
      BY FeedReports DEF Feed!Possible
    <2> QED
      BY <2>1, <2>2, <2>3 DEF Shows, FeedKept
  <1>9. ASSUME AdapterEnds \/ RecorderEnds \/ StopServing
        PROVE  FeedKept
    <2>1. /\ host'.events = host.events /\ host'.acked = host.acked /\ host'.epoch = host.epoch
          /\ host.phase = "serving" /\ host'.phase \in {"serving", "closing"}
      BY <1>2, <1>9 DEF AdapterEnds, RecorderEnds, StopServing, HostState
    <2> QED
      BY <2>1 DEF Stage, FeedKept
  <1>10. ASSUME HostDies \/ \E exited \in BOOLEAN : WriteReceipt(exited)
         PROVE  /\ Stage = "open" /\ Stage' \in {"exited", "gone"}
                /\ host'.events = host.events /\ host'.acked = host.acked
                /\ host'.epoch = host.epoch
    <2>1. /\ host'.events = host.events /\ host'.acked = host.acked /\ host'.epoch = host.epoch
          /\ host.phase \in {"serving", "closing"} /\ host'.phase \in {"exited", "gone"}
      BY <1>2, <1>10 DEF HostDies, WriteReceipt, Sealed, HostState
    <2> QED
      BY <2>1 DEF Stage
  <1> QED
    BY <1>3, <1>4, <1>5, <1>6, <1>7, <1>8, <1>9, <1>10 DEF HostNext

\* The host with its journal, its failing disk and its unfinished requests is
\* the feed its connections rely on (runtime_host.rs:789-1139).
THEOREM HostIsTheFeed == HostSpec => FeedImplemented
  <1>1. HostInit => Feed!FeedInit
    BY DEF HostInit, Feed!FeedInit
  <1>2. FeedInv /\ [HostNext]_hostVars => [Feed!FeedNext]_(Feed!feed)
    <2> SUFFICES ASSUME FeedInv, [HostNext]_hostVars
                 PROVE  [Feed!FeedNext]_(Feed!feed)
      OBVIOUS
    <2>1. CASE UNCHANGED hostVars
      <3>1. Confirmed' = Confirmed
        BY <2>1, SameConfirmed DEF hostVars
      <3> QED
        BY <2>1, <3>1 DEF hostVars, Feed!feed
    <2>2. FeedKept => UNCHANGED Feed!feed
      BY DEF FeedKept, Stage, Feed!feed
    <2>3. ASSUME NEW e \in Feed!Possible(Message),
                 Stage = "open", Stage' = "open", host'.events = Append(host.events, e),
                 host'.acked = host.acked, host'.epoch = host.epoch
          PROVE  Feed!FeedNext
      BY <2>3 DEF Stage, Feed!FeedNext, Feed!Report
    <2>4. ASSUME Stage = "open", Stage' = "open", host'.epoch = host.epoch + 1,
                 host'.events = host.events, host'.acked = host.acked
          PROVE  Feed!FeedNext
      BY <2>4 DEF Stage, Feed!FeedNext, Feed!Claim
    <2>5. ASSUME NEW n \in 1..Len(host.events),
                 Stage = "open", Stage' = "open", 0 < host.epoch, host.acked < n,
                 host'.acked = n, host'.events = host.events, host'.epoch = host.epoch
          PROVE  Feed!FeedNext
      BY <2>5 DEF Stage, Feed!FeedNext, Feed!Acknowledge
    <2>6. ASSUME Stage = "open", Stage' \in {"exited", "gone"}, host'.events = host.events,
                 host'.acked = host.acked, host'.epoch = host.epoch
          PROVE  Feed!FeedNext
      BY <2>6 DEF Stage, Feed!FeedNext, Feed!Close
    <2> QED
      BY <2>1, <2>2, <2>3, <2>4, <2>5, <2>6, FeedMoves
  <1>3. FeedInv /\ [HostNext]_hostVars => FeedInv'
    BY FeedInvStep
  <1> QED
    BY <1>1, <1>2, <1>3, FeedInvInit, PTL DEF HostSpec, FeedImplemented, Feed!FeedSpec

-----------------------------------------------------------------------------
(* What a journal tells *)

\* Chained, of any records.
Untorn(records) ==
    \A i \in DOMAIN records : records[i].seq = i /\ records[i].entry.kind # "torn"

\* Whoever reads the records arrives at this state.
Tells(records, state) ==
    /\ ShowsEvents(records, state.events)
    /\ ShowsAck(records, state.acked) /\ AcksInOrder(records)
    /\ \A m \in Message : ShowsStatus(records, m, state.commands[m])

\* The state after one more entry.
Follows(new, old, entry) ==
    /\ new.events = IF entry.kind = "event" THEN Append(old.events, entry.event) ELSE old.events
    /\ new.acked = IF entry.kind = "ack" THEN entry.through ELSE old.acked
    /\ new.commands = IF entry.kind \in {"command", "status"}
                      THEN [old.commands EXCEPT ![entry.msg] = entry.status]
                      ELSE old.commands
    /\ entry.kind = "ack" => old.acked <= entry.through /\ entry.through <= Len(old.events)

\* A sequence and one element more.
LEMMA OneMore ==
    ASSUME NEW S, NEW records \in Seq(S), NEW r \in S
    PROVE  /\ Append(records, r) \in Seq(S)
           /\ Len(records) \in Nat /\ DOMAIN records = 1..Len(records)
           /\ DOMAIN Append(records, r) = 1..(Len(records) + 1)
           /\ \A i \in 1..Len(records) : Append(records, r)[i] = records[i]
           /\ Append(records, r)[Len(records) + 1] = r
  BY AppendProperties, LenProperties

\* The numbers of the records of a kind, after one record more.
LEMMA OfOneMore ==
    ASSUME NEW records \in Seq(Record), NEW r \in Record, NEW kind
    PROVE  /\ Of(records, kind) \subseteq 1..Len(records)
           /\ Of(Append(records, r), kind) =
                  IF r.entry.kind = kind THEN Of(records, kind) \cup {Len(records) + 1}
                  ELSE Of(records, kind)
  <1> DEFINE len == Len(records)
             more == Append(records, r)
  <1>1. /\ len \in Nat /\ DOMAIN records = 1..len /\ DOMAIN more = 1..(len + 1)
        /\ \A i \in 1..len : more[i] = records[i]
        /\ more[len + 1] = r
    BY OneMore
  <1> HIDE DEF len, more
  <1>2. Of(records, kind) \subseteq 1..len
    BY <1>1 DEF Of
  <1>3. \A i : i \in 1..(len + 1) <=> i \in 1..len \/ i = len + 1
    BY <1>1
  <1>4. Of(more, kind) = {i \in 1..(len + 1) : more[i].entry.kind = kind}
    BY <1>1 DEF Of
  <1>5. Of(records, kind) = {i \in 1..len : records[i].entry.kind = kind}
    BY <1>1 DEF Of
  <1>6. Of(more, kind) =
            IF r.entry.kind = kind THEN Of(records, kind) \cup {len + 1} ELSE Of(records, kind)
    BY <1>1, <1>3, <1>4, <1>5
  <1> QED
    BY <1>2, <1>6 DEF len, more

\* Counting in a set of record numbers.
LEMMA Counted ==
    ASSUME NEW len \in Nat, NEW at \in SUBSET (1..len)
    PROVE  /\ IsFiniteSet(at) /\ Cardinality(at) \in Nat
           /\ Cardinality(at \cup {len + 1}) = Cardinality(at) + 1
           /\ {j \in at \cup {len + 1} : j <= len + 1} = at \cup {len + 1}
           /\ \A i \in at :
                 /\ {j \in at \cup {len + 1} : j <= i} = {j \in at : j <= i}
                 /\ Cardinality({j \in at : j <= i}) \in 1..Cardinality(at)
  <1>1. IsFiniteSet(1..len)
    BY FS_Interval
  <1>2. IsFiniteSet(at) /\ Cardinality(at) \in Nat
    BY <1>1, FS_Subset, FS_CardinalityType
  <1>3. len + 1 \notin at
    OBVIOUS
  <1>4. Cardinality(at \cup {len + 1}) = Cardinality(at) + 1
    BY <1>2, <1>3, FS_AddElement
  <1>5. ASSUME NEW i \in at
        PROVE  /\ {j \in at \cup {len + 1} : j <= i} = {j \in at : j <= i}
               /\ Cardinality({j \in at : j <= i}) \in 1..Cardinality(at)
    <2> DEFINE upTo == {j \in at : j <= i}
    <2>1. upTo \subseteq at /\ i \in upTo
      OBVIOUS
    <2>2. {j \in at \cup {len + 1} : j <= i} = upTo
      OBVIOUS
    <2> HIDE DEF upTo
    <2>3. IsFiniteSet(upTo) /\ Cardinality(upTo) \in Nat /\ Cardinality(upTo) <= Cardinality(at)
      BY <1>2, <2>1, FS_Subset, FS_CardinalityType
    <2>4. Cardinality(upTo) # 0
      BY <2>1, <2>3, FS_EmptySet
    <2>5. Cardinality(upTo) \in 1..Cardinality(at)
      BY <1>2, <2>3, <2>4
    <2> QED
      BY <2>2, <2>5 DEF upTo
  <1>6. {j \in at \cup {len + 1} : j <= len + 1} = at \cup {len + 1}
    <2>1. \A j \in at \cup {len + 1} : j <= len + 1
      OBVIOUS
    <2> QED
      BY <2>1
  <1> QED
    BY <1>2, <1>4, <1>5, <1>6

\* What a reader learns from one record more: of the events,
LEMMA EventsOneMore ==
    ASSUME NEW records \in Seq(Record), NEW r \in Record,
           NEW events \in Seq(Event), ShowsEvents(records, events),
           r.entry.kind = "event" => r.entry.event \in Event
    PROVE  ShowsEvents(Append(records, r),
               IF r.entry.kind = "event" THEN Append(events, r.entry.event) ELSE events)
  <1> DEFINE len == Len(records)
             more == Append(records, r)
             at == Of(records, "event")
             upTo(i) == {j \in at : j <= i}
  <1>1. /\ len \in Nat
        /\ \A i \in 1..len : more[i] = records[i]
        /\ more[len + 1] = r
    BY OneMore
  <1>2. /\ at \subseteq 1..len
        /\ Of(more, "event") = IF r.entry.kind = "event" THEN at \cup {len + 1} ELSE at
    BY OfOneMore
  <1>3. Len(events) = Cardinality(at) /\ \A i \in at : events[Cardinality(upTo(i))] = records[i].entry.event
    BY DEF ShowsEvents
  <1> HIDE DEF len, more, at
  <1>4. CASE r.entry.kind # "event"
    <2>1. Of(more, "event") = at
      BY <1>2, <1>4
    <2>2. \A i \in at : events[Cardinality(upTo(i))] = more[i].entry.event
      BY <1>1, <1>2, <1>3
    <2>3. ShowsEvents(more, events)
      BY <1>3, <2>1, <2>2 DEF ShowsEvents
    <2> QED
      BY <1>4, <2>3 DEF more
  <1>5. CASE r.entry.kind = "event"
    <2> DEFINE longer == Append(events, r.entry.event)
               all == at \cup {len + 1}
    <2>1. /\ Len(events) \in Nat /\ Len(longer) = Len(events) + 1
          /\ \A i \in 1..Len(events) : longer[i] = events[i]
          /\ longer[Len(events) + 1] = r.entry.event
      BY <1>5, AppendProperties, LenProperties
    <2>2. /\ Cardinality(all) = Cardinality(at) + 1
          /\ {j \in all : j <= len + 1} = all
          /\ \A i \in at : {j \in all : j <= i} = upTo(i)
                            /\ Cardinality(upTo(i)) \in 1..Cardinality(at)
      BY <1>1, <1>2, Counted
    <2>3. Of(more, "event") = all
      BY <1>2, <1>5
    <2> HIDE DEF longer, upTo
    <2>4. ASSUME NEW i \in at
          PROVE  longer[Cardinality({j \in all : j <= i})] = more[i].entry.event
      <3>1. {j \in all : j <= i} = upTo(i) /\ Cardinality(upTo(i)) \in 1..Len(events)
        BY <1>3, <2>2
      <3>2. longer[Cardinality(upTo(i))] = events[Cardinality(upTo(i))]
        BY <2>1, <3>1
      <3>3. more[i] = records[i]
        BY <1>1, <1>2
      <3> QED
        BY <1>3, <3>1, <3>2, <3>3
    <2>5. longer[Cardinality({j \in all : j <= len + 1})] = more[len + 1].entry.event
      BY <1>1, <1>3, <2>1, <2>2
    <2>6. \A i \in all : longer[Cardinality({j \in all : j <= i})] = more[i].entry.event
      BY <2>4, <2>5
    <2>7. Len(longer) = Cardinality(all)
      BY <1>3, <2>1, <2>2
    <2> HIDE DEF all
    <2>8. ShowsEvents(more, longer)
      BY <2>3, <2>6, <2>7 DEF ShowsEvents
    <2> QED
      BY <1>5, <2>8 DEF longer, more
  <1> QED
    BY <1>4, <1>5 DEF more

\* of the acknowledgement,
LEMMA AckOneMore ==
    ASSUME NEW records \in Seq(Record), NEW r \in Record, NEW acked, ShowsAck(records, acked)
    PROVE  ShowsAck(Append(records, r), IF r.entry.kind = "ack" THEN r.entry.through ELSE acked)
  <1> DEFINE len == Len(records)
             more == Append(records, r)
             at == Of(records, "ack")
  <1>1. /\ len \in Nat
        /\ \A i \in 1..len : more[i] = records[i]
        /\ more[len + 1] = r
    BY OneMore
  <1>2. /\ at \subseteq 1..len
        /\ Of(more, "ack") = IF r.entry.kind = "ack" THEN at \cup {len + 1} ELSE at
    BY OfOneMore
  <1>3. \/ at = {} /\ acked = 0
        \/ \E i \in at : IsLast(i, at) /\ records[i].entry.through = acked
    BY DEF ShowsAck
  <1> HIDE DEF len, more, at
  <1>4. CASE r.entry.kind # "ack"
    <2>1. ASSUME NEW i \in at, IsLast(i, at), records[i].entry.through = acked
          PROVE  IsLast(i, Of(more, "ack")) /\ more[i].entry.through = acked
      BY <1>1, <1>2, <1>4, <2>1
    <2>2. Of(more, "ack") = at
      BY <1>2, <1>4
    <2>3. ShowsAck(more, acked)
      BY <1>3, <2>1, <2>2 DEF ShowsAck
    <2> QED
      BY <1>4, <2>3 DEF more
  <1>5. CASE r.entry.kind = "ack"
    <2>1. Of(more, "ack") = at \cup {len + 1}
      BY <1>2, <1>5
    <2>2. IsLast(len + 1, at \cup {len + 1})
      BY <1>1, <1>2 DEF IsLast
    <2>3. ShowsAck(more, r.entry.through)
      BY <1>1, <2>1, <2>2 DEF ShowsAck
    <2> QED
      BY <1>5, <2>3 DEF more
  <1> QED
    BY <1>4, <1>5

\* which is of events that precede it,
LEMMA OrderOneMore ==
    ASSUME NEW records \in Seq(Record), NEW r \in Record, NEW events, NEW acked,
           ShowsEvents(records, events), ShowsAck(records, acked), AcksInOrder(records),
           r.entry.kind = "ack" =>
              acked <= r.entry.through /\ r.entry.through <= Len(events)
    PROVE  AcksInOrder(Append(records, r))
  <1> DEFINE len == Len(records)
             more == Append(records, r)
             acks == Of(records, "ack")
             at == Of(records, "event")
  <1>1. /\ len \in Nat
        /\ \A i \in 1..len : more[i] = records[i]
        /\ more[len + 1] = r
    BY OneMore
  <1>2. /\ acks \subseteq 1..len /\ at \subseteq 1..len
        /\ Of(more, "ack") = IF r.entry.kind = "ack" THEN acks \cup {len + 1} ELSE acks
        /\ Of(more, "event") = IF r.entry.kind = "event" THEN at \cup {len + 1} ELSE at
    BY OfOneMore
  <1>3. Len(events) = Cardinality(at)
    BY DEF ShowsEvents
  <1>4. \A i \in acks : records[i].entry.through \in Nat
    <2>1. \A i \in acks : records[i] \in Record /\ records[i].entry.kind = "ack"
      BY <1>2, ElementOfSeq DEF Of
    <2> QED
      BY <2>1 DEF Record, Entry
  <1>5. r.entry.kind = "ack" => r.entry.through \in Nat
    BY DEF Record, Entry
  <1>6. \A i \in acks :
            /\ records[i].entry.through <= Cardinality({j \in at : j < i})
            /\ \A j \in acks : j < i => records[j].entry.through <= records[i].entry.through
    BY DEF AcksInOrder
  <1>7. \/ acks = {}
        \/ \E i \in acks : IsLast(i, acks) /\ records[i].entry.through = acked
    BY DEF ShowsAck
  <1> HIDE DEF len, more, acks, at
  <1>8. ASSUME NEW i \in acks PROVE records[i].entry.through <= acked
    <2>1. PICK k \in acks : IsLast(k, acks) /\ records[k].entry.through = acked
      BY <1>7
    <2>2. i <= k /\ i \in Nat /\ k \in Nat
      BY <1>1, <1>2, <2>1 DEF IsLast
    <2>3. CASE i = k
      BY <1>4, <2>1, <2>3
    <2>4. CASE i < k
      BY <1>6, <2>1, <2>4
    <2> QED
      BY <2>2, <2>3, <2>4
  <1>9. ASSUME NEW i \in acks PROVE {j \in Of(more, "event") : j < i} = {j \in at : j < i}
    BY <1>1, <1>2
  <1>10. ASSUME NEW i \in acks
         PROVE  /\ more[i].entry.through <= Cardinality({j \in Of(more, "event") : j < i})
                /\ \A j \in acks : j < i => more[j].entry.through <= more[i].entry.through
    BY <1>1, <1>2, <1>6, <1>9
  <1>11. CASE r.entry.kind # "ack"
    <2>1. Of(more, "ack") = acks
      BY <1>2, <1>11
    <2>2. AcksInOrder(more)
      BY <1>10, <2>1 DEF AcksInOrder
    <2> QED
      BY <2>2 DEF more
  <1>12. CASE r.entry.kind = "ack"
    <2>1. Of(more, "ack") = acks \cup {len + 1} /\ Of(more, "event") = at
      BY <1>2, <1>12
    <2>2. {j \in at : j < len + 1} = at
      <3>1. \A j \in at : j < len + 1
        BY <1>1, <1>2
      <3> QED
        BY <3>1
    <2>3. more[len + 1].entry.through <= Cardinality({j \in at : j < len + 1})
      BY <1>1, <1>3, <1>12, <2>2
    <2>4. ASSUME NEW j \in acks PROVE more[j].entry.through <= more[len + 1].entry.through
      <3>1. more[j].entry.through = records[j].entry.through /\ more[len + 1] = r
        BY <1>1, <1>2
      <3>2. records[j].entry.through <= acked /\ acked <= r.entry.through /\ acked \in Nat
        BY <1>4, <1>7, <1>8, <1>12
      <3> QED
        BY <1>4, <1>5, <1>12, <3>1, <3>2
    <2>5. \A i \in acks : ~(len + 1 < i) /\ ~(len + 1 < len + 1)
      BY <1>1, <1>2
    <2>6. AcksInOrder(more)
      <3>1. ASSUME NEW i \in acks \cup {len + 1}
            PROVE  /\ more[i].entry.through <= Cardinality({j \in at : j < i})
                   /\ \A j \in acks \cup {len + 1} :
                         j < i => more[j].entry.through <= more[i].entry.through
        <4>1. CASE i \in acks
          BY <1>10, <2>1, <2>5, <4>1
        <4>2. CASE i = len + 1
          <5>1. ~(len + 1 < len + 1)
            BY <1>1
          <5> QED
            BY <2>3, <2>4, <4>2, <5>1
        <4> QED
          BY <4>1, <4>2
      <3> QED
        BY <2>1, <3>1 DEF AcksInOrder
    <2> QED
      BY <2>6 DEF more
  <1> QED
    BY <1>11, <1>12

\* and of a command.
LEMMA StatusOneMore ==
    ASSUME NEW records \in Seq(Record), NEW r \in Record, NEW m, NEW status,
           ShowsStatus(records, m, status)
    PROVE  ShowsStatus(Append(records, r), m,
               IF r.entry.kind \in {"command", "status"} /\ r.entry.msg = m
               THEN r.entry.status ELSE status)
  <1> DEFINE len == Len(records)
             more == Append(records, r)
             numbers(all) == {i \in Of(all, "command") \cup Of(all, "status") :
                                 all[i].entry.msg = m}
             at == numbers(records)
  <1>1. /\ len \in Nat
        /\ \A i \in 1..len : more[i] = records[i]
        /\ more[len + 1] = r
    BY OneMore
  <1>2. /\ Of(records, "command") \subseteq 1..len /\ Of(records, "status") \subseteq 1..len
        /\ Of(more, "command") = IF r.entry.kind = "command"
                                 THEN Of(records, "command") \cup {len + 1}
                                 ELSE Of(records, "command")
        /\ Of(more, "status") = IF r.entry.kind = "status"
                                THEN Of(records, "status") \cup {len + 1}
                                ELSE Of(records, "status")
    BY OfOneMore
  <1>3. \/ at = {} /\ status = None
        \/ \E i \in at : IsLast(i, at) /\ records[i].entry.status = status
    BY DEF ShowsStatus
  <1> HIDE DEF len, more
  <1>4. at \subseteq 1..len
    BY <1>2
  <1>5. CASE ~(r.entry.kind \in {"command", "status"} /\ r.entry.msg = m)
    <2>1. numbers(more) = at
      BY <1>1, <1>2, <1>5
    <2> HIDE DEF numbers
    <2>2. ASSUME NEW i \in at, IsLast(i, at), records[i].entry.status = status
          PROVE  IsLast(i, numbers(more)) /\ more[i].entry.status = status
      BY <1>1, <1>4, <2>1, <2>2
    <2>3. \/ numbers(more) = {} /\ status = None
          \/ \E i \in numbers(more) : IsLast(i, numbers(more)) /\ more[i].entry.status = status
      BY <1>3, <2>1, <2>2
    <2>4. ShowsStatus(more, m, status)
      BY <2>3 DEF ShowsStatus, numbers
    <2> QED
      BY <1>5, <2>4 DEF more
  <1>6. CASE r.entry.kind \in {"command", "status"} /\ r.entry.msg = m
    <2>1. numbers(more) = at \cup {len + 1}
      BY <1>1, <1>2, <1>6
    <2> HIDE DEF numbers
    <2>2. IsLast(len + 1, at \cup {len + 1})
      BY <1>1, <1>4 DEF IsLast
    <2>3. \E i \in numbers(more) : IsLast(i, numbers(more)) /\ more[i].entry.status = r.entry.status
      BY <1>1, <2>1, <2>2
    <2>4. ShowsStatus(more, m, r.entry.status)
      BY <2>3 DEF ShowsStatus, numbers
    <2> QED
      BY <1>6, <2>4 DEF more
  <1> QED
    BY <1>5, <1>6

\* All of it: the reader follows the writer.
LEMMA ToldFollows ==
    ASSUME NEW records \in Seq(Record), NEW r \in Record, NEW old, NEW new,
           old.events \in Seq(Event), old.commands \in Commands,
           r.entry.kind = "event" => r.entry.event \in Event,
           Tells(records, old), Follows(new, old, r.entry)
    PROVE  Tells(Append(records, r), new)
  <1>1. ShowsEvents(Append(records, r), new.events)
    BY EventsOneMore DEF Tells, Follows
  <1>2. ShowsAck(Append(records, r), new.acked) /\ AcksInOrder(Append(records, r))
    <2>1. ShowsAck(Append(records, r), new.acked)
      BY AckOneMore DEF Tells, Follows
    <2>2. AcksInOrder(Append(records, r))
      BY OrderOneMore DEF Tells, Follows
    <2> QED
      BY <2>1, <2>2
  <1>3. ASSUME NEW m \in Message PROVE ShowsStatus(Append(records, r), m, new.commands[m])
    <2>1. new.commands[m] = IF r.entry.kind \in {"command", "status"} /\ r.entry.msg = m
                            THEN r.entry.status ELSE old.commands[m]
      BY DEF Follows, Commands
    <2>2. ShowsStatus(records, m, old.commands[m])
      BY DEF Tells
    <2> QED
      BY <2>1, <2>2, StatusOneMore
  <1> QED
    BY <1>1, <1>2, <1>3 DEF Tells

-----------------------------------------------------------------------------
(* What the journal tells of the host *)

\* The journal holds what the host has recorded, and nothing else.
Sound == Chained /\ Len(journal) = host.next - 1

\* A write that fails may leave its record behind, or a part of it.  What is
\* written after it can be told from the numbers: only the whole journal of a
\* host whose writes all succeeded is read to its end, or one that a last,
\* unfinished write has made too long by a record.
JournalInv ==
    /\ Chained => Len(journal) \in {host.next - 1, host.next}
    /\ Sound => Tells(journal, host)
    /\ faults = 0 => Sound

\* The receipt is about the journal as the host has closed it.
ReceiptInv ==
    receipt # None =>
        /\ host.phase = "exited" /\ receipt.records = host.next - 1
        /\ receipt.last = Len(host.events) /\ receipt.acked = host.acked

\* Records numbered one after another, and records that are whole.
CountFrom(records, next, k) == \A i \in 1..k : records[i].seq = next + i - 1
Whole(records, k) == \A i \in 1..k : records[i].entry.kind # "torn"

\* Chains put together: the second part has to begin where the first one ends.
LEMMA ChainOfBoth ==
    ASSUME NEW records \in Seq(Record), NEW k \in Nat, NEW extra \in Seq(Record),
           NEW next \in Nat, Len(extra) = k, CountFrom(extra, next, k)
    PROVE  /\ Len(records \o extra) = Len(records) + k
           /\ Untorn(records \o extra) => Untorn(records)
           /\ Untorn(records \o extra) /\ k > 0 => Len(records) = next - 1
           /\ Untorn(records) /\ Len(records) = next - 1 /\ Whole(extra, k)
                 => Untorn(records \o extra)
  <1> DEFINE len == Len(records)
             both == records \o extra
  <1>1. /\ len \in Nat /\ Len(both) = len + k /\ DOMAIN both = 1..(len + k)
        /\ DOMAIN records = 1..len
        /\ \A i \in 1..len : both[i] = records[i]
        /\ \A i \in 1..k : both[len + i] = extra[i]
    <2>1. /\ both \in Seq(Record) /\ Len(both) = len + k
          /\ \A i \in 1..(len + k) :
                both[i] = IF i <= len THEN records[i] ELSE extra[i - len]
      BY ConcatProperties
    <2>2. len \in Nat /\ DOMAIN records = 1..len /\ DOMAIN both = 1..(len + k)
      BY <2>1, LenProperties
    <2> HIDE DEF len, both
    <2>3. \A i \in 1..len : i \in 1..(len + k) /\ i <= len
      BY <2>2
    <2>4. ASSUME NEW i \in 1..k PROVE both[len + i] = extra[i]
      <3>1. len + i \in 1..(len + k) /\ ~(len + i <= len) /\ (len + i) - len = i
        BY <2>2
      <3> QED
        BY <2>1, <3>1
    <2> QED
      BY <2>1, <2>2, <2>3, <2>4
  <1> HIDE DEF len, both
  <1>2. ASSUME Untorn(both) PROVE Untorn(records) /\ (k > 0 => len = next - 1)
    <2>1. Untorn(records)
      BY <1>1, <1>2 DEF Untorn
    <2>2. ASSUME k > 0 PROVE len = next - 1
      <3>1. 1 \in 1..k /\ len + 1 \in 1..(len + k)
        BY <1>1, <2>2
      <3>2. both[len + 1].seq = len + 1 /\ both[len + 1] = extra[1]
        BY <1>1, <1>2, <3>1 DEF Untorn
      <3>3. extra[1].seq = next
        BY <3>1 DEF CountFrom
      <3> QED
        BY <1>1, <3>2, <3>3
    <2> QED
      BY <2>1, <2>2
  <1>3. ASSUME Untorn(records), len = next - 1, Whole(extra, k)
        PROVE  Untorn(both)
    <2>1. ASSUME NEW i \in 1..(len + k) PROVE both[i].seq = i /\ both[i].entry.kind # "torn"
      <3>1. CASE i \in 1..len
        BY <1>1, <1>3, <3>1 DEF Untorn
      <3>2. CASE i \notin 1..len
        <4> DEFINE j == i - len
        <4>1. j \in 1..k /\ i = len + j
          BY <1>1, <3>2
        <4> HIDE DEF j
        <4>2. both[i] = extra[j] /\ extra[j].seq = next + j - 1
          BY <1>1, <4>1 DEF CountFrom
        <4> QED
          BY <1>1, <1>3, <4>1, <4>2 DEF Whole
      <3> QED
        BY <3>1, <3>2
    <2> QED
      BY <1>1, <2>1 DEF Untorn
  <1> QED
    BY <1>1, <1>2, <1>3 DEF len, both

\* What the numbers tell of a write.
LEMMA WrittenChain ==
    ASSUME HostTypeOK, NEW entries \in Seq(Entry), NEW n \in Nat, Written(entries, n),
           \A i \in 1..Len(entries) : entries[i].kind # "torn"
    PROVE  \E k \in {n, n + 1} :
              /\ k = n => journal' = journal \o Numbered(entries, n)
              /\ faults' = 0 => faults = 0 /\ k = n
              /\ Len(journal') = Len(journal) + k
              /\ Chained' => Chained /\ (k > 0 => Len(journal) = host.next - 1)
              /\ Sound /\ k = n => Chained'
  <1>1. /\ host.next \in Nat \ {0} /\ journal \in Seq(Record) /\ Len(entries) \in Nat
        /\ faults \in Nat /\ n <= Len(entries)
    BY LenProperties DEF HostTypeOK, Written
  <1>2. \A i \in 1..n : entries[i] \in Entry /\ entries[i].kind # "torn"
    BY <1>1, ElementOfSeq
  <1>3. ASSUME NEW k \in Nat, NEW cut, \A i \in 1..k : cut[i] \in Entry
        PROVE  /\ Numbered(cut, k) \in Seq(Record) /\ Len(Numbered(cut, k)) = k
               /\ CountFrom(Numbered(cut, k), host.next, k)
               /\ \A i \in 1..k : Numbered(cut, k)[i].entry = cut[i]
    <2>1. Numbered(cut, k) \in Seq(Record)
      BY <1>1, <1>3, NumberedTypes
    <2>2. Len(Numbered(cut, k)) = k
      BY <2>1, LenProperties DEF Numbered
    <2> QED
      BY <2>1, <2>2 DEF Numbered, CountFrom
  <1>4. ASSUME NEW k \in Nat, NEW extra \in Seq(Record), Len(extra) = k,
               CountFrom(extra, host.next, k), journal' = journal \o extra
        PROVE  /\ Len(journal') = Len(journal) + k
               /\ Chained' => Chained /\ (k > 0 => Len(journal) = host.next - 1)
               /\ Sound /\ Whole(extra, k) => Chained'
    <2> DEFINE next == host.next
    <2>1. next \in Nat /\ CountFrom(extra, next, k) /\ journal \in Seq(Record)
      BY <1>1, <1>4
    <2> HIDE DEF next
    <2>2. /\ Len(journal \o extra) = Len(journal) + k
          /\ Untorn(journal \o extra) => Untorn(journal)
          /\ Untorn(journal \o extra) /\ k > 0 => Len(journal) = next - 1
          /\ Untorn(journal) /\ Len(journal) = next - 1 /\ Whole(extra, k)
                => Untorn(journal \o extra)
      BY <1>4, <2>1, ChainOfBoth
    <2>3. (Chained <=> Untorn(journal)) /\ (Chained' <=> Untorn(journal'))
      BY DEF Chained, Untorn
    <2> QED
      BY <1>4, <2>2, <2>3 DEF Sound, next
  <1>5. ASSUME n < Len(entries), faults' = faults + 1,
               NEW rest \in {<<>>, <<entries[n + 1]>>, <<[kind |-> "torn"]>>},
               journal' = journal \o
                   Numbered(SubSeq(entries, 1, n) \o rest, n + Len(rest))
        PROVE  \E k \in {n, n + 1} :
                 /\ k = n => journal' = journal \o Numbered(entries, n)
                 /\ Len(journal') = Len(journal) + k
                 /\ Chained' => Chained /\ (k > 0 => Len(journal) = host.next - 1)
                 /\ Sound /\ k = n => Chained'
    <2> DEFINE cut == SubSeq(entries, 1, n) \o rest
               k == n + Len(rest)
               extra == Numbered(cut, k)
    <2>1. n + 1 \in 1..Len(entries) /\ entries[n + 1] \in Entry
      BY <1>1, <1>5, ElementOfSeq
    <2>2. [kind |-> "torn"] \in Entry
      BY DEF Entry
    <2>3. rest \in Seq(Entry) /\ Len(rest) \in {0, 1}
      BY <2>1, <2>2, Singleton, EmptySeq
    <2>4. /\ SubSeq(entries, 1, n) \in Seq(Entry) /\ Len(SubSeq(entries, 1, n)) = n
          /\ \A i \in 1..n : SubSeq(entries, 1, n)[i] = entries[i]
      BY <1>1, <1>2, SubSeqProperties
    <2>5. /\ cut \in Seq(Entry) /\ Len(cut) = k
          /\ \A i \in 1..n : cut[i] = entries[i]
      BY <2>3, <2>4, ConcatProperties
    <2>6. k \in {n, n + 1} /\ k \in Nat
      <3> DEFINE len == Len(rest)
      <3>1. len \in {0, 1} /\ k = n + len
        BY <2>3
      <3> HIDE DEF len, k
      <3> QED
        BY <3>1
    <2>7. \A i \in 1..k : cut[i] \in Entry
      BY <2>5, ElementOfSeq
    <2>8. journal' = journal \o extra
      BY <1>5
    <2> HIDE DEF cut, k
    <2>9. /\ extra \in Seq(Record) /\ Len(extra) = k /\ CountFrom(extra, host.next, k)
          /\ \A i \in 1..k : extra[i].entry = cut[i]
      BY <1>3, <2>6, <2>7
    <2>10. k = n => extra = Numbered(entries, n)
      BY <2>5 DEF Numbered
    <2>11. k = n => Whole(extra, k)
      BY <1>2, <2>5, <2>9 DEF Whole
    <2> HIDE DEF extra
    <2>12. /\ Len(journal') = Len(journal) + k
           /\ Chained' => Chained /\ (k > 0 => Len(journal) = host.next - 1)
           /\ Sound /\ Whole(extra, k) => Chained'
      BY <1>4, <2>6, <2>8, <2>9
    <2> QED
      BY <2>6, <2>8, <2>10, <2>11, <2>12
  <1>6. \/ journal' = journal \o Numbered(entries, n) /\ faults' = faults
        \/ /\ n < Len(entries) /\ faults' = faults + 1
           /\ \E rest \in {<<>>, <<entries[n + 1]>>, <<[kind |-> "torn"]>>} :
                 journal' = journal \o
                     Numbered(SubSeq(entries, 1, n) \o rest, n + Len(rest))
    <2>1. n # Len(entries) => n < Len(entries)
      BY <1>1
    <2> QED
      BY <2>1 DEF Written
  <1>7. CASE journal' = journal \o Numbered(entries, n) /\ faults' = faults
    <2> DEFINE extra == Numbered(entries, n)
    <2>1. /\ extra \in Seq(Record) /\ Len(extra) = n /\ CountFrom(extra, host.next, n)
          /\ Whole(extra, n)
      BY <1>2, <1>3 DEF Whole
    <2>2. journal' = journal \o extra
      BY <1>7
    <2> HIDE DEF extra
    <2>3. /\ Len(journal') = Len(journal) + n
          /\ Chained' => Chained /\ (n > 0 => Len(journal) = host.next - 1)
          /\ Sound => Chained'
      BY <1>4, <2>1, <2>2
    <2> QED
      BY <1>7, <2>3
  <1>8. CASE /\ n < Len(entries) /\ faults' = faults + 1
             /\ \E rest \in {<<>>, <<entries[n + 1]>>, <<[kind |-> "torn"]>>} :
                   journal' = journal \o
                       Numbered(SubSeq(entries, 1, n) \o rest, n + Len(rest))
    <2>1. faults' # 0
      BY <1>1, <1>8
    <2> QED
      BY <1>5, <1>8, <2>1
  <1> QED
    BY <1>6, <1>7, <1>8

\* A write keeps the journal true if the new state is what its entries say.
LEMMA WrittenTells ==
    ASSUME HostTypeOK, JournalInv, NEW entries \in Seq(Entry), NEW n \in Nat,
           Written(entries, n), \A i \in 1..Len(entries) : entries[i].kind # "torn",
           host'.next = host.next + n,
           Tells(journal, host) => Tells(journal \o Numbered(entries, n), host')
    PROVE  JournalInv'
  <1>1. PICK k \in {n, n + 1} :
              /\ k = n => journal' = journal \o Numbered(entries, n)
              /\ faults' = 0 => faults = 0 /\ k = n
              /\ Len(journal') = Len(journal) + k
              /\ Chained' => Chained /\ (k > 0 => Len(journal) = host.next - 1)
              /\ Sound /\ k = n => Chained'
    BY WrittenChain
  <1>2. host.next \in Nat /\ Len(journal) \in Nat
    BY LenProperties DEF HostTypeOK
  <1>3. ASSUME Chained' PROVE Len(journal') \in {host'.next - 1, host'.next}
    <2>1. Chained /\ Len(journal) \in {host.next - 1, host.next}
      BY <1>1, <1>3 DEF JournalInv
    <2> DEFINE next == host.next
               old == Len(journal)
    <2>2. /\ next \in Nat /\ old \in {next - 1, next} /\ (k > 0 => old = next - 1)
          /\ Len(journal') = old + k /\ host'.next = next + n
      BY <1>1, <1>2, <1>3, <2>1
    <2> HIDE DEF next, old
    <2>3. k = n => Len(journal') \in {host'.next - 1, host'.next}
      BY <2>2
    <2>4. k = n + 1 => Len(journal') \in {host'.next - 1, host'.next}
      BY <2>2
    <2> QED
      BY <2>3, <2>4
  <1>4. ASSUME Sound' PROVE Tells(journal', host')
    <2>1. Chained' /\ Len(journal') = host'.next - 1
      BY <1>4 DEF Sound
    <2>2. k = n /\ Len(journal) = host.next - 1
      BY <1>1, <1>2, <2>1
    <2>3. Tells(journal, host)
      BY <1>1, <2>1, <2>2 DEF JournalInv, Sound
    <2> QED
      BY <1>1, <2>2, <2>3
  <1>5. ASSUME faults' = 0 PROVE Sound'
    <2>1. Sound /\ k = n
      BY <1>1, <1>5 DEF JournalInv
    <2>2. Len(journal') = host'.next - 1
      BY <1>1, <1>2, <2>1 DEF Sound
    <2> QED
      BY <1>1, <2>1, <2>2 DEF Sound
  <1>6. Tells(journal, host)' = Tells(journal', host')
    BY DEF Tells, ShowsEvents, ShowsAck, AcksInOrder, ShowsStatus, Of, IsLast
  <1> QED
    BY <1>3, <1>4, <1>5, <1>6 DEF JournalInv

\* Each entry of a write is one more record.
LEMMA NumberedOneMore ==
    ASSUME HostTypeOK, NEW entries \in Seq(Entry), NEW n \in Nat, n < Len(entries)
    PROVE  /\ journal \o Numbered(entries, n) \in Seq(Record)
           /\ [seq |-> host.next + n, entry |-> entries[n + 1]] \in Record
           /\ journal \o Numbered(entries, n + 1) =
                 Append(journal \o Numbered(entries, n),
                        [seq |-> host.next + n, entry |-> entries[n + 1]])
  <1> DEFINE r == [seq |-> host.next + n, entry |-> entries[n + 1]]
             some == Numbered(entries, n)
             more == Numbered(entries, n + 1)
  <1>1. host.next \in Nat \ {0} /\ journal \in Seq(Record) /\ Len(entries) \in Nat
    BY LenProperties DEF HostTypeOK
  <1>2. \A i \in 1..(n + 1) : entries[i] \in Entry
    BY <1>1, ElementOfSeq
  <1>3. some \in Seq(Record) /\ more \in Seq(Record)
    BY <1>1, <1>2, NumberedTypes
  <1>4. Len(some) = n /\ Len(more) = n + 1
    BY <1>3, LenProperties DEF Numbered
  <1>5. r \in Record
    BY <1>1, <1>2 DEF Record
  <1>6. (\A i \in 1..n : more[i] = some[i]) /\ more[n + 1] = r
    <2>1. host.next + (n + 1) - 1 = host.next + n
      BY <1>1
    <2> QED
      BY <2>1 DEF Numbered
  <1> HIDE DEF some, more, r
  <1>7. more = Append(some, r)
    <2>1. /\ Append(some, r) \in Seq(Record) /\ Len(Append(some, r)) = n + 1
          /\ \A i \in 1..n : Append(some, r)[i] = some[i]
          /\ Append(some, r)[n + 1] = r
      BY <1>3, <1>4, <1>5, AppendProperties
    <2>2. \A i \in 1..(n + 1) : i \in 1..n \/ i = n + 1
      OBVIOUS
    <2>3. \A i \in 1..(n + 1) : more[i] = Append(some, r)[i]
      BY <1>6, <2>1, <2>2
    <2> QED
      BY <1>3, <1>4, <2>1, <2>3, SeqEqual
  <1>8. /\ journal \o some \in Seq(Record)
        /\ journal \o more = Append(journal \o some, r)
    BY <1>1, <1>3, <1>5, <1>7, ConcatProperties, AppendIsConcat, ConcatAssociative
  <1> QED
    BY <1>5, <1>8 DEF some, more, r

\* A write of entries, one after another.
LEMMA NumberedTells ==
    ASSUME HostTypeOK, NEW entries \in Seq(Entry), NEW n \in Nat, n < Len(entries),
           NEW old, NEW new, old.events \in Seq(Event), old.commands \in Commands,
           Tells(journal \o Numbered(entries, n), old), Follows(new, old, entries[n + 1])
    PROVE  Tells(journal \o Numbered(entries, n + 1), new)
  <1> DEFINE r == [seq |-> host.next + n, entry |-> entries[n + 1]]
             some == journal \o Numbered(entries, n)
  <1>1. some \in Seq(Record) /\ r \in Record
        /\ journal \o Numbered(entries, n + 1) = Append(some, r)
    BY NumberedOneMore
  <1>2. r.entry = entries[n + 1]
    OBVIOUS
  <1>3. r.entry.kind = "event" => r.entry.event \in Event
    BY <1>1 DEF Record, Entry
  <1>4. Tells(some, old) /\ Follows(new, old, r.entry)
    BY <1>2
  <1> HIDE DEF r, some
  <1> QED
    BY <1>1, <1>3, <1>4, ToldFollows

LEMMA TellsNothingNew ==
    ASSUME HostTypeOK, NEW entries, Tells(journal, host)
    PROVE  Tells(journal \o Numbered(entries, 0), host)
  BY NoneNumbered, ConcatEmptySeq DEF HostTypeOK

\* What two states show alike, a journal tells alike.
LEMMA TellsAlike ==
    ASSUME NEW records, NEW old, NEW new, Tells(records, old),
           new.events = old.events, new.acked = old.acked, new.commands = old.commands
    PROVE  Tells(records, new)
  BY DEF Tells

\* Types of the parts of the host the journal tells of.
LEMMA HostParts ==
    ASSUME HostTypeOK
    PROVE  /\ host \in HostState /\ host.events \in Seq(Event) /\ host.commands \in Commands
           /\ host.next \in Nat
  BY PartsAreTypes DEF Parts, HostState

\* An action that writes one entry, or fails to.
LEMMA OneTold ==
    ASSUME HostTypeOK, JournalInv, NEW entry \in Entry, entry.kind # "torn",
           NEW n \in 0..1, Written(<<entry>>, n),
           n = 0 => host' = host,
           n = 1 => host'.next = host.next + 1 /\ Follows(host', host, entry)
    PROVE  JournalInv'
  <1> DEFINE entries == <<entry>>
  <1>1. /\ entries \in Seq(Entry) /\ Len(entries) = 1 /\ entries[1] = entry
        /\ \A i \in 1..Len(entries) : entries[i].kind # "torn"
    BY Singleton
  <1>2. Written(entries, n) /\ n \in Nat
    OBVIOUS
  <1> HIDE DEF entries
  <1>3. host'.next = host.next + n
    BY HostParts
  <1>4. ASSUME Tells(journal, host) PROVE Tells(journal \o Numbered(entries, n), host')
    <2>1. Tells(journal \o Numbered(entries, 0), host)
      BY <1>4, TellsNothingNew
    <2>2. CASE n = 0
      BY <2>1, <2>2
    <2>3. CASE n = 1
      <3>1. 0 \in Nat /\ 0 < Len(entries) /\ Follows(host', host, entries[0 + 1]) /\ 0 + 1 = 1
        BY <1>1, <2>3
      <3>2. Tells(journal \o Numbered(entries, 0 + 1), host')
        BY <1>1, <2>1, <3>1, HostParts, NumberedTells
      <3> QED
        BY <2>3, <3>1, <3>2
    <2> QED
      BY <2>2, <2>3
  <1> QED
    BY <1>1, <1>2, <1>3, <1>4, WrittenTells

\* Steps that write nothing.
LEMMA NothingTold ==
    ASSUME JournalInv, journal' = journal, faults' = faults, host'.next = host.next,
           host'.events = host.events, host'.acked = host.acked,
           host'.commands = host.commands
    PROVE  JournalInv'
  <1>1. Tells(journal, host)' <=> Tells(journal, host)
    BY DEF Tells, ShowsEvents, ShowsAck, AcksInOrder, ShowsStatus, Of, IsLast
  <1>2. Sound' <=> Sound
    BY DEF Sound, Chained
  <1>3. Chained' <=> Chained
    BY DEF Chained
  <1> QED
    BY <1>1, <1>2, <1>3 DEF JournalInv

-----------------------------------------------------------------------------
(* One lemma for each action that writes *)

LEMMA ClaimTold ==
    ASSUME HostTypeOK, JournalInv, NEW c \in Client, NEW expected, ClaimOwner(c, expected)
    PROVE  JournalInv'
  <1>1. PICK n \in 0..1 :
            /\ Written(<<Claimed(host.epoch + 1, c)>>, n)
            /\ n = 0 => host' = host
            /\ n = 1 => host' = [host EXCEPT !.epoch = @ + 1, !.owner = c, !.next = @ + 1]
    BY DEF ClaimOwner
  <1> DEFINE epoch == host.epoch + 1
             next == host.next + 1
  <1>2. host \in HostState /\ epoch \in Nat
    BY HostParts DEF HostState
  <1>3. Claimed(epoch, c) \in Entry /\ Claimed(epoch, c).kind = "claim"
    BY <1>2 DEF Claimed, Entry
  <1>4. n = 1 => host'.next = next /\ Follows(host', host, Claimed(epoch, c))
    <2>1. n = 1 => host' = [host EXCEPT !.epoch = epoch, !.owner = c, !.next = next]
      BY <1>1
    <2> HIDE DEF epoch, next
    <2> QED
      BY <1>2, <1>3, <2>1 DEF HostState, Follows
  <1> QED
    BY <1>1, <1>3, <1>4, OneTold

LEMMA StatusFollows ==
    ASSUME Parts, NEW m \in Message, NEW status \in Status, NEW entry,
           entry.kind \in {"command", "status"}, entry.msg = m, entry.status = status
    PROVE  /\ WithStatus(m, status).next = host.next + 1
           /\ Follows(WithStatus(m, status), host, entry)
  <1>1. /\ SameElse(WithStatus(m, status), host)
        /\ WithStatus(m, status).events = host.events
        /\ WithStatus(m, status).commands = [host.commands EXCEPT ![m] = status]
    BY OneStatus
  <1>2. WithStatus(m, status).next = host.next + 1
    <2> DEFINE next == host.next + 1
    <2>1. WithStatus(m, status) = [host EXCEPT !.next = next, !.commands[m] = status]
      BY DEF WithStatus
    <2>2. host \in HostState
      BY DEF Parts
    <2> HIDE DEF next
    <2>3. WithStatus(m, status).next = next
      BY <2>1, <2>2 DEF HostState
    <2> QED
      BY <2>3 DEF next
  <1> QED
    BY <1>1, <1>2 DEF SameElse, Follows

LEMMA DeliverTold ==
    ASSUME HostTypeOK, JournalInv, NEW call \in calls, DeliverCommand(call)
    PROVE  JournalInv'
  <1> DEFINE status == [body |-> call.body, disposition |-> "recorded"]
             entry == Commanded(call.msg, status)
  <1>1. Parts
    BY PartsAreTypes
  <1>2. status \in Status /\ call.msg \in Message
    BY <1>1, CallTypes DEF Disposition
  <1> HIDE DEF status
  <1>3. /\ entry \in Entry /\ entry.kind = "command"
        /\ entry.msg = call.msg /\ entry.status = status
    BY <1>2 DEF Commanded, Entry
  <1>4. PICK n \in 0..1 :
            /\ Written(<<entry>>, n)
            /\ n = 0 => host' = host
            /\ n = 1 => host' = WithStatus(call.msg, status)
    BY DEF DeliverCommand, status, WithStatus
  <1> HIDE DEF entry
  <1>5. n = 1 => host'.next = host.next + 1 /\ Follows(host', host, entry)
    BY <1>1, <1>2, <1>3, <1>4, StatusFollows
  <1> QED
    BY <1>3, <1>4, <1>5, OneTold

LEMMA ReportDeliveredTold ==
    ASSUME HostTypeOK, JournalInv, NEW call \in calls, ReportDelivered(call)
    PROVE  JournalInv'
  <1> DEFINE status == [body |-> call.body, disposition |-> "delivered"]
             entry == Updated(call.msg, status)
  <1>1. Parts
    BY PartsAreTypes
  <1>2. status \in Status /\ call.msg \in Message
    BY <1>1, CallTypes DEF Disposition
  <1>3. CASE Overtaken(call)
    <2>1. UNCHANGED <<journal, host, faults>>
      BY <1>3 DEF ReportDelivered
    <2> QED
      BY <2>1, NothingTold
  <1>4. CASE ~Overtaken(call)
    <2> HIDE DEF status
    <2>1. /\ entry \in Entry /\ entry.kind = "status"
          /\ entry.msg = call.msg /\ entry.status = status
      BY <1>2 DEF Updated, Entry
    <2>2. PICK n \in 0..1 :
              /\ Written(<<entry>>, n)
              /\ n = 0 => host' = host
              /\ n = 1 => host' = WithStatus(call.msg, status)
      BY <1>4 DEF ReportDelivered, status, WithStatus
    <2> HIDE DEF entry
    <2>3. n = 1 => host'.next = host.next + 1 /\ Follows(host', host, entry)
      BY <1>1, <1>2, <2>1, <2>2, StatusFollows
    <2> QED
      BY <2>1, <2>2, <2>3, OneTold
  <1> QED
    BY <1>3, <1>4

LEMMA AckTold ==
    ASSUME HostTypeOK, JournalInv,
           NEW c \in Client, NEW through \in 1..MaxEvent, AckEvents(c, through)
    PROVE  JournalInv'
  <1> DEFINE entry == Acked(mine[c], through)
             next == host.next + 1
  <1>1. /\ mine[c] \in Nat /\ through \in Nat /\ host \in HostState
        /\ host.acked <= through /\ through <= Len(host.events)
    BY PartsAreTypes DEF Parts, HostState, AckEvents, Acknowledgeable
  <1>2. entry \in Entry /\ entry.kind = "ack" /\ entry.through = through
    BY <1>1 DEF Acked, Entry
  <1>3. PICK n \in 0..1 :
            /\ Written(<<entry>>, n)
            /\ n = 0 => host' = host
            /\ n = 1 => host' = [host EXCEPT !.next = next, !.acked = through]
    BY DEF AckEvents
  <1> HIDE DEF entry
  <1>4. n = 1 => host'.next = next /\ Follows(host', host, entry)
    <2> HIDE DEF next
    <2> QED
      BY <1>1, <1>2, <1>3 DEF HostState, Follows
  <1> QED
    BY <1>2, <1>3, <1>4, OneTold

LEMMA RecordedNext ==
    ASSUME NEW state \in HostState, NEW entries, NEW n \in {0, 1, 2}
    PROVE  Recorded(state, entries, n).next = state.next + n
  <1> DEFINE next == state.next + n
             new == Recorded(state, entries, n)
  <1>1. \/ new = [state EXCEPT !.next = next]
        \/ new = [[state EXCEPT !.next = next] EXCEPT !.events = Append(@, entries[1].event)]
        \/ new = [[state EXCEPT !.next = next] EXCEPT !.events = Append(@, entries[1].event),
                                !.commands[entries[2].msg] = entries[2].status]
    BY DEF Recorded
  <1> HIDE DEF next, new
  <1>2. new.next = next
    BY <1>1 DEF HostState
  <1> QED
    BY <1>2 DEF next, new

\* What the entries of an event are.
LEMMA EntriesKinds ==
    ASSUME HostTypeOK, NEW e \in Event
    PROVE  /\ Entries(e)[1].kind = "event"
           /\ Len(Entries(e)) = 2 => Entries(e)[2].kind = "status"
  <1>1. \/ Entries(e) = <<Happened(e)>>
        \/ \E status : Entries(e) = <<Happened(e), Updated(e.msg, status)>>
    BY DEF Entries
  <1>2. Happened(e).kind = "event"
    BY DEF Happened
  <1>3. \A status : Updated(e.msg, status).kind = "status"
    BY DEF Updated
  <1> QED
    BY <1>1, <1>2, <1>3

\* An event and what it tells of a command, recorded up to some entry.
LEMMA EventTold ==
    ASSUME HostTypeOK, JournalInv, NEW e \in Event, RecordEvent(e)
    PROVE  JournalInv'
  <1> DEFINE entries == Entries(e)
             shown(n) == Recorded(host, entries, n)
  <1>1. host \in HostState
    BY HostParts
  <1>2. /\ entries \in Seq(Entry) /\ Len(entries) \in {1, 2} /\ entries[1].event = e
        /\ entries[1].kind = "event"
        /\ Len(entries) = 2 =>
              /\ entries[2].kind = "status"
              /\ entries[2].msg \in Message /\ entries[2].status \in Status
    BY EntriesTypes, EntriesKinds
  <1>3. \A i \in 1..Len(entries) : entries[i].kind # "torn"
    <2> DEFINE len == Len(entries)
    <2>1. len \in {1, 2}
      BY <1>2
    <2> HIDE DEF len
    <2>2. \A i \in 1..len : i = 1 \/ (i = 2 /\ len = 2)
      BY <2>1
    <2> QED
      BY <1>2, <2>2 DEF len
  <1>4. CASE Exhausted
    <2>1. /\ host' = [host EXCEPT !.recorder = "failed"]
          /\ journal' = journal /\ faults' = faults
      BY <1>4 DEF RecordEvent
    <2>2. /\ host'.next = host.next /\ host'.events = host.events
          /\ host'.acked = host.acked /\ host'.commands = host.commands
      BY <1>1, <2>1 DEF HostState
    <2> QED
      BY <2>1, <2>2, NothingTold
  <1>5. CASE ~Exhausted
    <2>1. PICK n \in 0..Len(entries) :
              /\ Written(entries, n)
              /\ \/ host' = shown(n)
                 \/ host' = [shown(n) EXCEPT !.recorder = "failed"]
      BY <1>5 DEF RecordEvent
    <2> HIDE DEF entries
    <2>2. n \in {0, 1, 2} /\ n \in Nat /\ n <= Len(entries)
      <3> DEFINE len == Len(entries)
      <3>1. len \in {1, 2} /\ n \in 0..len
        BY <1>2
      <3> HIDE DEF len
      <3>2. len = 1 => n \in {0, 1}
        BY <3>1
      <3>3. len = 2 => n \in {0, 1, 2}
        BY <3>1
      <3> QED
        BY <3>1, <3>2, <3>3 DEF len
    <2>3. ASSUME NEW k \in {0, 1, 2}, k <= Len(entries)
          PROVE  /\ shown(k) \in HostState /\ shown(k).next = host.next + k
                 /\ shown(k).acked = host.acked
                 /\ shown(k).events = IF k = 0 THEN host.events ELSE Append(host.events, e)
                 /\ shown(k).commands =
                        IF k = 2
                        THEN [host.commands EXCEPT ![entries[2].msg] = entries[2].status]
                        ELSE host.commands
      <3>1. k > 0 => entries[1].event \in Event
        BY <1>2
      <3>2. k = 2 => Len(entries) = 2
        <4> DEFINE len == Len(entries)
        <4>1. len \in {1, 2} /\ k <= len
          BY <1>2, <2>3
        <4> HIDE DEF len
        <4>2. k = 2 => len = 2
          BY <4>1
        <4> QED
          BY <4>2 DEF len
      <3>3. k = 2 => entries[2].msg \in Message /\ entries[2].status \in Status
        BY <1>2, <3>2
      <3>4. /\ Recorded(host, entries, k) \in HostState
            /\ SameElse(Recorded(host, entries, k), host)
            /\ Recorded(host, entries, k).events =
                   IF k = 0 THEN host.events ELSE Append(host.events, entries[1].event)
            /\ Recorded(host, entries, k).commands =
                   IF k = 2
                   THEN [host.commands EXCEPT ![entries[2].msg] = entries[2].status]
                   ELSE host.commands
        <4> HIDE DEF shown
        <4> QED
          BY <1>1, <3>1, <3>3, RecordedTypes, ZenonT(30)
      <3> QED
        BY <1>1, <1>2, <3>4, RecordedNext DEF SameElse
    <2> HIDE DEF shown
    <2>4. /\ host'.next = host.next + n /\ host'.events = shown(n).events
          /\ host'.acked = shown(n).acked /\ host'.commands = shown(n).commands
      <3>1. shown(n) \in HostState /\ shown(n).next = host.next + n
        BY <2>2, <2>3
      <3>2. /\ host'.next = shown(n).next /\ host'.events = shown(n).events
            /\ host'.acked = shown(n).acked /\ host'.commands = shown(n).commands
        BY <2>1, <3>1 DEF HostState
      <3> QED
        BY <3>1, <3>2
    <2>5. ASSUME Tells(journal, host) PROVE Tells(journal \o Numbered(entries, n), host')
      <3>1. Tells(journal \o Numbered(entries, 0), host)
        BY <2>5, TellsNothingNew
      <3>2. CASE n = 0
        <4>1. shown(0).events = host.events /\ shown(0).acked = host.acked
              /\ shown(0).commands = host.commands
          BY <2>2, <2>3, <3>2
        <4> QED
          BY <2>4, <3>1, <3>2, <4>1, TellsAlike
      <3>3. Tells(journal \o Numbered(entries, 1), shown(1))
        <4>1. 0 \in Nat /\ 0 < Len(entries) /\ 0 + 1 = 1 /\ 1 <= Len(entries)
          BY <1>2
        <4>2. Follows(shown(1), host, entries[0 + 1])
          BY <1>2, <2>3, <4>1 DEF Follows
        <4>3. Tells(journal \o Numbered(entries, 0 + 1), shown(1))
          BY <1>2, <3>1, <4>1, <4>2, HostParts, NumberedTells
        <4> QED
          BY <4>1, <4>3
      <3>4. CASE n = 1
        BY <2>4, <3>3, <3>4, TellsAlike
      <3>5. CASE n = 2
        <4>1. 1 \in Nat /\ 1 < Len(entries) /\ 1 + 1 = 2 /\ 1 <= Len(entries)
              /\ 2 <= Len(entries) /\ Len(entries) = 2
          BY <1>2, <2>2, <3>5
        <4>2. Follows(shown(2), shown(1), entries[2])
          <5>1. /\ shown(1).acked = host.acked /\ shown(1).commands = host.commands
                /\ shown(1).events = Append(host.events, e)
            BY <2>3, <4>1
          <5>2. /\ shown(2).acked = host.acked
                /\ shown(2).commands =
                      [host.commands EXCEPT ![entries[2].msg] = entries[2].status]
                /\ shown(2).events = Append(host.events, e)
            BY <2>3, <4>1
          <5>3. entries[2].kind = "status"
            BY <1>2, <4>1
          <5> QED
            BY <5>1, <5>2, <5>3 DEF Follows
        <4>3. shown(1).events \in Seq(Event) /\ shown(1).commands \in Commands
          BY <2>3, <4>1 DEF HostState
        <4>4. Tells(journal \o Numbered(entries, 1 + 1), shown(2))
          BY <1>2, <3>3, <4>1, <4>2, <4>3, NumberedTells
        <4> QED
          BY <2>4, <3>5, <4>1, <4>4, TellsAlike
      <3> QED
        BY <2>2, <3>2, <3>4, <3>5
    <2> QED
      BY <1>2, <1>3, <2>1, <2>2, <2>4, <2>5, WrittenTells
  <1> QED
    BY <1>4, <1>5

\* A command that could not be sent, recorded up to some entry.
LEMMA FailTold ==
    ASSUME HostTypeOK, JournalInv, NEW call \in calls, FailCommand(call)
    PROVE  JournalInv'
  <1> DEFINE m == call.msg
             status == [body |-> call.body, disposition |-> "recorded"]
             failed == [status EXCEPT !.disposition = "failed"]
             failure == [kind |-> "undelivered", msg |-> m]
             entries == <<Commanded(m, status), Happened(failure), Updated(m, failed)>>
             known == [host EXCEPT !.commands[m] = status, !.next = @ + 1]
             room == IF Exhausted THEN 1 ELSE 3
             cut == SubSeq(entries, 1, room)
             rest == Tail(entries)
             shown(k) == Recorded(known, rest, k)
  <1>1. Parts /\ m \in Message
    BY PartsAreTypes, CallTypes
  <1>2. status \in Status /\ failed \in Status /\ failure \in Event
    BY <1>1, CallTypes DEF Disposition, Status, Event
  <1>3. /\ Commanded(m, status) \in Entry /\ Happened(failure) \in Entry
        /\ Updated(m, failed) \in Entry
    BY <1>1, <1>2 DEF Commanded, Happened, Updated, Entry
  <1>4. /\ entries \in Seq(Entry) /\ Len(entries) = 3
        /\ entries[1] = Commanded(m, status) /\ entries[2] = Happened(failure)
        /\ entries[3] = Updated(m, failed)
    BY <1>3, Triple
  <1>5. rest[1] = Happened(failure) /\ rest[2] = Updated(m, failed)
    <2>1. rest = <<Happened(failure), Updated(m, failed)>>
      OBVIOUS
    <2> QED
      BY <2>1
  <1>6. PICK n \in 0..3 :
            /\ n <= room /\ Written(cut, n)
            /\ host' = IF n = 0 THEN host ELSE shown(n - 1)
    BY DEF FailCommand
  <1>7. known = WithStatus(m, status)
    BY <1>1 DEF Parts, HostState, WithStatus
  <1>8. room \in {1, 3}
    OBVIOUS
  <1> HIDE DEF m, status, failed, failure, entries, known, room, rest
  <1>9. /\ Commanded(m, status).kind = "command" /\ Commanded(m, status).msg = m
        /\ Commanded(m, status).status = status
        /\ Happened(failure).kind = "event" /\ Happened(failure).event = failure
        /\ Updated(m, failed).kind = "status" /\ Updated(m, failed).msg = m
        /\ Updated(m, failed).status = failed
    BY DEF Commanded, Happened, Updated
  <1>10. /\ cut \in Seq(Entry) /\ Len(cut) = room
         /\ \A i \in 1..room : cut[i] = entries[i]
    <2>1. \A i \in 1..room : entries[i] \in Entry
      BY <1>3, <1>4, <1>8
    <2> QED
      BY <1>4, <1>8, <2>1, SubSeqProperties
  <1> HIDE DEF cut
  <1>11. \A i \in 1..Len(cut) : cut[i].kind # "torn"
    BY <1>4, <1>8, <1>9, <1>10
  <1>12. /\ known \in HostState /\ known.next = host.next + 1 /\ known.acked = host.acked
         /\ known.events = host.events /\ Follows(known, host, Commanded(m, status))
    <2>1. /\ WithStatus(m, status) \in HostState /\ SameElse(WithStatus(m, status), host)
          /\ WithStatus(m, status).events = host.events
      BY <1>1, <1>2, OneStatus
    <2>2. /\ WithStatus(m, status).next = host.next + 1
          /\ Follows(WithStatus(m, status), host, Commanded(m, status))
      BY <1>1, <1>2, <1>9, StatusFollows
    <2> QED
      BY <1>7, <2>1, <2>2 DEF SameElse
  <1>13. ASSUME NEW k \in {0, 1, 2}
         PROVE  /\ shown(k) \in HostState /\ shown(k).next = host.next + 1 + k
                /\ shown(k).acked = host.acked
                /\ shown(k).events = IF k = 0 THEN known.events ELSE Append(known.events, failure)
                /\ shown(k).commands = IF k = 2 THEN [known.commands EXCEPT ![m] = failed]
                                       ELSE known.commands
    <2>1. /\ rest[1].event = failure /\ rest[1].event \in Event
          /\ rest[2].msg = m /\ rest[2].msg \in Message
          /\ rest[2].status = failed /\ rest[2].status \in Status
      BY <1>1, <1>2, <1>5, <1>9
    <2>2. /\ Recorded(known, rest, k) \in HostState
          /\ SameElse(Recorded(known, rest, k), known)
          /\ Recorded(known, rest, k).events =
                 IF k = 0 THEN known.events ELSE Append(known.events, rest[1].event)
          /\ Recorded(known, rest, k).commands =
                 IF k = 2 THEN [known.commands EXCEPT ![rest[2].msg] = rest[2].status]
                 ELSE known.commands
      <3>1. k > 0 => rest[1].event \in Event
        BY <2>1
      <3>2. k = 2 => rest[2].msg \in Message /\ rest[2].status \in Status
        BY <2>1
      <3>3. known \in HostState
        BY <1>12
      <3> HIDE DEF shown
      <3> QED
        BY <3>1, <3>2, <3>3, RecordedTypes, ZenonT(30)
    <2>3. shown(k).next = host.next + 1 + k
      BY <1>12, RecordedNext
    <2> QED
      BY <1>12, <2>1, <2>2, <2>3 DEF SameElse
  <1> HIDE DEF shown
  <1>14. host'.next = host.next + n
    <2>1. CASE n = 0
      BY <1>6, <2>1, HostParts
    <2>2. CASE n > 0
      <3> DEFINE k == n - 1
      <3>1. k \in {0, 1, 2} /\ n = k + 1 /\ host' = shown(k)
        BY <1>6, <2>2
      <3> HIDE DEF k
      <3>2. shown(k).next = host.next + 1 + k
        BY <1>13, <3>1
      <3> QED
        BY <3>1, <3>2, HostParts
    <2> QED
      BY <2>1, <2>2
  <1>15. ASSUME Tells(journal, host) PROVE Tells(journal \o Numbered(cut, n), host')
    <2>1. Tells(journal \o Numbered(cut, 0), host)
      BY <1>15, TellsNothingNew
    <2>2. CASE n = 0
      BY <1>6, <2>1, <2>2
    <2>3. Tells(journal \o Numbered(cut, 1), shown(0))
      <3>1. 0 \in Nat /\ 0 < Len(cut) /\ 0 + 1 = 1 /\ 1 \in 1..room
        BY <1>8, <1>10
      <3>2. Follows(shown(0), host, cut[0 + 1])
        <4>1. cut[1] = Commanded(m, status)
          BY <1>4, <1>10, <3>1
        <4>2. /\ shown(0).events = known.events /\ shown(0).acked = host.acked
              /\ shown(0).commands = known.commands
          BY <1>13
        <4> QED
          BY <1>12, <4>1, <4>2 DEF Follows
      <3>3. Tells(journal \o Numbered(cut, 0 + 1), shown(0))
        BY <1>10, <2>1, <3>1, <3>2, HostParts, NumberedTells
      <3> QED
        BY <3>1, <3>3
    <2>4. ASSUME room = 3 PROVE Tells(journal \o Numbered(cut, 2), shown(1))
      <3>1. 1 \in Nat /\ 1 < Len(cut) /\ 1 + 1 = 2 /\ 2 \in 1..room
        BY <1>10, <2>4
      <3>2. /\ shown(0).events = known.events /\ shown(0).acked = host.acked
            /\ shown(0).commands = known.commands
            /\ shown(1).events = Append(known.events, failure)
            /\ shown(1).acked = host.acked /\ shown(1).commands = known.commands
            /\ shown(0).events \in Seq(Event) /\ shown(0).commands \in Commands
        BY <1>13 DEF HostState
      <3>3. Follows(shown(1), shown(0), cut[1 + 1])
        <4>1. cut[1 + 1] = Happened(failure)
          BY <1>4, <1>10, <3>1
        <4>2. Follows(shown(1), shown(0), Happened(failure))
          BY <1>9, <3>2 DEF Follows
        <4> QED
          BY <4>1, <4>2
      <3>4. Tells(journal \o Numbered(cut, 1 + 1), shown(1))
        BY <1>10, <2>3, <3>1, <3>2, <3>3, NumberedTells
      <3> QED
        BY <3>1, <3>4
    <2>5. ASSUME room = 3 PROVE Tells(journal \o Numbered(cut, 3), shown(2))
      <3>1. 2 \in Nat /\ 2 < Len(cut) /\ 2 + 1 = 3 /\ 3 \in 1..room
        BY <1>10, <2>5
      <3>2. /\ shown(1).events = Append(known.events, failure)
            /\ shown(1).acked = host.acked /\ shown(1).commands = known.commands
            /\ shown(2).events = Append(known.events, failure)
            /\ shown(2).acked = host.acked
            /\ shown(2).commands = [known.commands EXCEPT ![m] = failed]
        BY <1>13
      <3>3. shown(1).events \in Seq(Event) /\ shown(1).commands \in Commands
        BY <1>13 DEF HostState
      <3>4. Follows(shown(2), shown(1), cut[2 + 1])
        <4>1. cut[2 + 1] = Updated(m, failed)
          BY <1>4, <1>10, <3>1
        <4>2. Follows(shown(2), shown(1), Updated(m, failed))
          BY <1>9, <3>2 DEF Follows
        <4> QED
          BY <4>1, <4>2
      <3>5. Tells(journal \o Numbered(cut, 2 + 1), shown(2))
        BY <1>10, <2>4, <2>5, <3>1, <3>3, <3>4, NumberedTells
      <3> QED
        BY <3>1, <3>5
    <2>6. CASE n = 1
      BY <1>6, <2>3, <2>6
    <2>7. CASE n = 2
      <3>1. room = 3 /\ host' = shown(1)
        BY <1>6, <1>8, <2>7
      <3> QED
        BY <2>4, <2>7, <3>1
    <2>8. CASE n = 3
      <3>1. room = 3 /\ host' = shown(2)
        BY <1>6, <1>8, <2>8
      <3> QED
        BY <2>5, <2>8, <3>1
    <2> QED
      BY <2>2, <2>6, <2>7, <2>8
  <1> QED
    BY <1>6, <1>10, <1>11, <1>14, <1>15, WrittenTells

-----------------------------------------------------------------------------
(* Every step *)

LEMMA EndTold ==
    ASSUME HostTypeOK, JournalInv,
           \/ AdapterEnds \/ RecorderEnds \/ StopServing \/ HostDies
           \/ \E exited \in BOOLEAN : WriteReceipt(exited)
    PROVE  JournalInv'
  <1>1. host \in HostState
    BY HostParts
  <1>2. journal' = journal /\ faults' = faults
    BY DEF AdapterEnds, RecorderEnds, StopServing, HostDies, WriteReceipt
  <1>3. /\ host'.next = host.next /\ host'.events = host.events
        /\ host'.acked = host.acked /\ host'.commands = host.commands
    BY <1>1 DEF AdapterEnds, RecorderEnds, StopServing, HostDies, WriteReceipt, Sealed, HostState
  <1> QED
    BY <1>2, <1>3, NothingTold

LEMMA JournalStep ==
    ASSUME HostTypeOK, JournalInv, HostNext
    PROVE  JournalInv'
  <1>1. ASSUME \/ \E c \in Client, m \in Message, b \in Body : ReceiveCommand(c, m, b)
               \/ \E call \in calls : ReserveCapacity(call) \/ RejectCommand(call)
        PROVE  JournalInv'
    <2>1. UNCHANGED <<journal, host, faults>>
      BY <1>1 DEF ReceiveCommand, ReserveCapacity, RejectCommand
    <2> QED
      BY <2>1, NothingTold
  <1> QED
    BY <1>1, ClaimTold, DeliverTold, FailTold, ReportDeliveredTold, AckTold, EventTold,
       EndTold, ReportTypes DEF HostNext

\* What has been sealed stays as it is, with its receipt.
LEMMA ReceiptStep ==
    ASSUME HostTypeOK, SealedAtEnd, ReceiptInv, HostNext
    PROVE  ReceiptInv'
  <1>1. Grows
    BY TypesStep
  <1>2. CASE \E exited \in BOOLEAN : WriteReceipt(exited)
    <2>1. host \in HostState
      BY HostParts
    <2> DEFINE records == host.next - 1
               last == Len(host.events)
    <2>2. /\ receipt'.records = records /\ receipt'.last = last
          /\ receipt'.acked = host.acked
      BY <1>2 DEF WriteReceipt
    <2> HIDE DEF records, last
    <2>3. /\ host'.phase = "exited" /\ host'.next = host.next
          /\ host'.events = host.events /\ host'.acked = host.acked
      BY <1>2, <2>1 DEF WriteReceipt, Sealed, HostState
    <2> QED
      BY <2>2, <2>3 DEF ReceiptInv, records, last
  <1>3. CASE ~\E exited \in BOOLEAN : WriteReceipt(exited)
    <2>1. receipt' = receipt
      BY <1>3 DEF HostNext, ClaimOwner, ReceiveCommand, ReserveCapacity, RejectCommand,
                  DeliverCommand, FailCommand, ReportDelivered, AckEvents, RecordEvent,
                  AdapterEnds, RecorderEnds, StopServing, HostDies
    <2>2. receipt # None => host' = host
      BY <1>1 DEF ReceiptInv, SealedAtEnd, Grows
    <2> QED
      BY <2>1, <2>2 DEF ReceiptInv
  <1> QED
    BY <1>2, <1>3

ExitInv == HostTypeOK /\ SealedAtEnd /\ JournalInv /\ ReceiptInv

LEMMA ExitInit == HostInit => ExitInv
  <1> SUFFICES ASSUME HostInit PROVE ExitInv
    OBVIOUS
  <1>1. /\ journal = <<>> /\ host.next = 1 /\ host.events = <<>> /\ host.acked = 0
        /\ (\A m \in Message : host.commands[m] = None) /\ receipt = None
    BY DEF HostInit
  <1>2. \A kind : Of(journal, kind) = {}
    BY <1>1 DEF Of
  <1>3. ShowsEvents(journal, host.events)
    <2>1. Cardinality({}) = 0
      BY FS_EmptySet
    <2> QED
      BY <1>1, <1>2, <2>1 DEF ShowsEvents
  <1>4. ShowsAck(journal, host.acked) /\ \A m \in Message : ShowsStatus(journal, m, host.commands[m])
    BY <1>1, <1>2 DEF ShowsAck, ShowsStatus
  <1>5. Sound /\ AcksInOrder(journal)
    BY <1>1, <1>2 DEF Sound, Chained, AcksInOrder
  <1>6. JournalInv
    BY <1>1, <1>3, <1>4, <1>5 DEF JournalInv, Tells, Sound
  <1> QED
    BY <1>1, <1>6, InitTypes DEF ExitInv, ReceiptInv

LEMMA ExitUnchanged == ASSUME ExitInv, UNCHANGED hostVars PROVE ExitInv'
  <1>1. HostTypeOK' /\ SealedAtEnd'
    BY TypesUnchanged DEF ExitInv
  <1>2. JournalInv'
    BY NothingTold DEF ExitInv, hostVars
  <1> QED
    BY <1>1, <1>2 DEF ExitInv, ReceiptInv, hostVars

LEMMA ExitsHold == HostSpec => []ExitInv
  <1>1. ExitInv /\ [HostNext]_hostVars => ExitInv'
    BY TypesStep, JournalStep, ReceiptStep, ExitUnchanged DEF ExitInv
  <1> QED
    BY <1>1, ExitInit, PTL DEF HostSpec

\* With a disk that never failed the receipt is about this very journal, so the
\* exit is accepted (runtime_host.rs:2401-2443, 2619-2620).
THEOREM UnfaultedExitsAreAccepted == HostSpec => []UnfaultedExitConfirms
  <1>1. ExitInv => UnfaultedExitConfirms
    BY DEF ExitInv, JournalInv, ReceiptInv, UnfaultedExitConfirms, Confirmed, Sound, Tells,
           ShowsEvents, SameJournal
  <1> QED
    BY <1>1, ExitsHold, PTL

\* An accepted exit left a journal of as many records as the host wrote, all in
\* their places: they tell everything the host has shown, whatever writes
\* failed on the way (runtime_host.rs:2401-2443 against 519-552).
THEOREM AcceptedExitsAreComplete == HostSpec => []ConfirmedExitIsComplete
  <1>1. ExitInv => ConfirmedExitIsComplete
    BY DEF ExitInv, JournalInv, ReceiptInv, ConfirmedExitIsComplete, Confirmed, Sound, Tells,
           SameJournal
  <1> QED
    BY <1>1, ExitsHold, PTL
=============================================================================
