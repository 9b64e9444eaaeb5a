------------------------ MODULE ImageSubmissionProofs ------------------------
(***************************************************************************)
(* What holds of every number of inputs, images, windows and faults: the    *)
(* types, that a content is sent again only when the first outcome is       *)
(* known, that what the journal says of an input is true, that an image     *)
(* that is done with is gone, that one the agent waits for is there, and    *)
(* that no recovery is ended by a claimed image the daemon does not know.   *)
(* That images are reclaimed is left to the model checker.                  *)
(***************************************************************************)
EXTENDS ImageSubmission, TLAPS

-----------------------------------------------------------------------------
(* Types *)

Results == [Submission -> Known \cup {None}]
Journal == [intent : SUBSET Transfer, claim : SUBSET Submission,
            queue : SUBSET Submission, release : SUBSET Submission,
            done : SUBSET Transfer, result : Results]
Replies == Known \cup {"ok", "err", "unknown", None}
Task == [phase : Phases, live : BOOLEAN, current : BOOLEAN, handed : BOOLEAN,
         leased : BOOLEAN, refs : SUBSET Transfer, reply : Replies]
Window == [unknown : SUBSET Subject, rec : {None} \cup Recoveries]
Wire == [kind : {"publish", "queue", "revoke", "release"},
         s : Submission, t : Transfer \cup {None}]
Store == [ref : SUBSET Transfer, file : SUBSET Transfer, released : SUBSET Transfer,
          claim : SUBSET Submission, result : Results]
Busy == {None} \cup [s : Submission, step : {"claimed", "written", "releasing"}]
Daemon == [active : SUBSET Submission, busy : Busy]
Native == [sent : Nat, input : {None, "queued", "snapshot"}]

Types ==
    /\ journal \in Journal /\ task \in [Submission -> Task] /\ app \in [App -> Window]
    /\ wire \subseteq Wire /\ store \in Store /\ daemon \in Daemon
    /\ native \in [Submission -> Native] /\ faults \in 0..MaxFault

LEMMA TypesAreTypes == ImageTypeOK <=> Types
  BY DEF ImageTypeOK, Types, Results, Journal, Replies, Task, Window, Wire, Store, Busy,
         Daemon, Native

\* The requests of recoveries, and what follows from an answer.
LEMMA WorkTypes ==
    ASSUME NEW j PROVE Work(j) \subseteq [t : j.intent \ j.done, release : BOOLEAN,
                                         asked : BOOLEAN, leased : BOOLEAN]
  <1>1. \A t : /\ (Unclaimed(j, t) \/ Explicit(j, t)) \in BOOLEAN
              /\ Orphaned(j, t) \in BOOLEAN
    BY DEF Unclaimed, Explicit, Orphaned
  <1>2. ASSUME NEW t \in j.intent \ j.done
        PROVE  [t |-> t, release |-> Unclaimed(j, t) \/ Explicit(j, t), asked |-> FALSE,
                leased |-> Orphaned(j, t)]
               \in [t : j.intent \ j.done, release : BOOLEAN, asked : BOOLEAN,
                    leased : BOOLEAN]
    BY <1>1
  <1> QED
    BY <1>2 DEF Work

LEMMA RecoveringTypes ==
    ASSUME NEW s \in Submission \cup {None}, NEW todo \in SUBSET Item
    PROVE  Recovering(s, todo) \in {None} \cup Recoveries
  BY DEF Recovering, Recoveries

LEMMA FirstTypes ==
    ASSUME NEW j \in Journal
    PROVE  Work(j) \in SUBSET Item /\ FirstReply(j) \in {"ok", None}
  BY WorkTypes DEF Item, Journal, FirstReply

LEMMA RecordedTypes ==
    ASSUME journal \in Journal, NEW s \in Submission, NEW status
    PROVE  Recorded(s, status) \in Journal
  <1>1. CASE status \in Known
    <2> DEFINE result == [journal.result EXCEPT ![s] = status]
               release == journal.release \cup {s}
    <2>1. result \in Results /\ release \in SUBSET Submission
      BY <1>1 DEF Journal, Results
    <2>2. Recorded(s, status) = [journal EXCEPT !.result = result, !.release = release]
      BY <1>1 DEF Recorded, Journal
    <2> HIDE DEF result, release
    <2> QED
      BY <2>1, <2>2 DEF Journal
  <1> QED
    BY <1>1 DEF Recorded

LEMMA ReleasedTypes ==
    ASSUME store \in Store, NEW ts \in SUBSET Transfer
    PROVE  /\ Released(store, ts) \in Store
           /\ Released(store, ts).ref = store.ref
           /\ Released(store, ts).released = store.released \cup ts
           /\ Released(store, ts).file = store.file \ ts
           /\ Released(store, ts).claim = store.claim
           /\ Released(store, ts).result = store.result
  BY DEF Released, Store

LEMMA NewTypes == NewTask \in Task /\ NewApp \in Window
  BY DEF NewTask, NewApp, Task, Window, Phases, Replies

LEMMA RevokedTypes ==
    ASSUME NEW k \in Task
    PROVE  /\ RevokedTask(k) \in Task /\ RevokedTask(k).phase = k.phase
           /\ RevokedTask(k).reply = k.reply /\ RevokedTask(k).live = FALSE
  BY DEF RevokedTask, Task

LEMMA LostTypes ==
    ASSUME NEW k \in Task
    PROVE  /\ Lost(k) \in Task /\ Lost(k).phase = k.phase
           /\ Lost(k).reply \in {"err", k.reply}
  BY DEF Lost, Task, Replies

LEMMA NoticeTypes ==
    ASSUME task \in [Submission -> Task], NEW s \in Submission
    PROVE  /\ Notices(s) \subseteq Wire
           /\ \A m \in Notices(s) : m.kind \in {"revoke", "release"}
  BY DEF Notices, Message, Wire, Task

\* The steps that write each variable.
JournalWrites ==
    \/ \E s \in Submission :
          PersistIntent(s) \/ ClaimSubject(s) \/ StoreQueue(s) \/ TakeResult(s)
    \/ \E a \in App : TakeStatus(a) \/ TakeRecovered(a)

StoreWrites ==
    \/ \E s \in Submission : HandleQueue(s)
    \/ \E s \in Submission, t \in Transfer : HandlePublish(s, t) \/ HandleRelease(s, t)
    \/ \E a \in App : AskStatus(a) \/ AskRecover(a)
    \/ NativeWrite \/ NativeAnswer \/ ReleaseImages

AppWrites ==
    \/ \E s \in Submission :
          Begin(s) \/ ClaimNativeWrite(s) \/ TakeResult(s) \/ Finish(s)
    \/ \E a \in App : \/ StartRecovery(a) \/ AskStatus(a) \/ TakeStatus(a) \/ AskRecover(a)
                      \/ TakeRecovered(a) \/ Disconnect(a) \/ AppCrash(a)
    \/ DaemonCrash

DaemonWrites ==
    \/ \E s \in Submission : Activate(s) \/ HandleQueue(s) \/ HandleRevoke(s)
    \/ NativeWrite \/ NativeAnswer \/ ReleaseImages
    \/ \E a \in App : DropConnection(a)
    \/ DaemonCrash

LEMMA ImagesAreTransfers == \A s \in Submission : ImagesOf(s) \subseteq Transfer
  BY DEF ImagesOf

LEMMA Writers ==
    ASSUME ImageNext
    PROVE  /\ journal' = journal \/ JournalWrites
           /\ store' = store \/ StoreWrites
           /\ app' = app \/ AppWrites
           /\ daemon' = daemon \/ DaemonWrites
           /\ \/ native' = native
              \/ NativeWrite
              \/ \E s \in Submission : NativeSnapshot(s)
  <1>1. ASSUME NEW s \in Submission, Begin(s) \/ Revoke(s) \/ TaskStep(s) \/ NativeSnapshot(s)
        PROVE  /\ journal' = journal \/ JournalWrites
               /\ store' = store
               /\ app' = app \/ AppWrites
               /\ daemon' = daemon \/ DaemonWrites
               /\ native' = native \/ NativeSnapshot(s)
    BY <1>1 DEF Begin, Revoke, TaskStep, NativeSnapshot, Activate, PersistIntent, Publish,
                ClaimSubject, StoreQueue, ClaimNativeWrite, SubmitQueue, TakeResult, Finish,
                Fail, JournalWrites, AppWrites, DaemonWrites
  <1>2. ASSUME NEW a \in App, StartRecovery(a) \/ RecoveryStep(a)
        PROVE  /\ journal' = journal \/ JournalWrites
               /\ store' = store \/ StoreWrites
               /\ AppWrites
               /\ daemon' = daemon /\ native' = native
    BY <1>2 DEF StartRecovery, RecoveryStep, AskStatus, TakeStatus, AskRecover, TakeRecovered,
                JournalWrites, StoreWrites, AppWrites
  <1>3. ASSUME DaemonStep
        PROVE  /\ journal' = journal
               /\ store' = store \/ StoreWrites
               /\ app' = app
               /\ daemon' = daemon \/ DaemonWrites
               /\ native' = native \/ NativeWrite
    <2>1. ASSUME NEW s \in Submission, NEW t \in ImagesOf(s),
                 HandlePublish(s, t) \/ HandleRelease(s, t)
          PROVE  /\ journal' = journal /\ StoreWrites /\ app' = app
                 /\ daemon' = daemon /\ native' = native
      BY <2>1, ImagesAreTransfers DEF HandlePublish, HandleRelease, StoreWrites
    <2>2. ASSUME \/ NativeWrite \/ NativeAnswer \/ ReleaseImages
                 \/ \E s \in Submission : HandleQueue(s) \/ HandleRevoke(s)
                 \/ \E a \in App : DropConnection(a)
          PROVE  /\ journal' = journal
                 /\ store' = store \/ StoreWrites
                 /\ app' = app
                 /\ DaemonWrites
                 /\ native' = native \/ NativeWrite
      BY <2>2 DEF NativeWrite, NativeAnswer, ReleaseImages, HandleQueue, HandleRevoke,
                  DropConnection, StoreWrites, DaemonWrites
    <2> QED
      BY <1>3, <2>1, <2>2 DEF DaemonStep
  <1>4. ASSUME Fault
        PROVE  /\ journal' = journal /\ store' = store /\ AppWrites
               /\ daemon' = daemon \/ DaemonWrites
               /\ native' = native
    BY <1>4 DEF Fault, Disconnect, AppCrash, DaemonCrash, AppWrites, DaemonWrites
  <1> QED
    BY <1>1, <1>2, <1>3, <1>4 DEF ImageNext

LEMMA JournalStep ==
    ASSUME Types, ImageNext
    PROVE  journal' \in Journal
  <1>1. ASSUME NEW s \in Submission, PersistIntent(s)
        PROVE  journal' \in Journal
    <2>1. PICK t \in ImagesOf(s) : journal' = [journal EXCEPT !.intent = @ \cup {t}]
      BY <1>1 DEF PersistIntent
    <2>2. t \in Transfer
      BY ImagesAreTransfers
    <2> QED
      BY <2>1, <2>2 DEF Types, Journal
  <1>2. ASSUME NEW s \in Submission, ClaimSubject(s) \/ StoreQueue(s)
        PROVE  journal' \in Journal
    BY <1>2 DEF ClaimSubject, StoreQueue, Types, Journal
  <1>3. ASSUME NEW s \in Submission, TakeResult(s)
        PROVE  journal' \in Journal
    BY <1>3, RecordedTypes DEF TakeResult, Types
  <1>4. ASSUME NEW a \in App, TakeStatus(a)
        PROVE  journal' \in Journal
    <2>1. app[a].rec \in Recoveries /\ app[a].rec.at.item \in Item
      BY <1>4 DEF TakeStatus, Types, Window, Recoveries
    <2>2. SubmissionOf[app[a].rec.at.item.t] \in Submission
      BY <2>1, ImageAssumption DEF Item, ImageAssumption
    <2> QED
      BY <1>4, <2>2, RecordedTypes DEF TakeStatus, Types
  <1>5. ASSUME NEW a \in App, TakeRecovered(a)
        PROVE  journal' \in Journal
    <2>1. app[a].rec \in Recoveries /\ app[a].rec.at.item \in Item
      BY <1>5 DEF TakeRecovered, Types, Window, Recoveries
    <2>2. app[a].rec.at.item.t \in Transfer
      BY <2>1 DEF Item
    <2>3. \/ journal' = journal
          \/ journal' = [journal EXCEPT !.done =
                 IF app[a].rec.at.answer = "released"
                 THEN @ \cup {app[a].rec.at.item.t} ELSE @]
      BY <1>5 DEF TakeRecovered
    <2> QED
      BY <2>2, <2>3 DEF Types, Journal
  <1> QED
    BY <1>1, <1>2, <1>3, <1>4, <1>5, Writers DEF JournalWrites, Types

LEMMA StoreStep ==
    ASSUME Types, ImageNext
    PROVE  store' \in Store
  <1>1. ASSUME NEW s \in Submission, HandleQueue(s)
        PROVE  store' \in Store
    BY <1>1 DEF HandleQueue, Types, Store
  <1>2. ASSUME NEW s \in Submission, NEW t \in Transfer, HandlePublish(s, t)
        PROVE  store' \in Store
    <2> DEFINE ref == store.ref \cup {t}
               file == store.file \cup {t}
    <2>1. store' = store \/ store' = [store EXCEPT !.ref = ref, !.file = file]
      BY <1>2 DEF HandlePublish
    <2>2. store \in Store /\ ref \in SUBSET Transfer /\ file \in SUBSET Transfer
      BY DEF Types, Store
    <2> HIDE DEF ref, file
    <2> QED
      BY <2>1, <2>2 DEF Store
  <1>3. ASSUME NEW s \in Submission, NEW t \in Transfer, HandleRelease(s, t)
        PROVE  store' \in Store
    BY <1>3, ReleasedTypes DEF HandleRelease, Types
  <1>4. ASSUME NEW a \in App, AskStatus(a)
        PROVE  store' \in Store
    BY <1>4, ReleasedTypes, ImagesAreTransfers DEF AskStatus, Types, ImagesOf
  <1>5. ASSUME NEW a \in App, AskRecover(a)
        PROVE  store' \in Store
    <2>1. PICK i \in app[a].rec.todo :
              store' = IF i.release THEN Released(store, {i.t}) ELSE store
      BY <1>5 DEF AskRecover
    <2>2. i.t \in Transfer
      BY <1>5 DEF AskRecover, Types, Window, Recoveries, Item
    <2> QED
      BY <2>1, <2>2, ReleasedTypes DEF Types
  <1>6. ASSUME NativeWrite \/ NativeAnswer
        PROVE  store' \in Store
    <2>1. daemon.busy.s \in Submission
      BY <1>6 DEF NativeWrite, NativeAnswer, Types, Daemon, Busy
    <2>2. PICK status \in Known : store' = store \/ store' = [store EXCEPT !.result[daemon.busy.s] = status]
      BY <1>6 DEF NativeWrite, NativeAnswer, Known
    <2> DEFINE result == [store.result EXCEPT ![daemon.busy.s] = status]
    <2>3. result \in Results
      <3>1. store.result \in Results
        BY DEF Types, Store
      <3> QED
        BY <2>1, <3>1 DEF Results
    <2>4. store' = store \/ store' = [store EXCEPT !.result = result]
      BY <2>2 DEF Types, Store
    <2> HIDE DEF result
    <2> QED
      BY <2>3, <2>4 DEF Types, Store
  <1>7. ASSUME ReleaseImages
        PROVE  store' \in Store
    <2>1. daemon.busy.s \in Submission
      BY <1>7 DEF ReleaseImages, Types, Daemon, Busy
    <2>2. store' = store \/ \E t \in ImagesOf(daemon.busy.s) : store' = Released(store, {t})
      BY <1>7 DEF ReleaseImages
    <2>3. ASSUME NEW t \in ImagesOf(daemon.busy.s), store' = Released(store, {t})
          PROVE  store' \in Store
      <3>1. store \in Store /\ {t} \in SUBSET Transfer
        BY <2>1, ImagesAreTransfers DEF Types
      <3> QED
        BY <2>3, <3>1, ReleasedTypes
    <2> QED
      BY <2>2, <2>3 DEF Types
  <1> QED
    BY <1>1, <1>2, <1>3, <1>4, <1>5, <1>6, <1>7, Writers DEF StoreWrites, Types

LEMMA AppStep ==
    ASSUME Types, ImageNext
    PROVE  app' \in [App -> Window]
  <1>1. ASSUME NEW a \in App, NEW rec \in {None} \cup Recoveries,
               app' = [app EXCEPT ![a].rec = rec]
        PROVE  app' \in [App -> Window]
    BY <1>1 DEF Types, Window
  <1>2. ASSUME NEW a \in App, NEW unknown \in SUBSET Subject,
               app' = [app EXCEPT ![a].unknown = unknown]
        PROVE  app' \in [App -> Window]
    BY <1>2 DEF Types, Window
  <1>3. ASSUME NEW s \in Submission, Begin(s) \/ TakeResult(s)
        PROVE  app' \in [App -> Window]
    <2>1. AppOf[s] \in App
      BY ImageAssumption DEF ImageAssumption
    <2>2. CASE Begin(s)
      <3>1. app' = [app EXCEPT ![AppOf[s]].rec = Recovering(s, Work(journal))]
        BY <2>2 DEF Begin
      <3> QED
        BY <1>1, <2>1, <3>1, FirstTypes, RecoveringTypes DEF Types
    <2>3. CASE TakeResult(s)
      <3>1. app' = [app EXCEPT ![AppOf[s]].rec = Recovering(s, Work(journal'))]
        BY <2>3 DEF TakeResult
      <3>2. journal' \in Journal
        BY JournalStep
      <3>3. Work(journal') \in SUBSET Item
        BY <3>2, FirstTypes
      <3> QED
        BY <1>1, <2>1, <3>1, <3>3, RecoveringTypes
    <2> QED
      BY <1>3, <2>2, <2>3
  <1>4. ASSUME NEW s \in Submission, ClaimNativeWrite(s) \/ Finish(s)
        PROVE  app' \in [App -> Window]
    <2> DEFINE more == app[AppOf[s]].unknown \cup {SubjectOf[s]}
               less == app[AppOf[s]].unknown \ {SubjectOf[s]}
    <2>1. AppOf[s] \in App /\ more \in SUBSET Subject /\ less \in SUBSET Subject
      BY ImageAssumption DEF ImageAssumption, Types, Window
    <2>2. \/ app' = [app EXCEPT ![AppOf[s]].unknown = more]
          \/ app' = [app EXCEPT ![AppOf[s]].unknown = less]
      BY <1>4 DEF ClaimNativeWrite, Finish
    <2> HIDE DEF more, less
    <2> QED
      BY <1>2, <2>1, <2>2
  <1>5. ASSUME NEW a \in App, StartRecovery(a) \/ Disconnect(a)
        PROVE  app' \in [App -> Window]
    <2>1. \/ app' = [app EXCEPT ![a].rec = Recovering(None, Work(journal))]
          \/ app' = [app EXCEPT ![a].rec = None]
      BY <1>5 DEF StartRecovery, Disconnect
    <2> QED
      BY <1>1, <2>1, FirstTypes, RecoveringTypes DEF Types
  <1>6. ASSUME NEW a \in App, AskStatus(a) \/ AskRecover(a)
        PROVE  app' \in [App -> Window]
    <2>1. app[a].rec \in Recoveries
      BY <1>6 DEF AskStatus, AskRecover, Types, Window
    <2>2. \A s \in Submission : StatusOf(s) \in Answers
      BY DEF StatusOf, Answers, Types, Store, Results, Known
    <2>3. \A i \in Item : SubmissionOf[i.t] \in Submission
      BY ImageAssumption DEF Item, ImageAssumption
    <2>4. app[a].rec.todo \subseteq Item
      BY <2>1 DEF Recoveries
    <2>5. \E i \in Item, answer \in Answers :
              app' = [app EXCEPT ![a].rec.at = [item |-> i, answer |-> answer]]
      <3>1. CASE AskStatus(a)
        BY <2>2, <2>3, <2>4, <3>1 DEF AskStatus
      <3>2. CASE AskRecover(a)
        <4>1. PICK i \in app[a].rec.todo :
                  app' = [app EXCEPT ![a].rec.at =
                      [item |-> i, answer |-> IF i.t \in store'.released THEN "released"
                                              ELSE IF i.t \in store.ref THEN "reference"
                                              ELSE "missing"]]
          BY <3>2 DEF AskRecover
        <4> QED
          BY <2>4, <4>1 DEF Answers
      <3> QED
        BY <1>6, <3>1, <3>2
    <2>6. PICK i \in Item, answer \in Answers :
              app' = [app EXCEPT ![a].rec.at = [item |-> i, answer |-> answer]]
      BY <2>5
    <2> DEFINE rec == [app[a].rec EXCEPT !.at = [item |-> i, answer |-> answer]]
    <2>7. rec \in Recoveries
      BY <2>1 DEF Recoveries
    <2>8. app' = [app EXCEPT ![a].rec = rec]
      BY <2>6 DEF Types, Window
    <2> HIDE DEF rec
    <2> QED
      BY <1>1, <2>7, <2>8
  <1>7. ASSUME NEW a \in App, TakeStatus(a)
        PROVE  app' \in [App -> Window]
    <2> DEFINE status == app[a].rec.at.answer
               s == SubmissionOf[app[a].rec.at.item.t]
               Informed(i) == IF SubmissionOf[i.t] = s
                              THEN [i EXCEPT !.asked = TRUE,
                                             !.release = @ \/ MayRelease(status)]
                              ELSE i
               todo == {Informed(i) : i \in app[a].rec.todo}
               rec == [app[a].rec EXCEPT !.at = None, !.todo = todo]
    <2>1. app[a].rec \in Recoveries /\ app[a].rec.todo \subseteq Item
      BY <1>7 DEF TakeStatus, Types, Window, Recoveries
    <2>2. ASSUME NEW i \in Item PROVE Informed(i) \in Item
      <3>1. (i.release \/ MayRelease(status)) \in BOOLEAN
        BY DEF MayRelease
      <3> QED
        BY <3>1 DEF Item
    <2>3. todo \in SUBSET Item
      BY <2>1, <2>2
    <2>4. app' = [app EXCEPT ![a].rec.at = None, ![a].rec.todo = todo]
      BY <1>7, Zenon DEF TakeStatus
    <2> HIDE DEF todo
    <2>5. rec \in Recoveries
      BY <2>1, <2>3 DEF Recoveries
    <2>6. app' = [app EXCEPT ![a].rec = rec]
      BY <2>4 DEF Types, Window
    <2> HIDE DEF rec
    <2> QED
      BY <1>1, <2>5, <2>6
  <1>8. ASSUME NEW a \in App, TakeRecovered(a)
        PROVE  app' \in [App -> Window]
    <2>1. app[a].rec \in Recoveries
      BY <1>8 DEF TakeRecovered, Types, Window
    <2>2. /\ app[a].rec.for \in Submission \cup {None}
          /\ app[a].rec.todo \ {app[a].rec.at.item} \in SUBSET Item
      BY <2>1 DEF Recoveries
    <2>3. \/ app' = [app EXCEPT ![a].rec = None]
          \/ app' = [app EXCEPT ![a].rec =
                 Recovering(app[a].rec.for, app[a].rec.todo \ {app[a].rec.at.item})]
      BY <1>8 DEF TakeRecovered
    <2> QED
      BY <1>1, <2>2, <2>3, RecoveringTypes
  <1>9. ASSUME NEW a \in App, AppCrash(a)
        PROVE  app' \in [App -> Window]
    BY <1>9, NewTypes DEF AppCrash, Types
  <1>10. ASSUME DaemonCrash
         PROVE  app' \in [App -> Window]
    BY <1>10 DEF DaemonCrash, Types, Window
  <1> QED
    BY <1>3, <1>4, <1>5, <1>6, <1>7, <1>8, <1>9, <1>10, Writers DEF AppWrites, Types

LEMMA DaemonTypes ==
    ASSUME Types, ImageNext
    PROVE  daemon' \in Daemon
  <1>1. ASSUME NEW active \in SUBSET Submission, daemon' = [daemon EXCEPT !.active = active]
        PROVE  daemon' \in Daemon
    BY <1>1 DEF Types, Daemon
  <1>2. ASSUME NEW busy \in Busy, daemon' = [daemon EXCEPT !.busy = busy]
        PROVE  daemon' \in Daemon
    BY <1>2 DEF Types, Daemon
  <1>3. daemon.active \in SUBSET Submission /\ daemon.busy \in Busy
    BY DEF Types, Daemon
  <1>4. ASSUME NEW s \in Submission, Activate(s) \/ HandleRevoke(s)
        PROVE  daemon' \in Daemon
    <2> DEFINE older == {x \in TasksOf(AppOf[s]) : x < s}
               more == (daemon.active \ older) \cup {s}
               less == daemon.active \ {s}
    <2>1. more \in SUBSET Submission /\ less \in SUBSET Submission
      BY <1>3
    <2>2. daemon' = [daemon EXCEPT !.active = more] \/ daemon' = [daemon EXCEPT !.active = less]
      BY <1>4 DEF Activate, HandleRevoke
    <2> HIDE DEF more, less
    <2> QED
      BY <1>1, <2>1, <2>2
  <1>5. ASSUME NEW s \in Submission, HandleQueue(s)
        PROVE  daemon' \in Daemon
    <2>1. [s |-> s, step |-> "claimed"] \in Busy
      BY DEF Busy
    <2>2. daemon' = daemon \/ daemon' = [daemon EXCEPT !.busy = [s |-> s, step |-> "claimed"]]
      BY <1>5 DEF HandleQueue
    <2> QED
      BY <1>2, <2>1, <2>2 DEF Types
  <1>6. ASSUME NativeWrite \/ NativeAnswer \/ ReleaseImages
        PROVE  daemon' \in Daemon
    <2>1. daemon.busy \in [s : Submission, step : {"claimed", "written", "releasing"}]
      BY <1>3, <1>6 DEF NativeWrite, NativeAnswer, ReleaseImages, Busy
    <2>2. \/ daemon' = daemon
          \/ daemon' = [daemon EXCEPT !.busy = None]
          \/ daemon' = [daemon EXCEPT !.busy.step = "written"]
          \/ daemon' = [daemon EXCEPT !.busy.step = "releasing"]
      BY <1>6 DEF NativeWrite, NativeAnswer, ReleaseImages
    <2> DEFINE moved(step) == [daemon.busy EXCEPT !.step = step]
    <2>3. None \in Busy /\ moved("written") \in Busy /\ moved("releasing") \in Busy
      BY <2>1 DEF Busy
    <2>4. \/ daemon' = daemon
          \/ daemon' = [daemon EXCEPT !.busy = None]
          \/ daemon' = [daemon EXCEPT !.busy = moved("written")]
          \/ daemon' = [daemon EXCEPT !.busy = moved("releasing")]
      BY <2>2 DEF Types, Daemon
    <2> HIDE DEF moved
    <2> QED
      BY <1>2, <2>3, <2>4 DEF Types
  <1>7. ASSUME NEW a \in App, DropConnection(a)
        PROVE  daemon' \in Daemon
    <2> DEFINE gone == {s \in TasksOf(a) : ~task[s].current /\ task[s].phase # "idle"}
               less == daemon.active \ gone
    <2>1. less \in SUBSET Submission /\ daemon' = [daemon EXCEPT !.active = less]
      BY <1>3, <1>7 DEF DropConnection
    <2> HIDE DEF less
    <2> QED
      BY <1>1, <2>1
  <1>8. ASSUME DaemonCrash
        PROVE  daemon' \in Daemon
    BY <1>8 DEF DaemonCrash, Daemon, Busy
  <1> QED
    BY <1>4, <1>5, <1>6, <1>7, <1>8, Writers DEF DaemonWrites, Types

LEMMA NativeTypes ==
    ASSUME Types, ImageNext
    PROVE  native' \in [Submission -> Native]
  <1>1. ASSUME NativeWrite
        PROVE  native' \in [Submission -> Native]
    <2> DEFINE s == daemon.busy.s
    <2>1. s \in Submission
      BY <1>1 DEF NativeWrite, Types, Daemon, Busy
    <2>2. \/ native' = native
          \/ \E input \in {None, "queued"} :
                native' = [native EXCEPT ![s] = [sent |-> @.sent + 1, input |-> input]]
      BY <1>1 DEF NativeWrite
    <2> HIDE DEF s
    <2>3. ASSUME NEW input \in {None, "queued"},
                 native' = [native EXCEPT ![s] = [sent |-> @.sent + 1, input |-> input]]
          PROVE  native' \in [Submission -> Native]
      BY <2>1, <2>3 DEF Types, Native
    <2> QED
      BY <2>2, <2>3 DEF Types
  <1>2. ASSUME NEW s \in Submission, NativeSnapshot(s)
        PROVE  native' \in [Submission -> Native]
    BY <1>2 DEF NativeSnapshot, Types, Native
  <1> QED
    BY <1>1, <1>2, Writers DEF Types

\* Requests and notifications are of the four kinds.
LEMMA WireTypes ==
    ASSUME Types, ImageNext
    PROVE  wire' \subseteq Wire
  <1>1. \A s \in Submission : Notices(s) \subseteq Wire
    BY NoticeTypes DEF Types
  <1>2. \A s \in Submission : /\ Message("queue", s, None) \in Wire
                              /\ \A t \in Transfer : Message("publish", s, t) \in Wire
    BY DEF Message, Wire
  <1>3. ASSUME NEW s \in Submission, Begin(s) \/ Revoke(s) \/ TaskStep(s) \/ NativeSnapshot(s)
        PROVE  wire' \subseteq Wire
    <2>1. CASE Begin(s)
      <3> DEFINE previous == {x \in TasksOf(AppOf[s]) : task[x].live}
      <3>1. wire' = wire \cup UNION {Notices(x) : x \in previous}
        BY <2>1 DEF Begin
      <3>2. previous \subseteq Submission
        BY DEF TasksOf
      <3> HIDE DEF previous
      <3> QED
        BY <1>1, <3>1, <3>2 DEF Types
    <2>2. CASE Revoke(s) \/ NativeSnapshot(s)
      BY <1>1, <2>2 DEF Revoke, NativeSnapshot, Types
    <2>3. CASE Publish(s)
      <3>1. PICK t \in (ImagesOf(s) \cap journal.intent) \ task[s].refs :
                wire' = wire \cup {Message("publish", s, t)}
        BY <2>3 DEF Publish
      <3> QED
        BY <1>2, <3>1, ImagesAreTransfers DEF Types
    <2>4. CASE SubmitQueue(s) \/ Finish(s) \/ Fail(s)
      BY <1>1, <1>2, <2>4 DEF SubmitQueue, Finish, Fail, Types
    <2>5. CASE \/ Activate(s) \/ PersistIntent(s) \/ ClaimSubject(s) \/ StoreQueue(s)
               \/ ClaimNativeWrite(s) \/ TakeResult(s)
      BY <2>5 DEF Activate, PersistIntent, ClaimSubject, StoreQueue, ClaimNativeWrite,
                  TakeResult, Types
    <2> QED
      BY <1>3, <2>1, <2>2, <2>3, <2>4, <2>5 DEF TaskStep
  <1>4. ASSUME NEW a \in App, StartRecovery(a) \/ RecoveryStep(a)
        PROVE  wire' \subseteq Wire
    BY <1>4 DEF StartRecovery, RecoveryStep, AskStatus, TakeStatus, AskRecover,
                TakeRecovered, Types
  <1>5. ASSUME DaemonStep \/ Fault
        PROVE  wire' \subseteq Wire
    <2>1. wire' \subseteq wire
      BY <1>5 DEF DaemonStep, Fault, NativeWrite, NativeAnswer, ReleaseImages, HandleQueue,
                  HandleRevoke, HandlePublish, HandleRelease, DropConnection, Takes,
                  Disconnect, AppCrash, DaemonCrash
    <2> QED
      BY <2>1 DEF Types
  <1> QED
    BY <1>3, <1>4, <1>5 DEF ImageNext

\* A task that goes on to another phase, perhaps awaiting an answer.
LEMMA PhaseTypes ==
    ASSUME NEW k \in Task, NEW phase \in Phases, NEW reply \in Replies
    PROVE  /\ [k EXCEPT !.phase = phase] \in Task
           /\ [k EXCEPT !.phase = phase, !.reply = reply] \in Task
           /\ [k EXCEPT !.phase = phase, !.handed = TRUE] \in Task
           /\ [k EXCEPT !.reply = reply] \in Task
  BY DEF Task

LEMMA TaskChanges ==
    ASSUME Types, NEW s \in Submission, NEW k \in Task, task' = [task EXCEPT ![s] = k]
    PROVE  task' \in [Submission -> Task]
  BY DEF Types

\* An answer of the daemon or of the own recovery.
LEMMA AnswerTypes ==
    ASSUME Types, NEW s \in Submission, NEW reply \in Replies,
           Reply(s, reply) \/ task' = Answered(s, reply)
    PROVE  task' \in [Submission -> Task]
  <1> DEFINE k == [task[s] EXCEPT !.reply = reply]
  <1>1. task[s] \in Task
    BY DEF Types
  <1>2. k \in Task
    BY <1>1 DEF Task
  <1>3. task' = task \/ task' = [task EXCEPT ![s] = k]
    BY DEF Reply, Answered, Types
  <1> HIDE DEF k
  <1> QED
    BY <1>2, <1>3, TaskChanges DEF Types

LEMMA BeginTypes ==
    ASSUME Types, NEW s \in Submission, Begin(s)
    PROVE  task' \in [Submission -> Task]
  <1> DEFINE k == [NewTask EXCEPT !.phase = "recovering", !.live = TRUE, !.current = TRUE,
                                  !.leased = TRUE, !.reply = FirstReply(journal)]
  <1>1. FirstReply(journal) \in Replies
    BY FirstTypes DEF Types, Replies
  <1>2. k \in Task
    BY <1>1 DEF NewTask, Task, Phases
  <1>3. \A x \in Submission : task[x] \in Task /\ RevokedTask(task[x]) \in Task
    BY RevokedTypes DEF Types
  <1>4. /\ task' = [x \in Submission |-> task'[x]]
        /\ \A x \in Submission : task'[x] \in {k, task[x], RevokedTask(task[x])}
    BY Zenon DEF Begin
  <1> HIDE DEF k
  <1> QED
    BY <1>2, <1>3, <1>4

\* A task ends, its images released unless they were handed over.
Ended(s) == [RevokedTask(task[s]) EXCEPT !.phase = "over", !.reply = None]
Finished(s) ==
    [RevokedTask([task[s] EXCEPT !.refs = {}, !.leased = FALSE])
        EXCEPT !.phase = "over", !.reply = None]

LEMMA EndTypes ==
    ASSUME Types, NEW s \in Submission
    PROVE  Ended(s) \in Task /\ Finished(s) \in Task
  <1>1. task[s] \in Task
    BY DEF Types
  <1>2. [task[s] EXCEPT !.refs = {}, !.leased = FALSE] \in Task
    BY <1>1 DEF Task
  <1>3. "over" \in Phases /\ None \in Replies
    BY DEF Phases, Replies
  <1> QED
    BY <1>1, <1>2, <1>3, RevokedTypes, PhaseTypes DEF Ended, Finished

LEMMA TaskStepTypes ==
    ASSUME Types, NEW s \in Submission, TaskStep(s) \/ Revoke(s)
    PROVE  task' \in [Submission -> Task]
  <1>1. task[s] \in Task
    BY DEF Types
  <1>2. /\ {"active", "uploading", "publishing", "claimed", "queued", "handed", "asked",
            "settling", "over"} \subseteq Phases
        /\ None \in Replies /\ FirstReply(journal') \in Replies
    <2>1. FirstReply(journal') \in {"ok", None}
      BY JournalStep, FirstTypes DEF ImageNext
    <2> QED
      BY <2>1 DEF Phases, Replies
  <1>3. CASE \/ Activate(s) \/ PersistIntent(s) \/ ClaimSubject(s) \/ StoreQueue(s)
             \/ ClaimNativeWrite(s) \/ SubmitQueue(s) \/ TakeResult(s)
    <2>1. ASSUME NEW phase \in Phases,
                 task' = [task EXCEPT ![s] = [task[s] EXCEPT !.phase = phase]]
          PROVE  task' \in [Submission -> Task]
      <3>1. [task[s] EXCEPT !.phase = phase] \in Task
        BY <1>1, <1>2, PhaseTypes
      <3> QED
        BY <2>1, <3>1, TaskChanges
    <2>2. ASSUME NEW phase \in Phases,
                 task' = [task EXCEPT ![s] = [task[s] EXCEPT !.phase = phase, !.handed = TRUE]]
          PROVE  task' \in [Submission -> Task]
      <3>1. [task[s] EXCEPT !.phase = phase, !.handed = TRUE] \in Task
        BY <1>1, <1>2, PhaseTypes
      <3> QED
        BY <2>2, <3>1, TaskChanges
    <2>3. ASSUME NEW phase \in Phases, NEW reply \in Replies,
                 task' = [task EXCEPT ![s] = [task[s] EXCEPT !.phase = phase, !.reply = reply]]
          PROVE  task' \in [Submission -> Task]
      <3>1. [task[s] EXCEPT !.phase = phase, !.reply = reply] \in Task
        BY <1>1, PhaseTypes
      <3> QED
        BY <2>3, <3>1, TaskChanges
    <2>4. CASE Activate(s)
      <3>1. task' = [task EXCEPT ![s] = [task[s] EXCEPT !.phase = "active"]]
        BY <2>4 DEF Activate
      <3> QED
        BY <1>2, <2>1, <3>1
    <2>5. CASE StoreQueue(s)
      <3>1. task' = [task EXCEPT ![s] = [task[s] EXCEPT !.phase = "queued"]]
        BY <2>5 DEF StoreQueue
      <3> QED
        BY <1>2, <2>1, <3>1
    <2>6. CASE SubmitQueue(s)
      <3>1. task' = [task EXCEPT ![s] = [task[s] EXCEPT !.phase = "asked"]]
        BY <2>6 DEF SubmitQueue
      <3> QED
        BY <1>2, <2>1, <3>1
    <2>7. CASE ClaimNativeWrite(s)
      <3>1. task' = [task EXCEPT ![s] = [task[s] EXCEPT !.phase = "handed", !.handed = TRUE]]
        BY <2>7 DEF ClaimNativeWrite, Types
      <3> QED
        BY <1>2, <2>2, <3>1
    <2>8. CASE PersistIntent(s)
      <3>1. task' = [task EXCEPT ![s] = [task[s] EXCEPT !.phase = "uploading", !.reply = None]]
        BY <2>8 DEF PersistIntent, Types
      <3> QED
        BY <1>2, <2>3, <3>1
    <2>9. CASE ClaimSubject(s)
      <3>1. task' = [task EXCEPT ![s] = [task[s] EXCEPT !.phase = "claimed", !.reply = None]]
        BY <2>9 DEF ClaimSubject, Types
      <3> QED
        BY <1>2, <2>3, <3>1
    <2>10. CASE TakeResult(s)
      <3> DEFINE reply == FirstReply(journal')
      <3>1. task' = [task EXCEPT ![s] = [task[s] EXCEPT !.phase = "settling", !.reply = reply]]
        BY <2>10 DEF TakeResult, Types
      <3>2. reply \in Replies
        BY <1>2
      <3> HIDE DEF reply
      <3> QED
        BY <1>2, <2>3, <3>1, <3>2
    <2> QED
      BY <1>3, <2>4, <2>5, <2>6, <2>7, <2>8, <2>9, <2>10
  <1>4. CASE Publish(s)
    <2>1. PICK t \in (ImagesOf(s) \cap journal.intent) \ task[s].refs :
              task' = [task EXCEPT ![s].phase = "publishing", ![s].refs = @ \cup {t}]
      BY <1>4 DEF Publish
    <2> DEFINE refs == task[s].refs \cup {t}
               k == [task[s] EXCEPT !.phase = "publishing", !.refs = refs]
    <2>2. refs \in SUBSET Transfer
      BY <1>1, <2>1, ImagesAreTransfers DEF Task
    <2>3. task' = [task EXCEPT ![s] = k]
      BY <2>1 DEF Types
    <2> HIDE DEF refs
    <2>4. k \in Task
      BY <1>1, <1>2, <2>2 DEF Task
    <2> HIDE DEF k
    <2> QED
      BY <2>3, <2>4, TaskChanges
  <1>5. CASE Finish(s) \/ Fail(s) \/ Revoke(s)
    <2>1. \/ task' = [task EXCEPT ![s] = Ended(s)]
          \/ task' = [task EXCEPT ![s] = Finished(s)]
          \/ task' = [task EXCEPT ![s] = RevokedTask(task[s])]
      BY <1>5 DEF Finish, Fail, Revoke, Ended, Finished
    <2> QED
      BY <1>1, <2>1, EndTypes, RevokedTypes, TaskChanges
  <1> QED
    BY <1>3, <1>4, <1>5 DEF TaskStep

LEMMA LossTypes ==
    ASSUME Types, NEW apps
    PROVE  LostTasks(apps) \in [Submission -> Task]
  BY LostTypes DEF LostTasks, Types

LEMMA TaskTypes ==
    ASSUME Types, ImageNext
    PROVE  task' \in [Submission -> Task]
  <1>1. ASSUME NEW s \in Submission, Begin(s) \/ Revoke(s) \/ TaskStep(s) \/ NativeSnapshot(s)
        PROVE  task' \in [Submission -> Task]
    BY <1>1, BeginTypes, TaskStepTypes DEF NativeSnapshot, Types
  <1>2. ASSUME NEW a \in App, StartRecovery(a) \/ RecoveryStep(a)
        PROVE  task' \in [Submission -> Task]
    <2>1. CASE TakeRecovered(a)
      <3>1. app[a].rec.for \in Submission \cup {None}
        BY <2>1 DEF TakeRecovered, Types, Window, Recoveries
      <3>2. \E reply \in Replies : task' = task \/ task' = Answered(app[a].rec.for, reply)
        BY <2>1 DEF TakeRecovered, Replies
      <3>3. CASE app[a].rec.for = None
        BY <3>2, <3>3 DEF Answered, Types
      <3>4. CASE app[a].rec.for # None
        BY <3>1, <3>2, <3>4, AnswerTypes DEF Types
      <3> QED
        BY <3>3, <3>4
    <2>2. CASE ~TakeRecovered(a)
      BY <1>2, <2>2 DEF StartRecovery, RecoveryStep, AskStatus, TakeStatus, AskRecover, Types
    <2> QED
      BY <2>1, <2>2
  <1>3. ASSUME DaemonStep
        PROVE  task' \in [Submission -> Task]
    <2>1. task' = task \/ \E s \in Submission, reply \in Replies : Reply(s, reply)
      <3>1. ASSUME NativeWrite \/ NativeAnswer \/ ReleaseImages
            PROVE  task' = task \/ \E s \in Submission, reply \in Replies : Reply(s, reply)
        <4>1. daemon.busy.s \in Submission
          BY <3>1 DEF NativeWrite, NativeAnswer, ReleaseImages, Types, Daemon, Busy
        <4>2. store.result[daemon.busy.s] \in Replies /\ "unknown" \in Replies
          BY <4>1 DEF Types, Store, Results, Replies
        <4> QED
          BY <3>1, <4>1, <4>2 DEF NativeWrite, NativeAnswer, ReleaseImages
      <3>2. ASSUME NEW s \in Submission,
                   \/ HandleQueue(s) \/ HandleRevoke(s)
                   \/ \E t \in ImagesOf(s) : HandlePublish(s, t) \/ HandleRelease(s, t)
            PROVE  task' = task \/ \E x \in Submission, reply \in Replies : Reply(x, reply)
        BY <3>2 DEF HandleQueue, HandleRevoke, HandlePublish, HandleRelease, Replies
      <3>3. ASSUME NEW a \in App, DropConnection(a) PROVE task' = task
        BY <3>3 DEF DropConnection
      <3> QED
        BY <1>3, <3>1, <3>2, <3>3 DEF DaemonStep
    <2> QED
      BY <2>1, AnswerTypes DEF Types
  <1>4. ASSUME Fault
        PROVE  task' \in [Submission -> Task]
    <2>1. CASE DaemonCrash \/ \E a \in App : Disconnect(a)
      BY <2>1, LossTypes DEF DaemonCrash, Disconnect
    <2>2. ASSUME NEW a \in App, AppCrash(a) PROVE task' \in [Submission -> Task]
      <3> DEFINE k == [NewTask EXCEPT !.phase = "over"]
      <3>1. k \in Task
        BY DEF NewTask, Task, Phases, Replies
      <3>2. task' = [s \in Submission |->
                        IF AppOf[s] = a /\ task[s].phase # "idle" THEN k ELSE task[s]]
        BY <2>2 DEF AppCrash
      <3> HIDE DEF k
      <3> QED
        BY <3>1, <3>2 DEF Types
    <2> QED
      BY <1>4, <2>1, <2>2 DEF Fault
  <1> QED
    BY <1>1, <1>2, <1>3, <1>4 DEF ImageNext

LEMMA FaultTypes ==
    ASSUME Types, ImageNext
    PROVE  faults' \in 0..MaxFault
  <1>1. faults' = faults \/ (faults < MaxFault /\ faults' = faults + 1)
    BY DEF ImageNext, Begin, Revoke, TaskStep, NativeSnapshot, Activate, PersistIntent, Publish,
           ClaimSubject, StoreQueue, ClaimNativeWrite, SubmitQueue, TakeResult, Finish,
           Fail, StartRecovery, RecoveryStep, AskStatus, TakeStatus, AskRecover, TakeRecovered,
           DaemonStep, NativeWrite, NativeAnswer, ReleaseImages, HandleQueue,
           HandleRevoke, HandlePublish, HandleRelease, DropConnection,
           Fault, Disconnect, AppCrash, DaemonCrash
  <1> QED
    BY <1>1, ImageAssumption DEF Types, ImageAssumption

LEMMA ImageInitTypes == ImageInit => Types
  <1> SUFFICES ASSUME ImageInit PROVE Types
    OBVIOUS
  <1>1. [s \in Submission |-> None] \in Results
    BY DEF Results
  <1>2. journal \in Journal /\ store \in Store
    BY <1>1 DEF ImageInit, Journal, Store
  <1>3. task \in [Submission -> Task] /\ app \in [App -> Window]
    BY NewTypes DEF ImageInit
  <1>4. daemon \in Daemon /\ native \in [Submission -> Native] /\ wire \subseteq Wire
    BY DEF ImageInit, Daemon, Busy, Native
  <1> QED
    BY <1>2, <1>3, <1>4, ImageAssumption DEF Types, ImageInit, ImageAssumption

LEMMA TypesStep ==
    ASSUME Types, [ImageNext]_imageVars
    PROVE  Types'
  <1>1. CASE ImageNext
    <2>1. /\ journal' \in Journal /\ store' \in Store /\ app' \in [App -> Window]
          /\ daemon' \in Daemon /\ native' \in [Submission -> Native] /\ wire' \subseteq Wire
          /\ task' \in [Submission -> Task] /\ faults' \in 0..MaxFault
      BY <1>1, JournalStep, StoreStep, AppStep, DaemonTypes, NativeTypes, WireTypes,
         TaskTypes, FaultTypes
    <2> QED
      BY <2>1 DEF Types
  <1>2. CASE UNCHANGED imageVars
    BY <1>2 DEF imageVars, Types
  <1> QED
    BY <1>1, <1>2

\* The records of both sides, the tasks and the requests keep their types
\* (cli_image_submission.rs, cli_image_staging_rpc.rs).
THEOREM ImageTypesHold == ImageSpec => []ImageTypeOK
  BY ImageInitTypes, TypesStep, TypesAreTypes, PTL DEF ImageSpec

-----------------------------------------------------------------------------
(* An image that is done with is gone *)

\* The answer that the recovery of a window was given and has not worked on yet.
Told(a) == app[a].rec # None /\ app[a].rec.at # None

\* Only the two requests of a recovery bring an answer.
LEMMA AnswersComeFromRequests ==
    ASSUME Types, ImageNext, NEW a \in App, Told(a)'
    PROVE  \/ Told(a) /\ app'[a].rec.at = app[a].rec.at
           \/ AskStatus(a) \/ AskRecover(a)
  <1>1. CASE app' = app
    BY <1>1 DEF Told
  <1>2. ASSUME NEW s \in Submission, NEW todo,
               app' = [app EXCEPT ![AppOf[s]].rec = Recovering(s, todo)]
        PROVE  Told(a) /\ app'[a].rec.at = app[a].rec.at
    BY <1>2 DEF Told, Recovering, Types, Window
  <1>3. ASSUME NEW s \in Submission, ClaimNativeWrite(s) \/ Finish(s)
        PROVE  Told(a) /\ app'[a].rec.at = app[a].rec.at
    <2>1. PICK new : app' = [app EXCEPT ![AppOf[s]].unknown = new]
      BY <1>3 DEF ClaimNativeWrite, Finish
    <2>2. app'[a].rec = app[a].rec
      BY <2>1 DEF Types, Window
    <2> QED
      BY <2>2 DEF Told
  <1>4. ASSUME NEW s \in Submission, Begin(s) \/ TakeResult(s)
        PROVE  Told(a) /\ app'[a].rec.at = app[a].rec.at
    BY <1>2, <1>4 DEF Begin, TakeResult
  <1>5. ASSUME NEW b \in App, b # a,
               \/ StartRecovery(b) \/ AskStatus(b) \/ TakeStatus(b) \/ AskRecover(b)
               \/ TakeRecovered(b) \/ Disconnect(b) \/ AppCrash(b)
        PROVE  Told(a) /\ app'[a].rec.at = app[a].rec.at
    <2>1. app'[a] = app[a]
      BY <1>5 DEF StartRecovery, AskStatus, TakeStatus, AskRecover, TakeRecovered,
                  Disconnect, AppCrash, Types
    <2> QED
      BY <2>1 DEF Told
  <1>6. ~(StartRecovery(a) \/ Disconnect(a) \/ AppCrash(a) \/ DaemonCrash)
    BY DEF StartRecovery, Disconnect, AppCrash, DaemonCrash, Told, Types, Window, Recovering,
           NewApp
  <1>7. ~TakeRecovered(a)
    BY DEF TakeRecovered, Told, Types, Window, Recovering
  <1>8. ~TakeStatus(a)
    <2> SUFFICES ASSUME TakeStatus(a) PROVE FALSE
      OBVIOUS
    <2> DEFINE todo == app'[a].rec.todo
    <2>1. PICK new : app' = [app EXCEPT ![a].rec.at = None, ![a].rec.todo = new]
      BY DEF TakeStatus
    <2>2. app[a] \in Window /\ app[a].rec \in Recoveries
      BY DEF TakeStatus, Types, Window
    <2>3. app'[a].rec = [app[a].rec EXCEPT !.at = None, !.todo = new]
      BY <2>1, <2>2 DEF Types, Window
    <2>4. app'[a].rec.at = None
      BY <2>2, <2>3 DEF Recoveries
    <2> QED
      BY <2>4 DEF Told
  <1> QED
    BY <1>1, <1>3, <1>4, <1>5, <1>6, <1>7, <1>8, Writers DEF AppWrites

GoneInv ==
    /\ store.released \cap store.file = {}
    /\ journal.done \subseteq store.released
    /\ \A a \in App : Told(a) /\ app[a].rec.at.answer = "released" =>
           app[a].rec.at.item.t \in store.released

\* An identifier that was released stays so, and no file of it comes back.
LEMMA ReleasedForGood ==
    ASSUME Types, ImageNext, store.released \cap store.file = {}
    PROVE  /\ store.released \subseteq store'.released
           /\ store'.released \cap store'.file = {}
  <1>1. ASSUME NEW ts \in SUBSET Transfer, store' = Released(store, ts)
        PROVE  /\ store.released \subseteq store'.released
               /\ store'.released \cap store'.file = {}
    BY <1>1, ReleasedTypes DEF Types
  <1>2. ASSUME NEW s \in Submission,
               HandleQueue(s) \/ NativeWrite \/ NativeAnswer \/ store' = store
        PROVE  store'.released = store.released /\ store'.file = store.file
    BY <1>2 DEF HandleQueue, NativeWrite, NativeAnswer, Types, Store
  <1>3. ASSUME NEW s \in Submission, NEW t \in Transfer, HandlePublish(s, t)
        PROVE  /\ store'.released = store.released
               /\ store'.released \cap store'.file = {}
    BY <1>3 DEF HandlePublish, Publishable, Types, Store
  <1>4. ASSUME NEW s \in Submission, NEW t \in Transfer, HandleRelease(s, t)
        PROVE  /\ store.released \subseteq store'.released
               /\ store'.released \cap store'.file = {}
    BY <1>1, <1>4 DEF HandleRelease
  <1>5. ASSUME NEW a \in App, AskStatus(a) \/ AskRecover(a)
        PROVE  \/ store' = store
               \/ \E ts \in SUBSET Transfer : store' = Released(store, ts)
    <2>1. CASE AskStatus(a)
      BY <2>1 DEF AskStatus, ImagesOf
    <2>2. CASE AskRecover(a)
      <3>1. PICK i \in app[a].rec.todo :
                store' = IF i.release THEN Released(store, {i.t}) ELSE store
        BY <2>2 DEF AskRecover
      <3>2. i.t \in Transfer
        BY <2>2 DEF AskRecover, Types, Window, Recoveries, Item
      <3>3. {i.t} \in SUBSET Transfer
        BY <3>2
      <3> QED
        BY <3>1, <3>3
    <2> QED
      BY <1>5, <2>1, <2>2
  <1>6. ASSUME ReleaseImages
        PROVE  \/ store' = store
               \/ \E ts \in SUBSET Transfer : store' = Released(store, ts)
    <2>1. \A t \in ImagesOf(daemon.busy.s) : {t} \in SUBSET Transfer
      BY DEF ImagesOf
    <2> QED
      BY <1>6, <2>1 DEF ReleaseImages
  <1>7. CASE store' = store
    BY <1>7
  <1>8. ASSUME NativeWrite \/ NativeAnswer
        PROVE  store'.released = store.released /\ store'.file = store.file
    BY <1>8 DEF NativeWrite, NativeAnswer, Types, Store
  <1> QED
    BY <1>1, <1>2, <1>3, <1>4, <1>5, <1>6, <1>7, <1>8, Writers DEF StoreWrites

LEMMA GoneStep ==
    ASSUME Types, GoneInv, ImageNext
    PROVE  GoneInv'
  <1>1. /\ store.released \subseteq store'.released
        /\ store'.released \cap store'.file = {}
    BY ReleasedForGood DEF GoneInv
  <1>2. journal'.done \subseteq store'.released
    <2>1. ASSUME NEW s \in Submission, NEW status
          PROVE  Recorded(s, status).done = journal.done
      BY DEF Recorded, Types, Journal
    <2>2. ASSUME NEW s \in Submission,
                 PersistIntent(s) \/ ClaimSubject(s) \/ StoreQueue(s) \/ TakeResult(s)
          PROVE  journal'.done = journal.done
      BY <2>1, <2>2 DEF PersistIntent, ClaimSubject, StoreQueue, TakeResult, Types, Journal
    <2>3. ASSUME NEW a \in App, TakeStatus(a)
          PROVE  journal'.done = journal.done
      BY <2>3 DEF TakeStatus, Recorded, Types, Journal
    <2>4. ASSUME NEW a \in App, TakeRecovered(a)
          PROVE  journal'.done \subseteq store'.released
      <3>1. Told(a)
        BY <2>4 DEF TakeRecovered, Told
      <3>2. \/ journal'.done = journal.done
            \/ /\ app[a].rec.at.answer = "released"
               /\ journal'.done = journal.done \cup {app[a].rec.at.item.t}
        BY <2>4 DEF TakeRecovered, Types, Journal
      <3> QED
        BY <1>1, <3>1, <3>2 DEF GoneInv
    <2>5. journal'.done = journal.done \/ \E a \in App : TakeRecovered(a)
      BY <2>2, <2>3, Writers DEF JournalWrites
    <2> QED
      BY <1>1, <2>4, <2>5 DEF GoneInv
  <1>3. ASSUME NEW a \in App, Told(a)', app'[a].rec.at.answer = "released"
        PROVE  app'[a].rec.at.item.t \in store'.released
    <2>1. CASE Told(a) /\ app'[a].rec.at = app[a].rec.at
      BY <1>1, <1>3, <2>1 DEF GoneInv
    <2>2. CASE AskStatus(a)
      <3>1. PICK i \in app[a].rec.todo :
                app' = [app EXCEPT ![a].rec.at =
                           [item |-> i, answer |-> StatusOf(SubmissionOf[i.t])]]
        BY <2>2 DEF AskStatus
      <3>2. app[a] \in Window /\ app[a].rec \in Recoveries
        BY <2>2 DEF AskStatus, Types, Window
      <3>3. app'[a].rec.at = [item |-> i, answer |-> StatusOf(SubmissionOf[i.t])]
        BY <3>1, <3>2 DEF Types, Window, Recoveries
      <3>4. i.t \in Transfer
        BY <3>2 DEF Recoveries, Item
      <3>5. SubmissionOf[i.t] \in Submission
        BY <3>4, ImageAssumption DEF ImageAssumption
      <3>6. StatusOf(SubmissionOf[i.t]) # "released"
        BY <3>5 DEF StatusOf, Types, Store, Results, Known
      <3> QED
        BY <1>3, <3>3, <3>6
    <2>3. CASE AskRecover(a)
      <3> DEFINE Said(i) == IF i.t \in store'.released THEN "released"
                            ELSE IF i.t \in store.ref THEN "reference" ELSE "missing"
      <3>1. PICK i \in app[a].rec.todo :
                app' = [app EXCEPT ![a].rec.at = [item |-> i, answer |-> Said(i)]]
        BY <2>3 DEF AskRecover
      <3>2. app[a] \in Window /\ app[a].rec \in Recoveries
        BY <2>3 DEF AskRecover, Types, Window
      <3>3. app'[a].rec.at = [item |-> i, answer |-> Said(i)]
        BY <3>1, <3>2 DEF Types, Window, Recoveries
      <3> QED
        BY <1>3, <3>3
    <2> QED
      BY <1>3, <2>1, <2>2, <2>3, AnswersComeFromRequests
  <1> QED
    BY <1>1, <1>2, <1>3 DEF GoneInv, Told

\* An image that a window has written off as released is no longer a file of the host,
\* and a publication that was still on its way does not bring it back
\* (cli_image_staging_rpc.rs: publication, release and recovery).
THEOREM ReleasedIsGone == ImageSpec => []DoneIsGone
  <1>1. ImageInit => GoneInv
    BY DEF ImageInit, GoneInv, Told, NewApp
  <1>2. Types /\ GoneInv /\ [ImageNext]_imageVars => GoneInv'
    <2>1. CASE ImageNext
      BY <2>1, GoneStep
    <2>2. CASE UNCHANGED imageVars
      BY <2>2 DEF imageVars, GoneInv, Told
    <2> QED
      BY <2>1, <2>2
  <1>3. GoneInv => DoneIsGone
    BY DEF GoneInv, DoneIsGone
  <1> QED
    BY <1>1, <1>2, <1>3, ImageTypesHold, TypesAreTypes, PTL DEF ImageSpec

-----------------------------------------------------------------------------
(* What a step may do to a submission *)

Unsent == {"idle", "recovering", "active", "uploading", "publishing"}
Claiming == {"claimed", "queued", "handed"}

LEMMA OwnStep ==
    ASSUME Types, NEW s \in Submission, TaskStep(s)
    PROVE  /\ \/ task[s].phase \in Unsent /\ task'[s].phase \in Unsent
              \/ ClaimSubject(s) /\ task[s].phase \in Unsent /\ task'[s].phase \in Claiming
              \/ task[s].phase \in Claiming /\ task'[s].phase \in Claiming
              \/ task'[s].phase \in {"asked", "settling", "over"}
           /\ SubmitQueue(s) => task'[s].phase = "asked" /\ task[s].phase = "handed"
           /\ task'[s].reply \in {task[s].reply, None, "ok"}
           /\ \A x \in Submission \ {s} : task'[x] = task[x]
  <1>1. task \in [Submission -> Task] /\ task[s] \in Task
    BY DEF Types
  <1>2. ASSUME NEW k, task' = [task EXCEPT ![s] = k]
        PROVE  task'[s] = k /\ \A x \in Submission \ {s} : task'[x] = task[x]
    BY <1>1, <1>2
  <1>3. ASSUME NEW phase, task' = [task EXCEPT ![s] = [task[s] EXCEPT !.phase = phase]]
        PROVE  task'[s].phase = phase /\ task'[s].reply = task[s].reply
    BY <1>1, <1>2, <1>3 DEF Task
  <1>4. ASSUME NEW phase, NEW reply,
               task' = [task EXCEPT ![s] = [task[s] EXCEPT !.phase = phase, !.reply = reply]]
        PROVE  task'[s].phase = phase /\ task'[s].reply = reply
    BY <1>1, <1>2, <1>4 DEF Task
  <1>5. CASE Activate(s)
    <2>1. task' = [task EXCEPT ![s] = [task[s] EXCEPT !.phase = "active"]]
      BY <1>5 DEF Activate
    <2>2. task[s].phase = "recovering" /\ ~SubmitQueue(s)
      BY <1>5 DEF Activate, GoesOn, SubmitQueue
    <2> QED
      BY <1>2, <1>3, <2>1, <2>2 DEF Unsent
  <1>6. CASE PersistIntent(s)
    <2>1. task' = [task EXCEPT ![s] = [task[s] EXCEPT !.phase = "uploading", !.reply = None]]
      BY <1>1, <1>6 DEF PersistIntent
    <2>2. task[s].phase \in {"active", "publishing"} /\ ~SubmitQueue(s)
      BY <1>6 DEF PersistIntent, GoesOn, SubmitQueue
    <2> QED
      BY <1>2, <1>4, <2>1, <2>2 DEF Unsent
  <1>7. CASE Publish(s)
    <2>1. PICK t : task' = [task EXCEPT ![s].phase = "publishing", ![s].refs = @ \cup {t}]
      BY <1>7 DEF Publish
    <2> DEFINE refs == task[s].refs \cup {t}
    <2>2. task' = [task EXCEPT ![s] = [task[s] EXCEPT !.phase = "publishing", !.refs = refs]]
      BY <1>1, <2>1
    <2> HIDE DEF refs
    <2>3. task'[s].phase = "publishing" /\ task'[s].reply = task[s].reply
      BY <1>1, <2>2 DEF Task
    <2>4. task[s].phase = "uploading" /\ ~SubmitQueue(s)
      BY <1>7 DEF Publish, SubmitQueue
    <2> QED
      BY <1>2, <2>2, <2>3, <2>4 DEF Unsent
  <1>8. CASE ClaimSubject(s)
    <2>1. task' = [task EXCEPT ![s] = [task[s] EXCEPT !.phase = "claimed", !.reply = None]]
      BY <1>1, <1>8 DEF ClaimSubject
    <2>2. task[s].phase = "publishing" /\ ~SubmitQueue(s)
      BY <1>8 DEF ClaimSubject, GoesOn, SubmitQueue
    <2> QED
      BY <1>2, <1>4, <1>8, <2>1, <2>2 DEF Unsent, Claiming
  <1>9. CASE StoreQueue(s)
    <2>1. task' = [task EXCEPT ![s] = [task[s] EXCEPT !.phase = "queued"]]
      BY <1>9 DEF StoreQueue
    <2>2. task[s].phase = "claimed" /\ ~SubmitQueue(s)
      BY <1>9 DEF StoreQueue, SubmitQueue
    <2> QED
      BY <1>2, <1>3, <2>1, <2>2 DEF Claiming
  <1>10. CASE ClaimNativeWrite(s)
    <2>1. task' = [task EXCEPT ![s] = [task[s] EXCEPT !.phase = "handed", !.handed = TRUE]]
      BY <1>1, <1>10 DEF ClaimNativeWrite
    <2>2. task[s].phase = "queued" /\ ~SubmitQueue(s)
      BY <1>10 DEF ClaimNativeWrite, SubmitQueue
    <2>3. task'[s].phase = "handed" /\ task'[s].reply = task[s].reply
      BY <1>1, <2>1 DEF Task
    <2> QED
      BY <1>2, <2>1, <2>2, <2>3 DEF Claiming
  <1>11. CASE SubmitQueue(s)
    <2>1. task' = [task EXCEPT ![s] = [task[s] EXCEPT !.phase = "asked"]]
      BY <1>11 DEF SubmitQueue
    <2>2. task[s].phase = "handed"
      BY <1>11 DEF SubmitQueue
    <2> QED
      BY <1>2, <1>3, <2>1, <2>2
  <1>12. CASE TakeResult(s)
    <2> DEFINE reply == FirstReply(journal')
    <2>1. task' = [task EXCEPT ![s] = [task[s] EXCEPT !.phase = "settling", !.reply = reply]]
      BY <1>1, <1>12 DEF TakeResult
    <2>2. reply \in {"ok", None} /\ ~SubmitQueue(s)
      BY <1>12 DEF FirstReply, TakeResult, SubmitQueue
    <2> HIDE DEF reply
    <2> QED
      BY <1>2, <1>4, <2>1, <2>2
  <1>13. CASE Finish(s) \/ Fail(s)
    <2>1. PICK k \in Task : task' = [task EXCEPT ![s] = [k EXCEPT !.phase = "over",
                                                                  !.reply = None]]
      <3>1. RevokedTask(task[s]) \in Task
        BY <1>1, RevokedTypes
      <3>2. [task[s] EXCEPT !.refs = {}, !.leased = FALSE] \in Task
        BY <1>1 DEF Task
      <3>3. RevokedTask([task[s] EXCEPT !.refs = {}, !.leased = FALSE]) \in Task
        BY <3>2, RevokedTypes
      <3> QED
        BY <1>13, <3>1, <3>3 DEF Finish, Fail
    <2>2. task'[s].phase = "over" /\ task'[s].reply = None
      BY <1>1, <2>1 DEF Task
    <2>3. SubmitQueue(s) => task'[s].phase = "asked" /\ task[s].phase = "handed"
      <3> SUFFICES ASSUME SubmitQueue(s) PROVE FALSE
        OBVIOUS
      <3>1. task'[s].phase = "asked"
        BY <1>1, <1>3 DEF SubmitQueue
      <3> QED
        BY <2>2, <3>1
    <2> QED
      BY <1>2, <2>1, <2>2, <2>3
  <1> QED
    BY <1>5, <1>6, <1>7, <1>8, <1>9, <1>10, <1>11, <1>12, <1>13 DEF TaskStep

\* What anything else may do to a task: the phase stays, unless the input is begun or
\* its window crashes, and an outcome it is told is the one the daemon has stored.
StandsStill(s) ==
    /\ task'[s].phase = task[s].phase
    /\ \/ task'[s].reply \in {task[s].reply, "ok", "err", "unknown"}
       \/ task'[s].reply = store.result[s] /\ store' = store
BeginsOrEnds(s) ==
    /\ \/ task[s].phase = "idle" /\ task'[s].phase = "recovering"
       \/ task'[s].phase = "over"
    /\ task'[s].reply \in {"ok", None}

LEMMA ReplyFate ==
    ASSUME Types, NEW x \in Submission, NEW reply,
           Reply(x, reply) \/ task' = Answered(x, reply), NEW s \in Submission
    PROVE  task'[s].phase = task[s].phase /\ task'[s].reply \in {task[s].reply, reply}
  <1>1. task \in [Submission -> Task]
    BY DEF Types
  <1>2. \/ task' = task
        \/ task' = [task EXCEPT ![x] = [task[x] EXCEPT !.reply = reply]]
    BY <1>1 DEF Reply, Answered
  <1> QED
    BY <1>1, <1>2 DEF Task

LEMMA TaskFate ==
    ASSUME Types, ImageNext, NEW s \in Submission
    PROVE  StandsStill(s) \/ BeginsOrEnds(s) \/ TaskStep(s)
  <1>1. task \in [Submission -> Task] /\ task[s] \in Task
    BY DEF Types
  <1>2. ASSUME task'[s] = task[s] PROVE StandsStill(s)
    BY <1>2 DEF StandsStill
  <1>3. ASSUME task'[s] = RevokedTask(task[s]) PROVE StandsStill(s)
    BY <1>1, <1>3, RevokedTypes DEF StandsStill
  <1>4. ASSUME NEW x \in Submission, Begin(x) \/ Revoke(x) \/ TaskStep(x) \/ NativeSnapshot(x)
        PROVE  StandsStill(s) \/ BeginsOrEnds(s) \/ TaskStep(s)
    <2>1. CASE Begin(x)
      <3> DEFINE k == [NewTask EXCEPT !.phase = "recovering", !.live = TRUE, !.current = TRUE,
                                      !.leased = TRUE, !.reply = FirstReply(journal)]
      <3>1. k.phase = "recovering" /\ k.reply \in {"ok", None}
        BY DEF NewTask, FirstReply
      <3>2. task'[s] \in {task[s], RevokedTask(task[s])} \/ (x = s /\ task'[s] = k)
        BY <2>1, Zenon DEF Begin
      <3>3. task[x].phase = "idle"
        BY <2>1 DEF Begin
      <3> HIDE DEF k
      <3> QED
        BY <1>2, <1>3, <3>1, <3>2, <3>3 DEF BeginsOrEnds
    <2>2. CASE Revoke(x)
      <3>1. task'[s] \in {task[s], RevokedTask(task[s])}
        BY <1>1, <2>2 DEF Revoke
      <3> QED
        BY <1>2, <1>3, <3>1
    <2>3. CASE TaskStep(x)
      BY <1>2, <2>3, OwnStep
    <2>4. CASE NativeSnapshot(x)
      BY <1>2, <2>4 DEF NativeSnapshot
    <2> QED
      BY <1>4, <2>1, <2>2, <2>3, <2>4
  <1>5. ASSUME NEW a \in App, StartRecovery(a) \/ RecoveryStep(a)
        PROVE  StandsStill(s)
    <2>1. CASE TakeRecovered(a)
      <3>1. app[a].rec.for \in Submission \cup {None}
        BY <2>1 DEF TakeRecovered, Types, Window, Recoveries
      <3>2. PICK reply \in {"ok", "err"} : task' = task \/ task' = Answered(app[a].rec.for, reply)
        BY <2>1 DEF TakeRecovered
      <3>3. CASE app[a].rec.for = None
        BY <1>2, <3>2, <3>3 DEF Answered
      <3>4. CASE app[a].rec.for # None
        <4>1. app[a].rec.for \in Submission
          BY <3>1, <3>4
        <4>2. task'[s].phase = task[s].phase /\ task'[s].reply \in {task[s].reply, reply}
          BY <3>2, <4>1, ReplyFate
        <4> QED
          BY <4>2 DEF StandsStill
      <3> QED
        BY <3>3, <3>4
    <2>2. CASE ~TakeRecovered(a)
      BY <1>2, <1>5, <2>2 DEF StartRecovery, RecoveryStep, AskStatus, TakeStatus, AskRecover
    <2> QED
      BY <2>1, <2>2
  <1>6. ASSUME DaemonStep
        PROVE  StandsStill(s)
    <2>1. CASE ReleaseImages
      <3>1. daemon.busy.s \in Submission
        BY <2>1 DEF ReleaseImages, Types, Daemon, Busy
      <3>2. task' = task \/ (Reply(daemon.busy.s, store.result[daemon.busy.s]) /\ store' = store)
        BY <2>1 DEF ReleaseImages
      <3>3. CASE task' = task
        BY <1>2, <3>3
      <3>4. CASE Reply(daemon.busy.s, store.result[daemon.busy.s]) /\ store' = store
        <4>1. task'[s].phase = task[s].phase
          BY <3>1, <3>4, ReplyFate
        <4>2. task'[s] = task[s] \/ (s = daemon.busy.s /\ task'[s].reply = store.result[s])
          BY <1>1, <3>1, <3>4 DEF Reply, Task
        <4> QED
          BY <3>4, <4>1, <4>2 DEF StandsStill
      <3> QED
        BY <3>2, <3>3, <3>4
    <2>2. CASE NativeWrite \/ NativeAnswer
      <3>1. daemon.busy.s \in Submission
        BY <2>2 DEF NativeWrite, NativeAnswer, Types, Daemon, Busy
      <3>2. task' = task \/ Reply(daemon.busy.s, "unknown")
        BY <2>2 DEF NativeWrite, NativeAnswer
      <3> QED
        BY <1>2, <3>1, <3>2, ReplyFate DEF StandsStill
    <2>3. ASSUME NEW x \in Submission,
                 \/ HandleQueue(x) \/ HandleRevoke(x)
                 \/ \E t \in ImagesOf(x) : HandlePublish(x, t) \/ HandleRelease(x, t)
          PROVE  StandsStill(s)
      <3>1. task' = task \/ \E reply \in {"ok", "err"} : Reply(x, reply)
        BY <2>3 DEF HandleQueue, HandleRevoke, HandlePublish, HandleRelease
      <3>2. ASSUME NEW reply \in {"ok", "err"}, Reply(x, reply)
            PROVE  StandsStill(s)
        <4>1. task'[s].phase = task[s].phase /\ task'[s].reply \in {task[s].reply, reply}
          BY <3>2, ReplyFate
        <4> QED
          BY <4>1 DEF StandsStill
      <3> QED
        BY <1>2, <3>1, <3>2
    <2>4. ASSUME NEW a \in App, DropConnection(a) PROVE StandsStill(s)
      BY <1>2, <2>4 DEF DropConnection
    <2> QED
      BY <1>6, <2>1, <2>2, <2>3, <2>4 DEF DaemonStep
  <1>7. ASSUME Fault
        PROVE  StandsStill(s) \/ BeginsOrEnds(s)
    <2>1. ASSUME NEW apps, task' = LostTasks(apps)
          PROVE  StandsStill(s)
      <3>1. task'[s] \in {task[s], Lost(task[s])}
        BY <2>1 DEF LostTasks
      <3> QED
        BY <1>1, <1>2, <3>1, LostTypes DEF StandsStill
    <2>2. ASSUME NEW a \in App, AppCrash(a)
          PROVE  StandsStill(s) \/ BeginsOrEnds(s)
      <3> DEFINE k == [NewTask EXCEPT !.phase = "over"]
      <3>1. k.phase = "over" /\ k.reply = None
        BY DEF NewTask
      <3>2. task'[s] \in {task[s], k}
        BY <2>2 DEF AppCrash
      <3> HIDE DEF k
      <3> QED
        BY <1>2, <3>1, <3>2 DEF BeginsOrEnds
    <2> QED
      BY <1>7, <2>1, <2>2 DEF Fault, Disconnect, DaemonCrash
  <1> QED
    BY <1>4, <1>5, <1>6, <1>7 DEF ImageNext

\* The queue request of an input is on its way; the daemon is at a step of executing it.
Asked(s) == Message("queue", s, None) \in wire
Executing(s, step) == daemon.busy # None /\ daemon.busy.s = s /\ daemon.busy.step = step

LEMMA RequestFate ==
    ASSUME Types, ImageNext, NEW s \in Submission, Asked(s)'
    PROVE  Asked(s) \/ SubmitQueue(s)
  <1> DEFINE m == Message("queue", s, None)
  <1>1. m.kind = "queue" /\ m.s = s /\ m \in wire'
    BY DEF Message, Asked
  <1>2. ASSUME NEW x \in Submission PROVE m \notin Notices(x)
    BY <1>1, <1>2, NoticeTypes DEF Types
  <1>3. ASSUME NEW x \in Submission, Begin(x) \/ Revoke(x) \/ TaskStep(x) \/ NativeSnapshot(x)
        PROVE  m \in wire \/ SubmitQueue(s)
    <2>1. CASE Begin(x)
      <3>1. PICK previous \in SUBSET TasksOf(AppOf[x]) :
                wire' = wire \cup UNION {Notices(y) : y \in previous}
        BY <2>1 DEF Begin
      <3>2. previous \subseteq Submission
        BY DEF TasksOf
      <3> HIDE DEF m
      <3> QED
        BY <1>1, <1>2, <3>1, <3>2
    <2>2. CASE Publish(x)
      <3>1. PICK t : wire' = wire \cup {Message("publish", x, t)}
        BY <2>2 DEF Publish
      <3>2. m # Message("publish", x, t)
        BY DEF Message
      <3> QED
        BY <1>1, <3>1, <3>2
    <2>3. CASE SubmitQueue(x)
      <3>1. wire' = wire \cup {Message("queue", x, None)}
        BY <2>3 DEF SubmitQueue
      <3>2. m = Message("queue", x, None) => x = s
        BY DEF Message
      <3> QED
        BY <1>1, <2>3, <3>1, <3>2
    <2>4. CASE Finish(x) \/ Fail(x) \/ Revoke(x)
      <3>1. wire' \subseteq wire \cup Notices(x)
        BY <2>4 DEF Finish, Fail, Revoke
      <3> HIDE DEF m
      <3> QED
        BY <1>1, <1>2, <3>1
    <2>5. CASE \/ Activate(x) \/ PersistIntent(x) \/ ClaimSubject(x) \/ StoreQueue(x)
               \/ ClaimNativeWrite(x) \/ TakeResult(x) \/ NativeSnapshot(x)
      <3>1. wire' = wire
        BY <2>5 DEF Activate, PersistIntent, ClaimSubject, StoreQueue, ClaimNativeWrite,
                    TakeResult, NativeSnapshot
      <3> QED
        BY <1>1, <3>1
    <2> QED
      BY <1>3, <2>1, <2>2, <2>3, <2>4, <2>5 DEF TaskStep
  <1>4. ASSUME NEW a \in App, StartRecovery(a) \/ RecoveryStep(a)
        PROVE  wire' = wire
    BY <1>4 DEF StartRecovery, RecoveryStep, AskStatus, TakeStatus, AskRecover, TakeRecovered
  <1>5. ASSUME DaemonStep \/ Fault
        PROVE  wire' \subseteq wire
    BY <1>5 DEF DaemonStep, Fault, NativeWrite, NativeAnswer, ReleaseImages, HandleQueue,
                HandleRevoke, HandlePublish, HandleRelease, DropConnection, Takes,
                Disconnect, AppCrash, DaemonCrash
  <1> HIDE DEF m
  <1>6. m \in wire \/ SubmitQueue(s)
    BY <1>1, <1>3, <1>4, <1>5 DEF ImageNext
  <1> QED
    BY <1>6 DEF Asked, m

LEMMA ClaimFate ==
    ASSUME Types, ImageNext
    PROVE  /\ store.claim \subseteq store'.claim
           /\ \A s \in Submission : s \in store'.claim =>
                 s \in store.claim \/ (HandleQueue(s) /\ Asked(s) /\ ~Asked(s)')
  <1>1. ASSUME NEW ts \in SUBSET Transfer, store' = Released(store, ts)
        PROVE  store'.claim = store.claim
    BY <1>1, ReleasedTypes DEF Types
  <1>2. ASSUME NEW s \in Submission, HandleQueue(s)
        PROVE  /\ store.claim \subseteq store'.claim /\ store'.claim \subseteq store.claim \cup {s}
               /\ Asked(s) /\ ~Asked(s)'
    BY <1>2 DEF HandleQueue, Takes, Asked, Types, Store
  <1>3. ASSUME NEW s \in Submission, NEW t \in Transfer, HandlePublish(s, t)
        PROVE  store'.claim = store.claim
    BY <1>3 DEF HandlePublish, Types, Store
  <1>4. ASSUME NEW s \in Submission, NEW t \in Transfer, HandleRelease(s, t)
        PROVE  store'.claim = store.claim
    BY <1>1, <1>4 DEF HandleRelease
  <1>5. ASSUME NEW a \in App, AskStatus(a)
        PROVE  store'.claim = store.claim
    BY <1>1, <1>5, ImagesAreTransfers DEF AskStatus, ImagesOf
  <1>6. ASSUME NEW a \in App, AskRecover(a)
        PROVE  store'.claim = store.claim
    <2>1. PICK i \in app[a].rec.todo :
              store' = IF i.release THEN Released(store, {i.t}) ELSE store
      BY <1>6 DEF AskRecover
    <2>2. {i.t} \in SUBSET Transfer
      BY <1>6 DEF AskRecover, Types, Window, Recoveries, Item
    <2> QED
      BY <1>1, <2>1, <2>2
  <1>7. ASSUME ReleaseImages
        PROVE  store'.claim = store.claim
    <2>1. \A t \in ImagesOf(daemon.busy.s) : {t} \in SUBSET Transfer
      BY DEF ImagesOf
    <2> QED
      BY <1>1, <1>7, <2>1 DEF ReleaseImages
  <1>8. ASSUME NativeWrite \/ NativeAnswer
        PROVE  store'.claim = store.claim
    BY <1>8 DEF NativeWrite, NativeAnswer, Types, Store
  <1> QED
    BY <1>2, <1>3, <1>4, <1>5, <1>6, <1>7, <1>8, Writers DEF StoreWrites

LEMMA ResultFate ==
    ASSUME Types, ImageNext, NEW s \in Submission
    PROVE  \/ store'.result[s] = store.result[s]
           \/ /\ Executing(s, "claimed") /\ daemon'.busy.step = "releasing" /\ native' = native
              /\ store'.result[s] = "rejected"
           \/ /\ Executing(s, "written") /\ daemon'.busy.step = "releasing" /\ native' = native
              /\ store'.result[s] = "confirmed" /\ native[s].input = "snapshot"
  <1>1. ASSUME NEW ts \in SUBSET Transfer, store' = Released(store, ts)
        PROVE  store'.result = store.result
    BY <1>1, ReleasedTypes DEF Types
  <1>2. ASSUME NEW x \in Submission, HandleQueue(x)
        PROVE  store'.result = store.result
    BY <1>2 DEF HandleQueue, Types, Store
  <1>3. ASSUME NEW x \in Submission, NEW t \in Transfer, HandlePublish(x, t)
        PROVE  store'.result = store.result
    BY <1>3 DEF HandlePublish, Types, Store
  <1>4. ASSUME NEW x \in Submission, NEW t \in Transfer, HandleRelease(x, t)
        PROVE  store'.result = store.result
    BY <1>1, <1>4 DEF HandleRelease
  <1>5. ASSUME NEW a \in App, AskStatus(a)
        PROVE  store'.result = store.result
    BY <1>1, <1>5, ImagesAreTransfers DEF AskStatus, ImagesOf
  <1>6. ASSUME NEW a \in App, AskRecover(a)
        PROVE  store'.result = store.result
    <2>1. PICK i \in app[a].rec.todo :
              store' = IF i.release THEN Released(store, {i.t}) ELSE store
      BY <1>6 DEF AskRecover
    <2>2. {i.t} \in SUBSET Transfer
      BY <1>6 DEF AskRecover, Types, Window, Recoveries, Item
    <2> QED
      BY <1>1, <2>1, <2>2
  <1>7. ASSUME ReleaseImages
        PROVE  store'.result = store.result
    <2>1. \A t \in ImagesOf(daemon.busy.s) : {t} \in SUBSET Transfer
      BY DEF ImagesOf
    <2> QED
      BY <1>1, <1>7, <2>1 DEF ReleaseImages
  <1>8. ASSUME NEW x \in Submission, NEW status, x = daemon.busy.s,
               store' = [store EXCEPT !.result[x] = status]
        PROVE  /\ s # x => store'.result[s] = store.result[s]
               /\ s = x => store'.result[s] = status
    BY <1>8 DEF Types, Store, Results
  <1>9. ASSUME NativeWrite, store' # store
        PROVE  \/ store'.result[s] = store.result[s]
               \/ /\ Executing(s, "claimed") /\ daemon'.busy.step = "releasing" /\ native' = native
                  /\ store'.result[s] = "rejected"
    <2> DEFINE x == daemon.busy.s
    <2>1. daemon.busy # None /\ daemon.busy.step = "claimed" /\ x \in Submission
      BY <1>9 DEF NativeWrite, Types, Daemon, Busy
    <2>2. /\ store' = [store EXCEPT !.result[x] = "rejected"] /\ native' = native
          /\ daemon' = [daemon EXCEPT !.busy.step = "releasing"]
      BY <1>9 DEF NativeWrite
    <2>3. daemon'.busy.step = "releasing"
      BY <2>1, <2>2 DEF Types, Daemon, Busy
    <2> HIDE DEF x
    <2> QED
      BY <1>8, <2>1, <2>2, <2>3 DEF Executing, x
  <1>10. ASSUME NativeAnswer, store' # store
        PROVE  \/ store'.result[s] = store.result[s]
               \/ /\ Executing(s, "written") /\ daemon'.busy.step = "releasing" /\ native' = native
                  /\ store'.result[s] = "confirmed" /\ native[s].input = "snapshot"
    <2> DEFINE x == daemon.busy.s
    <2>1. daemon.busy # None /\ daemon.busy.step = "written" /\ x \in Submission
      BY <1>10 DEF NativeAnswer, Types, Daemon, Busy
    <2>2. /\ store' = [store EXCEPT !.result[x] = "confirmed"] /\ native' = native
          /\ native[x].input = "snapshot"
          /\ daemon' = [daemon EXCEPT !.busy.step = "releasing"]
      BY <1>10 DEF NativeAnswer
    <2>3. daemon'.busy.step = "releasing"
      BY <2>1, <2>2 DEF Types, Daemon, Busy
    <2> HIDE DEF x
    <2> QED
      BY <1>8, <2>1, <2>2, <2>3 DEF Executing, x
  <1> QED
    BY <1>2, <1>3, <1>4, <1>5, <1>6, <1>7, <1>9, <1>10, Writers DEF StoreWrites

LEMMA NativeFate ==
    ASSUME Types, ImageNext, NEW s \in Submission
    PROVE  \/ native'[s] = native[s]
           \/ native'[s].sent = native[s].sent /\ native'[s].input = "snapshot"
           \/ /\ Executing(s, "claimed") /\ daemon'.busy.step = "written" /\ store' = store
              /\ \A x \in Submission \ {s} : native'[x] = native[x]
  <1>1. CASE native' = native
    BY <1>1
  <1>2. ASSUME NEW x \in Submission, NativeSnapshot(x)
        PROVE  \/ native'[s] = native[s]
               \/ native'[s].sent = native[s].sent /\ native'[s].input = "snapshot"
    <2>1. native' = [native EXCEPT ![x] = [native[x] EXCEPT !.input = "snapshot"]]
      BY <1>2 DEF NativeSnapshot
    <2>2. native \in [Submission -> Native]
      BY DEF Types
    <2> QED
      BY <2>1, <2>2 DEF Native
  <1>3. ASSUME NativeWrite, native' # native
        PROVE  \/ native'[s] = native[s]
               \/ /\ Executing(s, "claimed") /\ daemon'.busy.step = "written" /\ store' = store
                  /\ \A x \in Submission \ {s} : native'[x] = native[x]
    <2> DEFINE x == daemon.busy.s
    <2>1. daemon.busy # None /\ daemon.busy.step = "claimed" /\ x \in Submission
      BY <1>3 DEF NativeWrite, Types, Daemon, Busy
    <2>2. PICK k : native' = [native EXCEPT ![x] = k]
      BY <1>3, Zenon DEF NativeWrite
    <2>3. daemon' = [daemon EXCEPT !.busy.step = "written"] /\ store' = store
      BY <1>3 DEF NativeWrite
    <2>4. daemon'.busy.step = "written"
      BY <2>1, <2>3 DEF Types, Daemon, Busy
    <2>5. \A y \in Submission \ {x} : native'[y] = native[y]
      BY <2>2 DEF Types
    <2> HIDE DEF x
    <2> QED
      BY <2>1, <2>3, <2>4, <2>5 DEF Executing, x
  <1> QED
    BY <1>1, <1>2, <1>3, Writers

LEMMA BusyFate ==
    ASSUME Types, ImageNext, NEW s \in Submission, NEW step, Executing(s, step)'
    PROVE  \/ Executing(s, step)
           \/ step = "claimed" /\ HandleQueue(s)
           \/ step = "written" /\ Executing(s, "claimed") /\ store' = store
           \/ step = "releasing" /\ store'.result[s] \in Known
  <1>1. CASE daemon'.busy \in {daemon.busy, None}
    BY <1>1 DEF Executing
  <1>2. ASSUME NEW x \in Submission, Activate(x) \/ HandleRevoke(x)
        PROVE  daemon'.busy = daemon.busy
    BY <1>2 DEF Activate, HandleRevoke, Types, Daemon
  <1>3. ASSUME NEW a \in App, DropConnection(a)
        PROVE  daemon'.busy = daemon.busy
    BY <1>3 DEF DropConnection, Types, Daemon
  <1>4. ASSUME ReleaseImages \/ DaemonCrash
        PROVE  daemon'.busy \in {daemon.busy, None}
    BY <1>4 DEF ReleaseImages, DaemonCrash, Types, Daemon
  <1>5. ASSUME NEW x \in Submission, HandleQueue(x)
        PROVE  \/ daemon'.busy = daemon.busy
               \/ step = "claimed" /\ x = s
    <2>1. daemon' = daemon \/ daemon' = [daemon EXCEPT !.busy = [s |-> x, step |-> "claimed"]]
      BY <1>5 DEF HandleQueue
    <2>2. daemon' = daemon \/ daemon'.busy = [s |-> x, step |-> "claimed"]
      BY <2>1 DEF Types, Daemon
    <2> QED
      BY <2>2 DEF Executing
  <1>6. ASSUME NativeWrite
        PROVE  \/ step = "written" /\ Executing(s, "claimed") /\ store' = store
               \/ step = "releasing" /\ store'.result[s] \in Known
    <2> DEFINE x == daemon.busy.s
    <2>1. daemon.busy # None /\ daemon.busy.step = "claimed" /\ x \in Submission
      BY <1>6 DEF NativeWrite, Types, Daemon, Busy
    <2>2. \/ daemon' = [daemon EXCEPT !.busy.step = "written"] /\ store' = store
          \/ /\ daemon' = [daemon EXCEPT !.busy.step = "releasing"]
             /\ store' = [store EXCEPT !.result[x] = "rejected"]
      BY <1>6 DEF NativeWrite
    <2>3. \/ daemon'.busy = [s |-> x, step |-> "written"] /\ store' = store
          \/ /\ daemon'.busy = [s |-> x, step |-> "releasing"]
             /\ store'.result[x] = "rejected"
      BY <2>1, <2>2 DEF Types, Daemon, Busy, Store, Results
    <2> HIDE DEF x
    <2> QED
      BY <2>1, <2>3 DEF Executing, Known, x
  <1>7. ASSUME NativeAnswer
        PROVE  \/ daemon'.busy = None
               \/ step = "releasing" /\ store'.result[s] \in Known
    <2> DEFINE x == daemon.busy.s
    <2>1. daemon.busy # None /\ daemon.busy.step = "written" /\ x \in Submission
      BY <1>7 DEF NativeAnswer, Types, Daemon, Busy
    <2>2. \/ daemon' = [daemon EXCEPT !.busy = None]
          \/ /\ daemon' = [daemon EXCEPT !.busy.step = "releasing"]
             /\ store' = [store EXCEPT !.result[x] = "confirmed"]
      BY <1>7 DEF NativeAnswer
    <2>3. \/ daemon'.busy = None
          \/ /\ daemon'.busy = [s |-> x, step |-> "releasing"]
             /\ store'.result[x] = "confirmed"
      BY <2>1, <2>2 DEF Types, Daemon, Busy, Store, Results
    <2> HIDE DEF x
    <2> QED
      BY <2>1, <2>3 DEF Executing, Known, x
  <1>8. daemon' = daemon \/ DaemonWrites
    BY Writers
  <1> QED
    BY <1>1, <1>2, <1>3, <1>4, <1>5, <1>6, <1>7, <1>8 DEF DaemonWrites

LEMMA JournalFate ==
    ASSUME Types, ImageNext, NEW s \in Submission
    PROVE  /\ journal.claim \subseteq journal'.claim
           /\ s \in journal'.claim => s \in journal.claim \/ ClaimSubject(s)
           /\ \/ journal'.result[s] = journal.result[s]
              \/ /\ journal'.result[s] \in Known
                 /\ \/ journal'.result[s] = task[s].reply
                    \/ \E a \in App : /\ Told(a) /\ SubmissionOf[app[a].rec.at.item.t] = s
                                      /\ journal'.result[s] = app[a].rec.at.answer
  <1>1. ASSUME NEW x \in Submission, NEW status, journal' = Recorded(x, status)
        PROVE  /\ journal'.claim = journal.claim
               /\ \/ journal'.result[s] = journal.result[s]
                  \/ s = x /\ status \in Known /\ journal'.result[s] = status
    <2>1. CASE status \in Known
      <3> DEFINE result == [journal.result EXCEPT ![x] = status]
                 release == journal.release \cup {x}
      <3>1. journal' = [journal EXCEPT !.result = result, !.release = release]
        BY <1>1, <2>1 DEF Recorded, Types, Journal
      <3>2. result[s] = IF s = x THEN status ELSE journal.result[s]
        BY DEF Types, Journal, Results
      <3> HIDE DEF result, release
      <3>3. journal'.result = result /\ journal'.claim = journal.claim
        BY <3>1 DEF Types, Journal
      <3> QED
        BY <2>1, <3>2, <3>3
    <2>2. CASE status \notin Known
      BY <1>1, <2>2 DEF Recorded
    <2> QED
      BY <2>1, <2>2
  <1>2. ASSUME NEW x \in Submission, PersistIntent(x) \/ StoreQueue(x)
        PROVE  journal'.claim = journal.claim /\ journal'.result = journal.result
    BY <1>2 DEF PersistIntent, StoreQueue, Types, Journal
  <1>3. ASSUME NEW x \in Submission, ClaimSubject(x)
        PROVE  journal'.claim = journal.claim \cup {x} /\ journal'.result = journal.result
    BY <1>3 DEF ClaimSubject, Types, Journal
  <1>4. ASSUME NEW x \in Submission, TakeResult(x)
        PROVE  journal' = Recorded(x, task[x].reply)
    BY <1>4 DEF TakeResult
  <1>5. ASSUME NEW a \in App, TakeStatus(a)
        PROVE  /\ SubmissionOf[app[a].rec.at.item.t] \in Submission /\ Told(a)
               /\ journal' = Recorded(SubmissionOf[app[a].rec.at.item.t], app[a].rec.at.answer)
    <2>1. Told(a) /\ app[a].rec.at.item.t \in Transfer
      BY <1>5 DEF TakeStatus, Told, Types, Window, Recoveries, Item
    <2> QED
      BY <1>5, <2>1, ImageAssumption DEF TakeStatus, ImageAssumption
  <1>6. ASSUME NEW a \in App, TakeRecovered(a)
        PROVE  journal'.claim = journal.claim /\ journal'.result = journal.result
    <2>1. journal' = journal \/ \E done : journal' = [journal EXCEPT !.done = done]
      BY <1>6 DEF TakeRecovered
    <2> QED
      BY <2>1 DEF Types, Journal
  <1>7. ASSUME NEW x \in Submission, TakeResult(x)
        PROVE  /\ journal'.claim = journal.claim
               /\ \/ journal'.result[s] = journal.result[s]
                  \/ journal'.result[s] \in Known /\ journal'.result[s] = task[s].reply
    BY <1>1, <1>4, <1>7
  <1>8. ASSUME NEW a \in App, TakeStatus(a)
        PROVE  /\ journal'.claim = journal.claim
               /\ \/ journal'.result[s] = journal.result[s]
                  \/ /\ journal'.result[s] \in Known
                     /\ Told(a) /\ SubmissionOf[app[a].rec.at.item.t] = s
                     /\ journal'.result[s] = app[a].rec.at.answer
    BY <1>1, <1>5, <1>8
  <1> QED
    BY <1>2, <1>3, <1>6, <1>7, <1>8, Writers DEF JournalWrites

-----------------------------------------------------------------------------
(* The outcome of an input: the daemon's record comes first, and every other word of   *)
(* it, a reply, an answer or an entry of the journal, repeats what is stored there.    *)

UnclaimedIsUnsent(s) ==
    s \notin store.claim => native[s].sent = 0 /\ store.result[s] = None
AskedOnce(s) ==
    /\ task[s].phase \in Unsent \cup Claiming => ~Asked(s) /\ s \notin store.claim
    /\ Asked(s) => s \notin store.claim
ClaimedFirst(s) ==
    s \in store.claim \/ Asked(s) \/ task[s].phase \in Claiming => s \in journal.claim
Progress(s) ==
    /\ Executing(s, "claimed") =>
           s \in store.claim /\ native[s].sent = 0 /\ store.result[s] = None
    /\ Executing(s, "written") => s \in store.claim /\ store.result[s] = None
    /\ Executing(s, "releasing") => store.result[s] \in Known
StoredIsTrue(s) ==
    /\ store.result[s] = "confirmed" => native[s].input = "snapshot"
    /\ store.result[s] = "rejected" => native[s].sent = 0
Repeated(s) ==
    /\ task[s].reply \in Known => task[s].reply = store.result[s]
    /\ journal.result[s] \in Known => journal.result[s] = store.result[s]
AnswersAreStored ==
    \A a \in App : Told(a) /\ app[a].rec.at.answer \in Known =>
        store.result[SubmissionOf[app[a].rec.at.item.t]] = app[a].rec.at.answer
\* Of two inputs with one content that were ever claimed, one is settled.
OneOpenClaim ==
    \A x, y \in journal.claim : x # y /\ SubjectOf[x] = SubjectOf[y] =>
        journal.result[x] \in Known \/ journal.result[y] \in Known

OutcomeInv ==
    /\ \A s \in Submission : /\ UnclaimedIsUnsent(s) /\ AskedOnce(s) /\ ClaimedFirst(s)
                             /\ Progress(s) /\ StoredIsTrue(s) /\ Repeated(s)
    /\ AnswersAreStored /\ OneOpenClaim

\* A result is stored once.
LEMMA ResultsLast ==
    ASSUME Types, OutcomeInv, ImageNext, NEW s \in Submission, store.result[s] \in Known
    PROVE  store'.result[s] = store.result[s]
  <1>1. ~Executing(s, "claimed") /\ ~Executing(s, "written")
    BY NoOutcome DEF OutcomeInv, Progress
  <1> QED
    BY <1>1, ResultFate

LEMMA PhaseFate ==
    ASSUME Types, ImageNext, NEW s \in Submission
    PROVE  /\ task'[s].phase \in Unsent \cup Claiming =>
                 task[s].phase \in Unsent \cup Claiming /\ ~SubmitQueue(s)
           /\ task'[s].phase \in Claiming => task[s].phase \in Claiming \/ ClaimSubject(s)
           /\ SubmitQueue(s) => task[s].phase \in Claiming
           /\ task'[s].reply \in Known =>
                 task'[s].reply = task[s].reply
                    \/ (task'[s].reply = store.result[s] /\ store' = store)
  <1>1. SubmitQueue(s) => TaskStep(s)
    BY DEF TaskStep
  <1>2. CASE TaskStep(s)
    BY <1>2, OwnStep, NoOutcome DEF Unsent, Claiming, Known
  <1>3. CASE ~TaskStep(s) /\ StandsStill(s)
    BY <1>1, <1>3 DEF StandsStill, Known
  <1>4. CASE ~TaskStep(s) /\ BeginsOrEnds(s)
    BY <1>1, <1>4, NoOutcome DEF BeginsOrEnds, Unsent, Claiming, Known
  <1> QED
    BY <1>2, <1>3, <1>4, TaskFate

LEMMA OutcomeStep ==
    ASSUME Types, OutcomeInv, ImageNext
    PROVE  OutcomeInv'
  <1>1. ASSUME NEW s \in Submission
        PROVE  /\ UnclaimedIsUnsent(s) /\ AskedOnce(s) /\ ClaimedFirst(s)
               /\ Progress(s) /\ StoredIsTrue(s) /\ Repeated(s)
    BY DEF OutcomeInv
  <1>2. ASSUME NEW s \in Submission, store.result[s] \in Known
        PROVE  store'.result[s] = store.result[s]
    BY <1>2, ResultsLast
  <1>3. ASSUME NEW s \in Submission PROVE UnclaimedIsUnsent(s)'
    <2> SUFFICES ASSUME s \notin store'.claim
                 PROVE  native'[s].sent = 0 /\ store'.result[s] = None
      BY DEF UnclaimedIsUnsent
    <2>1. s \notin store.claim
      BY ClaimFate
    <2>2. ~Executing(s, "claimed") /\ ~Executing(s, "written")
      BY <1>1, <2>1 DEF Progress
    <2> QED
      BY <1>1, <2>1, <2>2, NativeFate, ResultFate DEF UnclaimedIsUnsent
  <1>4. ASSUME NEW s \in Submission PROVE AskedOnce(s)'
    <2>1. ASSUME task'[s].phase \in Unsent \cup Claiming
          PROVE  ~Asked(s)' /\ s \notin store'.claim
      <3>1. task[s].phase \in Unsent \cup Claiming /\ ~SubmitQueue(s)
        BY <2>1, PhaseFate
      <3>2. ~Asked(s) /\ s \notin store.claim
        BY <1>1, <3>1 DEF AskedOnce
      <3> QED
        BY <3>1, <3>2, RequestFate, ClaimFate
    <2>2. ASSUME Asked(s)' PROVE s \notin store'.claim
      <3>1. Asked(s) \/ task[s].phase \in Claiming
        BY <2>2, RequestFate, PhaseFate
      <3>2. s \notin store.claim
        BY <1>1, <3>1 DEF AskedOnce
      <3> QED
        BY <2>2, <3>2, ClaimFate
    <2> QED
      BY <2>1, <2>2 DEF AskedOnce
  <1>5. ASSUME NEW s \in Submission PROVE ClaimedFirst(s)'
    <2>1. ClaimSubject(s) => s \in journal'.claim
      BY DEF ClaimSubject, Types, Journal
    <2>2. s \in store'.claim \/ Asked(s)' =>
              s \in store.claim \/ Asked(s) \/ task[s].phase \in Claiming
      BY ClaimFate, RequestFate, PhaseFate
    <2>3. task'[s].phase \in Claiming => task[s].phase \in Claiming \/ ClaimSubject(s)
      BY PhaseFate
    <2> QED
      BY <1>1, <2>1, <2>2, <2>3, JournalFate DEF ClaimedFirst
  <1>6. ASSUME NEW s \in Submission PROVE Progress(s)'
    <2>1. ASSUME Executing(s, "claimed")'
          PROVE  s \in store'.claim /\ native'[s].sent = 0 /\ store'.result[s] = None
      <3>1. CASE Executing(s, "claimed")
        BY <1>1, <2>1, <3>1, ClaimFate, NativeFate, ResultFate DEF Progress, Executing
      <3>2. CASE HandleQueue(s) /\ ~Executing(s, "claimed")
        <4>1. Asked(s) /\ daemon.busy = None /\ native' = native
          BY <3>2 DEF HandleQueue, Takes, Asked
        <4>2. native[s].sent = 0 /\ store.result[s] = None
          BY <1>1, <4>1 DEF AskedOnce, UnclaimedIsUnsent
        <4>3. ~Executing(s, "written")
          BY <4>1 DEF Executing
        <4>4. daemon' # daemon
          BY <2>1, <4>1 DEF Executing
        <4>5. s \in store'.claim
          BY <3>2, <4>4 DEF HandleQueue, Types, Store
        <4> QED
          BY <3>2, <4>1, <4>2, <4>3, <4>5, ResultFate
      <3> QED
        BY <2>1, <3>1, <3>2, BusyFate
    <2>2. ASSUME Executing(s, "written")'
          PROVE  s \in store'.claim /\ store'.result[s] = None
      <3>1. CASE Executing(s, "written")
        BY <1>1, <2>2, <3>1, ClaimFate, ResultFate DEF Progress, Executing
      <3>2. CASE Executing(s, "claimed") /\ store' = store
        BY <1>1, <3>2 DEF Progress
      <3> QED
        BY <2>2, <3>1, <3>2, BusyFate
    <2>3. ASSUME Executing(s, "releasing")'
          PROVE  store'.result[s] \in Known
      BY <1>1, <1>2, <2>3, BusyFate DEF Progress
    <2> QED
      BY <2>1, <2>2, <2>3 DEF Progress
  <1>7. ASSUME NEW s \in Submission PROVE StoredIsTrue(s)'
    <2>1. Executing(s, "claimed") => native[s].sent = 0 /\ store.result[s] = None
      BY <1>1 DEF Progress
    <2>2. CASE store'.result[s] = store.result[s]
      BY <1>1, <2>1, <2>2, NoOutcome, NativeFate DEF StoredIsTrue, Known
    <2>3. CASE store'.result[s] # store.result[s]
      BY <2>1, <2>3, ResultFate DEF StoredIsTrue
    <2> QED
      BY <2>2, <2>3
  <1>8. ASSUME NEW a \in App, Told(a)', app'[a].rec.at.answer \in Known
        PROVE  store'.result[SubmissionOf[app'[a].rec.at.item.t]] = app'[a].rec.at.answer
    <2>1. app'[a].rec.at.item.t \in Transfer
      BY <1>8, AppStep DEF Told, Window, Recoveries, Item
    <2>2. SubmissionOf[app'[a].rec.at.item.t] \in Submission
      BY <2>1, ImageAssumption DEF ImageAssumption
    <2>3. CASE Told(a) /\ app'[a].rec.at = app[a].rec.at
      BY <1>2, <1>8, <2>2, <2>3 DEF OutcomeInv, AnswersAreStored
    <2>4. CASE AskStatus(a)
      <3>1. PICK i \in app[a].rec.todo :
                app' = [app EXCEPT ![a].rec.at =
                           [item |-> i, answer |-> StatusOf(SubmissionOf[i.t])]]
        BY <2>4 DEF AskStatus
      <3>2. app[a] \in Window /\ app[a].rec \in Recoveries
        BY <2>4 DEF AskStatus, Types, Window
      <3>3. app'[a].rec.at = [item |-> i, answer |-> StatusOf(SubmissionOf[i.t])]
        BY <3>1, <3>2 DEF Types, Window, Recoveries
      <3>4. StatusOf(SubmissionOf[i.t]) \in Known =>
                store.result[SubmissionOf[i.t]] = StatusOf(SubmissionOf[i.t])
        BY DEF StatusOf, Known
      <3> QED
        BY <1>2, <1>8, <2>2, <3>3, <3>4
    <2>5. CASE AskRecover(a)
      <3> DEFINE Said(i) == IF i.t \in store'.released THEN "released"
                            ELSE IF i.t \in store.ref THEN "reference" ELSE "missing"
      <3>1. PICK i \in app[a].rec.todo :
                app' = [app EXCEPT ![a].rec.at = [item |-> i, answer |-> Said(i)]]
        BY <2>5 DEF AskRecover
      <3>2. app[a] \in Window /\ app[a].rec \in Recoveries
        BY <2>5 DEF AskRecover, Types, Window
      <3>3. app'[a].rec.at = [item |-> i, answer |-> Said(i)]
        BY <3>1, <3>2 DEF Types, Window, Recoveries
      <3> QED
        BY <1>8, <3>3 DEF Known
    <2> QED
      BY <1>8, <2>3, <2>4, <2>5, AnswersComeFromRequests
  <1>9. ASSUME NEW s \in Submission PROVE Repeated(s)'
    <2>1. ASSUME task'[s].reply \in Known
          PROVE  task'[s].reply = store'.result[s]
      BY <1>1, <1>2, <2>1, PhaseFate DEF Repeated
    <2>2. ASSUME journal'.result[s] \in Known
          PROVE  journal'.result[s] = store'.result[s]
      <3>1. journal'.result[s] = store.result[s]
        <4>1. CASE journal'.result[s] = journal.result[s] \/ journal'.result[s] = task[s].reply
          BY <1>1, <2>2, <4>1 DEF Repeated
        <4>2. ASSUME NEW a \in App, Told(a), SubmissionOf[app[a].rec.at.item.t] = s,
                     journal'.result[s] = app[a].rec.at.answer
              PROVE  journal'.result[s] = store.result[s]
          BY <2>2, <4>2 DEF OutcomeInv, AnswersAreStored
        <4> QED
          BY <4>1, <4>2, JournalFate
      <3> QED
        BY <1>2, <2>2, <3>1
    <2> QED
      BY <2>1, <2>2 DEF Repeated
  <1>10. OneOpenClaim'
    <2> SUFFICES ASSUME NEW x \in journal'.claim, NEW y \in journal'.claim, x # y,
                        SubjectOf[x] = SubjectOf[y]
                 PROVE  journal'.result[x] \in Known \/ journal'.result[y] \in Known
      BY DEF OneOpenClaim
    <2>1. x \in Submission /\ y \in Submission
      BY JournalStep DEF Journal
    <2>2. ASSUME NEW z \in Submission, journal.result[z] \in Known
          PROVE  journal'.result[z] \in Known
      BY <2>2, JournalFate
    <2>3. ASSUME NEW z \in Submission, NEW w \in journal.claim \ {z}, ClaimSubject(z),
                 SubjectOf[w] = SubjectOf[z]
          PROVE  journal.result[w] \in Known
      BY <2>3 DEF ClaimSubject, SubjectFree, Settled
    <2>4. CASE x \in journal.claim /\ y \in journal.claim
      BY <2>1, <2>2, <2>4 DEF OutcomeInv, OneOpenClaim
    <2>5. CASE x \notin journal.claim
      <3>1. ClaimSubject(x)
        BY <2>1, <2>5, JournalFate
      <3>2. journal'.claim = journal.claim \cup {x}
        BY <3>1 DEF ClaimSubject, Types, Journal
      <3> QED
        BY <2>1, <2>2, <2>3, <3>1, <3>2
    <2>6. CASE y \notin journal.claim
      <3>1. ClaimSubject(y)
        BY <2>1, <2>6, JournalFate
      <3>2. journal'.claim = journal.claim \cup {y}
        BY <3>1 DEF ClaimSubject, Types, Journal
      <3> QED
        BY <2>1, <2>2, <2>3, <3>1, <3>2
    <2> QED
      BY <2>4, <2>5, <2>6
  <1>11. AnswersAreStored'
    BY <1>8 DEF AnswersAreStored, Told
  <1> QED
    BY <1>3, <1>4, <1>5, <1>6, <1>7, <1>9, <1>10, <1>11 DEF OutcomeInv

LEMMA OutcomeStart == ImageInit => OutcomeInv
  <1> SUFFICES ASSUME ImageInit PROVE OutcomeInv
    OBVIOUS
  <1>1. ASSUME NEW s \in Submission
        PROVE  /\ UnclaimedIsUnsent(s) /\ AskedOnce(s) /\ ClaimedFirst(s)
               /\ Progress(s) /\ StoredIsTrue(s) /\ Repeated(s)
    <2>1. /\ task[s].phase = "idle" /\ task[s].reply = None /\ wire = {} /\ store.claim = {}
          /\ store.result[s] = None /\ journal.result[s] = None /\ native[s].sent = 0
          /\ daemon.busy = None
      BY DEF ImageInit, NewTask
    <2> QED
      BY <2>1, NoOutcome DEF UnclaimedIsUnsent, AskedOnce, ClaimedFirst, Progress,
         StoredIsTrue, Repeated, Asked, Executing, Claiming, Known
  <1>2. AnswersAreStored /\ OneOpenClaim
    BY DEF ImageInit, AnswersAreStored, OneOpenClaim, Told, NewApp
  <1> QED
    BY <1>1, <1>2 DEF OutcomeInv

LEMMA OutcomeHolds == ImageSpec => [](Types /\ OutcomeInv)
  <1>1. Types /\ OutcomeInv /\ [ImageNext]_imageVars => OutcomeInv'
    <2>1. CASE ImageNext
      BY <2>1, OutcomeStep
    <2>2. CASE UNCHANGED imageVars
      BY <2>2 DEF imageVars, OutcomeInv, UnclaimedIsUnsent, AskedOnce, ClaimedFirst, Progress,
         StoredIsTrue, Repeated, AnswersAreStored, OneOpenClaim, Asked, Executing, Told
    <2> QED
      BY <2>1, <2>2
  <1> QED
    BY <1>1, OutcomeStart, ImageTypesHold, TypesAreTypes, PTL DEF ImageSpec

\* "confirmed" in the journal: the agent has its own copies.  "rejected": nothing reached
\* it, and the user may send the input again (record_queue_result, finish_queue).
THEOREM JournalTellsTheTruth == ImageSpec => []RecordedResultsAreTrue
  <1>1. OutcomeInv => RecordedResultsAreTrue
    BY DEF OutcomeInv, StoredIsTrue, Repeated, RecordedResultsAreTrue, Known
  <1> QED
    BY <1>1, OutcomeHolds, PTL

\* A content is written to the agent's queue a second time only when the journal holds
\* the outcome of the first time (prepare_queue, subject claims, the daemon's claim).
THEOREM ContentIsSentOnce == ImageSpec => ContentSentOnce
  <1> DEFINE Again == \A s \in Submission : native'[s].sent > native[s].sent =>
                         /\ native[s].sent = 0
                         /\ \A x \in Submission \ {s} :
                               SubjectOf[x] = SubjectOf[s] /\ native[x].sent > 0 =>
                                   journal.result[x] \in Known
  <1>1. Types /\ OutcomeInv /\ [ImageNext]_imageVars => [Again]_imageVars
    <2> SUFFICES ASSUME Types, OutcomeInv, ImageNext, NEW s \in Submission,
                        native'[s].sent > native[s].sent
                 PROVE  /\ native[s].sent = 0
                        /\ \A x \in Submission \ {s} :
                              SubjectOf[x] = SubjectOf[s] /\ native[x].sent > 0 =>
                                  journal.result[x] \in Known
      BY DEF imageVars
    <2>1. native[s].sent \in Nat
      BY DEF Types, Native
    <2>2. Executing(s, "claimed")
      BY <2>1, NativeFate
    <2>3. s \in store.claim /\ native[s].sent = 0 /\ store.result[s] = None
      BY <2>2 DEF OutcomeInv, Progress
    <2>4. s \in journal.claim /\ journal.result[s] \notin Known
      BY <2>3, NoOutcome DEF OutcomeInv, ClaimedFirst, Repeated
    <2>5. ASSUME NEW x \in Submission \ {s}, SubjectOf[x] = SubjectOf[s], native[x].sent > 0
          PROVE  journal.result[x] \in Known
      <3>1. x \in store.claim
        BY <2>5 DEF OutcomeInv, UnclaimedIsUnsent
      <3>2. x \in journal.claim
        BY <3>1 DEF OutcomeInv, ClaimedFirst
      <3> QED
        BY <2>4, <2>5, <3>2 DEF OutcomeInv, OneOpenClaim
    <2> QED
      BY <2>3, <2>5
  <1> QED
    BY <1>1, OutcomeHolds, PTL DEF ImageSpec, ContentSentOnce

-----------------------------------------------------------------------------
(* Images that are still needed: what each step does to the fields of a task,  *)
(* to the publications under way and to what the daemon knows of an image.     *)

Handing == {"handed", "asked", "settling"}

\* What a step of the task itself does to its record.
Moves(s, from, to) ==
    /\ task[s].phase \in from /\ task'[s].phase = to
    /\ task'[s].live = task[s].live /\ task'[s].leased = task[s].leased
    /\ task'[s].refs = task[s].refs
    /\ task'[s].handed = (task[s].handed \/ to = "handed")
LEMMA OwnFields ==
    ASSUME Types, NEW s \in Submission
    PROVE  /\ Activate(s) =>
                 /\ Moves(s, {"recovering"}, "active") /\ task[s].live
                 /\ task[s].reply = "ok"
           /\ PersistIntent(s) =>
                 /\ Moves(s, {"active", "publishing"}, "uploading") /\ task[s].live
                 /\ task[s].reply = "ok" /\ task'[s].reply = None
           /\ ClaimSubject(s) =>
                 /\ Moves(s, {"publishing"}, "claimed") /\ task[s].live /\ task[s].reply = "ok"
           /\ StoreQueue(s) => Moves(s, {"claimed"}, "queued")
           /\ ClaimNativeWrite(s) => Moves(s, {"queued"}, "handed") /\ task[s].live
           /\ SubmitQueue(s) => Moves(s, {"handed"}, "asked") /\ task[s].live
           /\ TakeResult(s) => Moves(s, {"asked"}, "settling")
           /\ Finish(s) \/ Fail(s) => task'[s].phase = "over" /\ ~task'[s].live
  <1>1. task \in [Submission -> Task] /\ task[s] \in Task
    BY DEF Types
  <1>2. ASSUME NEW k, task' = [task EXCEPT ![s] = k]
        PROVE  task'[s] = k
    BY <1>1, <1>2
  <1>3. ASSUME NEW from, NEW to, to # "handed", task[s].phase \in from,
               task' = [task EXCEPT ![s] = [task[s] EXCEPT !.phase = to]]
        PROVE  Moves(s, from, to)
    BY <1>1, <1>2, <1>3 DEF Moves, Task
  <1>4. ASSUME NEW from, NEW to, to # "handed", task[s].phase \in from, NEW reply,
               task' = [task EXCEPT ![s] = [task[s] EXCEPT !.phase = to, !.reply = reply]]
        PROVE  Moves(s, from, to) /\ task'[s].reply = reply
    BY <1>1, <1>2, <1>4 DEF Moves, Task
  <1>5. ASSUME Activate(s)
        PROVE  Moves(s, {"recovering"}, "active") /\ task[s].live /\ task[s].reply = "ok"
    BY <1>1, <1>3, <1>5 DEF Activate, GoesOn, IsLive
  <1>6. ASSUME PersistIntent(s)
        PROVE  /\ Moves(s, {"active", "publishing"}, "uploading") /\ task[s].live
               /\ task[s].reply = "ok" /\ task'[s].reply = None
    <2>1. task' = [task EXCEPT ![s] = [task[s] EXCEPT !.phase = "uploading", !.reply = None]]
      BY <1>1, <1>6 DEF PersistIntent
    <2>2. /\ task[s].phase \in {"active", "publishing"} /\ task[s].live
          /\ task[s].reply = "ok"
      BY <1>6 DEF PersistIntent, GoesOn, IsLive
    <2> QED
      BY <1>4, <2>1, <2>2
  <1>7. ASSUME ClaimSubject(s)
        PROVE  Moves(s, {"publishing"}, "claimed") /\ task[s].live /\ task[s].reply = "ok"
    <2>1. task' = [task EXCEPT ![s] = [task[s] EXCEPT !.phase = "claimed", !.reply = None]]
      BY <1>1, <1>7 DEF ClaimSubject
    <2>2. task[s].phase \in {"publishing"} /\ task[s].live /\ task[s].reply = "ok"
      BY <1>7 DEF ClaimSubject, GoesOn, IsLive
    <2> QED
      BY <1>4, <2>1, <2>2
  <1>8. ASSUME StoreQueue(s) PROVE Moves(s, {"claimed"}, "queued")
    BY <1>1, <1>3, <1>8 DEF StoreQueue
  <1>9. ASSUME ClaimNativeWrite(s) PROVE Moves(s, {"queued"}, "handed") /\ task[s].live
    <2>1. task' = [task EXCEPT ![s] = [task[s] EXCEPT !.phase = "handed", !.handed = TRUE]]
      BY <1>1, <1>9 DEF ClaimNativeWrite
    <2>2. task'[s] = [task[s] EXCEPT !.phase = "handed", !.handed = TRUE]
      BY <1>2, <2>1
    <2>3. task[s].phase = "queued" /\ task[s].live
      BY <1>9 DEF ClaimNativeWrite, IsLive
    <2> QED
      BY <1>1, <2>2, <2>3 DEF Moves, Task
  <1>10. ASSUME SubmitQueue(s) PROVE Moves(s, {"handed"}, "asked") /\ task[s].live
    BY <1>1, <1>3, <1>10 DEF SubmitQueue, IsLive
  <1>11. ASSUME TakeResult(s) PROVE Moves(s, {"asked"}, "settling")
    <2> DEFINE reply == FirstReply(journal')
    <2>1. task' = [task EXCEPT ![s] = [task[s] EXCEPT !.phase = "settling", !.reply = reply]]
      BY <1>1, <1>11 DEF TakeResult
    <2>2. task[s].phase \in {"asked"}
      BY <1>11 DEF TakeResult
    <2> HIDE DEF reply
    <2> QED
      BY <1>4, <2>1, <2>2
  <1>12. ASSUME Finish(s) \/ Fail(s) PROVE task'[s].phase = "over" /\ ~task'[s].live
    <2>1. PICK k \in Task : /\ ~k.live
                            /\ task' = [task EXCEPT ![s] = [k EXCEPT !.phase = "over",
                                                                     !.reply = None]]
      <3>1. RevokedTask(task[s]) \in Task /\ ~RevokedTask(task[s]).live
        BY <1>1, RevokedTypes
      <3>2. [task[s] EXCEPT !.refs = {}, !.leased = FALSE] \in Task
        BY <1>1 DEF Task
      <3>3. /\ RevokedTask([task[s] EXCEPT !.refs = {}, !.leased = FALSE]) \in Task
            /\ ~RevokedTask([task[s] EXCEPT !.refs = {}, !.leased = FALSE]).live
        BY <3>2, RevokedTypes
      <3> QED
        BY <1>12, <3>1, <3>3 DEF Finish, Fail
    <2>2. task'[s] = [k EXCEPT !.phase = "over", !.reply = None]
      BY <1>1, <2>1
    <2> QED
      BY <2>1, <2>2 DEF Task
  <1> QED
    BY <1>5, <1>6, <1>7, <1>8, <1>9, <1>10, <1>11, <1>12

\* The task is told to go on: its image was published, or its recovery is over.
ToldToGo(s) ==
    \/ \E t \in ImagesOf(s) : HandlePublish(s, t) /\ Publishable(s, t)
    \/ \E a \in App : TakeRecovered(a) /\ app[a].rec.for = s /\ app'[a].rec = None

\* What anything else does: it may end the task's life but not bring it back.
Remains(s) ==
    /\ task'[s].phase = task[s].phase /\ task'[s].handed = task[s].handed
    /\ task'[s].live => /\ task[s].live /\ task'[s].refs = task[s].refs
                        /\ task'[s].leased = task[s].leased
    /\ task'[s].reply = "ok" => task[s].reply = "ok" \/ ToldToGo(s)
Begins(s) ==
    /\ Begin(s) /\ task'[s].phase = "recovering" /\ task'[s].live /\ task'[s].leased
    /\ task'[s].reply = FirstReply(journal)
Crashes(s) ==
    task[s].phase # "idle" /\ task'[s].phase = "over" /\ ~task'[s].live

LEMMA ReplyEdge ==
    ASSUME Types, NEW x \in Submission, NEW reply,
           Reply(x, reply) \/ task' = Answered(x, reply), NEW s \in Submission
    PROVE  \/ task'[s] = task[s]
           \/ s = x /\ task'[s] = [task[s] EXCEPT !.reply = reply]
  BY NoOutcome DEF Reply, Answered, Types

LEMMA OthersRemain ==
    ASSUME Types, NEW s \in Submission, TaskStep(s), NEW x \in Submission, x # s
    PROVE  task'[x] = task[x]
  BY OwnStep

LEMMA TaskEdges ==
    ASSUME Types, OutcomeInv, ImageNext, NEW s \in Submission
    PROVE  Remains(s) \/ Begins(s) \/ Crashes(s) \/ TaskStep(s)
  <1>1. task \in [Submission -> Task] /\ task[s] \in Task
    BY DEF Types
  <1>2. ASSUME task'[s] = task[s] PROVE Remains(s)
    BY <1>2 DEF Remains
  <1>3. ASSUME task'[s] = RevokedTask(task[s]) PROVE Remains(s)
    BY <1>1, <1>3 DEF Remains, RevokedTask, Task
  <1>4. ASSUME NEW reply, task'[s] = [task[s] EXCEPT !.reply = reply],
               reply # "ok" \/ ToldToGo(s)
        PROVE  Remains(s)
    BY <1>1, <1>4 DEF Remains, Task
  <1>5. ASSUME NEW x \in Submission, Begin(x) \/ Revoke(x) \/ TaskStep(x) \/ NativeSnapshot(x)
        PROVE  Remains(s) \/ Begins(s) \/ TaskStep(s)
    <2>1. CASE Begin(x)
      <3> DEFINE k == [NewTask EXCEPT !.phase = "recovering", !.live = TRUE, !.current = TRUE,
                                      !.leased = TRUE, !.reply = FirstReply(journal)]
      <3>1. /\ k.phase = "recovering" /\ k.live /\ k.leased
            /\ k.reply = FirstReply(journal)
        BY DEF NewTask
      <3>2. task'[s] \in {task[s], RevokedTask(task[s])} \/ (x = s /\ task'[s] = k)
        BY <2>1, Zenon DEF Begin
      <3> HIDE DEF k
      <3> QED
        BY <1>2, <1>3, <2>1, <3>1, <3>2 DEF Begins
    <2>2. CASE Revoke(x)
      <3>1. task'[s] \in {task[s], RevokedTask(task[s])}
        BY <1>1, <2>2 DEF Revoke
      <3> QED
        BY <1>2, <1>3, <3>1
    <2>3. CASE TaskStep(x)
      BY <1>2, <2>3, OthersRemain
    <2>4. CASE NativeSnapshot(x)
      BY <1>2, <2>4 DEF NativeSnapshot
    <2> QED
      BY <1>5, <2>1, <2>2, <2>3, <2>4
  <1>6. ASSUME NEW a \in App, StartRecovery(a) \/ RecoveryStep(a)
        PROVE  Remains(s)
    <2>1. CASE TakeRecovered(a)
      <3> DEFINE x == app[a].rec.for
      <3>1. x \in Submission \cup {None}
        BY <2>1 DEF TakeRecovered, Types, Window, Recoveries
      <3>2. \/ task' = task
            \/ task' = Answered(x, "ok") /\ app'[a].rec = None
            \/ task' = Answered(x, "err")
        BY <2>1 DEF TakeRecovered, Recovering, Types, Window
      <3>3. CASE task' = task \/ x = None
        BY <1>2, <3>2, <3>3 DEF Answered
      <3>4. CASE x # None /\ task' # task
        <4>1. x \in Submission
          BY <3>1, <3>4
        <4>2. CASE task' = Answered(x, "ok") /\ app'[a].rec = None
          <5>1. task'[s] = task[s] \/ (s = x /\ task'[s] = [task[s] EXCEPT !.reply = "ok"])
            BY <4>1, <4>2, ReplyEdge
          <5>2. s = x => ToldToGo(s)
            BY <2>1, <4>2 DEF ToldToGo
          <5> QED
            BY <1>2, <1>4, <5>1, <5>2
        <4>3. CASE task' = Answered(x, "err")
          <5>1. task'[s] = task[s] \/ (s = x /\ task'[s] = [task[s] EXCEPT !.reply = "err"])
            BY <4>1, <4>3, ReplyEdge
          <5> QED
            BY <1>2, <1>4, <5>1
        <4> QED
          BY <3>2, <3>4, <4>2, <4>3
      <3> QED
        BY <3>3, <3>4
    <2>2. CASE ~TakeRecovered(a)
      BY <1>2, <1>6, <2>2 DEF StartRecovery, RecoveryStep, AskStatus, TakeStatus, AskRecover
    <2> QED
      BY <2>1, <2>2
  <1>7. ASSUME NEW x \in Submission, NEW reply, Reply(x, reply), reply # "ok"
        PROVE  Remains(s)
    BY <1>2, <1>4, <1>7, ReplyEdge
  <1>8. ASSUME DaemonStep
        PROVE  Remains(s)
    <2>1. CASE ReleaseImages
      <3>1. daemon.busy.s \in Submission
        BY <2>1 DEF ReleaseImages, Types, Daemon, Busy
      <3>2. Executing(daemon.busy.s, "releasing")
        BY <2>1 DEF ReleaseImages, Executing
      <3>3. store.result[daemon.busy.s] \in Known
        BY <3>1, <3>2 DEF OutcomeInv, Progress
      <3>4. task' = task \/ Reply(daemon.busy.s, store.result[daemon.busy.s])
        BY <2>1 DEF ReleaseImages
      <3> QED
        BY <1>2, <1>7, <3>1, <3>3, <3>4 DEF Known
    <2>2. CASE NativeWrite \/ NativeAnswer
      <3>1. daemon.busy.s \in Submission
        BY <2>2 DEF NativeWrite, NativeAnswer, Types, Daemon, Busy
      <3>2. task' = task \/ Reply(daemon.busy.s, "unknown")
        BY <2>2 DEF NativeWrite, NativeAnswer
      <3> QED
        BY <1>2, <1>7, <3>1, <3>2
    <2>3. ASSUME NEW x \in Submission, HandleQueue(x) \/ HandleRevoke(x)
          PROVE  Remains(s)
      <3>1. task' = task \/ Reply(x, "err")
        BY <2>3 DEF HandleQueue, HandleRevoke
      <3> QED
        BY <1>2, <1>7, <3>1
    <2>4. ASSUME NEW x \in Submission, NEW t \in ImagesOf(x),
                 HandlePublish(x, t) \/ HandleRelease(x, t)
          PROVE  Remains(s)
      <3>1. \/ task' = task \/ Reply(x, "err")
            \/ HandlePublish(x, t) /\ Publishable(x, t) /\ Reply(x, "ok")
        BY <2>4 DEF HandlePublish, HandleRelease
      <3>2. CASE HandlePublish(x, t) /\ Publishable(x, t) /\ Reply(x, "ok")
        <4>1. task'[s] = task[s] \/ (s = x /\ task'[s] = [task[s] EXCEPT !.reply = "ok"])
          BY <3>2, ReplyEdge
        <4>2. s = x => ToldToGo(s)
          BY <3>2 DEF ToldToGo
        <4> QED
          BY <1>2, <1>4, <4>1, <4>2
      <3> QED
        BY <1>2, <1>7, <3>1, <3>2
    <2>5. ASSUME NEW a \in App, DropConnection(a) PROVE Remains(s)
      BY <1>2, <2>5 DEF DropConnection
    <2> QED
      BY <1>8, <2>1, <2>2, <2>3, <2>4, <2>5 DEF DaemonStep
  <1>9. ASSUME Fault
        PROVE  Remains(s) \/ Crashes(s)
    <2>1. ASSUME NEW apps, task' = LostTasks(apps)
          PROVE  Remains(s)
      <3>1. task'[s] \in {task[s], Lost(task[s])}
        BY <2>1 DEF LostTasks
      <3> QED
        BY <1>1, <1>2, <3>1 DEF Remains, Lost, Task
    <2>2. ASSUME NEW a \in App, AppCrash(a)
          PROVE  Remains(s) \/ Crashes(s)
      <3> DEFINE k == [NewTask EXCEPT !.phase = "over"]
      <3>1. k.phase = "over" /\ ~k.live
        BY DEF NewTask
      <3>2. task'[s] = task[s] \/ (task[s].phase # "idle" /\ task'[s] = k)
        BY <2>2 DEF AppCrash
      <3> HIDE DEF k
      <3> QED
        BY <1>2, <3>1, <3>2 DEF Crashes
    <2> QED
      BY <1>9, <2>1, <2>2 DEF Fault, Disconnect, DaemonCrash
  <1> QED
    BY <1>5, <1>6, <1>8, <1>9 DEF ImageNext

Intended(s) == ImagesOf(s) \cap journal.intent
Arriving(s) == {t \in Transfer : Message("publish", s, t) \in wire}
Landed == store.ref \cup store.released

LEMMA JournalEdges ==
    ASSUME Types, ImageNext, NEW s \in Submission
    PROVE  /\ journal.intent \subseteq journal'.intent
           /\ \/ Intended(s)' = Intended(s)
              \/ PersistIntent(s) /\ \E t \in ImagesOf(s) : Intended(s)' = Intended(s) \cup {t}
           /\ s \in journal'.release => s \in journal.release \/ journal'.result[s] \in Known
  <1> DEFINE Same == /\ journal'.intent = journal.intent
                     /\ s \in journal'.release => s \in journal.release \/ journal'.result[s] \in Known
  <1>1. ASSUME NEW x \in Submission, NEW status, journal' = Recorded(x, status)
        PROVE  Same
    <2>1. CASE status \in Known
      <3> DEFINE result == [journal.result EXCEPT ![x] = status]
                 release == journal.release \cup {x}
      <3>1. journal' = [journal EXCEPT !.result = result, !.release = release]
        BY <1>1, <2>1 DEF Recorded, Types, Journal
      <3>2. (s \in release => s \in journal.release \/ s = x) /\ result[x] = status
        BY DEF Types, Journal, Results
      <3> HIDE DEF result, release
      <3>3. /\ journal'.result = result /\ journal'.release = release
            /\ journal'.intent = journal.intent
        BY <3>1 DEF Types, Journal
      <3> QED
        BY <2>1, <3>2, <3>3
    <2>2. CASE status \notin Known
      BY <1>1, <2>2 DEF Recorded
    <2> QED
      BY <2>1, <2>2
  <1>2. ASSUME NEW x \in Submission, ClaimSubject(x) \/ StoreQueue(x) \/ TakeResult(x)
        PROVE  Same
    BY <1>1, <1>2 DEF ClaimSubject, StoreQueue, TakeResult, Types, Journal
  <1>3. ASSUME NEW a \in App, TakeRecovered(a)
        PROVE  Same
    BY <1>3 DEF TakeRecovered, Types, Journal
  <1>4. ASSUME NEW a \in App, TakeStatus(a)
        PROVE  Same
    <2>1. app[a].rec.at.item.t \in Transfer
      BY <1>4 DEF TakeStatus, Types, Window, Recoveries, Item
    <2>2. SubmissionOf[app[a].rec.at.item.t] \in Submission
      BY <2>1, ImageAssumption DEF ImageAssumption
    <2> QED
      BY <1>1, <1>4, <2>2 DEF TakeStatus
  <1>5. ASSUME NEW x \in Submission, PersistIntent(x)
        PROVE  /\ journal.intent \subseteq journal'.intent
               /\ \/ Intended(s)' = Intended(s)
                  \/ x = s /\ \E t \in ImagesOf(s) : Intended(s)' = Intended(s) \cup {t}
               /\ journal'.release = journal.release
    <2>1. PICK t \in ImagesOf(x) : journal' = [journal EXCEPT !.intent = @ \cup {t}]
      BY <1>5 DEF PersistIntent
    <2>2. journal'.intent = journal.intent \cup {t} /\ journal'.release = journal.release
      BY <2>1 DEF Types, Journal
    <2> QED
      BY <2>2 DEF Intended, ImagesOf
  <1>6. CASE journal' = journal
    BY <1>6 DEF Intended
  <1> QED
    BY <1>2, <1>3, <1>4, <1>5, <1>6, Writers DEF JournalWrites, Intended

LEMMA PublishEdge ==
    ASSUME Types, NEW s \in Submission, Publish(s)
    PROVE  /\ task[s].phase = "uploading" /\ task[s].live
           /\ \E t \in Intended(s) \ task[s].refs :
                 /\ task'[s].phase = "publishing" /\ task'[s].refs = task[s].refs \cup {t}
                 /\ task'[s].live /\ task'[s].leased = task[s].leased
                 /\ task'[s].handed = task[s].handed /\ task'[s].reply = task[s].reply
                 /\ wire' = wire \cup {Message("publish", s, t)}
  <1>1. task \in [Submission -> Task] /\ task[s] \in Task
    BY DEF Types
  <1>2. PICK t \in Intended(s) \ task[s].refs :
            /\ task' = [task EXCEPT ![s].phase = "publishing", ![s].refs = @ \cup {t}]
            /\ wire' = wire \cup {Message("publish", s, t)}
    BY DEF Publish, Intended
  <1> DEFINE refs == task[s].refs \cup {t}
  <1>3. task' = [task EXCEPT ![s] = [task[s] EXCEPT !.phase = "publishing", !.refs = refs]]
    BY <1>1, <1>2
  <1> HIDE DEF refs
  <1>4. /\ task'[s].phase = "publishing" /\ task'[s].refs = refs
        /\ task'[s].live = task[s].live /\ task'[s].leased = task[s].leased
        /\ task'[s].handed = task[s].handed /\ task'[s].reply = task[s].reply
    BY <1>1, <1>3 DEF Task
  <1>5. task[s].phase = "uploading" /\ task[s].live
    BY DEF Publish, IsLive
  <1> QED
    BY <1>2, <1>4, <1>5 DEF refs

\* The life of a task: what it needs is its own as long as it is live.
Life(s) ==
    /\ task[s].live => task[s].leased /\ task[s].phase \notin {"idle", "over"}
    /\ task[s].phase \in Handing => task[s].handed
    /\ task[s].phase \in Claiming \cup Handing => s \in journal.claim

\* What puts a message on the wire.
Sends(s, m) ==
    \/ Publish(s) /\ \E t : m = Message("publish", s, t)
    \/ SubmitQueue(s) /\ m.kind = "queue"
    \/ /\ m \in Notices(s) /\ ~task'[s].live
       /\ m.kind = "release" => task[s].phase \notin {"idle", "over"} \cup Handing

LEMMA WireEdges ==
    ASSUME Types, ImageNext, NEW m \in wire' \ wire, \A s \in Submission : Life(s)
    PROVE  \E s \in Submission : Sends(s, m)
  <1>1. task \in [Submission -> Task]
    BY DEF Types
  <1>2. ASSUME NEW s \in Submission, m \in Notices(s),
               task[s].live \/ task[s].phase \notin {"idle", "settling", "over"}
        PROVE  m.kind = "release" => task[s].phase \notin {"idle", "over"} \cup Handing
    <2>1. Life(s)
      BY <1>2
    <2>2. m.kind = "release" => ~task[s].handed
      BY <1>2 DEF Notices
    <2> QED
      BY <1>2, <2>1, <2>2 DEF Life
  <1>3. ASSUME NEW x \in Submission, Begin(x) \/ Revoke(x) \/ TaskStep(x) \/ NativeSnapshot(x)
        PROVE  \E s \in Submission : Sends(s, m)
    <2>1. CASE Begin(x)
      <3> DEFINE previous == {y \in TasksOf(AppOf[x]) : task[y].live}
                 k == [NewTask EXCEPT !.phase = "recovering", !.live = TRUE, !.current = TRUE,
                                      !.leased = TRUE, !.reply = FirstReply(journal)]
      <3>1. /\ wire' = wire \cup UNION {Notices(y) : y \in previous}
            /\ task[x].phase = "idle"
            /\ task' = [y \in Submission |-> IF y = x THEN k
                           ELSE IF y \in previous THEN RevokedTask(task[y]) ELSE task[y]]
        BY <2>1 DEF Begin
      <3>2. PICK s \in previous : m \in Notices(s)
        BY <3>1
      <3>3. s \in Submission /\ task[s].live
        BY DEF TasksOf
      <3>4. s # x
        BY <3>1, <3>3 DEF Life
      <3>5. task'[s] = RevokedTask(task[s])
        BY <3>1, <3>2, <3>3, <3>4
      <3>6. ~task'[s].live
        BY <1>1, <3>3, <3>5, RevokedTypes
      <3>7. m.kind = "release" => task[s].phase \notin {"idle", "over"} \cup Handing
        BY <1>2, <3>2, <3>3
      <3> HIDE DEF previous
      <3> QED
        BY <3>2, <3>3, <3>6, <3>7 DEF Sends
    <2>2. CASE Publish(x)
      BY <2>2 DEF Publish, Sends
    <2>3. CASE SubmitQueue(x)
      <3>1. m = Message("queue", x, None)
        BY <2>3 DEF SubmitQueue
      <3>2. m.kind = "queue"
        BY <3>1 DEF Message
      <3> QED
        BY <2>3, <3>2 DEF Sends
    <2>4. CASE Finish(x)
      <3>1. m \in Notices(x) /\ m.kind = "revoke"
        BY <2>4 DEF Finish
      <3> QED
        BY <2>4, <3>1, OwnFields DEF Sends
    <2>5. CASE Fail(x)
      <3>1. m \in Notices(x) /\ task[x].phase \notin {"idle", "settling", "over"}
        BY <2>5 DEF Fail
      <3> QED
        BY <1>2, <2>5, <3>1, OwnFields DEF Sends
    <2>6. CASE Revoke(x)
      <3>1. m \in Notices(x) /\ task[x].live /\ task'[x] = RevokedTask(task[x])
        BY <1>1, <2>6 DEF Revoke
      <3>2. ~task'[x].live
        BY <1>1, <3>1, RevokedTypes
      <3> QED
        BY <1>2, <3>1, <3>2 DEF Sends
    <2>7. CASE \/ Activate(x) \/ PersistIntent(x) \/ ClaimSubject(x) \/ StoreQueue(x)
               \/ ClaimNativeWrite(x) \/ TakeResult(x) \/ NativeSnapshot(x)
      BY <2>7 DEF Activate, PersistIntent, ClaimSubject, StoreQueue, ClaimNativeWrite,
                  TakeResult, NativeSnapshot
    <2> QED
      BY <1>3, <2>1, <2>2, <2>3, <2>4, <2>5, <2>6, <2>7 DEF TaskStep
  <1>4. ASSUME NEW a \in App, StartRecovery(a) \/ RecoveryStep(a)
        PROVE  wire' = wire
    BY <1>4 DEF StartRecovery, RecoveryStep, AskStatus, TakeStatus, AskRecover, TakeRecovered
  <1>5. ASSUME DaemonStep \/ Fault
        PROVE  wire' \subseteq wire
    BY <1>5 DEF DaemonStep, Fault, NativeWrite, NativeAnswer, ReleaseImages, HandleQueue,
                HandleRevoke, HandlePublish, HandleRelease, DropConnection, Takes,
                Disconnect, AppCrash, DaemonCrash
  <1> QED
    BY <1>3, <1>4, <1>5 DEF ImageNext

\* What takes a file of an image away, and what keeps the rest.
TakesFile(t) ==
    \/ /\ daemon.busy = None
       /\ \/ store.result[SubmissionOf[t]] \in Known
          \/ \E a \in App : /\ app[a].rec # None
                            /\ \E i \in app[a].rec.todo : i.release /\ i.t = t
          \/ Message("release", SubmissionOf[t], t) \in wire
    \/ Executing(SubmissionOf[t], "releasing")

LEMMA StoreEdges ==
    ASSUME Types, ImageNext
    PROVE  /\ Landed \subseteq Landed'
           /\ \A t \in store.file \ store'.file : TakesFile(t)
  <1>1. ASSUME NEW ts \in SUBSET Transfer, store' = Released(store, ts)
        PROVE  Landed \subseteq Landed' /\ store.file \ store'.file \subseteq ts
    BY <1>1, ReleasedTypes DEF Types, Landed
  <1>2. ASSUME store' = store
        PROVE  Landed \subseteq Landed' /\ store.file \subseteq store'.file
    BY <1>2 DEF Landed
  <1>3. ASSUME NEW s \in Submission, HandleQueue(s)
        PROVE  Landed \subseteq Landed' /\ store.file \subseteq store'.file
    BY <1>3 DEF HandleQueue, Types, Store, Landed
  <1>4. ASSUME NativeWrite \/ NativeAnswer
        PROVE  Landed \subseteq Landed' /\ store.file \subseteq store'.file
    BY <1>4 DEF NativeWrite, NativeAnswer, Types, Store, Landed
  <1>5. ASSUME NEW s \in Submission, NEW t \in Transfer, HandlePublish(s, t)
        PROVE  Landed \subseteq Landed' /\ store.file \subseteq store'.file
    <2>1. CASE store' = store
      BY <1>2, <2>1
    <2>2. CASE store' = [store EXCEPT !.ref = @ \cup {t}, !.file = @ \cup {t}]
      <3>1. /\ store'.ref = store.ref \cup {t} /\ store'.file = store.file \cup {t}
            /\ store'.released = store.released
        BY <2>2 DEF Types, Store
      <3> QED
        BY <3>1 DEF Landed
    <2> QED
      BY <1>5, <2>1, <2>2 DEF HandlePublish
  <1>6. ASSUME NEW s \in Submission, NEW t \in ImagesOf(s), HandleRelease(s, t)
        PROVE  /\ Landed \subseteq Landed' /\ store.file \ store'.file \subseteq {t}
               /\ TakesFile(t)
    BY <1>1, <1>6 DEF HandleRelease, Takes, TakesFile, ImagesOf
  <1>7. ASSUME NEW a \in App, AskStatus(a)
        PROVE  /\ Landed \subseteq Landed'
               /\ \A t \in store.file \ store'.file : TakesFile(t)
    <2>1. PICK i \in app[a].rec.todo :
              store' = IF StatusOf(SubmissionOf[i.t]) \in Known
                       THEN Released(store, ImagesOf(SubmissionOf[i.t])) ELSE store
      BY <1>7 DEF AskStatus
    <2> DEFINE s == SubmissionOf[i.t]
    <2>2. CASE StatusOf(s) \in Known
      <3>1. Landed \subseteq Landed' /\ store.file \ store'.file \subseteq ImagesOf(s)
        BY <1>1, <2>1, <2>2 DEF ImagesOf
      <3>2. store.result[s] \in Known
        BY <2>2 DEF StatusOf, Known
      <3>3. daemon.busy = None
        BY <1>7 DEF AskStatus
      <3> QED
        BY <3>1, <3>2, <3>3 DEF TakesFile, ImagesOf
    <2>3. CASE StatusOf(s) \notin Known
      BY <1>2, <2>1, <2>3
    <2> QED
      BY <2>2, <2>3
  <1>8. ASSUME NEW a \in App, AskRecover(a)
        PROVE  /\ Landed \subseteq Landed'
               /\ \A t \in store.file \ store'.file : TakesFile(t)
    <2>1. PICK i \in app[a].rec.todo :
              store' = IF i.release THEN Released(store, {i.t}) ELSE store
      BY <1>8 DEF AskRecover
    <2>2. i.t \in Transfer /\ app[a].rec # None /\ daemon.busy = None
      BY <1>8 DEF AskRecover, Types, Window, Recoveries, Item
    <2>3. CASE i.release
      <3>1. Landed \subseteq Landed' /\ store.file \ store'.file \subseteq {i.t}
        BY <1>1, <2>1, <2>2, <2>3
      <3>2. TakesFile(i.t)
        BY <2>2, <2>3 DEF TakesFile
      <3> QED
        BY <3>1, <3>2
    <2>4. CASE ~i.release
      BY <1>2, <2>1, <2>4
    <2> QED
      BY <2>3, <2>4
  <1>9. ASSUME ReleaseImages
        PROVE  /\ Landed \subseteq Landed'
               /\ \A t \in store.file \ store'.file : TakesFile(t)
    <2>1. CASE store' = store
      BY <1>2, <2>1
    <2>2. CASE store' # store
      <3>1. PICK t \in ImagesOf(daemon.busy.s) : store' = Released(store, {t})
        BY <1>9, <2>2 DEF ReleaseImages
      <3>2. Landed \subseteq Landed' /\ store.file \ store'.file \subseteq {t}
        BY <1>1, <3>1 DEF ImagesOf
      <3>3. TakesFile(t)
        BY <1>9 DEF ReleaseImages, TakesFile, Executing, ImagesOf
      <3> QED
        BY <3>2, <3>3
    <2> QED
      BY <2>1, <2>2
  <1>10. DaemonStep \/ (\E a \in App : AskStatus(a) \/ AskRecover(a)) \/ store' = store
    <2>1. ASSUME NEW s \in Submission, Begin(s) \/ Revoke(s) \/ TaskStep(s) \/ NativeSnapshot(s)
          PROVE  store' = store
      BY <2>1 DEF Begin, Revoke, TaskStep, NativeSnapshot, Activate, PersistIntent, Publish,
         ClaimSubject, StoreQueue, ClaimNativeWrite, SubmitQueue, TakeResult, Finish, Fail
    <2>2. ASSUME NEW a \in App, StartRecovery(a) \/ TakeStatus(a) \/ TakeRecovered(a)
          PROVE  store' = store
      BY <2>2 DEF StartRecovery, TakeStatus, TakeRecovered
    <2>3. ASSUME Fault PROVE store' = store
      BY <2>3 DEF Fault, Disconnect, AppCrash, DaemonCrash
    <2> QED
      BY <2>1, <2>2, <2>3 DEF ImageNext, RecoveryStep
  <1>11. ASSUME DaemonStep
         PROVE  /\ Landed \subseteq Landed'
                /\ \A t \in store.file \ store'.file : TakesFile(t)
    <2>1. CASE NativeWrite \/ NativeAnswer
      BY <1>4, <2>1
    <2>2. CASE ReleaseImages
      BY <1>9, <2>2
    <2>3. ASSUME NEW s \in Submission, HandleQueue(s) \/ HandleRevoke(s)
          PROVE  /\ Landed \subseteq Landed'
                 /\ \A t \in store.file \ store'.file : TakesFile(t)
      BY <1>2, <1>3, <2>3 DEF HandleRevoke
    <2>4. ASSUME NEW s \in Submission, NEW t \in ImagesOf(s),
                 HandlePublish(s, t) \/ HandleRelease(s, t)
          PROVE  /\ Landed \subseteq Landed'
                 /\ \A u \in store.file \ store'.file : TakesFile(u)
      BY <1>5, <1>6, <2>4 DEF ImagesOf
    <2>5. ASSUME NEW a \in App, DropConnection(a) PROVE store' = store
      BY <2>5 DEF DropConnection
    <2> QED
      BY <1>2, <1>11, <2>1, <2>2, <2>3, <2>4, <2>5 DEF DaemonStep
  <1> QED
    BY <1>2, <1>7, <1>8, <1>10, <1>11

\* What a recovery may release: the outcome is known or the input was never claimed and
\* its task gave it up.
LEMMA WorkEdges ==
    ASSUME NEW j \in Journal, NEW i \in Work(j)
    PROVE  /\ i.t \in j.intent
           /\ i.release => \/ SubmissionOf[i.t] \in j.release
                           \/ SubmissionOf[i.t] \notin j.claim /\ ~task[SubmissionOf[i.t]].leased
  <1>1. PICK t \in j.intent \ j.done :
            /\ Orphaned(j, t) => LeaseFree(SubmissionOf[t])
            /\ i = [t |-> t, release |-> Unclaimed(j, t) \/ Explicit(j, t), asked |-> FALSE,
                    leased |-> Orphaned(j, t)]
    BY DEF Work
  <1>2. i.t = t /\ i.release = (Unclaimed(j, t) \/ Explicit(j, t))
    BY <1>1
  <1>3. Unclaimed(j, t) /\ ~Explicit(j, t) => ~task[SubmissionOf[t]].leased
    BY <1>1 DEF Orphaned, LeaseFree
  <1> QED
    BY <1>2, <1>3 DEF Unclaimed, Explicit

\* Where the work of a recovery comes from.
LEMMA TodoEdges ==
    ASSUME Types, ImageNext, NEW a \in App, app'[a].rec # None, NEW i \in app'[a].rec.todo
    PROVE  \/ app[a].rec # None /\ i \in app[a].rec.todo
           \/ i \in Work(journal)
           \/ i \in Work(journal')
           \/ /\ app[a].rec # None
              /\ \E u \in app[a].rec.todo :
                    /\ i.t = u.t
                    /\ i.release => \/ u.release
                                    \/ /\ Told(a) /\ app[a].rec.at.answer \in Known
                                       /\ SubmissionOf[i.t] = SubmissionOf[app[a].rec.at.item.t]
  <1> DEFINE Kept == app[a].rec # None /\ i \in app[a].rec.todo
  <1>1. app \in [App -> Window] /\ app[a] \in Window
    BY DEF Types
  <1>2. ASSUME app'[a].rec = app[a].rec PROVE Kept
    BY <1>2
  <1>3. ASSUME NEW s, NEW todo, app'[a].rec = Recovering(s, todo) PROVE i \in todo
    BY <1>3 DEF Recovering
  <1>4. ASSUME NEW s \in Submission, Begin(s) \/ TakeResult(s)
        PROVE  Kept \/ i \in Work(journal) \/ i \in Work(journal')
    <2>1. PICK j \in {journal, journal'} :
              app' = [app EXCEPT ![AppOf[s]].rec = Recovering(s, Work(j))]
      BY <1>4 DEF Begin, TakeResult
    <2>2. app'[a].rec = app[a].rec \/ app'[a].rec = Recovering(s, Work(j))
      BY <1>1, <2>1 DEF Window
    <2> QED
      BY <1>2, <1>3, <2>2
  <1>5. ASSUME NEW s \in Submission, ClaimNativeWrite(s) \/ Finish(s)
        PROVE  Kept
    <2>1. PICK new : app' = [app EXCEPT ![AppOf[s]].unknown = new]
      BY <1>5 DEF ClaimNativeWrite, Finish
    <2>2. app'[a].rec = app[a].rec
      BY <1>1, <2>1 DEF Window
    <2> QED
      BY <1>2, <2>2
  <1>6. ASSUME NEW b \in App, StartRecovery(b)
        PROVE  Kept \/ i \in Work(journal)
    <2>1. app'[a].rec = app[a].rec \/ app'[a].rec = Recovering(None, Work(journal))
      BY <1>1, <1>6 DEF StartRecovery, Window
    <2> QED
      BY <1>2, <1>3, <2>1
  <1>7. ASSUME NEW b \in App, AskStatus(b) \/ AskRecover(b)
        PROVE  Kept
    <2>1. app[b].rec # None
      BY <1>7 DEF AskStatus, AskRecover
    <2>2. PICK at : app' = [app EXCEPT ![b].rec.at = at]
      BY <1>7 DEF AskStatus, AskRecover
    <2>3. app'[a].rec = app[a].rec \/ (app[a].rec # None /\ app'[a].rec = [app[a].rec EXCEPT !.at = at])
      BY <1>1, <2>1, <2>2 DEF Window
    <2>4. app[a].rec # None => app[a].rec \in Recoveries
      BY <1>1 DEF Window
    <2> QED
      BY <1>2, <2>3, <2>4 DEF Recoveries
  <1>8. ASSUME NEW b \in App, TakeRecovered(b)
        PROVE  Kept
    <2>1. app[b].rec # None
      BY <1>8 DEF TakeRecovered
    <2>2. PICK rec : /\ app' = [app EXCEPT ![b].rec = rec]
                     /\ \/ rec = None
                        \/ rec = Recovering(app[b].rec.for, app[b].rec.todo \ {app[b].rec.at.item})
      BY <1>8 DEF TakeRecovered
    <2>3. app'[a].rec = app[a].rec \/ (a = b /\ app'[a].rec = rec)
      BY <1>1, <2>2 DEF Window
    <2> QED
      BY <1>2, <1>3, <2>1, <2>2, <2>3
  <1>9. ASSUME NEW b \in App, b # a, TakeStatus(b)
        PROVE  Kept
    <2>1. app'[a] = app[a]
      BY <1>1, <1>9 DEF TakeStatus
    <2> QED
      BY <1>2, <2>1
  <1>10. ASSUME TakeStatus(a)
         PROVE  /\ app[a].rec # None
                /\ \E u \in app[a].rec.todo :
                      /\ i.t = u.t
                      /\ i.release => \/ u.release
                                      \/ /\ Told(a) /\ app[a].rec.at.answer \in Known
                                         /\ SubmissionOf[i.t] = SubmissionOf[app[a].rec.at.item.t]
    <2> DEFINE status == app[a].rec.at.answer
               s == SubmissionOf[app[a].rec.at.item.t]
               Informed(u) == IF SubmissionOf[u.t] = s
                              THEN [u EXCEPT !.asked = TRUE, !.release = @ \/ MayRelease(status)]
                              ELSE u
               told == {Informed(u) : u \in app[a].rec.todo}
    <2>1. app[a].rec # None /\ app[a].rec \in Recoveries /\ Told(a)
      BY <1>1, <1>10 DEF TakeStatus, Window, Told
    <2>2. app' = [app EXCEPT ![a].rec.at = None, ![a].rec.todo = told]
      BY <1>10 DEF TakeStatus
    <2>3. app'[a].rec = [app[a].rec EXCEPT !.at = None, !.todo = told]
      <3> HIDE DEF told
      <3> QED
        BY <1>1, <2>1, <2>2 DEF Window
    <2>4. app'[a].rec.todo = told
      <3> HIDE DEF told
      <3> QED
        BY <2>1, <2>3 DEF Recoveries
    <2>5. PICK u \in app[a].rec.todo : i = Informed(u)
      BY <2>4
    <2>6. u \in Item
      BY <2>1, <2>5 DEF Recoveries
    <2>7. i.t = u.t /\ (i.release => u.release \/ (MayRelease(status) /\ SubmissionOf[u.t] = s))
      BY <2>5, <2>6 DEF Item
    <2> QED
      BY <2>1, <2>7 DEF MayRelease
  <1>11. ASSUME NEW b \in App, Disconnect(b) \/ AppCrash(b)
         PROVE  Kept
    <2>1. app'[a] = app[a] \/ app'[a].rec = None
      BY <1>1, <1>11 DEF Disconnect, AppCrash, NewApp, Window
    <2> QED
      BY <1>2, <2>1
  <1>12. ~DaemonCrash
    BY <1>1 DEF DaemonCrash, Window
  <1>13. CASE app' = app
    BY <1>2, <1>13
  <1> QED
    BY <1>4, <1>5, <1>6, <1>7, <1>8, <1>9, <1>10, <1>11, <1>12, <1>13, Writers DEF AppWrites

LEMMA ArrivingEdges ==
    ASSUME Types, ImageNext, \A x \in Submission : Life(x), NEW s \in Submission
    PROVE  /\ Publish(s) \/ Arriving(s)' \subseteq Arriving(s)
           /\ \A t \in ImagesOf(s) : HandlePublish(s, t) =>
                 t \in Arriving(s) /\ Arriving(s)' \subseteq Arriving(s) \ {t}
  <1>1. ASSUME NEW t \in Arriving(s)' \ Arriving(s) PROVE Publish(s)
    <2> DEFINE m == Message("publish", s, t)
    <2>1. m \in wire' \ wire
      BY DEF Arriving
    <2>2. m.kind = "publish" /\ m.s = s
      BY DEF Message
    <2> HIDE DEF m
    <2>3. PICK x \in Submission : Sends(x, m)
      BY <2>1, WireEdges
    <2>4. m \notin Notices(x)
      BY <2>2, NoticeTypes DEF Types
    <2>5. Publish(x) /\ \E u : m = Message("publish", x, u)
      BY <2>2, <2>3, <2>4 DEF Sends
    <2>6. m.s = x
      BY <2>5 DEF Message
    <2> QED
      BY <2>2, <2>5, <2>6
  <1>2. ASSUME NEW t \in ImagesOf(s), HandlePublish(s, t)
        PROVE  t \in Arriving(s) /\ Arriving(s)' \subseteq Arriving(s) \ {t}
    BY <1>2 DEF HandlePublish, Takes, Arriving, ImagesOf
  <1> QED
    BY <1>1, <1>2

LEMMA BeginEdge ==
    ASSUME Types, NEW s \in Submission, Begin(s)
    PROVE  task[s].phase = "idle" /\ Begins(s)
  <1> DEFINE k == [NewTask EXCEPT !.phase = "recovering", !.live = TRUE, !.current = TRUE,
                                  !.leased = TRUE, !.reply = FirstReply(journal)]
  <1>1. /\ k.phase = "recovering" /\ k.live /\ k.leased
        /\ k.reply = FirstReply(journal)
    BY DEF NewTask
  <1>2. task'[s] = k /\ task[s].phase = "idle"
    BY DEF Begin
  <1> HIDE DEF k
  <1> QED
    BY <1>1, <1>2 DEF Begins

\* Whom a recovery runs for.
LEMMA ForEdges ==
    ASSUME Types, ImageNext, NEW a \in App, app'[a].rec # None
    PROVE  \/ app[a].rec # None /\ app'[a].rec.for = app[a].rec.for
           \/ app'[a].rec.for = None
           \/ \E s \in Submission : /\ app'[a].rec.for = s /\ AppOf[s] = a
                                    /\ (Begin(s) /\ Work(journal) # {}) \/ TakeResult(s)
  <1> DEFINE Kept == app[a].rec # None /\ app'[a].rec.for = app[a].rec.for
  <1>1. app \in [App -> Window] /\ app[a] \in Window
    BY DEF Types
  <1>2. ASSUME app'[a].rec = app[a].rec PROVE Kept
    BY <1>2
  <1>3. ASSUME NEW s, NEW todo, app'[a].rec = Recovering(s, todo)
        PROVE  todo # {} /\ app'[a].rec.for = s
    BY <1>3 DEF Recovering
  <1>4. ASSUME NEW s \in Submission, Begin(s) \/ TakeResult(s)
        PROVE  \/ Kept
               \/ /\ app'[a].rec.for = s /\ AppOf[s] = a
                  /\ (Begin(s) /\ Work(journal) # {}) \/ TakeResult(s)
    <2>1. CASE Begin(s)
      <3>1. app' = [app EXCEPT ![AppOf[s]].rec = Recovering(s, Work(journal))]
        BY <2>1 DEF Begin
      <3>2. app'[a].rec = app[a].rec \/ (a = AppOf[s] /\ app'[a].rec = Recovering(s, Work(journal)))
        BY <1>1, <3>1 DEF Window
      <3> QED
        BY <1>2, <1>3, <2>1, <3>2
    <2>2. CASE TakeResult(s)
      <3>1. app' = [app EXCEPT ![AppOf[s]].rec = Recovering(s, Work(journal'))]
        BY <2>2 DEF TakeResult
      <3>2. app'[a].rec = app[a].rec \/ (a = AppOf[s] /\ app'[a].rec = Recovering(s, Work(journal')))
        BY <1>1, <3>1 DEF Window
      <3> QED
        BY <1>2, <1>3, <2>2, <3>2
    <2> QED
      BY <1>4, <2>1, <2>2
  <1>5. ASSUME NEW s \in Submission, ClaimNativeWrite(s) \/ Finish(s)
        PROVE  Kept
    <2>1. PICK new : app' = [app EXCEPT ![AppOf[s]].unknown = new]
      BY <1>5 DEF ClaimNativeWrite, Finish
    <2>2. app'[a].rec = app[a].rec
      BY <1>1, <2>1 DEF Window
    <2> QED
      BY <1>2, <2>2
  <1>6. ASSUME NEW b \in App, StartRecovery(b)
        PROVE  Kept \/ app'[a].rec.for = None
    <2>1. app'[a].rec = app[a].rec \/ app'[a].rec = Recovering(None, Work(journal))
      BY <1>1, <1>6 DEF StartRecovery, Window
    <2> QED
      BY <1>2, <1>3, <2>1
  <1>7. ASSUME NEW b \in App, AskStatus(b) \/ AskRecover(b)
        PROVE  Kept
    <2>1. app[b].rec # None
      BY <1>7 DEF AskStatus, AskRecover
    <2>2. PICK at : app' = [app EXCEPT ![b].rec.at = at]
      BY <1>7 DEF AskStatus, AskRecover
    <2>3. app'[a].rec = app[a].rec \/ (app[a].rec # None /\ app'[a].rec = [app[a].rec EXCEPT !.at = at])
      BY <1>1, <2>1, <2>2 DEF Window
    <2>4. app[a].rec # None => app[a].rec \in Recoveries
      BY <1>1 DEF Window
    <2> QED
      BY <1>2, <2>3, <2>4 DEF Recoveries
  <1>8. ASSUME NEW b \in App, TakeRecovered(b)
        PROVE  Kept
    <2>1. app[b].rec # None
      BY <1>8 DEF TakeRecovered
    <2>2. PICK rec : /\ app' = [app EXCEPT ![b].rec = rec]
                     /\ \/ rec = None
                        \/ rec = Recovering(app[b].rec.for, app[b].rec.todo \ {app[b].rec.at.item})
      BY <1>8 DEF TakeRecovered
    <2>3. app'[a].rec = app[a].rec \/ (a = b /\ app'[a].rec = rec)
      BY <1>1, <2>2 DEF Window
    <2> QED
      BY <1>2, <1>3, <2>1, <2>2, <2>3
  <1>9. ASSUME NEW b \in App, TakeStatus(b)
        PROVE  Kept
    <2>1. app[b].rec # None
      BY <1>9 DEF TakeStatus
    <2>2. PICK told : app' = [app EXCEPT ![b].rec.at = None, ![b].rec.todo = told]
      BY <1>9 DEF TakeStatus
    <2>3. \/ app'[a].rec = app[a].rec
          \/ app[a].rec # None /\ app'[a].rec = [app[a].rec EXCEPT !.at = None, !.todo = told]
      BY <1>1, <2>1, <2>2 DEF Window
    <2>4. app[a].rec # None => app[a].rec \in Recoveries
      BY <1>1 DEF Window
    <2> QED
      BY <1>2, <2>3, <2>4 DEF Recoveries
  <1>10. ASSUME NEW b \in App, Disconnect(b) \/ AppCrash(b)
         PROVE  Kept
    <2>1. app'[a] = app[a] \/ app'[a].rec = None
      BY <1>1, <1>10 DEF Disconnect, AppCrash, NewApp, Window
    <2> QED
      BY <1>2, <2>1
  <1>11. ~DaemonCrash
    BY <1>1 DEF DaemonCrash, Window
  <1>12. CASE app' = app
    BY <1>2, <1>12
  <1> QED
    BY <1>4, <1>5, <1>6, <1>7, <1>8, <1>9, <1>10, <1>11, <1>12, Writers DEF AppWrites

-----------------------------------------------------------------------------
(* One image at a time: the next is intended only when every earlier one has     *)
(* landed, and nothing is claimed before all have.                                *)

UploadBegins(s) ==
    task[s].phase \in {"idle", "recovering", "active"} => Intended(s) = {} /\ Arriving(s) = {}
OneUpload(s) ==
    task[s].phase = "uploading" =>
        /\ task[s].reply # "ok" /\ Arriving(s) = {}
        /\ task[s].live => \A t \in Intended(s) \ task[s].refs :
               Intended(s) \ {t} \subseteq task[s].refs \cap Landed
PublishedInOrder(s) ==
    task[s].phase = "publishing" =>
        /\ \A t, u \in Arriving(s) : t = u
        /\ task[s].reply = "ok" => Arriving(s) = {}
        /\ task[s].live =>
               /\ Intended(s) \subseteq task[s].refs
               /\ task[s].reply = "ok" => Intended(s) \subseteq Landed
               /\ \A t \in Arriving(s) : Intended(s) \ {t} \subseteq Landed
ClaimedHasLanded(s) ==
    s \in journal.claim => task[s].phase \notin Unsent /\ Intended(s) \subseteq Landed
\* A recovery answers the task it runs for, once, and no other.
RunsFor(s) ==
    \A a \in App : app[a].rec # None /\ app[a].rec.for = s =>
        /\ AppOf[s] = a /\ task[s].phase \in {"recovering", "settling", "over"}
        /\ task[s].phase = "recovering" => task[s].reply # "ok"

UploadInv ==
    \A s \in Submission : /\ Life(s) /\ UploadBegins(s) /\ OneUpload(s)
                          /\ PublishedInOrder(s) /\ ClaimedHasLanded(s) /\ RunsFor(s)

LEMMA LifeStep ==
    ASSUME Types, OutcomeInv, UploadInv, ImageNext, NEW s \in Submission
    PROVE  Life(s)'
  <1>1. task[s] \in Task /\ Life(s) /\ journal.claim \subseteq journal'.claim
    BY JournalFate DEF Types, UploadInv
  <1>2. CASE Remains(s)
    BY <1>1, <1>2 DEF Remains, Life
  <1>3. CASE Begins(s) \/ Crashes(s)
    BY <1>3 DEF Begins, Crashes, Life, Claiming, Handing
  <1>4. CASE Activate(s) \/ PersistIntent(s) \/ StoreQueue(s) \/ ClaimNativeWrite(s)
             \/ SubmitQueue(s) \/ TakeResult(s)
    BY <1>1, <1>4, OwnFields DEF Life, Moves, Claiming, Handing
  <1>5. CASE Publish(s)
    BY <1>1, <1>5, PublishEdge DEF Life, Claiming, Handing
  <1>6. CASE ClaimSubject(s)
    <2>1. s \in journal'.claim
      BY <1>6 DEF ClaimSubject, Types, Journal
    <2> QED
      BY <1>1, <1>6, <2>1, OwnFields DEF Life, Moves, Claiming, Handing
  <1>7. CASE Finish(s) \/ Fail(s)
    BY <1>7, OwnFields DEF Life, Claiming, Handing
  <1> QED
    BY <1>2, <1>3, <1>4, <1>5, <1>6, <1>7, TaskEdges DEF TaskStep

\* Why a task that uploads or publishes is told to go on.
LEMMA ToldBecauseLanded ==
    ASSUME Types, UploadInv, ImageNext, NEW s \in Submission, ToldToGo(s),
           task[s].phase \in {"uploading", "publishing"}
    PROVE  /\ task[s].phase = "publishing" /\ Arriving(s)' = {}
           /\ task[s].live => Intended(s) \subseteq Landed'
  <1>1. ASSUME NEW a \in App, TakeRecovered(a), app[a].rec.for = s PROVE FALSE
    BY <1>1 DEF TakeRecovered, UploadInv, RunsFor
  <1>2. PICK t \in ImagesOf(s) : HandlePublish(s, t) /\ Publishable(s, t)
    BY <1>1 DEF ToldToGo
  <1>3. t \in Arriving(s) /\ Arriving(s)' \subseteq Arriving(s) \ {t}
    BY <1>2, ArrivingEdges DEF UploadInv
  <1>4. task[s].phase = "publishing"
    BY <1>3 DEF UploadInv, OneUpload
  <1>5. t \in Landed' /\ Landed \subseteq Landed'
    <2>1. store' = [store EXCEPT !.ref = @ \cup {t}, !.file = @ \cup {t}]
      BY <1>2 DEF HandlePublish
    <2>2. t \in store'.ref
      BY <2>1 DEF Types, Store
    <2> QED
      BY <2>2, StoreEdges DEF Landed
  <1>6. (\A u \in Arriving(s) : u = t)
        /\ (task[s].live => Intended(s) \ {t} \subseteq Landed)
    BY <1>3, <1>4 DEF UploadInv, PublishedInOrder
  <1> QED
    BY <1>3, <1>4, <1>5, <1>6

\* The phases up to the claim follow each other, and only their own steps touch the
\* intent and the publications of an input.
LEMMA UploadPhases ==
    ASSUME Types, OutcomeInv, UploadInv, ImageNext, NEW s \in Submission
    PROVE  /\ task'[s].phase \in {"idle", "recovering", "active"} =>
                 task[s].phase \in {"idle", "recovering", "active"}
           /\ task'[s].phase = "uploading" => PersistIntent(s) \/ Remains(s)
           /\ task'[s].phase = "publishing" => Publish(s) \/ Remains(s)
           /\ task'[s].phase \in Unsent => task[s].phase \in Unsent
           /\ PersistIntent(s) \/ Intended(s)' = Intended(s)
           /\ Publish(s) \/ Arriving(s)' \subseteq Arriving(s)
  <1>1. TaskStep(s) =>
            \/ Activate(s) \/ PersistIntent(s) \/ Publish(s) \/ ClaimSubject(s)
            \/ task'[s].phase \notin Unsent
    BY OwnFields DEF TaskStep, Moves, Unsent
  <1>2. /\ Activate(s) => task[s].phase = "recovering" /\ task'[s].phase = "active"
        /\ PersistIntent(s) => /\ task[s].phase \in {"active", "publishing"}
                               /\ task'[s].phase = "uploading"
        /\ Publish(s) => task[s].phase = "uploading" /\ task'[s].phase = "publishing"
        /\ ClaimSubject(s) => task[s].phase = "publishing" /\ task'[s].phase = "claimed"
    BY OwnFields, PublishEdge DEF Moves
  <1>3. Remains(s) => task'[s].phase = task[s].phase
    BY DEF Remains
  <1>4. Begins(s) => task[s].phase = "idle" /\ task'[s].phase = "recovering"
    BY BeginEdge DEF Begins
  <1>5. Crashes(s) => task'[s].phase = "over"
    BY DEF Crashes
  <1>6. PersistIntent(s) \/ Intended(s)' = Intended(s)
    BY JournalEdges
  <1>7. Publish(s) \/ Arriving(s)' \subseteq Arriving(s)
    BY ArrivingEdges DEF UploadInv
  <1> QED
    BY <1>1, <1>2, <1>3, <1>4, <1>5, <1>6, <1>7, TaskEdges DEF Unsent

LEMMA UploadBeginsStep ==
    ASSUME Types, OutcomeInv, UploadInv, ImageNext, NEW s \in Submission
    PROVE  UploadBegins(s)'
  <1> SUFFICES ASSUME task'[s].phase \in {"idle", "recovering", "active"}
               PROVE  Intended(s)' = {} /\ Arriving(s)' = {}
    BY DEF UploadBegins
  <1>1. ~PersistIntent(s) /\ ~Publish(s)
    BY OwnFields, PublishEdge DEF Moves
  <1>2. Intended(s) = {} /\ Arriving(s) = {}
    BY UploadPhases DEF UploadInv, UploadBegins
  <1> QED
    BY <1>1, <1>2, UploadPhases

LEMMA OneUploadStep ==
    ASSUME Types, OutcomeInv, UploadInv, ImageNext, NEW s \in Submission
    PROVE  OneUpload(s)'
  <1> SUFFICES ASSUME task'[s].phase = "uploading"
               PROVE  /\ task'[s].reply # "ok" /\ Arriving(s)' = {}
                      /\ task'[s].live => \A u \in Intended(s)' \ task'[s].refs :
                             Intended(s)' \ {u} \subseteq task'[s].refs \cap Landed'
    BY DEF OneUpload
  <1>1. ~Publish(s)
    BY PublishEdge
  <1>2. Arriving(s)' \subseteq Arriving(s) /\ Landed \subseteq Landed'
    BY <1>1, UploadPhases, StoreEdges
  <1>3. CASE PersistIntent(s)
    <2>1. /\ task[s].phase \in {"active", "publishing"} /\ task[s].live
          /\ task[s].reply = "ok" /\ task'[s].reply = None /\ task'[s].refs = task[s].refs
      BY <1>3, OwnFields DEF Moves
    <2>2. PICK t \in ImagesOf(s) : Intended(s)' \subseteq Intended(s) \cup {t}
      BY <1>3, JournalEdges DEF PersistIntent
    <2>3. Arriving(s) = {} /\ Intended(s) \subseteq task[s].refs \cap Landed
      BY <2>1 DEF UploadInv, UploadBegins, PublishedInOrder
    <2> QED
      BY <1>2, <2>1, <2>2, <2>3, NoOutcome
  <1>4. CASE Remains(s)
    <2>1. /\ task[s].phase = "uploading" /\ task[s].reply # "ok" /\ Arriving(s) = {}
          /\ task[s].live => \A u \in Intended(s) \ task[s].refs :
                 Intended(s) \ {u} \subseteq task[s].refs \cap Landed
      BY <1>4 DEF Remains, UploadInv, OneUpload
    <2>2. ~PersistIntent(s)
      BY <2>1, OwnFields DEF Moves
    <2>3. Intended(s)' = Intended(s)
      BY <2>2, UploadPhases
    <2>4. task'[s].reply # "ok"
      BY <1>4, <2>1, ToldBecauseLanded DEF Remains
    <2>5. task'[s].live => task[s].live /\ task'[s].refs = task[s].refs
      BY <1>4 DEF Remains
    <2> QED
      BY <1>2, <2>1, <2>3, <2>4, <2>5
  <1> QED
    BY <1>3, <1>4, UploadPhases

LEMMA PublishedStep ==
    ASSUME Types, OutcomeInv, UploadInv, ImageNext, NEW s \in Submission
    PROVE  PublishedInOrder(s)'
  <1> SUFFICES ASSUME task'[s].phase = "publishing"
               PROVE  /\ \A t, u \in Arriving(s)' : t = u
                      /\ task'[s].reply = "ok" => Arriving(s)' = {}
                      /\ task'[s].live =>
                             /\ Intended(s)' \subseteq task'[s].refs
                             /\ task'[s].reply = "ok" => Intended(s)' \subseteq Landed'
                             /\ \A t \in Arriving(s)' : Intended(s)' \ {t} \subseteq Landed'
    BY DEF PublishedInOrder
  <1>1. ~PersistIntent(s)
    BY OwnFields DEF Moves
  <1>2. Intended(s)' = Intended(s) /\ Landed \subseteq Landed'
    BY <1>1, UploadPhases, StoreEdges
  <1>3. CASE Publish(s)
    <2>1. PICK t \in Intended(s) \ task[s].refs :
              /\ task'[s].refs = task[s].refs \cup {t} /\ task'[s].reply = task[s].reply
              /\ wire' = wire \cup {Message("publish", s, t)}
      BY <1>3, PublishEdge
    <2>2. /\ task[s].reply # "ok" /\ Arriving(s) = {}
          /\ Intended(s) \ {t} \subseteq task[s].refs \cap Landed
      BY <1>3, PublishEdge DEF UploadInv, OneUpload
    <2>3. Arriving(s)' \subseteq {t}
      BY <2>1, <2>2 DEF Arriving, Message
    <2> QED
      BY <1>2, <2>1, <2>2, <2>3
  <1>4. CASE Remains(s) /\ ~Publish(s)
    <2>1. /\ task[s].phase = "publishing"
          /\ task'[s].live => task[s].live /\ task'[s].refs = task[s].refs
          /\ task'[s].reply = "ok" => task[s].reply = "ok" \/ ToldToGo(s)
      BY <1>4 DEF Remains
    <2>2. PublishedInOrder(s)
      BY DEF UploadInv
    <2>3. Arriving(s)' \subseteq Arriving(s)
      BY <1>4, UploadPhases
    <2>4. ToldToGo(s) => /\ Arriving(s)' = {}
                         /\ task[s].live => Intended(s) \subseteq Landed'
      BY <2>1, ToldBecauseLanded
    <2> QED
      BY <1>2, <2>1, <2>2, <2>3, <2>4 DEF PublishedInOrder
  <1> QED
    BY <1>3, <1>4, UploadPhases

LEMMA ClaimedStep ==
    ASSUME Types, OutcomeInv, UploadInv, ImageNext, NEW s \in Submission
    PROVE  ClaimedHasLanded(s)'
  <1> SUFFICES ASSUME s \in journal'.claim
               PROVE  task'[s].phase \notin Unsent /\ Intended(s)' \subseteq Landed'
    BY DEF ClaimedHasLanded
  <1>1. Landed \subseteq Landed'
    BY StoreEdges
  <1>2. PersistIntent(s) => task[s].phase \in {"active", "publishing"} /\ task'[s].phase = "uploading"
    BY OwnFields DEF Moves
  <1>3. CASE s \in journal.claim
    <2>1. task[s].phase \notin Unsent /\ Intended(s) \subseteq Landed
      BY <1>3 DEF UploadInv, ClaimedHasLanded
    <2>2. ~PersistIntent(s)
      BY <1>2, <2>1 DEF Unsent
    <2> QED
      BY <1>1, <2>1, <2>2, UploadPhases
  <1>4. CASE ClaimSubject(s)
    <2>1. /\ task[s].phase = "publishing" /\ task[s].live /\ task[s].reply = "ok"
          /\ task'[s].phase = "claimed"
      BY <1>4, OwnFields DEF Moves
    <2>2. Intended(s) \subseteq Landed
      BY <2>1 DEF UploadInv, PublishedInOrder
    <2>3. ~PersistIntent(s)
      BY <1>2, <2>1
    <2> QED
      BY <1>1, <2>1, <2>2, <2>3, UploadPhases DEF Unsent
  <1> QED
    BY <1>3, <1>4, JournalFate

LEMMA RunsForStep ==
    ASSUME Types, OutcomeInv, UploadInv, ImageNext, NEW s \in Submission
    PROVE  RunsFor(s)'
  <1> SUFFICES ASSUME NEW a \in App, app'[a].rec # None, app'[a].rec.for = s
               PROVE  /\ AppOf[s] = a /\ task'[s].phase \in {"recovering", "settling", "over"}
                      /\ task'[s].phase = "recovering" => task'[s].reply # "ok"
    BY DEF RunsFor
  <1>1. CASE app[a].rec # None /\ app[a].rec.for = s
    <2>1. /\ AppOf[s] = a /\ task[s].phase \in {"recovering", "settling", "over"}
          /\ task[s].phase = "recovering" => task[s].reply # "ok"
      BY <1>1 DEF UploadInv, RunsFor
    <2>2. CASE Remains(s)
      <3>1. ASSUME task[s].phase = "recovering", ToldToGo(s) PROVE FALSE
        <4>1. ASSUME NEW t \in ImagesOf(s), HandlePublish(s, t) PROVE FALSE
          BY <3>1, <4>1, ArrivingEdges DEF UploadInv, UploadBegins
        <4>2. ASSUME NEW b \in App, TakeRecovered(b), app[b].rec.for = s, app'[b].rec = None
              PROVE  FALSE
          BY <2>1, <4>2 DEF TakeRecovered, UploadInv, RunsFor
        <4> QED
          BY <3>1, <4>1, <4>2 DEF ToldToGo
      <3> QED
        BY <2>1, <2>2, <3>1 DEF Remains
    <2>3. CASE Begins(s)
      BY <2>1, <2>3, BeginEdge DEF Begins
    <2>4. CASE Crashes(s)
      BY <2>1, <2>4 DEF Crashes
    <2>5. CASE TaskStep(s)
      BY <2>1, <2>5, OwnFields, PublishEdge DEF TaskStep, Moves
    <2> QED
      BY <2>2, <2>3, <2>4, <2>5, TaskEdges
  <1>2. CASE Begin(s) /\ Work(journal) # {} /\ AppOf[s] = a
    BY <1>2, BeginEdge, NoOutcome DEF Begins, FirstReply
  <1>3. CASE TakeResult(s) /\ AppOf[s] = a
    BY <1>3, OwnFields DEF Moves
  <1> QED
    BY <1>1, <1>2, <1>3, ForEdges, NoOutcome

LEMMA UploadStep ==
    ASSUME Types, OutcomeInv, UploadInv, ImageNext
    PROVE  UploadInv'
  BY LifeStep, UploadBeginsStep, OneUploadStep, PublishedStep, ClaimedStep, RunsForStep
     DEF UploadInv

LEMMA UploadStart == ImageInit => UploadInv
  <1> SUFFICES ASSUME ImageInit, NEW s \in Submission
               PROVE  /\ Life(s) /\ UploadBegins(s) /\ OneUpload(s)
                      /\ PublishedInOrder(s) /\ ClaimedHasLanded(s) /\ RunsFor(s)
    BY DEF UploadInv
  <1>1. /\ task[s].phase = "idle" /\ ~task[s].live /\ journal.intent = {}
        /\ journal.claim = {} /\ wire = {} /\ \A a \in App : app[a].rec = None
    BY DEF ImageInit, NewTask, NewApp
  <1> QED
    BY <1>1 DEF Life, UploadBegins, OneUpload, PublishedInOrder, ClaimedHasLanded, RunsFor,
       Intended, Arriving, Claiming, Handing

LEMMA UploadHolds == ImageSpec => [](Types /\ OutcomeInv /\ UploadInv)
  <1>1. Types /\ OutcomeInv /\ UploadInv /\ [ImageNext]_imageVars => UploadInv'
    <2>1. CASE ImageNext
      BY <2>1, UploadStep
    <2>2. CASE UNCHANGED imageVars
      BY <2>2 DEF imageVars, UploadInv, Life, UploadBegins, OneUpload, PublishedInOrder,
         ClaimedHasLanded, RunsFor, Intended, Arriving, Landed
    <2> QED
      BY <2>1, <2>2
  <1> QED
    BY <1>1, UploadStart, OutcomeHolds, PTL DEF ImageSpec

\* An image of a claimed input is known to the daemon, so that no recovery of the journal
\* is ended by it: an input is claimed when the publication of its last image was
\* answered, and every earlier one before the next was intended (prepare, claim_native_write).
THEOREM NoRecoveryIsBlocked == ImageSpec => []RecoveryIsNeverBlocked
  <1>1. Types /\ UploadInv => RecoveryIsNeverBlocked
    <2> SUFFICES ASSUME Types, UploadInv, NEW t \in journal.intent,
                        SubmissionOf[t] \in journal.claim
                 PROVE  t \in store.ref \cup store.released
      BY DEF RecoveryIsNeverBlocked
    <2>1. t \in Transfer /\ SubmissionOf[t] \in Submission
      BY ImageAssumption DEF ImageAssumption, Types, Journal
    <2>2. t \in Intended(SubmissionOf[t])
      BY <2>1 DEF Intended, ImagesOf
    <2> QED
      BY <2>1, <2>2 DEF UploadInv, ClaimedHasLanded, Landed
  <1> QED
    BY <1>1, UploadHolds, PTL

-----------------------------------------------------------------------------
(* What may be released: the images of an input with a known outcome, or of one that *)
(* was given up before it was handed over.                                           *)

Withdrawn(s) ==
    /\ ~task[s].live /\ task[s].phase \notin {"idle"} \cup Handing
    /\ ~Asked(s) /\ s \notin store.claim
MayGo(s) == store.result[s] \in Known \/ Withdrawn(s)
ReleasesAreKnown(s) == s \in journal.release => journal.result[s] \in Known
Notified(s) == \A t \in Transfer : Message("release", s, t) \in wire => Withdrawn(s)
Snapshots(s) ==
    /\ native[s].sent = 0 => native[s].input # "queued"
    /\ Executing(s, "claimed") => ImagesOf(s) \subseteq store.file
RecoveriesMayGo ==
    \A a \in App : app[a].rec # None => \A i \in app[a].rec.todo :
        i.t \in journal.intent /\ (i.release => MayGo(SubmissionOf[i.t]))

NeededInv ==
    /\ \A s \in Submission : ReleasesAreKnown(s) /\ Notified(s) /\ Snapshots(s)
    /\ RecoveriesMayGo /\ QueuedImagesExist

LEMMA WithdrawnForGood ==
    ASSUME Types, OutcomeInv, UploadInv, ImageNext, NEW s \in Submission, Withdrawn(s)
    PROVE  Withdrawn(s)'
  <1>1. /\ ~task[s].live /\ task[s].phase \notin {"idle"} \cup Handing
        /\ ~Asked(s) /\ s \notin store.claim
    BY DEF Withdrawn
  <1>2. ~SubmitQueue(s)
    BY <1>1, OwnFields
  <1>3. ~Asked(s)' /\ s \notin store'.claim
    BY <1>1, <1>2, RequestFate, ClaimFate
  <1>4. CASE Remains(s)
    BY <1>1, <1>3, <1>4 DEF Remains, Withdrawn
  <1>5. CASE Begins(s)
    BY <1>1, <1>5, BeginEdge DEF Begins
  <1>6. CASE Crashes(s)
    BY <1>3, <1>6 DEF Crashes, Withdrawn, Handing
  <1>7. CASE TaskStep(s)
    <2>1. StoreQueue(s) \/ Finish(s) \/ Fail(s)
      BY <1>1, <1>7, OwnFields, PublishEdge DEF TaskStep, Moves, Handing
    <2> QED
      BY <1>1, <1>3, <2>1, OwnFields DEF Moves, Withdrawn, Handing
  <1> QED
    BY <1>4, <1>5, <1>6, <1>7, TaskEdges

LEMMA MayGoForGood ==
    ASSUME Types, OutcomeInv, UploadInv, ImageNext, NEW s \in Submission, MayGo(s)
    PROVE  MayGo(s)'
  BY ResultsLast, WithdrawnForGood DEF MayGo

\* The agent does not wait for an image that may be released.
LEMMA MayGoIsNotQueued ==
    ASSUME OutcomeInv, NEW s \in Submission, MayGo(s), Snapshots(s)
    PROVE  native[s].input # "queued" /\ ~Executing(s, "claimed")
  <1>1. UnclaimedIsUnsent(s) /\ StoredIsTrue(s) /\ Progress(s)
    BY DEF OutcomeInv
  <1>2. CASE Withdrawn(s)
    <2>1. native[s].sent = 0 /\ ~Executing(s, "claimed")
      BY <1>1, <1>2 DEF Withdrawn, UnclaimedIsUnsent, Progress
    <2> QED
      BY <2>1 DEF Snapshots
  <1>3. CASE store.result[s] \in Known
    BY <1>1, <1>3, NoOutcome DEF Snapshots, StoredIsTrue, Progress, Known
  <1> QED
    BY <1>2, <1>3 DEF MayGo

LEMMA FilesTakenMayGo ==
    ASSUME Types, OutcomeInv, UploadInv, NeededInv, ImageNext,
           NEW t \in store.file \ store'.file
    PROVE  MayGo(SubmissionOf[t])
  <1>1. t \in Transfer /\ SubmissionOf[t] \in Submission
    BY ImageAssumption DEF ImageAssumption, Types, Store
  <1>2. TakesFile(t)
    BY StoreEdges
  <1>3. CASE store.result[SubmissionOf[t]] \in Known
    BY <1>3 DEF MayGo
  <1>4. ASSUME NEW a \in App, app[a].rec # None, NEW i \in app[a].rec.todo, i.release, i.t = t
        PROVE  MayGo(SubmissionOf[t])
    BY <1>4 DEF NeededInv, RecoveriesMayGo
  <1>5. CASE Message("release", SubmissionOf[t], t) \in wire
    BY <1>1, <1>5 DEF NeededInv, Notified, MayGo
  <1>6. CASE Executing(SubmissionOf[t], "releasing")
    BY <1>1, <1>6 DEF OutcomeInv, Progress, MayGo
  <1> QED
    BY <1>2, <1>3, <1>4, <1>5, <1>6 DEF TakesFile

LEMMA NotifiedStep ==
    ASSUME Types, OutcomeInv, UploadInv, NeededInv, ImageNext, NEW s \in Submission
    PROVE  Notified(s)'
  <1> SUFFICES ASSUME NEW t \in Transfer, Message("release", s, t) \in wire'
               PROVE  Withdrawn(s)'
    BY DEF Notified
  <1> DEFINE m == Message("release", s, t)
  <1>1. CASE m \in wire
    BY <1>1, WithdrawnForGood DEF NeededInv, Notified
  <1>2. CASE m \notin wire
    <2>1. m.kind = "release" /\ m.s = s
      BY DEF Message
    <2> HIDE DEF m
    <2>2. m \in wire' \ wire
      BY <1>2 DEF m
    <2>3. PICK x \in Submission : Sends(x, m)
      BY <2>2, WireEdges DEF UploadInv
    <2>4. ~\E u : m = Message("publish", x, u)
      BY <2>1 DEF Message
    <2>5. /\ m \in Notices(x) /\ ~task'[x].live
          /\ task[x].phase \notin {"idle", "over"} \cup Handing
      BY <2>1, <2>3, <2>4 DEF Sends
    <2>6. m.s = x
      BY <2>5 DEF Notices, Message
    <2>7. x = s
      BY <2>1, <2>6
    <2>8. task[s].phase \in Unsent \cup Claiming /\ ~SubmitQueue(s)
      <3>1. task[s].phase \in Phases
        BY DEF Types, Task
      <3>2. ~SubmitQueue(s)
        BY <2>5, <2>7, OwnFields DEF Moves, Handing
      <3> QED
        BY <2>5, <2>7, <3>1, <3>2 DEF Phases, Unsent, Claiming, Handing
    <2>9. ~Asked(s) /\ s \notin store.claim
      BY <2>8 DEF OutcomeInv, AskedOnce
    <2>10. ~Asked(s)' /\ s \notin store'.claim
      BY <2>8, <2>9, RequestFate, ClaimFate
    <2>11. task'[s].phase \notin {"idle"} \cup Handing
      <3>1. CASE Remains(s)
        BY <2>5, <2>7, <3>1 DEF Remains
      <3>2. CASE Begins(s)
        BY <2>5, <2>7, <3>2, BeginEdge DEF Begins
      <3>3. CASE Crashes(s)
        BY <3>3 DEF Crashes, Handing
      <3>4. CASE TaskStep(s)
        BY <2>5, <2>7, <3>4, OwnFields, PublishEdge DEF TaskStep, Moves, Handing
      <3> QED
        BY <3>1, <3>2, <3>3, <3>4, TaskEdges
    <2> QED
      BY <2>5, <2>7, <2>10, <2>11 DEF Withdrawn
  <1> QED
    BY <1>1, <1>2

LEMMA SnapshotsStep ==
    ASSUME Types, OutcomeInv, UploadInv, NeededInv, ImageNext, NEW s \in Submission
    PROVE  Snapshots(s)'
  <1>1. Snapshots(s)
    BY DEF NeededInv
  <1>2. ASSUME native'[s].sent = 0 PROVE native'[s].input # "queued"
    <2>1. CASE native' = native
      BY <1>1, <1>2, <2>1 DEF Snapshots
    <2>2. ASSUME NEW x \in Submission, NativeSnapshot(x)
          PROVE  native'[s].input # "queued"
      <3>1. native' = [native EXCEPT ![x] = [native[x] EXCEPT !.input = "snapshot"]]
        BY <2>2 DEF NativeSnapshot
      <3> QED
        BY <1>1, <1>2, <3>1 DEF Snapshots, Types, Native
    <2>3. CASE NativeWrite
      <3> DEFINE x == daemon.busy.s
                 next == native[x].sent + 1
      <3>1. x \in Submission
        BY <2>3 DEF NativeWrite, Types, Daemon, Busy
      <3>2. next # 0
        BY <3>1 DEF Types, Native
      <3>3. \/ native' = native
            \/ \E input : native' = [native EXCEPT ![x] = [sent |-> next, input |-> input]]
        BY <2>3 DEF NativeWrite
      <3> HIDE DEF next, x
      <3>4. \/ native'[s] = native[s]
            \/ native'[s].sent = next
        BY <3>1, <3>3 DEF Types
      <3> QED
        BY <1>1, <1>2, <3>2, <3>4 DEF Snapshots
    <2> QED
      BY <2>1, <2>2, <2>3, Writers
  <1>3. ASSUME Executing(s, "claimed")' PROVE ImagesOf(s) \subseteq store'.file
    <2>1. CASE Executing(s, "claimed")
      <3>1. ASSUME NEW t \in ImagesOf(s), t \notin store'.file PROVE FALSE
        <4>1. t \in store.file
          BY <1>1, <2>1, <3>1 DEF Snapshots
        <4>2. MayGo(s)
          BY <3>1, <4>1, FilesTakenMayGo DEF ImagesOf
        <4> QED
          BY <1>1, <2>1, <4>2, MayGoIsNotQueued
      <3> QED
        BY <3>1
    <2>2. CASE HandleQueue(s) /\ ~Executing(s, "claimed")
      <3>1. daemon' # daemon
        BY <1>3, <2>2 DEF Executing
      <3> QED
        BY <2>2, <3>1 DEF HandleQueue, Types, Store
    <2> QED
      BY <1>3, <2>1, <2>2, BusyFate
  <1> QED
    BY <1>2, <1>3 DEF Snapshots

LEMMA QueuedStep ==
    ASSUME Types, OutcomeInv, UploadInv, NeededInv, ImageNext
    PROVE  QueuedImagesExist'
  <1> SUFFICES ASSUME NEW s \in Submission, native'[s].input = "queued",
                      NEW t \in ImagesOf(s)
               PROVE  t \in store'.file
    BY DEF QueuedImagesExist
  <1>1. Snapshots(s)
    BY DEF NeededInv
  <1>2. CASE native[s].input = "queued"
    <2>1. t \in store.file
      BY <1>2 DEF NeededInv, QueuedImagesExist
    <2>2. ~MayGo(s)
      BY <1>1, <1>2, MayGoIsNotQueued
    <2> QED
      BY <2>1, <2>2, FilesTakenMayGo DEF ImagesOf
  <1>3. CASE Executing(s, "claimed") /\ store' = store
    BY <1>1, <1>3 DEF Snapshots
  <1> QED
    BY <1>2, <1>3, NativeFate

\* The images of an input that was not claimed and whose task gave up its lease.
LEMMA AbandonedIsWithdrawn ==
    ASSUME Types, OutcomeInv, UploadInv, NEW s \in Submission, Intended(s) # {},
           s \notin journal.claim, ~task[s].leased
    PROVE  Withdrawn(s)
  <1>1. Life(s) /\ UploadBegins(s) /\ ClaimedFirst(s)
    BY DEF UploadInv, OutcomeInv
  <1> QED
    BY <1>1 DEF Life, UploadBegins, ClaimedFirst, Withdrawn

LEMMA RecoveriesStep ==
    ASSUME Types, OutcomeInv, UploadInv, NeededInv, ImageNext,
           OutcomeInv', \A s \in Submission : ReleasesAreKnown(s)'
    PROVE  RecoveriesMayGo'
  <1> SUFFICES ASSUME NEW a \in App, app'[a].rec # None, NEW i \in app'[a].rec.todo
               PROVE  i.t \in journal'.intent /\ (i.release => MayGo(SubmissionOf[i.t])')
    BY DEF RecoveriesMayGo
  <1> DEFINE s == SubmissionOf[i.t]
  <1>1. s \in Submission /\ i.t \in ImagesOf(s)
    <2>1. i.t \in Transfer
      BY AppStep DEF Window, Recoveries, Item
    <2> QED
      BY <2>1, ImageAssumption DEF ImageAssumption, ImagesOf
  <1>2. journal.intent \subseteq journal'.intent /\ journal.claim \subseteq journal'.claim
    BY <1>1, JournalEdges, JournalFate
  <1>3. MayGo(s) => MayGo(s)'
    BY <1>1, MayGoForGood
  <1> HIDE DEF s
  <1>4. ASSUME i.t \in journal.intent, s \notin journal.claim, ~task[s].leased
        PROVE  MayGo(s)
    <2>1. Intended(s) # {}
      BY <1>1, <1>4 DEF Intended
    <2> QED
      BY <1>1, <1>4, <2>1, AbandonedIsWithdrawn DEF MayGo
  <1>5. CASE app[a].rec # None /\ i \in app[a].rec.todo
    BY <1>2, <1>3, <1>5 DEF NeededInv, RecoveriesMayGo, s
  <1>6. CASE i \in Work(journal)
    <2>1. /\ i.t \in journal.intent
          /\ i.release => s \in journal.release \/ (s \notin journal.claim /\ ~task[s].leased)
      BY <1>6, WorkEdges DEF s, Types
    <2>2. s \in journal.release => MayGo(s)
      BY <1>1 DEF NeededInv, ReleasesAreKnown, OutcomeInv, Repeated, MayGo
    <2> QED
      BY <1>2, <1>3, <1>4, <2>1, <2>2 DEF s
  <1>7. CASE i \in Work(journal')
    <2>1. journal' \in Journal
      BY JournalStep
    <2>2. /\ i.t \in journal'.intent
          /\ i.release => s \in journal'.release \/ (s \notin journal'.claim /\ ~task[s].leased)
      BY <1>7, <2>1, WorkEdges DEF s
    <2>3. s \in journal'.release => MayGo(s)'
      BY <1>1 DEF ReleasesAreKnown, OutcomeInv, Repeated, MayGo
    <2>4. ~task[s].leased => i.t \in journal.intent
      <3> SUFFICES ASSUME ~task[s].leased PROVE i.t \in journal.intent
        OBVIOUS
      <3>1. ~PersistIntent(s)
        BY <1>1, OwnFields DEF UploadInv, Life
      <3>2. Intended(s)' = Intended(s)
        BY <1>1, <3>1, JournalEdges
      <3> QED
        BY <1>1, <2>2, <3>2 DEF Intended
    <2> QED
      BY <1>2, <1>3, <1>4, <2>2, <2>3, <2>4 DEF s
  <1>8. ASSUME app[a].rec # None, NEW u \in app[a].rec.todo, i.t = u.t,
               i.release => \/ u.release
                            \/ /\ Told(a) /\ app[a].rec.at.answer \in Known
                               /\ s = SubmissionOf[app[a].rec.at.item.t]
        PROVE  i.t \in journal'.intent /\ (i.release => MayGo(s)')
    <2>1. u.t \in journal.intent /\ (u.release => MayGo(s))
      BY <1>8 DEF NeededInv, RecoveriesMayGo, s
    <2>2. Told(a) /\ app[a].rec.at.answer \in Known /\ s = SubmissionOf[app[a].rec.at.item.t]
              => MayGo(s)
      BY DEF OutcomeInv, AnswersAreStored, MayGo
    <2> QED
      BY <1>2, <1>3, <1>8, <2>1, <2>2
  <1> QED
    BY <1>5, <1>6, <1>7, <1>8, TodoEdges DEF s

LEMMA ReleasesStep ==
    ASSUME Types, OutcomeInv, NeededInv, ImageNext, NEW s \in Submission
    PROVE  ReleasesAreKnown(s)'
  <1>1. journal.result[s] \in Known => journal'.result[s] \in Known
    BY JournalFate
  <1> QED
    BY <1>1, JournalEdges DEF NeededInv, ReleasesAreKnown

LEMMA NeededHolds == ImageSpec => [](Types /\ OutcomeInv /\ UploadInv /\ NeededInv)
  <1>1. ImageInit => NeededInv
    <2> SUFFICES ASSUME ImageInit PROVE NeededInv
      OBVIOUS
    <2>1. /\ journal.release = {} /\ wire = {} /\ daemon.busy = None
          /\ \A a \in App : app[a].rec = None
          /\ \A s \in Submission : native[s].input = None
      BY DEF ImageInit, NewApp
    <2> QED
      BY <2>1, NoOutcome DEF NeededInv, ReleasesAreKnown, Notified, Snapshots, RecoveriesMayGo,
         QueuedImagesExist, Executing
  <1>2. Types /\ OutcomeInv /\ UploadInv /\ NeededInv /\ [ImageNext]_imageVars => NeededInv'
    <2> SUFFICES ASSUME Types, OutcomeInv, UploadInv, NeededInv, [ImageNext]_imageVars
                 PROVE  NeededInv'
      OBVIOUS
    <2>1. CASE ImageNext
      BY <2>1, OutcomeStep, ReleasesStep, NotifiedStep, SnapshotsStep, RecoveriesStep, QueuedStep
         DEF NeededInv
    <2>2. CASE UNCHANGED imageVars
      BY <2>2 DEF imageVars, NeededInv, ReleasesAreKnown, Notified, Snapshots, RecoveriesMayGo,
         QueuedImagesExist, Withdrawn, MayGo, Asked, Executing
    <2> QED
      BY <2>1, <2>2
  <1> QED
    BY <1>1, <1>2, UploadHolds, PTL DEF ImageSpec

\* As long as the agent has an input only in its queue, without copies of its own, the
\* images of the input are files of the host: a release is asked for, by a revocation
\* or by the recovery of any window, only before the input was handed over or after its
\* outcome was known (finish_queue, recover_references, revoke).
THEOREM QueuedImagesStay == ImageSpec => []QueuedImagesExist
  BY NeededHolds, PTL DEF NeededInv

=============================================================================
