--------------------------- MODULE ImageSubmission ---------------------------
(***************************************************************************)
(* An input with images for an agent on a remote host.  The application     *)
(* uploads the images through the daemon of that host, which hands text and *)
(* images to the agent's native queue once.  Each side keeps write-once     *)
(* records on disk: the application a journal that its windows share, the   *)
(* daemon a store.  A recovery, started for every terminal that opens on    *)
(* the host, asks what became of old inputs and reclaims their images.      *)
(***************************************************************************)
EXTENDS Integers, FiniteSets

CONSTANTS
    Submission,    \* inputs, numbered in the order their revisions are allocated
    Transfer,      \* images
    App,           \* processes of the application that share one journal
    Subject,       \* contents of inputs (a digest of text and images)
    SubmissionOf,  \* transfer -> its submission
    AppOf,         \* submission -> the application process that makes it
    SubjectOf,     \* submission -> its content
    MaxFault,      \* bound on lost connections, crashes and restarts together
    None

VARIABLES
    journal,  \* the application's records
    task,     \* submission -> the task that uploads and submits it
    app,      \* application -> its unconfirmed subjects, the recovery it is running
    wire,     \* requests and notifications the daemon has not handled yet
    store,    \* the daemon's records and image files
    daemon,   \* the daemon's leases and the request it holds its state lock for
    native,   \* submission -> what reached the agent's native queue
    faults    \* how many faults there were

imageVars == <<journal, task, app, wire, store, daemon, native, faults>>

ASSUME ImageAssumption ==
    /\ Submission \subseteq Nat /\ MaxFault \in Nat
    /\ SubmissionOf \in [Transfer -> Submission]
    /\ AppOf \in [Submission -> App]
    /\ SubjectOf \in [Submission -> Subject]

\* A submission carries at least one image.
ASSUME EveryInputHasImages == \A s \in Submission : \E t \in Transfer : SubmissionOf[t] = s

Known == {"confirmed", "rejected"}

\* None is no outcome, no answer, no queued input and no submission.
ASSUME NoOutcome == None \notin Known \cup {"ok", "queued"} /\ None \notin Submission

ImagesOf(s) == {t \in Transfer : SubmissionOf[t] = s}
TasksOf(a) == {s \in Submission : AppOf[s] = a}

Message(kind, s, t) == [kind |-> kind, s |-> s, t |-> t]
NewTask == [phase |-> "idle", live |-> FALSE, current |-> FALSE, handed |-> FALSE,
            leased |-> FALSE, refs |-> {}, reply |-> None]
NewApp == [unknown |-> {}, rec |-> None]

ImageInit ==
    /\ journal = [intent |-> {}, claim |-> {}, queue |-> {}, release |-> {}, done |-> {},
                  result |-> [s \in Submission |-> None]]
    /\ task = [s \in Submission |-> NewTask]
    /\ app = [a \in App |-> NewApp]
    /\ wire = {}
    /\ store = [ref |-> {}, file |-> {}, released |-> {}, claim |-> {},
                result |-> [s \in Submission |-> None]]
    /\ daemon = [active |-> {}, busy |-> None]
    /\ native = [s \in Submission |-> [sent |-> 0, input |-> None]]
    /\ faults = 0

-----------------------------------------------------------------------------
(* The submission in memory *)

\* is_live: neither revoked nor of a connection or terminal that is gone.
IsLive(s) == task[s].live /\ task[s].current

\* mutant: the lock of an abandoned upload is kept
StillLeased(k) == IF k.handed THEN [k EXCEPT !.live = FALSE]
                  ELSE [k EXCEPT !.live = FALSE, !.refs = {}]
\* revoke: unless the input was handed to the native write its images are released.
RevokedTask(k) ==
    IF k.handed THEN [k EXCEPT !.live = FALSE]
    ELSE [k EXCEPT !.live = FALSE, !.refs = {}, !.leased = FALSE]
\* A connection that is gone takes no notification.
Notices(s) ==
    {m \in {Message("revoke", s, None)} \cup {Message("release", s, t) : t \in task[s].refs} :
        task[s].current /\ (m.kind = "release" => ~task[s].handed)}

\* A task that waits for an answer of the daemon or for its own recovery.
Waits == {"recovering", "publishing", "asked", "settling"}
Waiting(k) == k.phase \in Waits /\ k.reply = None
Lost(k) == [k EXCEPT !.current = FALSE, !.reply = IF k.phase \in Waits THEN "err" ELSE @]

-----------------------------------------------------------------------------
(* Recovery *)

\* The lock of a submission that is still being uploaded is held by its task.
LeaseFree(s) ==
    /\ ~task[s].leased
    /\ \A a \in App : app[a].rec # None =>
          \A i \in app[a].rec.todo : i.leased => SubmissionOf[i.t] # s

Unclaimed(j, t) == SubmissionOf[t] \notin j.claim
Explicit(j, t) == SubmissionOf[t] \in j.release
Orphaned(j, t) == Unclaimed(j, t) /\ ~Explicit(j, t)

\* recovery_work: what is neither done nor possibly being uploaded elsewhere.
Work(j) ==
    {[t |-> t, release |-> Unclaimed(j, t) \/ Explicit(j, t), asked |-> FALSE,
      leased |-> Orphaned(j, t)] :
        t \in {u \in j.intent \ j.done : Orphaned(j, u) => LeaseFree(SubmissionOf[u])}}

\* A recovery with nothing to do is over at once.
Recovering(s, todo) == IF todo = {} THEN None ELSE [for |-> s, todo |-> todo, at |-> None]
FirstReply(j) == IF Work(j) = {} THEN "ok" ELSE None

\* schedule_reference_recovery: a terminal opens on the host, connecting if need be.
StartRecovery(a) ==
    /\ app[a].rec = None /\ Work(journal) # {}
    /\ app' = [app EXCEPT ![a].rec = Recovering(None, Work(journal))]
    /\ UNCHANGED <<journal, task, wire, store, daemon, native, faults>>

\* release of the daemon's store: the tombstone first, then the file; a restart
\* removes the files of tombstones before it does anything else.
Released(st, ts) == [st EXCEPT !.released = @ \cup ts, !.file = @ \ ts]

\* mutant: whatever was answered is recorded
AlwaysRecorded(s, status) == [journal EXCEPT !.result[s] = status, !.release = @ \cup {s}]
\* record_queue_result: the daemon's word is kept, an unknown outcome is not.
Recorded(s, status) ==
    IF status \in Known
    THEN [journal EXCEPT !.result[s] = status, !.release = @ \cup {s}]
    ELSE journal

\* mutant: a claim without a result counts as not sent
PresumedStatus(s) == IF s \notin store.claim THEN "absent"
                     ELSE IF store.result[s] = None THEN "rejected" ELSE store.result[s]
\* queue_status
StatusOf(s) == IF s \notin store.claim THEN "absent"
               ELSE IF store.result[s] = None THEN "unknown" ELSE store.result[s]

\* CodexQueueStatus; a known result takes up the releases that were interrupted.
AskStatus(a) ==
    /\ app[a].rec # None /\ app[a].rec.at = None /\ daemon.busy = None
    /\ \E i \in app[a].rec.todo :
        LET s == SubmissionOf[i.t] IN
        /\ ~i.release /\ ~i.asked /\ s \in journal.queue
        /\ app' = [app EXCEPT ![a].rec.at = [item |-> i, answer |-> StatusOf(s)]]
        /\ store' = IF StatusOf(s) \in Known THEN Released(store, ImagesOf(s)) ELSE store
    /\ UNCHANGED <<journal, task, wire, daemon, native, faults>>

\* mutant: any input the daemon knows of is reclaimed
AnySent(status) == status # "absent"
MayRelease(status) == status \in Known
TakeStatus(a) ==
    /\ app[a].rec # None /\ app[a].rec.at # None
    /\ app[a].rec.at.answer \in Known \cup {"absent", "unknown"}
    /\ LET status == app[a].rec.at.answer
           s == SubmissionOf[app[a].rec.at.item.t]
           Informed(i) == IF SubmissionOf[i.t] = s
                          THEN [i EXCEPT !.asked = TRUE, !.release = @ \/ MayRelease(status)]
                          ELSE i
       IN /\ journal' = Recorded(s, status)
          /\ app' = [app EXCEPT ![a].rec.at = None,
                                ![a].rec.todo = {Informed(i) : i \in @}]
    /\ UNCHANGED <<task, wire, store, daemon, native, faults>>

\* Recover: release if the client says so, then tell what there is.
AskRecover(a) ==
    /\ app[a].rec # None /\ app[a].rec.at = None /\ daemon.busy = None
    /\ \E i \in app[a].rec.todo :
        /\ i.release \/ i.asked \/ SubmissionOf[i.t] \notin journal.queue
        /\ store' = IF i.release THEN Released(store, {i.t}) ELSE store
        /\ app' = [app EXCEPT ![a].rec.at =
              [item |-> i, answer |-> IF i.t \in store'.released THEN "released"
                                      ELSE IF i.t \in store.ref THEN "reference"
                                      ELSE "missing"]]
    /\ UNCHANGED <<journal, task, wire, daemon, native, faults>>

Answered(s, reply) ==
    IF s = None THEN task ELSE [task EXCEPT ![s].reply = reply]

\* A claimed image the daemon knows nothing of ends the whole recovery.
TakeRecovered(a) ==
    /\ app[a].rec # None /\ app[a].rec.at # None
    /\ LET rec == app[a].rec
           left == rec.todo \ {rec.at.item}
       IN \/ /\ rec.at.answer \in {"released", "reference"}
             /\ journal' = [journal EXCEPT !.done =
                   IF rec.at.answer = "released" THEN @ \cup {rec.at.item.t} ELSE @]
             /\ app' = [app EXCEPT ![a].rec = Recovering(rec.for, left)]
             /\ task' = IF left = {} THEN Answered(rec.for, "ok") ELSE task
          \/ /\ rec.at.answer = "missing"
             /\ app' = [app EXCEPT ![a].rec = None]
             /\ task' = Answered(rec.for, "err")
             /\ UNCHANGED journal
    /\ UNCHANGED <<wire, store, daemon, native, faults>>

-----------------------------------------------------------------------------
(* The task: begin, prepare, prepare_native_queue, claim_native_write,        *)
(* submit_native_queue                                                        *)

\* A view has one submission: the previous one is revoked.
Begin(s) ==
    LET a == AppOf[s]
        previous == {x \in TasksOf(a) : task[x].live}
    IN /\ task[s].phase = "idle" /\ app[a].rec = None
       /\ \A x \in TasksOf(a) : x < s => task[x].phase # "idle"
       /\ task' = [x \in Submission |->
              IF x = s THEN [NewTask EXCEPT !.phase = "recovering", !.live = TRUE,
                                            !.current = TRUE, !.leased = TRUE,
                                            !.reply = FirstReply(journal)]
              ELSE IF x \in previous THEN RevokedTask(task[x]) ELSE task[x]]
       /\ wire' = wire \cup UNION {Notices(x) : x \in previous}
       /\ app' = [app EXCEPT ![a].rec = Recovering(s, Work(journal))]
       /\ UNCHANGED <<journal, store, daemon, native, faults>>

\* mutant: the answer is not awaited
Hurries(s, from) == task[s].phase \in from /\ IsLive(s)
\* The answer the task was waiting for came, and it may go on.
GoesOn(s, from) == task[s].phase \in from /\ task[s].reply = "ok" /\ IsLive(s)

\* The daemon takes up a lease; a newer submission of a terminal ends the older ones.
Activate(s) ==
    LET older == {x \in TasksOf(AppOf[s]) : x < s} IN
    /\ GoesOn(s, {"recovering"}) /\ daemon.busy = None
    /\ daemon' = [daemon EXCEPT !.active = (@ \ older) \cup {s}]
    /\ task' = [task EXCEPT ![s].phase = "active"]
    /\ UNCHANGED <<journal, app, wire, store, native, faults>>

\* The intent is on disk before the first byte is sent.
PersistIntent(s) ==
    /\ GoesOn(s, {"active", "publishing"})
    /\ \E t \in ImagesOf(s) \ journal.intent :
        journal' = [journal EXCEPT !.intent = @ \cup {t}]
    /\ task' = [task EXCEPT ![s].phase = "uploading", ![s].reply = None]
    /\ UNCHANGED <<app, wire, store, daemon, native, faults>>

\* Begin, Chunk and Verify succeeded; the reference is noted before Publish is sent.
Publish(s) ==
    /\ task[s].phase = "uploading" /\ IsLive(s)
    /\ \E t \in (ImagesOf(s) \cap journal.intent) \ task[s].refs :
        /\ task' = [task EXCEPT ![s].phase = "publishing", ![s].refs = @ \cup {t}]
        /\ wire' = wire \cup {Message("publish", s, t)}
    /\ UNCHANGED <<journal, app, store, daemon, native, faults>>

\* mutant: an attempt that ended is forgotten
Forgotten(x) == task[x].phase = "over"
\* An earlier input of the same content counts as possibly sent until its images
\* are reclaimed and its outcome is known.
Settled(x) ==
    /\ ImagesOf(x) \cap journal.intent \subseteq journal.done
    /\ journal.result[x] \in Known
SubjectFree(s) ==
    \A x \in journal.claim \ {s} : SubjectOf[x] = SubjectOf[s] => Settled(x)

ClaimSubject(s) ==
    /\ GoesOn(s, {"publishing"}) /\ ImagesOf(s) \subseteq journal.intent
    /\ SubjectFree(s)
    /\ journal' = [journal EXCEPT !.claim = @ \cup {s}]
    /\ task' = [task EXCEPT ![s].phase = "claimed", ![s].reply = None]
    /\ UNCHANGED <<app, wire, store, daemon, native, faults>>

\* prepare_queue stores claim and recovery key as two records.
StoreQueue(s) ==
    /\ task[s].phase = "claimed"
    /\ journal' = [journal EXCEPT !.queue = @ \cup {s}]
    /\ task' = [task EXCEPT ![s].phase = "queued"]
    /\ UNCHANGED <<app, wire, store, daemon, native, faults>>

\* claim_native_write: from here on nothing is released but on the daemon's word.
ClaimNativeWrite(s) ==
    LET a == AppOf[s] IN
    /\ task[s].phase = "queued" /\ IsLive(s)
    /\ SubjectOf[s] \notin app[a].unknown
    /\ task' = [task EXCEPT ![s].phase = "handed", ![s].handed = TRUE]
    /\ app' = [app EXCEPT ![a].unknown = @ \cup {SubjectOf[s]}]
    /\ UNCHANGED <<journal, wire, store, daemon, native, faults>>

SubmitQueue(s) ==
    /\ task[s].phase = "handed" /\ IsLive(s)
    /\ task' = [task EXCEPT ![s].phase = "asked"]
    /\ wire' = wire \cup {Message("queue", s, None)}
    /\ UNCHANGED <<journal, app, store, daemon, native, faults>>

\* The answer is recorded even if the view moved on; then the images are reclaimed.
TakeResult(s) ==
    LET a == AppOf[s] IN
    /\ task[s].phase = "asked" /\ task[s].reply \in Known
    /\ app[a].rec = None
    /\ journal' = Recorded(s, task[s].reply)
    /\ task' = [task EXCEPT ![s].phase = "settling", ![s].reply = FirstReply(journal')]
    /\ app' = [app EXCEPT ![a].rec = Recovering(s, Work(journal'))]
    /\ UNCHANGED <<wire, store, daemon, native, faults>>

Finish(s) ==
    LET k == [task[s] EXCEPT !.refs = {}, !.leased = FALSE] IN
    /\ task[s].phase = "settling" /\ task[s].reply # None
    /\ task' = [task EXCEPT ![s] = [RevokedTask(k) EXCEPT !.phase = "over", !.reply = None]]
    /\ wire' = wire \cup {m \in Notices(s) : m.kind = "revoke"}
    /\ app' = [app EXCEPT ![AppOf[s]].unknown = @ \ {SubjectOf[s]}]
    /\ UNCHANGED <<journal, store, daemon, native, faults>>

\* Every error ends the task with revoke, and so does an unknown outcome.
Refused(s) ==
    \/ task[s].reply \in {"err", "unknown"}
    \/ ~IsLive(s) /\ ~Waiting(task[s]) /\ task[s].reply \notin Known
    \/ task[s].phase = "publishing" /\ task[s].reply = "ok"
         /\ ImagesOf(s) \subseteq journal.intent /\ ~SubjectFree(s)
    \/ task[s].phase = "queued" /\ SubjectOf[s] \in app[AppOf[s]].unknown
Fail(s) ==
    /\ task[s].phase \notin {"idle", "settling", "over"} /\ Refused(s)
    /\ task' = [task EXCEPT ![s] = [RevokedTask(task[s]) EXCEPT !.phase = "over",
                                                                !.reply = None]]
    /\ wire' = wire \cup Notices(s)
    /\ UNCHANGED <<journal, app, store, daemon, native, faults>>

\* Session, listener, input generation or terminal changed, or Ctrl-C.
Revoke(s) ==
    /\ task[s].live
    /\ task' = [task EXCEPT ![s] = RevokedTask(task[s])]
    /\ wire' = wire \cup Notices(s)
    /\ UNCHANGED <<journal, app, store, daemon, native, faults>>

-----------------------------------------------------------------------------
(* The daemon.  A request holds its state lock; leases are revoked without it. *)

\* The answer reaches a client that is still on this connection.
Reply(s, reply) ==
    task' = IF task[s].current /\ Waiting(task[s])
            THEN [task EXCEPT ![s].reply = reply] ELSE task

Takes(kind, s, t) ==
    /\ Message(kind, s, t) \in wire
    /\ wire' = wire \ {Message(kind, s, t)}

\* mutant: tombstones are not looked at
Uploaded(s, t) == s \in daemon.active
\* The reference is on disk before the answer; a released identifier is refused.
Publishable(s, t) == s \in daemon.active /\ t \notin store.released
HandlePublish(s, t) ==
    /\ daemon.busy = None /\ Takes("publish", s, t)
    /\ IF Publishable(s, t)
       THEN /\ store' = [store EXCEPT !.ref = @ \cup {t}, !.file = @ \cup {t}]
            /\ Reply(s, "ok")
       ELSE UNCHANGED store /\ Reply(s, "err")
    /\ UNCHANGED <<journal, app, daemon, native, faults>>

\* Checks of lease, images and native process may fail before anything is stored;
\* then the claim is, before the native write.  An input is asked for only once.
HandleQueue(s) ==
    /\ daemon.busy = None /\ Takes("queue", s, None)
    /\ \/ UNCHANGED <<daemon, store>> /\ Reply(s, "err")
       \/ /\ s \in daemon.active /\ ImagesOf(s) \subseteq store.file
          /\ store' = [store EXCEPT !.claim = @ \cup {s}]
          /\ daemon' = [daemon EXCEPT !.busy = [s |-> s, step |-> "claimed"]]
          /\ UNCHANGED task
    /\ UNCHANGED <<journal, app, native, faults>>

\* claim_native excludes a revocation; without the lease nothing is written.
NativeWrite ==
    /\ daemon.busy # None /\ daemon.busy.step = "claimed"
    /\ LET s == daemon.busy.s IN
       \/ /\ s \in daemon.active
          /\ \E input \in {None, "queued"} :
                native' = [native EXCEPT ![s] = [sent |-> @.sent + 1, input |-> input]]
          /\ daemon' = [daemon EXCEPT !.busy.step = "written"]
          /\ UNCHANGED store
       \/ /\ s \notin daemon.active
          /\ store' = [store EXCEPT !.result[s] = "rejected"]
          /\ daemon' = [daemon EXCEPT !.busy.step = "releasing"]
          /\ UNCHANGED native
    /\ UNCHANGED <<journal, task, app, wire, faults>>

\* The receipt proves that the native queue has its own snapshot of the images.
\* Without a receipt the outcome stays unknown and nothing is stored.
NativeAnswer ==
    /\ daemon.busy # None /\ daemon.busy.step = "written"
    /\ LET s == daemon.busy.s IN
       \/ /\ native[s].input = "snapshot"
          /\ store' = [store EXCEPT !.result[s] = "confirmed"]
          /\ daemon' = [daemon EXCEPT !.busy.step = "releasing"]
          /\ UNCHANGED task
       \/ /\ daemon' = [daemon EXCEPT !.busy = None]
          /\ Reply(s, "unknown")
          /\ UNCHANGED store
    /\ UNCHANGED <<journal, app, wire, native, faults>>

\* finish_queue: the result is stored, the images are released one by one.
ReleaseImages ==
    /\ daemon.busy # None /\ daemon.busy.step = "releasing"
    /\ LET s == daemon.busy.s
           left == ImagesOf(s) \ store.released
       IN \/ /\ \E t \in left : store' = Released(store, {t})
             /\ UNCHANGED <<daemon, task>>
          \/ /\ left = {}
             /\ daemon' = [daemon EXCEPT !.busy = None]
             /\ Reply(s, store.result[s])
             /\ UNCHANGED store
    /\ UNCHANGED <<journal, app, wire, native, faults>>

\* Handled as it arrives, whatever request is being executed.
HandleRevoke(s) ==
    /\ Takes("revoke", s, None)
    /\ daemon' = [daemon EXCEPT !.active = @ \ {s}]
    /\ UNCHANGED <<journal, task, app, store, native, faults>>

\* It may arrive before the image it releases: the identifier is retired all the same.
HandleRelease(s, t) ==
    /\ daemon.busy = None /\ Takes("release", s, t)
    /\ store' = Released(store, {t})
    /\ UNCHANGED <<journal, task, app, daemon, native, faults>>

\* The daemon notices that a connection is gone.
DropConnection(a) ==
    LET gone == {s \in TasksOf(a) : ~task[s].current /\ task[s].phase # "idle"} IN
    /\ (gone \cap daemon.active # {}) \/ (\E m \in wire : m.s \in gone)
    /\ wire' = {m \in wire : m.s \notin gone}
    /\ daemon' = [daemon EXCEPT !.active = @ \ gone]
    /\ UNCHANGED <<journal, task, app, store, native, faults>>

\* External: the native queue copies the images of an input before its receipt.  An
\* input without a receipt may need them for good.
NativeSnapshot(s) ==
    /\ daemon.busy # None /\ daemon.busy.s = s
    /\ native[s].input = "queued"
    /\ native' = [native EXCEPT ![s].input = "snapshot"]
    /\ UNCHANGED <<journal, task, app, wire, store, daemon, faults>>

-----------------------------------------------------------------------------
(* Connections and crashes *)

LostTasks(apps) ==
    [s \in Submission |->
        IF AppOf[s] \in apps /\ task[s].phase # "idle" THEN Lost(task[s]) ELSE task[s]]

\* What is on the wire may still be handled, until the daemon notices.
Disconnect(a) ==
    /\ faults < MaxFault
    /\ app' = [app EXCEPT ![a].rec = None]
    /\ task' = LostTasks({a})
    /\ faults' = faults + 1
    /\ UNCHANGED <<journal, wire, store, daemon, native>>

AppCrash(a) ==
    /\ faults < MaxFault
    /\ app' = [app EXCEPT ![a] = NewApp]
    /\ task' = [s \in Submission |->
           IF AppOf[s] = a /\ task[s].phase # "idle"
           THEN [NewTask EXCEPT !.phase = "over"] ELSE task[s]]
    /\ faults' = faults + 1
    /\ UNCHANGED <<journal, wire, store, daemon, native>>

DaemonCrash ==
    /\ faults < MaxFault
    /\ app' = [a \in App |-> [app[a] EXCEPT !.rec = None]]
    /\ task' = LostTasks(App)
    /\ wire' = {}
    /\ daemon' = [active |-> {}, busy |-> None]
    /\ faults' = faults + 1
    /\ UNCHANGED <<journal, store, native>>

-----------------------------------------------------------------------------
TaskStep(s) ==
    \/ Activate(s) \/ PersistIntent(s) \/ Publish(s) \/ ClaimSubject(s) \/ StoreQueue(s)
    \/ ClaimNativeWrite(s) \/ SubmitQueue(s) \/ TakeResult(s) \/ Finish(s) \/ Fail(s)
RecoveryStep(a) ==
    AskStatus(a) \/ TakeStatus(a) \/ AskRecover(a) \/ TakeRecovered(a)
DaemonStep ==
    \/ NativeWrite \/ NativeAnswer \/ ReleaseImages
    \/ \E s \in Submission :
        \/ HandleQueue(s) \/ HandleRevoke(s)
        \/ \E t \in ImagesOf(s) : HandlePublish(s, t) \/ HandleRelease(s, t)
    \/ \E a \in App : DropConnection(a)
Fault == (\E a \in App : Disconnect(a) \/ AppCrash(a)) \/ DaemonCrash

ImageNext ==
    \/ \E s \in Submission : Begin(s) \/ Revoke(s) \/ TaskStep(s) \/ NativeSnapshot(s)
    \/ \E a \in App : StartRecovery(a) \/ RecoveryStep(a)
    \/ DaemonStep
    \/ Fault

ImageSpec == ImageInit /\ [][ImageNext]_imageVars

\* Tasks, recoveries and the daemon carry on with what they began.  Nobody is obliged
\* to submit, to connect or to open a terminal.
Fairness ==
    /\ \A s \in Submission : WF_imageVars(TaskStep(s))
    /\ \A a \in App : WF_imageVars(RecoveryStep(a))
    /\ WF_imageVars(DaemonStep)
FairImageSpec == ImageSpec /\ Fairness

-----------------------------------------------------------------------------
(* Properties *)

Phases == {"idle", "recovering", "active", "uploading", "publishing", "claimed",
           "queued", "handed", "asked", "settling", "over"}
Item == [t : Transfer, release : BOOLEAN, asked : BOOLEAN, leased : BOOLEAN]
Answers == Known \cup {"absent", "unknown", "released", "reference", "missing"}
Recoveries == [for : Submission \cup {None}, todo : SUBSET Item,
               at : {None} \cup [item : Item, answer : Answers]]

\* The types of the records, of the tasks and of the requests.
ImageTypeOK ==
    /\ journal \in [intent : SUBSET Transfer, claim : SUBSET Submission,
                    queue : SUBSET Submission, release : SUBSET Submission,
                    done : SUBSET Transfer, result : [Submission -> Known \cup {None}]]
    /\ task \in [Submission -> [phase : Phases, live : BOOLEAN, current : BOOLEAN,
                                handed : BOOLEAN, leased : BOOLEAN, refs : SUBSET Transfer,
                                reply : Known \cup {"ok", "err", "unknown", None}]]
    /\ app \in [App -> [unknown : SUBSET Subject,
                        rec : {None} \cup Recoveries]]
    /\ wire \subseteq [kind : {"publish", "queue", "revoke", "release"},
                       s : Submission, t : Transfer \cup {None}]
    /\ store \in [ref : SUBSET Transfer, file : SUBSET Transfer, released : SUBSET Transfer,
                  claim : SUBSET Submission, result : [Submission -> Known \cup {None}]]
    /\ daemon \in [active : SUBSET Submission,
                   busy : {None} \cup [s : Submission,
                                      step : {"claimed", "written", "releasing"}]]
    /\ native \in [Submission -> [sent : Nat, input : {None, "queued", "snapshot"}]]
    /\ faults \in 0..MaxFault

\* The same content goes to the agent again only when what became of the first time is
\* known and on disk: not after a crash, a lost answer, or from another window.
ContentSentOnce ==
    [][\A s \in Submission : native'[s].sent > native[s].sent =>
          /\ native[s].sent = 0
          /\ \A x \in Submission \ {s} :
                SubjectOf[x] = SubjectOf[s] /\ native[x].sent > 0 =>
                    journal.result[x] \in Known]_imageVars

\* The agent finds the images of an input it has queued, however the upload, the
\* revocation and the recoveries of other windows ended.
QueuedImagesExist ==
    \A s \in Submission : native[s].input = "queued" => ImagesOf(s) \subseteq store.file

\* An image of a claimed input is known to the daemon, as a reference or as released:
\* otherwise every recovery of this journal would end there, and every new input with it.
RecoveryIsNeverBlocked ==
    \A t \in journal.intent :
        SubmissionOf[t] \in journal.claim => t \in store.ref \cup store.released

\* What the application no longer cares for is gone from the host, and does not come
\* back with a request that was still on its way.
DoneIsGone == journal.done \cap store.file = {}

\* What the journal says of an input is what happened.
RecordedResultsAreTrue ==
    \A s \in Submission :
        /\ journal.result[s] = "confirmed" => native[s].input = "snapshot"
        /\ journal.result[s] = "rejected" => native[s].sent = 0

\* An image that nobody can need any more is reclaimed, whoever crashed, as long as
\* terminals are opened on the host again and again.  An image that is reclaimable stays
\* so, and what is done stays done.
Reclaimable(t) ==
    LET s == SubmissionOf[t] IN
    /\ t \in journal.intent /\ task[s].phase = "over"
    /\ \/ s \notin journal.claim
       \/ s \in journal.queue /\ store.result[s] \in Known
ImagesAreReclaimed ==
    (\E a \in App : []<><<StartRecovery(a)>>_imageVars) =>
        []<>(\A t \in Transfer : Reclaimable(t) => t \in journal.done)
=============================================================================
