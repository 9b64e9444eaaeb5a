--------------------------- MODULE GistSyncProofs ---------------------------
(***************************************************************************)
(* What holds of every number of devices, edits and syncs: the types, that  *)
(* an edit made during a sync outranks it, and that no sync takes a device  *)
(* back to an earlier memory.  That memories converge is left to TLC.       *)
(***************************************************************************)
EXTENDS GistSync, TLAPS

-----------------------------------------------------------------------------
(* The inductive invariant *)

Edits == 1..MaxEdit
Versions == 0..MaxVersion
Rows == 0..MaxRow
Counts == [edits : 0..MaxEdit, writes : [Device -> 0..MaxWrite]]

\* A sync under way, whatever it has read so far.
Job == [step : {"begun", "fetched", "chosen", "written"},
        kind : {"upload", "force", "download", None},
        expected : Versions \cup {None}, seen : SUBSET Edits, at : Nat,
        remote : Content \cup {None}, version : Versions \cup {None}]

\* It has not read the version of the device yet.
Blind(job) == job.kind = "download" /\ job.step = "begun"

JobOK(job) ==
    /\ job \in Job
    /\ ~Blind(job) => job.expected \in Versions
    /\ job.step = "fetched" => job.remote \in Content
    /\ job.step \in {"chosen", "written"} =>
          ~Blind(job) /\ job.version \in Versions /\ job.version >= job.expected

GistOK == made \in Nat /\ (IF made = 0 THEN gist = None ELSE gist \in Content)

TypeInv ==
    /\ db \in [Device -> Content]
    /\ GistOK
    /\ jobs \in [Device -> {Idle} \cup Job]
    /\ \A d \in Device : jobs[d] # Idle => JobOK(jobs[d])
    /\ pending \in [Device -> SUBSET Edits]
    /\ count \in Counts

\* The version of a device never falls below what a sync has read, and as long as
\* it is what the sync read, the sync has seen every edit.
VersionOK(d) ==
    jobs[d] # Idle /\ ~Blind(jobs[d]) =>
        /\ db[d].version >= jobs[d].expected
        /\ db[d].version = jobs[d].expected => pending[d] \subseteq jobs[d].seen
VersionInv == \A d \in Device : VersionOK(d)

-----------------------------------------------------------------------------
(* Types *)

\* A sync that changed, alone, to one that is well typed.
LEMMA JobChanges ==
    ASSUME TypeInv, NEW d \in Device, NEW job,
           jobs' = [jobs EXCEPT ![d] = job], job = Idle \/ JobOK(job)
    PROVE  /\ jobs' \in [Device -> {Idle} \cup Job]
           /\ \A c \in Device : jobs'[c] # Idle => JobOK(jobs'[c])
  <1>1. job \in {Idle} \cup Job
    BY DEF JobOK
  <1>2. jobs' \in [Device -> {Idle} \cup Job]
    BY <1>1 DEF TypeInv
  <1>3. ASSUME NEW c \in Device, jobs'[c] # Idle
        PROVE  JobOK(jobs'[c])
    <2>1. CASE c = d
      BY <1>3, <2>1 DEF TypeInv
    <2>2. CASE c # d
      BY <1>3, <2>2 DEF TypeInv
    <2> QED
      BY <2>1, <2>2
  <1> QED
    BY <1>2, <1>3

\* A device that is not idle has a well-typed sync.
LEMMA Busy ==
    ASSUME TypeInv, NEW d \in Device, jobs[d].step # "idle" \/ jobs[d] # Idle
    PROVE  jobs[d] # Idle /\ JobOK(jobs[d]) /\ jobs[d] \in Job
  BY DEF TypeInv, Idle, JobOK

\* A step that only moves one sync on, or changes what its device has.
LEMMA OnlyJobTypes ==
    ASSUME TypeInv, NEW d \in Device, NEW job,
           jobs' = [jobs EXCEPT ![d] = job], job = Idle \/ JobOK(job),
           UNCHANGED <<gist, made, pending, count>>, db' \in [Device -> Content]
    PROVE  TypeInv'
  <1>1. /\ jobs' \in [Device -> {Idle} \cup Job]
        /\ \A c \in Device : jobs'[c] # Idle => JobOK(jobs'[c])
    BY JobChanges
  <1> QED
    BY <1>1 DEF TypeInv, GistOK

LEMMA StartTypes ==
    ASSUME TypeInv, NEW d \in Device, StartUpload(d) \/ StartDownload(d)
    PROVE  TypeInv'
  <1> DEFINE job(kind, version, seen) ==
        [step |-> "begun", kind |-> kind, expected |-> version, seen |-> seen,
         at |-> 0, remote |-> None, version |-> None]
  <1>1. ASSUME NEW kind \in {"upload", "force", "download"},
               NEW version \in Versions \cup {None}, NEW seen \in SUBSET Edits,
               kind # "download" => version \in Versions,
               Begun(d, kind, version, seen)
        PROVE  TypeInv'
    <2>1. JobOK(job(kind, version, seen))
      BY <1>1 DEF JobOK, Job, Blind
    <2> QED
      BY <1>1, <2>1, OnlyJobTypes DEF Begun, TypeInv
  <1>2. db[d].version \in Versions /\ pending[d] \in SUBSET Edits /\ {} \in SUBSET Edits
    BY DEF TypeInv, Content, Versions
  <1> QED
    BY <1>1, <1>2 DEF StartUpload, StartDownload

LEMMA FetchTypes ==
    ASSUME TypeInv, NEW d \in Device, Fetch(d)
    PROVE  TypeInv'
  <1> DEFINE job == jobs[d]
             new == [job EXCEPT !.at = made, !.remote = gist, !.expected = db[d].version,
                                !.seen = pending[d], !.step = "fetched"]
  <1>1. JobOK(job)
    BY Busy DEF Fetch
  <1>2. db[d].version \in Versions /\ pending[d] \in SUBSET Edits
    BY DEF TypeInv, Content, Versions
  <1>3. gist \in Content /\ made \in Nat
    BY DEF TypeInv, GistOK, Fetch
  <1>4. JobOK(new)
    BY <1>1, <1>2, <1>3 DEF JobOK, Job, Blind
  <1>5. jobs' = [jobs EXCEPT ![d] = new]
    BY DEF Fetch
  <1> QED
    BY <1>4, <1>5, OnlyJobTypes DEF Fetch, TypeInv

LEMMA Memories ==
    ASSUME NEW a \in Rows, NEW b \in Rows
    PROVE  Later(a, b) \in Rows /\ Later(a, b) >= a
  BY SyncAssumption DEF Later, Rows, SyncAssumption

LEMMA LaterVersion ==
    ASSUME NEW a \in Versions, NEW b \in Versions
    PROVE  Later(a, b) \in Versions /\ Later(a, b) >= a
  BY SyncAssumption DEF Later, Versions, SyncAssumption

\* What a sync that decides knows.
LEMMA DecidingTypes ==
    ASSUME TypeInv, NEW d \in Device, NEW kind \in {"upload", "force", "download"},
           Ready(d, kind)
    PROVE  /\ JobOK(jobs[d]) /\ jobs[d] \in Job /\ jobs[d] # Idle /\ ~Blind(jobs[d])
           /\ jobs[d].expected \in Versions
           /\ Remote(d) \in Content /\ Remote(d).version \in Versions
           /\ Remote(d).memo \in Rows /\ db[d].memo \in Rows
           /\ Merged(d, Remote(d).memo) \in Rows
           /\ Merged(d, Remote(d).memo) >= db[d].memo
           /\ At(d) \in Nat
  <1>1. JobOK(jobs[d]) /\ jobs[d] \in Job /\ jobs[d] # Idle
    BY Busy DEF Ready
  <1>2. ~Blind(jobs[d])
    BY DEF Ready, Blind
  <1>3. Remote(d) \in Content /\ At(d) \in Nat
    BY <1>1 DEF TypeInv, GistOK, Remote, At, Ready, JobOK, Job
  <1>4. db[d].memo \in Rows /\ Remote(d).memo \in Rows /\ Remote(d).version \in Versions
    BY <1>3 DEF TypeInv, Content, Rows, Versions
  <1>5. Merged(d, Remote(d).memo) \in Rows /\ Merged(d, Remote(d).memo) >= db[d].memo
    BY <1>4, Memories DEF Merged
  <1> QED
    BY <1>1, <1>2, <1>3, <1>4, <1>5 DEF JobOK

\* The memory of one device, and its servers perhaps, replaced.
LEMMA StoredTypes ==
    ASSUME TypeInv, NEW d \in Device, NEW memo \in Rows
    PROVE  /\ [db EXCEPT ![d].memo = memo] \in [Device -> Content]
           /\ \A tree \in SUBSET Edits :
                 [db EXCEPT ![d].memo = memo, ![d].tree = tree] \in [Device -> Content]
  BY DEF TypeInv, Content, Edits, Rows

\* A sync that has chosen the version it writes, or that the limit ends.
LEMMA DecidedTypes ==
    ASSUME TypeInv, NEW d \in Device, JobOK(jobs[d]), ~Blind(jobs[d]), At(d) \in Nat,
           NEW version \in Nat, version >= jobs[d].expected,
           \/ Chosen(d, version)
           \/ Decided(d, version, "written") /\ Fits(version)
           \/ Ended(d),
           UNCHANGED <<gist, made, pending, count>>, db' \in [Device -> Content]
    PROVE  TypeInv'
  <1> DEFINE new(step) == [jobs[d] EXCEPT !.version = version, !.step = step, !.at = At(d),
                                          !.kind = None, !.remote = None]
  <1>1. ASSUME NEW step \in {"chosen", "written"}, Fits(version), Decided(d, version, step)
        PROVE  TypeInv'
    <2>1. version \in Versions
      BY <1>1, SyncAssumption DEF Fits, Versions, SyncAssumption
    <2>2. JobOK(new(step))
      BY <1>1, <2>1 DEF JobOK, Job, Blind
    <2>3. jobs' = [jobs EXCEPT ![d] = new(step)]
      BY <1>1 DEF Decided
    <2> HIDE DEF new
    <2> QED
      BY <2>2, <2>3, OnlyJobTypes
  <1>2. ASSUME Ended(d)
        PROVE  TypeInv'
    BY <1>2, OnlyJobTypes DEF Ended
  <1> QED
    BY <1>1, <1>2 DEF Chosen

LEMMA DecisionTypes ==
    ASSUME TypeInv, NEW d \in Device,
           ChooseFirst(d) \/ Upload(d) \/ Download(d) \/ ForceUpload(d)
    PROVE  TypeInv'
  <1> DEFINE memo == Remote(d).memo
             next == Later(jobs[d].expected, Remote(d).version)
  <1>1. ASSUME NEW kind \in {"upload", "force", "download"}, Ready(d, kind)
        PROVE  /\ jobs[d].expected \in Nat /\ next \in Nat /\ next >= jobs[d].expected
               /\ next + 1 \in Nat /\ next + 1 >= jobs[d].expected /\ Fits(next)
    <2>1. jobs[d].expected \in Versions /\ Remote(d).version \in Versions
      BY <1>1, DecidingTypes
    <2>2. next \in Versions /\ next >= jobs[d].expected
      BY <2>1, LaterVersion
    <2> HIDE DEF next
    <2> QED
      BY <2>1, <2>2, SyncAssumption DEF Versions, Fits, SyncAssumption
  <1>2. ASSUME NEW kind \in {"upload", "force", "download"}, Ready(d, kind),
               db' = db \/ db' = [db EXCEPT ![d].memo = Merged(d, memo)]
        PROVE  db' \in [Device -> Content]
    <2>1. Merged(d, memo) \in Rows
      BY <1>2, DecidingTypes
    <2>2. [db EXCEPT ![d].memo = Merged(d, memo)] \in [Device -> Content]
      BY <2>1, StoredTypes
    <2> QED
      BY <1>2, <2>2 DEF TypeInv
  <1>3. CASE ChooseFirst(d)
    <2>1. JobOK(jobs[d]) /\ ~Blind(jobs[d]) /\ jobs[d].expected \in Nat
      BY <1>3, Busy, SyncAssumption DEF ChooseFirst, Blind, JobOK, Versions, SyncAssumption
    <2>2. At(d) \in Nat
      BY <1>3 DEF ChooseFirst, At, TypeInv, GistOK
    <2>3. PICK version \in Nat : Chosen(d, version) /\ version >= jobs[d].expected
      BY <1>3, <2>1 DEF ChooseFirst
    <2> QED
      BY <1>3, <2>1, <2>2, <2>3, DecidedTypes DEF ChooseFirst, TypeInv
  <1>4. CASE LeaveConflict(d) \/ KeepGist(d)
    <2>1. /\ Ready(d, "upload") /\ Ended(d) /\ UNCHANGED <<gist, made, pending, count>>
          /\ db' = db \/ db' = [db EXCEPT ![d].memo = Merged(d, memo)]
      BY <1>4 DEF LeaveConflict, KeepGist
    <2>2. db' \in [Device -> Content]
      BY <1>2, <2>1
    <2> QED
      BY <2>1, <2>2, OnlyJobTypes DEF Ended
  <1>5. CASE ReplaceGist(d)
    <2>1. Ready(d, "upload")
      BY <1>5 DEF ReplaceGist
    <2>2. jobs[d].expected \in Nat
      BY <1>1, <2>1
    <2>3. PICK version \in {jobs[d].expected, jobs[d].expected + 1} : Chosen(d, version)
      BY <1>5 DEF ReplaceGist
    <2>4. version \in Nat /\ version >= jobs[d].expected
      BY <2>2, <2>3
    <2>5. db' \in [Device -> Content]
      BY <1>2, <1>5, <2>1 DEF ReplaceGist
    <2> QED
      BY <1>5, <2>1, <2>3, <2>4, <2>5, DecidingTypes, DecidedTypes DEF ReplaceGist
  <1>6. CASE ForceUpload(d)
    <2>1. Ready(d, "force") /\ Chosen(d, next + 1)
      BY <1>6 DEF ForceUpload
    <2>2. db' \in [Device -> Content]
      BY <1>2, <1>6, <2>1 DEF ForceUpload
    <2> HIDE DEF next
    <2> QED
      BY <1>1, <1>6, <2>1, <2>2, DecidingTypes, DecidedTypes DEF ForceUpload
  <1>7. CASE LeaveOlder(d)
    BY <1>7, OnlyJobTypes DEF LeaveOlder, Ended, TypeInv
  <1>8. CASE TakeGist(d)
    <2> DEFINE tree == IF Newer(d) THEN Remote(d).tree ELSE db[d].tree
    <2>1. Ready(d, "download")
      BY <1>8 DEF TakeGist
    <2>2. db' = [db EXCEPT ![d].memo = Merged(d, memo), ![d].tree = tree]
      BY <1>8 DEF TakeGist, TypeInv
    <2>3. tree \in SUBSET Edits /\ Merged(d, memo) \in Rows
      BY <2>1, DecidingTypes DEF TypeInv, Content, Edits
    <2>4. db' \in [Device -> Content]
      <3> HIDE DEF tree, memo
      <3> QED
        BY <2>2, <2>3, StoredTypes
    <2>5. Chosen(d, next + 1) \/ Ended(d) \/ Decided(d, next, "written")
      BY <1>8 DEF TakeGist
    <2> HIDE DEF next
    <2> QED
      BY <1>1, <1>8, <2>1, <2>4, <2>5, DecidingTypes, DecidedTypes DEF TakeGist
  <1> QED
    BY <1>3, <1>4, <1>5, <1>6, <1>7, <1>8 DEF Upload, Download

LEMMA WriteTypes ==
    ASSUME TypeInv, NEW d \in Device, Write(d)
    PROVE  TypeInv'
  <1> DEFINE job == jobs[d]
             new == [job EXCEPT !.at = 0, !.step = "written"]
  <1>1. JobOK(job) /\ job.version \in Versions /\ db[d] \in Content
    BY Busy DEF Write, JobOK, TypeInv
  <1>2. Contents(d) \in Content
    BY <1>1 DEF Contents, Content, Versions
  <1>3. GistOK'
    BY <1>2 DEF GistOK, Write, TypeInv
  <1>4. JobOK(new)
    BY <1>1 DEF JobOK, Job, Blind, Write
  <1>5. /\ jobs' \in [Device -> {Idle} \cup Job]
        /\ \A c \in Device : jobs'[c] # Idle => JobOK(jobs'[c])
    <2>1. jobs' = [jobs EXCEPT ![d] = new]
      BY DEF Write
    <2> QED
      BY <1>4, <2>1, JobChanges
  <1>6. pending' \in [Device -> SUBSET Edits]
    BY DEF Write, TypeInv
  <1> QED
    BY <1>3, <1>5, <1>6 DEF Write, TypeInv

LEMMA CommitTypes ==
    ASSUME TypeInv, NEW d \in Device, Commit(d)
    PROVE  TypeInv'
  <1>1. JobOK(jobs[d]) /\ jobs[d].version \in Versions
    BY Busy DEF Commit, JobOK
  <1>2. db[d] \in Content /\ db[d].version \in Versions
    BY DEF TypeInv, Content, Versions
  <1>3. Committed(db[d].version, jobs[d]) \in Nat
    BY <1>1, <1>2, SyncAssumption DEF Committed, Later, Versions, SyncAssumption
  <1>4. db' \in [Device -> Content]
    <2>1. CASE Fits(Committed(db[d].version, jobs[d]))
      <3>1. Committed(db[d].version, jobs[d]) \in Versions
        BY <1>3, <2>1, SyncAssumption DEF Fits, Versions, SyncAssumption
      <3> QED
        BY <1>2, <2>1, <3>1 DEF Commit, Content, Versions, TypeInv
    <2> QED
      BY <2>1 DEF Commit, TypeInv
  <1> QED
    BY <1>4, OnlyJobTypes DEF Commit, Ended

LEMMA EditTypes ==
    ASSUME TypeInv, NEW d \in Device, EditServers(d) \/ WriteMemory(d)
    PROVE  TypeInv'
  <1>1. /\ db[d] \in Content /\ db[d].version + 1 \in Nat
        /\ db[d].tree \in SUBSET Edits /\ pending[d] \in SUBSET Edits
        /\ count.edits \in 0..MaxEdit /\ count.writes \in [Device -> 0..MaxWrite]
    BY SyncAssumption DEF TypeInv, Content, Edits, Counts, SyncAssumption
  <1>2. Fits(db[d].version + 1) => db[d].version + 1 \in Versions
    BY <1>1, SyncAssumption DEF Fits, Versions, SyncAssumption
  <1>3. CASE EditServers(d)
    <2>1. count.edits + 1 \in Edits /\ count.edits + 1 \in 0..MaxEdit
      BY <1>1, <1>3, SyncAssumption DEF EditServers, Edits, SyncAssumption
    <2> DEFINE e == count.edits + 1
               next == db[d].version + 1
    <2> HIDE DEF e, next
    <2>2. e \in Edits /\ (Fits(next) => next \in Versions)
      BY <1>2, <2>1 DEF e, next
    <2>3. \/ /\ Fits(next)
             /\ db' = [db EXCEPT ![d].tree = @ \cup {e}, ![d].version = next]
          \/ db' = [db EXCEPT ![d].tree = @ \cup {e}]
      BY <1>1, <1>3 DEF EditServers, TypeInv, e, next
    <2>4. db' \in [Device -> Content]
      BY <1>1, <2>2, <2>3 DEF TypeInv, Content, Edits, Versions
    <2>5. pending' \in [Device -> SUBSET Edits]
      BY <1>1, <1>3, <2>1 DEF EditServers, TypeInv
    <2>6. count' \in Counts
      BY <1>1, <1>3, <2>1 DEF EditServers, TypeInv, Counts
    <2> QED
      BY <1>3, <2>4, <2>5, <2>6 DEF EditServers, TypeInv, GistOK
  <1>4. CASE WriteMemory(d)
    <2>1. PICK row \in 1..MaxRow : db' = [db EXCEPT ![d].memo = row, ![d].version = @ + 1]
      BY <1>4 DEF WriteMemory
    <2>2. row \in Rows /\ db[d].version + 1 \in Versions
      BY <1>2, <1>4, SyncAssumption DEF WriteMemory, Rows, SyncAssumption
    <2>3. db' \in [Device -> Content]
      BY <1>1, <2>1, <2>2 DEF TypeInv, Content, Rows, Versions
    <2>4. count.writes[d] + 1 \in 0..MaxWrite
      BY <1>1, <1>4, SyncAssumption DEF WriteMemory, SyncAssumption
    <2>5. count' \in Counts
      BY <1>1, <1>4, <2>4 DEF WriteMemory, TypeInv, Counts
    <2> QED
      BY <1>4, <2>3, <2>5 DEF WriteMemory, TypeInv, GistOK
  <1> QED
    BY <1>3, <1>4

LEMMA TypeStep ==
    ASSUME TypeInv, [SyncNext]_syncVars
    PROVE  TypeInv'
  <1>1. ASSUME NEW d \in Device, Proceed(d)
        PROVE  TypeInv'
    BY <1>1, FetchTypes, DecisionTypes, WriteTypes, CommitTypes DEF Proceed
  <1>2. ASSUME NEW d \in Device, Fail(d)
        PROVE  TypeInv'
    BY <1>2, OnlyJobTypes DEF Fail, Ended, TypeInv
  <1>3. CASE UNCHANGED syncVars
    BY <1>3 DEF TypeInv, GistOK, syncVars
  <1> QED
    BY <1>1, <1>2, <1>3, StartTypes, EditTypes DEF SyncNext

LEMMA TypeStart == SyncInit => TypeInv
  <1> SUFFICES ASSUME SyncInit PROVE TypeInv
    OBVIOUS
  <1>1. db \in [Device -> Content] /\ pending \in [Device -> SUBSET Edits]
    BY SyncAssumption DEF SyncInit, Content, SyncAssumption
  <1>2. jobs \in [Device -> {Idle} \cup Job] /\ GistOK
    BY DEF SyncInit, GistOK
  <1>3. count \in Counts
    BY SyncAssumption DEF SyncInit, Counts, SyncAssumption
  <1> QED
    BY <1>1, <1>2, <1>3 DEF SyncInit, TypeInv

LEMMA TypesHold == SyncSpec => []TypeInv
  BY TypeStart, TypeStep, PTL DEF SyncSpec

\* Devices, the gist and syncs only ever hold contents the program can have: every
\* version fits its integer, whatever is counted, merged or replaced
\* (sync_engine.rs next_sync_version, repository.rs commit_sync_version).
THEOREM GistTypesHold == SyncSpec => []GistTypeOK
  <1>1. ASSUME TypeInv PROVE GistTypeOK
    <2>1. ASSUME NEW d \in Device, jobs[d] # Idle
          PROVE  /\ jobs[d].kind # "download" => jobs[d].expected \in 0..MaxVersion
                 /\ jobs[d].step \in {"chosen", "written"} => jobs[d].version \in 0..MaxVersion
      BY <1>1, <2>1 DEF TypeInv, JobOK, Blind, Versions
    <2> QED
      BY <1>1, <2>1 DEF TypeInv, GistOK, GistTypeOK, Edits
  <1> QED
    BY <1>1, TypesHold, PTL

-----------------------------------------------------------------------------
(* Versions *)

Others(d) ==
    \A c \in Device \ {d} :
        db'[c] = db[c] /\ jobs'[c] = jobs[c] /\ pending'[c] = pending[c]

\* A device changes only what is its own.
LEMMA OneDevice ==
    ASSUME TypeInv, NEW d \in Device,
           \/ EditServers(d) \/ WriteMemory(d) \/ StartUpload(d) \/ StartDownload(d)
           \/ Proceed(d) \/ Fail(d)
    PROVE  Others(d)
  <1>1. CASE EditServers(d) \/ WriteMemory(d) \/ StartUpload(d) \/ StartDownload(d)
    BY <1>1 DEF Others, TypeInv, EditServers, WriteMemory, StartUpload, StartDownload, Begun
  <1>2. CASE Fetch(d) \/ ChooseFirst(d)
    BY <1>2 DEF Others, TypeInv, Fetch, ChooseFirst, Chosen, Decided, Ended
  <1>3. CASE LeaveConflict(d) \/ KeepGist(d) \/ ReplaceGist(d)
    BY <1>3 DEF Others, TypeInv, LeaveConflict, KeepGist, ReplaceGist, Chosen, Decided, Ended
  <1>4. CASE LeaveOlder(d) \/ ForceUpload(d)
    BY <1>4 DEF Others, TypeInv, LeaveOlder, ForceUpload, Chosen, Decided, Ended
  <1>5. CASE TakeGist(d)
    BY <1>5 DEF Others, TypeInv, TakeGist, Chosen, Decided, Ended
  <1>6. CASE Write(d)
    BY <1>6 DEF Others, TypeInv, Write
  <1>7. CASE Commit(d) \/ Fail(d)
    BY <1>7 DEF Others, TypeInv, Commit, Fail, Ended
  <1> QED
    BY <1>1, <1>2, <1>3, <1>4, <1>5, <1>6, <1>7 DEF Proceed, Upload, Download

\* A sync that read the version goes on with what it read, or ends.
Quiet(d) ==
    /\ db'[d].version = db[d].version /\ pending'[d] \subseteq pending[d]
    /\ \/ jobs'[d] = Idle \/ Blind(jobs'[d])
       \/ /\ jobs[d] # Idle /\ ~Blind(jobs[d])
          /\ jobs'[d].expected = jobs[d].expected /\ jobs'[d].seen = jobs[d].seen

LEMMA QuietVersions ==
    ASSUME NEW d \in Device, VersionOK(d), Quiet(d)
    PROVE  VersionOK(d)'
  BY DEF VersionOK, Quiet

\* Deciding keeps the version, and the sync what it read.
LEMMA QuietDecision ==
    ASSUME TypeInv, NEW d \in Device,
           ChooseFirst(d) \/ Upload(d) \/ Download(d) \/ ForceUpload(d)
    PROVE  Quiet(d)
  <1>1. jobs[d] # Idle /\ jobs[d] \in Job /\ ~Blind(jobs[d])
    BY Busy DEF ChooseFirst, Upload, Download, ForceUpload, LeaveConflict, KeepGist,
       ReplaceGist, LeaveOlder, TakeGist, Ready, Blind
  <1>2. ASSUME NEW version, NEW step, Chosen(d, version) \/ Ended(d) \/ Decided(d, version, step)
        PROVE  \/ jobs'[d] = Idle
               \/ jobs'[d].expected = jobs[d].expected /\ jobs'[d].seen = jobs[d].seen
    BY <1>1, <1>2 DEF Chosen, Decided, Ended, TypeInv, Job
  <1>3. CASE ChooseFirst(d) \/ LeaveConflict(d) \/ LeaveOlder(d)
    BY <1>1, <1>2, <1>3 DEF Quiet, ChooseFirst, LeaveConflict, LeaveOlder
  <1>4. CASE KeepGist(d) \/ ReplaceGist(d)
    <2>1. db'[d].version = db[d].version /\ pending' = pending
      BY <1>4 DEF KeepGist, ReplaceGist, TypeInv, Content
    <2> QED
      BY <1>1, <1>2, <1>4, <2>1 DEF Quiet, KeepGist, ReplaceGist
  <1>5. CASE ForceUpload(d)
    <2>1. db'[d].version = db[d].version /\ pending' = pending
      BY <1>5 DEF ForceUpload, TypeInv, Content
    <2> QED
      BY <1>1, <1>2, <1>5, <2>1 DEF Quiet, ForceUpload
  <1>6. CASE TakeGist(d)
    <2>1. db'[d].version = db[d].version /\ pending' = pending
      BY <1>6 DEF TakeGist, TypeInv, Content
    <2> QED
      BY <1>1, <1>2, <1>6, <2>1 DEF Quiet, TakeGist
  <1> QED
    BY <1>3, <1>4, <1>5, <1>6 DEF Upload, Download

\* Steps of a sync between the version it read and the one it commits.
LEMMA QuietSteps ==
    ASSUME TypeInv, NEW d \in Device,
           \/ StartDownload(d) \/ ChooseFirst(d) \/ Upload(d) \/ Download(d)
           \/ ForceUpload(d) \/ Write(d) \/ Fail(d)
    PROVE  Quiet(d)
  <1>1. CASE StartDownload(d)
    BY <1>1 DEF Quiet, Blind, TypeInv, StartDownload, Begun
  <1>2. CASE Write(d)
    BY <1>2, Busy DEF Quiet, Blind, TypeInv, Write, JobOK, Job
  <1>3. CASE Fail(d)
    BY <1>3 DEF Quiet, TypeInv, Fail, Ended
  <1> QED
    BY <1>1, <1>2, <1>3, QuietDecision

\* What committing does to the version of the device.
LEMMA CommitVersion ==
    ASSUME TypeInv, NEW d \in Device, VersionOK(d), Commit(d)
    PROVE  /\ db'[d].version >= db[d].version
           /\ ~Refused(d) /\ pending[d] \ jobs[d].seen # {}
                 => db'[d].version > jobs[d].version
  <1>1. /\ JobOK(jobs[d]) /\ jobs[d] # Idle /\ ~Blind(jobs[d])
        /\ jobs[d].version \in Nat /\ jobs[d].expected \in Nat
        /\ jobs[d].version >= jobs[d].expected
    BY Busy, SyncAssumption DEF Commit, JobOK, Versions, SyncAssumption
  <1>2. db[d] \in Content /\ db[d].version \in Nat
    BY SyncAssumption DEF TypeInv, Content, SyncAssumption
  <1>3. jobs'[d] = Idle
    BY DEF Commit, Ended, TypeInv
  <1>4. CASE ~Fits(Committed(db[d].version, jobs[d]))
    <2>1. Refused(d)
      BY <1>3, <1>4 DEF Refused
    <2> QED
      BY <1>2, <1>4, <2>1 DEF Commit
  <1>5. CASE Fits(Committed(db[d].version, jobs[d]))
    <2>1. db'[d].version = Committed(db[d].version, jobs[d])
      BY <1>2, <1>5 DEF Commit, TypeInv, Content
    <2>2. CASE db[d].version = jobs[d].expected
      <3>1. pending[d] \subseteq jobs[d].seen
        BY <1>1, <2>2 DEF VersionOK
      <3> QED
        BY <1>1, <1>2, <2>1, <2>2, <3>1 DEF Committed
    <2>3. CASE db[d].version # jobs[d].expected
      BY <1>1, <1>2, <2>1, <2>3 DEF Committed, Later
    <2> QED
      BY <2>2, <2>3
  <1> QED
    BY <1>4, <1>5

\* Where a version is read, counted or committed.
LEMMA LoudSteps ==
    ASSUME TypeInv, NEW d \in Device, VersionOK(d),
           EditServers(d) \/ WriteMemory(d) \/ StartUpload(d) \/ Fetch(d) \/ Commit(d)
    PROVE  VersionOK(d)' /\ db'[d].version >= db[d].version
  <1>1. db[d] \in Content /\ db[d].version \in Nat /\ pending[d] \in SUBSET Edits
    BY SyncAssumption DEF TypeInv, Content, SyncAssumption
  <1>2. jobs[d] # Idle => JobOK(jobs[d])
    BY DEF TypeInv
  <1>3. jobs[d] # Idle /\ ~Blind(jobs[d]) => jobs[d].expected \in Nat
    BY <1>2, SyncAssumption DEF JobOK, Versions, SyncAssumption
  <1>4. CASE EditServers(d) \/ WriteMemory(d)
    <2>1. /\ jobs' = jobs
          /\ \/ db'[d].version = db[d].version + 1
             \/ db'[d].version = db[d].version /\ pending' = pending
      <3>1. CASE EditServers(d)
        BY <1>1, <3>1 DEF EditServers, TypeInv, Content
      <3>2. CASE WriteMemory(d)
        <4>1. PICK row : db' = [db EXCEPT ![d].memo = row, ![d].version = @ + 1]
          BY <3>2 DEF WriteMemory
        <4> QED
          BY <1>1, <3>2, <4>1 DEF WriteMemory, TypeInv, Content
      <3> QED
        BY <1>4, <3>1, <3>2
    <2>2. CASE db'[d].version = db[d].version + 1
      <3>1. ASSUME jobs[d] # Idle, ~Blind(jobs[d])
            PROVE  db'[d].version >= jobs[d].expected /\ db'[d].version # jobs[d].expected
        BY <1>1, <1>3, <2>2, <3>1 DEF VersionOK
      <3> QED
        BY <1>1, <2>1, <2>2, <3>1 DEF VersionOK, Blind
    <2>3. CASE db'[d].version = db[d].version /\ pending' = pending
      BY <1>1, <2>1, <2>3 DEF VersionOK, Blind
    <2> QED
      BY <2>1, <2>2, <2>3
  <1>5. CASE StartUpload(d)
    BY <1>1, <1>5 DEF VersionOK, StartUpload, Begun, TypeInv
  <1>6. CASE Fetch(d)
    <2>1. jobs[d] \in Job
      BY <1>6, Busy DEF Fetch
    <2>2. jobs'[d].expected = db[d].version /\ jobs'[d].seen = pending[d]
      BY <1>6, <2>1 DEF Fetch, TypeInv, Job
    <2> QED
      BY <1>1, <1>6, <2>2 DEF VersionOK, Fetch, Blind, TypeInv
  <1>7. CASE Commit(d)
    <2>1. jobs'[d] = Idle
      BY <1>7 DEF Commit, Ended, TypeInv
    <2> QED
      BY <1>7, <2>1, CommitVersion DEF VersionOK
  <1> QED
    BY <1>4, <1>5, <1>6, <1>7

\* No version falls, and a commit leaves it above the gist's while edits are unsent.
LEMMA VersionSteps ==
    ASSUME TypeInv, VersionInv, SyncNext
    PROVE  /\ VersionInv'
           /\ \A c \in Device :
                 /\ db'[c].version >= db[c].version
                 /\ Commit(c) /\ ~Refused(c) /\ pending[c] \ jobs[c].seen # {}
                       => db'[c].version > jobs[c].version
  <1>1. ASSUME NEW c \in Device
        PROVE  db[c].version \in Nat
    BY SyncAssumption DEF TypeInv, Content, SyncAssumption
  <1>2. PICK d \in Device :
            \/ EditServers(d) \/ WriteMemory(d) \/ StartUpload(d) \/ StartDownload(d)
            \/ Proceed(d) \/ Fail(d)
    BY DEF SyncNext
  <1>3. VersionOK(d)' /\ db'[d].version >= db[d].version
    <2>1. CASE EditServers(d) \/ WriteMemory(d) \/ StartUpload(d) \/ Fetch(d) \/ Commit(d)
      BY <2>1, LoudSteps DEF VersionInv
    <2>2. CASE Quiet(d)
      BY <1>1, <2>2, QuietVersions DEF VersionInv, Quiet
    <2> QED
      BY <1>2, <2>1, <2>2, QuietSteps DEF Proceed
  <1>4. ASSUME NEW c \in Device \ {d}
        PROVE  VersionOK(c)' /\ db'[c].version >= db[c].version
    BY <1>1, <1>2, <1>4, OneDevice DEF Others, VersionInv, VersionOK
  <1>5. ASSUME NEW c \in Device, Commit(c), ~Refused(c), pending[c] \ jobs[c].seen # {}
        PROVE  db'[c].version > jobs[c].version
    BY <1>5, CommitVersion DEF VersionInv
  <1> QED
    BY <1>3, <1>4, <1>5 DEF VersionInv

LEMMA VersionsHold == SyncSpec => []VersionInv
  <1>1. SyncInit => VersionInv
    BY DEF SyncInit, VersionInv, VersionOK
  <1>2. ASSUME TypeInv, VersionInv, [SyncNext]_syncVars PROVE VersionInv'
    <2>1. CASE UNCHANGED syncVars
      BY <1>2, <2>1 DEF VersionInv, VersionOK, syncVars
    <2> QED
      BY <1>2, <2>1, VersionSteps
  <1> QED
    BY <1>1, <1>2, TypesHold, PTL DEF SyncSpec

\* An edit that was counted while a sync was under way leaves the device above the
\* version that the sync commits, so that a later one sends it, and versions never
\* fall (repository.rs:729, commit_sync_version).
THEOREM EditsOutrankSyncs == SyncSpec => EditsDuringSyncOutrankIt
  <1>1. ASSUME TypeInv, VersionInv, [SyncNext]_syncVars
        PROVE  [\A d \in Device :
                   /\ db'[d].version >= db[d].version
                   /\ Commit(d) /\ ~Refused(d) /\ pending[d] \ jobs[d].seen # {}
                         => db'[d].version > jobs[d].version]_syncVars
    BY <1>1, VersionSteps
  <1> QED
    BY <1>1, TypesHold, VersionsHold, PTL DEF SyncSpec, EditsDuringSyncOutrankIt

-----------------------------------------------------------------------------
(* Memories *)

\* A step that is no write of the device leaves its memory or advances it.
LEMMA MemoSteps ==
    ASSUME TypeInv, NEW d \in Device,
           \/ EditServers(d) \/ StartUpload(d) \/ StartDownload(d) \/ Proceed(d) \/ Fail(d)
    PROVE  db'[d].memo >= db[d].memo
  <1>1. db[d] \in Content /\ db[d].memo \in Nat
    BY SyncAssumption DEF TypeInv, Content, SyncAssumption
  <1>2. CASE \/ EditServers(d) \/ StartUpload(d) \/ StartDownload(d) \/ Fetch(d)
             \/ ChooseFirst(d) \/ Write(d) \/ Commit(d) \/ Fail(d)
    <2>1. db'[d].memo = db[d].memo
      BY <1>1, <1>2 DEF EditServers, StartUpload, StartDownload, Begun, Fetch, ChooseFirst,
         Write, Commit, Fail, TypeInv, Content
    <2> QED
      BY <1>1, <2>1
  <1>3. CASE Upload(d) \/ Download(d) \/ ForceUpload(d)
    <2>1. PICK kind \in {"upload", "force", "download"} : Ready(d, kind)
      BY <1>3 DEF Upload, Download, ForceUpload, LeaveConflict, KeepGist, ReplaceGist,
         LeaveOlder, TakeGist
    <2>2. db'[d].memo = db[d].memo \/ db'[d].memo = Merged(d, Remote(d).memo)
      BY <1>1, <1>3 DEF Upload, Download, ForceUpload, LeaveConflict, KeepGist, ReplaceGist,
         LeaveOlder, TakeGist, TypeInv, Content
    <2> QED
      BY <1>1, <2>1, <2>2, DecidingTypes
  <1> QED
    BY <1>2, <1>3 DEF Proceed

\* No sync takes a device back to an earlier memory, however late an earlier one
\* arrives from the gist and whatever is written meanwhile, by whatever clock
\* (sync_provider.rs merge_and_persist_memories).
THEOREM MemoriesOnlyAdvance == SyncSpec => MemoryNeverRegresses
  <1>1. ASSUME TypeInv, SyncNext, NEW c \in Device, db'[c].memo < db[c].memo
        PROVE  WriteMemory(c)
    <2>1. db[c].memo \in Nat
      BY <1>1, SyncAssumption DEF TypeInv, Content, SyncAssumption
    <2>2. PICK d \in Device :
              \/ EditServers(d) \/ WriteMemory(d) \/ StartUpload(d) \/ StartDownload(d)
              \/ Proceed(d) \/ Fail(d)
      BY <1>1 DEF SyncNext
    <2>3. c = d
      BY <1>1, <2>1, <2>2, OneDevice DEF Others
    <2>4. db'[c].memo \in Nat
      BY <1>1, TypeStep, SyncAssumption DEF TypeInv, Content, SyncAssumption
    <2> QED
      BY <1>1, <2>1, <2>2, <2>3, <2>4, MemoSteps
  <1>2. ASSUME TypeInv, [SyncNext]_syncVars
        PROVE  [\A d \in Device : db'[d].memo < db[d].memo => WriteMemory(d)]_syncVars
    BY <1>1, <1>2
  <1> QED
    BY <1>2, TypesHold, PTL DEF SyncSpec, MemoryNeverRegresses

=============================================================================
