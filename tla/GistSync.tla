------------------------------ MODULE GistSync -------------------------------
(***************************************************************************)
(* SSH servers and machine memories that several devices keep in step       *)
(* through one gist.  A device counts its edits in a version; a sync reads  *)
(* the gist, merges, and replaces it as a whole, without comparing it again *)
(* before the write.  Servers are replaced as a whole too, memories are     *)
(* merged row by row, the row with the later time winning.                  *)
(***************************************************************************)
EXTENDS Integers

CONSTANTS
    Device,
    MaxEdit,     \* bound on edits of servers, of all devices
    MaxWrite,    \* bound on writes of the memory, of each device
    MaxRow,      \* rows of memory there can be
    MaxVersion,  \* versions that fit (i64 in the code)
    None

VARIABLES
    db,      \* device -> its servers (as the edits they reflect), memory, version
    gist,    \* the gist found under the description, the newest one
    made,    \* how many gists were made under it
    jobs,    \* device -> the sync it has under way; its page starts no second one
    pending, \* device -> its own edits that raised its version and that no sync of it
             \* has taken to the gist
    count    \* edits of all devices, memory writes of each, so far

syncVars == <<db, gist, made, jobs, pending, count>>

ASSUME SyncAssumption ==
    /\ MaxEdit \in Nat /\ MaxWrite \in Nat /\ MaxRow \in Nat /\ MaxVersion \in Nat

\* The memory of one machine stands for all.  compare_machine_memories orders its
\* rows by the time they carry and then by everything else in them, so a row is
\* named by its place in that order; 0 is no row yet.
Later(a, b) == IF a >= b THEN a ELSE b

Content == [version : 0..MaxVersion, tree : SUBSET (1..MaxEdit), memo : 0..MaxRow]
Idle == [step |-> "idle"]

SyncInit ==
    /\ db = [d \in Device |-> [version |-> 0, tree |-> {}, memo |-> 0]]
    /\ gist = None /\ made = 0
    /\ jobs = [d \in Device |-> Idle]
    /\ pending = [d \in Device |-> {}]
    /\ count = [edits |-> 0, writes |-> [d \in Device |-> 0]]

-----------------------------------------------------------------------------
(* Edits *)

Unchecked(version) == TRUE      \* mutant: versions are added without a check
\* next_sync_version and the checked additions of SyncMetaRepository.
Fits(version) == version <= MaxVersion

\* SshRepository stores a change of the servers and then, by a statement of its
\* own, raises the version; the result of that one is dropped, so the edit stays
\* when it is lost (the limit, a busy database, the end of the application).  The
\* connection is locked over both: no sync of this device comes between them.
EditServers(d) ==
    /\ count.edits < MaxEdit
    /\ LET e == count.edits + 1 IN
       /\ \/ /\ Fits(db[d].version + 1)
             /\ db' = [db EXCEPT ![d].tree = @ \cup {e}, ![d].version = @ + 1]
             /\ pending' = [pending EXCEPT ![d] = @ \cup {e}]
          \/ /\ db' = [db EXCEPT ![d].tree = @ \cup {e}]
             /\ UNCHANGED pending
       /\ count' = [count EXCEPT !.edits = e]
    /\ UNCHANGED <<gist, made, jobs>>

\* MachineMemoryRepository: a row and the version in one transaction.  The row
\* carries the time of the device's own clock, so it may come before the row it
\* replaces.
WriteMemory(d) ==
    /\ count.writes[d] < MaxWrite /\ Fits(db[d].version + 1)
    /\ \E row \in 1..MaxRow :
          db' = [db EXCEPT ![d].memo = row, ![d].version = @ + 1]
    /\ count' = [count EXCEPT !.writes[d] = @ + 1]
    /\ UNCHANGED <<gist, made, jobs, pending>>

-----------------------------------------------------------------------------
(* A sync, up to its decision *)

Begun(d, kind, version, seen) ==
    /\ jobs[d] = Idle
    /\ jobs' = [jobs EXCEPT ![d] =
           [step |-> "begun", kind |-> kind, expected |-> version, seen |-> seen,
            at |-> 0, remote |-> None, version |-> None]]
    /\ UNCHANGED <<db, gist, made, pending, count>>

\* upload and force_upload begin with the version of the device.
StartUpload(d) ==
    \E kind \in {"upload", "force"} : Begun(d, kind, db[d].version, pending[d])

StartDownload(d) == Begun(d, "download", None, {})

\* find_gist and get_gist_content.  download reads its version after the gist; what
\* the device writes between the two is as written before both, so they are one step.
Fetch(d) ==
    /\ jobs[d].step = "begun" /\ jobs[d].kind = "download" /\ gist # None
    /\ jobs' = [jobs EXCEPT ![d].at = made, ![d].remote = gist,
                            ![d].expected = db[d].version, ![d].seen = pending[d],
                            ![d].step = "fetched"]
    /\ UNCHANGED <<db, gist, made, pending, count>>

\* upload and force_upload read the gist and decide at once: what the device writes
\* between the two is as written before both, and a gist as written after both.
Remote(d) == IF jobs[d].step = "fetched" THEN jobs[d].remote ELSE gist
At(d) == IF jobs[d].step = "fetched" THEN jobs[d].at ELSE made

Ended(d) == jobs' = [jobs EXCEPT ![d] = Idle]

\* merge_machine_memories, read and written in one transaction.
RemoteWins(d, memo) == memo     \* mutant: the merge is not by time
Merged(d, memo) == Later(db[d].memo, memo)
NeverSends(d, memo) == FALSE    \* mutant: a memory the gist lacks is not sent
NeedsUpload(d, memo) == Merged(d, memo) # memo
Differs(d, memo) == Merged(d, memo) # db[d].memo

\* What is left to write, to which gist, and to commit over what was expected.
Decided(d, version, step) ==
    jobs' = [jobs EXCEPT ![d].version = version, ![d].step = step, ![d].at = At(d),
                         ![d].kind = None, ![d].remote = None]

\* next_sync_version has no version past the limit: the sync ends in an error, and
\* what it merged or applied before stays.
Chosen(d, version) ==
    IF Fits(version) THEN Decided(d, version, "chosen") ELSE Ended(d)

\* upload and force_upload without a gist.
ChooseFirst(d) ==
    LET job == jobs[d] IN
    /\ job.step = "begun" /\ job.kind # "download" /\ gist = None
    /\ Chosen(d, IF job.kind = "force" THEN job.expected + 1 ELSE job.expected)
    /\ UNCHANGED <<db, gist, made, pending, count>>

\* A sync that finds a gist.
Ready(d, kind) ==
    /\ jobs[d].step = IF kind = "download" THEN "fetched" ELSE "begun"
    /\ jobs[d].kind = kind /\ Remote(d) # None
Newer(d) == Remote(d).version > jobs[d].expected
Same(d) == Remote(d).version = jobs[d].expected

\* A newer gist is a conflict, left to the user: nothing is merged.
LeaveConflict(d) ==
    /\ Ready(d, "upload") /\ Newer(d)
    /\ Ended(d)
    /\ UNCHANGED <<db, gist, made, pending, count>>

\* A gist of the same version that lacks no memory: nothing is sent, and the
\* answer is "already up to date" when nothing was merged either.
KeepGist(d) ==
    LET memo == Remote(d).memo IN
    /\ Ready(d, "upload") /\ Same(d) /\ ~NeedsUpload(d, memo)
    /\ db' = [db EXCEPT ![d].memo = Merged(d, memo)]
    /\ Ended(d)
    /\ UNCHANGED <<gist, made, pending, count>>

AnswersUpToDate(d) == KeepGist(d) /\ ~Differs(d, Remote(d).memo)

\* Otherwise the gist is to be replaced, under a version of its own.
ReplaceGist(d) ==
    LET memo == Remote(d).memo IN
    /\ Ready(d, "upload") /\ ~Newer(d)
    /\ Same(d) => NeedsUpload(d, memo)
    /\ db' = [db EXCEPT ![d].memo = Merged(d, memo)]
    /\ Chosen(d, IF Same(d) THEN jobs[d].expected + 1 ELSE jobs[d].expected)
    /\ UNCHANGED <<gist, made, pending, count>>

Upload(d) == LeaveConflict(d) \/ KeepGist(d) \/ ReplaceGist(d)

\* download: an older gist is left alone, memories included.
LeaveOlder(d) ==
    /\ Ready(d, "download") /\ ~Newer(d) /\ ~Same(d)
    /\ Ended(d)
    /\ UNCHANGED <<db, gist, made, pending, count>>

\* A newer gist replaces the servers (apply_data), edits that were never sent
\* included; one of the same version only adds its memories (reconcile_data).  A
\* memory the gist lacks is sent back.
TakeGist(d) ==
    LET memo == Remote(d).memo
        version == Later(jobs[d].expected, Remote(d).version) IN
    /\ Ready(d, "download") /\ (Newer(d) \/ Same(d))
    /\ db' = [db EXCEPT ![d].memo = Merged(d, memo),
                        ![d].tree = IF Newer(d) THEN Remote(d).tree ELSE @]
    /\ \/ NeedsUpload(d, memo) /\ Chosen(d, version + 1)
       \/ ~NeedsUpload(d, memo) /\ Same(d) /\ ~Differs(d, memo) /\ Ended(d)
       \/ /\ ~NeedsUpload(d, memo) /\ (Newer(d) \/ Differs(d, memo))
          /\ Decided(d, version, "written")
    /\ UNCHANGED <<gist, made, pending, count>>

Download(d) == LeaveOlder(d) \/ TakeGist(d)

\* force_upload: whatever is newer, the memories are merged first.
ForceUpload(d) ==
    LET version == Later(jobs[d].expected, Remote(d).version) IN
    /\ Ready(d, "force")
    /\ db' = [db EXCEPT ![d].memo = Merged(d, Remote(d).memo)]
    /\ Chosen(d, version + 1)
    /\ UNCHANGED <<gist, made, pending, count>>

-----------------------------------------------------------------------------
(* A sync that writes *)

Contents(d) == [version |-> jobs[d].version, tree |-> db[d].tree, memo |-> db[d].memo]

\* collect_data, then update_gist or create_gist, as the gist was found.  What the
\* device writes between the two is as written after both, so they are one step.  A
\* gist that a newer one was made after is written, too, but found no more.
Write(d) ==
    LET job == jobs[d] IN
    /\ job.step = "chosen"
    /\ made' = IF job.at = 0 THEN made + 1 ELSE made
    /\ gist' = IF job.at \in {0, made} THEN Contents(d) ELSE gist
    /\ jobs' = [jobs EXCEPT ![d].at = 0, ![d].step = "written"]
    /\ pending' = [pending EXCEPT ![d] = @ \ db[d].tree]
    /\ UNCHANGED <<db, count>>

Overwritten(current, job) == job.version     \* mutant: the current version is not compared
\* commit_sync_version
Committed(current, job) ==
    IF current = job.expected THEN job.version ELSE Later(current, job.version) + 1

Commit(d) ==
    LET job == jobs[d] IN
    /\ job.step = "written"
    /\ db' = IF Fits(Committed(db[d].version, job))
             THEN [db EXCEPT ![d].version = Committed(@, job)] ELSE db
    /\ Ended(d)
    /\ UNCHANGED <<gist, made, pending, count>>

\* A request that fails, after it was carried out or before, or the end of the
\* application.
Fail(d) ==
    /\ jobs[d] # Idle
    /\ Ended(d)
    /\ UNCHANGED <<db, gist, made, pending, count>>

Proceed(d) ==
    \/ Fetch(d) \/ ChooseFirst(d)
    \/ Upload(d) \/ Download(d) \/ ForceUpload(d)
    \/ Write(d) \/ Commit(d)

SyncNext ==
    \/ \E d \in Device : EditServers(d) \/ WriteMemory(d)
    \/ \E d \in Device : StartUpload(d) \/ StartDownload(d)
    \/ \E d \in Device : Proceed(d) \/ Fail(d)

SyncSpec == SyncInit /\ [][SyncNext]_syncVars

-----------------------------------------------------------------------------
(* Properties *)

\* Types: devices hold contents, a sync under way has read what its step needs.
GistTypeOK ==
    /\ db \in [Device -> Content]
    /\ made \in Nat /\ (IF made = 0 THEN gist = None ELSE gist \in Content)
    /\ \A d \in Device : jobs[d] # Idle =>
          /\ jobs[d].kind # "download" => jobs[d].expected \in 0..MaxVersion
          /\ jobs[d].step \in {"chosen", "written"} => jobs[d].version \in 0..MaxVersion
    /\ \A d \in Device : pending[d] \subseteq 1..MaxEdit

\* A sync that ends because the version it needs is past the limit.
Refused(d) ==
    /\ jobs'[d] = Idle
    /\ \/ ChooseFirst(d) \/ ReplaceGist(d) \/ ForceUpload(d)
       \/ TakeGist(d) /\ NeedsUpload(d, Remote(d).memo)
       \/ Commit(d) /\ ~Fits(Committed(db[d].version, jobs[d]))

\* An edit that was counted after a sync had read the version, and not sent by it,
\* is not taken for sent: the sync leaves the version above the one it gave the
\* gist, whatever it did to the servers meanwhile, and no version ever falls
\* (repository.rs commit_sync_version).
EditsDuringSyncOutrankIt ==
    [][\A d \in Device :
          /\ db'[d].version >= db[d].version
          /\ Commit(d) /\ ~Refused(d) /\ pending[d] \ jobs[d].seen # {}
                => db'[d].version > jobs[d].version]_syncVars

\* A sync never puts an earlier row in the place of a later one, not even of one
\* that was written while it was under way: only a write of the device itself may,
\* by a clock that is behind (sync_provider.rs merge_and_persist_memories).
MemoryNeverRegresses ==
    [][\A d \in Device : db'[d].memo < db[d].memo => WriteMemory(d)]_syncVars

\* A sync whose content never reaches the gist.
Lost(d) == jobs[d].step = "chosen" /\ Fail(d)

\* Devices whose uploads and downloads keep reaching a decision, and in the end
\* write what they decided, have the same memory once writes stop, servers in
\* conflict or not (upload and download of sync_engine.rs).  Nothing makes a device
\* sync: that it does is the premise.
MemoriesConverge ==
    (/\ \A d \in Device : []<><<Upload(d)>>_syncVars /\ []<><<Download(d)>>_syncVars
     /\ <>[][\A d \in Device : ~Lost(d) /\ ~Refused(d)]_syncVars)
        => <>[](\A c, d \in Device : db[c].memo = db[d].memo)

\* warp.ftl: "Already up to date, no sync needed", as the answer of an upload,
\* says that the gist has the edits the device had when the upload began, those it
\* still has.
UpToDateMeansSynced ==
    [][\A d \in Device :
          AnswersUpToDate(d) => jobs[d].seen \cap pending[d] \cap db[d].tree = {}]_syncVars

=============================================================================
