------------------------------ MODULE MCLedger ------------------------------
(* Small families of tasks for TLC. *)
EXTENDS LedgerClients, TLC

CONSTANTS p, c, d, o

\* A parent with one child, both codex.
PairParent == p :> None @@ c :> p
CodexPair == p :> "codex" @@ c :> "codex"
PairRuns == p :> 2 @@ c :> 1
PairRevs == p :> 3 @@ c :> 3
PairReports == p :> {"running", "completed", "cancelled"}
                 @@ c :> {"running", "completed"}

\* A parent with two codex children that each end once.
TrioParent == p :> None @@ c :> p @@ d :> p
GrokTrio == p :> "grok" @@ c :> "codex" @@ d :> "codex"
ClaudeTrio == p :> "claude" @@ c :> "codex" @@ d :> "codex"
TrioRuns == p :> 3 @@ c :> 1 @@ d :> 1
TrioRevs == p :> 8 @@ c :> 1 @@ d :> 1
TrioReports == p :> {"completed"}
                 @@ c :> {"failed"} @@ d :> {"failed"}
ClaudeRevs == p :> 6 @@ c :> 1 @@ d :> 1
ClaudeReports == p :> {"completed"} @@ c :> {"failed"} @@ d :> {"failed"}

\* The grok parent and its children below an Oz conversation with two runs.
OzParent == o :> None @@ p :> o @@ c :> p @@ d :> p
OzFamily == o :> "oz" @@ GrokTrio
OzRuns == o :> 2 @@ TrioRuns
OzRevs == o :> 1 @@ p :> 6 @@ c :> 1 @@ d :> 1
OzReports == o :> {} @@ TrioReports
Siblings == Permutations({c, d}) \cup Permutations(Input) \cup Permutations(Turn)
Inputs == Permutations(Input) \cup Permutations(Turn)

\* One grok task whose user writes ahead of it.
OneParent == p :> None
OneGrok == p :> "grok"
OneRuns == p :> 3
OneRevs == p :> 5
OneReports == p :> {"completed", "unconfirmed"}

=============================================================================
