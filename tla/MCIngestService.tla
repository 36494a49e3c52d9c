--------------------------- MODULE MCIngestService ---------------------------
(* Instances of IngestService for TLC.                                     *)
EXTENDS IngestServiceInv, TLC

CONSTANTS r1, r2, commit, purge, create, disable

OneRequest == {r1}
TwoRequests == {r1, r2}
OneGuarded == {r2}
CommitPurgeCreate == {commit, purge, create}
CommitPurgeCreateOps == (commit :> "commit") @@ (purge :> "purge") @@ (create :> "create")
Calls(n, m) == (commit :> n) @@ (purge :> m) @@ (create :> m)

\* Two faults against ingestion alone, one beside a direct commit and a
\* request sent again, one beside the purge and the creation of the tenant.
MixedWorkloads ==
  {[accepts |-> 3, calls |-> Calls(0, 0), faults |-> 2],
   [accepts |-> 3, calls |-> Calls(1, 0), faults |-> 1],
   [accepts |-> 2, calls |-> Calls(0, 1), faults |-> 1]}

Disabler == {disable}
DisablerOps == [c \in {disable} |-> "disable"]
DisabledOnce == {[accepts |-> 1, calls |-> [c \in {disable} |-> 1], faults |-> 1]}
=============================================================================
