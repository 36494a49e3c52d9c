--------------------------- MODULE MCTenantStorage ---------------------------
(* TenantStorage on small instances. *)
EXTENDS TenantStorageInv, TLC

CONSTANTS k1, k2, r1, r2

\* Nobody reads and nothing goes wrong, unless the workload says so.
Calm == [tries |-> 2, skips |-> 0, compactions |-> 1, purges |-> 0, crashes |-> 0, faults |-> 0,
         pauses |-> 0, keys |-> {k1, k2}, readers |-> {}, sweep |-> FALSE]
\* Retries across a stop or an error.
Retried == {[Calm EXCEPT !.tries = 3, !.skips = 1, !.crashes = 1],
            [Calm EXCEPT !.tries = 3, !.skips = 1, !.faults = 1]}
\* A reader, and readers that overlap without end, beside the sweep.
Swept == {[Calm EXCEPT !.readers = {r1}, !.sweep = TRUE],
          [Calm EXCEPT !.tries = 1, !.readers = {r1, r2}, !.sweep = TRUE, !.pauses = 1]}
\* A purge and a new tenant in the middle of a compaction.
Purged == {[Calm EXCEPT !.keys = {k1}, !.tries = 3, !.crashes = 1, !.purges = 1, !.sweep = TRUE, !.pauses = 1],
           [Calm EXCEPT !.purges = 1]}
MCWorkloads == Retried \union Swept \union Purged
\* A compaction that outlives a purge, then one that crashes and one that
\* finds its objects.
RecreatedWorkload ==
  {[Calm EXCEPT !.tries = 3, !.compactions = 3, !.purges = 1, !.crashes = 1, !.sweep = TRUE]}

KeySymmetry == Permutations(Keys)
=============================================================================
