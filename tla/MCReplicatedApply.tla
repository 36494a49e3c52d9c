-------------------------- MODULE MCReplicatedApply --------------------------
(***************************************************************************)
(* Instances of ReplicatedApply.                                           *)
(***************************************************************************)
EXTENDS ReplicatedApply, TLC

CONSTANTS a, c   \* a tenant object and the catalog

MCKeys == {a, c}

Cmd(class, opA, opC, rejects) ==
    [class |-> class, op |-> (a :> opA @@ c :> opC), rejects |-> rejects]

\* A commit, a refused commit, an acceptance, and a catalog
\* change that also removes an object.
MCCommands == {Cmd("commit", "put", "keep", FALSE), Cmd("commit", "put", "keep", TRUE),
               Cmd("accept", "put", "keep", FALSE), Cmd("control", "del", "put", FALSE)}
=============================================================================
