----------------------------- MODULE MCIngestWAL -----------------------------
(* A small log: three segments, room for five frames.                       *)
EXTENDS IngestWAL

Workload(r, c, f) == [records |-> r, checkpoints |-> c, faults |-> f, met |-> 0]

MCWorkloads == {Workload(5, 1, 0), Workload(3, 1, 1), Workload(2, 0, 2)}
=============================================================================
