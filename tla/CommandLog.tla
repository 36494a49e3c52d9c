----------------------------- MODULE CommandLog -----------------------------
(***************************************************************************)
(* The committed commands of a Raft group and what a prefix of them does   *)
(* to the objects of a data directory.                                     *)
(*                                                                         *)
(* A command writes, deletes or keeps each object; an object it writes     *)
(* carries the command's log position.  A command that the application     *)
(* rejects (a 4xx response of the replicated handler) changes nothing.     *)
(***************************************************************************)
EXTENDS Integers, Sequences

CONSTANTS Keys,      \* objects of the data directory
          Commands,  \* commands the log may hold
          MaxLog     \* bound on the length of the log

Absent == 0

\* An accepted write, a direct commit, and everything that is a barrier.  flush
\* and restore_part share a journal the way accept does.
Classes == {"accept", "commit", "control"}
CommandType == [class : Classes, op : [Keys -> {"keep", "put", "del"}], rejects : BOOLEAN]

\* The objects command i of log l changes, and to what.
Touches(l, i) == {k \in Keys : l[i].op[k] # "keep"}
Written(l, i) == [k \in Keys |-> IF l[i].op[k] = "put" THEN i ELSE Absent]

\* The commands up to n that change object k, and the last of them.
Writers(l, n, k) == {i \in 1..n : ~ l[i].rejects /\ k \in Touches(l, i)}
LastWriter(l, n, k) == {i \in Writers(l, n, k) : \A j \in Writers(l, n, k) : j <= i}

\* The objects after the first n commands of log l.
Outcome(l, n) ==
    [k \in Keys |-> IF LastWriter(l, n, k) = {} THEN Absent
                    ELSE Written(l, CHOOSE i \in LastWriter(l, n, k) : TRUE)[k]]
=============================================================================
