---------------------------- MODULE AppliedPrefix ----------------------------
(***************************************************************************)
(* What a replica promises about its application, whatever crashes: the    *)
(* objects it holds are the outcome of a prefix of the committed log, and  *)
(* the prefix only grows.  The comment on storage.ApplyReplicated states   *)
(* it for one application: "the commit marker covers both graph            *)
(* publication and the applied log position".                              *)
(***************************************************************************)
EXTENDS CommandLog

VARIABLES log,      \* committed commands
          index,    \* applied position
          content   \* objects of the application

Init == log = <<>> /\ index = 0 /\ content = [k \in Keys |-> Absent]

Extend == \E c \in Commands : /\ Len(log) < MaxLog
                              /\ log' = Append(log, c)
                              /\ UNCHANGED <<index, content>>

Advance == \E n \in index + 1 .. Len(log) : /\ index' = n
                                            /\ content' = Outcome(log, n)
                                            /\ UNCHANGED log

Next == Extend \/ Advance

Spec == Init /\ [][Next]_<<log, index, content>>
=============================================================================
