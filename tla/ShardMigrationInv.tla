-------------------------- MODULE ShardMigrationInv --------------------------
(***************************************************************************)
(* The inductive invariants behind ActiveIsPlaced, NoLostWrite and         *)
(* UnregisteredIsEmpty.  MCShardMigration makes them available to TLC;     *)
(* ShardMigrationProofs and ShardWriteProofs prove them.                   *)
(***************************************************************************)
EXTENDS ShardMigration

\* Only issued moves have steps, and the placement names an issued move
\* exactly while it is in one of the phases of a move.
Issued ==
    /\ \A i \in MoveIds : done[i] # {} => move[i] # NoMove
    /\ place.id # None => move[place.id] # NoMove
    /\ place.phase = "none" <=> place.id = None
    /\ place.state = "none" <=> place.shard = None
    /\ place.state = "none" => place = Unplaced /\ home = None
    /\ place.state # "none" => place.epoch > 0

\* The phase says which end of its move the placement names, and at which epoch.
PhaseMatchesMove ==
    /\ place.phase \in {"copy", "cancel"} =>
         /\ move[place.id].source = place.shard
         /\ move[place.id].epoch = place.epoch + 1
    /\ place.phase \in {"activate", "cleanup"} =>
         /\ move[place.id].target = place.shard
         /\ move[place.id].epoch = place.epoch
    /\ place.phase = "discard" =>
         /\ move[place.id].source = place.shard
         /\ move[place.id].epoch = place.epoch

\* A move is either cancelled or cut over, in the order of the phases.
StepsInOrder ==
    \A i \in MoveIds :
        /\ "cancel" \in done[i] /\ place.id = i => place.phase \in {"cancel", "discard"}
        /\ "cancel" \in done[i] /\ "thaw" \notin done[i] => place.id = i /\ place.phase = "cancel"
        /\ "cutover" \in done[i] /\ place.id = i => place.phase \in {"activate", "cleanup"}
        /\ "cutover" \in done[i] /\ "activate" \notin done[i] => place.id = i /\ place.phase = "activate"
        /\ "activate" \in done[i] \/ "activated" \in done[i] => "cutover" \in done[i]
        /\ "thaw" \in done[i] \/ "thawed" \in done[i] => "cancel" \in done[i]
        /\ "reserve" \in done[i] \/ "install" \in done[i] => "freeze" \in done[i]

\* A shard that executed the last call of a move has left that move's epoch
\* behind, so a repetition of the call finds nothing to match.
StepsLeaveEpoch ==
    \A i \in MoveIds :
        /\ "thaw" \in done[i] => owner[move[i].source].epoch >= move[i].epoch
        /\ "activate" \in done[i] =>
             \/ owner[move[i].target].epoch > move[i].epoch
             \/ /\ owner[move[i].target].epoch = move[i].epoch
                /\ owner[move[i].target].state \notin {"importing", "installed"}

\* Until the first shard has answered "own", the assignment stands.
HomeIsAssigned ==
    /\ home # None /\ owner[home].epoch = 0 => place.state = "assigning"
    /\ place.state = "assigning" => place.shard = home /\ place.epoch = 1 /\ place.id = None

ActiveHasEpoch ==
    \A s \in Shards : owner[s].state = "active" =>
        /\ place.shard = s
        /\ \/ owner[s].epoch = place.epoch
           \/ place.phase = "cancel" /\ owner[s].epoch = place.epoch + 1

\* The source stays frozen for as long as the move may still be cut over.
CopyKeepsSourceFrozen ==
    \A i \in MoveIds : "freeze" \in done[i] /\ matchesMove(i, "copy") =>
        match(move[i].source, i, move[i].epoch - 1) /\ owner[move[i].source].state = "frozen"

OwnershipInv ==
    /\ Issued /\ PhaseMatchesMove /\ StepsInOrder /\ StepsLeaveEpoch
    /\ HomeIsAssigned /\ ActiveHasEpoch /\ CopyKeepsSourceFrozen

\* Every move but the one the placement is still in has an epoch the
\* placement has reached.
MovesBelowPlace ==
    \A i \in MoveIds : move[i] # NoMove =>
        move[i].epoch <= place.epoch \/ (place.id = i /\ place.phase \in {"copy", "cancel"})

\* The placed shard is never one whose copy a late call could replace or purge.
PlacedKeepsCopy ==
    place.shard # None =>
        \/ owner[place.shard].state = "none" /\ place.state = "assigning"
        \/ owner[place.shard].state = "active"
        \/ /\ owner[place.shard].state = "frozen" /\ match(place.shard, place.id, place.epoch)
           /\ place.phase \in {"copy", "cancel"}
        \/ /\ owner[place.shard].state = "installed" /\ match(place.shard, place.id, place.epoch)
           /\ place.phase = "activate"

\* Nothing is in flight at a frozen source.
FrozenIsDrained == \A s \in Shards : owner[s].state = "frozen" => accepted[s] = {}

\* While a move may be cut over, its exports and its installed copy are complete.
CopyIsComplete ==
    \A i \in MoveIds : matchesMove(i, "copy") =>
        /\ \A c \in SUBSET Writes : <<i, c>> \in exported => acked \subseteq c
        /\ "install" \in done[i] =>
             /\ match(move[i].target, i, move[i].epoch)
             /\ owner[move[i].target].state = "installed"
             /\ acked \subseteq data[move[i].target]

\* What the counters and histories imply about each other.
Bookkeeping ==
    /\ \A i \in MoveIds, c \in SUBSET Writes : <<i, c>> \in exported => "reserve" \in done[i]
    /\ \A i \in MoveIds : "thawed" \in done[i] /\ place.id = i => place.phase = "discard"
    /\ \A s \in Shards : owner[s].epoch = 0 <=> owner[s].state = "none"
    /\ place.state = "none" => acked = {} /\ \A s \in Shards : owner[s].state = "none"

WriteInv ==
    /\ NoLostWrite /\ MovesBelowPlace /\ PlacedKeepsCopy /\ FrozenIsDrained
    /\ CopyIsComplete /\ Bookkeeping
\* The placement and both ends of an unfinished move stay registered.
RegisteredEnds ==
    /\ place.shard # None => registry[place.shard] # "absent"
    /\ place.id # None =>
         /\ registry[move[place.id].source] # "absent"
         /\ registry[move[place.id].target] # "absent"

\* Which call a step follows, as far as the end of a move depends on it.
LateStepsInOrder ==
    \A i \in MoveIds :
        /\ "retire" \in done[i] => "activated" \in done[i]
        /\ "activated" \in done[i] => "activate" \in done[i]
        /\ "discard" \in done[i] => "thawed" \in done[i]
        /\ "thawed" \in done[i] => "thaw" \in done[i]
        /\ "reserve" \in done[i] => owner[move[i].target].epoch >= move[i].epoch

\* A frozen source and an installed target belong to the move in progress.
\* A target being filled does too, once there is something to fill it with:
\* only a reservation repeated after its move ended can be left behind, and
\* it stays empty.
HeldIsCurrent ==
    /\ \A s \in Shards : owner[s].state = "frozen" =>
         /\ place.id # None /\ owner[s].move = place.id
         /\ s = move[place.id].source /\ owner[s].epoch + 1 = move[place.id].epoch
    /\ \A s \in Shards : owner[s].state = "installed" =>
         /\ place.id # None /\ owner[s].move = place.id
         /\ s = move[place.id].target /\ owner[s].epoch = move[place.id].epoch
    /\ \A i \in MoveIds, c \in SUBSET Writes :
         /\ <<i, c>> \in exported /\ match(move[i].target, i, move[i].epoch)
         /\ owner[move[i].target].state = "importing"
         => place.id = i

\* A finished call of a move's last phase has released the shard it is about.
EndsReleased ==
    \A i \in MoveIds :
        /\ "retire" \in done[i] => ~ (owner[move[i].source].state = "frozen" /\ owner[move[i].source].move = i)
        /\ "discard" \in done[i] => ~ (match(move[i].target, i, move[i].epoch)
                                      /\ owner[move[i].target].state = "installed")
        /\ \A c \in SUBSET Writes : "discard" \in done[i] /\ <<i, c>> \in exported =>
             ~ (match(move[i].target, i, move[i].epoch) /\ owner[move[i].target].state = "importing")

\* Only a serving, frozen or filled shard holds anything.
EmptyUnlessHeld ==
    \A s \in Shards : owner[s].state \in {"none", "importing", "retired"} =>
        data[s] = {} /\ accepted[s] = {}

RegistryInv ==
    /\ RegisteredEnds /\ LateStepsInOrder /\ HeldIsCurrent /\ EndsReleased /\ EmptyUnlessHeld
=============================================================================
