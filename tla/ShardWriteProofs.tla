-------------------------- MODULE ShardWriteProofs --------------------------
(***************************************************************************)
(* No acknowledged write is lost by a migration, routing epochs fence, and *)
(* a shard outside the registry holds nothing, for any shards, moves,      *)
(* writes and chunk counts.  Rests on the ownership invariant proved in    *)
(* ShardMigrationProofs.                                                   *)
(***************************************************************************)
EXTENDS ShardMigrationProofs

\* Content of the shards and of the exports, and the acknowledged writes.
ContentSame == UNCHANGED <<data, accepted, acked>>

LEMMA ContentTyped ==
    ASSUME TypeInv
    PROVE  /\ data \in [Shards -> SUBSET Writes] /\ accepted \in [Shards -> SUBSET Writes]
           /\ exported \subseteq MoveIds \X SUBSET Writes /\ acked \subseteq Writes
           /\ place.shard \in Shards \cup {None} /\ None \notin Shards /\ None \notin MoveIds
           /\ place.id \in MoveIds \cup {None}
BY ConstantsAssumption DEF TypeInv, TypeOK, Placement

\* An issued move exists only after the assignment is recorded.
LEMMA NotAssigning ==
    ASSUME TypeInv, OwnershipInv, WriteInv, NEW i \in MoveIds, move[i] # NoMove
    PROVE  place.state \notin {"none", "assigning"} /\ place.shard \in Shards
<1>1. move[i].epoch \in Nat \ {0, 1} /\ place.epoch \in Nat
    BY MoveTyped, AllTyped DEF TypeInv
<1>2. place.state # "assigning"
    BY <1>1, ContentTyped DEF WriteInv, MovesBelowPlace, OwnershipInv, HomeIsAssigned
<1>3. place.state # "none"
    BY <1>1, ContentTyped DEF WriteInv, MovesBelowPlace, OwnershipInv, Issued, Unplaced
<1>4. QED
    BY <1>2, <1>3, ContentTyped DEF OwnershipInv, Issued

LEMMA WriteShard ==
    ASSUME TypeInv, OwnershipInv, WriteInv, NEW i \in MoveIds, ShardStep(i)
    PROVE  WriteInv'
<1>1. /\ NoLostWrite /\ MovesBelowPlace /\ PlacedKeepsCopy /\ FrozenIsDrained /\ CopyIsComplete /\ Bookkeeping
      /\ PhaseMatchesMove /\ StepsInOrder /\ StepsLeaveEpoch /\ HomeIsAssigned /\ ActiveHasEpoch
      /\ CopyKeepsSourceFrozen
    BY DEF OwnershipInv, WriteInv
<1>2. /\ move[i] # NoMove /\ move[i].source \in Shards /\ move[i].target \in Shards
      /\ move[i].epoch \in Nat \ {0, 1}
    BY CallsIssued, MoveTyped DEF TypeInv
<1>3. place.state \notin {"none", "assigning"} /\ place.shard \in Shards
    BY <1>2, NotAssigning
<1> USE <1>1, <1>2, <1>3, AllTyped, ContentTyped
<1> USE DEF Updates, Records, CatalogSame, ContentSame, match
<1>4. CASE Freeze(i)
  <2>1. ContentSame /\ UNCHANGED exported /\ accepted[move[i].source] = {}
    BY <1>4 DEF Freeze, tenantMigrationReady, clientVars
  <2>2. MovesBelowPlace' /\ Bookkeeping'
    BY <1>4, <2>1, FreezeEffect DEF MovesBelowPlace, Bookkeeping
  <2>3. PlacedKeepsCopy'
    BY <1>4, <2>1, FreezeEffect DEF PlacedKeepsCopy, ActiveHasEpoch, MovesBelowPlace, PhaseMatchesMove, StepsInOrder, Bookkeeping
  <2>4. NoLostWrite'
    BY <1>4, <2>1, FreezeEffect DEF NoLostWrite, PlacedKeepsCopy, StepsInOrder, Bookkeeping
  <2>5. FrozenIsDrained'
    BY <1>4, <2>1, FreezeEffect DEF FrozenIsDrained
  <2>6. CopyIsComplete'
    BY <1>4, <2>1, FreezeEffect DEF CopyIsComplete, StepsInOrder, Bookkeeping, matchesMove
  <2>7. QED
    BY <2>2, <2>3, <2>4, <2>5, <2>6 DEF WriteInv
<1>5. CASE Reserve(i)
  <2>1. ContentSame /\ UNCHANGED exported
    BY <1>5 DEF Reserve, clientVars
  <2>2. MovesBelowPlace' /\ Bookkeeping'
    BY <1>5, <2>1, ReserveEffect DEF MovesBelowPlace, Bookkeeping
  <2>3. PlacedKeepsCopy'
    BY <1>5, <2>1, ReserveEffect DEF PlacedKeepsCopy, ActiveHasEpoch, MovesBelowPlace, PhaseMatchesMove, StepsInOrder, Bookkeeping
  <2>4. NoLostWrite'
    BY <1>5, <2>1, ReserveEffect DEF NoLostWrite, PlacedKeepsCopy, StepsInOrder, Bookkeeping
  <2>5. FrozenIsDrained'
    BY <1>5, <2>1, ReserveEffect DEF FrozenIsDrained
  <2>6. CopyIsComplete'
    BY <1>5, <2>1, ReserveEffect DEF CopyIsComplete, StepsInOrder, Bookkeeping, matchesMove
  <2>7. QED
    BY <2>2, <2>3, <2>4, <2>5, <2>6 DEF WriteInv
<1>6. ASSUME NEW c \in SUBSET Writes, Stage(i, c) PROVE WriteInv'
  <2>1. ContentSame /\ UNCHANGED exported
    BY <1>6 DEF Stage, clientVars
  <2>2. MovesBelowPlace' /\ Bookkeeping'
    BY <1>6, <2>1, StageEffect DEF MovesBelowPlace, Bookkeeping
  <2>3. PlacedKeepsCopy'
    BY <1>6, <2>1, StageEffect DEF PlacedKeepsCopy, ActiveHasEpoch, MovesBelowPlace, PhaseMatchesMove, StepsInOrder, Bookkeeping
  <2>4. NoLostWrite'
    BY <1>6, <2>1, StageEffect DEF NoLostWrite, PlacedKeepsCopy, StepsInOrder, Bookkeeping
  <2>5. FrozenIsDrained'
    BY <1>6, <2>1, StageEffect DEF FrozenIsDrained
  <2>6. CopyIsComplete'
    BY <1>6, <2>1, StageEffect DEF CopyIsComplete, StepsInOrder, Bookkeeping, matchesMove
  <2>7. QED
    BY <2>2, <2>3, <2>4, <2>5, <2>6 DEF WriteInv
<1>7. ASSUME NEW c \in SUBSET Writes, Install(i, c) PROVE WriteInv'
  <2>1. UNCHANGED <<accepted, acked, exported>> /\ data' = [data EXCEPT ![move[i].target] = c] /\ <<i, c>> \in exported
    BY <1>7 DEF Install, clientVars
  <2>2. MovesBelowPlace' /\ Bookkeeping'
    BY <1>7, <2>1, InstallEffect DEF MovesBelowPlace, Bookkeeping
  <2>3. PlacedKeepsCopy'
    BY <1>7, <2>1, InstallEffect DEF PlacedKeepsCopy, ActiveHasEpoch, MovesBelowPlace, PhaseMatchesMove, StepsInOrder, Bookkeeping
  <2>4. NoLostWrite'
    BY <1>7, <2>1, InstallEffect DEF NoLostWrite, PlacedKeepsCopy, StepsInOrder, Bookkeeping
  <2>5. FrozenIsDrained'
    BY <1>7, <2>1, InstallEffect DEF FrozenIsDrained
  <2>6. CopyIsComplete'
    BY <1>7, <2>1, InstallEffect DEF CopyIsComplete, StepsInOrder, Bookkeeping, matchesMove
  <2>7. QED
    BY <2>2, <2>3, <2>4, <2>5, <2>6 DEF WriteInv
<1>8. CASE Activate(i)
  <2>1. ContentSame /\ UNCHANGED exported
    BY <1>8 DEF Activate, clientVars
  <2>2. MovesBelowPlace' /\ Bookkeeping'
    BY <1>8, <2>1, ActivateEffect DEF MovesBelowPlace, Bookkeeping
  <2>3. PlacedKeepsCopy'
    BY <1>8, <2>1, ActivateEffect DEF PlacedKeepsCopy, ActiveHasEpoch, MovesBelowPlace, PhaseMatchesMove, StepsInOrder, Bookkeeping
  <2>4. NoLostWrite'
    BY <1>8, <2>1, ActivateEffect DEF NoLostWrite, PlacedKeepsCopy, StepsInOrder, Bookkeeping
  <2>5. FrozenIsDrained'
    BY <1>8, <2>1, ActivateEffect DEF FrozenIsDrained
  <2>6. CopyIsComplete'
    BY <1>8, <2>1, ActivateEffect DEF CopyIsComplete, StepsInOrder, Bookkeeping, matchesMove
  <2>7. QED
    BY <2>2, <2>3, <2>4, <2>5, <2>6 DEF WriteInv
<1>9. CASE Retire(i)
  <2>1. /\ UNCHANGED <<acked, exported>> /\ data' = [data EXCEPT ![move[i].source] = {}]
        /\ accepted' = [accepted EXCEPT ![move[i].source] = {}]
    BY <1>9 DEF Retire, clientVars
  <2>2. MovesBelowPlace' /\ Bookkeeping'
    BY <1>9, <2>1, RetireEffect DEF MovesBelowPlace, Bookkeeping
  <2>3. PlacedKeepsCopy'
    BY <1>9, <2>1, RetireEffect DEF PlacedKeepsCopy, ActiveHasEpoch, MovesBelowPlace, PhaseMatchesMove, StepsInOrder, Bookkeeping
  <2>4. NoLostWrite'
    BY <1>9, <2>1, RetireEffect DEF NoLostWrite, PlacedKeepsCopy, StepsInOrder, Bookkeeping
  <2>5. FrozenIsDrained'
    BY <1>9, <2>1, RetireEffect DEF FrozenIsDrained
  <2>6. CopyIsComplete'
    BY <1>9, <2>1, RetireEffect DEF CopyIsComplete, StepsInOrder, Bookkeeping, matchesMove
  <2>7. QED
    BY <2>2, <2>3, <2>4, <2>5, <2>6 DEF WriteInv
<1>10. CASE Thaw(i)
  <2>1. ContentSame /\ UNCHANGED exported
    BY <1>10 DEF Thaw, clientVars
  <2>2. MovesBelowPlace' /\ Bookkeeping'
    BY <1>10, <2>1, ThawEffect DEF MovesBelowPlace, Bookkeeping
  <2>3. PlacedKeepsCopy'
    BY <1>10, <2>1, ThawEffect DEF PlacedKeepsCopy, ActiveHasEpoch, MovesBelowPlace, PhaseMatchesMove, StepsInOrder, Bookkeeping
  <2>4. NoLostWrite'
    BY <1>10, <2>1, ThawEffect DEF NoLostWrite, PlacedKeepsCopy, StepsInOrder, Bookkeeping
  <2>5. FrozenIsDrained'
    BY <1>10, <2>1, ThawEffect DEF FrozenIsDrained
  <2>6. CopyIsComplete'
    BY <1>10, <2>1, ThawEffect DEF CopyIsComplete, StepsInOrder, Bookkeeping, matchesMove
  <2>7. QED
    BY <2>2, <2>3, <2>4, <2>5, <2>6 DEF WriteInv
<1>11. CASE Discard(i)
  <2>1. /\ UNCHANGED <<acked, exported>>
        /\ \A x \in Shards \ {move[i].target} : data'[x] = data[x] /\ accepted'[x] = accepted[x]
        /\ accepted'[move[i].target] \in {accepted[move[i].target], {}}
    BY <1>11 DEF Discard, clientVars
  <2>2. MovesBelowPlace' /\ Bookkeeping'
    BY <1>11, <2>1, DiscardEffect DEF MovesBelowPlace, Bookkeeping
  <2>3. PlacedKeepsCopy'
    BY <1>11, <2>1, DiscardEffect DEF PlacedKeepsCopy, ActiveHasEpoch, MovesBelowPlace, PhaseMatchesMove, StepsInOrder, Bookkeeping
  <2>4. NoLostWrite'
    BY <1>11, <2>1, DiscardEffect DEF NoLostWrite, PlacedKeepsCopy, StepsInOrder, Bookkeeping
  <2>5. FrozenIsDrained'
    BY <1>11, <2>1, DiscardEffect DEF FrozenIsDrained
  <2>6. CopyIsComplete'
    BY <1>11, <2>1, DiscardEffect DEF CopyIsComplete, StepsInOrder, Bookkeeping, matchesMove
  <2>7. QED
    BY <2>2, <2>3, <2>4, <2>5, <2>6 DEF WriteInv
<1>12. CASE DiscardNothing(i)
  <2>1. ContentSame /\ UNCHANGED exported
    BY <1>12 DEF DiscardNothing, shardVars, clientVars
  <2>2. MovesBelowPlace' /\ Bookkeeping'
    BY <1>12, <2>1, DiscardNothingEffect DEF MovesBelowPlace, Bookkeeping
  <2>3. PlacedKeepsCopy'
    BY <1>12, <2>1, DiscardNothingEffect DEF PlacedKeepsCopy, ActiveHasEpoch, MovesBelowPlace, PhaseMatchesMove, StepsInOrder, Bookkeeping
  <2>4. NoLostWrite'
    BY <1>12, <2>1, DiscardNothingEffect DEF NoLostWrite, PlacedKeepsCopy, StepsInOrder, Bookkeeping
  <2>5. FrozenIsDrained'
    BY <1>12, <2>1, DiscardNothingEffect DEF FrozenIsDrained
  <2>6. CopyIsComplete'
    BY <1>12, <2>1, DiscardNothingEffect DEF CopyIsComplete, StepsInOrder, Bookkeeping, matchesMove
  <2>7. QED
    BY <2>2, <2>3, <2>4, <2>5, <2>6 DEF WriteInv
<1>13. CASE Export(i)
  <2>1. /\ ContentSame /\ exported' = exported \cup {<<i, data[move[i].source]>>} /\ "reserve" \in done[i]
        /\ owner[move[i].source].state = "frozen"
    BY <1>13 DEF Export, shardVars, clientVars
  <2>2. MovesBelowPlace' /\ Bookkeeping' /\ PlacedKeepsCopy' /\ NoLostWrite' /\ FrozenIsDrained'
    BY <1>13, <2>1, ExportEffect DEF MovesBelowPlace, Bookkeeping, PlacedKeepsCopy, NoLostWrite, FrozenIsDrained
  <2>3. matchesMove(i, "copy") => acked \subseteq data[move[i].source]
    BY <2>1 DEF matchesMove, PhaseMatchesMove, NoLostWrite, FrozenIsDrained
  <2>4. CopyIsComplete'
    BY <1>13, <2>1, <2>3, ExportEffect DEF CopyIsComplete, matchesMove
  <2>5. QED
    BY <2>2, <2>4 DEF WriteInv
<1>14. QED
    BY <1>4, <1>5, <1>6, <1>7, <1>8, <1>9, <1>10, <1>11, <1>12, <1>13 DEF ShardStep

LEMMA WriteOwn ==
    ASSUME TypeInv, OwnershipInv, WriteInv, Own
    PROVE  WriteInv'
<1>1. /\ NoLostWrite /\ MovesBelowPlace /\ PlacedKeepsCopy /\ FrozenIsDrained /\ CopyIsComplete /\ Bookkeeping
      /\ HomeIsAssigned /\ Issued
    BY DEF OwnershipInv, WriteInv
<1>2. ContentSame /\ UNCHANGED exported
    BY DEF Own, ContentSame, clientVars
<1> USE <1>1, <1>2, AllTyped, ContentTyped, OwnEffect
<1> USE DEF Updates, CatalogSame, ContentSame, match
<1>3. MovesBelowPlace' /\ NoLostWrite' /\ FrozenIsDrained'
    BY DEF MovesBelowPlace, NoLostWrite, FrozenIsDrained
<1>4. Bookkeeping'
    BY DEF Bookkeeping, Issued
<1>5. PlacedKeepsCopy'
    BY DEF PlacedKeepsCopy
<1>6. CopyIsComplete'
    BY DEF CopyIsComplete, Bookkeeping, matchesMove
<1>7. QED
    BY <1>3, <1>4, <1>5, <1>6 DEF WriteInv

LEMMA WriteCatalog ==
    ASSUME TypeInv, OwnershipInv, WriteInv, CatalogNext
    PROVE  WriteInv'
<1>1. /\ NoLostWrite /\ MovesBelowPlace /\ PlacedKeepsCopy /\ FrozenIsDrained /\ CopyIsComplete /\ Bookkeeping
      /\ PhaseMatchesMove /\ StepsInOrder /\ StepsLeaveEpoch /\ HomeIsAssigned /\ ActiveHasEpoch
      /\ CopyKeepsSourceFrozen /\ Issued
    BY DEF OwnershipInv, WriteInv
<1>2. place \in Placement /\ done \in [MoveIds -> SUBSET Steps]
    BY DEF TypeInv, TypeOK
<1>3. ContentSame /\ UNCHANGED <<owner, exported>>
    BY DEF CatalogNext, RegistryStep, RegisterShard, DrainShard, ResumeShard, UnregisterShard, Assign,
       StartMove, CatalogStep, Cutover, Activated, Cleaned, Thawed, Cancelled, Assigned, Cancel,
       shardVars, clientVars, ContentSame
<1>0. \A j \in MoveIds : move[j] # NoMove => move[j].epoch \in Nat \ {0, 1}
    BY DEF TypeInv, TypeOK
<1> USE <1>1, <1>2, <1>3, AllTyped, ContentTyped
<1> USE DEF Places, Records, ContentSame, match
<1>4. FrozenIsDrained'
    BY DEF FrozenIsDrained
<1>5. ASSUME NEW x \in Shards, RegistryStep(x) PROVE WriteInv'
  <2>1. CatalogSame /\ done' = done
    BY <1>5 DEF RegistryStep, RegisterShard, DrainShard, ResumeShard, UnregisterShard, CatalogSame
  <2>2. QED
    BY <1>4, <2>1 DEF WriteInv, CatalogSame, NoLostWrite, MovesBelowPlace, PlacedKeepsCopy, CopyIsComplete,
       Bookkeeping, matchesMove
<1>6. ASSUME NEW x \in Shards, Assign(x) PROVE WriteInv'
  <2>1. Places(x, 1, "assigning", None, "none") /\ UNCHANGED <<move, done>> /\ place.state = "none"
        /\ place.id = None /\ place.epoch = 0
    BY <1>6 DEF Assign, Unplaced
  <2>2. MovesBelowPlace'
    BY <1>0, <2>1 DEF MovesBelowPlace
  <2>3. CopyIsComplete' /\ Bookkeeping'
    BY <2>1 DEF CopyIsComplete, Bookkeeping, matchesMove
  <2>4. PlacedKeepsCopy' /\ NoLostWrite'
    BY <2>1 DEF PlacedKeepsCopy, NoLostWrite, Bookkeeping
  <2>5. QED
    BY <1>4, <2>2, <2>3, <2>4 DEF WriteInv
<1>7. ASSUME NEW i \in MoveIds, NEW x \in Shards, StartMove(i, x) PROVE WriteInv'
  <2>1. /\ Places(place.shard, place.epoch, "moving", i, "copy") /\ UNCHANGED done
        /\ move'[i].source = place.shard /\ move'[i].target = x /\ move'[i].epoch = place.epoch + 1
        /\ \A j \in MoveIds \ {i} : move'[j] = move[j]
        /\ place.state = "active" /\ place.id = None /\ done[i] = {} /\ place.phase = "none"
    BY <1>7 DEF StartMove, nextEpoch, TypeInv, TypeOK, Issued, Placement
  <2>2. MovesBelowPlace'
    BY <2>1 DEF MovesBelowPlace
  <2>3. CopyIsComplete'
    BY <2>1 DEF CopyIsComplete, Bookkeeping, matchesMove
  <2>4. Bookkeeping'
    BY <2>1 DEF Bookkeeping
  <2>5. PlacedKeepsCopy' /\ NoLostWrite'
    BY <2>1 DEF PlacedKeepsCopy, NoLostWrite
  <2>6. QED
    BY <1>4, <2>2, <2>3, <2>4, <2>5 DEF WriteInv
<1>8. CASE Assigned
  <2>1. /\ Places(place.shard, place.epoch, "active", place.id, place.phase) /\ UNCHANGED <<move, done>>
        /\ place.state = "assigning" /\ owner[home].epoch > 0 /\ home \in Shards
    BY <1>8 DEF Assigned, Placement
  <2>2. MovesBelowPlace' /\ CopyIsComplete' /\ Bookkeeping' /\ NoLostWrite'
    BY <2>1 DEF MovesBelowPlace, CopyIsComplete, Bookkeeping, NoLostWrite, matchesMove
  <2>3. PlacedKeepsCopy'
    BY <2>1 DEF PlacedKeepsCopy, HomeIsAssigned, Bookkeeping
  <2>4. QED
    BY <1>4, <2>2, <2>3 DEF WriteInv
<1>9. CASE Cancel
  <2>1. /\ place.id \in MoveIds /\ place.phase = "copy" /\ place.state # "none"
        /\ Places(place.shard, place.epoch, "cancelling", place.id, "cancel") /\ UNCHANGED move
        /\ Records(place.id, {"cancel"})
    BY <1>9 DEF Cancel, Placement, Issued, Unplaced
  <2>2. MovesBelowPlace' /\ CopyIsComplete' /\ NoLostWrite'
    BY <2>1 DEF MovesBelowPlace, CopyIsComplete, NoLostWrite, matchesMove
  <2>3. Bookkeeping'
    BY <2>1 DEF Bookkeeping
  <2>4. PlacedKeepsCopy'
    BY <2>1 DEF PlacedKeepsCopy, HomeIsAssigned
  <2>5. QED
    BY <1>4, <2>2, <2>3, <2>4 DEF WriteInv
<1>10. ASSUME NEW i \in MoveIds, Cutover(i) PROVE WriteInv'
  <2>1. /\ "install" \in done[i] /\ place.id = i /\ place.phase = "copy"
        /\ Places(move[i].target, move[i].epoch, "activating", i, "activate") /\ UNCHANGED move
        /\ Records(i, {"cutover"})
    BY <1>10 DEF Cutover, matchesMove, Placement
  <2>2. MovesBelowPlace'
    BY <1>0, <2>1 DEF MovesBelowPlace, PhaseMatchesMove
  <2>3. CopyIsComplete'
    BY <2>1 DEF CopyIsComplete, matchesMove
  <2>4. Bookkeeping'
    BY <2>1 DEF Bookkeeping
  <2>5. PlacedKeepsCopy' /\ NoLostWrite'
    BY <2>1 DEF PlacedKeepsCopy, NoLostWrite, CopyIsComplete, matchesMove
  <2>6. QED
    BY <1>4, <2>2, <2>3, <2>4, <2>5 DEF WriteInv
<1>11. ASSUME NEW i \in MoveIds, Activated(i) PROVE WriteInv'
  <2>1. /\ "activate" \in done[i] /\ place.id = i /\ place.phase = "activate"
        /\ Places(place.shard, place.epoch, "active", i, "cleanup") /\ UNCHANGED move
        /\ Records(i, {"activated"})
    BY <1>11 DEF Activated, matchesMove, Placement
  <2>2. MovesBelowPlace' /\ CopyIsComplete' /\ NoLostWrite'
    BY <2>1 DEF MovesBelowPlace, PhaseMatchesMove, CopyIsComplete, NoLostWrite, matchesMove
  <2>3. Bookkeeping'
    BY <2>1 DEF Bookkeeping
  <2>4. PlacedKeepsCopy'
    BY <2>1 DEF PlacedKeepsCopy, StepsLeaveEpoch, PhaseMatchesMove, HomeIsAssigned
  <2>5. QED
    BY <1>4, <2>2, <2>3, <2>4 DEF WriteInv
<1>12. ASSUME NEW i \in MoveIds, Cleaned(i) PROVE WriteInv'
  <2>1. /\ place.id = i /\ place.phase = "cleanup"
        /\ Places(place.shard, place.epoch, place.state, None, "none") /\ UNCHANGED <<move, done>>
    BY <1>12 DEF Cleaned, matchesMove, Placement
  <2>2. MovesBelowPlace' /\ CopyIsComplete' /\ NoLostWrite' /\ Bookkeeping'
    BY <2>1 DEF MovesBelowPlace, CopyIsComplete, NoLostWrite, Bookkeeping, matchesMove
  <2>3. PlacedKeepsCopy'
    BY <2>1 DEF PlacedKeepsCopy
  <2>4. QED
    BY <1>4, <2>2, <2>3 DEF WriteInv
<1>13. ASSUME NEW i \in MoveIds, Thawed(i) PROVE WriteInv'
  <2>1. /\ "thaw" \in done[i] /\ place.id = i /\ place.phase = "cancel"
        /\ Places(place.shard, move[i].epoch, "active", i, "discard") /\ UNCHANGED move
        /\ Records(i, {"thawed"})
    BY <1>13 DEF Thawed, matchesMove, Placement
  <2>2. MovesBelowPlace'
    BY <1>0, <2>1 DEF MovesBelowPlace, PhaseMatchesMove
  <2>3. CopyIsComplete' /\ NoLostWrite'
    BY <2>1 DEF CopyIsComplete, NoLostWrite, matchesMove
  <2>4. Bookkeeping'
    BY <2>1 DEF Bookkeeping
  <2>5. PlacedKeepsCopy'
    BY <2>1 DEF PlacedKeepsCopy, StepsLeaveEpoch, PhaseMatchesMove, HomeIsAssigned
  <2>6. QED
    BY <1>4, <2>2, <2>3, <2>4, <2>5 DEF WriteInv
<1>14. ASSUME NEW i \in MoveIds, Cancelled(i) PROVE WriteInv'
  <2>1. /\ place.id = i /\ place.phase = "discard"
        /\ Places(place.shard, move[i].epoch, "active", None, "none") /\ UNCHANGED move
        /\ Records(i, {"cancelled"})
    BY <1>14 DEF Cancelled, matchesMove, Placement
  <2>2. MovesBelowPlace' /\ CopyIsComplete' /\ NoLostWrite'
    BY <2>1 DEF MovesBelowPlace, PhaseMatchesMove, CopyIsComplete, NoLostWrite, matchesMove
  <2>3. Bookkeeping'
    BY <2>1 DEF Bookkeeping
  <2>4. PlacedKeepsCopy'
    BY <2>1 DEF PlacedKeepsCopy, HomeIsAssigned
  <2>5. QED
    BY <1>4, <2>2, <2>3, <2>4 DEF WriteInv
<1>15. QED
    BY <1>5, <1>6, <1>7, <1>8, <1>9, <1>10, <1>11, <1>12, <1>13, <1>14 DEF CatalogNext, CatalogStep

LEMMA WriteClient ==
    ASSUME TypeInv, OwnershipInv, WriteInv, ClientStep
    PROVE  WriteInv'
<1>1. /\ NoLostWrite /\ MovesBelowPlace /\ PlacedKeepsCopy /\ FrozenIsDrained /\ CopyIsComplete /\ Bookkeeping
      /\ PhaseMatchesMove /\ StepsInOrder /\ ActiveHasEpoch /\ CopyKeepsSourceFrozen
    BY DEF OwnershipInv, WriteInv
<1>2. UNCHANGED <<place, move, done, owner, exported>>
    BY DEF ClientStep, Resolve, Commit, Accept, Flush, catalogVars, shardVars
<1> USE <1>1, <1>2, AllTyped, ContentTyped
<1> USE DEF match, matchesMove
<1>3. MovesBelowPlace' /\ PlacedKeepsCopy'
    BY DEF MovesBelowPlace, PlacedKeepsCopy
<1>4. CASE Resolve
    BY <1>3, <1>4 DEF WriteInv, Resolve, shardVars, NoLostWrite, FrozenIsDrained, CopyIsComplete, Bookkeeping
<1>5. ASSUME NEW w \in Writes, NEW r \in routes, Commit(w, r[1], r[2]) \/ Accept(w, r[1], r[2])
      PROVE  WriteInv'
  <2> DEFINE x == r[1]
  <2>1. x \in Shards /\ owner[x].state = "active" /\ acked' = acked \cup {w}
    BY <1>5 DEF Commit, Accept, checkOwnership, TypeInv, TypeOK
  <2>2. \/ data' = [data EXCEPT ![x] = @ \cup {w}] /\ accepted' = accepted
        \/ accepted' = [accepted EXCEPT ![x] = @ \cup {w}] /\ data' = data
    BY <1>5 DEF Commit, Accept
  <2> HIDE DEF x
  <2>3. place.shard = x
    BY <2>1 DEF ActiveHasEpoch
  <2>4. NoLostWrite' /\ FrozenIsDrained'
    BY <2>1, <2>2, <2>3 DEF NoLostWrite, FrozenIsDrained
  <2>5. \A j \in MoveIds : matchesMove(j, "copy") => "freeze" \notin done[j]
    BY <2>1, <2>3 DEF CopyKeepsSourceFrozen, PhaseMatchesMove
  <2>6. CopyIsComplete'
    BY <2>5 DEF CopyIsComplete, StepsInOrder, Bookkeeping
  <2>7. Bookkeeping'
    BY <2>1 DEF Bookkeeping
  <2>8. QED
    BY <1>3, <2>4, <2>6, <2>7 DEF WriteInv
<1>6. ASSUME NEW x \in Shards, NEW w \in Writes, Flush(x, w) PROVE WriteInv'
  <2>1. /\ acked' = acked /\ accepted' = [accepted EXCEPT ![x] = @ \ {w}]
        /\ data' = [data EXCEPT ![x] = @ \cup {w}] /\ w \in accepted[x]
    BY <1>6 DEF Flush, clientVars
  <2>2. NoLostWrite' /\ FrozenIsDrained'
    BY <2>1 DEF NoLostWrite, FrozenIsDrained
  <2>3. CopyIsComplete' /\ Bookkeeping'
    BY <2>1 DEF CopyIsComplete, Bookkeeping, StepsInOrder
  <2>4. QED
    BY <1>3, <2>2, <2>3 DEF WriteInv
<1>7. QED
    BY <1>4, <1>5, <1>6 DEF ClientStep

LEMMA WriteInit == Init => WriteInv
BY ConstantsAssumption DEF Init, WriteInv, NoLostWrite, MovesBelowPlace, PlacedKeepsCopy, FrozenIsDrained,
   CopyIsComplete, Bookkeeping, Unplaced, Unowned, matchesMove

LEMMA WriteNext == TypeInv /\ OwnershipInv /\ WriteInv /\ [Next]_vars => WriteInv'
<1>1. ASSUME WriteInv, UNCHANGED vars PROVE WriteInv'
    BY <1>1 DEF WriteInv, NoLostWrite, MovesBelowPlace, PlacedKeepsCopy, FrozenIsDrained,
       CopyIsComplete, Bookkeeping, matchesMove, match, vars, catalogVars, shardVars, clientVars
<1>2. QED
    BY <1>1, WriteShard, WriteOwn, WriteCatalog, WriteClient DEF Next

(***************************************************************************)
(* The shard on which the catalog places the tenant holds every            *)
(* acknowledged write, whatever moves and cancellations have happened.     *)
(***************************************************************************)
THEOREM WritesSurviveMoves == Spec => []NoLostWrite
<1>1. Init => TypeInv /\ OwnershipInv /\ WriteInv
    BY TypeInit, OwnershipInit, WriteInit
<1>2. TypeInv /\ OwnershipInv /\ WriteInv /\ [Next]_vars => (TypeInv /\ OwnershipInv /\ WriteInv)'
    BY TypeNext, OwnershipNext, WriteNext
<1>3. WriteInv => NoLostWrite
    BY DEF WriteInv
<1>4. QED
    BY <1>1, <1>2, <1>3, PTL DEF Spec

-----------------------------------------------------------------------------
\* What Fenced asks of one step.
FencedStep ==
    /\ place'.epoch >= place.epoch
    /\ \A s \in Shards :
         \/ owner'[s].epoch > owner[s].epoch
         \/ /\ owner'[s].epoch = owner[s].epoch
            /\ owner[s].state = "retired" => owner'[s].state = "retired"
            /\ owner[s].state = "frozen" => owner'[s].state # "active"

LEMMA FencedShard ==
    ASSUME TypeInv, OwnershipInv, WriteInv, NEW i \in MoveIds, ShardStep(i)
    PROVE  FencedStep
<1>1. /\ move[i].source \in Shards /\ move[i].target \in Shards /\ move[i].epoch \in Nat \ {0, 1}
    BY CallsIssued, MoveTyped DEF TypeInv
<1> USE <1>1, AllTyped
<1> USE DEF FencedStep, Updates, CatalogSame, match
<1>2. CASE Freeze(i)
    BY <1>2, FreezeEffect
<1>3. CASE Reserve(i)
    BY <1>3, ReserveEffect
<1>4. CASE Export(i)
    BY <1>4, ExportEffect
<1>5. ASSUME NEW c \in SUBSET Writes, Stage(i, c) PROVE FencedStep
    BY <1>5, StageEffect
<1>6. ASSUME NEW c \in SUBSET Writes, Install(i, c) PROVE FencedStep
    BY <1>6, InstallEffect
<1>7. CASE Activate(i)
    BY <1>7, ActivateEffect
<1>8. CASE Retire(i)
    BY <1>8, RetireEffect
<1>9. CASE Thaw(i)
    BY <1>9, ThawEffect
<1>10. CASE DiscardNothing(i)
    BY <1>10, DiscardNothingEffect
<1>11. CASE Discard(i)
    BY <1>11, DiscardEffect
<1>12. QED
    BY <1>2, <1>3, <1>4, <1>5, <1>6, <1>7, <1>8, <1>9, <1>10, <1>11 DEF ShardStep

LEMMA FencedCatalog ==
    ASSUME TypeInv, OwnershipInv, CatalogNext
    PROVE  FencedStep
<1>1. PhaseMatchesMove /\ place \in Placement
    BY DEF OwnershipInv, TypeInv, TypeOK
<1>2. owner' = owner
    BY DEF CatalogNext, RegistryStep, RegisterShard, DrainShard, ResumeShard, UnregisterShard, Assign,
       StartMove, CatalogStep, Cutover, Activated, Cleaned, Thawed, Cancelled, Assigned, Cancel, shardVars
<1>3. place'.epoch >= place.epoch
  <2>1. ASSUME NEW x \in Shards, RegistryStep(x) PROVE place' = place
    BY <2>1 DEF RegistryStep, RegisterShard, DrainShard, ResumeShard, UnregisterShard
  <2>2. ASSUME NEW x \in Shards, Assign(x) PROVE place'.epoch = 1 /\ place.epoch = 0
    BY <1>1, <2>2 DEF Assign, Unplaced
  <2>3. ASSUME NEW i \in MoveIds, NEW t \in Shards, StartMove(i, t) PROVE place'.epoch = place.epoch
    BY <1>1, <2>3 DEF StartMove, Placement
  <2>4. ASSUME NEW i \in MoveIds, Cutover(i) \/ Thawed(i)
        PROVE  place'.epoch = place.epoch + 1
    BY <1>1, <2>4 DEF Cutover, Thawed, matchesMove, PhaseMatchesMove, Placement
  <2>5. ASSUME NEW i \in MoveIds, Activated(i) \/ Cleaned(i) \/ Cancelled(i)
        PROVE  place'.epoch = place.epoch
    BY <1>1, <2>5 DEF Activated, Cleaned, Cancelled, matchesMove, PhaseMatchesMove, Placement
  <2>6. Assigned \/ Cancel => place'.epoch = place.epoch
    BY <1>1 DEF Assigned, Cancel, Placement
  <2>7. QED
    BY <2>1, <2>2, <2>3, <2>4, <2>5, <2>6, AllTyped DEF CatalogNext, CatalogStep
<1>4. QED
    BY <1>2, <1>3, AllTyped DEF FencedStep

LEMMA FencedNext == TypeInv /\ OwnershipInv /\ WriteInv /\ [Next]_vars => FencedStep
<1>1. ASSUME TypeInv, UNCHANGED <<place, owner>> PROVE FencedStep
    BY <1>1, AllTyped DEF FencedStep
<1>2. ASSUME TypeInv, ClientStep PROVE UNCHANGED <<place, owner>>
    BY <1>2 DEF ClientStep, Resolve, Commit, Accept, Flush, catalogVars, shardVars
<1>3. ASSUME TypeInv, Own PROVE FencedStep
    BY <1>3, OwnEffect, AllTyped DEF FencedStep, Updates, CatalogSame
<1>4. QED
    BY <1>1, <1>2, <1>3, FencedShard, FencedCatalog DEF Next, vars, catalogVars, shardVars

(***************************************************************************)
(* Routing epochs never go back, a retired record stays retired at its     *)
(* epoch, and a frozen one does not serve again under it: a request that   *)
(* checkOwnership refused for its epoch stays refused (applyOwnership).    *)
(***************************************************************************)
THEOREM Fencing == Spec => Fenced
<1>1. Init => TypeInv /\ OwnershipInv /\ WriteInv
    BY TypeInit, OwnershipInit, WriteInit
<1>2. TypeInv /\ OwnershipInv /\ WriteInv /\ [Next]_vars => (TypeInv /\ OwnershipInv /\ WriteInv)'
    BY TypeNext, OwnershipNext, WriteNext
<1>3. TypeInv /\ OwnershipInv /\ WriteInv /\ [Next]_vars => [FencedStep]_vars
    BY FencedNext
<1>4. Spec => [][FencedStep]_vars
    BY <1>1, <1>2, <1>3, PTL DEF Spec
<1>5. QED
    BY <1>4 DEF Fenced, FencedStep

-----------------------------------------------------------------------------
LEMMA RegistryShard ==
    ASSUME TypeInv, OwnershipInv, WriteInv, RegistryInv, NEW i \in MoveIds, ShardStep(i)
    PROVE  RegistryInv'
<1>1. /\ RegisteredEnds /\ LateStepsInOrder /\ HeldIsCurrent /\ EndsReleased /\ EmptyUnlessHeld
      /\ MovesBelowPlace /\ Bookkeeping /\ PhaseMatchesMove /\ StepsInOrder /\ StepsLeaveEpoch
      /\ ActiveHasEpoch
    BY DEF OwnershipInv, WriteInv, RegistryInv
<1>2. /\ move[i] # NoMove /\ move[i].source \in Shards /\ move[i].target \in Shards
      /\ move[i].epoch \in Nat \ {0, 1}
    BY CallsIssued, MoveTyped DEF TypeInv
<1>3. RegisteredEnds'
  <2>1. UNCHANGED <<registry, place, move>>
    BY DEF ShardStep, Freeze, Reserve, Export, Stage, Install, Activate, Retire, Thaw, DiscardNothing, Discard,
       catalogVars
  <2>2. QED
    BY <1>1, <2>1 DEF RegisteredEnds
<1> USE <1>1, <1>2, AllTyped, ContentTyped
<1> USE DEF Updates, Records, CatalogSame, match
<1>4. CASE Freeze(i)
  <2>1. UNCHANGED <<data, accepted, exported>>
    BY <1>4 DEF Freeze
  <2>2. LateStepsInOrder'
    BY <1>4, <2>1, FreezeEffect DEF LateStepsInOrder, HeldIsCurrent, EndsReleased, StepsInOrder, StepsLeaveEpoch, Bookkeeping, nothingToDiscard
  <2>3. HeldIsCurrent'
    BY <1>4, <2>1, FreezeEffect DEF HeldIsCurrent, LateStepsInOrder, ActiveHasEpoch, MovesBelowPlace, PhaseMatchesMove, Bookkeeping
  <2>4. EndsReleased'
    BY <1>4, <2>1, FreezeEffect DEF EndsReleased, HeldIsCurrent, LateStepsInOrder, StepsInOrder, ActiveHasEpoch, MovesBelowPlace, Bookkeeping, nothingToDiscard
  <2>5. EmptyUnlessHeld'
    BY <1>4, <2>1, FreezeEffect DEF EmptyUnlessHeld, HeldIsCurrent, Bookkeeping
  <2>6. QED
    BY <1>3, <2>2, <2>3, <2>4, <2>5 DEF RegistryInv
<1>5. CASE Reserve(i)
  <2>1. UNCHANGED <<data, accepted, exported>>
    BY <1>5 DEF Reserve
  <2>2. LateStepsInOrder'
    BY <1>5, <2>1, ReserveEffect DEF LateStepsInOrder, HeldIsCurrent, EndsReleased, StepsInOrder, StepsLeaveEpoch, Bookkeeping, nothingToDiscard
  <2>3. HeldIsCurrent'
    BY <1>5, <2>1, ReserveEffect DEF HeldIsCurrent, LateStepsInOrder, ActiveHasEpoch, MovesBelowPlace, PhaseMatchesMove, Bookkeeping
  <2>4. EndsReleased'
    BY <1>5, <2>1, ReserveEffect DEF EndsReleased, HeldIsCurrent, LateStepsInOrder, StepsInOrder, ActiveHasEpoch, MovesBelowPlace, Bookkeeping, nothingToDiscard
  <2>5. EmptyUnlessHeld'
    BY <1>5, <2>1, ReserveEffect DEF EmptyUnlessHeld, HeldIsCurrent, Bookkeeping
  <2>6. QED
    BY <1>3, <2>2, <2>3, <2>4, <2>5 DEF RegistryInv
<1>6. ASSUME NEW c \in SUBSET Writes, Stage(i, c) PROVE RegistryInv'
  <2>1. UNCHANGED <<data, accepted, exported>>
    BY <1>6 DEF Stage
  <2>2. LateStepsInOrder'
    BY <1>6, <2>1, StageEffect DEF LateStepsInOrder, HeldIsCurrent, EndsReleased, StepsInOrder, StepsLeaveEpoch, Bookkeeping, nothingToDiscard
  <2>3. HeldIsCurrent'
    BY <1>6, <2>1, StageEffect DEF HeldIsCurrent, LateStepsInOrder, ActiveHasEpoch, MovesBelowPlace, PhaseMatchesMove, Bookkeeping
  <2>4. EndsReleased'
    BY <1>6, <2>1, StageEffect DEF EndsReleased, HeldIsCurrent, LateStepsInOrder, StepsInOrder, ActiveHasEpoch, MovesBelowPlace, Bookkeeping, nothingToDiscard
  <2>5. EmptyUnlessHeld'
    BY <1>6, <2>1, StageEffect DEF EmptyUnlessHeld, HeldIsCurrent, Bookkeeping
  <2>6. QED
    BY <1>3, <2>2, <2>3, <2>4, <2>5 DEF RegistryInv
<1>7. ASSUME NEW c \in SUBSET Writes, Install(i, c) PROVE RegistryInv'
  <2>1. UNCHANGED <<accepted, exported>> /\ data' = [data EXCEPT ![move[i].target] = c] /\ <<i, c>> \in exported
    BY <1>7 DEF Install
  <2>2. LateStepsInOrder'
    BY <1>7, <2>1, InstallEffect DEF LateStepsInOrder, HeldIsCurrent, EndsReleased, StepsInOrder, StepsLeaveEpoch, Bookkeeping, nothingToDiscard
  <2>3. HeldIsCurrent'
    BY <1>7, <2>1, InstallEffect DEF HeldIsCurrent, LateStepsInOrder, ActiveHasEpoch, MovesBelowPlace, PhaseMatchesMove, Bookkeeping
  <2>4. EndsReleased'
    BY <1>7, <2>1, InstallEffect DEF EndsReleased, HeldIsCurrent, LateStepsInOrder, StepsInOrder, ActiveHasEpoch, MovesBelowPlace, Bookkeeping, nothingToDiscard
  <2>5. EmptyUnlessHeld'
    BY <1>7, <2>1, InstallEffect DEF EmptyUnlessHeld, HeldIsCurrent, Bookkeeping
  <2>6. QED
    BY <1>3, <2>2, <2>3, <2>4, <2>5 DEF RegistryInv
<1>8. CASE Activate(i)
  <2>1. UNCHANGED <<data, accepted, exported>>
    BY <1>8 DEF Activate
  <2>2. LateStepsInOrder'
    BY <1>8, <2>1, ActivateEffect DEF LateStepsInOrder, HeldIsCurrent, EndsReleased, StepsInOrder, StepsLeaveEpoch, Bookkeeping, nothingToDiscard
  <2>3. HeldIsCurrent'
    BY <1>8, <2>1, ActivateEffect DEF HeldIsCurrent, LateStepsInOrder, ActiveHasEpoch, MovesBelowPlace, PhaseMatchesMove, Bookkeeping
  <2>4. EndsReleased'
    BY <1>8, <2>1, ActivateEffect DEF EndsReleased, HeldIsCurrent, LateStepsInOrder, StepsInOrder, ActiveHasEpoch, MovesBelowPlace, Bookkeeping, nothingToDiscard
  <2>5. EmptyUnlessHeld'
    BY <1>8, <2>1, ActivateEffect DEF EmptyUnlessHeld, HeldIsCurrent, Bookkeeping
  <2>6. QED
    BY <1>3, <2>2, <2>3, <2>4, <2>5 DEF RegistryInv
<1>9. CASE Retire(i)
  <2>1. /\ UNCHANGED exported /\ data' = [data EXCEPT ![move[i].source] = {}]
        /\ accepted' = [accepted EXCEPT ![move[i].source] = {}]
    BY <1>9 DEF Retire
  <2>2. LateStepsInOrder'
    BY <1>9, <2>1, RetireEffect DEF LateStepsInOrder, HeldIsCurrent, EndsReleased, StepsInOrder, StepsLeaveEpoch, Bookkeeping, nothingToDiscard
  <2>3. HeldIsCurrent'
    BY <1>9, <2>1, RetireEffect DEF HeldIsCurrent, LateStepsInOrder, ActiveHasEpoch, MovesBelowPlace, PhaseMatchesMove, Bookkeeping
  <2>4. EndsReleased'
    BY <1>9, <2>1, RetireEffect DEF EndsReleased, HeldIsCurrent, LateStepsInOrder, StepsInOrder, ActiveHasEpoch, MovesBelowPlace, Bookkeeping, nothingToDiscard
  <2>5. EmptyUnlessHeld'
    BY <1>9, <2>1, RetireEffect DEF EmptyUnlessHeld, HeldIsCurrent, Bookkeeping
  <2>6. QED
    BY <1>3, <2>2, <2>3, <2>4, <2>5 DEF RegistryInv
<1>10. CASE Thaw(i)
  <2>1. UNCHANGED <<data, accepted, exported>>
    BY <1>10 DEF Thaw
  <2>2. LateStepsInOrder'
    BY <1>10, <2>1, ThawEffect DEF LateStepsInOrder, HeldIsCurrent, EndsReleased, StepsInOrder, StepsLeaveEpoch, Bookkeeping, nothingToDiscard
  <2>3. HeldIsCurrent'
    BY <1>10, <2>1, ThawEffect DEF HeldIsCurrent, LateStepsInOrder, ActiveHasEpoch, MovesBelowPlace, PhaseMatchesMove, Bookkeeping
  <2>4. EndsReleased'
    BY <1>10, <2>1, ThawEffect DEF EndsReleased, HeldIsCurrent, LateStepsInOrder, StepsInOrder, ActiveHasEpoch, MovesBelowPlace, Bookkeeping, nothingToDiscard
  <2>5. EmptyUnlessHeld'
    BY <1>10, <2>1, ThawEffect DEF EmptyUnlessHeld, HeldIsCurrent, Bookkeeping
  <2>6. QED
    BY <1>3, <2>2, <2>3, <2>4, <2>5 DEF RegistryInv
<1>11. CASE Discard(i)
  <2>1. /\ UNCHANGED exported
        /\ \A x \in Shards \ {move[i].target} : data'[x] = data[x] /\ accepted'[x] = accepted[x]
        /\ \/ data'[move[i].target] = {} /\ accepted'[move[i].target] = {}
           \/ /\ data'[move[i].target] = data[move[i].target]
              /\ accepted'[move[i].target] = accepted[move[i].target]
              /\ ~ (match(move[i].target, i, move[i].epoch)
                     /\ owner[move[i].target].state \in {"installed", "importing"})
    BY <1>11 DEF Discard
  <2>2. LateStepsInOrder'
    BY <1>11, <2>1, DiscardEffect DEF LateStepsInOrder, HeldIsCurrent, EndsReleased, StepsInOrder, StepsLeaveEpoch, Bookkeeping, nothingToDiscard
  <2>3. HeldIsCurrent'
    BY <1>11, <2>1, DiscardEffect, SMTT(30) DEF HeldIsCurrent, LateStepsInOrder, ActiveHasEpoch, MovesBelowPlace, PhaseMatchesMove, Bookkeeping
  <2>4. EndsReleased'
    BY <1>11, <2>1, DiscardEffect, SMTT(30) DEF EndsReleased, HeldIsCurrent, LateStepsInOrder, StepsInOrder, ActiveHasEpoch, MovesBelowPlace, Bookkeeping, nothingToDiscard
  <2>5. EmptyUnlessHeld'
    BY <1>11, <2>1, DiscardEffect, RecordFields DEF TypeInv, OwnerStates, EmptyUnlessHeld, HeldIsCurrent, Bookkeeping
  <2>6. QED
    BY <1>3, <2>2, <2>3, <2>4, <2>5 DEF RegistryInv
<1>12. CASE DiscardNothing(i)
  <2>1. UNCHANGED <<data, accepted, exported>> /\ nothingToDiscard(move[i].target, i) /\ "thawed" \in done[i]
    BY <1>12 DEF DiscardNothing, shardVars
  <2>2. LateStepsInOrder'
    BY <1>12, <2>1, DiscardNothingEffect DEF LateStepsInOrder, HeldIsCurrent, EndsReleased, StepsInOrder, StepsLeaveEpoch, Bookkeeping, nothingToDiscard
  <2>3. HeldIsCurrent'
    BY <1>12, <2>1, DiscardNothingEffect DEF HeldIsCurrent, LateStepsInOrder, ActiveHasEpoch, MovesBelowPlace, PhaseMatchesMove, Bookkeeping
  <2>4. EndsReleased'
    BY <1>12, <2>1, DiscardNothingEffect DEF EndsReleased, HeldIsCurrent, LateStepsInOrder, StepsInOrder, ActiveHasEpoch, MovesBelowPlace, Bookkeeping, nothingToDiscard
  <2>5. EmptyUnlessHeld'
    BY <1>12, <2>1, DiscardNothingEffect DEF EmptyUnlessHeld, HeldIsCurrent, Bookkeeping
  <2>6. QED
    BY <1>3, <2>2, <2>3, <2>4, <2>5 DEF RegistryInv
<1>13. CASE Export(i)
  <2>1. /\ UNCHANGED <<data, accepted>> /\ exported' = exported \cup {<<i, data[move[i].source]>>}
        /\ "reserve" \in done[i] /\ match(move[i].source, i, move[i].epoch - 1)
        /\ owner[move[i].source].state = "frozen"
    BY <1>13 DEF Export, shardVars, clientVars
  <2>2. LateStepsInOrder'
    BY <1>13, <2>1, ExportEffect DEF LateStepsInOrder, HeldIsCurrent, EndsReleased, StepsInOrder, StepsLeaveEpoch, Bookkeeping, nothingToDiscard
  <2>3. HeldIsCurrent'
    BY <1>13, <2>1, ExportEffect DEF HeldIsCurrent, LateStepsInOrder, ActiveHasEpoch, MovesBelowPlace, PhaseMatchesMove, Bookkeeping
  <2>4. EndsReleased'
    BY <1>13, <2>1, ExportEffect DEF EndsReleased, StepsLeaveEpoch, HeldIsCurrent, LateStepsInOrder, StepsInOrder, ActiveHasEpoch, MovesBelowPlace, Bookkeeping, nothingToDiscard
  <2>5. EmptyUnlessHeld'
    BY <1>13, <2>1, ExportEffect DEF EmptyUnlessHeld, HeldIsCurrent, Bookkeeping
  <2>6. QED
    BY <1>3, <2>2, <2>3, <2>4, <2>5 DEF RegistryInv
<1>14. QED
    BY <1>4, <1>5, <1>6, <1>7, <1>8, <1>9, <1>10, <1>11, <1>12, <1>13 DEF ShardStep

LEMMA RegistryOwn ==
    ASSUME TypeInv, OwnershipInv, WriteInv, RegistryInv, Own
    PROVE  RegistryInv'
<1>1. /\ RegisteredEnds /\ LateStepsInOrder /\ HeldIsCurrent /\ EndsReleased /\ EmptyUnlessHeld /\ Bookkeeping
    BY DEF WriteInv, RegistryInv
<1>2. UNCHANGED <<registry, data, accepted, exported>>
    BY DEF Own, catalogVars
<1> USE <1>1, <1>2, AllTyped, ContentTyped, OwnEffect
<1> USE DEF Updates, CatalogSame, match
<1>3. RegisteredEnds' /\ LateStepsInOrder' /\ EmptyUnlessHeld'
    BY DEF RegisteredEnds, LateStepsInOrder, EmptyUnlessHeld
<1>4. HeldIsCurrent' /\ EndsReleased'
    BY DEF HeldIsCurrent, EndsReleased, Bookkeeping
<1>5. QED
    BY <1>3, <1>4 DEF RegistryInv

LEMMA RegistryCatalog ==
    ASSUME TypeInv, OwnershipInv, WriteInv, RegistryInv, CatalogNext
    PROVE  RegistryInv'
<1>1. /\ RegisteredEnds /\ LateStepsInOrder /\ HeldIsCurrent /\ EndsReleased /\ EmptyUnlessHeld
      /\ Bookkeeping /\ PhaseMatchesMove /\ StepsInOrder /\ StepsLeaveEpoch /\ Issued
    BY DEF OwnershipInv, WriteInv, RegistryInv
<1>2. /\ place \in Placement /\ done \in [MoveIds -> SUBSET Steps]
      /\ registry \in [Shards -> Registration]
    BY DEF TypeInv, TypeOK
<1>3. UNCHANGED <<owner, data, accepted, exported>>
    BY DEF CatalogNext, RegistryStep, RegisterShard, DrainShard, ResumeShard, UnregisterShard, Assign,
       StartMove, CatalogStep, Cutover, Activated, Cleaned, Thawed, Cancelled, Assigned, Cancel, shardVars
<1> USE <1>1, <1>2, <1>3, AllTyped, ContentTyped
<1> USE DEF Places, Records, match
<1>4. EmptyUnlessHeld'
    BY DEF EmptyUnlessHeld
<1>5. ASSUME NEW x \in Shards, RegistryStep(x) PROVE RegistryInv'
  <2>1. /\ UNCHANGED <<place, move, done>> /\ \A y \in Shards \ {x} : registry'[y] = registry[y]
        /\ \/ registry'[x] # "absent"
           \/ /\ place.shard # x
              /\ place.id # None => x \notin {move[place.id].source, move[place.id].target}
    BY <1>5 DEF RegistryStep, RegisterShard, DrainShard, ResumeShard, UnregisterShard
  <2>2. RegisteredEnds'
    BY <2>1 DEF RegisteredEnds
  <2>3. LateStepsInOrder' /\ HeldIsCurrent' /\ EndsReleased'
    BY <2>1 DEF LateStepsInOrder, HeldIsCurrent, EndsReleased
  <2>4. QED
    BY <1>4, <2>2, <2>3 DEF RegistryInv
<1>6. ASSUME NEW x \in Shards, Assign(x) PROVE RegistryInv'
  <2>1. /\ Places(x, 1, "assigning", None, "none") /\ UNCHANGED <<registry, move, done>>
        /\ place.id = None /\ registry[x] = "open"
    BY <1>6 DEF Assign, Unplaced
  <2>2. RegisteredEnds' /\ LateStepsInOrder' /\ HeldIsCurrent' /\ EndsReleased'
    BY <2>1 DEF RegisteredEnds, LateStepsInOrder, HeldIsCurrent, EndsReleased
  <2>3. QED
    BY <1>4, <2>2 DEF RegistryInv
<1>7. ASSUME NEW i \in MoveIds, NEW x \in Shards, StartMove(i, x) PROVE RegistryInv'
  <2>1. /\ Places(place.shard, place.epoch, "moving", i, "copy") /\ UNCHANGED <<registry, done>>
        /\ move'[i].source = place.shard /\ move'[i].target = x /\ registry[x] = "open"
        /\ \A j \in MoveIds \ {i} : move'[j] = move[j]
        /\ place.id = None /\ done[i] = {} /\ place.shard # None
    BY <1>7 DEF StartMove, TypeInv, TypeOK, Issued, Placement
  <2>2. RegisteredEnds' /\ LateStepsInOrder'
    BY <2>1 DEF RegisteredEnds, LateStepsInOrder
  <2>3. HeldIsCurrent' /\ EndsReleased'
    BY <2>1 DEF HeldIsCurrent, EndsReleased, Bookkeeping
  <2>4. QED
    BY <1>4, <2>2, <2>3 DEF RegistryInv
<1>8. ASSUME NEW i \in MoveIds, Cleaned(i) PROVE RegistryInv'
  <2>1. /\ place.id = i /\ place.phase = "cleanup" /\ "retire" \in done[i]
        /\ Places(place.shard, place.epoch, place.state, None, "none") /\ UNCHANGED <<registry, move, done>>
    BY <1>8 DEF Cleaned, matchesMove, Placement
  <2>2. RegisteredEnds' /\ LateStepsInOrder' /\ EndsReleased'
    BY <2>1 DEF RegisteredEnds, LateStepsInOrder, EndsReleased
  <2>3. HeldIsCurrent'
    BY <2>1 DEF HeldIsCurrent, EndsReleased, LateStepsInOrder, StepsLeaveEpoch
  <2>4. QED
    BY <1>4, <2>2, <2>3 DEF RegistryInv
<1>9. ASSUME NEW i \in MoveIds, Cancelled(i) PROVE RegistryInv'
  <2>1. /\ place.id = i /\ place.phase = "discard" /\ "discard" \in done[i]
        /\ Places(place.shard, move[i].epoch, "active", None, "none") /\ UNCHANGED <<registry, move>>
        /\ Records(i, {"cancelled"})
    BY <1>9 DEF Cancelled, matchesMove, Placement
  <2>2. RegisteredEnds' /\ LateStepsInOrder' /\ EndsReleased'
    BY <2>1 DEF RegisteredEnds, LateStepsInOrder, EndsReleased
  <2>3. \A s \in Shards : owner[s].state # "frozen"
    BY <2>1 DEF HeldIsCurrent, LateStepsInOrder, StepsLeaveEpoch
  <2>4. \A s \in Shards : owner[s].state # "installed"
    BY <2>1 DEF HeldIsCurrent, EndsReleased
  <2>5. HeldIsCurrent'
    BY <2>1, <2>3, <2>4 DEF HeldIsCurrent, EndsReleased
  <2>6. QED
    BY <1>4, <2>2, <2>5 DEF RegistryInv
<1>10. ASSUME NEW i \in MoveIds, Cutover(i) \/ Activated(i) \/ Thawed(i) PROVE RegistryInv'
  <2>1. /\ place.id = i /\ place'.id = i /\ place'.shard \in {place.shard, move[i].target}
        /\ UNCHANGED <<registry, move>>
    BY <1>10 DEF Cutover, Activated, Thawed, matchesMove, Placement
  <2>2. \/ Records(i, {"cutover"}) \/ ("activate" \in done[i] /\ Records(i, {"activated"}))
        \/ ("thaw" \in done[i] /\ Records(i, {"thawed"}))
    BY <1>10 DEF Cutover, Activated, Thawed
  <2>3. RegisteredEnds' /\ LateStepsInOrder'
    BY <2>1, <2>2 DEF RegisteredEnds, LateStepsInOrder
  <2>4. HeldIsCurrent' /\ EndsReleased'
    BY <2>1, <2>2 DEF HeldIsCurrent, EndsReleased
  <2>5. QED
    BY <1>4, <2>3, <2>4 DEF RegistryInv
<1>11. ASSUME Assigned \/ Cancel PROVE RegistryInv'
  <2>1. place'.id = place.id /\ place'.shard = place.shard /\ UNCHANGED <<registry, move>>
    BY <1>11 DEF Assigned, Cancel, Placement
  <2>2. done' = done \/ (place.id \in MoveIds /\ Records(place.id, {"cancel"}))
    BY <1>11 DEF Assigned, Cancel, Placement
  <2>3. RegisteredEnds' /\ LateStepsInOrder'
    BY <2>1, <2>2 DEF RegisteredEnds, LateStepsInOrder
  <2>4. HeldIsCurrent' /\ EndsReleased'
    BY <2>1, <2>2 DEF HeldIsCurrent, EndsReleased
  <2>5. QED
    BY <1>4, <2>3, <2>4 DEF RegistryInv
<1>12. QED
    BY <1>5, <1>6, <1>7, <1>8, <1>9, <1>10, <1>11 DEF CatalogNext, CatalogStep

LEMMA RegistryClient ==
    ASSUME TypeInv, OwnershipInv, RegistryInv, ClientStep
    PROVE  RegistryInv'
<1>1. UNCHANGED <<registry, place, move, done, owner, exported>>
    BY DEF ClientStep, Resolve, Commit, Accept, Flush, catalogVars, shardVars
<1>2. RegisteredEnds' /\ LateStepsInOrder' /\ HeldIsCurrent' /\ EndsReleased'
    BY <1>1 DEF RegistryInv, RegisteredEnds, LateStepsInOrder, HeldIsCurrent, EndsReleased, match
<1>3. \A s \in Shards : owner[s].state # "active" => data'[s] = data[s] /\ accepted'[s] = accepted[s]
    BY ContentTyped DEF ClientStep, Resolve, Commit, Accept, Flush, checkOwnership, shardVars
<1>4. EmptyUnlessHeld'
    BY <1>1, <1>3 DEF RegistryInv, EmptyUnlessHeld
<1>5. QED
    BY <1>2, <1>4 DEF RegistryInv

LEMMA RegistryInit == Init => RegistryInv
BY DEF Init, RegistryInv, RegisteredEnds, LateStepsInOrder, HeldIsCurrent, EndsReleased, EmptyUnlessHeld,
   Unplaced, Unowned

LEMMA RegistryNext == TypeInv /\ OwnershipInv /\ WriteInv /\ RegistryInv /\ [Next]_vars => RegistryInv'
<1>1. ASSUME RegistryInv, UNCHANGED vars PROVE RegistryInv'
    BY <1>1 DEF RegistryInv, RegisteredEnds, LateStepsInOrder, HeldIsCurrent, EndsReleased, EmptyUnlessHeld,
       match, vars, catalogVars, shardVars
<1>2. QED
    BY <1>1, RegistryShard, RegistryOwn, RegistryCatalog, RegistryClient DEF Next

(***************************************************************************)
(* A shard that left the registry holds nothing of the tenant: it does not *)
(* serve, no unfinished move needs it, and it keeps neither a copy nor an  *)
(* accepted batch ("unregister" in applyCatalog).                          *)
(***************************************************************************)
THEOREM UnregisterStrandsNothing == Spec => []UnregisteredIsEmpty
<1>1. Init => TypeInv /\ OwnershipInv /\ WriteInv /\ RegistryInv
    BY TypeInit, OwnershipInit, WriteInit, RegistryInit
<1>2. TypeInv /\ OwnershipInv /\ WriteInv /\ RegistryInv /\ [Next]_vars
        => (TypeInv /\ OwnershipInv /\ WriteInv /\ RegistryInv)'
    BY TypeNext, OwnershipNext, WriteNext, RegistryNext
<1>3. TypeInv /\ OwnershipInv /\ RegistryInv => UnregisteredIsEmpty
  <2>1. SUFFICES ASSUME TypeInv, OwnershipInv, RegistryInv, NEW s \in Shards, registry[s] = "absent"
                 PROVE  /\ owner[s].state \notin {"active", "frozen", "installed"}
                        /\ data[s] = {} /\ accepted[s] = {}
    BY DEF UnregisteredIsEmpty
  <2>2. owner[s].state \notin {"active", "frozen", "installed"}
    BY <2>1, ContentTyped DEF OwnershipInv, ActiveHasEpoch, RegistryInv, RegisteredEnds, HeldIsCurrent
  <2>3. QED
    BY <2>1, <2>2, RecordFields DEF TypeInv, OwnerStates, RegistryInv, EmptyUnlessHeld
<1>4. QED
    BY <1>1, <1>2, <1>3, PTL DEF Spec
=============================================================================
