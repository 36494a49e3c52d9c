------------------------ MODULE ShardMigrationProofs ------------------------
(***************************************************************************)
(* Machine-checked theorems about ShardMigration, for any shards, moves,   *)
(* writes and chunk counts.                                                *)
(***************************************************************************)
EXTENDS ShardMigrationInv, TLAPS

TypeInv == TypeOK /\ Issued

\* The fields of an issued move and of an ownership record have their types.
LEMMA MoveTyped ==
    ASSUME TypeOK, NEW i \in MoveIds, move[i] # NoMove
    PROVE  /\ move[i].source \in Shards /\ move[i].target \in Shards
           /\ move[i].epoch \in Nat \ {0, 1}
BY DEF TypeOK, NoMove

\* Replacing one field of an ownership record keeps it one.
LEMMA OwnershipExcept ==
    ASSUME NEW r \in Ownership, NEW i \in MoveIds, NEW st \in OwnerStates
    PROVE  /\ [r EXCEPT !.state = st] \in Ownership
           /\ [r EXCEPT !.state = st, !.move = i] \in Ownership
BY DEF Ownership

LEMMA OwnershipStaged ==
    ASSUME NEW r \in Ownership, NEW c \in SUBSET Writes
    PROVE  [r EXCEPT !.next = r.next + 1, !.digest = {c}] \in Ownership
<1>1. {c} \in SUBSET SUBSET Writes /\ r.next + 1 \in Nat
    BY DEF Ownership
<1>2. QED
    BY <1>1 DEF Ownership

LEMMA TypeInit == Init => TypeInv
BY ConstantsAssumption DEF Init, TypeInv, TypeOK, Issued, Unplaced,
   Unowned, NoMove, Ownership, Placement, Registration, PlaceStates, Phases, OwnerStates

\* Calls are made only for moves the catalog has issued.
LEMMA CallsIssued ==
    ASSUME TypeInv, NEW i \in MoveIds, CatalogStep(i) \/ ShardStep(i)
    PROVE  move[i] # NoMove
BY DEF TypeInv, Issued, CatalogStep, Cutover, Activated, Cleaned, Thawed, Cancelled, ShardStep,
   Freeze, Reserve, Export, Stage, Install, Activate, Retire, Thaw, DiscardNothing, Discard

LEMMA TypeRegistry ==
    ASSUME TypeInv, NEW s \in Shards, RegistryStep(s)
    PROVE  TypeInv'
<1>1. registry' \in [Shards -> Registration]
    BY DEF TypeInv, TypeOK, RegistryStep, RegisterShard, DrainShard, ResumeShard, UnregisterShard, Registration
<1>2. UNCHANGED <<place, home, move, done, shardVars, exported, clientVars>>
    BY DEF RegistryStep, RegisterShard, DrainShard, ResumeShard, UnregisterShard
<1>3. QED
    BY <1>1, <1>2 DEF TypeInv, TypeOK, Issued, shardVars, clientVars

LEMMA TypeAssign ==
    ASSUME TypeInv, NEW s \in Shards, Assign(s)
    PROVE  TypeInv'
<1>1. place' = [shard |-> s, epoch |-> 1, state |-> "assigning", id |-> None, phase |-> "none"]
    BY DEF Assign, Unplaced
<1>2. UNCHANGED <<registry, move, done, shardVars, exported, clientVars>> /\ home' = s
    BY DEF Assign
<1>3. TypeOK'
    BY <1>1, <1>2 DEF TypeInv, TypeOK, Placement, PlaceStates, Phases, shardVars, clientVars
<1>4. Issued'
    BY <1>1, <1>2, ConstantsAssumption DEF TypeInv, Issued
<1>5. QED
    BY <1>3, <1>4 DEF TypeInv

LEMMA TypeStartMove ==
    ASSUME TypeInv, NEW i \in MoveIds, NEW t \in Shards, StartMove(i, t)
    PROVE  TypeInv'
<1>1. /\ place \in Placement /\ place.shard # None /\ place.epoch \in Nat
      /\ move' = [move EXCEPT ![i] = [source |-> place.shard, target |-> t, epoch |-> place.epoch + 1]]
      /\ place' = [place EXCEPT !.state = "moving", !.id = i, !.phase = "copy"]
      /\ UNCHANGED <<registry, home, done, shardVars, exported, clientVars>>
      /\ place.state = "active" /\ place.epoch > 0
    BY ConstantsAssumption DEF StartMove, nextEpoch, TypeInv, TypeOK, Issued, Placement
<1>2. place.shard \in Shards
    BY <1>1 DEF Placement
<1>3. TypeOK'
  <2>1. place' \in Placement
    BY <1>1 DEF Placement, PlaceStates, Phases
  <2>2. [source |-> place.shard, target |-> t, epoch |-> place.epoch + 1]
          \in [source : Shards, target : Shards, epoch : Nat \ {0, 1}]
    BY <1>1, <1>2
  <2>3. move' \in [MoveIds -> {NoMove} \cup [source : Shards, target : Shards, epoch : Nat \ {0, 1}]]
    BY <1>1, <2>2 DEF TypeInv, TypeOK
  <2>4. QED
    BY <1>1, <2>1, <2>3 DEF TypeInv, TypeOK, shardVars, clientVars
<1>4. Issued'
    BY <1>1, <1>2, ConstantsAssumption DEF TypeInv, TypeOK, Issued, NoMove, Placement
<1>5. QED
    BY <1>3, <1>4 DEF TypeInv

LEMMA TypeCatalog ==
    ASSUME TypeInv, CatalogNext
    PROVE  TypeInv'
<1> USE DEF TypeInv
<1>1. CASE Assigned
  <2>1. TypeOK'
    BY <1>1 DEF Assigned, TypeOK, Placement, PlaceStates, shardVars, clientVars
  <2>2. Issued'
    BY <1>1 DEF Assigned, TypeOK, Issued, Placement
  <2>3. QED
    BY <2>1, <2>2
<1>2. CASE Cancel
  <2>1. place.id \in MoveIds
    BY <1>2 DEF Cancel, TypeOK, Placement
  <2>2. TypeOK'
    BY <1>2, <2>1 DEF Cancel, TypeOK, Placement, PlaceStates, Phases, Steps, shardVars, clientVars
  <2>3. Issued'
    BY <1>2, <2>1 DEF Cancel, TypeOK, Issued, Placement, Unplaced
  <2>4. QED
    BY <2>2, <2>3
<1>3. ASSUME NEW i \in MoveIds, CatalogStep(i) PROVE TypeInv'
  <2>1. move[i] # NoMove
    BY <1>3, CallsIssued
  <2>2. move[i].source \in Shards /\ move[i].target \in Shards /\ move[i].epoch \in Nat \ {0, 1}
    BY <2>1, MoveTyped
  <2>3. place \in Placement /\ place.state # "none" /\ place.shard # None
    BY <1>3 DEF CatalogStep, Cutover, Activated, Cleaned, Thawed, Cancelled, matchesMove, TypeOK, Issued,
       Placement, Unplaced
  <2>4. place' \in Placement
    BY <1>3, <2>2, <2>3 DEF CatalogStep, Cutover, Activated, Cleaned, Thawed, Cancelled, matchesMove,
       Placement, PlaceStates, Phases
  <2>5. done' \in [MoveIds -> SUBSET Steps]
    BY <1>3 DEF CatalogStep, Cutover, Activated, Cleaned, Thawed, Cancelled, TypeOK, Steps
  <2>6. UNCHANGED <<registry, home, move, shardVars, exported, clientVars>>
    BY <1>3 DEF CatalogStep, Cutover, Activated, Cleaned, Thawed, Cancelled
  <2>7. TypeOK'
    BY <2>4, <2>5, <2>6 DEF TypeOK, shardVars, clientVars
  <2>8. \A j \in MoveIds : done'[j] # {} => move[j] # NoMove
    BY <1>3, <2>1 DEF CatalogStep, Cutover, Activated, Cleaned, Thawed, Cancelled, TypeOK, Issued
  <2>9. /\ place'.state # "none" /\ place'.shard # None /\ place'.epoch > 0
        /\ place'.id \in {i, None} /\ (place'.phase = "none" <=> place'.id = None)
    <3>1. CASE Cutover(i)
      BY <2>2, <2>3, <3>1, ConstantsAssumption DEF Cutover, matchesMove, Placement
    <3>2. CASE Activated(i)
      BY <2>3, <3>2, ConstantsAssumption DEF Activated, matchesMove, Placement, Issued
    <3>3. CASE Cleaned(i)
      BY <2>3, <3>3, ConstantsAssumption DEF Cleaned, matchesMove, Placement, Issued
    <3>4. CASE Thawed(i)
      BY <2>2, <2>3, <3>4, ConstantsAssumption DEF Thawed, matchesMove, Placement
    <3>5. CASE Cancelled(i)
      BY <2>2, <2>3, <3>5, ConstantsAssumption DEF Cancelled, matchesMove, Placement
    <3>6. QED
      BY <1>3, <3>1, <3>2, <3>3, <3>4, <3>5 DEF CatalogStep
  <2>10. Issued'
    BY <2>1, <2>6, <2>8, <2>9 DEF Issued
  <2>11. QED
    BY <2>7, <2>10
<1>4. QED
    BY <1>1, <1>2, <1>3, TypeRegistry, TypeAssign, TypeStartMove DEF CatalogNext

LEMMA TypeShard ==
    ASSUME TypeInv, NEW i \in MoveIds, ShardStep(i)
    PROVE  TypeInv'
<1> DEFINE s == move[i].source
           t == move[i].target
           e == move[i].epoch
<1>1. move[i] # NoMove
    BY CallsIssued
<1>2. s \in Shards /\ t \in Shards /\ e \in Nat \ {0, 1}
    BY <1>1, MoveTyped DEF TypeInv
<1>3. /\ owner \in [Shards -> Ownership] /\ owner[s] \in Ownership /\ owner[t] \in Ownership
      /\ data \in [Shards -> SUBSET Writes] /\ accepted \in [Shards -> SUBSET Writes]
      /\ done \in [MoveIds -> SUBSET Steps] /\ unmanaged \subseteq Shards
      /\ exported \subseteq MoveIds \X SUBSET Writes
    BY <1>2 DEF TypeInv, TypeOK
<1> HIDE DEF s, t, e
<1> DEFINE Goal ==
      /\ owner' \in [Shards -> Ownership] /\ data' \in [Shards -> SUBSET Writes]
      /\ accepted' \in [Shards -> SUBSET Writes] /\ unmanaged' \subseteq Shards
      /\ exported' \subseteq MoveIds \X SUBSET Writes
      /\ UNCHANGED <<catalogVars, clientVars>>
      /\ \/ done' = done
         \/ \E x \in Steps : done' = [done EXCEPT ![i] = @ \cup {x}]
<1>4. Goal
  <2>1. CASE Freeze(i)
    BY <1>2, <1>3, <2>1, OwnershipExcept DEF Freeze, OwnerStates, Steps, s
  <2>2. CASE Reserve(i)
    <3>1. [epoch |-> e, state |-> "importing", move |-> i, next |-> 0, digest |-> {}] \in Ownership
      BY <1>2 DEF Ownership, OwnerStates
    <3>2. QED
      BY <1>2, <1>3, <2>2, <3>1 DEF Reserve, Steps, t, e
  <2>3. CASE Export(i)
    BY <1>2, <1>3, <2>3 DEF Export, s, shardVars
  <2>4. ASSUME NEW c \in SUBSET Writes, Stage(i, c) PROVE Goal
    <3>1. owner' = [owner EXCEPT ![t] = [owner[t] EXCEPT !.next = owner[t].next + 1, !.digest = {c}]]
      BY <1>2, <1>3, <2>4 DEF Stage, t
    <3>2. [owner[t] EXCEPT !.next = owner[t].next + 1, !.digest = {c}] \in Ownership
      BY <1>3, OwnershipStaged
    <3>3. owner' \in [Shards -> Ownership]
      BY <1>2, <1>3, <3>1, <3>2
    <3>4. QED
      BY <1>3, <2>4, <3>3 DEF Stage
  <2>5. ASSUME NEW c \in SUBSET Writes, Install(i, c) PROVE Goal
    BY <1>2, <1>3, <2>5, OwnershipExcept DEF Install, OwnerStates, Steps, t
  <2>6. CASE Activate(i)
    BY <1>2, <1>3, <2>6, OwnershipExcept DEF Activate, OwnerStates, Steps, t
  <2>7. CASE Retire(i)
    BY <1>2, <1>3, <2>7, OwnershipExcept DEF Retire, OwnerStates, Steps, s
  <2>8. CASE Thaw(i)
    <3>1. thawedRecord(i) \in Ownership
      BY <1>2 DEF thawedRecord, Unowned, Ownership, OwnerStates, e
    <3>2. QED
      BY <1>2, <1>3, <2>8, <3>1 DEF Thaw, Steps, s
  <2>9. CASE DiscardNothing(i)
    BY <1>2, <1>3, <2>9 DEF DiscardNothing, Steps, shardVars
  <2>10. CASE Discard(i)
    <3>1. [Unowned EXCEPT !.epoch = move[i].epoch, !.state = "retired", !.move = i] \in Ownership
      BY <1>2 DEF Unowned, Ownership, OwnerStates, e
    <3>2. QED
      BY <1>2, <1>3, <2>10, <3>1 DEF Discard, Steps, t
  <2>11. QED
    BY <2>1, <2>2, <2>3, <2>4, <2>5, <2>6, <2>7, <2>8, <2>9, <2>10 DEF ShardStep
<1>5. done' \in [MoveIds -> SUBSET Steps] /\ \A j \in MoveIds : done'[j] # {} => move[j] # NoMove
    BY <1>1, <1>3, <1>4 DEF TypeInv, Issued
<1>6. TypeOK'
    BY <1>4, <1>5 DEF TypeInv, TypeOK, catalogVars, clientVars
<1>7. Issued'
    BY <1>4, <1>5 DEF TypeInv, Issued, catalogVars
<1>8. QED
    BY <1>6, <1>7 DEF TypeInv

LEMMA TypeOwn ==
    ASSUME TypeInv, Own
    PROVE  TypeInv'
<1>1. home \in Shards /\ [Unowned EXCEPT !.epoch = 1, !.state = "active"] \in Ownership
    BY DEF Own, TypeInv, TypeOK, Unowned, Ownership, OwnerStates
<1>2. TypeOK'
    BY <1>1 DEF TypeInv, TypeOK, Own, catalogVars, clientVars
<1>3. Issued'
    BY DEF TypeInv, Issued, Own, catalogVars
<1>4. QED
    BY <1>2, <1>3 DEF TypeInv

LEMMA TypeClient ==
    ASSUME TypeInv, ClientStep
    PROVE  TypeInv'
<1>1. UNCHANGED <<catalogVars, done, owner, exported, unmanaged>>
    BY DEF ClientStep, Resolve, Commit, Accept, Flush, shardVars
<1> DEFINE Goal ==
      /\ data' \in [Shards -> SUBSET Writes] /\ accepted' \in [Shards -> SUBSET Writes]
      /\ routes' \subseteq Shards \X Nat /\ acked' \subseteq Writes
<1>2. Goal
  <2>1. CASE Resolve
    <3>1. place.shard \in Shards /\ place.epoch \in Nat
      BY <2>1 DEF Resolve, TypeInv, TypeOK, Issued, Placement
    <3>2. QED
      BY <2>1, <3>1 DEF Resolve, TypeInv, TypeOK, shardVars
  <2>2. ASSUME NEW w \in Writes, NEW r \in routes, Commit(w, r[1], r[2]) \/ Accept(w, r[1], r[2])
        PROVE  Goal
    BY <2>2 DEF Commit, Accept, TypeInv, TypeOK
  <2>3. ASSUME NEW x \in Shards, NEW w \in Writes, Flush(x, w) PROVE Goal
    BY <2>3 DEF Flush, TypeInv, TypeOK, clientVars
  <2>4. QED
    BY <2>1, <2>2, <2>3 DEF ClientStep
<1>3. QED
    BY <1>1, <1>2 DEF TypeInv, TypeOK, Issued, catalogVars

LEMMA TypeNext == TypeInv /\ [Next]_vars => TypeInv'
<1>1. ASSUME TypeInv, UNCHANGED vars PROVE TypeInv'
    BY <1>1 DEF TypeInv, TypeOK, Issued, vars, catalogVars, shardVars, clientVars
<1>2. QED
    BY <1>1, TypeCatalog, TypeShard, TypeOwn, TypeClient DEF Next

(***************************************************************************)
(* Type correctness of the catalog, the ownership records and the clients. *)
(***************************************************************************)
THEOREM TypeCorrect == Spec => []TypeOK
<1>1. Init => TypeInv
    BY TypeInit
<1>2. TypeInv /\ [Next]_vars => TypeInv'
    BY TypeNext
<1>3. TypeInv => TypeOK
    BY DEF TypeInv
<1>4. QED
    BY <1>1, <1>2, <1>3, PTL DEF Spec

-----------------------------------------------------------------------------
\* What a call does, field by field.
Updates(x, e, st, m) ==
    /\ owner'[x].epoch = e /\ owner'[x].state = st /\ owner'[x].move = m
    /\ \A y \in Shards \ {x} : owner'[y] = owner[y]

Records(i, steps) ==
    /\ done'[i] = done[i] \cup steps
    /\ \A j \in MoveIds \ {i} : done'[j] = done[j]

CatalogSame == UNCHANGED <<place, move, home>>

LEMMA RecordFields ==
    ASSUME TypeOK, NEW x \in Shards
    PROVE  /\ owner[x].epoch \in Nat /\ owner[x].state \in OwnerStates
           /\ owner[x].move \in MoveIds \cup {None}
BY DEF TypeOK, Ownership

LEMMA FreezeEffect ==
    ASSUME TypeInv, NEW i \in MoveIds, Freeze(i)
    PROVE  /\ CatalogSame /\ Records(i, {"freeze"})
           /\ Updates(move[i].source, owner[move[i].source].epoch, "frozen", i)
           /\ owner[move[i].source].epoch = move[i].epoch - 1
           /\ owner[move[i].source].state = "active"
<1>1. move[i].source \in Shards
    BY MoveTyped DEF Freeze, TypeInv
<1>2. QED
    BY <1>1 DEF Freeze, CatalogSame, catalogVars, Records, Updates, TypeInv, TypeOK, Ownership

LEMMA ReserveEffect ==
    ASSUME TypeInv, NEW i \in MoveIds, Reserve(i)
    PROVE  /\ CatalogSame /\ Records(i, {"reserve"})
           /\ Updates(move[i].target, move[i].epoch, "importing", i)
           /\ "freeze" \in done[i]
           /\ owner[move[i].target].epoch < move[i].epoch
           /\ owner[move[i].target].epoch > 0 => owner[move[i].target].state = "retired"
<1>1. move[i].target \in Shards
    BY MoveTyped DEF Reserve, TypeInv, Issued
<1>2. QED
    BY <1>1 DEF Reserve, CatalogSame, catalogVars, Records, Updates, TypeInv, TypeOK

LEMMA ExportEffect ==
    ASSUME TypeInv, NEW i \in MoveIds, Export(i)
    PROVE  CatalogSame /\ UNCHANGED <<owner, done>>
BY DEF Export, CatalogSame, catalogVars, shardVars

LEMMA StageEffect ==
    ASSUME TypeInv, NEW i \in MoveIds, NEW c \in SUBSET Writes, Stage(i, c)
    PROVE  /\ CatalogSame /\ done' = done
           /\ Updates(move[i].target, owner[move[i].target].epoch, "importing", i)
           /\ match(move[i].target, i, move[i].epoch) /\ owner[move[i].target].state = "importing"
<1>1. move[i].target \in Shards
    BY MoveTyped DEF Stage, TypeInv, Issued
<1>2. QED
    BY <1>1 DEF Stage, match, CatalogSame, catalogVars, Updates, TypeInv, TypeOK, Ownership

LEMMA InstallEffect ==
    ASSUME TypeInv, NEW i \in MoveIds, NEW c \in SUBSET Writes, Install(i, c)
    PROVE  /\ CatalogSame /\ Records(i, {"install"})
           /\ Updates(move[i].target, owner[move[i].target].epoch, "installed", i)
           /\ match(move[i].target, i, move[i].epoch) /\ owner[move[i].target].state = "importing"
           /\ "reserve" \in done[i]
<1>1. move[i].target \in Shards
    BY MoveTyped DEF Install, TypeInv, Issued
<1>2. QED
    BY <1>1 DEF Install, match, CatalogSame, catalogVars, Records, Updates, TypeInv, TypeOK, Ownership

LEMMA ActivateEffect ==
    ASSUME TypeInv, NEW i \in MoveIds, Activate(i)
    PROVE  /\ CatalogSame /\ Records(i, {"activate"})
           /\ Updates(move[i].target, owner[move[i].target].epoch, "active", i)
           /\ match(move[i].target, i, move[i].epoch)
           /\ owner[move[i].target].state \in {"installed", "active"}
           /\ "cutover" \in done[i]
<1>1. move[i].target \in Shards
    BY MoveTyped DEF Activate, TypeInv, Issued
<1>2. QED
    BY <1>1 DEF Activate, match, CatalogSame, catalogVars, Records, Updates, TypeInv, TypeOK, Ownership

LEMMA RetireEffect ==
    ASSUME TypeInv, NEW i \in MoveIds, Retire(i)
    PROVE  /\ CatalogSame /\ Records(i, {"retire"})
           /\ Updates(move[i].source, owner[move[i].source].epoch, "retired", i)
           /\ match(move[i].source, i, move[i].epoch - 1)
           /\ owner[move[i].source].state = "frozen" /\ "activated" \in done[i]
<1>1. move[i].source \in Shards
    BY MoveTyped DEF Retire, TypeInv, Issued
<1>2. QED
    BY <1>1 DEF Retire, match, CatalogSame, catalogVars, Records, Updates, TypeInv, TypeOK, Ownership

LEMMA ThawEffect ==
    ASSUME TypeInv, NEW i \in MoveIds, Thaw(i)
    PROVE  /\ CatalogSame /\ Records(i, {"thaw"})
           /\ Updates(move[i].source, move[i].epoch, "active", i)
           /\ owner[move[i].source].epoch + 1 = move[i].epoch
           /\ \/ owner[move[i].source].state = "active"
              \/ owner[move[i].source].state = "frozen" /\ owner[move[i].source].move = i
           /\ "cancel" \in done[i]
<1>1. move[i].source \in Shards
    BY MoveTyped DEF Thaw, TypeInv, Issued
<1>2. QED
    BY <1>1 DEF Thaw, canThaw, thawedRecord, Unowned, CatalogSame, catalogVars, Records, Updates, TypeInv, TypeOK

LEMMA DiscardEffect ==
    ASSUME TypeInv, NEW i \in MoveIds, Discard(i)
    PROVE  /\ CatalogSame /\ Records(i, {"discard"})
           /\ Updates(move[i].target, move[i].epoch, "retired", i)
           /\ "thawed" \in done[i]
           /\ \/ owner[move[i].target].epoch = 0
              \/ match(move[i].target, i, move[i].epoch) /\ owner[move[i].target].state # "active"
<1>1. move[i].target \in Shards
    BY MoveTyped DEF Discard, TypeInv, Issued
<1>2. owner[move[i].target].epoch \in Nat
    BY <1>1, RecordFields DEF TypeInv
<1>3. QED
    BY <1>1, <1>2 DEF Discard, nothingToDiscard, discardable, match, Unowned, CatalogSame, catalogVars, Records, Updates,
       TypeInv, TypeOK

LEMMA DiscardNothingEffect ==
    ASSUME TypeInv, NEW i \in MoveIds, DiscardNothing(i)
    PROVE  CatalogSame /\ Records(i, {"discard"}) /\ owner' = owner
BY DEF DiscardNothing, CatalogSame, catalogVars, shardVars, Records, TypeInv, TypeOK

LEMMA OwnEffect ==
    ASSUME TypeInv, Own
    PROVE  /\ CatalogSame /\ done' = done /\ home \in Shards
           /\ Updates(home, 1, "active", None)
           /\ owner[home].epoch = 0 \/ (owner[home].epoch = 1 /\ owner[home].state = "active")
<1>1. home \in Shards
    BY DEF Own, TypeInv, TypeOK
<1>2. QED
    BY <1>1 DEF Own, CatalogSame, catalogVars, Updates, Unowned, TypeInv, TypeOK

\* Facts about every issued move and every record, used by the steps below.
LEMMA AllTyped ==
    ASSUME TypeInv
    PROVE  /\ \A j \in MoveIds : done[j] # {} =>
                /\ move[j].source \in Shards /\ move[j].target \in Shards
                /\ move[j].epoch \in Nat \ {0, 1}
           /\ place.id # None => place.id \in MoveIds /\ move[place.id].source \in Shards
                /\ move[place.id].target \in Shards /\ move[place.id].epoch \in Nat \ {0, 1}
           /\ \A x \in Shards : owner[x].epoch \in Nat
           /\ place.epoch \in Nat /\ home \in Shards \cup {None}
<1>1. place.id # None => place.id \in MoveIds
    BY DEF TypeInv, TypeOK, Placement
<1>2. QED
    BY <1>1, MoveTyped, RecordFields DEF TypeInv, TypeOK, Issued, Placement

LEMMA OwnershipShard ==
    ASSUME TypeInv, OwnershipInv, NEW i \in MoveIds, ShardStep(i)
    PROVE  PhaseMatchesMove' /\ StepsInOrder' /\ StepsLeaveEpoch' /\ HomeIsAssigned'
           /\ ActiveHasEpoch' /\ CopyKeepsSourceFrozen'
<1> DEFINE Goal == PhaseMatchesMove' /\ StepsInOrder' /\ StepsLeaveEpoch' /\ HomeIsAssigned'
                   /\ ActiveHasEpoch' /\ CopyKeepsSourceFrozen'
<1>1. /\ PhaseMatchesMove /\ StepsInOrder /\ StepsLeaveEpoch /\ HomeIsAssigned
      /\ ActiveHasEpoch /\ CopyKeepsSourceFrozen
    BY DEF OwnershipInv
<1>2. move[i].source \in Shards /\ move[i].target \in Shards /\ move[i].epoch \in Nat \ {0, 1}
    BY CallsIssued, MoveTyped DEF TypeInv
<1> USE <1>1, <1>2, AllTyped
<1> USE DEF Updates, Records, CatalogSame
<1>3. CASE Freeze(i)
  <2>1. CatalogSame /\ PhaseMatchesMove'
    BY <1>3, FreezeEffect DEF PhaseMatchesMove, match
  <2>2. StepsInOrder'
    BY <1>3, FreezeEffect DEF StepsInOrder, match
  <2>3. StepsLeaveEpoch'
    BY <1>3, FreezeEffect DEF StepsLeaveEpoch, StepsInOrder, match
  <2>4. HomeIsAssigned'
    BY <1>3, FreezeEffect DEF HomeIsAssigned, match
  <2>5. ActiveHasEpoch'
    BY <1>3, FreezeEffect DEF ActiveHasEpoch, StepsInOrder, StepsLeaveEpoch, PhaseMatchesMove, match
  <2>6. CopyKeepsSourceFrozen'
    BY <1>3, FreezeEffect DEF CopyKeepsSourceFrozen, StepsInOrder, matchesMove, match
  <2>7. QED
    BY <2>1, <2>2, <2>3, <2>4, <2>5, <2>6
<1>4. CASE Reserve(i)
  <2>1. CatalogSame /\ PhaseMatchesMove'
    BY <1>4, ReserveEffect DEF PhaseMatchesMove, match
  <2>2. StepsInOrder'
    BY <1>4, ReserveEffect DEF StepsInOrder, match
  <2>3. StepsLeaveEpoch'
    BY <1>4, ReserveEffect DEF StepsLeaveEpoch, StepsInOrder, match
  <2>4. HomeIsAssigned'
    BY <1>4, ReserveEffect DEF HomeIsAssigned, match
  <2>5. ActiveHasEpoch'
    BY <1>4, ReserveEffect DEF ActiveHasEpoch, StepsInOrder, StepsLeaveEpoch, PhaseMatchesMove, match
  <2>6. CopyKeepsSourceFrozen'
    BY <1>4, ReserveEffect DEF CopyKeepsSourceFrozen, StepsInOrder, matchesMove, match
  <2>7. QED
    BY <2>1, <2>2, <2>3, <2>4, <2>5, <2>6
<1>5. ASSUME NEW c \in SUBSET Writes, Stage(i, c) PROVE Goal
  <2>1. CatalogSame /\ PhaseMatchesMove'
    BY <1>5, StageEffect DEF PhaseMatchesMove, match
  <2>2. StepsInOrder'
    BY <1>5, StageEffect DEF StepsInOrder, match
  <2>3. StepsLeaveEpoch'
    BY <1>5, StageEffect DEF StepsLeaveEpoch, StepsInOrder, match
  <2>4. HomeIsAssigned'
    BY <1>5, StageEffect DEF HomeIsAssigned, match
  <2>5. ActiveHasEpoch'
    BY <1>5, StageEffect DEF ActiveHasEpoch, StepsInOrder, StepsLeaveEpoch, PhaseMatchesMove, match
  <2>6. CopyKeepsSourceFrozen'
    BY <1>5, StageEffect DEF CopyKeepsSourceFrozen, StepsInOrder, matchesMove, match
  <2>7. QED
    BY <2>1, <2>2, <2>3, <2>4, <2>5, <2>6
<1>6. ASSUME NEW c \in SUBSET Writes, Install(i, c) PROVE Goal
  <2>1. CatalogSame /\ PhaseMatchesMove'
    BY <1>6, InstallEffect DEF PhaseMatchesMove, match
  <2>2. StepsInOrder'
    BY <1>6, InstallEffect DEF StepsInOrder, match
  <2>3. StepsLeaveEpoch'
    BY <1>6, InstallEffect DEF StepsLeaveEpoch, StepsInOrder, match
  <2>4. HomeIsAssigned'
    BY <1>6, InstallEffect DEF HomeIsAssigned, match
  <2>5. ActiveHasEpoch'
    BY <1>6, InstallEffect DEF ActiveHasEpoch, StepsInOrder, StepsLeaveEpoch, PhaseMatchesMove, match
  <2>6. CopyKeepsSourceFrozen'
    BY <1>6, InstallEffect DEF CopyKeepsSourceFrozen, StepsInOrder, matchesMove, match
  <2>7. QED
    BY <2>1, <2>2, <2>3, <2>4, <2>5, <2>6
<1>7. CASE Activate(i)
  <2>1. CatalogSame /\ PhaseMatchesMove'
    BY <1>7, ActivateEffect DEF PhaseMatchesMove, match
  <2>2. StepsInOrder'
    BY <1>7, ActivateEffect DEF StepsInOrder, match
  <2>3. StepsLeaveEpoch'
    BY <1>7, ActivateEffect DEF StepsLeaveEpoch, StepsInOrder, match
  <2>4. HomeIsAssigned'
    BY <1>7, ActivateEffect DEF HomeIsAssigned, match
  <2>5. ActiveHasEpoch'
    BY <1>7, ActivateEffect DEF ActiveHasEpoch, StepsInOrder, StepsLeaveEpoch, PhaseMatchesMove, match
  <2>6. CopyKeepsSourceFrozen'
    BY <1>7, ActivateEffect DEF CopyKeepsSourceFrozen, StepsInOrder, matchesMove, match
  <2>7. QED
    BY <2>1, <2>2, <2>3, <2>4, <2>5, <2>6
<1>8. CASE Retire(i)
  <2>1. CatalogSame /\ PhaseMatchesMove'
    BY <1>8, RetireEffect DEF PhaseMatchesMove, match
  <2>2. StepsInOrder'
    BY <1>8, RetireEffect DEF StepsInOrder, match
  <2>3. StepsLeaveEpoch'
    BY <1>8, RetireEffect DEF StepsLeaveEpoch, StepsInOrder, match
  <2>4. HomeIsAssigned'
    BY <1>8, RetireEffect DEF HomeIsAssigned, match
  <2>5. ActiveHasEpoch'
    BY <1>8, RetireEffect DEF ActiveHasEpoch, StepsInOrder, StepsLeaveEpoch, PhaseMatchesMove, match
  <2>6. CopyKeepsSourceFrozen'
    BY <1>8, RetireEffect DEF CopyKeepsSourceFrozen, StepsInOrder, matchesMove, match
  <2>7. QED
    BY <2>1, <2>2, <2>3, <2>4, <2>5, <2>6
<1>9. CASE Thaw(i)
  <2>1. CatalogSame /\ PhaseMatchesMove'
    BY <1>9, ThawEffect DEF PhaseMatchesMove, match
  <2>2. StepsInOrder'
    BY <1>9, ThawEffect DEF StepsInOrder, match
  <2>3. StepsLeaveEpoch'
    BY <1>9, ThawEffect DEF StepsLeaveEpoch, StepsInOrder, match
  <2>4. HomeIsAssigned'
    BY <1>9, ThawEffect DEF HomeIsAssigned, match
  <2>5. ActiveHasEpoch'
    BY <1>9, ThawEffect DEF ActiveHasEpoch, StepsInOrder, StepsLeaveEpoch, PhaseMatchesMove, match
  <2>6. CopyKeepsSourceFrozen'
    BY <1>9, ThawEffect DEF CopyKeepsSourceFrozen, StepsInOrder, matchesMove, match
  <2>7. QED
    BY <2>1, <2>2, <2>3, <2>4, <2>5, <2>6
<1>10. CASE Discard(i)
  <2>1. CatalogSame /\ PhaseMatchesMove'
    BY <1>10, DiscardEffect DEF PhaseMatchesMove, match
  <2>2. StepsInOrder'
    BY <1>10, DiscardEffect DEF StepsInOrder, match
  <2>3. StepsLeaveEpoch'
    BY <1>10, DiscardEffect DEF StepsLeaveEpoch, StepsInOrder, match
  <2>4. HomeIsAssigned'
    BY <1>10, DiscardEffect DEF HomeIsAssigned, match
  <2>5. ActiveHasEpoch'
    BY <1>10, DiscardEffect DEF ActiveHasEpoch, StepsInOrder, StepsLeaveEpoch, PhaseMatchesMove, match
  <2>6. CopyKeepsSourceFrozen'
    BY <1>10, DiscardEffect DEF CopyKeepsSourceFrozen, StepsInOrder, matchesMove, match
  <2>7. QED
    BY <2>1, <2>2, <2>3, <2>4, <2>5, <2>6
<1>11. CASE DiscardNothing(i)
  <2>1. CatalogSame /\ PhaseMatchesMove'
    BY <1>11, DiscardNothingEffect DEF PhaseMatchesMove, match
  <2>2. StepsInOrder'
    BY <1>11, DiscardNothingEffect DEF StepsInOrder, match
  <2>3. StepsLeaveEpoch'
    BY <1>11, DiscardNothingEffect DEF StepsLeaveEpoch, StepsInOrder, match
  <2>4. HomeIsAssigned'
    BY <1>11, DiscardNothingEffect DEF HomeIsAssigned, match
  <2>5. ActiveHasEpoch'
    BY <1>11, DiscardNothingEffect DEF ActiveHasEpoch, StepsInOrder, StepsLeaveEpoch, PhaseMatchesMove, match
  <2>6. CopyKeepsSourceFrozen'
    BY <1>11, DiscardNothingEffect DEF CopyKeepsSourceFrozen, StepsInOrder, matchesMove, match
  <2>7. QED
    BY <2>1, <2>2, <2>3, <2>4, <2>5, <2>6
<1>12. CASE Export(i)
    BY <1>12, ExportEffect DEF PhaseMatchesMove, StepsInOrder, StepsLeaveEpoch, HomeIsAssigned,
       ActiveHasEpoch, CopyKeepsSourceFrozen, matchesMove, match
<1>13. QED
    BY <1>3, <1>4, <1>5, <1>6, <1>7, <1>8, <1>9, <1>10, <1>11, <1>12 DEF ShardStep

LEMMA OwnershipOwn ==
    ASSUME TypeInv, OwnershipInv, Own
    PROVE  PhaseMatchesMove' /\ StepsInOrder' /\ StepsLeaveEpoch' /\ HomeIsAssigned'
           /\ ActiveHasEpoch' /\ CopyKeepsSourceFrozen'
<1>1. /\ PhaseMatchesMove /\ StepsInOrder /\ StepsLeaveEpoch /\ HomeIsAssigned
      /\ ActiveHasEpoch /\ CopyKeepsSourceFrozen /\ Issued
    BY DEF OwnershipInv
<1> USE <1>1, AllTyped, OwnEffect
<1> USE DEF Updates, CatalogSame
<1>2. PhaseMatchesMove' /\ StepsInOrder'
    BY DEF PhaseMatchesMove, StepsInOrder
<1>3. StepsLeaveEpoch'
    BY DEF StepsLeaveEpoch
<1>4. HomeIsAssigned'
    BY DEF HomeIsAssigned
<1>5. ActiveHasEpoch'
    BY ConstantsAssumption DEF ActiveHasEpoch, HomeIsAssigned
<1>6. CopyKeepsSourceFrozen'
    BY DEF CopyKeepsSourceFrozen, matchesMove, match
<1>7. QED
    BY <1>2, <1>3, <1>4, <1>5, <1>6

\* What a catalog step does to the placement, field by field.
Places(s, e, st, id, ph) ==
    place'.shard = s /\ place'.epoch = e /\ place'.state = st /\ place'.id = id /\ place'.phase = ph

LEMMA OwnershipCatalog ==
    ASSUME TypeInv, OwnershipInv, CatalogNext
    PROVE  PhaseMatchesMove' /\ StepsInOrder' /\ StepsLeaveEpoch' /\ HomeIsAssigned'
           /\ ActiveHasEpoch' /\ CopyKeepsSourceFrozen'
<1> DEFINE Goal == PhaseMatchesMove' /\ StepsInOrder' /\ StepsLeaveEpoch' /\ HomeIsAssigned'
                   /\ ActiveHasEpoch' /\ CopyKeepsSourceFrozen'
<1>1. /\ PhaseMatchesMove /\ StepsInOrder /\ StepsLeaveEpoch /\ HomeIsAssigned
      /\ ActiveHasEpoch /\ CopyKeepsSourceFrozen /\ Issued
    BY DEF OwnershipInv
<1>2. /\ place \in Placement /\ place.shard \in Shards \cup {None} /\ None \notin Shards /\ None \notin MoveIds
      /\ done \in [MoveIds -> SUBSET Steps]
    BY ConstantsAssumption DEF TypeInv, TypeOK, Placement
<1>3. owner' = owner
    BY DEF CatalogNext, RegistryStep, RegisterShard, DrainShard, ResumeShard, UnregisterShard, Assign,
       StartMove, CatalogStep, Cutover, Activated, Cleaned, Thawed, Cancelled, Assigned, Cancel, shardVars
<1> USE <1>1, <1>2, <1>3, AllTyped
<1> USE DEF Places, Records
<1>4. ASSUME NEW x \in Shards, RegistryStep(x) PROVE Goal
    BY <1>4 DEF RegistryStep, RegisterShard, DrainShard, ResumeShard, UnregisterShard, PhaseMatchesMove,
       StepsInOrder, StepsLeaveEpoch, HomeIsAssigned, ActiveHasEpoch, CopyKeepsSourceFrozen, matchesMove, match
<1>5. ASSUME NEW x \in Shards, Assign(x) PROVE Goal
  <2>1. Places(x, 1, "assigning", None, "none") /\ UNCHANGED <<move, done>> /\ home' = x /\ place.shard = None
        /\ place.id = None
    BY <1>5 DEF Assign, Unplaced
  <2>2. PhaseMatchesMove' /\ StepsInOrder' /\ StepsLeaveEpoch' /\ HomeIsAssigned'
    BY <2>1 DEF PhaseMatchesMove, StepsInOrder, StepsLeaveEpoch, HomeIsAssigned
  <2>3. ActiveHasEpoch' /\ CopyKeepsSourceFrozen'
    BY <2>1 DEF ActiveHasEpoch, CopyKeepsSourceFrozen, matchesMove
  <2>4. QED
    BY <2>2, <2>3
<1>6. ASSUME NEW i \in MoveIds, NEW x \in Shards, StartMove(i, x) PROVE Goal
  <2>1. /\ Places(place.shard, place.epoch, "moving", i, "copy") /\ UNCHANGED <<home, done>>
        /\ move'[i].source = place.shard /\ move'[i].target = x /\ move'[i].epoch = place.epoch + 1
        /\ \A j \in MoveIds \ {i} : move'[j] = move[j]
        /\ place.state = "active" /\ place.id = None /\ done[i] = {} /\ place.phase = "none"
    BY <1>6 DEF StartMove, nextEpoch, TypeInv, TypeOK, Issued, Placement
  <2>2. PhaseMatchesMove' /\ HomeIsAssigned'
    BY <2>1 DEF PhaseMatchesMove, HomeIsAssigned
  <2>3. StepsInOrder'
    BY <2>1 DEF StepsInOrder
  <2>4. StepsLeaveEpoch'
    BY <2>1 DEF StepsLeaveEpoch
  <2>5. ActiveHasEpoch' /\ CopyKeepsSourceFrozen'
    BY <2>1 DEF ActiveHasEpoch, CopyKeepsSourceFrozen, matchesMove
  <2>6. QED
    BY <2>2, <2>3, <2>4, <2>5
<1>7. CASE Assigned
  <2>1. /\ Places(place.shard, place.epoch, "active", place.id, place.phase) /\ UNCHANGED <<move, done, home>>
        /\ place.state = "assigning" /\ owner[home].epoch > 0
    BY <1>7 DEF Assigned, Placement
  <2>2. PhaseMatchesMove' /\ StepsInOrder' /\ StepsLeaveEpoch' /\ HomeIsAssigned'
    BY <2>1 DEF PhaseMatchesMove, StepsInOrder, StepsLeaveEpoch, HomeIsAssigned
  <2>3. ActiveHasEpoch' /\ CopyKeepsSourceFrozen'
    BY <2>1 DEF ActiveHasEpoch, CopyKeepsSourceFrozen, matchesMove, match
  <2>4. QED
    BY <2>2, <2>3
<1>8. CASE Cancel
  <2>1. /\ place.id \in MoveIds /\ place.phase = "copy" /\ place.state # "assigning"
        /\ Places(place.shard, place.epoch, "cancelling", place.id, "cancel") /\ UNCHANGED <<move, home>>
        /\ Records(place.id, {"cancel"})
    BY <1>8 DEF Cancel, Placement, HomeIsAssigned
  <2>2. home # None => owner[home].epoch > 0
    BY <2>1 DEF HomeIsAssigned, Issued
  <2>3. PhaseMatchesMove' /\ HomeIsAssigned'
    BY <2>1, <2>2 DEF PhaseMatchesMove, HomeIsAssigned
  <2>4. StepsInOrder'
    BY <2>1 DEF StepsInOrder
  <2>5. StepsLeaveEpoch'
    BY <2>1 DEF StepsLeaveEpoch
  <2>6. ActiveHasEpoch' /\ CopyKeepsSourceFrozen'
    BY <2>1 DEF ActiveHasEpoch, CopyKeepsSourceFrozen, matchesMove
  <2>7. QED
    BY <2>3, <2>4, <2>5, <2>6
<1>9. ASSUME NEW i \in MoveIds, Cutover(i) PROVE Goal
  <2>1. /\ "install" \in done[i] /\ place.id = i /\ place.phase = "copy" /\ place.state # "assigning"
        /\ Places(move[i].target, move[i].epoch, "activating", i, "activate") /\ UNCHANGED <<move, home>>
        /\ Records(i, {"cutover"})
    BY <1>9 DEF Cutover, matchesMove, Placement, HomeIsAssigned
  <2>2. PhaseMatchesMove' /\ HomeIsAssigned'
    BY <2>1 DEF PhaseMatchesMove, HomeIsAssigned
  <2>3. StepsInOrder'
    BY <2>1 DEF StepsInOrder
  <2>4. StepsLeaveEpoch'
    BY <2>1 DEF StepsLeaveEpoch
  <2>5. \A x \in Shards : owner[x].state # "active"
    BY <2>1 DEF ActiveHasEpoch, CopyKeepsSourceFrozen, StepsInOrder, PhaseMatchesMove, matchesMove
  <2>6. ActiveHasEpoch' /\ CopyKeepsSourceFrozen'
    BY <2>1, <2>5 DEF ActiveHasEpoch, CopyKeepsSourceFrozen, matchesMove
  <2>7. QED
    BY <2>2, <2>3, <2>4, <2>6
<1>10. ASSUME NEW i \in MoveIds, Activated(i) PROVE Goal
  <2>1. /\ "activate" \in done[i] /\ place.id = i /\ place.phase = "activate" /\ place.state # "assigning"
        /\ Places(place.shard, place.epoch, "active", i, "cleanup") /\ UNCHANGED <<move, home>>
        /\ Records(i, {"activated"})
    BY <1>10 DEF Activated, matchesMove, Placement, HomeIsAssigned
  <2>2. PhaseMatchesMove' /\ HomeIsAssigned'
    BY <2>1 DEF PhaseMatchesMove, HomeIsAssigned
  <2>3. StepsInOrder'
    BY <2>1 DEF StepsInOrder
  <2>4. StepsLeaveEpoch'
    BY <2>1 DEF StepsLeaveEpoch
  <2>5. ActiveHasEpoch' /\ CopyKeepsSourceFrozen'
    BY <2>1 DEF ActiveHasEpoch, CopyKeepsSourceFrozen, matchesMove
  <2>6. QED
    BY <2>2, <2>3, <2>4, <2>5
<1>11. ASSUME NEW i \in MoveIds, Cleaned(i) PROVE Goal
  <2>1. /\ place.id = i /\ place.phase = "cleanup" /\ place.state # "assigning"
        /\ Places(place.shard, place.epoch, place.state, None, "none") /\ UNCHANGED <<move, home, done>>
    BY <1>11 DEF Cleaned, matchesMove, Placement, HomeIsAssigned
  <2>2. PhaseMatchesMove' /\ HomeIsAssigned' /\ StepsInOrder' /\ StepsLeaveEpoch'
    BY <2>1 DEF PhaseMatchesMove, HomeIsAssigned, StepsInOrder, StepsLeaveEpoch
  <2>3. ActiveHasEpoch' /\ CopyKeepsSourceFrozen'
    BY <2>1 DEF ActiveHasEpoch, CopyKeepsSourceFrozen, matchesMove
  <2>4. QED
    BY <2>2, <2>3
<1>12. ASSUME NEW i \in MoveIds, Thawed(i) PROVE Goal
  <2>1. /\ "thaw" \in done[i] /\ place.id = i /\ place.phase = "cancel" /\ place.state # "assigning"
        /\ Places(place.shard, move[i].epoch, "active", i, "discard") /\ UNCHANGED <<move, home>>
        /\ Records(i, {"thawed"})
    BY <1>12 DEF Thawed, matchesMove, Placement, HomeIsAssigned
  <2>2. PhaseMatchesMove' /\ HomeIsAssigned'
    BY <2>1 DEF PhaseMatchesMove, HomeIsAssigned
  <2>3. StepsInOrder'
    BY <2>1 DEF StepsInOrder
  <2>4. StepsLeaveEpoch'
    BY <2>1 DEF StepsLeaveEpoch
  <2>5. ActiveHasEpoch' /\ CopyKeepsSourceFrozen'
    BY <2>1 DEF ActiveHasEpoch, StepsLeaveEpoch, PhaseMatchesMove, CopyKeepsSourceFrozen, matchesMove
  <2>6. QED
    BY <2>2, <2>3, <2>4, <2>5
<1>13. ASSUME NEW i \in MoveIds, Cancelled(i) PROVE Goal
  <2>1. /\ place.id = i /\ place.phase = "discard" /\ place.state # "assigning"
        /\ Places(place.shard, move[i].epoch, "active", None, "none") /\ UNCHANGED <<move, home>>
        /\ Records(i, {"cancelled"})
    BY <1>13 DEF Cancelled, matchesMove, Placement, HomeIsAssigned
  <2>2. PhaseMatchesMove' /\ HomeIsAssigned'
    BY <2>1 DEF PhaseMatchesMove, HomeIsAssigned
  <2>3. StepsInOrder' /\ StepsLeaveEpoch'
    BY <2>1 DEF StepsInOrder, StepsLeaveEpoch
  <2>4. ActiveHasEpoch' /\ CopyKeepsSourceFrozen'
    BY <2>1 DEF ActiveHasEpoch, PhaseMatchesMove, CopyKeepsSourceFrozen, matchesMove
  <2>5. QED
    BY <2>2, <2>3, <2>4
<1>14. QED
    BY <1>4, <1>5, <1>6, <1>7, <1>8, <1>9, <1>10, <1>11, <1>12, <1>13 DEF CatalogNext, CatalogStep

LEMMA OwnershipInit == Init => OwnershipInv
<1>1. Init => Issued
    BY TypeInit DEF TypeInv
<1>2. QED
    BY <1>1, ConstantsAssumption DEF Init, OwnershipInv, PhaseMatchesMove, StepsInOrder, StepsLeaveEpoch,
       HomeIsAssigned, ActiveHasEpoch, CopyKeepsSourceFrozen, Unplaced, Unowned, matchesMove

LEMMA OwnershipNext == TypeInv /\ OwnershipInv /\ [Next]_vars => OwnershipInv'
<1> SUFFICES ASSUME TypeInv, OwnershipInv, [Next]_vars PROVE OwnershipInv'
    OBVIOUS
<1>1. Issued'
    BY TypeNext DEF TypeInv
<1>2. ASSUME UNCHANGED <<place, home, move, done, owner>> PROVE OwnershipInv'
    BY <1>1, <1>2 DEF OwnershipInv, PhaseMatchesMove, StepsInOrder, StepsLeaveEpoch, HomeIsAssigned,
       ActiveHasEpoch, CopyKeepsSourceFrozen, matchesMove, match
<1>3. CASE ClientStep
    BY <1>2, <1>3 DEF ClientStep, Resolve, Commit, Accept, Flush, catalogVars, shardVars
<1>4. CASE UNCHANGED vars
    BY <1>2, <1>4 DEF vars, catalogVars, shardVars
<1>5. CASE CatalogNext
    BY <1>1, <1>5, OwnershipCatalog DEF OwnershipInv
<1>6. CASE Own
    BY <1>1, <1>6, OwnershipOwn DEF OwnershipInv
<1>7. ASSUME NEW i \in MoveIds, ShardStep(i) PROVE OwnershipInv'
    BY <1>1, <1>7, OwnershipShard DEF OwnershipInv
<1>8. QED
    BY <1>3, <1>4, <1>5, <1>6, <1>7 DEF Next

(***************************************************************************)
(* Only the shard on which the catalog places the tenant ever serves it,   *)
(* for any number of shards and moves and any interleaving of late,        *)
(* repeated and reordered coordinator calls.                               *)
(***************************************************************************)
THEOREM SingleOwner == Spec => []ActiveIsPlaced
<1>1. Init => TypeInv /\ OwnershipInv
    BY TypeInit, OwnershipInit
<1>2. TypeInv /\ OwnershipInv /\ [Next]_vars => (TypeInv /\ OwnershipInv)'
    BY TypeNext, OwnershipNext
<1>3. TypeInv /\ OwnershipInv => ActiveIsPlaced
    BY DEF OwnershipInv, ActiveHasEpoch, ActiveIsPlaced
<1>4. QED
    BY <1>1, <1>2, <1>3, PTL DEF Spec
=============================================================================
