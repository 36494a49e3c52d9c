--------------------------- MODULE ShardMigration ---------------------------
(***************************************************************************)
(* Placement and migration of one tenant between the data shards of a      *)
(* sharded cluster.                                                        *)
(*                                                                         *)
(* Three replicated state machines take part.  The catalog group keeps the *)
(* shard registry and the tenant's placement (ha/shard_catalog.go).  Every *)
(* data shard keeps an ownership record for the tenant and fences requests *)
(* with it (ha/shard_ownership.go).  The coordinator of whichever process  *)
(* leads the catalog group drives a move by calling the shards and then    *)
(* recording the outcome in the catalog (ha/shard_migration.go,            *)
(* ha/shard_copy.go).  Tenants do not interact in any of these operations, *)
(* so one tenant is modelled.                                              *)
(*                                                                         *)
(* Coordinators are not processes of the model.  A deposed catalog leader  *)
(* may still hold a placement it read long ago, a call that timed out may  *)
(* still be in flight, and a new leader repeats calls already made: a call *)
(* can therefore reach its shard at any time after the step that leads the *)
(* coordinator to it has succeeded once, and as often as it likes.  The    *)
(* history variable done[i] records the steps of move i that have          *)
(* succeeded, and the guard of an operation names the step it follows.  A  *)
(* refused call, and a repeated call that finds its own effect and answers *)
(* OK, change nothing and are stuttering steps.                            *)
(***************************************************************************)
EXTENDS Naturals, FiniteSets

CONSTANTS Shards,     \* data shard groups
          MoveIds,    \* identities a move can get (the command ID)
          Writes,     \* client mutations of the tenant
          Parts,      \* chunks of an export
          MaxEpoch,   \* math.MaxUint64
          Unmanaged,  \* shards holding tenant data from before sharding
          None

ASSUME ConstantsAssumption ==
    /\ Parts \in Nat \ {0}
    /\ MaxEpoch \in Nat \ {0}
    /\ Unmanaged \subseteq Shards
    /\ None \notin Shards \cup MoveIds

VARIABLES
    registry,   \* catalog: registration state of each shard
    place,      \* catalog: the tenant's placement and its move, if any
    home,       \* shard named by the committed "assign"
    move,       \* the moves the catalog has accepted; epoch 0: not issued
    done,       \* steps of each move that have succeeded at least once
    owner,      \* ownership record of the tenant at each shard
    data,       \* committed tenant graph at each shard, as a set of writes
    accepted,   \* accepted ingestion and queued tasks not yet executed
    exported,   \* exports taken from a frozen source: <<move, content>>
    unmanaged,  \* shards that hold tenant data no placement covers
    routes,     \* placements a router has resolved: <<shard, epoch>>
    acked       \* writes acknowledged to a client

catalogVars == <<registry, place, home, move>>
shardVars   == <<owner, data, accepted, unmanaged>>
clientVars  == <<routes, acked>>
vars == <<catalogVars, done, shardVars, exported, clientVars>>

Registration == {"absent", "open", "draining"}
PlaceStates == {"none", "assigning", "active", "moving", "activating", "cancelling"}
Phases == {"none", "copy", "activate", "cleanup", "cancel", "discard"}
OwnerStates == {"none", "active", "frozen", "importing", "installed", "retired"}
Steps == {"freeze", "reserve", "install", "cutover", "activate", "activated",
          "retire", "cancel", "thaw", "thawed", "discard", "cancelled"}

\* digest: the content whose digest is recorded, if any ({} or a singleton).
Ownership == [epoch : Nat, state : OwnerStates, move : MoveIds \cup {None},
              next : Nat, digest : SUBSET SUBSET Writes]
Placement == [shard : Shards \cup {None}, epoch : Nat, state : PlaceStates,
              id : MoveIds \cup {None}, phase : Phases]

Unowned  == [epoch |-> 0, state |-> "none", move |-> None, next |-> 0, digest |-> {}]
Unplaced == [shard |-> None, epoch |-> 0, state |-> "none", id |-> None, phase |-> "none"]
NoMove   == [source |-> None, target |-> None, epoch |-> 0]

Init ==
    /\ registry = [s \in Shards |-> "absent"]
    /\ place = Unplaced
    /\ home = None
    /\ move = [i \in MoveIds |-> NoMove]
    /\ done = [i \in MoveIds |-> {}]
    /\ owner = [s \in Shards |-> Unowned]
    /\ data = [s \in Shards |-> {}]
    /\ accepted = [s \in Shards |-> {}]
    /\ exported = {}
    /\ unmanaged = Unmanaged
    /\ routes = {}
    /\ acked = {}

(***************************************************************************)
(* The catalog group: applyCatalog.                                        *)
(***************************************************************************)
RegisterShard(s) ==
    /\ registry[s] = "absent"
    /\ registry' = [registry EXCEPT ![s] = "open"]
    /\ UNCHANGED <<place, home, move, done, shardVars, exported, clientVars>>

DrainShard(s) ==
    /\ registry[s] = "open"
    /\ registry' = [registry EXCEPT ![s] = "draining"]
    /\ UNCHANGED <<place, home, move, done, shardVars, exported, clientVars>>

ResumeShard(s) ==
    /\ registry[s] = "draining"
    /\ registry' = [registry EXCEPT ![s] = "open"]
    /\ UNCHANGED <<place, home, move, done, shardVars, exported, clientVars>>

\* Mutant: the shards of an unfinished move are not looked at.
UnregisterOwnerless(s) ==
    /\ registry[s] = "draining" /\ place.shard # s
    /\ registry' = [registry EXCEPT ![s] = "absent"]
    /\ UNCHANGED <<place, home, move, done, shardVars, exported, clientVars>>

UnregisterShard(s) ==
    /\ registry[s] = "draining"
    /\ place.shard # s
    /\ place.id # None => s \notin {move[place.id].source, move[place.id].target}
    /\ registry' = [registry EXCEPT ![s] = "absent"]
    /\ UNCHANGED <<place, home, move, done, shardVars, exported, clientVars>>

\* leastPopulatedShard is one way of choosing the target; a caller may name any.
Assign(s) ==
    /\ place = Unplaced
    /\ registry[s] = "open"
    /\ place' = [place EXCEPT !.shard = s, !.epoch = 1, !.state = "assigning"]
    /\ home' = s
    /\ UNCHANGED <<registry, move, done, shardVars, exported, clientVars>>

\* The coordinator records an assignment after the shard answered "own".
Assigned ==
    /\ home # None /\ owner[home].epoch > 0
    /\ place.epoch = 1 /\ place.state = "assigning"
    /\ place' = [place EXCEPT !.state = "active"]
    /\ UNCHANGED <<registry, home, move, done, shardVars, exported, clientVars>>

\* Mutant: the move keeps the epoch of the current placement.
nextEpochStale == place.epoch

nextEpoch == place.epoch + 1

StartMove(i, t) ==
    /\ move[i] = NoMove
    /\ place.state = "active" /\ place.id = None
    /\ registry[t] = "open" /\ t # place.shard
    /\ place.epoch # MaxEpoch
    /\ move' = [move EXCEPT ![i] = [source |-> place.shard, target |-> t,
                                    epoch |-> nextEpoch]]
    /\ place' = [place EXCEPT !.state = "moving", !.id = i, !.phase = "copy"]
    /\ UNCHANGED <<registry, home, done, shardVars, exported, clientVars>>

\* Mutant: a call of a phase that has passed still matches.
matchesMoveId(i, phase) == place.id = i

matchesMove(i, phase) == place.id = i /\ place.phase = phase

Cutover(i) ==
    /\ "install" \in done[i]
    /\ matchesMove(i, "copy")
    /\ place' = [place EXCEPT !.shard = move[i].target, !.epoch = move[i].epoch,
                              !.state = "activating", !.phase = "activate"]
    /\ done' = [done EXCEPT ![i] = @ \cup {"cutover"}]
    /\ UNCHANGED <<registry, home, move, shardVars, exported, clientVars>>

Activated(i) ==
    /\ "activate" \in done[i]
    /\ matchesMove(i, "activate")
    /\ place' = [place EXCEPT !.state = "active", !.phase = "cleanup"]
    /\ done' = [done EXCEPT ![i] = @ \cup {"activated"}]
    /\ UNCHANGED <<registry, home, move, shardVars, exported, clientVars>>

Cleaned(i) ==
    /\ "retire" \in done[i]
    /\ matchesMove(i, "cleanup")
    /\ place' = [place EXCEPT !.id = None, !.phase = "none"]
    /\ UNCHANGED <<registry, home, move, done, shardVars, exported, clientVars>>

\* An operator's request; it names the tenant, not the move.
Cancel ==
    /\ place.id # None /\ place.phase = "copy"
    /\ place' = [place EXCEPT !.state = "cancelling", !.phase = "cancel"]
    /\ done' = [done EXCEPT ![place.id] = @ \cup {"cancel"}]
    /\ UNCHANGED <<registry, home, move, shardVars, exported, clientVars>>

Thawed(i) ==
    /\ "thaw" \in done[i]
    /\ matchesMove(i, "cancel")
    /\ place' = [place EXCEPT !.epoch = move[i].epoch, !.state = "active",
                              !.phase = "discard"]
    /\ done' = [done EXCEPT ![i] = @ \cup {"thawed"}]
    /\ UNCHANGED <<registry, home, move, shardVars, exported, clientVars>>

Cancelled(i) ==
    /\ "discard" \in done[i]
    /\ matchesMove(i, "discard")
    /\ place' = [place EXCEPT !.epoch = move[i].epoch, !.state = "active",
                              !.id = None, !.phase = "none"]
    /\ done' = [done EXCEPT ![i] = @ \cup {"cancelled"}]
    /\ UNCHANGED <<registry, home, move, shardVars, exported, clientVars>>

(***************************************************************************)
(* The data shards: applyOwnership.                                        *)
(***************************************************************************)
match(s, i, e) == owner[s].epoch = e /\ owner[s].move = i

Own ==
    /\ home # None
    /\ owner[home].epoch = 0 \/ (owner[home].epoch = 1 /\ owner[home].state = "active")
    /\ owner' = [owner EXCEPT ![home] = [Unowned EXCEPT !.epoch = 1, !.state = "active"]]
    /\ unmanaged' = unmanaged \ {home}
    /\ UNCHANGED <<catalogVars, done, data, accepted, exported, clientVars>>

\* Mutant: only batches already flushed are considered.
migrationReadyAlways(s) == TRUE

\* No accepted ingestion and no queued or running task.
tenantMigrationReady(s) == accepted[s] = {}

Freeze(i) ==
    LET s == move[i].source IN
    /\ move[i] # NoMove
    /\ owner[s].epoch = move[i].epoch - 1 /\ owner[s].state = "active"
    /\ tenantMigrationReady(s)
    /\ owner' = [owner EXCEPT ![s] = [@ EXCEPT !.state = "frozen", !.move = i]]
    /\ done' = [done EXCEPT ![i] = @ \cup {"freeze"}]
    /\ UNCHANGED <<catalogVars, data, accepted, unmanaged, exported, clientVars>>

Reserve(i) ==
    LET t == move[i].target IN
    /\ "freeze" \in done[i]
    /\ ~ (match(t, i, move[i].epoch) /\ owner[t].state \in {"importing", "installed", "active"})
    /\ owner[t].epoch < move[i].epoch
    /\ owner[t].epoch > 0 => owner[t].state = "retired"
    /\ owner[t].epoch = 0 => t \notin unmanaged
    /\ owner' = [owner EXCEPT ![t] = [epoch |-> move[i].epoch, state |-> "importing",
                                      move |-> i, next |-> 0, digest |-> {}]]
    /\ done' = [done EXCEPT ![i] = @ \cup {"reserve"}]
    /\ UNCHANGED <<catalogVars, data, accepted, unmanaged, exported, clientVars>>

\* tenantTransfer: the export of a source frozen for this very move.
Export(i) ==
    LET s == move[i].source IN
    /\ "reserve" \in done[i]
    /\ match(s, i, move[i].epoch - 1) /\ owner[s].state = "frozen"
    /\ exported' = exported \cup {<<i, data[s]>>}
    /\ UNCHANGED <<catalogVars, done, shardVars, clientVars>>

\* One more chunk of the export with digest c.
Stage(i, c) ==
    LET t == move[i].target IN
    /\ "reserve" \in done[i] /\ <<i, c>> \in exported
    /\ match(t, i, move[i].epoch) /\ owner[t].state = "importing"
    /\ owner[t].next < Parts
    /\ owner[t].digest \subseteq {c}
    /\ owner' = [owner EXCEPT ![t] = [@ EXCEPT !.next = owner[t].next + 1, !.digest = {c}]]
    /\ UNCHANGED <<catalogVars, done, data, accepted, unmanaged, exported, clientVars>>

\* installTenantTransfer replaces the tenant's objects at the destination.
Install(i, c) ==
    LET t == move[i].target IN
    /\ "reserve" \in done[i] /\ <<i, c>> \in exported
    /\ match(t, i, move[i].epoch) /\ owner[t].state = "importing"
    /\ owner[t].next = Parts /\ owner[t].digest = {c}
    /\ owner' = [owner EXCEPT ![t] = [@ EXCEPT !.state = "installed"]]
    /\ data' = [data EXCEPT ![t] = c]
    /\ unmanaged' = unmanaged \ {t}
    /\ done' = [done EXCEPT ![i] = @ \cup {"install"}]
    /\ UNCHANGED <<catalogVars, accepted, exported, clientVars>>

Activate(i) ==
    LET t == move[i].target IN
    /\ "cutover" \in done[i]
    /\ match(t, i, move[i].epoch) /\ owner[t].state \in {"installed", "active"}
    /\ owner' = [owner EXCEPT ![t] = [@ EXCEPT !.state = "active"]]
    /\ done' = [done EXCEPT ![i] = @ \cup {"activate"}]
    /\ UNCHANGED <<catalogVars, data, accepted, unmanaged, exported, clientVars>>

Retire(i) ==
    LET s == move[i].source IN
    /\ "activated" \in done[i]
    /\ match(s, i, move[i].epoch - 1) /\ owner[s].state = "frozen"
    /\ owner' = [owner EXCEPT ![s] = [@ EXCEPT !.state = "retired"]]
    /\ data' = [data EXCEPT ![s] = {}]
    /\ accepted' = [accepted EXCEPT ![s] = {}]
    /\ done' = [done EXCEPT ![i] = @ \cup {"retire"}]
    /\ UNCHANGED <<catalogVars, unmanaged, exported, clientVars>>

\* Mutant: a source that was never frozen refuses the cancellation.
canThawFrozen(s, i) == owner[s].state = "frozen" /\ owner[s].move = i

canThaw(s, i) ==
    owner[s].state = "active" \/ (owner[s].state = "frozen" /\ owner[s].move = i)

\* Mutant: the source is reopened under the epoch it was frozen with.
thawedRecordSameEpoch(i) ==
    [Unowned EXCEPT !.epoch = move[i].epoch - 1, !.state = "active", !.move = i]

thawedRecord(i) ==
    [Unowned EXCEPT !.epoch = move[i].epoch, !.state = "active", !.move = i]

Thaw(i) ==
    LET s == move[i].source IN
    /\ "cancel" \in done[i]
    /\ owner[s].epoch + 1 = move[i].epoch
    /\ canThaw(s, i)
    /\ owner' = [owner EXCEPT ![s] = thawedRecord(i)]
    /\ done' = [done EXCEPT ![i] = @ \cup {"thaw"}]
    /\ UNCHANGED <<catalogVars, data, accepted, unmanaged, exported, clientVars>>

nothingToDiscard(t, i) ==
    owner[t].epoch > move[i].epoch \/ (owner[t].epoch > 0 /\ ~ match(t, i, move[i].epoch))

\* The destination belongs to a later move, or never saw this one: nothing to
\* remove, and the call is answered OK.
DiscardNothing(i) ==
    LET t == move[i].target IN
    /\ "thawed" \in done[i]
    /\ nothingToDiscard(t, i)
    /\ done' = [done EXCEPT ![i] = @ \cup {"discard"}]
    /\ UNCHANGED <<catalogVars, shardVars, exported, clientVars>>

\* Mutant: a complete copy is protected as if it were serving.
discardableUninstalled(t, i) ==
    match(t, i, move[i].epoch) => owner[t].state \notin {"active", "installed"}

\* An active destination cannot be discarded.
discardable(t, i) == match(t, i, move[i].epoch) => owner[t].state # "active"

Discard(i) ==
    LET t == move[i].target
        removes == match(t, i, move[i].epoch) /\ owner[t].state \in {"installed", "importing"}
    IN
    /\ "thawed" \in done[i]
    /\ ~ nothingToDiscard(t, i)
    /\ discardable(t, i)
    /\ owner' = [owner EXCEPT ![t] = [Unowned EXCEPT !.epoch = move[i].epoch,
                                      !.state = "retired", !.move = i]]
    /\ data' = IF removes THEN [data EXCEPT ![t] = {}] ELSE data
    /\ accepted' = IF removes THEN [accepted EXCEPT ![t] = {}] ELSE accepted
    /\ unmanaged' = IF removes THEN unmanaged \ {t} ELSE unmanaged
    /\ done' = [done EXCEPT ![i] = @ \cup {"discard"}]
    /\ UNCHANGED <<catalogVars, exported, clientVars>>

(***************************************************************************)
(* Clients.  A router caches resolutions and proxies with the cached epoch *)
(* (sharding/router.go); the shard checks the epoch again when it applies  *)
(* the mutation, so a route may be arbitrarily old when it is used.        *)
(***************************************************************************)
Resolve ==
    /\ place.state = "active"
    /\ routes' = routes \cup {<<place.shard, place.epoch>>}
    /\ UNCHANGED <<catalogVars, done, shardVars, exported, acked>>

checkOwnership(s, e) == e > 0 /\ owner[s].epoch = e /\ owner[s].state = "active"

\* A direct commit: applied and acknowledged by one replicated command.
Commit(w, s, e) ==
    /\ w \notin acked
    /\ <<s, e>> \in routes
    /\ checkOwnership(s, e)
    /\ data' = [data EXCEPT ![s] = @ \cup {w}]
    /\ acked' = acked \cup {w}
    /\ UNCHANGED <<catalogVars, done, owner, accepted, unmanaged, exported, routes>>

\* WAL ingestion: acknowledged once accepted, executed by a later flush.
Accept(w, s, e) ==
    /\ w \notin acked
    /\ <<s, e>> \in routes
    /\ checkOwnership(s, e)
    /\ accepted' = [accepted EXCEPT ![s] = @ \cup {w}]
    /\ acked' = acked \cup {w}
    /\ UNCHANGED <<catalogVars, done, owner, data, unmanaged, exported, routes>>

\* The leader's flush loop stamps the command with the epoch of its own record;
\* a command refused because the record changed meanwhile is proposed again.
Flush(s, w) ==
    /\ w \in accepted[s]
    /\ owner[s].state = "active"
    /\ accepted' = [accepted EXCEPT ![s] = @ \ {w}]
    /\ data' = [data EXCEPT ![s] = @ \cup {w}]
    /\ UNCHANGED <<catalogVars, done, owner, unmanaged, exported, clientVars>>

-----------------------------------------------------------------------------
RegistryStep(s) == RegisterShard(s) \/ DrainShard(s) \/ ResumeShard(s) \/ UnregisterShard(s)

CatalogStep(i) ==
    Cutover(i) \/ Activated(i) \/ Cleaned(i) \/ Thawed(i) \/ Cancelled(i)

ShardStep(i) ==
    \/ Freeze(i) \/ Reserve(i) \/ Export(i)
    \/ \E c \in SUBSET Writes : Stage(i, c) \/ Install(i, c)
    \/ Activate(i) \/ Retire(i) \/ Thaw(i) \/ DiscardNothing(i) \/ Discard(i)

ClientStep ==
    \/ Resolve
    \/ \E w \in Writes, r \in routes : Commit(w, r[1], r[2]) \/ Accept(w, r[1], r[2])
    \/ \E s \in Shards, w \in Writes : Flush(s, w)

CatalogNext ==
    \/ \E s \in Shards : RegistryStep(s) \/ Assign(s)
    \/ \E i \in MoveIds, t \in Shards : StartMove(i, t)
    \/ \E i \in MoveIds : CatalogStep(i)
    \/ Assigned \/ Cancel

Next ==
    \/ CatalogNext
    \/ Own \/ \E i \in MoveIds : ShardStep(i)
    \/ ClientStep

Spec == Init /\ [][Next]_vars

\* What the current coordinator calls in the phase the catalog records.
Coordinate(i) ==
    /\ place.id = i
    /\ \/ /\ place.phase = "copy"
          /\ \/ Freeze(i) \/ Reserve(i) \/ Export(i) \/ Cutover(i)
             \/ \E c \in SUBSET Writes : Stage(i, c) \/ Install(i, c)
       \/ place.phase = "activate" /\ (Activate(i) \/ Activated(i))
       \/ place.phase = "cleanup" /\ (Retire(i) \/ Cleaned(i))
       \/ place.phase = "cancel" /\ (Thaw(i) \/ Thawed(i))
       \/ place.phase = "discard" /\ (DiscardNothing(i) \/ Discard(i) \/ Cancelled(i))

\* runShardMigrations retries the calls of the current phase every 200ms and
\* the flush loop retries accepted batches; nothing else is promised to happen.
FairSpec ==
    /\ Spec
    /\ WF_vars(Own) /\ WF_vars(Assigned)
    /\ \A i \in MoveIds : WF_vars(Coordinate(i))
    /\ \A s \in Shards, w \in Writes : WF_vars(Flush(s, w))

-----------------------------------------------------------------------------
TypeOK ==
    /\ registry \in [Shards -> Registration]
    /\ place \in Placement
    /\ home \in Shards \cup {None}
    /\ move \in [MoveIds -> {NoMove} \cup
                  [source : Shards, target : Shards, epoch : Nat \ {0, 1}]]
    /\ done \in [MoveIds -> SUBSET Steps]
    /\ owner \in [Shards -> Ownership]
    /\ data \in [Shards -> SUBSET Writes]
    /\ accepted \in [Shards -> SUBSET Writes]
    /\ exported \subseteq MoveIds \X SUBSET Writes
    /\ unmanaged \subseteq Shards
    /\ routes \subseteq Shards \X Nat
    /\ acked \subseteq Writes

(***************************************************************************)
(* Only the shard on which the catalog places the tenant can accept its    *)
(* requests, however late and in whatever order the calls of coordinators  *)
(* arrive: source and target never both serve (applyOwnership,             *)
(* checkOwnership).                                                        *)
(***************************************************************************)
ActiveIsPlaced == \A s \in Shards : owner[s].state = "active" => place.shard = s

(***************************************************************************)
(* The shard on which the catalog places the tenant holds every write that *)
(* was acknowledged, committed or still in its accepted ingestion: no      *)
(* cutover, cancellation or cleanup loses one, and a cutover never points  *)
(* to a target without the complete snapshot.                              *)
(***************************************************************************)
NoLostWrite ==
    place.shard # None => acked \subseteq data[place.shard] \cup accepted[place.shard]

(***************************************************************************)
(* "unregister" never strands a tenant: a shard outside the registry       *)
(* neither serves, nor is frozen for a move that still needs its data, nor *)
(* keeps a copy or an accepted batch of the tenant.                        *)
(***************************************************************************)
UnregisteredIsEmpty ==
    \A s \in Shards : registry[s] = "absent" =>
        /\ owner[s].state \notin {"active", "frozen", "installed"}
        /\ data[s] = {} /\ accepted[s] = {}

(***************************************************************************)
(* Fencing: the routing epoch of a record and of the placement never goes  *)
(* back, a record that reached "retired" stays retired at that epoch, and  *)
(* one that left "active" does not serve again under the same epoch, so a  *)
(* request stamped with an old route stays refused.                        *)
(***************************************************************************)
Fenced ==
    [][/\ place'.epoch >= place.epoch
       /\ \A s \in Shards :
            \/ owner'[s].epoch > owner[s].epoch
            \/ /\ owner'[s].epoch = owner[s].epoch
               /\ owner[s].state = "retired" => owner'[s].state = "retired"
               /\ owner[s].state = "frozen" => owner'[s].state # "active"]_vars

\* Requests stamped with the current placement are accepted.
Served ==
    /\ place.state = "active"
    /\ owner[place.shard].state = "active" /\ owner[place.shard].epoch = place.epoch

(***************************************************************************)
(* An assignment, a committed cutover and a cancellation all bring the     *)
(* tenant back into service, under the coordinator's retries.              *)
(***************************************************************************)
ServiceResumes ==
    (place.state = "assigning" \/ place.phase \in {"activate", "cancel"}) ~> Served

(***************************************************************************)
(* A move that was cut over or cancelled is eventually forgotten by the    *)
(* catalog, so the tenant can be moved again and its shards unregistered.  *)
(***************************************************************************)
MoveEnds ==
    place.phase \in {"activate", "cleanup", "cancel", "discard"} ~> place.id = None

(***************************************************************************)
(* docs/sharding.zh-CN.md, on cancelling: it advances the source's routing *)
(* epoch and thereby invalidates old coordinators.  Stated of the target:  *)
(* once the catalog has recorded the cancellation, no late call of an old  *)
(* coordinator leaves the target reserved for the dead move.               *)
(***************************************************************************)
CancelledMoveIsDead ==
    \A i \in MoveIds : "cancelled" \in done[i] =>
        ~ (owner[move[i].target].move = i /\ owner[move[i].target].state = "importing")
=============================================================================
