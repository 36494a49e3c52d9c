------------------------- MODULE AcceptedQueueProofs -------------------------
(***************************************************************************)
(* The accepted-ingestion queue for any number of replicas, batches and    *)
(* requests, any budgets and any flush bound: replicas agree whatever is   *)
(* in their caches, batches are published once and in order, reads never   *)
(* go back, and a clean pause keeps writers out.                           *)
(***************************************************************************)
EXTENDS AcceptedQueueInv, TLAPS

-----------------------------------------------------------------------------
(* Lemmas on the operators.                                                *)

\* The fields of a command, by its kind.
LEMMA CommandFields ==
    ASSUME NEW cmd \in Commands
    PROVE  /\ cmd.kind \in {"accept", "flush", "http", "task"}
           /\ cmd.kind = "accept" => cmd.request \in Requests /\ cmd.budget \in Nat /\ cmd.request.batch \in Batches
           /\ cmd.kind = "flush" => cmd.ids \in Plans
           /\ cmd.kind = "task" => cmd.basis \in Nat
  BY QueueAssumption DEF Commands

LEMMA RecordFields ==
    ASSUME NEW rec \in RecordType
    PROVE  rec.state \in {"none", "accepted", "committed", "failed"} /\ rec.index \in Nat
  BY DEF RecordType

LEMMA DurableFields ==
    ASSUME NEW d \in DurableType
    PROVE  /\ d.records \in [Batches -> RecordType] /\ d.graph \in Seq(Commits)
           /\ d.disabled \in BOOLEAN /\ d.done \in BOOLEAN
           /\ \A b \in Batches : d.records[b].state \in {"none", "accepted", "committed", "failed"}
           /\ \A b \in Batches : d.records[b].index \in Nat
  <1>1. d.records \in [Batches -> RecordType]
    BY DEF DurableType
  <1> QED
    BY <1>1, RecordFields DEF DurableType

LEMMA PlanFields ==
    ASSUME NEW ids \in Plans
    PROVE  /\ DOMAIN ids \subseteq 1..FlushMaxRequests
           /\ DOMAIN ids \subseteq Nat
           /\ \A i \in DOMAIN ids : ids[i] \in Batches
  BY QueueAssumption DEF Plans

LEMMA CommitFields ==
    ASSUME NEW c \in Commits
    PROVE  DOMAIN c \subseteq Nat /\ \A p \in DOMAIN c : c[p] \in Batches
  BY QueueAssumption DEF Commits

-----------------------------------------------------------------------------
(* What a command does to what is durable, whatever the cache holds.       *)

\* The acceptance of a batch that is neither known, nor over budget, nor of a
\* disabled tenant.
Admits(d, cmd) ==
    /\ d.records[cmd.request.batch].state = "none"
    /\ ~ (cmd.budget > 0 /\ Cardinality(Accepted(d)) + 1 > cmd.budget)
    /\ ~ d.disabled

Taken(d, ids) == {i \in DOMAIN ids : d.records[ids[i]].state = "accepted"}
Named(d, ids) == {ids[i] : i \in Taken(d, ids)}

AfterAccept(d, cmd, k) ==
    IF Admits(d, cmd) THEN [d EXCEPT !.records = [@ EXCEPT ![cmd.request.batch] = NewRecord(cmd, k)]] ELSE d

AfterFlush(d, cmd) ==
    [records |-> [b \in Batches |->
                    IF b \in Named(d, cmd.ids)
                    THEN [d.records[b] EXCEPT !.state = IF d.disabled THEN "failed" ELSE "committed"]
                    ELSE d.records[b]],
     graph |-> IF d.disabled \/ Taken(d, cmd.ids) = {} THEN d.graph
               ELSE Append(d.graph, [i \in Taken(d, cmd.ids) |-> cmd.ids[i]]),
     disabled |-> d.disabled, done |-> d.done]

\* saveAccepted keeps a cache that agrees with the records in agreement.
LEMMA SaveKeepsCache ==
    ASSUME NEW s, s = [records |-> s.records, pending |-> s.pending, graph |-> s.graph, disabled |-> s.disabled,
                       done |-> s.done, result |-> s.result],
           NEW d, d.records = s.records, Cached(d, s.pending),
           NEW saved, DOMAIN saved \subseteq Batches,
           NEW e, e.records = SaveAccepted(s, saved).records
    PROVE  Cached(e, SaveAccepted(s, saved).pending)
  <1>1. /\ e.records = [b \in Batches |-> IF b \in DOMAIN saved THEN saved[b] ELSE d.records[b]]
        /\ SaveAccepted(s, saved).pending =
             IF s.pending = NoCache THEN NoCache
             ELSE (s.pending \ DOMAIN saved) \union {b \in DOMAIN saved : saved[b].state = "accepted"}
    BY DEF SaveAccepted
  <1>2. CASE s.pending = NoCache
    BY <1>1, <1>2 DEF Cached
  <1>3. CASE s.pending # NoCache
    <2>1. s.pending = Accepted(d)
      BY <1>3 DEF Cached
    <2>2. \A b : b \in Accepted(e) <=>
                   b \in (Accepted(d) \ DOMAIN saved) \union {c \in DOMAIN saved : saved[c].state = "accepted"}
      BY <1>1 DEF Accepted
    <2> QED
      BY <1>1, <1>3, <2>1, <2>2 DEF Cached
  <1> QED
    BY <1>2, <1>3

LEMMA AcceptShape ==
    ASSUME NEW d \in DurableType, NEW p, Cached(d, p), NEW cmd \in Commands, cmd.kind = "accept", NEW k \in Nat,
           NEW s, s = ApplyAccept(Loaded(d, p), cmd, k)
    PROVE  /\ Durable(s) = AfterAccept(d, cmd, k)
           /\ Cached(AfterAccept(d, cmd, k), s.pending)
           /\ s.result \in {"accepted", "committed", "failed"} =>
                s.result = AfterAccept(d, cmd, k).records[cmd.request.batch].state
  <1> DEFINE l == Loaded(d, p)
             b == cmd.request.batch
             c == IF cmd.budget > 0 /\ p = NoCache THEN [l EXCEPT !.pending = Accepted(d)] ELSE l
             saved == [x \in {b} |-> NewRecord(cmd, k)]
  <1>l. /\ l.records = d.records /\ l.pending = p /\ l.graph = d.graph /\ l.disabled = d.disabled
        /\ l.done = d.done /\ l.result = "none"
        /\ DOMAIN l = {"records", "pending", "graph", "disabled", "done", "result"}
    BY DEF Loaded
  <1>c. /\ c.records = d.records /\ c.graph = d.graph /\ c.disabled = d.disabled /\ c.done = d.done
        /\ Cached(d, c.pending) /\ (cmd.budget > 0 => c.pending = Accepted(d))
        /\ c = [records |-> c.records, pending |-> c.pending, graph |-> c.graph, disabled |-> c.disabled,
                done |-> c.done, result |-> c.result]
    BY DEF Loaded, Cached
  <1>s. s = IF d.records[b].state # "none"
            THEN [l EXCEPT !.result = IF d.records[b].digest = cmd.request.digest THEN d.records[b].state
                                      ELSE "conflict"]
            ELSE IF cmd.budget > 0 /\ Cardinality(c.pending) + 1 > cmd.budget THEN [c EXCEPT !.result = "full"]
            ELSE IF d.disabled THEN [c EXCEPT !.result = "conflict"]
            ELSE [SaveAccepted(c, saved) EXCEPT !.result = "accepted"]
    BY <1>l DEF ApplyAccept, Accepted
  <1> HIDE DEF l, c
  <1>d. d = [records |-> d.records, graph |-> d.graph, disabled |-> d.disabled, done |-> d.done]
    BY DEF DurableType
  <1>b. b \in Batches /\ d.records \in [Batches -> RecordType] /\ d.disabled \in BOOLEAN
    BY CommandFields, DurableFields
  <1>1. CASE d.records[b].state # "none"
    <2>1. s = [l EXCEPT !.result = "conflict"] \/ s = [l EXCEPT !.result = d.records[b].state]
      BY <1>s, <1>1
    <2>2. Durable(s) = d /\ s.pending = p /\ (s.result = "conflict" \/ s.result = d.records[b].state)
      BY <1>l, <2>1, <1>d DEF Durable
    <2>3. AfterAccept(d, cmd, k) = d
      BY <1>1 DEF AfterAccept, Admits
    <2> QED
      BY <2>2, <2>3
  <1>2. CASE /\ d.records[b].state = "none"
             /\ (cmd.budget > 0 /\ Cardinality(Accepted(d)) + 1 > cmd.budget) \/ d.disabled
    <2>1. s = [c EXCEPT !.result = "full"] \/ s = [c EXCEPT !.result = "conflict"]
      BY <1>s, <1>2, <1>c
    <2>2. Durable(s) = d /\ s.pending = c.pending /\ s.result \in {"full", "conflict"}
      BY <1>c, <2>1, <1>d DEF Durable
    <2>3. AfterAccept(d, cmd, k) = d
      BY <1>2 DEF AfterAccept, Admits
    <2> QED
      BY <2>2, <2>3, <1>c
  <1>3. CASE Admits(d, cmd)
    <2> DEFINE v == SaveAccepted(c, saved)
               e == AfterAccept(d, cmd, k)
    <2>1. s = [v EXCEPT !.result = "accepted"]
      BY <1>s, <1>3, <1>c DEF Admits
    <2>2. /\ v.records = [x \in Batches |-> IF x = b THEN NewRecord(cmd, k) ELSE d.records[x]]
          /\ v.graph = d.graph /\ v.disabled = d.disabled /\ v.done = d.done
          /\ DOMAIN v = {"records", "pending", "graph", "disabled", "done", "result"}
      BY <1>c DEF SaveAccepted
    <2>3. e = [records |-> v.records, graph |-> d.graph, disabled |-> d.disabled, done |-> d.done]
      <3>1. [d.records EXCEPT ![b] = NewRecord(cmd, k)] = v.records
        BY <2>2, <1>b
      <3>2. e = [d EXCEPT !.records = [d.records EXCEPT ![b] = NewRecord(cmd, k)]]
        BY <1>3 DEF AfterAccept
      <3> QED
        BY <3>1, <3>2, <1>d
    <2>4. Cached(e, v.pending)
      <3>1. DOMAIN saved \subseteq Batches
        BY <1>b
      <3>2. e.records = v.records
        BY <2>3
      <3> HIDE DEF saved, e
      <3> QED
        BY <3>1, <3>2, <1>c, SaveKeepsCache
    <2>5. Durable(s) = e /\ s.pending = v.pending /\ s.result = "accepted"
      <3> HIDE DEF v, e
      <3> QED
        BY <2>1, <2>2, <2>3 DEF Durable
    <2>6. e.records[b].state = "accepted"
      <3> HIDE DEF v, e
      <3> QED
        BY <2>3, <2>2, <1>b DEF NewRecord
    <2> QED
      BY <2>4, <2>5, <2>6
  <1> QED
    BY <1>1, <1>2, <1>3, <1>b DEF Admits

LEMMA FlushShape ==
    ASSUME NEW d \in DurableType, NEW p, Cached(d, p), NEW cmd \in Commands, cmd.kind = "flush",
           NEW s, s = ApplyFlush(Loaded(d, p), cmd)
    PROVE  Durable(s) = AfterFlush(d, cmd) /\ Cached(AfterFlush(d, cmd), s.pending) /\ s.result = "flushed"
  <1> DEFINE l == Loaded(d, p)
             ids == cmd.ids
             state == IF d.disabled THEN "failed" ELSE "committed"
             saved == [b \in Named(d, ids) |-> [d.records[b] EXCEPT !.state = state]]
             v == SaveAccepted(l, saved)
  <1>l. /\ l.records = d.records /\ l.pending = p /\ l.graph = d.graph /\ l.disabled = d.disabled
        /\ l.done = d.done /\ l.result = "none"
        /\ l = [records |-> l.records, pending |-> l.pending, graph |-> l.graph, disabled |-> l.disabled,
                done |-> l.done, result |-> l.result]
    BY DEF Loaded
  <1>i. DOMAIN saved \subseteq Batches
    BY CommandFields, PlanFields DEF Named, Taken
  <1>s. s = [v EXCEPT !.graph = IF d.disabled \/ Taken(d, ids) = {} THEN @
                                ELSE Append(@, [i \in Taken(d, ids) |-> ids[i]]),
                      !.result = "flushed"]
    BY <1>l DEF ApplyFlush, Taken, Named
  <1> HIDE DEF l
  <1>v. /\ v.records = [b \in Batches |-> IF b \in Named(d, ids) THEN [d.records[b] EXCEPT !.state = state]
                                          ELSE d.records[b]]
        /\ v.graph = d.graph /\ v.disabled = d.disabled /\ v.done = d.done
        /\ DOMAIN v = {"records", "pending", "graph", "disabled", "done", "result"}
    BY <1>l DEF SaveAccepted
  <1>e. AfterFlush(d, cmd).records = v.records
    BY <1>v DEF AfterFlush
  <1>c. Cached(AfterFlush(d, cmd), v.pending)
    <2> HIDE DEF saved
    <2> QED
      BY <1>e, <1>i, <1>l, SaveKeepsCache
  <1> HIDE DEF v
  <1>1. /\ s.records = v.records /\ s.disabled = d.disabled /\ s.done = d.done /\ s.pending = v.pending
        /\ s.result = "flushed"
        /\ s.graph = IF d.disabled \/ Taken(d, ids) = {} THEN d.graph
                     ELSE Append(d.graph, [i \in Taken(d, ids) |-> ids[i]])
    BY <1>s, <1>v
  <1> QED
    BY <1>1, <1>c, <1>v DEF Durable, AfterFlush

\* Neither a direct write nor the task touches the records.
LEMMA OtherShape ==
    ASSUME NEW d \in DurableType, NEW p, Cached(d, p), NEW cmd \in Commands, cmd.kind \in {"http", "task"}, NEW k \in Nat,
           NEW s, s = ApplyCommand(Loaded(d, p), cmd, k)
    PROVE  /\ Durable(s) = After(d, cmd, k) /\ s.result \notin {"accepted", "committed", "failed"}
           /\ Cached(After(d, cmd, k), s.pending)
           /\ After(d, cmd, k).records = d.records
           /\ After(d, cmd, k).graph = d.graph \/ (cmd.kind = "http" /\ After(d, cmd, k).graph = Append(d.graph, <<>>))
           /\ After(d, cmd, k) \in DurableType
  <1>d. /\ d = [records |-> d.records, graph |-> d.graph, disabled |-> d.disabled, done |-> d.done]
        /\ d.records \in [Batches -> RecordType] /\ d.graph \in Seq(Commits)
        /\ d.disabled \in BOOLEAN /\ d.done \in BOOLEAN
    BY DEF DurableType
  <1>0. Append(d.graph, <<>>) \in Seq(Commits)
    <2>1. <<>> \in Commits
      <3>1. 1..0 = {} /\ {} \in SUBSET (1..FlushMaxRequests) /\ <<>> \in [1..0 -> Batches]
        OBVIOUS
      <3> QED
        BY <3>1 DEF Commits
    <2> QED
      BY <1>d, <2>1
  <1> DEFINE n == Loaded(d, NoCache)
             l == Loaded(d, p)
  <1>l. /\ l.records = d.records /\ l.pending = p /\ l.graph = d.graph /\ l.disabled = d.disabled
        /\ l.done = d.done /\ l.result = "none"
        /\ DOMAIN l = {"records", "pending", "graph", "disabled", "done", "result"}
    BY DEF Loaded
  <1>n. /\ n.records = d.records /\ n.pending = NoCache /\ n.graph = d.graph /\ n.disabled = d.disabled
        /\ n.done = d.done /\ n.result = "none"
        /\ DOMAIN n = {"records", "pending", "graph", "disabled", "done", "result"}
    BY DEF Loaded
  <1> HIDE DEF n, l
  <1>1. CASE cmd.kind = "http"
    <2>1. s = ApplyHttp(l, cmd) /\ After(d, cmd, k) = Durable(ApplyHttp(n, cmd))
      BY <1>1 DEF ApplyCommand, After, n, l
    <2>2. CASE cmd.op = "commit" /\ d.disabled
      <3>1. /\ s = [l EXCEPT !.pending = NoCache, !.result = "rejected"]
            /\ After(d, cmd, k) = Durable([n EXCEPT !.pending = NoCache, !.result = "rejected"])
        BY <2>1, <2>2, <1>l, <1>n DEF ApplyHttp
      <3>2. Durable(s) = d /\ After(d, cmd, k) = d /\ s.pending = NoCache /\ s.result = "rejected"
        BY <3>1, <1>l, <1>n, <1>d DEF Durable
      <3>3. Cached(d, NoCache) /\ "rejected" \notin {"accepted", "committed", "failed"}
        BY DEF Cached
      <3> QED
        BY <3>2, <3>3, Zenon
    <2>3. CASE ~ (cmd.op = "commit" /\ d.disabled)
      <3> DEFINE dis == IF cmd.op = "commit" THEN d.disabled ELSE cmd.op = "disable"
                 e == [records |-> d.records, graph |-> Append(d.graph, <<>>), disabled |-> dis, done |-> d.done]
      <3>1. /\ s = [l EXCEPT !.disabled = dis, !.graph = Append(d.graph, <<>>), !.result = "ok"]
            /\ After(d, cmd, k) = Durable([n EXCEPT !.disabled = dis, !.graph = Append(d.graph, <<>>), !.result = "ok"])
        BY <2>1, <2>3, <1>l, <1>n DEF ApplyHttp
      <3>d. dis \in BOOLEAN
        BY <1>d
      <3> HIDE DEF dis
      <3>2. Durable(s) = e /\ After(d, cmd, k) = e /\ s.pending = p /\ s.result = "ok"
        BY <3>1, <1>l, <1>n DEF Durable
      <3>3. e \in DurableType
        BY <3>d, <1>d, <1>0 DEF DurableType
      <3>4. e.records = d.records /\ e.graph = Append(d.graph, <<>>)
        OBVIOUS
      <3> HIDE DEF e
      <3> QED
        BY <3>2, <3>3, <3>4, <1>1 DEF Cached, Accepted
    <2> QED
      BY <2>2, <2>3
  <1>2. CASE cmd.kind = "task"
    <2>1. s = ApplyTask(l, cmd) /\ After(d, cmd, k) = Durable(ApplyTask(n, cmd))
      BY <1>2 DEF ApplyCommand, After, n, l
    <2>2. CASE ~ d.done /\ Len(d.graph) = cmd.basis
      <3> DEFINE e == [records |-> d.records, graph |-> d.graph, disabled |-> d.disabled, done |-> TRUE]
      <3>1. /\ s = [l EXCEPT !.done = TRUE, !.result = "done"]
            /\ After(d, cmd, k) = Durable([n EXCEPT !.done = TRUE, !.result = "done"])
        BY <2>1, <2>2, <1>l, <1>n DEF ApplyTask
      <3>2. Durable(s) = e /\ After(d, cmd, k) = e /\ s.pending = p /\ s.result = "done"
        BY <3>1, <1>l, <1>n DEF Durable
      <3>3. e \in DurableType
        BY <1>d DEF DurableType
      <3>4. e.records = d.records /\ e.graph = d.graph
        OBVIOUS
      <3> HIDE DEF e
      <3>5. Cached(e, p) /\ "done" \notin {"accepted", "committed", "failed"}
        BY <3>4 DEF Cached, Accepted
      <3> QED
        BY <3>2, <3>3, <3>4, <3>5, Zenon
    <2>3. CASE d.done \/ Len(d.graph) # cmd.basis
      <3> DEFINE res == IF d.done THEN "done" ELSE "conflict"
      <3>1. /\ s = [l EXCEPT !.result = res]
            /\ After(d, cmd, k) = Durable([n EXCEPT !.result = res])
        BY <2>1, <2>3, <1>l, <1>n DEF ApplyTask
      <3>r. res \notin {"accepted", "committed", "failed"}
        OBVIOUS
      <3> HIDE DEF res
      <3>2. Durable(s) = d /\ After(d, cmd, k) = d /\ s.pending = p /\ s.result = res
        BY <3>1, <1>l, <1>n, <1>d DEF Durable
      <3> QED
        BY <3>2, <3>r, Zenon
    <2> QED
      BY <2>2, <2>3, <1>d
  <1> QED
    BY <1>1, <1>2

\* Replicas with different caches make the same durable state of a command,
\* each keeps its cache in agreement with it, and the answer of an acceptance
\* is what the records then say.
LEMMA CacheIrrelevant ==
    ASSUME NEW d \in DurableType, NEW p, Cached(d, p), NEW cmd \in Commands, NEW k \in Nat,
           NEW s, s = ApplyCommand(Loaded(d, p), cmd, k)
    PROVE  /\ Durable(s) = After(d, cmd, k)
           /\ Cached(After(d, cmd, k), s.pending)
           /\ cmd.kind = "accept" => After(d, cmd, k) = AfterAccept(d, cmd, k)
           /\ cmd.kind = "flush" => After(d, cmd, k) = AfterFlush(d, cmd)
           /\ s.result \in {"accepted", "committed", "failed"} =>
                /\ cmd.kind = "accept"
                /\ s.result = After(d, cmd, k).records[cmd.request.batch].state
  <1>n. Cached(d, NoCache)
    BY DEF Cached
  <1>1. CASE cmd.kind = "accept"
    <2>1. s = ApplyAccept(Loaded(d, p), cmd, k) /\ After(d, cmd, k) = Durable(ApplyAccept(Loaded(d, NoCache), cmd, k))
      BY <1>1 DEF ApplyCommand, After
    <2>2. After(d, cmd, k) = AfterAccept(d, cmd, k)
      BY <1>1, <1>n, <2>1, AcceptShape
    <2> QED
      BY <1>1, <2>1, <2>2, AcceptShape
  <1>2. CASE cmd.kind = "flush"
    <2>1. s = ApplyFlush(Loaded(d, p), cmd) /\ After(d, cmd, k) = Durable(ApplyFlush(Loaded(d, NoCache), cmd))
      BY <1>2 DEF ApplyCommand, After
    <2>2. After(d, cmd, k) = AfterFlush(d, cmd)
      BY <1>2, <1>n, <2>1, FlushShape
    <2>3. Durable(s) = AfterFlush(d, cmd) /\ Cached(AfterFlush(d, cmd), s.pending) /\ s.result = "flushed"
      BY <1>2, <2>1, FlushShape
    <2> QED
      BY <1>2, <2>2, <2>3
  <1>3. CASE cmd.kind \in {"http", "task"}
    BY <1>3, OtherShape
  <1> QED
    BY <1>1, <1>2, <1>3, CommandFields

-----------------------------------------------------------------------------
(* What a command keeps of the state invariant.                            *)

LEMMA GrowsItself ==
    ASSUME NEW d, NEW k
    PROVE  Grows(d, d, k)
  BY DEF Grows

LEMMA GrowsTransitive ==
    ASSUME NEW c, NEW d \in DurableType, NEW e \in DurableType, NEW i \in Nat, NEW k \in Nat, i <= k,
           Grows(c, d, i), Grows(d, e, k)
    PROVE  Grows(c, e, i)
  <1> SUFFICES ASSUME NEW b \in Batches
               PROVE  /\ Recorded(c, b) => Recorded(e, b) /\ e.records[b].index = c.records[b].index
                      /\ Finished(c, b) => Finished(e, b)
                      /\ Recorded(e, b) /\ ~ Recorded(c, b) => e.records[b].index > i
    BY DEF Grows
  <1>1. e.records[b].index \in Nat
    BY DurableFields
  <1> QED
    BY <1>1 DEF Grows

LEMMA RankGrows ==
    ASSUME NEW d \in DurableType, NEW e \in DurableType, NEW k, Grows(d, e, k), NEW b \in Batches
    PROVE  Rank(d.records[b].state) <= Rank(e.records[b].state)
  <1>1. d.records[b].state \in {"none", "accepted", "committed", "failed"}
        /\ e.records[b].state \in {"none", "accepted", "committed", "failed"}
    BY DurableFields
  <1>2. /\ d.records[b].state # "none" => e.records[b].state # "none"
        /\ d.records[b].state \in {"committed", "failed"} => e.records[b].state \in {"committed", "failed"}
    BY DEF Grows, Recorded, Finished
  <1> QED
    BY <1>1, <1>2 DEF Rank

LEMMA RankType ==
    ASSUME NEW state
    PROVE  Rank(state) \in 0..2
  BY DEF Rank

\* A flush that was in order when it was planned is in order later.
LEMMA FitsLater ==
    ASSUME NEW d \in DurableType, NEW e \in DurableType, NEW k \in Nat, RecordsDated(d, k), Grows(d, e, k),
           NEW ids \in Plans, FlushFits(d, ids)
    PROVE  FlushFits(e, ids)
  <1>1. /\ \A i \in DOMAIN ids : ids[i] \in Batches
        /\ \A i \in DOMAIN ids : Recorded(d, ids[i])
    BY PlanFields DEF FlushFits
  <1>2. /\ \A b \in Batches : Recorded(d, b) => Recorded(e, b) /\ e.records[b].index = d.records[b].index
        /\ \A b \in Batches : Finished(d, b) => Finished(e, b)
        /\ \A b \in Batches : Recorded(e, b) /\ ~ Recorded(d, b) => e.records[b].index > k
    BY DEF Grows
  <1>3. \A b \in Batches : Recorded(d, b) => d.records[b].index <= k
    BY DurableFields DEF RecordsDated
  <1>4. \A i, j \in DOMAIN ids : i < j => e.records[ids[i]].index < e.records[ids[j]].index
    BY <1>1, <1>2 DEF FlushFits
  <1>5. ASSUME NEW i \in DOMAIN ids, NEW b \in Batches, Recorded(e, b), e.records[b].index < e.records[ids[i]].index
        PROVE  Finished(e, b) \/ \E j \in DOMAIN ids : j < i /\ ids[j] = b
    <2>1. e.records[ids[i]].index <= k /\ e.records[ids[i]].index = d.records[ids[i]].index
      BY <1>1, <1>2, <1>3
    <2>2. e.records[b].index \in Nat /\ e.records[ids[i]].index \in Nat
      BY <1>1, DurableFields
    <2>3. Recorded(d, b)
      BY <1>2, <1>5, <2>1, <2>2
    <2>4. d.records[b].index < d.records[ids[i]].index
      BY <1>2, <1>5, <2>1, <2>3
    <2> QED
      BY <2>3, <2>4, <1>2 DEF FlushFits
  <1> QED
    BY <1>1, <1>2, <1>4, <1>5 DEF FlushFits

\* What a graph is made of.
LEMMA Published ==
    ASSUME NEW d \in DurableType, NEW i \in DOMAIN d.graph, NEW p \in DOMAIN d.graph[i]
    PROVE  d.graph[i][p] \in Batches /\ p \in Nat /\ i \in Nat
  <1>1. d.graph \in Seq(Commits)
    BY DurableFields
  <1>2. d.graph[i] \in Commits /\ i \in Nat
    BY <1>1
  <1> QED
    BY <1>2, CommitFields

\* A command that leaves the records and appends at most an empty commit.
LEMMA PlainStep ==
    ASSUME NEW d \in DurableType, NEW e \in DurableType, NEW k \in Nat, StateInv(d, k), e.records = d.records,
           e.graph = d.graph \/ e.graph = Append(d.graph, <<>>)
    PROVE  StateInv(e, k + 1) /\ Grows(d, e, k)
  <1>1. \A b : /\ Recorded(e, b) <=> Recorded(d, b)
               /\ Finished(e, b) <=> Finished(d, b)
    BY DEF Recorded, Finished
  <1>2. \A i \in DOMAIN e.graph : \A p \in DOMAIN e.graph[i] : i \in DOMAIN d.graph /\ e.graph[i] = d.graph[i]
    <2>1. CASE e.graph = d.graph
      BY <2>1
    <2>2. CASE e.graph = Append(d.graph, <<>>)
      <3>1. d.graph \in Seq(Commits)
        BY DurableFields
      <3>2. \A i \in DOMAIN e.graph : (i \in DOMAIN d.graph /\ e.graph[i] = d.graph[i]) \/ e.graph[i] = <<>>
        BY <2>2, <3>1
      <3>3. DOMAIN <<>> = {}
        OBVIOUS
      <3> QED
        BY <3>2, <3>3, Zenon
    <2> QED
      BY <2>1, <2>2
  <1>3. RecordsDated(e, k + 1)
    BY <1>1, DurableFields DEF StateInv, RecordsDated
  <1>4. PublishedCloses(e)
    BY <1>1, <1>2, Zenon DEF StateInv, PublishedCloses
  <1>5. InOrder(e)
    <2> SUFFICES ASSUME NEW i \in DOMAIN e.graph, NEW j \in DOMAIN e.graph,
                        NEW p \in DOMAIN e.graph[i], NEW q \in DOMAIN e.graph[j], i < j \/ (i = j /\ p < q)
                 PROVE  e.records[e.graph[i][p]].index < e.records[e.graph[j][q]].index
      BY DEF InOrder
    <2>1. i \in DOMAIN d.graph /\ e.graph[i] = d.graph[i] /\ j \in DOMAIN d.graph /\ e.graph[j] = d.graph[j]
      BY <1>2
    <2> QED
      BY <2>1 DEF StateInv, InOrder
  <1>6. Grows(d, e, k)
    BY <1>1 DEF Grows
  <1> QED
    BY <1>3, <1>4, <1>5, <1>6 DEF StateInv

\* The acceptance of a batch by entry k + 1.
LEMMA AcceptStep ==
    ASSUME NEW d \in DurableType, NEW e \in DurableType, NEW k \in Nat, StateInv(d, k), NEW b \in Batches,
           ~ Recorded(d, b), NEW rec, rec.state = "accepted", rec.index = k + 1,
           e.records = [d.records EXCEPT ![b] = rec], e.graph = d.graph
    PROVE  StateInv(e, k + 1) /\ Grows(d, e, k)
  <1>1. /\ e.records[b].index = k + 1 /\ Recorded(e, b) /\ ~ Finished(e, b) /\ ~ Finished(d, b)
        /\ \A a \in Batches : a # b => /\ e.records[a] = d.records[a]
                                       /\ Recorded(e, a) <=> Recorded(d, a)
                                       /\ Finished(e, a) <=> Finished(d, a)
    <2>1. d.records \in [Batches -> RecordType]
      BY DurableFields
    <2>2. e.records[b] = rec /\ \A a \in Batches : a # b => e.records[a] = d.records[a]
      BY <2>1
    <2> QED
      BY <2>2 DEF Recorded, Finished
  <1>2. \A a \in Batches : e.records[a].index \in Nat /\ d.records[a].index \in Nat
    BY DurableFields
  <1>d. \A a \in Batches : Recorded(d, a) => d.records[a].index \in 1..k
    BY DEF StateInv, RecordsDated
  <1>3. RecordsDated(e, k + 1)
    <2>1. \A a \in Batches : Recorded(e, a) => e.records[a].index \in 1..k + 1
      BY <1>1, <1>d
    <2>2. ASSUME NEW a \in Batches, NEW c \in Batches, Recorded(e, a), Recorded(e, c), a # c
          PROVE  e.records[a].index # e.records[c].index
      <3>1. CASE a # b /\ c # b
        BY <3>1, <2>2, <1>1 DEF StateInv, RecordsDated
      <3>2. CASE a = b
        <4>1. Recorded(d, c) /\ e.records[c].index = d.records[c].index
          BY <3>2, <2>2, <1>1
        <4> QED
          BY <4>1, <3>2, <1>1, <1>d
      <3>3. CASE c = b
        <4>1. Recorded(d, a) /\ e.records[a].index = d.records[a].index
          BY <3>3, <2>2, <1>1
        <4> QED
          BY <4>1, <3>3, <1>1, <1>d
      <3> QED
        BY <3>1, <3>2, <3>3
    <2> QED
      BY <2>1, <2>2 DEF RecordsDated
  <1>4. \A i \in DOMAIN d.graph : \A p \in DOMAIN d.graph[i] :
          /\ d.graph[i][p] \in Batches /\ d.graph[i][p] # b
          /\ Recorded(d, d.graph[i][p])
    BY <1>1, Published DEF StateInv, PublishedCloses, Recorded, Finished
  <1>5. PublishedCloses(e)
    <2> SUFFICES ASSUME NEW i \in DOMAIN d.graph, NEW p \in DOMAIN d.graph[i]
                 PROVE  /\ Finished(e, d.graph[i][p])
                        /\ \A a \in Batches : Recorded(e, a) /\ e.records[a].index < e.records[d.graph[i][p]].index
                                                 => Finished(e, a)
      BY DEF PublishedCloses
    <2> DEFINE x == d.graph[i][p]
    <2>1. x \in Batches /\ x # b /\ Recorded(d, x) /\ e.records[x].index = d.records[x].index
      BY <1>1, <1>4
    <2>2. /\ Finished(d, x)
          /\ \A a \in Batches : Recorded(d, a) /\ d.records[a].index < d.records[x].index => Finished(d, a)
      BY DEF StateInv, PublishedCloses
    <2> HIDE DEF x
    <2>3. ASSUME NEW a \in Batches, Recorded(e, a), e.records[a].index < e.records[x].index
          PROVE  Finished(e, a)
      <3>1. a # b
        BY <2>1, <2>3, <1>1, <1>d
      <3> QED
        BY <3>1, <2>1, <2>2, <2>3, <1>1
    <2> QED
      BY <2>1, <2>2, <2>3, <1>1 DEF x
  <1>6. InOrder(e)
    BY <1>1, <1>4 DEF StateInv, InOrder
  <1>7. Grows(d, e, k)
    <2> SUFFICES ASSUME NEW a \in Batches
                 PROVE  /\ Recorded(d, a) => Recorded(e, a) /\ e.records[a].index = d.records[a].index
                        /\ Finished(d, a) => Finished(e, a)
                        /\ Recorded(e, a) /\ ~ Recorded(d, a) => e.records[a].index > k
      BY DEF Grows
    <2>1. CASE a = b
      BY <2>1, <1>1
    <2>2. CASE a # b
      BY <2>2, <1>1
    <2> QED
      BY <2>1, <2>2
  <1> QED
    BY <1>3, <1>5, <1>6, <1>7 DEF StateInv

\* A flush in order: named records that are accepted are finished, and
\* published in one commit or not at all.
LEMMA FlushStep ==
    ASSUME NEW d \in DurableType, NEW e \in DurableType, NEW k \in Nat, StateInv(d, k), NEW ids \in Plans, FlushFits(d, ids),
           NEW state \in {"committed", "failed"},
           e.records = [b \in Batches |-> IF b \in Named(d, ids) THEN [d.records[b] EXCEPT !.state = state]
                                          ELSE d.records[b]],
           e.graph = d.graph \/ e.graph = Append(d.graph, [i \in Taken(d, ids) |-> ids[i]])
    PROVE  StateInv(e, k + 1) /\ Grows(d, e, k)
  <1>i. /\ \A i \in DOMAIN ids : ids[i] \in Batches /\ i \in Nat
        /\ Named(d, ids) \subseteq Batches
        /\ \A b \in Named(d, ids) : d.records[b].state = "accepted"
        /\ \A i \in Taken(d, ids) : i \in DOMAIN ids /\ ids[i] \in Named(d, ids)
    BY PlanFields DEF Named, Taken
  <1>n. \A i \in DOMAIN ids : Recorded(d, ids[i]) => ids[i] \in Named(d, ids) \/ Finished(d, ids[i])
    BY <1>i, DurableFields DEF Recorded, Finished, Named, Taken
  <1>1. \A b \in Batches : /\ e.records[b].index = d.records[b].index
                           /\ Recorded(e, b) <=> Recorded(d, b)
                           /\ Finished(d, b) => Finished(e, b)
                           /\ b \in Named(d, ids) => Finished(e, b) /\ ~ Finished(d, b)
    <2> SUFFICES ASSUME NEW b \in Batches
                 PROVE  /\ e.records[b].index = d.records[b].index
                        /\ Recorded(e, b) <=> Recorded(d, b)
                        /\ Finished(d, b) => Finished(e, b)
                        /\ b \in Named(d, ids) => Finished(e, b) /\ ~ Finished(d, b)
      OBVIOUS
    <2>1. CASE b \notin Named(d, ids)
      BY <2>1 DEF Recorded, Finished
    <2>2. CASE b \in Named(d, ids)
      <3>1. e.records[b] = [d.records[b] EXCEPT !.state = state]
        BY <2>2
      <3>2. d.records[b] \in RecordType
        BY DurableFields
      <3>3. e.records[b].state = state /\ e.records[b].index = d.records[b].index
        BY <3>1, <3>2 DEF RecordType
      <3> QED
        BY <3>3, <2>2, <1>i DEF Recorded, Finished
    <2> QED
      BY <2>1, <2>2
  <1>2. \A b \in Batches : d.records[b].index \in Nat
    BY DurableFields
  <1>3. RecordsDated(e, k + 1)
    BY <1>1, <1>2 DEF StateInv, RecordsDated
  <1>g. \A i \in DOMAIN e.graph :
          \/ i \in DOMAIN d.graph /\ e.graph[i] = d.graph[i]
          \/ /\ i = Len(d.graph) + 1 /\ DOMAIN e.graph[i] = Taken(d, ids)
             /\ \A p \in Taken(d, ids) : e.graph[i][p] = ids[p]
    <2>1. d.graph \in Seq(Commits)
      BY DurableFields
    <2>2. CASE e.graph = d.graph
      BY <2>2
    <2>3. CASE e.graph = Append(d.graph, [i \in Taken(d, ids) |-> ids[i]])
      <3> DEFINE new == [i \in Taken(d, ids) |-> ids[i]]
      <3>1. DOMAIN new = Taken(d, ids) /\ \A p \in Taken(d, ids) : new[p] = ids[p]
        OBVIOUS
      <3> HIDE DEF new
      <3>2. \A i \in DOMAIN e.graph : \/ i \in DOMAIN d.graph /\ e.graph[i] = d.graph[i]
                                      \/ i = Len(d.graph) + 1 /\ e.graph[i] = new
        BY <2>1, <2>3 DEF new
      <3> QED
        BY <3>1, <3>2, Zenon
    <2> QED
      BY <2>2, <2>3
  <1>l. \A i \in DOMAIN d.graph : i \in Nat /\ i <= Len(d.graph) /\ Len(d.graph) \in Nat
    <2>1. d.graph \in Seq(Commits)
      BY DurableFields
    <2> QED
      BY <2>1
  <1>4. PublishedCloses(e)
    <2> SUFFICES ASSUME NEW i \in DOMAIN e.graph, NEW p \in DOMAIN e.graph[i]
                 PROVE  /\ Finished(e, e.graph[i][p])
                        /\ \A b \in Batches : Recorded(e, b) /\ e.records[b].index < e.records[e.graph[i][p]].index
                                                 => Finished(e, b)
      BY DEF PublishedCloses
    <2>1. CASE i \in DOMAIN d.graph /\ e.graph[i] = d.graph[i]
      <3> DEFINE x == d.graph[i][p]
      <3>1. /\ Finished(d, x)
            /\ \A b \in Batches : Recorded(d, b) /\ d.records[b].index < d.records[x].index => Finished(d, b)
        BY <2>1 DEF StateInv, PublishedCloses
      <3>2. x \in Batches
        BY <2>1, Published
      <3>3. e.graph[i][p] = x
        BY <2>1
      <3> HIDE DEF x
      <3> QED
        BY <3>1, <3>2, <3>3, <1>1
    <2>2. CASE /\ i = Len(d.graph) + 1 /\ DOMAIN e.graph[i] = Taken(d, ids)
               /\ \A q \in Taken(d, ids) : e.graph[i][q] = ids[q]
      <3>1. p \in Taken(d, ids) /\ p \in DOMAIN ids /\ e.graph[i][p] = ids[p] /\ ids[p] \in Named(d, ids)
        BY <2>2, <1>i
      <3>2. Finished(e, ids[p]) /\ ids[p] \in Batches
        BY <3>1, <1>1, <1>i
      <3>3. ASSUME NEW b \in Batches, Recorded(e, b), e.records[b].index < e.records[ids[p]].index
            PROVE  Finished(e, b)
        <4>1. Recorded(d, b) /\ d.records[b].index < d.records[ids[p]].index
          BY <3>3, <3>2, <1>1
        <4>2. Finished(d, b) \/ \E j \in DOMAIN ids : ids[j] = b
          BY <3>1, <4>1 DEF FlushFits
        <4>3. Finished(d, b) \/ b \in Named(d, ids)
          BY <4>1, <4>2, <1>n
        <4> QED
          BY <4>3, <1>1
      <3> QED
        BY <3>1, <3>2, <3>3
    <2> QED
      BY <2>1, <2>2, <1>g
  <1>5. InOrder(e)
    <2> SUFFICES ASSUME NEW i \in DOMAIN e.graph, NEW j \in DOMAIN e.graph,
                        NEW p \in DOMAIN e.graph[i], NEW q \in DOMAIN e.graph[j], i < j \/ (i = j /\ p < q)
                 PROVE  e.records[e.graph[i][p]].index < e.records[e.graph[j][q]].index
      BY DEF InOrder
    <2>1. CASE j \in DOMAIN d.graph /\ e.graph[j] = d.graph[j]
      <3>1. i \in DOMAIN d.graph /\ e.graph[i] = d.graph[i]
        BY <2>1, <1>g, <1>l
      <3>2. d.records[d.graph[i][p]].index < d.records[d.graph[j][q]].index
        BY <2>1, <3>1 DEF StateInv, InOrder
      <3>3. d.graph[i][p] \in Batches /\ d.graph[j][q] \in Batches
        BY <2>1, <3>1, Published
      <3> QED
        BY <2>1, <3>1, <3>2, <3>3, <1>1
    <2>2. CASE /\ j = Len(d.graph) + 1 /\ DOMAIN e.graph[j] = Taken(d, ids)
               /\ \A x \in Taken(d, ids) : e.graph[j][x] = ids[x]
      <3>1. q \in DOMAIN ids /\ e.graph[j][q] = ids[q] /\ ids[q] \in Named(d, ids) /\ ids[q] \in Batches
        BY <2>2, <1>i
      <3>2. CASE i \in DOMAIN d.graph /\ e.graph[i] = d.graph[i]
        <4> DEFINE x == d.graph[i][p]
        <4>1. /\ Finished(d, x)
              /\ \A b \in Batches : Recorded(d, b) /\ d.records[b].index < d.records[x].index => Finished(d, b)
          BY <3>2 DEF StateInv, PublishedCloses
        <4>2. x \in Batches
          BY <3>2, Published
        <4>3. e.graph[i][p] = x
          BY <3>2
        <4> HIDE DEF x
        <4>4. ~ Finished(d, ids[q]) /\ Recorded(d, ids[q]) /\ Recorded(d, x) /\ x # ids[q]
          BY <3>1, <4>1, <1>1, <1>i DEF Recorded, Finished
        <4>5. ~ (d.records[ids[q]].index < d.records[x].index) /\ d.records[ids[q]].index # d.records[x].index
          BY <3>1, <4>1, <4>2, <4>4 DEF StateInv, RecordsDated
        <4>6. d.records[x].index < d.records[ids[q]].index
          <5>1. d.records[x].index \in Nat /\ d.records[ids[q]].index \in Nat
            BY <3>1, <4>2, <1>2
          <5> QED
            BY <4>5, <5>1
        <4> QED
          BY <3>1, <4>2, <4>3, <4>6, <1>1
      <3>3. CASE i = Len(d.graph) + 1
        <4>1. i = j /\ p < q
          BY <3>3, <2>2, <1>l DEF StateInv
        <4>2. p \in DOMAIN ids /\ e.graph[i][p] = ids[p] /\ ids[p] \in Batches
          BY <4>1, <2>2, <1>i
        <4> QED
          BY <3>1, <4>1, <4>2, <1>1 DEF FlushFits
      <3> QED
        BY <3>2, <3>3, <1>g
    <2> QED
      BY <2>1, <2>2, <1>g
  <1>6. Grows(d, e, k)
    BY <1>1 DEF Grows
  <1> QED
    BY <1>3, <1>4, <1>5, <1>6 DEF StateInv

\* Entry k + 1 takes a sound state behind k entries to a sound state.
LEMMA AfterStep ==
    ASSUME NEW d \in DurableType, NEW k \in Nat, StateInv(d, k), NEW cmd \in Commands,
           cmd.kind = "flush" => FlushFits(d, cmd.ids)
    PROVE  /\ After(d, cmd, k + 1) \in DurableType
           /\ StateInv(After(d, cmd, k + 1), k + 1)
           /\ Grows(d, After(d, cmd, k + 1), k)
  <1> DEFINE e == After(d, cmd, k + 1)
             s == ApplyCommand(Loaded(d, NoCache), cmd, k + 1)
  <1>n. Cached(d, NoCache)
    BY DEF Cached
  <1>d. /\ d = [records |-> d.records, graph |-> d.graph, disabled |-> d.disabled, done |-> d.done]
        /\ d.records \in [Batches -> RecordType] /\ d.graph \in Seq(Commits)
        /\ d.disabled \in BOOLEAN /\ d.done \in BOOLEAN
    BY DEF DurableType
  <1>c. /\ cmd.kind = "accept" => e = AfterAccept(d, cmd, k + 1)
        /\ cmd.kind = "flush" => e = AfterFlush(d, cmd)
    BY <1>n, CacheIrrelevant
  <1> HIDE DEF e, s
  <1>1. CASE cmd.kind = "accept" /\ Admits(d, cmd)
    <2> DEFINE b == cmd.request.batch
               rec == NewRecord(cmd, k + 1)
    <2>1. b \in Batches /\ rec \in RecordType
      BY <1>1, CommandFields DEF NewRecord, RecordType
    <2>2. rec.state = "accepted" /\ rec.index = k + 1
      BY DEF NewRecord
    <2>3. ~ Recorded(d, b)
      BY <1>1 DEF Recorded, Admits
    <2>4. e = [d EXCEPT !.records = [d.records EXCEPT ![b] = rec]]
      BY <1>1, <1>c DEF AfterAccept
    <2> HIDE DEF b, rec
    <2>5. e = [records |-> [d.records EXCEPT ![b] = rec], graph |-> d.graph, disabled |-> d.disabled, done |-> d.done]
      BY <2>4, <1>d
    <2>6. [d.records EXCEPT ![b] = rec] \in [Batches -> RecordType]
      BY <2>1, <1>d
    <2>7. e \in DurableType /\ e.records = [d.records EXCEPT ![b] = rec] /\ e.graph = d.graph
      BY <2>5, <2>6, <1>d DEF DurableType
    <2>8. StateInv(e, k + 1) /\ Grows(d, e, k)
      BY <2>1, <2>2, <2>3, <2>7, AcceptStep
    <2> QED
      BY <2>7, <2>8 DEF e
  <1>2. CASE cmd.kind = "accept" /\ ~ Admits(d, cmd)
    <2>1. e = d
      BY <1>2, <1>c DEF AfterAccept
    <2>2. StateInv(e, k + 1) /\ Grows(d, e, k)
      BY <2>1, PlainStep
    <2> QED
      BY <2>1, <2>2 DEF e
  <1>3. CASE cmd.kind = "flush"
    <2> DEFINE ids == cmd.ids
               state == IF d.disabled THEN "failed" ELSE "committed"
               new == [i \in Taken(d, ids) |-> ids[i]]
               recs == [b \in Batches |-> IF b \in Named(d, ids) THEN [d.records[b] EXCEPT !.state = state]
                                          ELSE d.records[b]]
               g == IF d.disabled \/ Taken(d, ids) = {} THEN d.graph ELSE Append(d.graph, new)
    <2>1. ids \in Plans /\ FlushFits(d, ids)
      BY <1>3, CommandFields
    <2>2. e = [records |-> recs, graph |-> g, disabled |-> d.disabled, done |-> d.done]
      BY <1>3, <1>c DEF AfterFlush
    <2>3. state \in {"committed", "failed"}
      OBVIOUS
    <2>4. recs \in [Batches -> RecordType]
      <3> HIDE DEF state
      <3> SUFFICES ASSUME NEW b \in Batches
                   PROVE  (IF b \in Named(d, ids) THEN [d.records[b] EXCEPT !.state = state] ELSE d.records[b]) \in RecordType
        OBVIOUS
      <3>1. d.records[b] \in RecordType
        BY <1>d
      <3>2. [d.records[b] EXCEPT !.state = state] \in RecordType
        BY <3>1, <2>3 DEF RecordType
      <3> QED
        BY <3>1, <3>2
    <2>5. new \in Commits
      <3>1. Taken(d, ids) \in SUBSET (1..FlushMaxRequests) /\ \A i \in Taken(d, ids) : ids[i] \in Batches
        BY <2>1, PlanFields DEF Taken
      <3>2. new \in [Taken(d, ids) -> Batches]
        BY <3>1
      <3> QED
        BY <3>1, <3>2 DEF Commits
    <2>6. g \in Seq(Commits) /\ (g = d.graph \/ g = Append(d.graph, new))
      <3> HIDE DEF new
      <3> QED
        BY <2>5, <1>d
    <2> HIDE DEF g, recs
    <2>7. e \in DurableType /\ e.records = recs /\ e.graph = g
      BY <2>2, <2>4, <2>6, <1>d DEF DurableType
    <2>8. StateInv(e, k + 1) /\ Grows(d, e, k)
      <3> HIDE DEF state, ids
      <3> QED
        BY <2>1, <2>3, <2>6, <2>7, FlushStep DEF recs
    <2> QED
      BY <2>7, <2>8 DEF e
  <1>4. CASE cmd.kind \in {"http", "task"}
    <2>1. /\ e \in DurableType /\ e.records = d.records
          /\ e.graph = d.graph \/ e.graph = Append(d.graph, <<>>)
      BY <1>4, <1>n, OtherShape DEF e
    <2>2. StateInv(e, k + 1) /\ Grows(d, e, k)
      BY <2>1, PlainStep
    <2> QED
      BY <2>1, <2>2 DEF e
  <1> QED
    BY <1>1, <1>2, <1>3, <1>4, CommandFields

-----------------------------------------------------------------------------
(* What the parts of the invariant depend on.                              *)

LEMMA HistoryFrame ==
    ASSUME NEW h, History(h), commit \in Nat, commit' = commit, \A k \in 1..commit : log'[k] = log[k]
    PROVE  History(h)'
  BY DEF History

LEMMA ReplicasFrame ==
    ASSUME NEW h, ReplicasInv(h), UNCHANGED replicaVars
    PROVE  ReplicasInv(h)'
  BY DEF ReplicasInv, replicaVars, DurableOf

LEMMA PlansFrame ==
    ASSUME NEW h, PlansInv(h), UNCHANGED <<plan, commit>>
    PROVE  PlansInv(h)'
  BY DEF PlansInv

LEMMA TailFrame ==
    ASSUME NEW h, TailInv(h), UNCHANGED <<log, commit>>
    PROVE  TailInv(h)'
  BY DEF TailInv

LEMMA ClientsFrame ==
    ASSUME NEW h, ClientsInv(h), UNCHANGED <<seen, reads, commit>>
    PROVE  ClientsInv(h)'
  BY DEF ClientsInv

\* An entry appended to the log joins its tail.
LEMMA ProposedFrame ==
    ASSUME NEW h, RaftTyped, History(h), TailInv(h), NEW cmd \in Commands,
           cmd.kind = "flush" => FlushFits(h[commit], cmd.ids),
           log' = Append(log, cmd), commit' = commit
    PROVE  /\ History(h)' /\ TailInv(h)'
           /\ log' \in Seq(Commands) /\ Len(log') = Len(log) + 1
  <1>1. log \in Seq(Commands) /\ commit \in Nat /\ commit <= Len(log) /\ Len(log) \in Nat
    BY DEF RaftTyped
  <1>2. /\ log' \in Seq(Commands) /\ Len(log') = Len(log) + 1 /\ log'[Len(log) + 1] = cmd
        /\ \A k \in 1..Len(log) : log'[k] = log[k]
    BY <1>1
  <1>3. History(h)'
    BY <1>1, <1>2, HistoryFrame
  <1>4. TailInv(h)'
    <2> SUFFICES ASSUME NEW k \in commit + 1..Len(log) + 1, log'[k].kind = "flush"
                 PROVE  FlushFits(h[commit], log'[k].ids)
      BY <1>2 DEF TailInv
    <2>1. CASE k = Len(log) + 1
      BY <2>1, <1>2
    <2>2. CASE k # Len(log) + 1
      <3>1. k \in commit + 1..Len(log) /\ log'[k] = log[k]
        BY <2>2, <1>1, <1>2
      <3> QED
        BY <3>1 DEF TailInv
    <2> QED
      BY <2>1, <2>2
  <1> QED
    BY <1>2, <1>3, <1>4

-----------------------------------------------------------------------------
(* One lemma per action.                                                   *)

Inv(h) == TypeOK /\ QueueInv(h) /\ PauseInv

LEMMA Basics ==
    ASSUME TypeOK
    PROVE  /\ log \in Seq(Commands) /\ Len(log) \in Nat /\ commit \in Nat /\ commit <= Len(log)
           /\ leader \in Replicas /\ views \subseteq Replicas
           /\ \A r \in Replicas : applied[r] \in Nat /\ applied[r] <= commit
           /\ \A k \in 1..Len(log) : log[k] \in Commands
  BY DEF TypeOK, RaftTyped, ReplicaTyped

LEMMA WorkerFields ==
    ASSUME NEW m \in Workers
    PROVE  /\ m.phase \in Phases /\ m.paused \in BOOLEAN /\ m.clean \in BOOLEAN /\ m.index \in Nat /\ m.basis \in Nat
           /\ DOMAIN m = {"phase", "paused", "index", "basis", "clean"}
  BY DEF Workers

\* Types that follow from the variables a step leaves alone.
LEMMA TypeFrame ==
    ASSUME TypeOK, RaftTyped'
    PROVE  /\ UNCHANGED <<replicaVars, commit>> => ReplicaTyped'
           /\ UNCHANGED nodeVars /\ Len(log') = Len(log) => NodeTyped'
           /\ UNCHANGED <<clientVars, commit>> => ClientTyped'
  <1>1. UNCHANGED <<replicaVars, commit>> => ReplicaTyped'
    BY DEF TypeOK, ReplicaTyped, replicaVars
  <1>2. UNCHANGED nodeVars /\ Len(log') = Len(log) => NodeTyped'
    BY DEF TypeOK, NodeTyped, nodeVars
  <1>3. UNCHANGED <<clientVars, commit>> => ClientTyped'
    BY DEF TypeOK, ClientTyped, clientVars
  <1> QED
    BY <1>1, <1>2, <1>3

LEMMA PauseFrame ==
    ASSUME PauseInv, UNCHANGED <<maint, leader, applied, log, records, graph>>
    PROVE  PauseInv'
  BY DEF PauseInv, PauseOf, Quiet, StoredPending

LEMMA QuietProposed ==
    ASSUME TypeOK, NEW r \in Replicas, Quiet(r), NEW cmd, log' = Append(log, cmd), ~ Mutation(cmd.kind), applied' = applied
    PROVE  Quiet(r)'
  <1>1. log \in Seq(Commands) /\ Len(log) \in Nat /\ applied[r] \in Nat
    BY Basics
  <1>2. Len(log') = Len(log) + 1 /\ log'[Len(log) + 1] = cmd /\ \A k \in 1..Len(log) : log'[k] = log[k]
    BY <1>1
  <1> SUFFICES ASSUME NEW i \in applied[r] + 1..Len(log) + 1
               PROVE  ~ Mutation(log'[i].kind)
    BY <1>2 DEF Quiet
  <1>3. CASE i = Len(log) + 1
    BY <1>2, <1>3
  <1>4. CASE i # Len(log) + 1
    <2>1. i \in applied[r] + 1..Len(log) /\ log'[i] = log[i]
      BY <1>1, <1>2, <1>4
    <2> QED
      BY <2>1 DEF Quiet
  <1> QED
    BY <1>3, <1>4

\* What an entry appended to the leader's log keeps.
LEMMA Proposed ==
    ASSUME NEW h, Inv(h), NEW cmd \in Commands, cmd.kind = "flush" => FlushFits(h[commit], cmd.ids),
           log' = Append(log, cmd), UNCHANGED <<commit, leader, views, replicaVars, clientVars>>
    PROVE  /\ RaftTyped' /\ ReplicaTyped' /\ ClientTyped'
           /\ Len(log') = Len(log) + 1 /\ Len(log) \in Nat
           /\ History(h)' /\ TailInv(h)' /\ ReplicasInv(h)' /\ ClientsInv(h)'
  <1>1. /\ log' \in Seq(Commands) /\ Len(log') = Len(log) + 1 /\ History(h)' /\ TailInv(h)'
    BY ProposedFrame DEF Inv, TypeOK, QueueInv
  <1>2. RaftTyped'
    BY <1>1 DEF Inv, TypeOK, RaftTyped
  <1>3. ReplicaTyped' /\ ClientTyped'
    BY <1>2, TypeFrame DEF Inv
  <1>4. ReplicasInv(h)'
    BY ReplicasFrame DEF Inv, QueueInv
  <1>5. ClientsInv(h)'
    BY ClientsFrame DEF Inv, QueueInv, clientVars
  <1> QED
    BY <1>1, <1>2, <1>3, <1>4, <1>5, Basics DEF Inv

LEMMA CallerJoins ==
    ASSUME TypeOK, NEW r \in Replicas, NEW kind \in Kinds, Len(log') = Len(log) + 1,
           waiting' = waiting \union {[node |-> r, kind |-> kind, index |-> Len(log) + 1]}
    PROVE  waiting' \subseteq Callers(Len(log'))
  <1>1. Len(log) \in Nat /\ waiting \subseteq Callers(Len(log))
    BY Basics DEF TypeOK, NodeTyped
  <1>2. [node |-> r, kind |-> kind, index |-> Len(log) + 1] \in Callers(Len(log) + 1)
    BY <1>1 DEF Callers
  <1>3. Callers(Len(log)) \subseteq Callers(Len(log) + 1)
    BY <1>1 DEF Callers
  <1> QED
    BY <1>1, <1>2, <1>3

LEMMA ClientWriteKeeps ==
    ASSUME NEW h, Inv(h), NEW r \in Replicas, ClientWrite(r)
    PROVE  Inv(h)'
  <1>1. PICK cmd \in Commands : Propose(r, cmd) /\ cmd.kind \in {"accept", "http"}
    <2>1. \A q \in Requests : [kind |-> "accept", request |-> q, budget |-> Budget[r]] \in Commands
      BY QueueAssumption DEF Commands
    <2>2. \A op \in HttpOps : [kind |-> "http", op |-> op] \in Commands
      BY DEF Commands
    <2> QED
      BY <2>1, <2>2 DEF ClientWrite
  <1>2. /\ ~ maint[r].paused /\ UNCHANGED <<replicaVars, plan, maint, clientVars>>
    BY DEF ClientWrite, Admitted
  <1>3. /\ r = leader /\ log' = Append(log, cmd) /\ UNCHANGED <<commit, leader, views>>
        /\ waiting' = waiting \union {[node |-> r, kind |-> cmd.kind, index |-> Len(log) + 1]}
    BY <1>1 DEF Propose
  <1>4. /\ RaftTyped' /\ ReplicaTyped' /\ ClientTyped' /\ Len(log') = Len(log) + 1
        /\ History(h)' /\ TailInv(h)' /\ ReplicasInv(h)' /\ ClientsInv(h)'
    BY <1>1, <1>2, <1>3, Proposed
  <1>5. NodeTyped'
    <2>1. cmd.kind \in Kinds
      BY <1>1 DEF Kinds
    <2>2. waiting' \subseteq Callers(Len(log'))
      BY <1>3, <1>4, <2>1, CallerJoins DEF Inv
    <2> QED
      BY <1>2, <2>2 DEF Inv, TypeOK, NodeTyped
  <1>6. PlansInv(h)'
    BY <1>2, <1>3, PlansFrame DEF Inv, QueueInv
  <1>7. PauseInv'
    <2> SUFFICES ASSUME NEW n \in Replicas
                 PROVE  PauseOf(n)'
      BY DEF PauseInv
    <2>1. PauseOf(n)
      BY DEF Inv, PauseInv
    <2>2. ~ maint[n].clean
      BY <2>1, <1>2, <1>3 DEF PauseOf
    <2> QED
      BY <2>1, <2>2, <1>2 DEF PauseOf
  <1> QED
    BY <1>4, <1>5, <1>6, <1>7 DEF Inv, TypeOK, QueueInv

LEMMA CommitKeeps ==
    ASSUME NEW h, Inv(h), Commit
    PROVE  \E g : Inv(g)'
  <1> DEFINE e == After(h[commit], log[commit + 1], commit + 1)
  <1>1. /\ commit < Len(log) /\ commit' = commit + 1
        /\ UNCHANGED <<log, leader, views, replicaVars, nodeVars, clientVars, left>>
    BY DEF Commit
  <1>2. /\ log \in Seq(Commands) /\ Len(log) \in Nat /\ commit \in Nat
        /\ \A r \in Replicas : applied[r] \in Nat /\ applied[r] <= commit
        /\ log[commit + 1] \in Commands
    BY <1>1, Basics DEF Inv
  <1>3. /\ h \in [0..commit -> DurableType]
        /\ \A k \in 1..commit : h[k] = After(h[k - 1], log[k], k)
        /\ \A k \in 0..commit : StateInv(h[k], k)
        /\ \A i, k \in 0..commit : i <= k => Grows(h[i], h[k], i)
    BY DEF Inv, QueueInv, History
  <1>4. h[commit] \in DurableType /\ StateInv(h[commit], commit) /\ RecordsDated(h[commit], commit)
    BY <1>2, <1>3 DEF StateInv
  <1>5. e \in DurableType /\ StateInv(e, commit + 1) /\ Grows(h[commit], e, commit)
    <2>1. log[commit + 1].kind = "flush" => FlushFits(h[commit], log[commit + 1].ids)
      BY <1>1, <1>2 DEF Inv, QueueInv, TailInv
    <2> QED
      BY <1>2, <1>4, <2>1, AfterStep
  <1>e. e = After(h[commit], log[commit + 1], commit + 1)
    OBVIOUS
  <1> HIDE DEF e
  <1>g. PICK g : /\ g \in [0..commit + 1 -> DurableType] /\ g[commit + 1] = e
                 /\ \A k \in 0..commit : g[k] = h[k]
    <2> DEFINE x == [k \in 0..commit + 1 |-> IF k <= commit THEN h[k] ELSE e]
    <2>1. /\ x \in [0..commit + 1 -> DurableType] /\ x[commit + 1] = e
          /\ \A k \in 0..commit : x[k] = h[k]
      BY <1>2, <1>3, <1>5
    <2> QED
      BY <2>1
  <1>6. History(g)'
    <2>1. \A k \in 1..commit + 1 : g[k] = After(g[k - 1], log[k], k)
      <3> SUFFICES ASSUME NEW k \in 1..commit + 1
                   PROVE  g[k] = After(g[k - 1], log[k], k)
        OBVIOUS
      <3>1. CASE k = commit + 1
        <4>1. k - 1 = commit /\ g[k - 1] = h[commit]
          BY <3>1, <1>2, <1>g
        <4> QED
          BY <3>1, <4>1, <1>g, <1>e
      <3>2. CASE k # commit + 1
        <4>1. k \in 1..commit /\ k - 1 \in 0..commit
          BY <3>2, <1>2
        <4> QED
          BY <4>1, <1>g, <1>3
      <3> QED
        BY <3>1, <3>2
    <2>2. \A k \in 0..commit + 1 : StateInv(g[k], k)
      <3> SUFFICES ASSUME NEW k \in 0..commit + 1
                   PROVE  StateInv(g[k], k)
        OBVIOUS
      <3>1. CASE k = commit + 1
        BY <3>1, <1>g, <1>5
      <3>2. CASE k # commit + 1
        <4>1. k \in 0..commit
          BY <3>2, <1>2
        <4> QED
          BY <4>1, <1>g, <1>3
      <3> QED
        BY <3>1, <3>2
    <2>3. \A i, k \in 0..commit + 1 : i <= k => Grows(g[i], g[k], i)
      <3> SUFFICES ASSUME NEW i \in 0..commit + 1, NEW k \in 0..commit + 1, i <= k
                   PROVE  Grows(g[i], g[k], i)
        OBVIOUS
      <3>1. CASE i = commit + 1
        <4>1. k = i
          BY <3>1, <1>2
        <4> QED
          BY <4>1, GrowsItself
      <3>2. CASE i # commit + 1 /\ k # commit + 1
        <4>1. i \in 0..commit /\ k \in 0..commit
          BY <3>2, <1>2
        <4> QED
          BY <4>1, <1>g, <1>3
      <3>3. CASE i # commit + 1 /\ k = commit + 1
        <4>1. i \in 0..commit /\ commit \in 0..commit /\ i <= commit /\ i \in Nat
          BY <3>3, <1>2
        <4>2. Grows(h[i], h[commit], i) /\ g[i] = h[i] /\ g[k] = e
          BY <4>1, <3>3, <1>3, <1>g
        <4>3. Grows(h[i], e, i)
          BY <4>1, <4>2, <1>2, <1>4, <1>5, GrowsTransitive
        <4> QED
          BY <4>2, <4>3
      <3> QED
        BY <3>1, <3>2, <3>3
    <2> QED
      BY <2>1, <2>2, <2>3, <1>1, <1>g DEF History
  <1>7. ReplicasInv(g)'
    <2>1. \A r \in Replicas : h[applied[r]] = g[applied[r]]
      BY <1>2, <1>g
    <2> QED
      BY <2>1, <1>1 DEF Inv, QueueInv, ReplicasInv, DurableOf, replicaVars
  <1>8. PlansInv(g)'
    <2> SUFFICES ASSUME NEW r \in Replicas
                 PROVE  FlushFits(e, plan[r])
      BY <1>1, <1>g DEF PlansInv, nodeVars
    <2>1. FlushFits(h[commit], plan[r]) /\ plan[r] \in Plans
      BY DEF Inv, QueueInv, PlansInv, TypeOK, NodeTyped
    <2> QED
      BY <2>1, <1>2, <1>4, <1>5, FitsLater
  <1>9. TailInv(g)'
    <2> SUFFICES ASSUME NEW k \in commit + 2..Len(log), log[k].kind = "flush"
                 PROVE  FlushFits(e, log[k].ids)
      BY <1>1, <1>2, <1>g DEF TailInv
    <2>1. k \in commit + 1..Len(log) /\ log[k] \in Commands
      BY <1>2
    <2>2. FlushFits(h[commit], log[k].ids) /\ log[k].ids \in Plans
      BY <2>1, CommandFields DEF Inv, QueueInv, TailInv
    <2> QED
      BY <2>2, <1>2, <1>4, <1>5, FitsLater
  <1>10. ClientsInv(g)'
    <2>1. \A b \in Batches : seen[b] <= Rank(e.records[b].state)
      <3> SUFFICES ASSUME NEW b \in Batches
                   PROVE  seen[b] <= Rank(e.records[b].state)
        OBVIOUS
      <3>1. seen[b] <= Rank(h[commit].records[b].state) /\ seen[b] \in 0..2
        BY DEF Inv, QueueInv, ClientsInv, TypeOK, ClientTyped
      <3>2. Rank(h[commit].records[b].state) <= Rank(e.records[b].state)
        BY <1>2, <1>4, <1>5, RankGrows
      <3> QED
        BY <3>1, <3>2, RankType
    <2>2. \A q \in reads : q.index \in 0..commit
      BY DEF Inv, TypeOK, ClientTyped, Reads
    <2>3. \A q \in reads : \A b \in Batches :
             /\ q.must[b] <= Rank(g[q.index].records[b].state)
             /\ q.saw # <<>> => q.saw[b] >= q.must[b]
      BY <2>2, <1>g DEF Inv, QueueInv, ClientsInv
    <2> QED
      BY <2>1, <2>3, <1>1, <1>g DEF ClientsInv, clientVars
  <1>11. TypeOK'
    <2>1. RaftTyped'
      BY <1>1, <1>2 DEF Inv, TypeOK, RaftTyped
    <2>2. ReplicaTyped'
      <3>1. applied' \in [Replicas -> 0..commit']
        BY <1>1, <1>2 DEF Inv, TypeOK, ReplicaTyped, replicaVars
      <3> QED
        BY <3>1, <1>1 DEF Inv, TypeOK, ReplicaTyped, replicaVars
    <2>3. NodeTyped'
      BY <1>1, <2>1, TypeFrame DEF Inv
    <2>4. ClientTyped'
      <3>1. Reads(commit) \subseteq Reads(commit + 1)
        BY <1>2 DEF Reads
      <3> QED
        BY <3>1, <1>1 DEF Inv, TypeOK, ClientTyped, clientVars
    <2> QED
      BY <2>1, <2>2, <2>3, <2>4 DEF TypeOK
  <1>12. PauseInv'
    BY <1>1, PauseFrame DEF Inv, replicaVars, nodeVars
  <1> QED
    BY <1>6, <1>7, <1>8, <1>9, <1>10, <1>11, <1>12 DEF Inv, QueueInv

\* Where a replica is in the history.
LEMMA InHistory ==
    ASSUME NEW h, Inv(h), NEW r \in Replicas
    PROVE  /\ applied[r] \in 0..commit /\ commit \in 0..commit
           /\ DurableOf(r) = h[applied[r]] /\ Cached(DurableOf(r), pending[r])
           /\ DurableOf(r) \in DurableType /\ h[commit] \in DurableType
           /\ StateInv(DurableOf(r), applied[r]) /\ Grows(DurableOf(r), h[commit], applied[r])
  <1>1. applied[r] \in 0..commit /\ commit \in 0..commit /\ applied[r] <= commit
    BY Basics DEF Inv
  <1>2. DurableOf(r) = h[applied[r]] /\ Cached(DurableOf(r), pending[r])
    BY DEF Inv, QueueInv, ReplicasInv
  <1> QED
    BY <1>1, <1>2 DEF Inv, QueueInv, History

\* The cache, rebuilt or not, is the queue of accepted records.
LEMMA SnapshotIsQueue ==
    ASSUME NEW h, Inv(h), NEW r \in Replicas
    PROVE  PendingSnapshot(r) = Accepted(DurableOf(r)) /\ StoredPending(r) = Accepted(DurableOf(r))
  <1>1. StoredPending(r) = Accepted(DurableOf(r))
    BY DEF StoredPending, Accepted, DurableOf
  <1> QED
    BY <1>1, InHistory DEF PendingSnapshot, Cached

\* What the flush loop may take fits the state it was read from, hence every
\* later one.
LEMMA OrderFits ==
    ASSUME NEW h, Inv(h), NEW r \in Replicas, NEW ids \in FlushOrder(r)
    PROVE  ids \in Plans /\ FlushFits(h[commit], ids)
  <1> DEFINE d == DurableOf(r)
             queue == Accepted(d)
  <1>1. /\ d \in DurableType /\ h[commit] \in DurableType /\ applied[r] \in Nat
        /\ StateInv(d, applied[r]) /\ Grows(d, h[commit], applied[r])
    BY InHistory
  <1>2. d.records = records[r]
    BY DEF DurableOf
  <1>3. PendingSnapshot(r) = queue
    BY SnapshotIsQueue
  <1> HIDE DEF d
  <1>4. /\ ids \in UNION {[1..n -> queue] : n \in 1..FlushMaxRequests}
        /\ \A i, j \in DOMAIN ids : i < j => d.records[ids[i]].index < d.records[ids[j]].index
        /\ \A b \in queue : (\A i \in DOMAIN ids : ids[i] # b) =>
               \A i \in DOMAIN ids : d.records[ids[i]].index < d.records[b].index
    BY <1>2, <1>3 DEF FlushOrder
  <1>5. queue \subseteq Batches /\ \A b \in Batches : b \in queue <=> d.records[b].state = "accepted"
    BY DEF Accepted
  <1> HIDE DEF queue
  <1>6. PICK n \in 1..FlushMaxRequests : ids \in [1..n -> queue]
    BY <1>4
  <1>7. ids \in Plans
    <2>1. ids \in [1..n -> Batches]
      BY <1>5, <1>6
    <2>2. n \in 0..FlushMaxRequests
      BY QueueAssumption
    <2> QED
      BY <2>1, <2>2 DEF Plans
  <1>8. \A i \in DOMAIN ids : ids[i] \in queue /\ ids[i] \in Batches /\ i \in Nat
    BY <1>5, <1>6
  <1>9. FlushFits(d, ids)
    <2>1. \A i \in DOMAIN ids : Recorded(d, ids[i])
      BY <1>8, <1>5 DEF Recorded
    <2>2. ASSUME NEW i \in DOMAIN ids, NEW b \in Batches, Recorded(d, b), d.records[b].index < d.records[ids[i]].index
          PROVE  Finished(d, b) \/ \E j \in DOMAIN ids : j < i /\ ids[j] = b
      <3>1. CASE b \notin queue
        BY <3>1, <2>2, <1>1, <1>5, DurableFields DEF Recorded, Finished
      <3>2. CASE b \in queue
        <4>n. d.records[b].index \in Nat /\ d.records[ids[i]].index \in Nat
          BY <1>1, <1>8, DurableFields
        <4>1. PICK j \in DOMAIN ids : ids[j] = b
          BY <3>2, <2>2, <1>4, <4>n
        <4>2. ~ (i < j) /\ i # j
          BY <4>1, <4>n, <2>2, <1>4
        <4>3. j < i
          BY <4>2, <1>8
        <4> QED
          BY <4>1, <4>3
      <3> QED
        BY <3>1, <3>2
    <2> QED
      BY <2>1, <2>2, <1>4 DEF FlushFits
  <1> QED
    BY <1>1, <1>7, <1>9, FitsLater DEF StateInv

LEMMA ApplyKeeps ==
    ASSUME NEW h, Inv(h), NEW r \in Replicas, Apply(r)
    PROVE  Inv(h)'
  <1> DEFINE index == applied[r] + 1
             cmd == log[index]
             s == ApplyCommand(ReplicaState(r), cmd, index)
             callers == {w \in waiting : w.node = r /\ w.index = index}
             d == DurableOf(r)
  <1>1. /\ applied[r] < commit
        /\ applied' = [applied EXCEPT ![r] = index]
        /\ records' = [records EXCEPT ![r] = s.records]
        /\ pending' = [pending EXCEPT ![r] = s.pending]
        /\ graph' = [graph EXCEPT ![r] = s.graph]
        /\ disabled' = [disabled EXCEPT ![r] = s.disabled]
        /\ done' = [done EXCEPT ![r] = s.done]
        /\ waiting' = waiting \ callers
        /\ seen' = IF callers # {} /\ s.result \in {"accepted", "committed", "failed"}
                   THEN Show(cmd.request.batch, s.result) ELSE seen
        /\ UNCHANGED <<raftVars, plan, maint, reads, left>>
    BY DEF Apply
  <1>2. /\ commit \in Nat /\ Len(log) \in Nat /\ commit <= Len(log) /\ applied[r] \in Nat
        /\ index \in 1..commit /\ index \in Nat /\ index - 1 = applied[r]
        /\ cmd \in Commands
    <2>1. /\ log \in Seq(Commands) /\ Len(log) \in Nat /\ commit \in Nat /\ commit <= Len(log) /\ applied[r] \in Nat
          /\ \A k \in 1..Len(log) : log[k] \in Commands
      BY Basics DEF Inv
    <2> QED
      BY <2>1, <1>1
  <1>3. /\ d \in DurableType /\ Cached(d, pending[r]) /\ d = h[applied[r]]
        /\ Grows(d, h[commit], applied[r]) /\ StateInv(d, applied[r])
    BY InHistory
  <1>4. ReplicaState(r) = Loaded(d, pending[r])
    BY DEF ReplicaState, Loaded, DurableOf
  <1>5. s = ApplyCommand(Loaded(d, pending[r]), cmd, index)
    BY <1>4
  <1>r. d.records = records[r] /\ d.graph = graph[r]
    BY DEF DurableOf
  <1> HIDE DEF s, d, cmd
  <1>6. /\ Durable(s) = After(d, cmd, index) /\ Cached(After(d, cmd, index), s.pending)
        /\ cmd.kind = "flush" => After(d, cmd, index) = AfterFlush(d, cmd)
        /\ s.result \in {"accepted", "committed", "failed"} =>
             cmd.kind = "accept" /\ s.result = After(d, cmd, index).records[cmd.request.batch].state
    BY <1>2, <1>3, <1>5, CacheIrrelevant
  <1>7. After(d, cmd, index) = h[index]
    BY <1>2, <1>3 DEF Inv, QueueInv, History, cmd
  <1>8. /\ h[index] \in DurableType /\ h[index].records = s.records /\ h[index].graph = s.graph
        /\ h[index].disabled = s.disabled /\ h[index].done = s.done
        /\ Grows(h[index], h[commit], index) /\ h[commit] \in DurableType
    <2>1. h[index] \in DurableType /\ Grows(h[index], h[commit], index) /\ h[commit] \in DurableType
      BY <1>2 DEF Inv, QueueInv, History
    <2> QED
      BY <2>1, <1>6, <1>7 DEF Durable
  <1>9. /\ s.records \in [Batches -> RecordType] /\ s.graph \in Seq(Commits)
        /\ s.disabled \in BOOLEAN /\ s.done \in BOOLEAN
    BY <1>8, DurableFields
  <1>10. History(h)'
    BY <1>1, <1>2, HistoryFrame DEF Inv, QueueInv, raftVars
  <1>f. /\ DOMAIN applied = Replicas /\ DOMAIN records = Replicas /\ DOMAIN pending = Replicas
        /\ DOMAIN graph = Replicas /\ DOMAIN disabled = Replicas /\ DOMAIN done = Replicas
    BY DEF Inv, TypeOK, ReplicaTyped
  <1>11. ReplicasInv(h)'
    <2> SUFFICES ASSUME NEW n \in Replicas
                 PROVE  (DurableOf(n) = h[applied[n]] /\ Cached(DurableOf(n), pending[n]))'
      BY DEF ReplicasInv
    <2>1. CASE n = r
      <3>1. /\ applied'[r] = index /\ records'[r] = s.records /\ pending'[r] = s.pending /\ graph'[r] = s.graph
            /\ disabled'[r] = s.disabled /\ done'[r] = s.done
        BY <1>1, <1>f
      <3>2. DurableOf(r)' = Durable(s)
        BY <3>1 DEF DurableOf, Durable
      <3> QED
        BY <2>1, <3>1, <3>2, <1>6, <1>7
    <2>2. CASE n # r
      <3>1. /\ applied'[n] = applied[n] /\ records'[n] = records[n] /\ pending'[n] = pending[n] /\ graph'[n] = graph[n]
            /\ disabled'[n] = disabled[n] /\ done'[n] = done[n]
        BY <1>1, <1>f, <2>2
      <3>2. DurableOf(n)' = DurableOf(n)
        BY <3>1 DEF DurableOf
      <3> QED
        BY <3>1, <3>2 DEF Inv, QueueInv, ReplicasInv
    <2> QED
      BY <2>1, <2>2
  <1>12. PlansInv(h)' /\ TailInv(h)'
    BY <1>1, PlansFrame, TailFrame DEF Inv, QueueInv, raftVars
  <1>13. ClientsInv(h)' /\ seen' \in [Batches -> 0..2]
    <2>s. seen \in [Batches -> 0..2] /\ \A b \in Batches : seen[b] <= Rank(h[commit].records[b].state)
      BY DEF Inv, QueueInv, ClientsInv, TypeOK, ClientTyped
    <2>1. CASE seen' = seen
      <3>1. ClientsInv(h)'
        BY <2>1, <1>1, ClientsFrame DEF Inv, QueueInv, raftVars
      <3> QED
        BY <2>1, <2>s, <3>1
    <2>2. CASE seen' # seen
      <3> DEFINE b == cmd.request.batch
      <3>1. /\ seen' = Show(b, s.result) /\ cmd.kind = "accept"
            /\ s.result = h[index].records[b].state
        BY <2>2, <1>1, <1>6, <1>7
      <3>2. b \in Batches
        BY <3>1, <1>2, CommandFields
      <3> HIDE DEF b
      <3>3. Rank(s.result) <= Rank(h[commit].records[b].state) /\ Rank(s.result) \in 0..2
        BY <3>1, <3>2, <1>8, RankGrows, RankType
      <3>4. seen' = [seen EXCEPT ![b] = IF seen[b] < Rank(s.result) THEN Rank(s.result) ELSE seen[b]]
        BY <3>1 DEF Show
      <3>5. seen' \in [Batches -> 0..2]
        BY <3>2, <3>3, <3>4, <2>s
      <3>6. \A c \in Batches : seen'[c] <= Rank(h[commit].records[c].state)
        BY <3>2, <3>3, <3>4, <2>s
      <3>7. ClientsInv(h)'
        BY <3>6, <1>1 DEF Inv, QueueInv, ClientsInv, raftVars
      <3> QED
        BY <3>5, <3>7
    <2> QED
      BY <2>1, <2>2
  <1>14. TypeOK'
    <2>1. RaftTyped'
      BY <1>1 DEF Inv, TypeOK, RaftTyped, raftVars
    <2>2. ReplicaTyped'
      <3>1. applied' \in [Replicas -> 0..commit]
        <4>1. applied \in [Replicas -> 0..commit] /\ index \in 0..commit
          BY <1>2 DEF Inv, TypeOK, ReplicaTyped
        <4> QED
          BY <1>1, <4>1
      <3>2. /\ records' \in [Replicas -> [Batches -> RecordType]] /\ graph' \in [Replicas -> Seq(Commits)]
            /\ disabled' \in [Replicas -> BOOLEAN] /\ done' \in [Replicas -> BOOLEAN]
        <4>1. /\ records \in [Replicas -> [Batches -> RecordType]] /\ graph \in [Replicas -> Seq(Commits)]
              /\ disabled \in [Replicas -> BOOLEAN] /\ done \in [Replicas -> BOOLEAN]
          BY DEF Inv, TypeOK, ReplicaTyped
        <4> QED
          BY <1>1, <1>9, <4>1
      <3>3. DOMAIN pending' = Replicas /\ \A n \in Replicas : pending'[n] = NoCache \/ pending'[n] \subseteq Batches
        <4>1. s.pending = NoCache \/ s.pending \subseteq Batches
          BY <1>6 DEF Cached, Accepted
        <4>2. \A n \in Replicas : pending[n] = NoCache \/ pending[n] \subseteq Batches
          BY DEF Inv, TypeOK, ReplicaTyped
        <4> QED
          BY <4>1, <4>2, <1>1, <1>f
      <3> QED
        BY <3>1, <3>2, <3>3, <1>1 DEF ReplicaTyped, raftVars
    <2>3. NodeTyped'
      BY <1>1 DEF Inv, TypeOK, NodeTyped, raftVars
    <2>4. ClientTyped'
      BY <1>1, <1>13 DEF Inv, TypeOK, ClientTyped, raftVars
    <2> QED
      BY <2>1, <2>2, <2>3, <2>4 DEF TypeOK
  <1>15. PauseInv'
    <2> SUFFICES ASSUME NEW n \in Replicas
                 PROVE  PauseOf(n)'
      BY DEF PauseInv
    <2>0. PauseOf(n)
      BY DEF Inv, PauseInv
    <2>1. CASE n # r
      <3>1. applied'[n] = applied[n] /\ records'[n] = records[n] /\ graph'[n] = graph[n]
        BY <1>1, <1>f, <2>1
      <3> QED
        BY <3>1, <2>0, <1>1 DEF PauseOf, Quiet, StoredPending, raftVars
    <2>2. CASE n = r /\ ~ maint[r].clean
      BY <2>2, <2>0, <1>1 DEF PauseOf
    <2>3. CASE n = r /\ maint[r].clean
      <3>1. Quiet(r) /\ r = leader /\ maint[r].paused /\ maint[r].phase # "idle"
        BY <2>3, <2>0 DEF PauseOf
      <3>2. applied'[r] = applied[r] + 1 /\ records'[r] = s.records /\ graph'[r] = s.graph
        BY <1>1, <1>f
      <3>3. Quiet(r)'
        BY <3>1, <3>2, <1>1, <1>2 DEF Quiet, raftVars
      <3>4. cmd.kind \in {"flush", "task"}
        <4>1. ~ Mutation(cmd.kind)
          BY <3>1, <1>2 DEF Quiet, cmd
        <4> QED
          BY <4>1, <1>2, CommandFields DEF Mutation
      <3>5. ASSUME StoredPending(r) = {}
            PROVE  s.records = d.records /\ s.graph = d.graph
        <4>1. CASE cmd.kind = "task"
          <5>1. After(d, cmd, index).records = d.records /\ After(d, cmd, index).graph = d.graph
            BY <4>1, <1>2, <1>3, <1>5, OtherShape
          <5> QED
            BY <5>1, <1>7, <1>8
        <4>2. CASE cmd.kind = "flush"
          <5>1. Accepted(d) = {}
            BY <3>5, SnapshotIsQueue DEF d
          <5>2. Taken(d, cmd.ids) = {} /\ Named(d, cmd.ids) = {}
            BY <5>1, <4>2, <1>2, CommandFields, PlanFields DEF Taken, Named, Accepted
          <5>3. AfterFlush(d, cmd).graph = d.graph
            BY <5>2 DEF AfterFlush
          <5>4. AfterFlush(d, cmd).records = [b \in Batches |-> d.records[b]]
            BY <5>2 DEF AfterFlush
          <5>5. [b \in Batches |-> d.records[b]] = d.records
            BY <1>3, DurableFields
          <5> QED
            BY <5>3, <5>4, <5>5, <4>2, <1>6, <1>7, <1>8
        <4> QED
          BY <4>1, <4>2, <3>4
      <3>6. maint[r].phase \in {"held", "prepared", "proposed"} =>
              StoredPending(r) = {} /\ records'[r] = records[r] /\ graph'[r] = graph[r]
        BY <3>2, <3>5, <2>0, <2>3, <1>r DEF PauseOf
      <3>7. maint[r].phase \in {"held", "prepared", "proposed"} => StoredPending(r)' = {}
        BY <3>6 DEF StoredPending
      <3>8. maint[r].phase \in {"prepared", "proposed"} => Len(graph'[r]) = maint[r].basis
        BY <3>6, <2>0, <2>3 DEF PauseOf
      <3> QED
        BY <2>3, <3>1, <3>3, <3>7, <3>8, <1>1 DEF PauseOf, raftVars
    <2> QED
      BY <2>1, <2>2, <2>3 
  <1> QED
    BY <1>10, <1>11, <1>12, <1>13, <1>14, <1>15 DEF Inv, QueueInv

LEMMA ElectKeeps ==
    ASSUME NEW h, Inv(h), NEW r \in Replicas, Elect(r)
    PROVE  Inv(h)'
  <1>1. /\ leader' = r /\ views' = views \union {r}
        /\ maint' = [n \in Replicas |-> [maint[n] EXCEPT !.clean = FALSE]]
        /\ UNCHANGED <<commit, replicaVars, plan, clientVars>>
    BY DEF Elect
  <1>2. PICK k \in commit..Len(log) :
          /\ log' = SubSeq(log, 1, k)
          /\ waiting' = {IF w.index > k THEN [w EXCEPT !.index = 0] ELSE w : w \in waiting}
    BY DEF Elect
  <1>3. log \in Seq(Commands) /\ Len(log) \in Nat /\ commit \in Nat /\ k \in Nat /\ commit <= k /\ k <= Len(log)
        /\ views \subseteq Replicas
    BY Basics DEF Inv
  <1>4. /\ log' \in Seq(Commands) /\ Len(log') = k
        /\ \A i \in 1..k : log'[i] = log[i]
    BY <1>2, <1>3
  <1>5. RaftTyped'
    BY <1>1, <1>3, <1>4 DEF RaftTyped
  <1>6. ReplicaTyped' /\ ClientTyped'
    BY <1>1, <1>5, TypeFrame DEF Inv
  <1>7. NodeTyped'
    <2>1. waiting' \subseteq Callers(k)
      <3> SUFFICES ASSUME NEW w \in waiting
                   PROVE  (IF w.index > k THEN [w EXCEPT !.index = 0] ELSE w) \in Callers(k)
        BY <1>2
      <3>1. w \in Callers(Len(log))
        BY DEF Inv, TypeOK, NodeTyped
      <3>2. CASE w.index > k
        <4>1. [w EXCEPT !.index = 0] \in Callers(k)
          BY <3>1, <1>3 DEF Callers
        <4> QED
          BY <3>2, <4>1
      <3>3. CASE ~ (w.index > k)
        <4>1. w \in Callers(k)
          BY <3>1, <3>3, <1>3 DEF Callers
        <4> QED
          BY <3>3, <4>1
      <3> QED
        BY <3>2, <3>3
    <2>2. maint' \in [Replicas -> Workers]
      <3>1. \A n \in Replicas : maint[n] \in Workers
        BY DEF Inv, TypeOK, NodeTyped
      <3>2. \A n \in Replicas : [maint[n] EXCEPT !.clean = FALSE] \in Workers
        BY <3>1 DEF Workers
      <3> QED
        BY <3>2, <1>1
    <2> QED
      BY <2>1, <2>2, <1>1, <1>4 DEF Inv, TypeOK, NodeTyped
  <1>8. History(h)'
    BY <1>1, <1>3, <1>4, HistoryFrame DEF Inv, QueueInv
  <1>9. ReplicasInv(h)' /\ PlansInv(h)' /\ ClientsInv(h)'
    BY <1>1, ReplicasFrame, PlansFrame, ClientsFrame DEF Inv, QueueInv, clientVars
  <1>10. TailInv(h)'
    <2> SUFFICES ASSUME NEW i \in commit + 1..k, log[i].kind = "flush"
                 PROVE  FlushFits(h[commit], log[i].ids)
      BY <1>1, <1>3, <1>4 DEF TailInv
    <2>1. i \in commit + 1..Len(log)
      BY <1>3
    <2> QED
      BY <2>1 DEF Inv, QueueInv, TailInv
  <1>11. PauseInv'
    <2> SUFFICES ASSUME NEW n \in Replicas
                 PROVE  PauseOf(n)'
      BY DEF PauseInv
    <2>1. maint[n] \in Workers
      BY DEF Inv, TypeOK, NodeTyped
    <2>2. ~ maint'[n].clean /\ maint'[n].phase = maint[n].phase /\ maint'[n].paused = maint[n].paused
      BY <1>1, <2>1, WorkerFields
    <2>3. PauseOf(n)
      BY DEF Inv, PauseInv
    <2> QED
      BY <2>2, <2>3 DEF PauseOf
  <1> QED
    BY <1>5, <1>6, <1>7, <1>8, <1>9, <1>10, <1>11 DEF Inv, TypeOK, QueueInv

\* A step that leaves the log and what is durable alone.
LEMMA Aside ==
    ASSUME NEW h, Inv(h), UNCHANGED <<log, commit, leader, applied, records, graph, disabled, done, seen>>,
           views' \subseteq views, waiting' \subseteq waiting, reads' \subseteq reads,
           \/ plan' = plan
           \/ \E r \in Replicas : \E ids \in Plans : FlushFits(h[commit], ids) /\ plan' = [plan EXCEPT ![r] = ids],
           \/ pending' = pending
           \/ \E r \in Replicas : \E p : Cached(DurableOf(r), p) /\ pending' = [pending EXCEPT ![r] = p],
           maint' \in [Replicas -> Workers], PauseInv'
    PROVE  Inv(h)'
  <1>1. RaftTyped'
    BY DEF Inv, TypeOK, RaftTyped
  <1>2. DOMAIN pending' = Replicas /\ \A r \in Replicas : Cached(DurableOf(r), pending'[r])
    <2>1. DOMAIN pending = Replicas /\ \A r \in Replicas : Cached(DurableOf(r), pending[r])
      BY DEF Inv, QueueInv, ReplicasInv, TypeOK, ReplicaTyped
    <2>2. CASE pending' = pending
      BY <2>1, <2>2
    <2>3. CASE \E r \in Replicas : \E p : Cached(DurableOf(r), p) /\ pending' = [pending EXCEPT ![r] = p]
      <3>1. PICK r \in Replicas : \E p : Cached(DurableOf(r), p) /\ pending' = [pending EXCEPT ![r] = p]
        BY <2>3
      <3>2. PICK p : Cached(DurableOf(r), p) /\ pending' = [pending EXCEPT ![r] = p]
        BY <3>1
      <3> QED
        BY <2>1, <3>2
    <2> QED
      BY <2>2, <2>3
  <1>3. ReplicaTyped'
    <2>1. \A r \in Replicas : pending'[r] = NoCache \/ pending'[r] \subseteq Batches
      BY <1>2 DEF Cached, Accepted
    <2> QED
      BY <1>2, <2>1 DEF Inv, TypeOK, ReplicaTyped
  <1>4. plan' \in [Replicas -> Plans] /\ PlansInv(h)'
    <2>1. plan \in [Replicas -> Plans] /\ \A r \in Replicas : FlushFits(h[commit], plan[r])
      BY DEF Inv, QueueInv, PlansInv, TypeOK, NodeTyped
    <2>2. CASE plan' = plan
      BY <2>1, <2>2 DEF PlansInv
    <2>3. CASE \E r \in Replicas : \E ids \in Plans : FlushFits(h[commit], ids) /\ plan' = [plan EXCEPT ![r] = ids]
      <3>1. PICK r \in Replicas, ids \in Plans : FlushFits(h[commit], ids) /\ plan' = [plan EXCEPT ![r] = ids]
        BY <2>3
      <3> QED
        BY <2>1, <3>1 DEF PlansInv
    <2> QED
      BY <2>2, <2>3
  <1>5. NodeTyped'
    BY <1>4 DEF Inv, TypeOK, NodeTyped
  <1>6. ClientTyped'
    BY DEF Inv, TypeOK, ClientTyped
  <1>7. History(h)'
    BY Basics, HistoryFrame DEF Inv, QueueInv
  <1>8. ReplicasInv(h)'
    <2>1. \A r \in Replicas : DurableOf(r)' = DurableOf(r)
      BY DEF DurableOf
    <2> QED
      BY <1>2, <2>1 DEF Inv, QueueInv, ReplicasInv
  <1>9. TailInv(h)'
    BY TailFrame DEF Inv, QueueInv
  <1>10. ClientsInv(h)'
    BY DEF Inv, QueueInv, ClientsInv
  <1> QED
    BY <1>1, <1>3, <1>4, <1>5, <1>6, <1>7, <1>8, <1>9, <1>10 DEF Inv, TypeOK, QueueInv

\* A step of the worker of r.
LEMMA WorkerStep ==
    ASSUME TypeOK, PauseInv, UNCHANGED <<log, leader, applied, records, graph>>,
           NEW r \in Replicas, NEW m \in Workers, maint' = [maint EXCEPT ![r] = m],
           m.phase = "idle" => ~ m.clean, m.phase = "draining" => m.paused,
           m.clean => /\ m.paused /\ r = leader /\ Quiet(r)
                      /\ m.phase \in {"held", "prepared", "proposed"} => StoredPending(r) = {}
                      /\ m.phase \in {"prepared", "proposed"} => Len(graph[r]) = m.basis
    PROVE  maint' \in [Replicas -> Workers] /\ PauseInv'
  <1>1. maint \in [Replicas -> Workers]
    BY DEF TypeOK, NodeTyped
  <1>2. \A n \in Replicas : (Quiet(n)' <=> Quiet(n)) /\ StoredPending(n)' = StoredPending(n)
    BY DEF Quiet, StoredPending
  <1>3. maint'[r] = m /\ \A n \in Replicas : n # r => maint'[n] = maint[n]
    BY <1>1
  <1>4. PauseOf(r)'
    BY <1>2, <1>3 DEF PauseOf
  <1>5. \A n \in Replicas : n # r => PauseOf(n)'
    BY <1>2, <1>3 DEF PauseInv, PauseOf
  <1> QED
    BY <1>1, <1>4, <1>5 DEF PauseInv

LEMMA NoPlan ==
    <<>> \in Plans /\ \A d : FlushFits(d, <<>>)
  <1>1. <<>> \in [1..0 -> Batches] /\ 0 \in 0..FlushMaxRequests /\ DOMAIN <<>> = {}
    BY QueueAssumption
  <1> QED
    BY <1>1 DEF Plans, FlushFits

LEMMA IdleWorker ==
    IdleMaint \in Workers /\ IdleMaint.phase = "idle" /\ ~ IdleMaint.clean
  BY DEF IdleMaint, Workers, Phases

LEMMA StepDownKeeps ==
    ASSUME NEW h, Inv(h), NEW r \in Replicas, StepDown(r)
    PROVE  Inv(h)'
  <1>1. /\ views' = views \ {r}
        /\ UNCHANGED <<log, commit, leader, replicaVars, nodeVars, clientVars>>
    BY DEF StepDown
  <1>2. maint' \in [Replicas -> Workers] /\ PauseInv'
    BY <1>1, PauseFrame DEF Inv, TypeOK, NodeTyped, nodeVars, replicaVars
  <1> QED
    BY <1>1, <1>2, Aside DEF replicaVars, nodeVars, clientVars

LEMMA OutcomeUnknownKeeps ==
    ASSUME NEW h, Inv(h), NEW w \in waiting, OutcomeUnknown(w)
    PROVE  Inv(h)'
  <1>1. /\ waiting' = waiting \ {w}
        /\ UNCHANGED <<raftVars, replicaVars, plan, maint, clientVars>>
    BY DEF OutcomeUnknown
  <1>2. maint' \in [Replicas -> Workers] /\ PauseInv'
    BY <1>1, PauseFrame DEF Inv, TypeOK, NodeTyped, raftVars, replicaVars
  <1> QED
    BY <1>1, <1>2, Aside DEF raftVars, replicaVars, clientVars

LEMMA ReadReturnsKeeps ==
    ASSUME NEW h, Inv(h), NEW q \in reads, ReadReturns(q)
    PROVE  Inv(h)'
  <1>1. /\ reads' = reads \ {q}
        /\ UNCHANGED <<raftVars, replicaVars, nodeVars, seen>>
    BY DEF ReadReturns
  <1>2. maint' \in [Replicas -> Workers] /\ PauseInv'
    BY <1>1, PauseFrame DEF Inv, TypeOK, NodeTyped, nodeVars, raftVars, replicaVars
  <1> QED
    BY <1>1, <1>2, Aside DEF raftVars, replicaVars, nodeVars

LEMMA RestartKeeps ==
    ASSUME NEW h, Inv(h), NEW r \in Replicas, Restart(r)
    PROVE  Inv(h)'
  <1>1. /\ views' = views \ {r} /\ pending' = [pending EXCEPT ![r] = NoCache]
        /\ waiting' = {w \in waiting : w.node # r} /\ plan' = [plan EXCEPT ![r] = <<>>]
        /\ maint' = [maint EXCEPT ![r] = IdleMaint]
        /\ reads' = {q \in reads : q.node # r}
        /\ UNCHANGED <<log, commit, leader, applied, records, graph, disabled, done, seen>>
    BY DEF Restart
  <1>2. maint' \in [Replicas -> Workers] /\ PauseInv'
    BY <1>1, WorkerStep, IdleWorker DEF Inv
  <1>3. Cached(DurableOf(r), NoCache)
    BY DEF Cached
  <1>4. <<>> \in Plans /\ FlushFits(h[commit], <<>>)
    BY NoPlan
  <1> QED
    BY <1>1, <1>2, <1>3, <1>4, Aside

LEMMA FlushPlanKeeps ==
    ASSUME NEW h, Inv(h), NEW r \in Replicas, FlushPlan(r)
    PROVE  Inv(h)'
  <1>1. /\ pending' = [pending EXCEPT ![r] = PendingSnapshot(r)]
        /\ UNCHANGED <<raftVars, applied, records, graph, disabled, done, waiting, maint, clientVars>>
    BY DEF FlushPlan
  <1>2. PICK ids \in FlushOrder(r) : plan' = [plan EXCEPT ![r] = ids]
    BY DEF FlushPlan
  <1>3. maint' \in [Replicas -> Workers] /\ PauseInv'
    BY <1>1, PauseFrame DEF Inv, TypeOK, NodeTyped, raftVars
  <1>4. Cached(DurableOf(r), PendingSnapshot(r))
    BY SnapshotIsQueue DEF Cached
  <1>5. ids \in Plans /\ FlushFits(h[commit], ids)
    BY OrderFits
  <1> QED
    BY <1>1, <1>2, <1>3, <1>4, <1>5, Aside DEF raftVars, clientVars

LEMMA FlushRefusedKeeps ==
    ASSUME NEW h, Inv(h), NEW r \in Replicas, FlushRefused(r)
    PROVE  Inv(h)'
  <1>1. /\ plan' = [plan EXCEPT ![r] = <<>>]
        /\ UNCHANGED <<raftVars, replicaVars, waiting, maint, clientVars>>
    BY DEF FlushRefused
  <1>2. maint' \in [Replicas -> Workers] /\ PauseInv'
    BY <1>1, PauseFrame DEF Inv, TypeOK, NodeTyped, raftVars, replicaVars
  <1>3. <<>> \in Plans /\ FlushFits(h[commit], <<>>)
    BY NoPlan
  <1> QED
    BY <1>1, <1>2, <1>3, Aside DEF raftVars, replicaVars, clientVars

LEMMA RestoreSnapshotKeeps ==
    ASSUME NEW h, Inv(h), NEW r \in Replicas, NEW source \in Replicas, RestoreSnapshot(r, source)
    PROVE  Inv(h)'
  <1>1. /\ r # leader
        /\ applied' = [applied EXCEPT ![r] = applied[source]]
        /\ records' = [records EXCEPT ![r] = records[source]]
        /\ pending' = [pending EXCEPT ![r] = NoCache]
        /\ graph' = [graph EXCEPT ![r] = graph[source]]
        /\ disabled' = [disabled EXCEPT ![r] = disabled[source]]
        /\ done' = [done EXCEPT ![r] = done[source]]
        /\ UNCHANGED <<raftVars, nodeVars, clientVars>>
    BY DEF RestoreSnapshot
  <1>2. /\ applied \in [Replicas -> 0..commit] /\ records \in [Replicas -> [Batches -> RecordType]]
        /\ DOMAIN pending = Replicas /\ graph \in [Replicas -> Seq(Commits)]
        /\ disabled \in [Replicas -> BOOLEAN] /\ done \in [Replicas -> BOOLEAN]
        /\ \A n \in Replicas : pending[n] = NoCache \/ pending[n] \subseteq Batches
    BY DEF Inv, TypeOK, ReplicaTyped
  <1>3. RaftTyped'
    BY <1>1 DEF Inv, TypeOK, RaftTyped, raftVars
  <1>4. ReplicaTyped'
    <2>1. /\ applied' \in [Replicas -> 0..commit] /\ records' \in [Replicas -> [Batches -> RecordType]]
          /\ graph' \in [Replicas -> Seq(Commits)]
          /\ disabled' \in [Replicas -> BOOLEAN] /\ done' \in [Replicas -> BOOLEAN]
      BY <1>1, <1>2
    <2>2. DOMAIN pending' = Replicas /\ \A n \in Replicas : pending'[n] = NoCache \/ pending'[n] \subseteq Batches
      BY <1>1, <1>2
    <2> QED
      BY <2>1, <2>2, <1>1 DEF ReplicaTyped, raftVars
  <1>5. NodeTyped' /\ ClientTyped'
    BY <1>1, <1>3, TypeFrame DEF Inv, raftVars
  <1>6. History(h)' /\ PlansInv(h)' /\ TailInv(h)' /\ ClientsInv(h)'
    BY <1>1, Basics, HistoryFrame, PlansFrame, TailFrame, ClientsFrame DEF Inv, QueueInv, raftVars, nodeVars, clientVars
  <1>7. ReplicasInv(h)'
    <2> SUFFICES ASSUME NEW n \in Replicas
                 PROVE  (DurableOf(n) = h[applied[n]] /\ Cached(DurableOf(n), pending[n]))'
      BY DEF ReplicasInv
    <2>0. /\ DurableOf(n) = h[applied[n]] /\ Cached(DurableOf(n), pending[n])
          /\ DurableOf(source) = h[applied[source]]
      BY DEF Inv, QueueInv, ReplicasInv
    <2>1. CASE n = r
      <3>1. /\ applied'[r] = applied[source] /\ records'[r] = records[source] /\ graph'[r] = graph[source]
            /\ disabled'[r] = disabled[source] /\ done'[r] = done[source] /\ pending'[r] = NoCache
        BY <1>1, <1>2
      <3>2. DurableOf(r)' = DurableOf(source)
        BY <3>1 DEF DurableOf
      <3> QED
        BY <2>0, <2>1, <3>1, <3>2 DEF Cached
    <2>2. CASE n # r
      <3>1. /\ applied'[n] = applied[n] /\ records'[n] = records[n] /\ graph'[n] = graph[n]
            /\ disabled'[n] = disabled[n] /\ done'[n] = done[n] /\ pending'[n] = pending[n]
        BY <1>1, <1>2, <2>2
      <3>2. DurableOf(n)' = DurableOf(n)
        BY <3>1 DEF DurableOf
      <3> QED
        BY <2>0, <3>1, <3>2
    <2> QED
      BY <2>1, <2>2
  <1>8. PauseInv'
    <2> SUFFICES ASSUME NEW n \in Replicas
                 PROVE  PauseOf(n)'
      BY DEF PauseInv
    <2>0. PauseOf(n) /\ maint' = maint /\ leader' = leader /\ log' = log
      BY <1>1 DEF Inv, PauseInv, raftVars, nodeVars
    <2>1. CASE n = r
      <3>1. ~ maint[n].clean
        BY <2>0, <2>1, <1>1 DEF PauseOf
      <3> QED
        BY <2>0, <3>1 DEF PauseOf
    <2>2. CASE n # r
      <3>1. applied'[n] = applied[n] /\ records'[n] = records[n] /\ graph'[n] = graph[n]
        BY <1>1, <1>2, <2>2
      <3> QED
        BY <2>0, <3>1 DEF PauseOf, Quiet, StoredPending
    <2> QED
      BY <2>1, <2>2
  <1> QED
    BY <1>3, <1>4, <1>5, <1>6, <1>7, <1>8 DEF Inv, TypeOK, QueueInv

LEMMA FlushProposeKeeps ==
    ASSUME NEW h, Inv(h), NEW r \in Replicas, FlushPropose(r)
    PROVE  Inv(h)'
  <1> DEFINE cmd == [kind |-> "flush", ids |-> plan[r]]
  <1>1. /\ log' = Append(log, cmd) /\ UNCHANGED <<commit, leader, views, replicaVars, maint, clientVars>>
        /\ waiting' = waiting \union {[node |-> r, kind |-> "flush", index |-> Len(log) + 1]}
        /\ plan' = [plan EXCEPT ![r] = <<>>]
    BY DEF FlushPropose, Propose
  <1>2. plan \in [Replicas -> Plans] /\ \A n \in Replicas : FlushFits(h[commit], plan[n])
    BY DEF Inv, QueueInv, PlansInv, TypeOK, NodeTyped
  <1>3. cmd \in Commands /\ cmd.kind = "flush" /\ cmd.ids = plan[r]
    BY <1>2 DEF Commands
  <1> HIDE DEF cmd
  <1>4. /\ RaftTyped' /\ ReplicaTyped' /\ ClientTyped' /\ Len(log') = Len(log) + 1
        /\ History(h)' /\ TailInv(h)' /\ ReplicasInv(h)' /\ ClientsInv(h)'
    BY <1>1, <1>2, <1>3, Proposed
  <1>5. waiting' \subseteq Callers(Len(log'))
    BY <1>1, <1>4, CallerJoins DEF Inv, Kinds
  <1>6. plan' \in [Replicas -> Plans] /\ PlansInv(h)'
    BY <1>1, <1>2, NoPlan DEF PlansInv
  <1>7. NodeTyped'
    BY <1>1, <1>5, <1>6 DEF Inv, TypeOK, NodeTyped
  <1>8. PauseInv'
    <2>1. ~ Mutation(cmd.kind)
      BY <1>3 DEF Mutation
    <2>2. \A n \in Replicas : Quiet(n) => Quiet(n)'
      BY <2>1, <1>1, QuietProposed DEF Inv, replicaVars
    <2> QED
      BY <2>2, <1>1 DEF Inv, PauseInv, PauseOf, StoredPending, replicaVars
  <1> QED
    BY <1>4, <1>6, <1>7, <1>8 DEF Inv, TypeOK, QueueInv

LEMMA PauseWritesKeeps ==
    ASSUME NEW h, Inv(h), NEW r \in Replicas, PauseWrites(r)
    PROVE  Inv(h)'
  <1> DEFINE m == [IdleMaint EXCEPT !.phase = "draining", !.paused = TRUE]
  <1>1. /\ maint' = [maint EXCEPT ![r] = m]
        /\ UNCHANGED <<raftVars, replicaVars, waiting, plan, clientVars>>
    BY DEF PauseWrites
  <1>2. m \in Workers /\ m.phase = "draining" /\ m.paused /\ ~ m.clean
    BY DEF IdleMaint, Workers, Phases
  <1> HIDE DEF m
  <1>3. maint' \in [Replicas -> Workers] /\ PauseInv'
    BY <1>1, <1>2, WorkerStep DEF Inv, raftVars, replicaVars
  <1> QED
    BY <1>1, <1>3, Aside DEF raftVars, replicaVars, clientVars

LEMMA PauseDrainedKeeps ==
    ASSUME NEW h, Inv(h), NEW r \in Replicas, PauseDrained(r)
    PROVE  Inv(h)'
  <1> DEFINE c == r = leader /\ Quiet(r)
             m == [maint[r] EXCEPT !.phase = "barrier", !.index = commit, !.clean = c]
  <1>1. /\ maint[r].phase = "draining"
        /\ UNCHANGED <<raftVars, replicaVars, waiting, plan, clientVars>>
    BY DEF PauseDrained
  <1>2. maint[r] \in Workers /\ maint \in [Replicas -> Workers] /\ commit \in Nat /\ c \in BOOLEAN
    BY Basics DEF Inv, TypeOK, NodeTyped
  <1>3. maint' = [maint EXCEPT ![r] = m]
    BY <1>2 DEF PauseDrained, Quiet
  <1>4. maint[r].paused
    BY <1>1 DEF Inv, PauseInv, PauseOf
  <1>5. m \in Workers /\ m.phase = "barrier" /\ m.clean = c /\ m.paused = maint[r].paused
    <2> HIDE DEF c
    <2> QED
      BY <1>2 DEF Workers, Phases
  <1> HIDE DEF m
  <1>6. maint' \in [Replicas -> Workers] /\ PauseInv'
    BY <1>1, <1>3, <1>4, <1>5, WorkerStep DEF Inv, raftVars, replicaVars
  <1> QED
    BY <1>1, <1>6, Aside DEF raftVars, replicaVars, clientVars

LEMMA PauseLookKeeps ==
    ASSUME NEW h, Inv(h), NEW r \in Replicas, PauseLook(r)
    PROVE  Inv(h)'
  <1>1. /\ maint[r].phase = "barrier"
        /\ pending' = [pending EXCEPT ![r] = PendingSnapshot(r)]
        /\ UNCHANGED <<commit, leader, views, applied, records, graph, disabled, done, plan, clientVars>>
    BY DEF PauseLook
  <1>2. /\ maint[r] \in Workers /\ maint \in [Replicas -> Workers]
        /\ Cached(DurableOf(r), PendingSnapshot(r)) /\ StoredPending(r) = PendingSnapshot(r)
    BY SnapshotIsQueue DEF Inv, TypeOK, NodeTyped, Cached
  <1>p. PauseOf(r)
    BY DEF Inv, PauseInv
  <1>3. CASE /\ PendingSnapshot(r) = {} /\ UNCHANGED <<log, waiting>>
             /\ maint' = [maint EXCEPT ![r].phase = "held"]
    <2> DEFINE m == [maint[r] EXCEPT !.phase = "held"]
    <2>1. maint' = [maint EXCEPT ![r] = m]
      BY <1>2, <1>3
    <2>2. m \in Workers /\ m.phase = "held" /\ m.clean = maint[r].clean /\ m.paused = maint[r].paused
      BY <1>2 DEF Workers, Phases
    <2> HIDE DEF m
    <2>3. maint' \in [Replicas -> Workers] /\ PauseInv'
      BY <1>1, <1>2, <1>3, <1>p, <2>1, <2>2, WorkerStep DEF Inv, PauseOf
    <2> QED
      BY <1>1, <1>2, <1>3, <2>3, Aside DEF clientVars
  <1>4. ASSUME NEW ids \in FlushOrder(r),
               log' = Append(log, [kind |-> "flush", ids |-> ids]),
               waiting' = waiting \union {[node |-> r, kind |-> "drain", index |-> Len(log) + 1]},
               maint' = [maint EXCEPT ![r].phase = "flushing"]
        PROVE  Inv(h)'
    <2> DEFINE cmd == [kind |-> "flush", ids |-> ids]
               m == [maint[r] EXCEPT !.phase = "flushing"]
    <2>0. log' = Append(log, cmd)
      BY <1>4
    <2>1. ids \in Plans /\ FlushFits(h[commit], ids)
      BY OrderFits
    <2>2. cmd \in Commands /\ cmd.kind = "flush" /\ cmd.ids = ids
      BY <2>1 DEF Commands
    <2>m. maint' = [maint EXCEPT ![r] = m]
      BY <1>2, <1>4
    <2> HIDE DEF cmd
    <2>3. log \in Seq(Commands) /\ commit \in Nat /\ Len(log) \in Nat /\ commit <= Len(log)
      BY Basics DEF Inv
    <2>4. /\ History(h)' /\ TailInv(h)' /\ log' \in Seq(Commands) /\ Len(log') = Len(log) + 1
      BY <1>1, <2>0, <2>1, <2>2, ProposedFrame DEF Inv, TypeOK, QueueInv
    <2>5. RaftTyped'
      BY <1>1, <2>3, <2>4 DEF Inv, TypeOK, RaftTyped
    <2>6. ReplicaTyped' /\ ReplicasInv(h)'
      <3>1. DOMAIN pending = Replicas /\ \A n \in Replicas : Cached(DurableOf(n), pending[n])
        BY DEF Inv, QueueInv, ReplicasInv, TypeOK, ReplicaTyped
      <3>2. DOMAIN pending' = Replicas /\ \A n \in Replicas : Cached(DurableOf(n), pending'[n])
        BY <3>1, <1>1, <1>2
      <3>3. \A n \in Replicas : pending'[n] = NoCache \/ pending'[n] \subseteq Batches
        BY <3>2 DEF Cached, Accepted
      <3>4. ReplicaTyped'
        BY <3>2, <3>3, <1>1 DEF Inv, TypeOK, ReplicaTyped
      <3>5. \A n \in Replicas : DurableOf(n)' = DurableOf(n)
        BY <1>1 DEF DurableOf
      <3> QED
        BY <3>2, <3>4, <3>5, <1>1 DEF Inv, QueueInv, ReplicasInv
    <2>7. ClientTyped' /\ ClientsInv(h)' /\ PlansInv(h)'
      BY <1>1, <2>5, TypeFrame, ClientsFrame, PlansFrame DEF Inv, QueueInv, clientVars
    <2>8. waiting' \subseteq Callers(Len(log'))
      BY <1>4, <2>4, CallerJoins DEF Inv, Kinds
    <2>9. m \in Workers /\ m.phase = "flushing" /\ m.clean = maint[r].clean /\ m.paused = maint[r].paused
      BY <1>2 DEF Workers, Phases
    <2> HIDE DEF m
    <2>10. maint' \in [Replicas -> Workers] /\ maint'[r] = m /\ \A n \in Replicas : n # r => maint'[n] = maint[n]
      BY <1>2, <2>m, <2>9
    <2>11. NodeTyped'
      BY <1>1, <2>8, <2>10 DEF Inv, TypeOK, NodeTyped
    <2>12. PauseInv'
      <3>1. ~ Mutation(cmd.kind)
        BY <2>2 DEF Mutation
      <3>2. \A n \in Replicas : Quiet(n) => Quiet(n)'
        BY <3>1, <1>1, <2>0, QuietProposed DEF Inv
      <3>3. PauseOf(r)'
        BY <3>2, <1>1, <1>p, <2>9, <2>10 DEF PauseOf
      <3>4. \A n \in Replicas : n # r => PauseOf(n)'
        BY <3>2, <1>1, <2>10 DEF Inv, PauseInv, PauseOf, StoredPending
      <3> QED
        BY <3>3, <3>4 DEF PauseInv
    <2> QED
      BY <2>4, <2>5, <2>6, <2>7, <2>11, <2>12 DEF Inv, TypeOK, QueueInv
  <1> QED
    BY <1>3, <1>4 DEF PauseLook

LEMMA PauseFlushedKeeps ==
    ASSUME NEW h, Inv(h), NEW r \in Replicas, PauseFlushed(r)
    PROVE  Inv(h)'
  <1> DEFINE m == [maint[r] EXCEPT !.phase = "barrier", !.index = commit]
  <1>1. UNCHANGED <<raftVars, replicaVars, waiting, plan, clientVars>>
    BY DEF PauseFlushed
  <1>2. maint[r] \in Workers /\ maint \in [Replicas -> Workers] /\ commit \in Nat /\ PauseOf(r)
    BY Basics DEF Inv, TypeOK, NodeTyped, PauseInv
  <1>3. maint' = [maint EXCEPT ![r] = m]
    BY <1>2 DEF PauseFlushed
  <1>4. m \in Workers /\ m.phase = "barrier" /\ m.clean = maint[r].clean /\ m.paused = maint[r].paused
    BY <1>2 DEF Workers, Phases
  <1> HIDE DEF m
  <1>5. maint' \in [Replicas -> Workers] /\ PauseInv'
    BY <1>1, <1>2, <1>3, <1>4, WorkerStep DEF Inv, raftVars, replicaVars, PauseOf
  <1> QED
    BY <1>1, <1>5, Aside DEF raftVars, replicaVars, clientVars

LEMMA CaptureKeeps ==
    ASSUME NEW h, Inv(h), NEW r \in Replicas, Capture(r)
    PROVE  Inv(h)'
  <1> DEFINE m == [maint[r] EXCEPT !.phase = "prepared", !.basis = Len(graph[r])]
  <1>1. /\ maint[r].phase \in {"held", "idle"}
        /\ UNCHANGED <<raftVars, replicaVars, waiting, plan, clientVars>>
    BY DEF Capture
  <1>2. maint[r] \in Workers /\ maint \in [Replicas -> Workers] /\ Len(graph[r]) \in Nat /\ PauseOf(r)
    BY DEF Inv, TypeOK, NodeTyped, ReplicaTyped, PauseInv
  <1>3. maint' = [maint EXCEPT ![r] = m]
    BY <1>2 DEF Capture
  <1>4. /\ m \in Workers /\ m.phase = "prepared" /\ m.clean = maint[r].clean /\ m.paused = maint[r].paused
        /\ m.basis = Len(graph[r])
    BY <1>2 DEF Workers, Phases
  <1> HIDE DEF m
  <1>5. maint' \in [Replicas -> Workers] /\ PauseInv'
    BY <1>1, <1>2, <1>3, <1>4, WorkerStep DEF Inv, raftVars, replicaVars, PauseOf
  <1> QED
    BY <1>1, <1>5, Aside DEF raftVars, replicaVars, clientVars

LEMMA ProposeTaskKeeps ==
    ASSUME NEW h, Inv(h), NEW r \in Replicas, ProposeTask(r)
    PROVE  Inv(h)'
  <1> DEFINE cmd == [kind |-> "task", basis |-> maint[r].basis]
             m == [maint[r] EXCEPT !.phase = "proposed"]
  <1>1. /\ maint[r].phase = "prepared"
        /\ log' = Append(log, cmd) /\ UNCHANGED <<commit, leader, views, replicaVars, plan, clientVars>>
        /\ waiting' = waiting \union {[node |-> r, kind |-> "task", index |-> Len(log) + 1]}
    BY DEF ProposeTask, Propose
  <1>2. maint[r] \in Workers /\ maint \in [Replicas -> Workers]
    BY DEF Inv, TypeOK, NodeTyped
  <1>m. maint' = [maint EXCEPT ![r] = m]
    BY <1>2 DEF ProposeTask
  <1>3. cmd \in Commands /\ cmd.kind = "task"
    BY <1>2, WorkerFields DEF Commands
  <1>4. /\ m \in Workers /\ m.phase = "proposed" /\ m.clean = maint[r].clean /\ m.paused = maint[r].paused
        /\ m.basis = maint[r].basis
    BY <1>2 DEF Workers, Phases
  <1> HIDE DEF cmd, m
  <1>5. /\ RaftTyped' /\ ReplicaTyped' /\ ClientTyped' /\ Len(log') = Len(log) + 1
        /\ History(h)' /\ TailInv(h)' /\ ReplicasInv(h)' /\ ClientsInv(h)'
    BY <1>1, <1>3, Proposed
  <1>6. waiting' \subseteq Callers(Len(log'))
    BY <1>1, <1>5, CallerJoins DEF Inv, Kinds
  <1>7. PlansInv(h)'
    BY <1>1, PlansFrame DEF Inv, QueueInv
  <1>8. maint' \in [Replicas -> Workers] /\ maint'[r] = m /\ \A n \in Replicas : n # r => maint'[n] = maint[n]
    BY <1>2, <1>m, <1>4
  <1>9. NodeTyped'
    BY <1>1, <1>6, <1>8 DEF Inv, TypeOK, NodeTyped
  <1>10. PauseInv'
    <2>1. ~ Mutation(cmd.kind)
      BY <1>3 DEF Mutation
    <2>2. \A n \in Replicas : Quiet(n) => Quiet(n)'
      BY <2>1, <1>1, QuietProposed DEF Inv, replicaVars
    <2>3. PauseOf(r)
      BY DEF Inv, PauseInv
    <2>4. PauseOf(r)'
      BY <2>2, <2>3, <1>1, <1>4, <1>8 DEF PauseOf, StoredPending, replicaVars
    <2>5. \A n \in Replicas : n # r => PauseOf(n)'
      BY <2>2, <1>1, <1>8 DEF Inv, PauseInv, PauseOf, StoredPending, replicaVars
    <2> QED
      BY <2>4, <2>5 DEF PauseInv
  <1> QED
    BY <1>5, <1>7, <1>9, <1>10 DEF Inv, TypeOK, QueueInv

LEMMA ResumeKeeps ==
    ASSUME NEW h, Inv(h), NEW r \in Replicas, Resume(r)
    PROVE  Inv(h)'
  <1>1. /\ maint' = [maint EXCEPT ![r] = IdleMaint]
        /\ UNCHANGED <<raftVars, replicaVars, waiting, plan, clientVars>>
    BY DEF Resume
  <1>2. maint' \in [Replicas -> Workers] /\ PauseInv'
    BY <1>1, WorkerStep, IdleWorker DEF Inv, raftVars, replicaVars
  <1> QED
    BY <1>1, <1>2, Aside DEF raftVars, replicaVars, clientVars

\* A step of a reader.
LEMMA ReaderStep ==
    ASSUME NEW h, Inv(h), UNCHANGED <<raftVars, replicaVars, nodeVars>>, ClientTyped', ClientsInv(h)'
    PROVE  Inv(h)'
  <1>1. RaftTyped'
    BY DEF Inv, TypeOK, RaftTyped, raftVars
  <1>2. ReplicaTyped' /\ NodeTyped'
    BY <1>1, TypeFrame DEF Inv, raftVars
  <1>3. History(h)' /\ ReplicasInv(h)' /\ PlansInv(h)' /\ TailInv(h)'
    BY Basics, HistoryFrame, ReplicasFrame, PlansFrame, TailFrame DEF Inv, QueueInv, raftVars, nodeVars
  <1>4. PauseInv'
    BY PauseFrame DEF Inv, raftVars, nodeVars, replicaVars
  <1> QED
    BY <1>1, <1>2, <1>3, <1>4 DEF Inv, TypeOK, QueueInv

LEMMA ReadIndexKeeps ==
    ASSUME NEW h, Inv(h), NEW r \in Replicas, ReadIndex(r)
    PROVE  Inv(h)'
  <1> DEFINE q == [node |-> r, index |-> commit, must |-> seen, saw |-> <<>>]
  <1>1. reads' = reads \union {q} /\ UNCHANGED <<raftVars, replicaVars, nodeVars, seen>>
    BY DEF ReadIndex
  <1>2. seen \in [Batches -> 0..2] /\ reads \subseteq Reads(commit) /\ commit \in Nat
    BY Basics DEF Inv, TypeOK, ClientTyped
  <1>3. q \in Reads(commit) /\ q.index = commit /\ q.must = seen /\ q.saw = <<>>
    BY <1>2 DEF Reads
  <1> HIDE DEF q
  <1>4. ClientTyped'
    BY <1>1, <1>2, <1>3 DEF ClientTyped, raftVars
  <1>5. ClientsInv(h)'
    <2>1. \A b \in Batches : q.must[b] <= Rank(h[q.index].records[b].state)
      BY <1>3 DEF Inv, QueueInv, ClientsInv
    <2> QED
      BY <2>1, <1>1, <1>3 DEF Inv, QueueInv, ClientsInv, raftVars
  <1> QED
    BY <1>1, <1>4, <1>5, ReaderStep

LEMMA ReadStatusKeeps ==
    ASSUME NEW h, Inv(h), NEW q \in reads, ReadStatus(q)
    PROVE  Inv(h)'
  <1> DEFINE n == q.node
             saw == [b \in Batches |-> Rank(records[n][b].state)]
             x == [q EXCEPT !.saw = saw]
  <1>1. /\ applied[n] >= q.index
        /\ reads' = (reads \ {q}) \union {x}
        /\ seen' = [b \in Batches |-> IF seen[b] < saw[b] THEN saw[b] ELSE seen[b]]
        /\ UNCHANGED <<raftVars, replicaVars, nodeVars>>
    BY DEF ReadStatus, BarrierOpen
  <1>2. seen \in [Batches -> 0..2] /\ reads \subseteq Reads(commit) /\ commit \in Nat /\ q \in Reads(commit)
    BY Basics DEF Inv, TypeOK, ClientTyped
  <1>3. n \in Replicas /\ q.index \in 0..commit /\ q.must \in [Batches -> 0..2]
    BY <1>2 DEF Reads
  <1>4. saw \in [Batches -> 0..2] /\ \A b \in Batches : saw[b] = Rank(records[n][b].state)
    BY RankType
  <1> HIDE DEF saw, n
  <1>5. x \in Reads(commit) /\ x.index = q.index /\ x.must = q.must /\ x.saw = saw
    BY <1>2, <1>4 DEF Reads
  <1> HIDE DEF x
  <1>6. /\ applied[n] \in 0..commit /\ commit \in 0..commit
        /\ DurableOf(n) = h[applied[n]] /\ h[applied[n]] \in DurableType /\ h[q.index] \in DurableType
        /\ h[commit] \in DurableType
        /\ Grows(h[applied[n]], h[commit], applied[n]) /\ Grows(h[q.index], h[applied[n]], q.index)
    <2>1. applied[n] \in 0..commit /\ commit \in 0..commit /\ DurableOf(n) = h[applied[n]]
      BY <1>3, InHistory
    <2>2. q.index <= applied[n] /\ applied[n] <= commit
      BY <1>1, <1>3, <2>1
    <2> QED
      BY <2>1, <2>2, <1>3 DEF Inv, QueueInv, History
  <1>7. \A b \in Batches : saw[b] = Rank(h[applied[n]].records[b].state)
    BY <1>4, <1>6 DEF DurableOf
  <1>8. \A b \in Batches : saw[b] >= q.must[b] /\ saw[b] <= Rank(h[commit].records[b].state)
    <2> SUFFICES ASSUME NEW b \in Batches
                 PROVE  saw[b] >= q.must[b] /\ saw[b] <= Rank(h[commit].records[b].state)
      OBVIOUS
    <2>1. q.must[b] <= Rank(h[q.index].records[b].state) /\ q.must[b] \in 0..2
      BY <1>3 DEF Inv, QueueInv, ClientsInv
    <2>2. Rank(h[q.index].records[b].state) <= Rank(h[applied[n]].records[b].state)
      BY <1>6, RankGrows
    <2>3. Rank(h[applied[n]].records[b].state) <= Rank(h[commit].records[b].state)
      BY <1>6, RankGrows
    <2> QED
      BY <2>1, <2>2, <2>3, <1>7, RankType
  <1>9. seen' \in [Batches -> 0..2] /\ \A b \in Batches : seen'[b] <= Rank(h[commit].records[b].state)
    <2>1. \A b \in Batches : seen[b] <= Rank(h[commit].records[b].state)
      BY DEF Inv, QueueInv, ClientsInv
    <2> QED
      BY <2>1, <1>1, <1>2, <1>4, <1>8
  <1>10. ClientTyped'
    BY <1>1, <1>2, <1>5, <1>9 DEF ClientTyped, raftVars
  <1>11. ClientsInv(h)'
    <2>1. \A p \in reads' : \A b \in Batches :
            /\ p.must[b] <= Rank(h[p.index].records[b].state)
            /\ p.saw # <<>> => p.saw[b] >= p.must[b]
      <3> SUFFICES ASSUME NEW p \in reads', NEW b \in Batches
                   PROVE  /\ p.must[b] <= Rank(h[p.index].records[b].state)
                          /\ p.saw # <<>> => p.saw[b] >= p.must[b]
        OBVIOUS
      <3>1. CASE p = x
        BY <3>1, <1>5, <1>8 DEF Inv, QueueInv, ClientsInv
      <3>2. CASE p # x
        <4>1. p \in reads
          BY <3>2, <1>1
        <4> QED
          BY <4>1 DEF Inv, QueueInv, ClientsInv
      <3> QED
        BY <3>1, <3>2
    <2> QED
      BY <2>1, <1>1, <1>9 DEF ClientsInv, raftVars
  <1> QED
    BY <1>1, <1>10, <1>11, ReaderStep

LEMMA StutterKeeps ==
    ASSUME NEW h, Inv(h), UNCHANGED vars
    PROVE  Inv(h)'
  <1>1. UNCHANGED <<raftVars, replicaVars, nodeVars, clientVars>>
    BY DEF vars
  <1>2. RaftTyped'
    BY <1>1 DEF Inv, TypeOK, RaftTyped, raftVars
  <1>3. ClientTyped' /\ ClientsInv(h)'
    BY <1>1, <1>2, TypeFrame, ClientsFrame DEF Inv, QueueInv, raftVars, clientVars
  <1> QED
    BY <1>1, <1>3, ReaderStep

-----------------------------------------------------------------------------
(* The initial states, and the induction.                                  *)

LEMMA InitHolds ==
    ASSUME Init
    PROVE  \E h : Inv(h)
  <1>r. NoRecord \in RecordType /\ NoRecord.state = "none"
    BY DEF NoRecord, RecordType
  <1>d. /\ EmptyDurable \in DurableType
        /\ EmptyDurable.records = [b \in Batches |-> NoRecord] /\ EmptyDurable.graph = <<>>
    <2>1. [b \in Batches |-> NoRecord] \in [Batches -> RecordType]
      BY <1>r
    <2>2. <<>> \in Seq(Commits)
      OBVIOUS
    <2> QED
      BY <2>1, <2>2 DEF EmptyDurable, DurableType
  <1>s. StateInv(EmptyDurable, 0)
    <2>1. \A b \in Batches : ~ Recorded(EmptyDurable, b)
      BY <1>r, <1>d DEF Recorded
    <2>2. DOMAIN EmptyDurable.graph = {}
      BY <1>d
    <2> QED
      BY <2>1, <2>2 DEF StateInv, RecordsDated, PublishedCloses, InOrder
  <1>h. PICK h : h \in [0..0 -> DurableType] /\ h[0] = EmptyDurable
    <2>1. [k \in 0..0 |-> EmptyDurable] \in [0..0 -> DurableType] /\ [k \in 0..0 |-> EmptyDurable][0] = EmptyDurable
      BY <1>d
    <2> QED
      BY <2>1
  <1>1. RaftTyped
    BY DEF Init, RaftTyped
  <1>2. ReplicaTyped
    <2>1. /\ applied = [r \in Replicas |-> 0] /\ records = [r \in Replicas |-> [b \in Batches |-> NoRecord]]
          /\ pending = [r \in Replicas |-> NoCache] /\ graph = [r \in Replicas |-> <<>>]
          /\ disabled = [r \in Replicas |-> FALSE] /\ done = [r \in Replicas |-> FALSE] /\ commit = 0
      BY DEF Init
    <2>2. records \in [Replicas -> [Batches -> RecordType]]
      BY <2>1, <1>r
    <2>3. graph \in [Replicas -> Seq(Commits)]
      BY <2>1
    <2> QED
      BY <2>1, <2>2, <2>3 DEF ReplicaTyped
  <1>3. NodeTyped
    <2>1. plan \in [Replicas -> Plans] /\ maint \in [Replicas -> Workers] /\ waiting = {}
      BY NoPlan, IdleWorker DEF Init
    <2> QED
      BY <2>1 DEF NodeTyped
  <1>4. ClientTyped
    BY DEF Init, ClientTyped
  <1>5. History(h)
    <2>1. commit = 0
      BY DEF Init
    <2>2. \A i, k \in 0..0 : Grows(h[i], h[k], i)
      BY GrowsItself
    <2>3. \A k \in 0..0 : StateInv(h[k], k)
      BY <1>s, <1>h
    <2>4. 1..0 = {}
      OBVIOUS
    <2> QED
      BY <2>1, <2>2, <2>3, <2>4, <1>h DEF History
  <1>6. ReplicasInv(h)
    <2> SUFFICES ASSUME NEW r \in Replicas
                 PROVE  DurableOf(r) = h[applied[r]] /\ Cached(DurableOf(r), pending[r])
      BY DEF ReplicasInv
    <2>1. DurableOf(r) = EmptyDurable /\ applied[r] = 0 /\ pending[r] = NoCache
      BY DEF Init, DurableOf, EmptyDurable
    <2> QED
      BY <2>1, <1>h DEF Cached
  <1>7. PlansInv(h) /\ TailInv(h)
    BY NoPlan DEF Init, PlansInv, TailInv
  <1>8. ClientsInv(h)
    <2>1. \A b \in Batches : seen[b] = 0 /\ reads = {}
      BY DEF Init
    <2>2. reads = {}
      BY DEF Init
    <2> QED
      BY <2>1, <2>2, RankType DEF ClientsInv
  <1>9. PauseInv
    <2>1. \A r \in Replicas : maint[r] = IdleMaint
      BY DEF Init
    <2> QED
      BY <2>1, IdleWorker DEF PauseInv, PauseOf
  <1> QED
    BY <1>1, <1>2, <1>3, <1>4, <1>5, <1>6, <1>7, <1>8, <1>9 DEF Inv, TypeOK, QueueInv

LEMMA NextKeeps ==
    ASSUME NEW h, Inv(h), [Next]_vars
    PROVE  \E g : Inv(g)'
  <1>1. CASE Commit
    BY <1>1, CommitKeeps
  <1>2. ASSUME NEW r \in Replicas,
               \/ ClientWrite(r) \/ Apply(r)
               \/ Elect(r) \/ StepDown(r) \/ Restart(r)
               \/ \E source \in Replicas : RestoreSnapshot(r, source)
               \/ FlushPlan(r) \/ FlushPropose(r) \/ FlushRefused(r)
               \/ PauseWrites(r) \/ PauseDrained(r) \/ PauseLook(r) \/ PauseFlushed(r)
               \/ Capture(r) \/ ProposeTask(r) \/ Resume(r)
               \/ ReadIndex(r)
        PROVE  Inv(h)'
    BY <1>2, ClientWriteKeeps, ApplyKeeps, ElectKeeps, StepDownKeeps, RestartKeeps, RestoreSnapshotKeeps,
       FlushPlanKeeps, FlushProposeKeeps, FlushRefusedKeeps, PauseWritesKeeps, PauseDrainedKeeps, PauseLookKeeps,
       PauseFlushedKeeps, CaptureKeeps, ProposeTaskKeeps, ResumeKeeps, ReadIndexKeeps
  <1>3. ASSUME NEW w \in waiting, OutcomeUnknown(w)
        PROVE  Inv(h)'
    BY <1>3, OutcomeUnknownKeeps
  <1>4. ASSUME NEW q \in reads, ReadStatus(q) \/ ReadReturns(q)
        PROVE  Inv(h)'
    BY <1>4, ReadStatusKeeps, ReadReturnsKeeps
  <1>5. CASE UNCHANGED vars
    BY <1>5, StutterKeeps
  <1> QED
    BY <1>1, <1>2, <1>3, <1>4, <1>5 DEF Next

\* The history exists in every reachable state.
QueueInvariant == \E h : Inv(h)

LEMMA Invariance ==
    Spec => []QueueInvariant
  <1>1. Init => QueueInvariant
    BY InitHolds DEF QueueInvariant
  <1>2. QueueInvariant /\ [Next]_vars => QueueInvariant'
    <2> SUFFICES ASSUME QueueInvariant, [Next]_vars
                 PROVE  QueueInvariant'
      OBVIOUS
    <2>1. PICK h : Inv(h)
      BY DEF QueueInvariant
    <2> QED
      BY <2>1, NextKeeps DEF QueueInvariant
  <1> QED
    BY <1>1, <1>2, PTL DEF Spec

\* Every variable keeps its type.
THEOREM TypeCorrect ==
    Spec => []TypeOK
  <1>1. QueueInvariant => TypeOK
    BY DEF QueueInvariant, Inv
  <1> QED
    BY <1>1, Invariance, PTL

\* Replicas that applied the same entries hold the same records and graph,
\* whenever their caches were built and whatever their budgets: the cache
\* and the replica's own MaxPendingBytes never decide what is stored.
THEOREM CachesAreInvisible ==
    Spec => []ReplicasAgree
  <1>1. QueueInvariant => ReplicasAgree
    <2> SUFFICES ASSUME NEW h, Inv(h), NEW r \in Replicas, NEW s \in Replicas, applied[r] = applied[s]
                 PROVE  /\ records[r] = records[s] /\ graph[r] = graph[s]
                        /\ disabled[r] = disabled[s] /\ done[r] = done[s]
      BY DEF QueueInvariant, ReplicasAgree
    <2>1. DurableOf(r) = DurableOf(s)
      BY InHistory
    <2> QED
      BY <2>1 DEF DurableOf
  <1> QED
    BY <1>1, Invariance, PTL

\* A batch is published at most once, and batches are published in the order
\* of their acceptance, whichever leaders planned and repeated the flushes.
THEOREM PublicationOrder ==
    Spec => []PublishedInOrder
  <1>1. QueueInvariant => PublishedInOrder
    <2> SUFFICES ASSUME NEW h, Inv(h), NEW r \in Replicas
                 PROVE  InOrder(DurableOf(r))
      BY DEF QueueInvariant, PublishedInOrder, InOrder, DurableOf
    <2> QED
      BY InHistory DEF StateInv
  <1> QED
    BY <1>1, Invariance, PTL

\* A status read behind the barrier shows what any client was told before it.
THEOREM ReadsAreCurrent ==
    Spec => []ReadsSeeAcknowledged
  <1>1. QueueInvariant => ReadsSeeAcknowledged
    BY DEF QueueInvariant, Inv, QueueInv, ClientsInv, ReadsSeeAcknowledged
  <1> QED
    BY <1>1, Invariance, PTL

\* A clean pause, held under one leader, keeps the captured state current.
THEOREM PauseHolds ==
    Spec => []PauseExcludesWriters
  <1>1. QueueInvariant => PauseExcludesWriters
    BY DEF QueueInvariant, Inv, PauseInv, PauseOf, PauseExcludesWriters
  <1> QED
    BY <1>1, Invariance, PTL
=============================================================================
