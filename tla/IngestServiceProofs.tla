------------------------ MODULE IngestServiceProofs ------------------------
(***************************************************************************)
(* Machine-checked theorems about IngestService, for any requests, callers *)
(* and group size, and any number of calls and faults.                     *)
(***************************************************************************)
EXTENDS IngestServiceInv, FiniteSetTheorems, WellFoundedInduction, TLAPS

-----------------------------------------------------------------------------
(* Operators on sequences.                                                 *)

LEMMA LessThanPairs == \A a, b \in Nat : <<a, b>> \in OpToRel(<, Nat) <=> a < b
BY Zenon DEF OpToRel

\* The least element of a set of naturals.
LEMMA LeastExists ==
    ASSUME NEW S \in SUBSET Nat, S # {}
    PROVE  \E x \in S : \A y \in S : x <= y
<1>1. PICK x \in S : \A y \in S : ~ (<<y, x>> \in OpToRel(<, Nat))
    BY NatLessThanWellFounded, WFMin
<1>2. \A y \in S : ~ (y < x)
    BY <1>1, LessThanPairs, Zenon
<1> HIDE <1>1
<1>3. QED
    BY <1>2

LEMMA SameSequence ==
    ASSUME NEW S, NEW s \in Seq(S), NEW t \in Seq(S), Len(s) = Len(t),
           \A i \in 1..Len(s) : s[i] = t[i]
    PROVE  s = t
OBVIOUS

LEMMA IdsOfConcat ==
    ASSUME NEW S, NEW s \in Seq(S), NEW t \in Seq(S)
    PROVE  s \o t \in Seq(S) /\ Ids(s \o t) = Ids(s) \union Ids(t)
<1>1. s \o t \in Seq(S) /\ Len(s \o t) = Len(s) + Len(t)
    OBVIOUS
<1>2. \A i \in DOMAIN s : i \in DOMAIN (s \o t) /\ (s \o t)[i] = s[i]
    OBVIOUS
<1>3. \A i \in DOMAIN t : Len(s) + i \in DOMAIN (s \o t) /\ (s \o t)[Len(s) + i] = t[i]
    OBVIOUS
<1>4. \A i \in DOMAIN (s \o t) : (s \o t)[i] \in Ids(s) \union Ids(t)
    BY DEF Ids
<1>5. \A x \in Ids(s) \union Ids(t) : x \in Ids(s \o t)
    BY <1>2, <1>3 DEF Ids
<1>6. QED
    BY <1>1, <1>4, <1>5 DEF Ids

LEMMA IdsOfParts ==
    ASSUME NEW S, NEW s \in Seq(S), NEW n \in 0..Len(s)
    PROVE  /\ SubSeq(s, 1, n) \in Seq(S) /\ SubSeq(s, n + 1, Len(s)) \in Seq(S)
           /\ Len(SubSeq(s, 1, n)) = n /\ Len(SubSeq(s, n + 1, Len(s))) = Len(s) - n
           /\ SubSeq(s, 1, n) \o SubSeq(s, n + 1, Len(s)) = s
           /\ Ids(SubSeq(s, 1, n)) \subseteq Ids(s) /\ Ids(SubSeq(s, n + 1, Len(s))) \subseteq Ids(s)
           /\ \A i \in 1..n : SubSeq(s, 1, n)[i] = s[i]
<1>1. SubSeq(s, 1, n) \in Seq(S) /\ SubSeq(s, n + 1, Len(s)) \in Seq(S)
    OBVIOUS
<1>2. Len(SubSeq(s, 1, n)) = n /\ Len(SubSeq(s, n + 1, Len(s))) = Len(s) - n
    OBVIOUS
<1>3. \A i \in 1..n : SubSeq(s, 1, n)[i] = s[i]
    OBVIOUS
<1>4. \A i \in 1..Len(s) - n : SubSeq(s, n + 1, Len(s))[i] = s[n + i]
    OBVIOUS
<1> DEFINE a == SubSeq(s, 1, n)
           b == SubSeq(s, n + 1, Len(s))
<1> HIDE DEF a, b
<1>5. a \o b = s
  <2>0. a \in Seq(S) /\ b \in Seq(S) /\ Len(a) = n /\ Len(b) = Len(s) - n
    BY <1>1, <1>2 DEF a, b
  <2>1. a \o b \in Seq(S) /\ Len(a \o b) = Len(s)
    BY <2>0
  <2>2. \A i \in 1..Len(s) : (a \o b)[i] = s[i]
    <3> TAKE i \in 1..Len(s)
    <3>1. CASE i <= n
      <4>1. (a \o b)[i] = a[i]
        BY <2>0, <3>1
      <4>2. QED
        BY <1>3, <3>1, <4>1 DEF a
    <3>2. CASE i > n
      <4>1. (a \o b)[i] = b[i - n] /\ i - n \in 1..Len(s) - n
        BY <2>0, <3>2
      <4>2. b[i - n] = s[n + (i - n)] /\ n + (i - n) = i
        BY <1>4, <4>1 DEF b
      <4>3. QED
        BY <4>1, <4>2
    <3>3. i <= n \/ i > n
      OBVIOUS
    <3>4. QED
      BY <3>1, <3>2, <3>3
  <2>3. QED
    BY <2>1, <2>2, SameSequence
<1>6. Ids(a) \subseteq Ids(s) /\ Ids(b) \subseteq Ids(s)
  <2>1. DOMAIN a = 1..n /\ DOMAIN b = 1..Len(s) - n /\ DOMAIN s = 1..Len(s)
    BY <1>1, <1>2 DEF a, b
  <2>2. \A i \in 1..n : i \in 1..Len(s) /\ a[i] = s[i]
    BY <1>3 DEF a
  <2>3. \A i \in 1..Len(s) - n : n + i \in 1..Len(s) /\ b[i] = s[n + i]
    BY <1>4 DEF b
  <2>4. QED
    BY <2>1, <2>2, <2>3 DEF Ids
<1>7. QED
    BY <1>1, <1>2, <1>3, <1>5, <1>6 DEF a, b

LEMMA ConcatAssoc ==
    ASSUME NEW S, NEW s \in Seq(S), NEW t \in Seq(S), NEW u \in Seq(S)
    PROVE  (s \o t) \o u = s \o (t \o u)
OBVIOUS

LEMMA ConcatEmpty ==
    ASSUME NEW S, NEW s \in Seq(S)
    PROVE  <<>> \o s = s /\ s \o <<>> = s /\ <<>> \in Seq(S) /\ Ids(<<>>) = {}
BY DEF Ids

\* An increasing enumeration of the positions exists.
LEMMA EnumerationExists ==
    ASSUME NEW n \in Nat, NEW keep \in SUBSET (1..n)
    PROVE  \E at \in [1..Cardinality(keep) -> keep] :
             \A i, j \in 1..Cardinality(keep) : i < j => at[i] < at[j]
<1> DEFINE E(K) == \E at \in [1..Cardinality(K) -> K] :
                     \A i, j \in 1..Cardinality(K) : i < j => at[i] < at[j]
           Bad == {m \in Nat : \E K \in SUBSET (1..m) : ~E(K)}
<1>1. SUFFICES ASSUME Bad # {} PROVE FALSE
    OBVIOUS
<1>0. Bad \in SUBSET Nat
    OBVIOUS
<1>2. PICK m \in Bad : \A k \in Bad : m <= k
    BY <1>0, <1>1, LeastExists
<1>3. PICK K \in SUBSET (1..m) : ~E(K)
    OBVIOUS
<1>4. CASE m = 0
  <2>0. Cardinality({}) = 0
    BY FS_EmptySet
  <2>1. K = {}
    BY <1>4
  <2>10. Cardinality(K) = 0
    BY <2>0, <2>1
  <2>2. [i \in {} |-> 0] \in [1..0 -> K] /\ 1..0 = {}
    OBVIOUS
  <2>3. QED
    BY <1>3, <2>1, <2>10, <2>2
<1>5. CASE m # 0
  <2> HIDE DEF Bad
  <2>1. m \in Nat /\ m - 1 \in Nat /\ m - 1 \notin Bad
    BY <1>0, <1>2, <1>5
  <2> USE DEF Bad
  <2>2. \A L \in SUBSET (1..m - 1) : E(L)
    BY <2>1
  <2> DEFINE L == K \ {m}
  <2>3. L \in SUBSET (1..m - 1) /\ m \notin L
    BY <2>1
  <2> HIDE DEF E
  <2>4. E(L)
    BY <2>2, <2>3
  <2>5. m \in K
    BY <1>3, <2>4
  <2>6. IsFiniteSet(L) /\ K = L \union {m}
    <3>1. IsFiniteSet(1..m - 1)
      BY <2>1, FS_Interval
    <3>2. QED
      BY <2>3, <2>5, <3>1, FS_Subset
  <2>7. Cardinality(L) \in Nat /\ Cardinality(K) = Cardinality(L) + 1
    BY <2>3, <2>6, FS_AddElement, FS_CardinalityType
  <2> USE DEF E
  <2>8. PICK f \in [1..Cardinality(L) -> L] : \A i, j \in 1..Cardinality(L) : i < j => f[i] < f[j]
    BY <2>4
  <2> DEFINE c == Cardinality(L)
             g == [i \in 1..c + 1 |-> IF i = c + 1 THEN m ELSE f[i]]
  <2> HIDE DEF E, c
  <2>70. c \in Nat /\ f \in [1..c -> L] /\ \A i, j \in 1..c : i < j => f[i] < f[j]
    BY <2>7, <2>8 DEF c
  <2>9. g \in [1..c + 1 -> K]
    <3>1. \A i \in 1..c + 1 : i # c + 1 => i \in 1..c
      BY <2>70
    <3>2. \A i \in 1..c + 1 : g[i] \in K
      BY <2>5, <2>70, <3>1
    <3>3. QED
      BY <3>2
  <2>10. \A i, j \in 1..c + 1 : i < j => g[i] < g[j]
    <3> SUFFICES ASSUME NEW i \in 1..c + 1, NEW j \in 1..c + 1, i < j PROVE g[i] < g[j]
      OBVIOUS
    <3>1. i \in 1..c /\ g[i] = f[i]
      BY <2>70
    <3>2. f[i] \in 1..m - 1
      BY <2>3, <2>70, <3>1
    <3>3. CASE j = c + 1
      BY <2>1, <3>1, <3>2, <3>3
    <3>4. CASE j # c + 1
      <4>1. j \in 1..c /\ g[j] = f[j]
        BY <2>70, <3>4
      <4>2. QED
        BY <2>70, <3>1, <4>1
    <3>5. QED
      BY <3>3, <3>4
  <2>11. E(K)
    <3>1. Cardinality(K) = c + 1
      BY <2>7 DEF c
    <3> HIDE DEF g
    <3>2. QED
      BY <2>9, <2>10, <3>1 DEF E
  <2>12. QED
    BY <1>3, <2>11
<1>6. QED
    BY <1>4, <1>5

\* What a subsequence holds: the items kept, in their order.
LEMMA SubsequenceFacts ==
    ASSUME NEW S, NEW s \in Seq(S), NEW keep \in SUBSET DOMAIN s
    PROVE  /\ Subsequence(s, keep) \in Seq(S)
           /\ Ids(Subsequence(s, keep)) = {s[i] : i \in keep}
           /\ \E at \in [DOMAIN Subsequence(s, keep) -> keep] :
                /\ \A i, j \in DOMAIN Subsequence(s, keep) : i < j => at[i] < at[j]
                /\ \A i \in DOMAIN Subsequence(s, keep) : Subsequence(s, keep)[i] = s[at[i]]
<1> DEFINE n == Cardinality(keep)
           at == CHOOSE f \in [1..n -> keep] : \A i, j \in 1..n : i < j => f[i] < f[j]
           sub == [i \in 1..n |-> s[at[i]]]
<1>0. Len(s) \in Nat /\ DOMAIN s = 1..Len(s)
    OBVIOUS
<1>1. at \in [1..n -> keep] /\ \A i, j \in 1..n : i < j => at[i] < at[j]
    BY <1>0, EnumerationExists
<1>2. Subsequence(s, keep) = sub
    BY DEF Subsequence
<1> HIDE DEF at
<1>3. IsFiniteSet(keep) /\ n \in Nat
  <2>1. IsFiniteSet(1..Len(s))
    BY <1>0, FS_Interval
  <2>2. IsFiniteSet(keep)
    BY <1>0, <2>1, FS_Subset
  <2>3. QED
    BY <2>2, FS_CardinalityType
<1>4. IsFiniteSet(1..n) /\ Cardinality(1..n) = n
    BY <1>3, FS_Interval
<1>5. at \in Injection(1..n, keep)
  <2>1. \A i, j \in 1..n : at[i] = at[j] => i = j
    <3> SUFFICES ASSUME NEW i \in 1..n, NEW j \in 1..n, at[i] = at[j], i # j PROVE FALSE
      OBVIOUS
    <3>1. at[i] \in Nat
      BY <1>0, <1>1
    <3>2. (i < j => at[i] < at[j]) /\ (j < i => at[j] < at[i])
      BY <1>1
    <3>3. QED
      BY <1>3, <3>1, <3>2
  <2>2. QED
    BY <1>1, <2>1 DEF Injection, IsInjective
<1>6. at \in Surjection(1..n, keep)
    BY <1>3, <1>4, <1>5, FS_Injection
<1>7. \A k \in keep : \E i \in 1..n : at[i] = k
    BY <1>6 DEF Surjection
<1>8. sub \in Seq(S) /\ DOMAIN sub = 1..n
    BY <1>0, <1>1, <1>3
<1>9. Ids(sub) = {s[i] : i \in keep}
    BY <1>1, <1>7, <1>8 DEF Ids
<1>10. QED
    BY <1>1, <1>2, <1>8, <1>9

\* The longest prefix of w whose items are in here.
LEMMA PrefixExists ==
    ASSUME NEW S, NEW w \in Seq(S), NEW here
    PROVE  \E n \in 0..Len(w) :
             /\ \A i \in 1..n : w[i] \in here
             /\ n = Len(w) \/ w[n + 1] \notin here
<1> DEFINE stops == {n \in 0..Len(w) : n = Len(w) \/ w[n + 1] \notin here}
<1>1. Len(w) \in stops /\ stops \in SUBSET Nat
    OBVIOUS
<1>2. PICK n \in stops : \A k \in stops : n <= k
    BY <1>1, LeastExists
<1>3. \A i \in 1..n : w[i] \in here
  <2> SUFFICES ASSUME NEW i \in 1..n, w[i] \notin here PROVE FALSE
    OBVIOUS
  <2>1. i - 1 \in stops /\ n \in Nat
    OBVIOUS
  <2> HIDE DEF stops
  <2>2. n <= i - 1
    BY <1>2, <2>1
  <2>3. QED
    BY <2>1, <2>2
<1>4. QED
    BY <1>2, <1>3

LEMMA ReadyFacts ==
    ASSUME NEW w \in Seq(Requests), NEW here
    PROVE  Ready(w, here) \in 0..Len(w) /\ \A i \in 1..Ready(w, here) : w[i] \in here
<1>1. \E n \in 0..Len(w) : /\ \A i \in 1..n : w[i] \in here
                           /\ n = Len(w) \/ w[n + 1] \notin here
    BY PrefixExists
<1>2. QED
    BY <1>1 DEF Ready

LEMMA AnsweredFacts ==
    ASSUME NEW durable, worker.group \in Seq(Requests)
    PROVE  \E n \in 0..Len(worker.group) :
             /\ Answered(durable) = SubSeq(worker.group, 1, n)
             /\ \A i \in 1..n : worker.group[i] \in durable
<1> DEFINE g == worker.group
           n == CHOOSE n \in 0..Len(g) : /\ \A i \in 1..n : g[i] \in durable
                                         /\ n = Len(g) \/ g[n + 1] \notin durable
<1>1. \E m \in 0..Len(g) : /\ \A i \in 1..m : g[i] \in durable
                           /\ m = Len(g) \/ g[m + 1] \notin durable
    BY PrefixExists
<1>2. n \in 0..Len(g) /\ \A i \in 1..n : g[i] \in durable
    BY <1>1
<1>3. Answered(durable) = SubSeq(g, 1, n)
    BY DEF Answered
<1> HIDE DEF n
<1>4. QED
    BY <1>2, <1>3

LEMMA GroupSizesFacts ==
    ASSUME NEW items \in Seq(Requests), items # <<>>, NEW n \in GroupSizes(items)
    PROVE  n \in 1..Len(items) /\ \A i \in 1..n : SameCohort(items[1], items[i])
<1> DEFINE Stop(k) == k = Len(items) \/ ~SameCohort(items[1], items[k + 1])
           stops == {k \in 1..Len(items) : Stop(k)}
           P(k) == (\A i \in 1..k : SameCohort(items[1], items[i])) /\ Stop(k)
           full == CHOOSE k \in 1..Len(items) : P(k)
<1>1. Len(items) \in stops /\ stops \in SUBSET Nat
    OBVIOUS
<1>2. PICK k \in stops : \A j \in stops : k <= j
    BY <1>1, LeastExists
<1>3. \A i \in 1..k : SameCohort(items[1], items[i])
  <2> SUFFICES ASSUME NEW i \in 1..k, ~SameCohort(items[1], items[i]) PROVE FALSE
    OBVIOUS
  <2>1. i # 1
    BY DEF SameCohort
  <2>2. i - 1 \in stops /\ k \in Nat
    BY <2>1
  <2> HIDE DEF stops
  <2>3. k <= i - 1
    BY <1>2, <2>2
  <2>4. QED
    BY <2>2, <2>3
<1>4. \E j \in 1..Len(items) : P(j)
    BY <1>2, <1>3
<1>5. full \in 1..Len(items) /\ P(full)
  <2> HIDE DEF P
  <2>1. QED
    BY <1>4
<1>6. GroupSizes(items) = IF pending[items[1]].plan.made THEN {full}
                          ELSE {m \in 1..full : m <= FlushMaxRequests}
    BY DEF GroupSizes
<1> HIDE DEF full
<1>7. n \in 1..full
    BY <1>5, <1>6
<1>8. QED
    BY <1>5, <1>7

\* A log without some requests is a subsequence of it.
LEMMA WithoutFacts ==
    ASSUME NEW l \in Seq(EntryType), NEW ids
    PROVE  /\ Without(l, ids) \in Seq(EntryType)
           /\ \A i \in DOMAIN l : l[i].id \notin ids => \E k \in DOMAIN Without(l, ids) : Without(l, ids)[k] = l[i]
           /\ \E at \in [DOMAIN Without(l, ids) -> DOMAIN l] :
                /\ \A i, j \in DOMAIN Without(l, ids) : i < j => at[i] < at[j]
                /\ \A i \in DOMAIN Without(l, ids) :
                     Without(l, ids)[i] = l[at[i]] /\ l[at[i]].id \notin ids
<1> DEFINE keep == {i \in DOMAIN l : l[i].id \notin ids}
           w == Subsequence(l, keep)
<1>1. Without(l, ids) = w
    BY DEF Without
<1>0. keep \in SUBSET DOMAIN l
    OBVIOUS
<1> HIDE DEF keep
<1>2. /\ w \in Seq(EntryType) /\ Ids(w) = {l[i] : i \in keep}
      /\ \E at \in [DOMAIN w -> keep] :
           /\ \A i, j \in DOMAIN w : i < j => at[i] < at[j]
           /\ \A i \in DOMAIN w : w[i] = l[at[i]]
    BY <1>0, SubsequenceFacts
<1> HIDE DEF w
<1>3. \A i \in DOMAIN l : l[i].id \notin ids => \E k \in DOMAIN w : w[k] = l[i]
  <2> SUFFICES ASSUME NEW i \in DOMAIN l, l[i].id \notin ids PROVE \E k \in DOMAIN w : w[k] = l[i]
    OBVIOUS
  <2>1. i \in keep
    BY DEF keep
  <2>2. l[i] \in Ids(w)
    BY <1>2, <2>1
  <2>3. QED
    BY <2>2 DEF Ids
<1>4. PICK at \in [DOMAIN w -> keep] :
           /\ \A i, j \in DOMAIN w : i < j => at[i] < at[j]
           /\ \A i \in DOMAIN w : w[i] = l[at[i]]
    BY <1>2
<1>5. at \in [DOMAIN w -> DOMAIN l] /\ \A i \in DOMAIN w : l[at[i]].id \notin ids
    BY <1>4 DEF keep
<1>6. QED
    BY <1>1, <1>2, <1>3, <1>4, <1>5

\* The requests of the group that are evaluated, and the ones that commit.
LEMMA CandidatesFacts ==
    ASSUME worker.group \in Seq(Requests)
    PROVE  /\ Candidates \in Seq(Requests)
           /\ Ids(Candidates) = {r \in Ids(worker.group) : store.records[r] = "none"}
           /\ FreshCommits \in Seq(Requests)
           /\ Ids(FreshCommits) = {r \in Ids(Candidates) : Admits(r)}
<1> DEFINE g == worker.group
           all == {i \in DOMAIN g : store.records[g[i]] = "none"}
           fresh == {i \in DOMAIN g : store.records[g[i]] = "none" /\ Admits(g[i])}
<1>1. Candidates = Subsequence(g, all) /\ FreshCommits = Subsequence(g, fresh)
    BY DEF Candidates, FreshCommits
<1>2. Subsequence(g, all) \in Seq(Requests) /\ Ids(Subsequence(g, all)) = {g[i] : i \in all}
    BY SubsequenceFacts
<1>3. Subsequence(g, fresh) \in Seq(Requests) /\ Ids(Subsequence(g, fresh)) = {g[i] : i \in fresh}
    BY SubsequenceFacts
<1> HIDE DEF Admits
<1>4. {g[i] : i \in all} = {r \in Ids(g) : store.records[r] = "none"}
    BY DEF Ids
<1>5. {g[i] : i \in fresh} = {r \in {g[i] : i \in all} : Admits(r)}
    OBVIOUS
<1>6. QED
    BY <1>1, <1>2, <1>3, <1>4, <1>5

-----------------------------------------------------------------------------
(* Types, one variable at a time.                                          *)

LEMMA FaultType ==
    ASSUME left \in LeftType, Fault
    PROVE  left' \in LeftType
BY DEF Fault, LeftType

LEMMA SpentTypes ==
    ASSUME left \in LeftType
    PROVE  /\ left.accepts > 0 => [left EXCEPT !.accepts = @ - 1] \in LeftType
           /\ \A c \in Callers : left.calls[c] > 0 => [left EXCEPT !.calls[c] = @ - 1] \in LeftType
BY DEF LeftType

LEMMA GateTypes ==
    ASSUME gate \in GateType
    PROVE  /\ OpenGate \in GateType
           /\ \A r \in Requests :
                /\ Leave(gate, r) \in GateType
                /\ gate.writer = Nobody => [gate EXCEPT !.readers = @ \union {r}] \in GateType
           /\ \A c \in Callers :
                /\ [gate EXCEPT !.waiting = @ \union {c}] \in GateType
                /\ gate.readers = {} => [gate EXCEPT !.waiting = @ \ {c}, !.writer = c] \in GateType
                /\ [gate EXCEPT !.waiting = @ \ {c}, !.writer = IF @ = c THEN Nobody ELSE @] \in GateType
           /\ [gate EXCEPT !.writer = Nobody] \in GateType
BY DEF GateType, Leave, OpenGate

LEMMA AcceptTypes ==
    ASSUME accept \in [Requests -> AcceptType]
    PROVE  \A r \in Requests :
             /\ accept[r].generation \in Nat
             /\ \A a \in {"idle", "admitted", "logged", "active"} :
                  /\ [accept EXCEPT ![r].at = a] \in [Requests -> AcceptType]
                  /\ \A g \in Nat : [accept EXCEPT ![r] = [at |-> a, generation |-> g]] \in [Requests -> AcceptType]
BY DEF AcceptType

LEMMA NoPlanType == NoPlan \in PlanType /\ Inactive \in PendingType
<1>1. <<>> \in Seq(Requests)
    OBVIOUS
<1>2. QED
    BY <1>1 DEF NoPlan, PlanType, Inactive, PendingType

LEMMA PendingTypes ==
    ASSUME pending \in [Requests -> PendingType]
    PROVE  /\ \A r \in Requests, g \in Nat, plan \in PlanType :
                /\ [active |-> TRUE, generation |-> g, plan |-> plan] \in PendingType
                /\ [pending[r] EXCEPT !.plan = plan] \in PendingType
           /\ \A ids : Completed(ids) \in [Requests -> PendingType]
<1>1. \A r \in Requests, g \in Nat, plan \in PlanType :
        /\ [active |-> TRUE, generation |-> g, plan |-> plan] \in PendingType
        /\ [pending[r] EXCEPT !.plan = plan] \in PendingType
    BY DEF PendingType
<1>2. \A ids : Completed(ids) \in [Requests -> PendingType]
    BY NoPlanType DEF Completed
<1>3. QED
    BY <1>1, <1>2

LEMMA CallerTypes ==
    ASSUME caller \in [Callers -> CallerType]
    PROVE  /\ NotCalled \in CallerType
           /\ \A c \in Callers :
             /\ \A a \in {"idle", "waiting", "gated", "flushing", "drained", "locked", "purging"} :
                  /\ [caller EXCEPT ![c].at = a] \in [Callers -> CallerType]
                  /\ \A w \in SUBSET Requests :
                       [caller EXCEPT ![c] = [at |-> a, awaiting |-> w]] \in [Callers -> CallerType]
             /\ [caller EXCEPT ![c] = NotCalled] \in [Callers -> CallerType]
BY DEF CallerType, NotCalled

LEMMA ReturnTypes ==
    ASSUME gate \in GateType, caller \in [Callers -> CallerType], NEW c \in Callers, Return(c)
    PROVE  gate' \in GateType /\ caller' \in [Callers -> CallerType]
BY GateTypes, CallerTypes DEF Return

LEMMA StoreTypes ==
    ASSUME store \in StoreType
    PROVE  /\ store.history \in Seq(Requests \union Callers) /\ store.records \in [Requests -> Outcomes]
           /\ store.generation \in Nat
           /\ \A s \in Seq(Requests \union Callers) : [store EXCEPT !.history = s] \in StoreType
           /\ \A f \in [Requests -> Outcomes] : [store EXCEPT !.records = f] \in StoreType
           /\ [store EXCEPT !.phase = "running", !.generation = @ + 1] \in StoreType
           /\ [store EXCEPT !.history = <<>>, !.phase = "complete",
                            !.records = [r \in Requests |-> "none"]] \in StoreType
           /\ [store EXCEPT !.phase = "cleared"] \in StoreType
<1>1. <<>> \in Seq(Requests \union Callers) /\ [r \in Requests |-> "none"] \in [Requests -> Outcomes]
    BY DEF Outcomes
<1>2. /\ store.history \in Seq(Requests \union Callers) /\ store.records \in [Requests -> Outcomes]
      /\ store.generation \in Nat
      /\ \A s \in Seq(Requests \union Callers) : [store EXCEPT !.history = s] \in StoreType
      /\ \A f \in [Requests -> Outcomes] : [store EXCEPT !.records = f] \in StoreType
    BY DEF StoreType
<1>3. [store EXCEPT !.phase = "running", !.generation = @ + 1] \in StoreType
  <2>1. store.generation + 1 \in Nat
    BY <1>2
  <2>2. QED
    BY <2>1 DEF StoreType
<1>4. [store EXCEPT !.phase = "cleared"] \in StoreType
    BY DEF StoreType
<1>5. [store EXCEPT !.history = <<>>, !.phase = "complete",
                    !.records = [r \in Requests |-> "none"]] \in StoreType
    BY <1>1 DEF StoreType
<1>6. QED
    BY <1>2, <1>3, <1>4, <1>5

LEMMA RecordTypes ==
    ASSUME store.records \in [Requests -> Outcomes]
    PROVE  \A ids : /\ Recorded(ids) \in [Requests -> Outcomes]
                    /\ Resolved(ids) \in [Requests -> Outcomes]
<1> TAKE ids
<1>1. \A r \in Requests : OutcomeOf(r) \in {"applied", "failed"}
    BY DEF OutcomeOf
<1>2. QED
    BY <1>1 DEF Recorded, Resolved, Outcomes

\* The states of a worker that goes on, and of one that stops.
LEMMA WorkerTypes ==
    ASSUME worker \in WorkerType
    PROVE  /\ worker.rest \in Seq(Requests) /\ worker.group \in Seq(Requests)
           /\ worker.todo \in Seq(Requests) /\ worker.commits \in Seq(Requests)
           /\ IdleWorker \in WorkerType
           /\ \A s \in Seq(Requests) : [IdleWorker EXCEPT !.at = "group", !.rest = s] \in WorkerType
           /\ \A g, s \in Seq(Requests), a \in {"entering", "failing"} :
                [worker EXCEPT !.at = a, !.fenced = FALSE, !.group = g, !.rest = s] \in WorkerType
           /\ \A b \in BOOLEAN : [worker EXCEPT !.at = "failing", !.fenced = b] \in WorkerType
           /\ \A s, d \in Seq(Requests), a \in {"planning", "planned"} :
                [worker EXCEPT !.at = a, !.todo = s, !.commits = d] \in WorkerType
           /\ \A a \in {"planned", "published", "recorded"} : [worker EXCEPT !.at = a] \in WorkerType
           /\ [worker EXCEPT !.at = "group", !.group = <<>>, !.todo = <<>>, !.commits = <<>>] \in WorkerType
<1>1. <<>> \in Seq(Requests)
    OBVIOUS
<1>2. QED
    BY <1>1 DEF WorkerType, IdleWorker

LEMMA FreshPlanType ==
    ASSUME store \in StoreType, worker \in WorkerType
    PROVE  FreshPlan \in PlanType
<1>1. FreshCommits \in Seq(Requests)
    BY CandidatesFacts, WorkerTypes
<1>2. store.history \in Seq(Requests \union Callers)
    BY StoreTypes
<1>3. Len(store.history) \in Nat /\ HeadCommit(store.history) \in Requests \union Callers \union {Nobody}
    BY <1>2 DEF HeadCommit
<1>4. QED
    BY <1>1, <1>3 DEF FreshPlan, PlanType

LEMMA EntryFields ==
    ASSUME log \in Seq(EntryType)
    PROVE  \A i \in DOMAIN log : log[i].id \in Requests /\ log[i].generation \in Nat /\ log[i].plan \in PlanType
<1>1. \A e \in EntryType : e.id \in Requests /\ e.generation \in Nat /\ e.plan \in PlanType
    BY DEF EntryType
<1>2. \A i \in DOMAIN log : log[i] \in EntryType
    OBVIOUS
<1>3. QED
    BY <1>1, <1>2

LEMMA EntryTypes ==
    ASSUME log \in Seq(EntryType), NEW plan \in PlanType
    PROVE  /\ \A ids : WithPlan(log, ids, plan) \in Seq(EntryType)
           /\ \A r \in Requests, g \in Nat :
                Append(log, [id |-> r, generation |-> g, plan |-> plan]) \in Seq(EntryType)
<1>1. \A e \in EntryType : [e EXCEPT !.plan = plan] \in EntryType
    BY DEF EntryType
<1>2. \A r \in Requests, g \in Nat : [id |-> r, generation |-> g, plan |-> plan] \in EntryType
    BY DEF EntryType
<1>3. \A ids : WithPlan(log, ids, plan) \in Seq(EntryType)
  <2> TAKE ids
  <2>1. DOMAIN log = 1..Len(log) /\ Len(log) \in Nat /\ \A i \in DOMAIN log : log[i] \in EntryType
    OBVIOUS
  <2>2. WithPlan(log, ids, plan) \in [1..Len(log) -> EntryType]
    BY <1>1, <2>1 DEF WithPlan
  <2>3. QED
    BY <2>1, <2>2
<1>4. QED
    BY <1>2, <1>3

\* A failing log leaves one of the outcomes, or what it had.
LEMMA LogFailsTypes ==
    ASSUME TypeOK, NEW outcomes \in SUBSET Seq(EntryType), LogFails(outcomes)
    PROVE  log' \in Seq(EntryType) /\ left' \in LeftType /\ wal' \in {"open", "failed"}
BY FaultType DEF LogFails, NoFault, TypeOK

LEMMA RetriedType ==
    ASSUME worker \in WorkerType, queue \in Seq(Requests), NEW items \in Seq(Requests)
    PROVE  /\ Retried(items) \in Seq(Requests)
           /\ Ids(Retried(items)) = Ids(items) \union Ids(worker.rest) \union Ids(queue)
           /\ Retried(items) = items \o (worker.rest \o queue)
<1>1. worker.rest \in Seq(Requests)
    BY WorkerTypes
<1>0. \A a, b, c \in Seq(Requests) : (a \o b) \o c = a \o (b \o c)
    OBVIOUS
<1>00. \A a, b \in Seq(Requests) : a \o b \in Seq(Requests) /\ Ids(a \o b) = Ids(a) \union Ids(b)
    BY IdsOfConcat
<1>2. Retried(items) = items \o (worker.rest \o queue)
    BY <1>0, <1>1, Zenon DEF Retried
<1>3. worker.rest \o queue \in Seq(Requests) /\ Ids(worker.rest \o queue) = Ids(worker.rest) \union Ids(queue)
    BY <1>1, IdsOfConcat
<1>4. /\ items \o (worker.rest \o queue) \in Seq(Requests)
      /\ Ids(items \o (worker.rest \o queue)) = Ids(items) \union Ids(worker.rest \o queue)
    BY <1>00, <1>3, Zenon
<1>5. QED
    BY <1>2, <1>3, <1>4

LEMMA ForgetTypes ==
    ASSUME TypeOK, Forget
    PROVE  /\ gate' \in GateType /\ worker' \in WorkerType /\ caller' \in [Callers -> CallerType]
           /\ accept' \in [Requests -> AcceptType] /\ pending' \in [Requests -> PendingType]
           /\ order' \in Seq(Requests) /\ queue' \in Seq(Requests)
<1>1. [at |-> "idle", generation |-> 0] \in AcceptType
    BY DEF AcceptType
<1>2. <<>> \in Seq(Requests)
    OBVIOUS
<1>3. QED
    BY <1>1, <1>2, GateTypes, WorkerTypes, CallerTypes, NoPlanType DEF Forget, TypeOK

LEMMA TypeStep ==
    ASSUME TypeOK, Next
    PROVE  TypeOK'
<1> USE DEF TypeOK
<1>1. ASSUME NEW r \in Requests, AcceptBegin(r) PROVE TypeOK'
    BY <1>1, SpentTypes, GateTypes, AcceptTypes, StoreTypes DEF AcceptBegin
<1>2. ASSUME NEW r \in Requests, AcceptRefused(r) PROVE TypeOK'
    BY <1>2, FaultType, GateTypes, AcceptTypes DEF AcceptRefused, NoFault
<1>3. ASSUME NEW r \in Requests, AppendAccepted(r) PROVE TypeOK'
  <2>1. log' \in Seq(EntryType)
    BY <1>3, AcceptTypes, EntryTypes, NoPlanType DEF AppendAccepted
  <2>2. order' \in Seq(Requests)
    BY <1>3 DEF AppendAccepted
  <2>3. QED
    BY <1>3, <2>1, <2>2, AcceptTypes DEF AppendAccepted
<1>4. ASSUME NEW r \in Requests, AppendAcceptedFails(r) PROVE TypeOK'
  <2>0. Append(log, [id |-> r, generation |-> accept[r].generation, plan |-> NoPlan]) \in Seq(EntryType)
    BY AcceptTypes, EntryTypes, NoPlanType
  <2>1. log' \in Seq(EntryType) /\ left' \in LeftType /\ wal' \in {"open", "failed"}
    BY <1>4, <2>0, LogFailsTypes DEF AppendAcceptedFails
  <2>2. QED
    BY <1>4, <2>1, AcceptTypes, GateTypes DEF AppendAcceptedFails
<1>5. ASSUME NEW r \in Requests, Activate(r) PROVE TypeOK'
    BY <1>5, AcceptTypes, PendingTypes, NoPlanType DEF Activate
<1>6. ASSUME NEW r \in Requests, Enqueue(r) PROVE TypeOK'
  <2> DEFINE here == arrived \union {r}
             n == Ready(order, here)
  <2>1. n \in 0..Len(order)
    BY ReadyFacts
  <2> HIDE DEF n
  <2>2. SubSeq(order, 1, n) \in Seq(Requests) /\ SubSeq(order, n + 1, Len(order)) \in Seq(Requests)
    BY <2>1, IdsOfParts
  <2>3. queue \o SubSeq(order, 1, n) \in Seq(Requests)
    BY <2>2, IdsOfConcat
  <2>4. order' \in Seq(Requests) /\ queue' \in Seq(Requests) /\ arrived' \subseteq Requests
    BY <1>6, <2>2, <2>3 DEF Enqueue, n
  <2>5. QED
    BY <1>6, <2>4, AcceptTypes, GateTypes DEF Enqueue
<1>7. CASE Dispatch
    BY <1>7, WorkerTypes, ConcatEmpty DEF Dispatch
<1>8. CASE NextGroup
  <2>0. worker.rest \in Seq(Requests)
    BY WorkerTypes
  <2>1. PICK n \in GroupSizes(worker.rest) :
          worker' = [worker EXCEPT !.at = IF Writable THEN "entering" ELSE "failing",
                                   !.fenced = FALSE,
                                   !.group = SubSeq(worker.rest, 1, n),
                                   !.rest = SubSeq(worker.rest, n + 1, Len(worker.rest))]
    BY <1>8 DEF NextGroup
  <2>2. n \in 0..Len(worker.rest)
    BY <1>8, <2>0, GroupSizesFacts DEF NextGroup
  <2>3. SubSeq(worker.rest, 1, n) \in Seq(Requests) /\ SubSeq(worker.rest, n + 1, Len(worker.rest)) \in Seq(Requests)
    BY <2>0, <2>2, IdsOfParts
  <2>4. worker' \in WorkerType
    BY <2>1, <2>3, WorkerTypes
  <2>5. QED
    BY <1>8, <2>4 DEF NextGroup
<1>9. CASE FlushDone
    BY <1>9, WorkerTypes DEF FlushDone
<1>10. CASE EnterTenant
  <2>1. Candidates \in Seq(Requests) /\ FreshCommits \in Seq(Requests) /\ CommitsOfCohort \in Seq(Requests)
    BY CandidatesFacts, WorkerTypes, ConcatEmpty DEF CommitsOfCohort
  <2>2. worker' \in WorkerType
    <3>1. Fenced(worker.group[1]) \in BOOLEAN
      BY DEF Fenced
    <3> HIDE DEF TypeOK
    <3>2. \/ worker' = [worker EXCEPT !.at = "failing", !.fenced = Fenced(worker.group[1])]
          \/ worker' = IdleWorker
          \/ worker' = [worker EXCEPT !.at = "planned", !.todo = Candidates, !.commits = CommitsOfCohort]
          \/ worker' = [worker EXCEPT !.at = "planning", !.todo = Candidates, !.commits = FreshCommits]
      BY <1>10, Zenon DEF EnterTenant
    <3> USE DEF TypeOK
    <3>3. [worker EXCEPT !.at = "failing", !.fenced = Fenced(worker.group[1])] \in WorkerType
      BY <3>1, WorkerTypes
    <3>4. [worker EXCEPT !.at = "planned", !.todo = Candidates, !.commits = CommitsOfCohort] \in WorkerType
      BY <2>1, WorkerTypes
    <3>5. [worker EXCEPT !.at = "planning", !.todo = Candidates, !.commits = FreshCommits] \in WorkerType
      BY <2>1, WorkerTypes
    <3>6. IdleWorker \in WorkerType
      BY WorkerTypes
    <3> HIDE DEF TypeOK
    <3>7. QED
      BY <3>2, <3>3, <3>4, <3>5, <3>6, Zenon
  <2>3. QED
    BY <1>10, <2>2 DEF EnterTenant
<1>11. CASE AppendPrepared
    BY <1>11, WorkerTypes, FreshPlanType, EntryTypes, PendingTypes DEF AppendPrepared
<1>12. CASE AppendPreparedFails
  <2>0. WithPlan(log, Ids(worker.todo), FreshPlan) \in Seq(EntryType)
    BY FreshPlanType, EntryTypes
  <2>1. log' \in Seq(EntryType) /\ left' \in LeftType /\ wal' \in {"open", "failed"}
    BY <1>12, <2>0, LogFailsTypes DEF AppendPreparedFails
  <2>2. QED
    BY <1>12, <2>1, WorkerTypes, RetriedType DEF AppendPreparedFails, WorkerUnlocks
<1>13. CASE FlushRetries
    BY <1>13, WorkerTypes, RetriedType, FaultType DEF FlushRetries, WorkerUnlocks
<1>14. CASE Publish
  <2>1. worker.commits \in Seq(Requests \union Callers)
    <3>1. worker.commits \in Seq(Requests)
      BY WorkerTypes
    <3>2. QED
      BY <3>1
  <2>2. store.history \o worker.commits \in Seq(Requests \union Callers)
    BY <2>1, StoreTypes, IdsOfConcat
  <2>3. store' \in StoreType /\ worker' \in WorkerType
    BY <1>14, <2>2, StoreTypes, WorkerTypes DEF Publish
  <2>4. QED
    BY <1>14, <2>3 DEF Publish
<1>15. CASE PublishUnanswered
  <2>1. worker.commits \in Seq(Requests \union Callers)
    <3>1. worker.commits \in Seq(Requests)
      BY WorkerTypes
    <3>2. QED
      BY <3>1
  <2>2. store.history \o worker.commits \in Seq(Requests \union Callers)
    BY <2>1, StoreTypes, IdsOfConcat
  <2>3. store' \in StoreType /\ worker' \in WorkerType
    BY <1>15, <2>2, StoreTypes, WorkerTypes DEF PublishUnanswered
  <2>4. QED
    BY <1>15, <2>3, WorkerTypes, RetriedType, FaultType DEF PublishUnanswered
<1>16. CASE SaveMetadata
    BY <1>16, WorkerTypes, StoreTypes, RecordTypes DEF SaveMetadata
<1>17. CASE SaveMetadataFails
  <2>1. store' \in StoreType
    BY <1>17, StoreTypes, RecordTypes DEF SaveMetadataFails
  <2>2. queue' \in Seq(Requests)
    BY <1>17, WorkerTypes, RetriedType DEF SaveMetadataFails
  <2>3. worker' \in WorkerType /\ left' \in LeftType
    BY <1>17, WorkerTypes, FaultType DEF SaveMetadataFails
  <2>4. QED
    BY <1>17, <2>1, <2>2, <2>3 DEF SaveMetadataFails
<1>18. CASE FailGroup
    BY <1>18, WorkerTypes, StoreTypes, RecordTypes DEF FailGroup
<1>19. CASE FailGroupPartly
  <2>1. store' \in StoreType
    <3>1. PICK some : store' = [store EXCEPT !.records = Resolved(some)]
      BY <1>19 DEF FailGroupPartly
    <3>2. QED
      BY <3>1, StoreTypes, RecordTypes
  <2>2. queue' \in Seq(Requests)
    BY <1>19, WorkerTypes, RetriedType DEF FailGroupPartly
  <2>3. worker' \in WorkerType /\ left' \in LeftType
    BY <1>19, WorkerTypes, FaultType DEF FailGroupPartly
  <2>4. QED
    BY <1>19, <2>1, <2>2, <2>3 DEF FailGroupPartly
<1>20. CASE AppendTerminal
    BY <1>20, WorkerTypes, WithoutFacts, PendingTypes DEF AppendTerminal
<1>21. CASE AppendTerminalPartly
  <2>0. worker.group \in Seq(Requests)
    BY WorkerTypes
  <2>1. PICK durable \in SUBSET Ids(worker.group) :
          /\ log' = Without(log, durable)
          /\ pending' = Completed(Ids(Answered(durable)))
          /\ queue' = Retried(SubSeq(worker.group, Len(Answered(durable)) + 1, Len(worker.group)))
    BY <1>21 DEF AppendTerminalPartly
  <2>2. PICK n \in 0..Len(worker.group) : Answered(durable) = SubSeq(worker.group, 1, n)
    BY <2>0, AnsweredFacts
  <2>3. Len(Answered(durable)) = n /\ SubSeq(worker.group, n + 1, Len(worker.group)) \in Seq(Requests)
    BY <2>0, <2>2, IdsOfParts
  <2>4. log' \in Seq(EntryType) /\ pending' \in [Requests -> PendingType] /\ queue' \in Seq(Requests)
    BY <2>1, <2>3, WithoutFacts, PendingTypes, RetriedType
  <2>5. QED
    BY <1>21, <2>4, WorkerTypes, FaultType DEF AppendTerminalPartly
<1>22. CASE AppendTerminalFails
  <2>0. \A durable : Without(log, durable) \in Seq(EntryType)
    BY WithoutFacts
  <2>1. log' \in Seq(EntryType) /\ left' \in LeftType /\ wal' \in {"open", "failed"}
    BY <1>22, <2>0, LogFailsTypes DEF AppendTerminalFails
  <2>2. worker' \in WorkerType
    BY <1>22, WorkerTypes DEF AppendTerminalFails, Fatal
  <2>3. QED
    BY <1>22, <2>1, <2>2 DEF AppendTerminalFails, Fatal, WorkerUnlocks
<1>23. ASSUME NEW c \in Callers, Call(c) PROVE TypeOK'
  <2>1. left' \in LeftType
    BY <1>23, SpentTypes DEF Call
  <2>2. gate' \in GateType
    BY <1>23, GateTypes DEF Call
  <2>20. caller' \in [Callers -> CallerType]
    <3>1. [caller EXCEPT ![c].at = "gated"] \in [Callers -> CallerType]
      BY CallerTypes
    <3>2. [caller EXCEPT ![c].at = "waiting"] \in [Callers -> CallerType]
      BY CallerTypes
    <3>3. QED
      BY <1>23, <3>1, <3>2, Zenon DEF Call
  <2>3. QED
    BY <1>23, <2>1, <2>2, <2>20 DEF Call
<1>24. ASSUME NEW c \in Callers, EnterGate(c) PROVE TypeOK'
    BY <1>24, GateTypes, CallerTypes DEF EnterGate
<1>25. ASSUME NEW c \in Callers, Barrier(c) PROVE TypeOK'
  <2>1. {r \in Requests : pending[r].active} \in SUBSET Requests
    OBVIOUS
  <2>2. gate' \in GateType /\ caller' \in [Callers -> CallerType]
    <3>1. CASE Return(c)
      BY <3>1, ReturnTypes
    <3>2. CASE ~Return(c)
      <4> DEFINE active == {r \in Requests : pending[r].active}
                 next == [at |-> IF active = {} THEN "drained" ELSE "flushing", awaiting |-> active]
      <4>1. next \in CallerType
        BY <2>1 DEF CallerType
      <4>2. caller' = [caller EXCEPT ![c] = next] /\ gate' = gate
        BY <1>25, <3>2 DEF Barrier
      <4> HIDE DEF next
      <4>3. QED
        BY <4>1, <4>2
    <3>3. QED
      BY <3>1, <3>2
  <2>3. QED
    BY <1>25, <2>2 DEF Barrier
<1>26. ASSUME NEW c \in Callers, BarrierDone(c) PROVE TypeOK'
  <2>1. {} \in SUBSET Requests
    OBVIOUS
  <2>2. gate' \in GateType /\ caller' \in [Callers -> CallerType]
    <3>1. CASE Return(c)
      BY <3>1, ReturnTypes
    <3>2. CASE ~Return(c)
      <4>1. caller' = [caller EXCEPT ![c] = [at |-> "drained", awaiting |-> {}]] /\ gate' = gate
        BY <1>26, <3>2 DEF BarrierDone
      <4>2. QED
        BY <2>1, <4>1, CallerTypes
    <3>3. QED
      BY <3>1, <3>2
  <2>3. QED
    BY <1>26, <2>2 DEF BarrierDone
<1>27. ASSUME NEW c \in Callers, TakeLock(c) PROVE TypeOK'
    BY <1>27, GateTypes, CallerTypes DEF TakeLock
<1>28. ASSUME NEW c \in Callers, DirectCommit(c) PROVE TypeOK'
  <2>1. Append(store.history, c) \in Seq(Requests \union Callers)
    BY StoreTypes
  <2>2. store' \in StoreType
    BY <1>28, <2>1, StoreTypes DEF DirectCommit
  <2>3. QED
    BY <1>28, <2>2, GateTypes, CallerTypes DEF DirectCommit, Return
<1>29. ASSUME NEW c \in Callers, PurgeBegins(c) PROVE TypeOK'
  <2>1. store' \in StoreType
    BY <1>29, StoreTypes DEF PurgeBegins
  <2>2. gate' \in GateType /\ caller' \in [Callers -> CallerType]
    <3>1. CASE Return(c)
      BY <3>1, ReturnTypes
    <3>2. CASE ~Return(c)
      <4>1. caller' = [caller EXCEPT ![c].at = "purging"] /\ gate' = gate
        BY <1>29, <3>2 DEF PurgeBegins
      <4>2. QED
        BY <4>1, CallerTypes
    <3>3. QED
      BY <3>1, <3>2
  <2>3. QED
    BY <1>29, <2>1, <2>2 DEF PurgeBegins
<1>30. ASSUME NEW c \in Callers, PurgeDeletes(c) PROVE TypeOK'
    BY <1>30, GateTypes, CallerTypes, StoreTypes DEF PurgeDeletes, Return
<1>31. ASSUME NEW c \in Callers, CreateTenant(c) PROVE TypeOK'
    BY <1>31, GateTypes, CallerTypes, StoreTypes DEF CreateTenant, Return
<1>32. ASSUME NEW c \in Callers, GiveUp(c) PROVE TypeOK'
    BY <1>32, GateTypes, CallerTypes DEF GiveUp, Return
<1>33. CASE Crash
  <2>1. /\ gate' \in GateType /\ worker' \in WorkerType /\ caller' \in [Callers -> CallerType]
        /\ accept' \in [Requests -> AcceptType] /\ pending' \in [Requests -> PendingType]
        /\ order' \in Seq(Requests) /\ queue' \in Seq(Requests)
    BY <1>33, ForgetTypes DEF Crash
  <2>2. QED
    BY <1>33, <2>1, FaultType DEF Crash, Forget, NoFault
<1>34. CASE WorkerStops
    BY <1>34, WorkerTypes DEF WorkerStops, WorkerUnlocks
<1>35. CASE Close
    BY <1>35, FaultType DEF Close, volatile
<1>36. CASE Closed
  <2>1. /\ gate' \in GateType /\ worker' \in WorkerType /\ caller' \in [Callers -> CallerType]
        /\ accept' \in [Requests -> AcceptType] /\ pending' \in [Requests -> PendingType]
        /\ order' \in Seq(Requests) /\ queue' \in Seq(Requests)
    BY <1>36, ForgetTypes DEF Closed
  <2>2. QED
    BY <1>36, <2>1 DEF Closed, Forget
<1>37. CASE Restart
  <2>1. \A r \in LoggedIds : LET i == CHOOSE i \in DOMAIN log : log[i].id = r
                             IN log[i].generation \in Nat /\ log[i].plan \in PlanType
    BY EntryFields DEF LoggedIds
  <2>2. pending' \in [Requests -> PendingType]
    BY <1>37, <2>1, NoPlanType, PendingTypes DEF Restart
  <2>3. DOMAIN log = 1..Len(log) /\ Len(log) \in Nat /\ \A i \in DOMAIN log : log[i].id \in Requests
    BY EntryFields
  <2>4. queue' \in Seq(Requests)
    BY <1>37, <2>3 DEF Restart
  <2>5. QED
    BY <1>37, <2>2, <2>4 DEF Restart
<1> HIDE DEF TypeOK
<1>38. QED
    BY <1>1, <1>2, <1>3, <1>4, <1>5, <1>6, <1>7, <1>8, <1>9, <1>10, <1>11, <1>12, <1>13, <1>14, <1>15, <1>16, <1>17, <1>18, <1>19, <1>20, <1>21, <1>22, <1>23, <1>24, <1>25, <1>26, <1>27, <1>28, <1>29, <1>30, <1>31, <1>32, <1>33, <1>34, <1>35, <1>36, <1>37 DEF Next, AcceptStep, WorkerStep, CallerStep

-----------------------------------------------------------------------------
(* The gate, the tenant lock and the barrier.                              *)

\* How a step changes the records the invariants look at.
LEMMA AcceptUpdates ==
    ASSUME accept \in [Requests -> AcceptType], NEW r \in Requests
    PROVE  /\ \A a : /\ [accept EXCEPT ![r].at = a][r].at = a
                     /\ [accept EXCEPT ![r].at = a][r].generation = accept[r].generation
                     /\ \A s \in Requests \ {r} : [accept EXCEPT ![r].at = a][s] = accept[s]
           /\ \A e : /\ [accept EXCEPT ![r] = e][r] = e
                     /\ \A s \in Requests \ {r} : [accept EXCEPT ![r] = e][s] = accept[s]
BY DEF AcceptType

LEMMA CallerUpdates ==
    ASSUME caller \in [Callers -> CallerType], NEW c \in Callers
    PROVE  /\ \A a : /\ [caller EXCEPT ![c].at = a][c].at = a
                     /\ [caller EXCEPT ![c].at = a][c].awaiting = caller[c].awaiting
                     /\ \A d \in Callers \ {c} : [caller EXCEPT ![c].at = a][d] = caller[d]
           /\ \A e : /\ [caller EXCEPT ![c] = e][c] = e
                     /\ \A d \in Callers \ {c} : [caller EXCEPT ![c] = e][d] = caller[d]
BY DEF CallerType

LEMMA GateUpdates ==
    ASSUME gate \in GateType
    PROVE  /\ \A r : Leave(gate, r).readers = gate.readers \ {r} /\ Leave(gate, r).writer = gate.writer
           /\ \A r : /\ [gate EXCEPT !.readers = @ \union {r}].readers = gate.readers \union {r}
                     /\ [gate EXCEPT !.readers = @ \union {r}].writer = gate.writer
           /\ \A c : /\ [gate EXCEPT !.waiting = @ \union {c}].readers = gate.readers
                     /\ [gate EXCEPT !.waiting = @ \union {c}].writer = gate.writer
           /\ \A c : /\ [gate EXCEPT !.waiting = @ \ {c}, !.writer = c].readers = gate.readers
                     /\ [gate EXCEPT !.waiting = @ \ {c}, !.writer = c].writer = c
           /\ [gate EXCEPT !.writer = Nobody].readers = gate.readers
           /\ [gate EXCEPT !.writer = Nobody].writer = Nobody
BY DEF GateType, Leave

\* An operation returns: it has left the gate, and nobody else has.
LEMMA Returns ==
    ASSUME gate \in GateType, caller \in [Callers -> CallerType], NEW c \in Callers, Return(c)
    PROVE  /\ gate'.readers = gate.readers
           /\ gate.writer # c => gate'.writer = gate.writer
           /\ caller'[c] = NotCalled /\ caller'[c].at = "idle"
           /\ \A d \in Callers \ {c} : caller'[d] = caller[d]
<1>1. gate'.readers = gate.readers /\ (gate.writer # c => gate'.writer = gate.writer)
    BY DEF Return, GateType
<1>2. caller'[c] = NotCalled /\ \A d \in Callers \ {c} : caller'[d] = caller[d]
    BY CallerUpdates DEF Return
<1>3. QED
    BY <1>1, <1>2 DEF NotCalled

\* Only the caller that moves is concerned.
LEMMA GateOthers ==
    ASSUME GateInv, NEW c \in Callers, gate'.readers = gate.readers, accept' = accept,
           gate.writer # c => gate'.writer = gate.writer,
           \A d \in Callers \ {c} : caller'[d] = caller[d],
           Pausing(c)' \/ Replacing(c)' => gate'.writer = c
    PROVE  GateInv'
<1>1. \A r \in Requests : r \in gate'.readers <=> accept'[r].at # "idle"
    BY DEF GateInv
<1>2. ASSUME NEW d \in Callers, Pausing(d)' \/ Replacing(d)'
      PROVE  gate'.writer = d
  <2>1. CASE d = c
    BY <1>2, <2>1
  <2>2. CASE d # c
    <3>1. Pausing(d) \/ Replacing(d)
      BY <1>2, <2>2 DEF Pausing, Replacing
    <3>2. gate.writer = d
      BY <3>1 DEF GateInv
    <3>3. QED
      BY <2>2, <3>2
  <2>3. QED
    BY <2>1, <2>2
<1>3. QED
    BY <1>1, <1>2 DEF GateInv

LEMMA GateStep ==
    ASSUME TypeOK, GateInv, LockInv, Next
    PROVE  GateInv'
<1> USE DEF TypeOK
<1>1. CASE UNCHANGED <<gate, accept, caller>>
    BY <1>1 DEF GateInv, Pausing, Replacing
<1>2. ASSUME NEW r \in Requests, AcceptBegin(r) PROVE GateInv'
    BY <1>2, AcceptUpdates, GateUpdates DEF AcceptBegin, GateInv, Pausing, Replacing
<1>3. ASSUME NEW r \in Requests, AcceptRefused(r) \/ AppendAcceptedFails(r) \/ Enqueue(r) PROVE GateInv'
  <2>1. gate' = Leave(gate, r) /\ accept' = [accept EXCEPT ![r].at = "idle"] /\ caller' = caller
    BY <1>3 DEF AcceptRefused, AppendAcceptedFails, Enqueue
  <2>2. QED
    BY <2>1, AcceptUpdates, GateUpdates DEF GateInv, Pausing, Replacing
<1>4. ASSUME NEW r \in Requests, AppendAccepted(r) \/ Activate(r) PROVE GateInv'
  <2>1. PICK a \in {"logged", "active"} : accept' = [accept EXCEPT ![r].at = a]
    BY <1>4 DEF AppendAccepted, Activate
  <2>2. gate' = gate /\ caller' = caller /\ accept[r].at # "idle"
    BY <1>4 DEF AppendAccepted, Activate
  <2>3. \A s \in Requests : accept'[s].at # "idle" <=> accept[s].at # "idle"
    BY <2>1, <2>2, AcceptUpdates
  <2>4. QED
    BY <2>2, <2>3 DEF GateInv, Pausing, Replacing
<1>5. ASSUME NEW c \in Callers, Return(c), accept' = accept PROVE GateInv'
  <2>1. ~ (Pausing(c)' \/ Replacing(c)')
    BY <1>5, Returns DEF Pausing, Replacing
  <2>2. QED
    BY <1>5, <2>1, Returns, GateOthers
<1>6. ASSUME NEW c \in Callers, Call(c) PROVE GateInv'
  <2>1. CASE Operation[c] = "disable"
    <3>1. caller' = [caller EXCEPT ![c].at = "gated"] /\ gate' = gate /\ accept' = accept
      BY <1>6, <2>1 DEF Call
    <3>2. ~ (Pausing(c)' \/ Replacing(c)')
      BY <2>1 DEF Pausing, Replacing
    <3>3. QED
      BY <3>1, <3>2, CallerUpdates, GateOthers
  <2>2. CASE Operation[c] # "disable"
    <3>1. /\ caller' = [caller EXCEPT ![c].at = "waiting"] /\ accept' = accept
          /\ gate' = [gate EXCEPT !.waiting = @ \union {c}]
      BY <1>6, <2>2 DEF Call
    <3>2. ~ (Pausing(c)' \/ Replacing(c)')
      BY <3>1, CallerUpdates DEF Pausing, Replacing
    <3>3. QED
      BY <3>1, <3>2, CallerUpdates, GateUpdates, GateOthers
  <2>3. QED
    BY <2>1, <2>2
<1>7. ASSUME NEW c \in Callers, EnterGate(c) PROVE GateInv'
  <2>1. /\ caller' = [caller EXCEPT ![c].at = "gated"] /\ accept' = accept
        /\ gate' = [gate EXCEPT !.waiting = @ \ {c}, !.writer = c] /\ gate.writer = Nobody
    BY <1>7 DEF EnterGate
  <2>2. gate'.readers = gate.readers /\ gate'.writer = c
    BY <2>1, GateUpdates
  <2>3. ASSUME NEW d \in Callers, Pausing(d)' \/ Replacing(d)'
        PROVE  d = c
    <3> SUFFICES ASSUME d # c PROVE FALSE
      OBVIOUS
    <3>1. Pausing(d) \/ Replacing(d)
      BY <2>1, <2>3, CallerUpdates DEF Pausing, Replacing
    <3>2. QED
      BY <2>1, <3>1, NamesAssumption DEF GateInv
  <2>4. QED
    BY <2>1, <2>2, <2>3 DEF GateInv
<1>8. ASSUME NEW c \in Callers, Barrier(c) \/ BarrierDone(c), ~Return(c) PROVE GateInv'
  <2>1. /\ gate' = gate /\ accept' = accept /\ caller[c].at \in {"gated", "flushing"}
        /\ \E e : caller' = [caller EXCEPT ![c] = e] /\ e.at \in {"flushing", "drained"}
    BY <1>8 DEF Barrier, BarrierDone
  <2>2. \A d \in Callers \ {c} : caller'[d] = caller[d]
    BY <2>1, CallerUpdates
  <2>3. Pausing(c)' \/ Replacing(c)' => Pausing(c)
    BY <2>1, CallerUpdates DEF Pausing, Replacing
  <2>4. QED
    BY <2>1, <2>2, <2>3, GateOthers DEF GateInv
<1>9. ASSUME NEW c \in Callers, TakeLock(c) PROVE GateInv'
  <2>1. /\ caller[c].at = "drained" /\ caller' = [caller EXCEPT ![c].at = "locked"] /\ accept' = accept
        /\ gate' = IF Operation[c] = "commit" THEN [gate EXCEPT !.writer = Nobody] ELSE gate
    BY <1>9 DEF TakeLock
  <2>2. CASE Operation[c] = "commit"
    <3>1. gate'.readers = gate.readers /\ gate.writer = c /\ ~ (Pausing(c)' \/ Replacing(c)')
      BY <2>1, <2>2, GateUpdates, CallerUpdates DEF GateInv, Pausing, Replacing
    <3>2. QED
      BY <2>1, <3>1, CallerUpdates, GateOthers
  <2>3. CASE Operation[c] # "commit"
    <3>1. Pausing(c)' \/ Replacing(c)' => Pausing(c)
      BY <2>1, <2>3, CallerUpdates DEF Pausing, Replacing
    <3>2. QED
      BY <2>1, <2>3, <3>1, CallerUpdates, GateOthers DEF GateInv
  <2>4. QED
    BY <2>2, <2>3
<1>10. ASSUME NEW c \in Callers, PurgeBegins(c), ~Return(c) PROVE GateInv'
  <2>1. /\ caller[c].at = "locked" /\ Operation[c] = "purge" /\ gate' = gate /\ accept' = accept
        /\ caller' = [caller EXCEPT ![c].at = "purging"]
    BY <1>10 DEF PurgeBegins
  <2>2. gate.writer = c
    BY <2>1 DEF GateInv, Replacing
  <2>3. QED
    BY <2>1, <2>2, CallerUpdates, GateOthers
<1>11. CASE Forget
  <2>1. gate'.readers = {} /\ \A r \in Requests : accept'[r].at = "idle"
    BY <1>11 DEF Forget, OpenGate
  <2>2. \A c \in Callers : caller'[c].at = "idle"
    BY <1>11 DEF Forget, NotCalled
  <2>3. QED
    BY <2>1, <2>2 DEF GateInv, Pausing, Replacing
<1>12. QED
  <2> HIDE DEF TypeOK
  <2>1. ASSUME NEW c \in Callers, Call(c) \/ CallerStep(c) \/ GiveUp(c) PROVE GateInv'
    BY <2>1, <1>5, <1>6, <1>7, <1>8, <1>9, <1>10
    DEF CallerStep, GiveUp, Barrier, BarrierDone, DirectCommit, PurgeBegins, PurgeDeletes, CreateTenant
  <2>2. ASSUME NEW r \in Requests, AcceptBegin(r) \/ AcceptStep(r) PROVE GateInv'
    BY <2>2, <1>2, <1>3, <1>4 DEF AcceptStep
  <2>3. CASE WorkerStep
    BY <2>3, <1>1 DEF WorkerStep, Dispatch, NextGroup, FlushDone, EnterTenant, AppendPrepared,
       AppendPreparedFails, FlushRetries, Publish, PublishUnanswered, SaveMetadata, SaveMetadataFails,
       FailGroup, FailGroupPartly, AppendTerminal, AppendTerminalPartly, AppendTerminalFails
  <2>4. CASE Crash \/ WorkerStops \/ Close \/ Closed \/ Restart
    BY <2>4, <1>1, <1>11 DEF Crash, WorkerStops, Close, Closed, Restart, volatile
  <2>5. QED
    BY <2>1, <2>2, <2>3, <2>4 DEF Next

\* What each step makes of the worker.
LEMMA IdleFields ==
    /\ IdleWorker.at = "idle" /\ IdleWorker.group = <<>> /\ IdleWorker.rest = <<>>
    /\ IdleWorker.todo = <<>> /\ IdleWorker.commits = <<>> /\ IdleWorker.fenced = FALSE
BY DEF IdleWorker

LEMMA DispatchFields ==
    ASSUME Dispatch
    PROVE  /\ worker.at = "idle" /\ worker'.at = "group" /\ worker'.group = <<>> /\ worker'.rest = queue
           /\ worker' = [IdleWorker EXCEPT !.at = "group", !.rest = queue]
BY DEF Dispatch, IdleWorker

LEMMA NextGroupFields ==
    ASSUME worker \in WorkerType, NextGroup
    PROVE  \E n \in 1..Len(worker.rest) :
             /\ worker.at = "group" /\ worker'.at = IF Writable THEN "entering" ELSE "failing"
             /\ worker'.fenced = FALSE
             /\ worker'.group = SubSeq(worker.rest, 1, n)
             /\ worker'.rest = SubSeq(worker.rest, n + 1, Len(worker.rest))
             /\ \A i \in 1..n : SameCohort(worker.rest[1], worker.rest[i])
<1>1. worker.rest \in Seq(Requests) /\ worker.rest # <<>>
    BY WorkerTypes DEF NextGroup
<1>2. PICK n \in GroupSizes(worker.rest) :
        worker' = [worker EXCEPT !.at = IF Writable THEN "entering" ELSE "failing",
                                 !.fenced = FALSE,
                                 !.group = SubSeq(worker.rest, 1, n),
                                 !.rest = SubSeq(worker.rest, n + 1, Len(worker.rest))]
    BY DEF NextGroup
<1>3. n \in 1..Len(worker.rest) /\ \A i \in 1..n : SameCohort(worker.rest[1], worker.rest[i])
    BY <1>1, GroupSizesFacts
<1>4. QED
    BY <1>2, <1>3 DEF NextGroup, WorkerType

\* The four ways in which the worker enters the tenant.
LEMMA EnterFields ==
    ASSUME worker \in WorkerType, EnterTenant
    PROVE  /\ worker.at = "entering" /\ lock = Nobody
           /\ \/ /\ worker'.at = "failing" /\ worker'.fenced = Fenced(worker.group[1])
                 /\ worker'.group = worker.group /\ worker'.rest = worker.rest
                 /\ lock' = lock /\ run' = run /\ (Fenced(worker.group[1]) \/ ~Writable)
              \/ worker' = IdleWorker /\ lock' = lock /\ run' = "fatal"
              \/ /\ worker'.at = "planned" /\ worker'.group = worker.group /\ worker'.rest = worker.rest
                 /\ worker'.todo = Candidates /\ worker'.commits = CommitsOfCohort
                 /\ lock' = TheWorker /\ run' = run
                 /\ ~Fenced(worker.group[1]) /\ Writable /\ CohortPlan.made /\ PlanHolds
              \/ /\ worker'.at = "planning" /\ worker'.group = worker.group /\ worker'.rest = worker.rest
                 /\ worker'.todo = Candidates /\ worker'.commits = FreshCommits
                 /\ lock' = TheWorker /\ run' = run
                 /\ ~Fenced(worker.group[1]) /\ Writable /\ ~CohortPlan.made
<1>1. worker.at = "entering" /\ lock = Nobody
    BY DEF EnterTenant
<1>2. \/ /\ worker' = [worker EXCEPT !.at = "failing", !.fenced = Fenced(worker.group[1])]
         /\ lock' = lock /\ run' = run /\ (Fenced(worker.group[1]) \/ ~Writable)
      \/ worker' = IdleWorker /\ lock' = lock /\ run' = "fatal"
      \/ /\ worker' = [worker EXCEPT !.at = "planned", !.todo = Candidates, !.commits = CommitsOfCohort]
         /\ lock' = TheWorker /\ run' = run
         /\ ~Fenced(worker.group[1]) /\ Writable /\ CohortPlan.made /\ PlanHolds
      \/ /\ worker' = [worker EXCEPT !.at = "planning", !.todo = Candidates, !.commits = FreshCommits]
         /\ lock' = TheWorker /\ run' = run
         /\ ~Fenced(worker.group[1]) /\ Writable /\ ~CohortPlan.made
    BY Zenon DEF EnterTenant
<1>3. CASE worker' = [worker EXCEPT !.at = "failing", !.fenced = Fenced(worker.group[1])]
  <2>1. /\ worker'.at = "failing" /\ worker'.fenced = Fenced(worker.group[1])
        /\ worker'.group = worker.group /\ worker'.rest = worker.rest
    BY <1>3 DEF WorkerType
  <2>2. worker' # IdleWorker
    BY <2>1, IdleFields
  <2>3. worker' # [worker EXCEPT !.at = "planned", !.todo = Candidates, !.commits = CommitsOfCohort]
    BY <2>1 DEF WorkerType
  <2>4. worker' # [worker EXCEPT !.at = "planning", !.todo = Candidates, !.commits = FreshCommits]
    BY <2>1 DEF WorkerType
  <2>5. QED
    BY <1>1, <1>2, <2>1, <2>2, <2>3, <2>4
<1>4. CASE worker' = [worker EXCEPT !.at = "planned", !.todo = Candidates, !.commits = CommitsOfCohort]
  <2>1. /\ worker'.at = "planned" /\ worker'.group = worker.group /\ worker'.rest = worker.rest
        /\ worker'.todo = Candidates /\ worker'.commits = CommitsOfCohort
    BY <1>4 DEF WorkerType
  <2>2. worker' # IdleWorker
    BY <2>1, IdleFields
  <2>3. worker' # [worker EXCEPT !.at = "failing", !.fenced = Fenced(worker.group[1])]
    BY <2>1 DEF WorkerType
  <2>4. worker' # [worker EXCEPT !.at = "planning", !.todo = Candidates, !.commits = FreshCommits]
    BY <2>1 DEF WorkerType
  <2>5. QED
    BY <1>1, <1>2, <2>1, <2>2, <2>3, <2>4
<1>5. CASE worker' = [worker EXCEPT !.at = "planning", !.todo = Candidates, !.commits = FreshCommits]
  <2>1. /\ worker'.at = "planning" /\ worker'.group = worker.group /\ worker'.rest = worker.rest
        /\ worker'.todo = Candidates /\ worker'.commits = FreshCommits
    BY <1>5 DEF WorkerType
  <2>2. worker' # IdleWorker
    BY <2>1, IdleFields
  <2>3. worker' # [worker EXCEPT !.at = "failing", !.fenced = Fenced(worker.group[1])]
    BY <2>1 DEF WorkerType
  <2>4. worker' # [worker EXCEPT !.at = "planned", !.todo = Candidates, !.commits = CommitsOfCohort]
    BY <2>1 DEF WorkerType
  <2>5. QED
    BY <1>1, <1>2, <2>1, <2>2, <2>3, <2>4
<1>6. QED
    BY <1>1, <1>2, <1>3, <1>4, <1>5

\* The steps that move the worker on with the same group.
LEMMA OnwardFields ==
    ASSUME worker \in WorkerType, AppendPrepared \/ Publish \/ SaveMetadata \/ FailGroup
    PROVE  /\ worker'.group = worker.group /\ worker'.rest = worker.rest /\ worker'.todo = worker.todo
           /\ worker'.commits = worker.commits /\ worker'.fenced = worker.fenced
           /\ AppendPrepared => worker.at = "planning" /\ worker'.at = "planned"
           /\ Publish => worker.at = "planned" /\ worker'.at = "published"
           /\ SaveMetadata => worker.at = "published" /\ worker'.at = "recorded"
           /\ FailGroup => worker.at = "failing" /\ worker'.at = "recorded"
<1>1. PICK a : worker' = [worker EXCEPT !.at = a] /\ a \in {"planned", "published", "recorded"}
    BY Zenon DEF AppendPrepared, Publish, SaveMetadata, FailGroup
<1>2. /\ worker'.group = worker.group /\ worker'.rest = worker.rest /\ worker'.todo = worker.todo
      /\ worker'.commits = worker.commits /\ worker'.fenced = worker.fenced
    BY <1>1 DEF WorkerType
<1>3. AppendPrepared => worker.at = "planning" /\ worker'.at = "planned"
    BY DEF AppendPrepared, WorkerType
<1>4. Publish => worker.at = "planned" /\ worker'.at = "published"
    BY DEF Publish, WorkerType
<1>5. SaveMetadata => worker.at = "published" /\ worker'.at = "recorded"
    BY DEF SaveMetadata, WorkerType
<1>6. FailGroup => worker.at = "failing" /\ worker'.at = "recorded"
    BY DEF FailGroup, WorkerType
<1>7. QED
    BY <1>2, <1>3, <1>4, <1>5, <1>6

LEMMA TerminalFields ==
    ASSUME worker \in WorkerType, AppendTerminal
    PROVE  worker.at = "recorded" /\ worker'.at = "group" /\ worker'.group = <<>> /\ worker'.rest = worker.rest
BY DEF AppendTerminal, WorkerType

\* The steps that leave the worker idle.
LEMMA IdlingFields ==
    ASSUME FlushDone \/ AppendPreparedFails \/ FlushRetries \/ PublishUnanswered \/ SaveMetadataFails
             \/ FailGroupPartly \/ AppendTerminalPartly \/ AppendTerminalFails \/ WorkerStops
    PROVE  worker' = IdleWorker /\ worker'.at = "idle"
<1>1. worker' = IdleWorker
    BY DEF FlushDone, AppendPreparedFails, FlushRetries, PublishUnanswered, SaveMetadataFails,
       FailGroupPartly, AppendTerminalPartly, AppendTerminalFails, WorkerStops, Fatal
<1>2. QED
    BY <1>1, IdleFields

LEMMA LockStep ==
    ASSUME TypeOK, LockInv, Next
    PROVE  LockInv'
<1> USE DEF TypeOK
<1>0. TheWorker \notin Callers /\ Nobody \notin Callers /\ TheWorker # Nobody
    BY NamesAssumption DEF TheWorker, Nobody
<1>1. CASE lock' = lock /\ caller' = caller /\ (worker'.at = worker.at
             \/ {worker.at, worker'.at} \intersect {"planning", "planned"} = {}
             \/ {worker.at, worker'.at} \subseteq {"planning", "planned"})
    BY <1>1 DEF LockInv
<1>2. CASE caller' = caller /\ worker' = IdleWorker /\ WorkerUnlocks
    BY <1>0, <1>2, IdleFields DEF LockInv, WorkerUnlocks
<1>3. ASSUME WorkerStep PROVE LockInv'
  <2>1. CASE EnterTenant
    <3>1. CASE worker'.at \in {"planning", "planned"}
      <4>1. lock = Nobody /\ lock' = TheWorker /\ caller' = caller
        <5>1. caller' = caller
          BY <2>1 DEF EnterTenant
        <5>2. QED
          BY <2>1, <3>1, <5>1, EnterFields, IdleFields
      <4>2. QED
        BY <1>0, <3>1, <4>1 DEF LockInv
    <3>2. CASE worker'.at \notin {"planning", "planned"}
      <4>1. lock = Nobody /\ lock' = lock /\ caller' = caller /\ worker.at = "entering"
        <5>1. caller' = caller
          BY <2>1 DEF EnterTenant
        <5>2. QED
          BY <2>1, <3>2, <5>1, EnterFields, IdleFields
      <4>2. QED
        BY <1>1, <3>2, <4>1
    <3>3. QED
      BY <3>1, <3>2
  <2>2. CASE Publish \/ PublishUnanswered
    <3>1. worker.at = "planned" /\ lock' = Nobody /\ caller' = caller /\ worker'.at \in {"published", "idle"}
      BY <2>2, OnwardFields, IdlingFields DEF Publish, PublishUnanswered
    <3>2. QED
      BY <1>0, <3>1 DEF LockInv
  <2>3. CASE AppendPreparedFails \/ FlushRetries \/ AppendTerminalFails
    BY <1>2, <2>3 DEF AppendPreparedFails, FlushRetries, AppendTerminalFails, Fatal
  <2>4. CASE Dispatch \/ NextGroup \/ FlushDone
    <3>1. {worker.at, worker'.at} \subseteq {"idle", "group", "entering", "failing"}
      <4>1. Dispatch => {worker.at, worker'.at} \subseteq {"idle", "group", "entering", "failing"}
        BY DispatchFields
      <4>2. NextGroup => {worker.at, worker'.at} \subseteq {"idle", "group", "entering", "failing"}
        BY NextGroupFields
      <4>3. FlushDone => {worker.at, worker'.at} \subseteq {"idle", "group", "entering", "failing"}
        BY IdlingFields DEF FlushDone
      <4>4. QED
        BY <2>4, <4>1, <4>2, <4>3
    <3>2. lock' = lock /\ caller' = caller
      BY <2>4 DEF Dispatch, NextGroup, FlushDone
    <3>3. QED
      BY <1>1, <3>1, <3>2
  <2>5. CASE AppendPrepared
    <3>1. worker.at = "planning" /\ worker'.at = "planned" /\ lock' = lock /\ caller' = caller
      BY <2>5, OnwardFields DEF AppendPrepared
    <3>2. QED
      BY <1>1, <3>1
  <2>6. CASE SaveMetadata \/ SaveMetadataFails \/ FailGroup \/ FailGroupPartly
             \/ AppendTerminal \/ AppendTerminalPartly
    <3>1. worker.at \in {"published", "failing", "recorded"} /\ worker'.at \in {"recorded", "idle", "group"}
      BY <2>6, OnwardFields, IdlingFields, TerminalFields
      DEF SaveMetadataFails, FailGroupPartly, AppendTerminalPartly
    <3>2. lock' = lock /\ caller' = caller
      BY <2>6
      DEF SaveMetadata, SaveMetadataFails, FailGroup, FailGroupPartly, AppendTerminal, AppendTerminalPartly
    <3>3. QED
      BY <1>1, <3>1, <3>2
  <2>7. QED
    BY <1>3, <2>1, <2>2, <2>3, <2>4, <2>5, <2>6 DEF WorkerStep
\* a caller gains, keeps or gives up the lock
<1>4. ASSUME NEW c \in Callers, worker' = worker, lock' \in {Nobody, c},
             lock \in {Nobody, c}, (lock' = c) <=> caller'[c].at \in {"locked", "purging"},
             caller'[c].at = "purging" => Operation[c] = "purge",
             \A d \in Callers \ {c} : caller'[d] = caller[d]
      PROVE  LockInv'
  <2>1. lock # TheWorker /\ lock' # TheWorker
    BY <1>0, <1>4
  <2>2. \A d \in Callers \ {c} : lock # d /\ lock' # d
    BY <1>0, <1>4
  <2>3. QED
    BY <1>4, <2>1, <2>2 DEF LockInv
\* a caller that does not hold it moves
<1>5. ASSUME NEW c \in Callers, worker' = worker, lock' = lock,
             caller[c].at \notin {"locked", "purging"}, caller'[c].at \notin {"locked", "purging"},
             \A d \in Callers \ {c} : caller'[d] = caller[d]
      PROVE  LockInv'
    BY <1>5 DEF LockInv
<1>6. ASSUME NEW c \in Callers, Call(c) \/ EnterGate(c) \/ Barrier(c) \/ BarrierDone(c) \/ GiveUp(c)
      PROVE  LockInv'
  <2>1. worker' = worker /\ lock' = lock /\ caller[c].at \in {"idle", "waiting", "gated", "flushing"}
    BY <1>6 DEF Call, EnterGate, Barrier, BarrierDone, GiveUp
  <2>2. CASE Return(c)
    BY <1>5, <2>1, <2>2, Returns
  <2>3. CASE ~Return(c)
    <3>1. \/ \E a \in {"gated", "waiting"} : caller' = [caller EXCEPT ![c].at = a]
          \/ \E e : caller' = [caller EXCEPT ![c] = e] /\ e.at \in {"flushing", "drained"}
      BY <1>6, <2>3 DEF Call, EnterGate, Barrier, BarrierDone, GiveUp
    <3>2. caller'[c].at \notin {"locked", "purging"} /\ \A d \in Callers \ {c} : caller'[d] = caller[d]
      <4>1. CASE \E a \in {"gated", "waiting"} : caller' = [caller EXCEPT ![c].at = a]
        BY <4>1, CallerUpdates
      <4>2. CASE \E e : caller' = [caller EXCEPT ![c] = e] /\ e.at \in {"flushing", "drained"}
        BY <4>2, CallerUpdates
      <4>3. QED
        BY <3>1, <4>1, <4>2
    <3>3. QED
      BY <1>5, <2>1, <3>2
  <2>4. QED
    BY <2>2, <2>3
<1>7. ASSUME NEW c \in Callers, TakeLock(c) PROVE LockInv'
    BY <1>0, <1>4, <1>7, CallerUpdates DEF TakeLock
<1>8. ASSUME NEW c \in Callers, Return(c), lock' = Nobody, worker' = worker, caller[c].at \in {"locked", "purging"}
      PROVE  LockInv'
  <2>1. lock = c
    BY <1>8 DEF LockInv
  <2>2. QED
    BY <1>0, <1>4, <1>8, <2>1, Returns
<1>9. ASSUME NEW c \in Callers, PurgeBegins(c), ~Return(c) PROVE LockInv'
  <2>1. /\ worker' = worker /\ lock' = lock /\ caller[c].at = "locked" /\ Operation[c] = "purge"
        /\ caller' = [caller EXCEPT ![c].at = "purging"]
    BY <1>9 DEF PurgeBegins
  <2>2. lock = c
    BY <2>1 DEF LockInv
  <2>3. QED
    BY <1>4, <2>1, <2>2, CallerUpdates
<1>10. CASE Forget
  <2>1. lock' = Nobody /\ worker'.at = "idle" /\ \A c \in Callers : caller'[c].at = "idle"
    BY <1>10, IdleFields DEF Forget, NotCalled
  <2>2. QED
    BY <1>0, <2>1 DEF LockInv
<1>11. QED
  <2>0. CASE UNCHANGED <<lock, worker, caller>>
    BY <1>1, <2>0
  <2> HIDE DEF TypeOK
  <2>1. ASSUME NEW c \in Callers, Call(c) \/ CallerStep(c) \/ GiveUp(c) PROVE LockInv'
    <3>1. CASE PurgeBegins(c)
      <4>1. CASE Return(c)
        <5>1. worker' = worker /\ caller[c].at = "locked" /\ caller'[c].at = "idle"
          BY <3>1, <4>1, Returns DEF PurgeBegins, TypeOK
        <5>2. caller' # [caller EXCEPT ![c].at = "purging"]
          <6>1. [caller EXCEPT ![c].at = "purging"][c].at = "purging"
            BY DEF TypeOK, CallerType
          <6>2. QED
            BY <5>1, <6>1
        <5>20. lock' = Nobody
          BY <3>1, <5>2 DEF PurgeBegins
        <5>3. QED
          BY <4>1, <5>1, <5>20, <1>8
      <4>2. QED
        BY <3>1, <4>1, <1>9
    <3>2. CASE DirectCommit(c) \/ PurgeDeletes(c) \/ CreateTenant(c)
      BY <3>2, <1>8 DEF DirectCommit, PurgeDeletes, CreateTenant
    <3>3. QED
      BY <2>1, <3>1, <3>2, <1>6, <1>7 DEF CallerStep
  <2>2. ASSUME NEW r \in Requests, AcceptBegin(r) \/ AcceptStep(r) PROVE LockInv'
    BY <2>0, <2>2 DEF AcceptStep, AcceptBegin, AcceptRefused, AppendAccepted, AppendAcceptedFails,
       Activate, Enqueue
  <2>4. CASE Crash \/ WorkerStops \/ Close \/ Closed \/ Restart
    BY <2>0, <2>4, <1>2, <1>10 DEF Crash, WorkerStops, Close, Closed, Restart, volatile
  <2>5. QED
    BY <2>1, <2>2, <1>3, <2>4 DEF Next

\* A process that is down has forgotten everything, and nothing runs in it.
LEMMA DownStep ==
    ASSUME TypeOK, DownInv, Next
    PROVE  DownInv'
<1>1. CASE run' # "down"
    BY <1>1 DEF DownInv
<1>2. CASE Forget
    BY <1>2 DEF Forget, DownInv
<1>3. CASE run = "down" /\ run' = "down"
  <2>1. /\ \A r \in Requests : accept[r].at = "idle"
        /\ \A c \in Callers : caller[c].at = "idle"
        /\ worker.at = "idle"
    BY <1>3 DEF DownInv, IdleWorker, NotCalled
  <2>2. ASSUME NEW r \in Requests, AcceptBegin(r) \/ AcceptStep(r) PROVE FALSE
    BY <1>3, <2>1, <2>2 DEF AcceptStep, AcceptBegin, AcceptRefused, AppendAccepted, AppendAcceptedFails,
       Activate, Enqueue
  <2>3. ASSUME WorkerStep PROVE FALSE
    BY <1>3, <2>1, <2>3 DEF WorkerStep, Dispatch, NextGroup, FlushDone, EnterTenant, AppendPrepared,
       AppendPreparedFails, FlushRetries, Publish, PublishUnanswered, SaveMetadata, SaveMetadataFails,
       FailGroup, FailGroupPartly, AppendTerminal, AppendTerminalPartly, AppendTerminalFails
  <2>4. ASSUME NEW c \in Callers, Call(c) \/ CallerStep(c) \/ GiveUp(c) PROVE FALSE
    BY <1>3, <2>1, <2>4 DEF CallerStep, Call, EnterGate, Barrier, BarrierDone, TakeLock, DirectCommit,
       PurgeBegins, PurgeDeletes, CreateTenant, GiveUp
  <2>5. ~Crash /\ ~WorkerStops /\ ~Close /\ ~Closed /\ ~Restart
    BY <1>3 DEF Crash, WorkerStops, Close, Closed, Restart
  <2>6. QED
    BY <2>2, <2>3, <2>4, <2>5 DEF Next
<1>4. run' = "down" => run = "down" \/ Forget
  <2>2. ASSUME NEW r \in Requests, AcceptBegin(r) \/ AcceptStep(r) PROVE run' \in {run, "fatal"}
    BY <2>2 DEF AcceptStep, AcceptBegin, AcceptRefused, AppendAccepted, AppendAcceptedFails, Activate, Enqueue
  <2>3. ASSUME WorkerStep PROVE run' \in {run, "fatal"}
    BY <2>3 DEF WorkerStep, Dispatch, NextGroup, FlushDone, EnterTenant, AppendPrepared,
       AppendPreparedFails, FlushRetries, Publish, PublishUnanswered, SaveMetadata, SaveMetadataFails,
       FailGroup, FailGroupPartly, AppendTerminal, AppendTerminalPartly, AppendTerminalFails, Fatal
  <2>4. ASSUME NEW c \in Callers, Call(c) \/ CallerStep(c) \/ GiveUp(c) PROVE run' = run
    BY <2>4 DEF CallerStep, Call, EnterGate, Barrier, BarrierDone, TakeLock, DirectCommit,
       PurgeBegins, PurgeDeletes, CreateTenant, GiveUp
  <2>5. Crash \/ WorkerStops \/ Close \/ Closed \/ Restart => run' \in {run, "closing", "up"} \/ Forget
    BY DEF Crash, WorkerStops, Close, Closed, Restart
  <2>6. QED
    BY <2>2, <2>3, <2>4, <2>5 DEF Next
<1>5. QED
    BY <1>1, <1>2, <1>3, <1>4

\* Only an Accept call and a restart make requests active.
LEMMA ActiveStep ==
    ASSUME TypeOK, Next
    PROVE  \/ \A r \in Requests : pending'[r].active => pending[r].active
           \/ \E r \in Requests : Activate(r)
           \/ Restart
<1> DEFINE Fewer == \A r \in Requests : pending'[r].active => pending[r].active
<1>0. pending' = pending => Fewer
    OBVIOUS
<1>1. AppendPrepared => Fewer
    BY DEF AppendPrepared, TypeOK, PendingType
<1>2. ASSUME NEW ids, pending' = Completed(ids) PROVE Fewer
    BY <1>2 DEF Completed, Inactive
<1>3. Forget => Fewer
    BY DEF Forget, Inactive
<1> HIDE DEF Fewer
<1>4. ASSUME NEW r \in Requests, AcceptBegin(r) \/ AcceptStep(r) PROVE Fewer \/ Activate(r)
    BY <1>0, <1>4 DEF AcceptStep, AcceptBegin, AcceptRefused, AppendAccepted, AppendAcceptedFails, Enqueue
<1>5. ASSUME WorkerStep PROVE Fewer
  <2>1. CASE AppendTerminal \/ AppendTerminalPartly
    BY <1>2, <2>1 DEF AppendTerminal, AppendTerminalPartly
  <2>2. QED
    BY <1>0, <1>1, <1>5, <2>1 DEF WorkerStep, Dispatch, NextGroup, FlushDone, EnterTenant,
       AppendPreparedFails, FlushRetries, Publish, PublishUnanswered, SaveMetadata, SaveMetadataFails,
       FailGroup, FailGroupPartly, AppendTerminalFails, Fatal
<1>6. ASSUME NEW c \in Callers, Call(c) \/ CallerStep(c) \/ GiveUp(c) PROVE Fewer
    BY <1>0, <1>6 DEF CallerStep, Call, EnterGate, Barrier, BarrierDone, TakeLock, DirectCommit,
       PurgeBegins, PurgeDeletes, CreateTenant, GiveUp
<1>7. Crash \/ WorkerStops \/ Close \/ Closed => Fewer
    BY <1>0, <1>3 DEF Crash, WorkerStops, Close, Closed, volatile
<1>8. Fewer \/ (\E r \in Requests : Activate(r)) \/ Restart
    BY <1>4, <1>5, <1>6, <1>7 DEF Next
<1>9. QED
    BY <1>8 DEF Fewer

\* What a step of a caller does to those that pause ingestion.
LEMMA DrainStep ==
    ASSUME TypeOK, GateInv, DrainInv, LockInv, DownInv, Next
    PROVE  DrainInv'
<1> USE DEF TypeOK
<1>1. ASSUME NEW c \in Callers, caller'[c] = caller[c],
             \A r \in Requests : pending'[r].active => pending[r].active
      PROVE  /\ Pausing(c)' /\ caller'[c].at = "flushing" =>
                  \A r \in Requests : pending'[r].active => r \in caller'[c].awaiting
             /\ (Pausing(c)' /\ caller'[c].at = "drained") \/ Replacing(c)' =>
                  \A r \in Requests : ~pending'[r].active
  <2>1. (Pausing(c)' <=> Pausing(c)) /\ (Replacing(c)' <=> Replacing(c))
    BY <1>1 DEF Pausing, Replacing
  <2>2. QED
    BY <1>1, <2>1 DEF DrainInv
<1>2. CASE caller' = caller /\ \A r \in Requests : pending'[r].active => pending[r].active
  <2>1. \A c \in Callers : caller'[c] = caller[c]
    BY <1>2
  <2>2. QED
    BY <1>1, <1>2, <2>1 DEF DrainInv
\* one caller moves
<1>3. ASSUME NEW c \in Callers, pending' = pending, \A d \in Callers \ {c} : caller'[d] = caller[d],
             Pausing(c)' /\ caller'[c].at = "flushing" =>
               \A r \in Requests : pending'[r].active => r \in caller'[c].awaiting,
             (Pausing(c)' /\ caller'[c].at = "drained") \/ Replacing(c)' =>
               \A r \in Requests : ~pending'[r].active
      PROVE  DrainInv'
  <2>1. \A d \in Callers \ {c} :
          /\ Pausing(d)' /\ caller'[d].at = "flushing" =>
               \A r \in Requests : pending'[r].active => r \in caller'[d].awaiting
          /\ (Pausing(d)' /\ caller'[d].at = "drained") \/ Replacing(d)' =>
               \A r \in Requests : ~pending'[r].active
    BY <1>1, <1>3
  <2>2. QED
    BY <1>3, <2>1 DEF DrainInv
<1>4. ASSUME NEW r \in Requests, Activate(r) PROVE DrainInv'
  <2>1. r \in gate.readers /\ caller' = caller
    BY <1>4 DEF Activate, GateInv
  <2>2. gate.writer = Nobody
    BY <2>1 DEF GateType
  <2>3. \A c \in Callers : ~Pausing(c) /\ ~Replacing(c)
    BY <2>2, NamesAssumption DEF GateInv
  <2>4. QED
    BY <2>1, <2>3 DEF DrainInv, Pausing, Replacing
<1>5. CASE Restart
  <2>1. caller' = caller /\ \A c \in Callers : caller[c].at = "idle"
    BY <1>5 DEF Restart, DownInv, NotCalled
  <2>2. QED
    BY <2>1 DEF DrainInv, Pausing, Replacing
<1>6. CASE Forget
  <2>1. \A c \in Callers : caller'[c].at = "idle"
    BY <1>6 DEF Forget, NotCalled
  <2>2. QED
    BY <2>1 DEF DrainInv, Pausing, Replacing
<1>7. ASSUME NEW c \in Callers, Return(c), pending' = pending PROVE DrainInv'
  <2>1. caller'[c].at = "idle" /\ \A d \in Callers \ {c} : caller'[d] = caller[d]
    BY <1>7, Returns
  <2>2. QED
    BY <1>3, <1>7, <2>1 DEF Pausing, Replacing
<1>8. ASSUME NEW c \in Callers, Call(c) \/ EnterGate(c) PROVE DrainInv'
  <2>1. PICK a \in {"gated", "waiting"} : caller' = [caller EXCEPT ![c].at = a] /\ pending' = pending
    BY <1>8 DEF Call, EnterGate
  <2>2. caller'[c].at \in {"gated", "waiting"} /\ \A d \in Callers \ {c} : caller'[d] = caller[d]
    BY <2>1, CallerUpdates
  <2>3. QED
    BY <1>3, <2>1, <2>2 DEF Pausing, Replacing
<1>9. ASSUME NEW c \in Callers, Barrier(c), ~Return(c) PROVE DrainInv'
  <2> DEFINE active == {r \in Requests : pending[r].active}
             next == [at |-> IF active = {} THEN "drained" ELSE "flushing", awaiting |-> active]
  <2>1. caller' = [caller EXCEPT ![c] = next] /\ pending' = pending
    BY <1>9 DEF Barrier
  <2>2. caller'[c] = next /\ \A d \in Callers \ {c} : caller'[d] = caller[d]
    BY <2>1, CallerUpdates
  <2>3. caller'[c].awaiting = active /\ caller'[c].at \in {"drained", "flushing"}
        /\ (caller'[c].at = "drained" => active = {})
    BY <2>2
  <2>4. QED
    BY <1>3, <2>1, <2>2, <2>3 DEF Pausing, Replacing
<1>10. ASSUME NEW c \in Callers, BarrierDone(c), ~Return(c) PROVE DrainInv'
  <2>1. /\ caller[c].at = "flushing" /\ \A r \in caller[c].awaiting : ~pending[r].active
        /\ caller' = [caller EXCEPT ![c] = [at |-> "drained", awaiting |-> {}]] /\ pending' = pending
    BY <1>10 DEF BarrierDone
  <2>2. caller'[c].at = "drained" /\ \A d \in Callers \ {c} : caller'[d] = caller[d]
    BY <2>1, CallerUpdates
  <2>3. Pausing(c)' => \A r \in Requests : ~pending[r].active
    BY <2>1, <2>2 DEF DrainInv, Pausing
  <2>4. QED
    BY <1>3, <2>1, <2>2, <2>3 DEF Replacing
<1>11. ASSUME NEW c \in Callers, TakeLock(c) PROVE DrainInv'
  <2>1. /\ caller[c].at = "drained" /\ caller' = [caller EXCEPT ![c].at = "locked"] /\ pending' = pending
    BY <1>11 DEF TakeLock
  <2>2. caller'[c].at = "locked" /\ \A d \in Callers \ {c} : caller'[d] = caller[d]
    BY <2>1, CallerUpdates
  <2>3. Replacing(c)' => \A r \in Requests : ~pending[r].active
    BY <2>1 DEF DrainInv, Pausing, Replacing
  <2>4. QED
    BY <1>3, <2>1, <2>2, <2>3 DEF Pausing
<1>12. ASSUME NEW c \in Callers, PurgeBegins(c), ~Return(c) PROVE DrainInv'
  <2>1. /\ caller[c].at = "locked" /\ Operation[c] = "purge" /\ pending' = pending
        /\ caller' = [caller EXCEPT ![c].at = "purging"]
    BY <1>12 DEF PurgeBegins
  <2>2. caller'[c].at = "purging" /\ \A d \in Callers \ {c} : caller'[d] = caller[d]
    BY <2>1, CallerUpdates
  <2>3. \A r \in Requests : ~pending[r].active
    BY <2>1 DEF DrainInv, Replacing
  <2>4. QED
    BY <1>3, <2>1, <2>2, <2>3 DEF Pausing
<1>13. QED
  <2> HIDE DEF TypeOK
  <2>1. ASSUME NEW c \in Callers, Call(c) \/ CallerStep(c) \/ GiveUp(c) PROVE DrainInv'
    <3>1. CASE Return(c)
      <4>1. pending' = pending
        BY <2>1 DEF CallerStep, Call, EnterGate, Barrier, BarrierDone, TakeLock, DirectCommit,
           PurgeBegins, PurgeDeletes, CreateTenant, GiveUp
      <4>2. QED
        BY <1>7, <3>1, <4>1
    <3>2. CASE ~Return(c)
      BY <2>1, <3>2, <1>8, <1>9, <1>10, <1>11, <1>12
      DEF CallerStep, DirectCommit, PurgeDeletes, CreateTenant, GiveUp
    <3>3. QED
      BY <3>1, <3>2
  <2>2. CASE \A c \in Callers : ~ (Call(c) \/ CallerStep(c) \/ GiveUp(c))
    <3>1. caller' = caller \/ Forget
      <4>1. ASSUME NEW r \in Requests, AcceptBegin(r) \/ AcceptStep(r) PROVE caller' = caller
        BY <4>1 DEF AcceptStep, AcceptBegin, AcceptRefused, AppendAccepted, AppendAcceptedFails, Activate, Enqueue
      <4>2. ASSUME WorkerStep PROVE caller' = caller
        BY <4>2 DEF WorkerStep, Dispatch, NextGroup, FlushDone, EnterTenant, AppendPrepared,
           AppendPreparedFails, FlushRetries, Publish, PublishUnanswered, SaveMetadata, SaveMetadataFails,
           FailGroup, FailGroupPartly, AppendTerminal, AppendTerminalPartly, AppendTerminalFails
      <4>3. Crash \/ WorkerStops \/ Close \/ Closed \/ Restart => caller' = caller \/ Forget
        BY DEF Crash, WorkerStops, Close, Closed, Restart, volatile
      <4>4. QED
        BY <2>2, <4>1, <4>2, <4>3 DEF Next
    <3>2. QED
      BY <1>2, <1>4, <1>5, <1>6, <3>1, ActiveStep
  <2>3. QED
    BY <2>1, <2>2

-----------------------------------------------------------------------------
(* The pipe.                                                               *)

LEMMA DistinctAppend ==
    ASSUME NEW S, NEW s \in Seq(S), Distinct(s), NEW x \in S, x \notin Ids(s)
    PROVE  Distinct(Append(s, x)) /\ Ids(Append(s, x)) = Ids(s) \union {x}
<1> DEFINE t == Append(s, x)
<1>1. t \in Seq(S) /\ DOMAIN t = 1..Len(s) + 1 /\ Len(s) \in Nat /\ DOMAIN s = 1..Len(s)
    OBVIOUS
<1>2. t[Len(s) + 1] = x /\ \A i \in 1..Len(s) : t[i] = s[i]
    OBVIOUS
<1> HIDE DEF t
<1>3. \A i \in DOMAIN t : i = Len(s) + 1 \/ i \in 1..Len(s)
    BY <1>1
<1>4. Ids(t) = Ids(s) \union {x}
    BY <1>1, <1>2, <1>3 DEF Ids
<1>5. \A i \in DOMAIN s : s[i] # x
    BY DEF Ids
<1>6. Distinct(t)
    BY <1>1, <1>2, <1>3, <1>5 DEF Distinct
<1>7. QED
    BY <1>4, <1>6 DEF t

LEMMA DistinctParts ==
    ASSUME NEW S, NEW s \in Seq(S), NEW t \in Seq(S), Distinct(s \o t)
    PROVE  Distinct(t) /\ Distinct(s) /\ Ids(s) \intersect Ids(t) = {}
<1>1. \A i \in DOMAIN s : i \in DOMAIN (s \o t) /\ (s \o t)[i] = s[i]
    OBVIOUS
<1>2. \A i \in DOMAIN t : Len(s) + i \in DOMAIN (s \o t) /\ (s \o t)[Len(s) + i] = t[i]
    OBVIOUS
<1>3. Distinct(s)
    BY <1>1 DEF Distinct
<1>4. Distinct(t)
  <2> SUFFICES ASSUME NEW i \in DOMAIN t, NEW j \in DOMAIN t, t[i] = t[j] PROVE i = j
    BY DEF Distinct
  <2>1. Len(s) + i = Len(s) + j
    BY <1>2 DEF Distinct
  <2>2. QED
    BY <2>1
<1>5. ASSUME NEW i \in DOMAIN s, NEW j \in DOMAIN t, s[i] = t[j] PROVE FALSE
  <2>1. i = Len(s) + j
    BY <1>1, <1>2, <1>5 DEF Distinct
  <2>2. QED
    BY <2>1
<1>6. QED
    BY <1>3, <1>4, <1>5 DEF Ids

LEMMA FourParts ==
    \A g, r, q, o \in Seq(Requests) :
      /\ g \o (r \o (q \o o)) \in Seq(Requests)
      /\ Ids(g \o (r \o (q \o o))) = Ids(g) \union Ids(r) \union Ids(q) \union Ids(o)
      /\ g \o (r \o (q \o o)) = (g \o (r \o q)) \o o
      /\ g \o (r \o q) \in Seq(Requests)
      /\ Ids(g \o (r \o q)) = Ids(g) \union Ids(r) \union Ids(q)
<1> TAKE g, r, q, o \in Seq(Requests)
<1>1. q \o o \in Seq(Requests) /\ Ids(q \o o) = Ids(q) \union Ids(o)
    BY IdsOfConcat
<1>2. r \o (q \o o) \in Seq(Requests) /\ Ids(r \o (q \o o)) = Ids(r) \union Ids(q \o o)
  <2> DEFINE x == q \o o
  <2>1. x \in Seq(Requests)
    BY <1>1
  <2> HIDE DEF x
  <2>2. r \o x \in Seq(Requests) /\ Ids(r \o x) = Ids(r) \union Ids(x)
    BY <2>1, IdsOfConcat
  <2>3. QED
    BY <2>2 DEF x
<1>3. g \o (r \o (q \o o)) \in Seq(Requests) /\ Ids(g \o (r \o (q \o o))) = Ids(g) \union Ids(r \o (q \o o))
  <2> DEFINE x == r \o (q \o o)
  <2>1. x \in Seq(Requests)
    BY <1>2
  <2> HIDE DEF x
  <2>2. g \o x \in Seq(Requests) /\ Ids(g \o x) = Ids(g) \union Ids(x)
    BY <2>1, IdsOfConcat
  <2>3. QED
    BY <2>2 DEF x
<1>4. r \o q \in Seq(Requests) /\ Ids(r \o q) = Ids(r) \union Ids(q)
    BY IdsOfConcat
<1>5. g \o (r \o q) \in Seq(Requests) /\ Ids(g \o (r \o q)) = Ids(g) \union Ids(r \o q)
  <2> DEFINE x == r \o q
  <2>1. x \in Seq(Requests)
    BY <1>4
  <2> HIDE DEF x
  <2>2. g \o x \in Seq(Requests) /\ Ids(g \o x) = Ids(g) \union Ids(x)
    BY <2>1, IdsOfConcat
  <2>3. QED
    BY <2>2 DEF x
<1>6. \A a, b, c \in Seq(Requests) : (a \o b) \o c = a \o (b \o c)
    OBVIOUS
<1>7. r \o (q \o o) = (r \o q) \o o
    BY <1>6, Zenon
<1>8. (g \o (r \o q)) \o o = g \o ((r \o q) \o o)
    BY <1>4, <1>6, Zenon
<1>9. QED
    BY <1>1, <1>2, <1>3, <1>4, <1>5, <1>7, <1>8

LEMMA PipeParts ==
    ASSUME worker \in WorkerType, queue \in Seq(Requests), order \in Seq(Requests)
    PROVE  /\ Pipe \in Seq(Requests)
           /\ Ids(Pipe) = Ids(worker.group) \union Ids(worker.rest) \union Ids(queue) \union Ids(order)
           /\ worker.group \o (worker.rest \o queue) \in Seq(Requests)
           /\ Ids(worker.group \o (worker.rest \o queue)) =
                Ids(worker.group) \union Ids(worker.rest) \union Ids(queue)
           /\ Pipe = (worker.group \o (worker.rest \o queue)) \o order
<1> DEFINE g == worker.group
           r == worker.rest
           q == queue
           o == order
<1>1. g \in Seq(Requests) /\ r \in Seq(Requests) /\ q \in Seq(Requests) /\ o \in Seq(Requests)
    BY DEF WorkerType
<1>2. Pipe = g \o (r \o (q \o o))
    BY DEF Pipe
<1> HIDE DEF g, r, q, o
<1>3. /\ g \o (r \o (q \o o)) \in Seq(Requests)
      /\ g \o (r \o q) \in Seq(Requests)
    BY <1>1, FourParts, Zenon
<1>4. /\ Ids(g \o (r \o (q \o o))) = Ids(g) \union Ids(r) \union Ids(q) \union Ids(o)
    BY <1>1, FourParts
<1>5. g \o (r \o (q \o o)) = (g \o (r \o q)) \o o
  <2>1. \A a, b, c \in Seq(Requests) : (a \o b) \o c = a \o (b \o c)
    OBVIOUS
  <2> DEFINE x == r \o q
  <2>2. x \in Seq(Requests)
    BY <1>1
  <2>3. (r \o q) \o o = r \o (q \o o)
    BY <1>1, <2>1, Zenon
  <2> HIDE DEF x
  <2>4. (g \o x) \o o = g \o (x \o o)
    <3>1. g \in Seq(Requests) /\ o \in Seq(Requests)
      BY <1>1
    <3>2. QED
      BY <3>1, <2>2, ConcatAssoc
  <2>5. QED
    BY <2>3, <2>4 DEF x
<1>6. Ids(g \o (r \o q)) = Ids(g) \union Ids(r) \union Ids(q)
    BY <1>1, FourParts
<1>7. QED
    BY <1>2, <1>3, <1>4, <1>5, <1>6 DEF g, r, q, o

LEMMA NextPipeParts ==
    ASSUME worker' \in WorkerType, queue' \in Seq(Requests), order' \in Seq(Requests)
    PROVE  /\ Pipe' \in Seq(Requests)
           /\ Ids(Pipe') = Ids(worker'.group) \union Ids(worker'.rest) \union Ids(queue') \union Ids(order')
           /\ worker'.group \o (worker'.rest \o queue') \in Seq(Requests)
           /\ Ids(worker'.group \o (worker'.rest \o queue')) =
                Ids(worker'.group) \union Ids(worker'.rest) \union Ids(queue')
           /\ Pipe' = (worker'.group \o (worker'.rest \o queue')) \o order'
<1> DEFINE g == worker'.group
           r == worker'.rest
           q == queue'
           o == order'
<1>1. g \in Seq(Requests) /\ r \in Seq(Requests) /\ q \in Seq(Requests) /\ o \in Seq(Requests)
    BY DEF WorkerType
<1>2. Pipe' = g \o (r \o (q \o o))
    BY DEF Pipe
<1> HIDE DEF g, r, q, o
<1>3. /\ g \o (r \o (q \o o)) \in Seq(Requests)
      /\ g \o (r \o q) \in Seq(Requests)
    BY <1>1, FourParts, Zenon
<1>4. /\ Ids(g \o (r \o (q \o o))) = Ids(g) \union Ids(r) \union Ids(q) \union Ids(o)
    BY <1>1, FourParts
<1>5. g \o (r \o (q \o o)) = (g \o (r \o q)) \o o
  <2>1. \A a, b, c \in Seq(Requests) : (a \o b) \o c = a \o (b \o c)
    OBVIOUS
  <2> DEFINE x == r \o q
  <2>2. x \in Seq(Requests)
    BY <1>1
  <2>3. (r \o q) \o o = r \o (q \o o)
    BY <1>1, <2>1, Zenon
  <2> HIDE DEF x
  <2>4. (g \o x) \o o = g \o (x \o o)
    <3>1. g \in Seq(Requests) /\ o \in Seq(Requests)
      BY <1>1
    <3>2. QED
      BY <3>1, <2>2, ConcatAssoc
  <2>5. QED
    BY <2>3, <2>4 DEF x
<1>6. Ids(g \o (r \o q)) = Ids(g) \union Ids(r) \union Ids(q)
    BY <1>1, FourParts
<1>7. QED
    BY <1>2, <1>3, <1>4, <1>5, <1>6 DEF g, r, q, o

\* Every step of the worker keeps the pipe or drops its front.
LEMMA PipeShortens ==
    ASSUME TypeOK, TypeOK', PipeInv, NEW a \in Seq(Requests), Pipe = a \o Pipe',
           order' = order, arrived' = arrived, accept' = accept, Working' => Working,
           \A r \in Requests : pending[r].active /\ r \notin Ids(a) => pending'[r].active,
           worker'.at = "idle" => worker' = IdleWorker,
           worker'.at = "group" => worker'.group = <<>>,
           worker'.at \notin {"idle", "group"} => worker'.group # <<>>
    PROVE  PipeInv'
<1> DEFINE H == Ids(worker.group) \union Ids(worker.rest) \union Ids(queue)
           K == Ids(worker'.group) \union Ids(worker'.rest) \union Ids(queue')
           front == worker'.group \o (worker'.rest \o queue')
<1>0. worker' \in WorkerType /\ queue' \in Seq(Requests) /\ order' \in Seq(Requests)
    BY DEF TypeOK
<1>1. worker'.group \in Seq(Requests) /\ worker'.rest \in Seq(Requests)
    BY <1>0 DEF WorkerType
<1>2. worker.group \in Seq(Requests) /\ worker.rest \in Seq(Requests) /\ queue \in Seq(Requests)
      /\ order \in Seq(Requests)
    BY WorkerTypes DEF TypeOK
<1>3. Pipe \in Seq(Requests) /\ Ids(Pipe) = H \union Ids(order)
    BY PipeParts DEF TypeOK
<1>4. /\ Pipe' \in Seq(Requests) /\ Ids(Pipe') = K \union Ids(order)
      /\ Pipe' = front \o order /\ front \in Seq(Requests) /\ Ids(front) = K
  BY <1>0, NextPipeParts
<1> HIDE DEF front, H, K
<1>5. Distinct(Pipe') /\ Ids(a) \intersect Ids(Pipe') = {} /\ Ids(Pipe') \subseteq Ids(Pipe)
  <2> DEFINE p == Pipe'
  <2> HIDE DEF p
  <2>1. p \in Seq(Requests) /\ Distinct(a \o p)
    BY <1>4 DEF PipeInv, p
  <2>2. Distinct(p) /\ Ids(a) \intersect Ids(p) = {}
    BY <2>1, DistinctParts
  <2>3. Ids(a \o p) = Ids(a) \union Ids(p)
    BY <2>1, IdsOfConcat
  <2>4. QED
    BY <2>2, <2>3 DEF p
<1>6. K \intersect Ids(order) = {}
  <2>1. Distinct(front \o order)
    BY <1>4, <1>5
  <2>2. QED
    BY <1>2, <1>4, <2>1, DistinctParts
<1>7. \A r \in K \union arrived : Held(r)'
  <2> SUFFICES ASSUME NEW r \in K \union arrived PROVE Held(r)'
    OBVIOUS
  <2>1. r \in H \union arrived
    BY <1>3, <1>4, <1>5, <1>6
  <2>2. Held(r) /\ r \in Requests
    BY <2>1 DEF PipeInv, H, TypeOK, WorkerType, Ids
  <2>3. r \notin Ids(a)
    BY <1>4, <1>5 DEF PipeInv
  <2>4. QED
    BY <2>2, <2>3 DEF Held
<1>8. Working' => \A r \in Requests :
        r \in Ids(order') \ arrived' <=> accept'[r].at \in {"logged", "active"}
    BY DEF PipeInv
<1>9. QED
    BY <1>5, <1>7, <1>8 DEF PipeInv, K

\* How the worker's steps change the pipe.
LEMMA WorkerMoves ==
    ASSUME TypeOK, TypeOK', PipeInv, WorkerStep \/ WorkerStops
    PROVE  \E a \in Seq(Requests) :
             /\ Pipe = a \o Pipe'
             /\ \A x \in Requests : pending[x].active /\ x \notin Ids(a) => pending'[x].active
             /\ Working' => \A x \in Ids(a) : ~pending'[x].active /\ accept'[x].at = "idle"
             /\ worker'.at = "idle" => worker' = IdleWorker
             /\ worker'.at = "group" => worker'.group = <<>>
             /\ worker'.at \notin {"idle", "group"} => worker'.group # <<>>
<1> DEFINE Moves(a) ==
             /\ Pipe = a \o Pipe'
             /\ \A x \in Requests : pending[x].active /\ x \notin Ids(a) => pending'[x].active
             /\ Working' => \A x \in Ids(a) : ~pending'[x].active /\ accept'[x].at = "idle"
             /\ worker'.at = "idle" => worker' = IdleWorker
             /\ worker'.at = "group" => worker'.group = <<>>
             /\ worker'.at \notin {"idle", "group"} => worker'.group # <<>>
           Moved == \E a \in Seq(Requests) : Moves(a)
<1> HIDE DEF Moves
<1>s1. SUFFICES Moved
    BY DEF Moves
<1> HIDE DEF Moved
<1>0. /\ worker \in WorkerType /\ worker' \in WorkerType /\ queue \in Seq(Requests) /\ order \in Seq(Requests)
      /\ worker.group \in Seq(Requests) /\ worker.rest \in Seq(Requests)
    BY WorkerTypes DEF TypeOK
<1> DEFINE g == worker.group
           r == worker.rest
<1>1. \A a, b, c \in Seq(Requests) : (a \o b) \o c = a \o (b \o c)
    OBVIOUS
<1>2. \A a \in Seq(Requests) : <<>> \o a = a
    OBVIOUS
<1>3. \A a, b \in Seq(Requests) : a \o b \in Seq(Requests)
    OBVIOUS
<1>4. order' = order /\ arrived' = arrived /\ accept' = accept /\ (Working' => Working)
    BY DEF WorkerStep, Dispatch, NextGroup, FlushDone, EnterTenant, AppendPrepared,
       AppendPreparedFails, FlushRetries, Publish, PublishUnanswered, SaveMetadata, SaveMetadataFails,
       FailGroup, FailGroupPartly, AppendTerminal, AppendTerminalPartly, AppendTerminalFails, WorkerStops, Fatal,
       Working
\* the worker goes on, nothing finishes
<1>5. ASSUME Pipe' = Pipe, \A x \in Requests : pending[x].active => pending'[x].active,
             worker'.at = "idle" => worker' = IdleWorker,
             worker'.at = "group" => worker'.group = <<>>,
             worker'.at \notin {"idle", "group"} => worker'.group # <<>>
      PROVE  Moved
  <2>1. Pipe \in Seq(Requests)
    BY <1>0, PipeParts
  <2>2. Pipe = <<>> \o Pipe' /\ <<>> \in Seq(Requests) /\ Ids(<<>>) = {}
    BY <1>5, <2>1 DEF Ids
  <2>3. Moves(<<>>)
    BY <1>5, <2>2 DEF Moves
  <2>4. QED
    BY <2>2, <2>3 DEF Moved
\* the worker stops and the front of the pipe is lost
<1>6. ASSUME worker' = IdleWorker, queue' = queue, pending' = pending, ~Working' PROVE Moved
  <2>1. Pipe' = <<>> \o (<<>> \o (queue \o order))
    BY <1>4, <1>6, IdleFields DEF Pipe
  <2>2. Pipe = (g \o r) \o (queue \o order) /\ g \o r \in Seq(Requests)
    <3> DEFINE x == queue \o order
    <3>1. x \in Seq(Requests)
      BY <1>0
    <3>2. Pipe = g \o (r \o x)
      BY DEF Pipe
    <3> HIDE DEF g, r, x
    <3>3. g \in Seq(Requests) /\ r \in Seq(Requests)
      BY <1>0 DEF g, r
    <3>4. g \o (r \o x) = (g \o r) \o x
      BY <3>1, <3>3, ConcatAssoc
    <3>5. QED
      BY <3>2, <3>3, <3>4 DEF x
  <2>3. Pipe' = queue \o order
    BY <1>0, <2>1
  <2> DEFINE a == g \o r
  <2>4. a \in Seq(Requests) /\ Pipe = a \o Pipe'
    BY <2>2, <2>3
  <2> HIDE DEF a
  <2>5. Moves(a)
    BY <1>6, <2>4, IdleFields DEF Moves
  <2>6. QED
    BY <2>4, <2>5 DEF Moved
\* the worker stops and what it did not finish is retried
<1>7. ASSUME NEW n \in 0..Len(g), worker' = IdleWorker, queue' = Retried(SubSeq(g, n + 1, Len(g))),
             \A x \in Requests : pending[x].active /\ x \notin Ids(SubSeq(g, 1, n)) => pending'[x].active,
             \A x \in Ids(SubSeq(g, 1, n)) : ~pending'[x].active
      PROVE  Moved
  <2> DEFINE done == SubSeq(g, 1, n)
             todo == SubSeq(g, n + 1, Len(g))
  <2>1. done \in Seq(Requests) /\ todo \in Seq(Requests) /\ done \o todo = g
    BY <1>0, IdsOfParts
  <2> HIDE DEF done, todo
  <2>2. queue' = todo \o (r \o queue)
    BY <1>0, <1>7, <2>1, RetriedType DEF todo
  <2> HIDE DEF g, r
  <2>3. g \in Seq(Requests) /\ r \in Seq(Requests)
    BY <1>0 DEF g, r
  <2>4. Pipe' = <<>> \o (<<>> \o ((todo \o (r \o queue)) \o order))
    BY <1>4, <1>7, <2>2, IdleFields DEF Pipe
  <2>5. r \o queue \in Seq(Requests) /\ queue \o order \in Seq(Requests)
        /\ (todo \o (r \o queue)) \o order \in Seq(Requests)
    BY <1>0, <2>1, <2>3
  <2>6. Pipe' = (todo \o (r \o queue)) \o order
    BY <2>4, <2>5
  <2>7. (r \o queue) \o order = r \o (queue \o order)
    BY <1>0, <2>3, ConcatAssoc
  <2> DEFINE x == r \o queue
             y == r \o (queue \o order)
  <2>8. x \in Seq(Requests) /\ y \in Seq(Requests) /\ Pipe' = (todo \o x) \o order /\ Pipe = g \o y
    BY <2>3, <2>5, <2>6 DEF Pipe, g, r
  <2>9. x \o order = y
    BY <2>7
  <2> HIDE DEF x, y
  <2>90. todo \in Seq(Requests) /\ x \in Seq(Requests) /\ order \in Seq(Requests)
    BY <1>0, <2>1, <2>8
  <2>91. done \in Seq(Requests) /\ todo \in Seq(Requests) /\ y \in Seq(Requests)
    BY <2>1, <2>8
  <2>10. (todo \o x) \o order = todo \o (x \o order)
    BY <2>90, ConcatAssoc
  <2>11. (done \o todo) \o y = done \o (todo \o y)
    BY <2>91, ConcatAssoc
  <2>12. Pipe = done \o Pipe'
    BY <2>1, <2>8, <2>9, <2>10, <2>11
  <2>13. \A z \in Ids(done) : accept'[z].at = "idle"
    <3>1. Ids(done) \subseteq Ids(worker.group)
      BY <1>0, IdsOfParts DEF done, g
    <3>2. QED
      BY <1>4, <3>1 DEF PipeInv, Held
  <2>14. Moves(done)
    BY <1>7, <2>12, <2>13, IdleFields DEF Moves, done
  <2>15. QED
    BY <2>1, <2>14 DEF Moved
<1>8. ASSUME queue' = Retried(g), worker' = IdleWorker, pending' = pending PROVE Moved
  <2>1. SubSeq(g, 0 + 1, Len(g)) = g /\ 0 \in 0..Len(g) /\ SubSeq(g, 1, 0) = <<>>
    BY <1>0
  <2>2. Ids(<<>>) = {}
    BY DEF Ids
  <2>3. QED
    BY <1>7, <1>8, <2>1, <2>2
<1>9. CASE Dispatch
  <2>1. worker = IdleWorker
    BY <1>9 DEF Dispatch, PipeInv
  <2>2. Pipe = <<>> \o (<<>> \o (queue \o order))
    BY <2>1, IdleFields DEF Pipe
  <2>3. Pipe' = <<>> \o (queue \o (<<>> \o order))
    BY <1>4, <1>9, DispatchFields DEF Pipe, Dispatch
  <2>4. queue \o order \in Seq(Requests)
    BY <1>0
  <2>5. Pipe' = Pipe
    BY <1>0, <1>2, <2>2, <2>3, <2>4
  <2>6. QED
    BY <1>5, <1>9, <2>5, DispatchFields DEF Dispatch
<1>10. CASE NextGroup
  <2>1. PICK n \in 1..Len(r) :
          /\ worker.at = "group" /\ worker'.at = IF Writable THEN "entering" ELSE "failing"
          /\ worker'.group = SubSeq(r, 1, n)
          /\ worker'.rest = SubSeq(r, n + 1, Len(r))
    BY <1>0, <1>10, NextGroupFields
  <2> DEFINE s == SubSeq(r, 1, n)
             t == SubSeq(r, n + 1, Len(r))
             x == queue \o order
  <2>2. s \in Seq(Requests) /\ t \in Seq(Requests) /\ s \o t = r /\ Len(s) = n
    <3>1. n \in 0..Len(r)
      BY <1>0
    <3>2. QED
      BY <1>0, <3>1, IdsOfParts
  <2>3. x \in Seq(Requests)
    BY <1>0
  <2>4. worker.group = <<>>
    BY <2>1 DEF PipeInv
  <2>5. Pipe = <<>> \o (r \o x) /\ Pipe' = s \o (t \o x)
    BY <1>4, <1>10, <2>1, <2>4 DEF Pipe, NextGroup
  <2> HIDE DEF s, t, x
  <2>60. s \in Seq(Requests) /\ t \in Seq(Requests)
    BY <2>2
  <2>6. (s \o t) \o x = s \o (t \o x)
    BY <2>3, <2>60, ConcatAssoc
  <2>7. r \o x \in Seq(Requests)
    BY <1>0, <2>3
  <2>8. <<>> \o (r \o x) = r \o x
    BY <1>2, <2>7, Zenon
  <2>9. Pipe' = Pipe
    BY <2>2, <2>5, <2>6, <2>8
  <2>10. worker'.group # <<>>
    <3>1. Len(s) # 0 /\ worker'.group = s
      BY <2>1, <2>2 DEF s
    <3>2. QED
      BY <3>1
  <2>11. QED
    BY <1>5, <1>10, <2>1, <2>9, <2>10 DEF NextGroup
<1>11. CASE FlushDone
  <2>1. worker.group = <<>> /\ worker.rest = <<>> /\ worker' = IdleWorker
    BY <1>11 DEF FlushDone, PipeInv
  <2>2. Pipe' = Pipe
    BY <1>4, <1>11, <2>1, IdleFields DEF Pipe, FlushDone
  <2>3. QED
    BY <1>5, <1>11, <2>1, <2>2, IdleFields DEF FlushDone
<1>12. ASSUME worker'.group = worker.group, worker'.rest = worker.rest, queue' = queue,
              \A x \in Requests : pending[x].active => pending'[x].active,
              worker.at \notin {"idle", "group"}, worker'.at \notin {"idle", "group"}
       PROVE  Moved
  <2>1. Pipe' = Pipe
    BY <1>4, <1>12 DEF Pipe
  <2>2. worker'.group # <<>>
    BY <1>12 DEF PipeInv
  <2>3. QED
    BY <1>5, <1>12, <2>1, <2>2
<1>13. CASE EnterTenant
  <2>1. queue' = queue /\ pending' = pending
    BY <1>13 DEF EnterTenant
  <2>2. \/ worker' = IdleWorker /\ ~Working'
        \/ /\ worker'.group = worker.group /\ worker'.rest = worker.rest
           /\ worker.at \notin {"idle", "group"} /\ worker'.at \notin {"idle", "group"}
    BY <1>0, <1>13, EnterFields DEF Working
  <2>3. QED
    BY <1>6, <1>12, <2>1, <2>2
<1>14. CASE AppendPrepared \/ Publish \/ SaveMetadata \/ FailGroup
  <2>1. queue' = queue
    BY <1>14 DEF AppendPrepared, Publish, SaveMetadata, FailGroup
  <2>2. \A x \in Requests : pending[x].active => pending'[x].active
    <3>1. CASE AppendPrepared
      BY <3>1 DEF AppendPrepared, TypeOK, PendingType
    <3>2. CASE Publish \/ SaveMetadata \/ FailGroup
      BY <3>2 DEF Publish, SaveMetadata, FailGroup
    <3>3. QED
      BY <1>14, <3>1, <3>2
  <2>3. /\ worker'.group = worker.group /\ worker'.rest = worker.rest
        /\ worker.at \notin {"idle", "group"} /\ worker'.at \notin {"idle", "group"}
    BY <1>0, <1>14, OnwardFields
  <2>4. QED
    BY <1>12, <2>1, <2>2, <2>3
<1>15. CASE AppendPreparedFails \/ FlushRetries \/ PublishUnanswered \/ SaveMetadataFails \/ FailGroupPartly
    BY <1>8, <1>15 DEF AppendPreparedFails, FlushRetries, PublishUnanswered, SaveMetadataFails, FailGroupPartly
<1>16. CASE AppendTerminalFails \/ WorkerStops
    BY <1>6, <1>16 DEF AppendTerminalFails, WorkerStops, Fatal, Working
<1>17. CASE AppendTerminal
  <2>1. worker'.at = "group" /\ worker'.group = <<>> /\ worker'.rest = worker.rest
    BY <1>0, <1>17, TerminalFields
  <2>2. queue' = queue /\ pending' = Completed(Ids(g))
    BY <1>17 DEF AppendTerminal
  <2> DEFINE y == r \o (queue \o order)
  <2>3. y \in Seq(Requests)
    BY <1>0
  <2>4. Pipe = g \o y /\ Pipe' = <<>> \o y
    BY <1>4, <2>1, <2>2 DEF Pipe
  <2> HIDE DEF y
  <2>5. Pipe = g \o Pipe'
    BY <2>3, <2>4
  <2>6. \A x \in Requests : pending[x].active /\ x \notin Ids(g) => pending'[x].active
    BY <2>2 DEF Completed
  <2>7. \A x \in Ids(g) : ~pending'[x].active /\ accept'[x].at = "idle"
    <3>1. \A x \in Ids(g) : x \in Requests
      BY <1>0 DEF Ids
    <3>2. \A x \in Ids(g) : accept[x].at = "idle"
      BY DEF PipeInv, Held
    <3>3. QED
      BY <1>4, <2>2, <3>1, <3>2 DEF Completed, Inactive
  <2>8. Moves(g)
    BY <2>1, <2>5, <2>6, <2>7 DEF Moves
  <2>9. QED
    BY <1>0, <2>8 DEF Moved
<1>18. CASE AppendTerminalPartly
  <2>1. PICK durable \in SUBSET Ids(worker.group) :
          /\ pending' = Completed(Ids(Answered(durable)))
          /\ queue' = Retried(SubSeq(g, Len(Answered(durable)) + 1, Len(g)))
    BY <1>18 DEF AppendTerminalPartly
  <2>2. PICK n \in 0..Len(g) : Answered(durable) = SubSeq(g, 1, n)
    BY <1>0, AnsweredFacts
  <2>3. Len(SubSeq(g, 1, n)) = n
    BY <1>0, IdsOfParts
  <2>4. queue' = Retried(SubSeq(g, n + 1, Len(g))) /\ pending' = Completed(Ids(SubSeq(g, 1, n)))
    BY <2>1, <2>2, <2>3
  <2>5. \A x \in Requests : pending[x].active /\ x \notin Ids(SubSeq(g, 1, n)) => pending'[x].active
    BY <2>4 DEF Completed
  <2>6. worker' = IdleWorker
    BY <1>18 DEF AppendTerminalPartly
  <2>7. \A x \in Ids(SubSeq(g, 1, n)) : ~pending'[x].active
    <3>1. \A x \in Ids(SubSeq(g, 1, n)) : x \in Requests
      <4>1. Ids(SubSeq(g, 1, n)) \subseteq Ids(g)
        BY <1>0, IdsOfParts
      <4>2. QED
        BY <1>0, <4>1 DEF Ids
    <3>2. QED
      BY <2>4, <3>1 DEF Completed, Inactive
  <2>8. QED
    BY <1>7, <2>4, <2>5, <2>6, <2>7
<1>19. QED
    BY <1>9, <1>10, <1>11, <1>13, <1>14, <1>15, <1>16, <1>17, <1>18 DEF WorkerStep

LEMMA WorkerPipe ==
    ASSUME TypeOK, TypeOK', PipeInv, WorkerStep \/ WorkerStops
    PROVE  PipeInv'
<1>1. PICK a \in Seq(Requests) :
        /\ Pipe = a \o Pipe'
        /\ \A x \in Requests : pending[x].active /\ x \notin Ids(a) => pending'[x].active
        /\ worker'.at = "idle" => worker' = IdleWorker
        /\ worker'.at = "group" => worker'.group = <<>>
        /\ worker'.at \notin {"idle", "group"} => worker'.group # <<>>
    BY WorkerMoves
<1>2. order' = order /\ arrived' = arrived /\ accept' = accept /\ (Working' => Working)
    BY DEF WorkerStep, Dispatch, NextGroup, FlushDone, EnterTenant, AppendPrepared,
       AppendPreparedFails, FlushRetries, Publish, PublishUnanswered, SaveMetadata, SaveMetadataFails,
       FailGroup, FailGroupPartly, AppendTerminal, AppendTerminalPartly, AppendTerminalFails, WorkerStops, Fatal,
       Working
<1>3. QED
    BY <1>1, <1>2, PipeShortens

\* The steps of an Accept call.
LEMMA AcceptPipe ==
    ASSUME TypeOK, TypeOK', PipeInv, LogInv, DownInv, NEW r \in Requests, AcceptBegin(r) \/ AcceptStep(r)
    PROVE  PipeInv' /\ (Pipe' = Pipe \/ (AppendAccepted(r) /\ Pipe' = Append(Pipe, r)))
<1>0. /\ worker \in WorkerType /\ queue \in Seq(Requests) /\ order \in Seq(Requests)
      /\ worker.group \in Seq(Requests) /\ worker.rest \in Seq(Requests) /\ order' \in Seq(Requests)
      /\ accept \in [Requests -> AcceptType] /\ pending \in [Requests -> PendingType]
    BY WorkerTypes DEF TypeOK
<1> DEFINE H == Ids(worker.group) \union Ids(worker.rest) \union Ids(queue) \union arrived
<1>1. \A s \in H : Held(s) /\ s \in Requests
    BY DEF PipeInv, TypeOK, WorkerType, Ids
<1>2. r \notin H /\ (Working' => Working) /\ worker' = worker
  <2> HIDE DEF H
  <2>1. ~Held(r)
    BY DEF Held, AcceptStep, AcceptBegin, AcceptRefused, AppendAccepted, AppendAcceptedFails, Activate, Enqueue
  <2>2. (Working' => Working) /\ worker' = worker
    BY DEF AcceptStep, AcceptBegin, AcceptRefused, AppendAccepted, AppendAcceptedFails, Activate, Enqueue, Working
  <2>3. QED
    BY <1>1, <2>1, <2>2
<1>3. \A s \in Requests \ {r} : accept'[s] = accept[s] /\ pending'[s] = pending[s]
  <2>1. \E e : accept' = [accept EXCEPT ![r] = e] \/ accept' = [accept EXCEPT ![r].at = e]
    BY Zenon DEF AcceptStep, AcceptBegin, AcceptRefused, AppendAccepted, AppendAcceptedFails, Activate, Enqueue
  <2>2. \A s \in Requests \ {r} : accept'[s] = accept[s]
    BY <1>0, <2>1, AcceptUpdates
  <2>3. \A s \in Requests \ {r} : pending'[s] = pending[s]
    <3>1. CASE Activate(r)
      BY <1>0, <3>1 DEF Activate
    <3>2. CASE ~Activate(r)
      BY <3>2 DEF AcceptStep, AcceptBegin, AcceptRefused, AppendAccepted, AppendAcceptedFails, Enqueue
    <3>3. QED
      BY <3>1, <3>2
  <2>4. QED
    BY <2>2, <2>3
<1>4. \A s \in H : Held(s)'
  <2> SUFFICES ASSUME NEW s \in H PROVE Held(s)'
    OBVIOUS
  <2>1. s \in Requests \ {r} /\ Held(s)
    BY <1>1, <1>2
  <2>2. QED
    BY <1>3, <2>1 DEF Held
\* the request stays where it is
<1>5. ASSUME queue' = queue, order' = order, arrived' = arrived,
             Working' => (r \in Ids(order) \ arrived <=> accept'[r].at \in {"logged", "active"})
      PROVE  PipeInv' /\ Pipe' = Pipe
  <2>1. Pipe' = Pipe
    BY <1>2, <1>5 DEF Pipe
  <2>2. Working' => \A s \in Requests :
          s \in Ids(order') \ arrived' <=> accept'[s].at \in {"logged", "active"}
    BY <1>2, <1>3, <1>5 DEF PipeInv
  <2>3. QED
    BY <1>2, <1>4, <1>5, <2>1, <2>2 DEF PipeInv
<1>6. CASE AcceptBegin(r) \/ AcceptRefused(r) \/ AppendAcceptedFails(r) \/ Activate(r)
  <2>1. queue' = queue /\ order' = order /\ arrived' = arrived
    BY <1>6 DEF AcceptBegin, AcceptRefused, AppendAcceptedFails, Activate
  <2>2. CASE AcceptBegin(r)
    <3>1. accept[r].at = "idle" /\ accept'[r].at = "admitted"
      BY <1>0, <2>2, AcceptUpdates DEF AcceptBegin
    <3>2. QED
      BY <1>2, <1>5, <2>1, <3>1 DEF PipeInv
  <2>3. CASE AcceptRefused(r)
    <3>1. accept[r].at = "admitted" /\ accept'[r].at = "idle"
      BY <1>0, <2>3, AcceptUpdates DEF AcceptRefused
    <3>2. QED
      BY <1>2, <1>5, <2>1, <3>1 DEF PipeInv
  <2>4. CASE AppendAcceptedFails(r)
    <3>1. ~Working'
      BY <2>4 DEF AppendAcceptedFails, Working
    <3>2. QED
      BY <1>5, <2>1, <3>1
  <2>5. CASE Activate(r)
    <3>1. accept[r].at = "logged" /\ accept'[r].at = "active"
      BY <1>0, <2>5, AcceptUpdates DEF Activate
    <3>2. QED
      BY <1>2, <1>5, <2>1, <3>1 DEF PipeInv
  <2>6. QED
    BY <1>6, <2>2, <2>3, <2>4, <2>5
<1>7. CASE AppendAccepted(r)
  <2>1. /\ queue' = queue /\ order' = Append(order, r) /\ arrived' = arrived /\ Working
        /\ accept[r].at = "admitted" /\ accept'[r].at = "logged"
    BY <1>0, <1>7, AcceptUpdates DEF AppendAccepted, Working
  <2>2. r \notin Ids(order)
    BY <1>2, <2>1 DEF PipeInv
  <2>3. Pipe \in Seq(Requests) /\ r \notin Ids(Pipe)
    BY <1>0, <1>2, <2>2, PipeParts
  <2>4. Pipe' = Append(Pipe, r)
    <3> DEFINE g == worker.group
               h == worker.rest
    <3>1. Pipe' = g \o (h \o (queue \o Append(order, r))) /\ Pipe = g \o (h \o (queue \o order))
      BY <1>2, <2>1 DEF Pipe
    <3> HIDE DEF g, h
    <3>2. g \in Seq(Requests) /\ h \in Seq(Requests)
      BY <1>0 DEF g, h
    <3>3. \A a, b \in Seq(Requests) : a \o Append(b, r) = Append(a \o b, r) /\ a \o b \in Seq(Requests)
      OBVIOUS
    <3>4. queue \o Append(order, r) = Append(queue \o order, r) /\ queue \o order \in Seq(Requests)
      BY <1>0, <3>3, Zenon
    <3>5. h \o Append(queue \o order, r) = Append(h \o (queue \o order), r) /\ h \o (queue \o order) \in Seq(Requests)
      BY <3>2, <3>3, <3>4, Zenon
    <3>6. g \o Append(h \o (queue \o order), r) = Append(g \o (h \o (queue \o order)), r)
      BY <3>2, <3>3, <3>5, Zenon
    <3>7. QED
      BY <3>1, <3>4, <3>5, <3>6
  <2>5. Distinct(Pipe')
    BY <2>3, <2>4, DistinctAppend DEF PipeInv
  <2>6. Distinct(order)
    <3> DEFINE f == worker.group \o (worker.rest \o queue)
    <3>2. f \in Seq(Requests) /\ Pipe = f \o order
      BY <1>0, PipeParts
    <3> HIDE DEF f
    <3>3. QED
      BY <1>0, <3>2, DistinctParts DEF PipeInv
  <2>7. Ids(order') = Ids(order) \union {r}
    BY <1>0, <2>1, <2>2, <2>6, DistinctAppend
  <2>8. \A s \in Requests : s \in Ids(order') \ arrived' <=> accept'[s].at \in {"logged", "active"}
    <3> SUFFICES ASSUME NEW s \in Requests
                 PROVE  s \in Ids(order') \ arrived' <=> accept'[s].at \in {"logged", "active"}
      OBVIOUS
    <3>1. CASE s = r
      BY <1>2, <2>1, <2>7, <3>1
    <3>2. CASE s # r
      BY <1>3, <2>1, <2>7, <3>2 DEF PipeInv
    <3>3. QED
      BY <3>1, <3>2
  <2>9. arrived' \subseteq Ids(order')
    BY <2>1, <2>7 DEF PipeInv
  <2>10. QED
    BY <1>2, <1>4, <1>7, <2>1, <2>4, <2>5, <2>8, <2>9 DEF PipeInv
<1>8. CASE Enqueue(r) /\ run = "fatal"
  <2>1. ~Working' /\ queue' = queue /\ order' = order /\ arrived' = arrived
    BY <1>8 DEF Enqueue, Working
  <2>2. QED
    BY <1>5, <2>1
<1>9. CASE Enqueue(r) /\ run # "fatal"
  <2> DEFINE here == arrived \union {r}
             n == Ready(order, here)
             turn == SubSeq(order, 1, n)
             rest == SubSeq(order, n + 1, Len(order))
  <2>1. /\ queue' = queue \o turn /\ order' = rest /\ arrived' = here \ Ids(turn)
        /\ accept[r].at = "active" /\ accept'[r].at = "idle" /\ pending' = pending
    BY <1>0, <1>9, AcceptUpdates DEF Enqueue
  <2>2. n \in 0..Len(order) /\ \A i \in 1..n : order[i] \in here
    BY <1>0, ReadyFacts
  <2> HIDE DEF n
  <2>3. /\ turn \in Seq(Requests) /\ rest \in Seq(Requests) /\ turn \o rest = order
        /\ \A i \in 1..n : turn[i] = order[i]
        /\ Len(turn) = n
    <3>1. n \in 0..Len(order) /\ order \in Seq(Requests)
      BY <1>0, <2>2
    <3>2. QED
      BY <3>1, IdsOfParts
  <2> HIDE DEF turn, rest
  <2>4. Ids(turn) \subseteq here
    BY <2>2, <2>3 DEF Ids
  <2>5. Ids(order) = Ids(turn) \union Ids(rest)
    BY <2>3, IdsOfConcat
  <2>6. Pipe' = Pipe
    <3> DEFINE g == worker.group
               h == worker.rest
    <3>1. Pipe' = g \o (h \o ((queue \o turn) \o rest)) /\ Pipe = g \o (h \o (queue \o order))
      BY <1>2, <2>1 DEF Pipe
    <3>2. (queue \o turn) \o rest = queue \o (turn \o rest)
      <4>1. queue \in Seq(Requests) /\ turn \in Seq(Requests) /\ rest \in Seq(Requests)
        BY <1>0, <2>3
      <4>2. QED
        BY <4>1, ConcatAssoc
    <3>3. QED
      BY <2>3, <3>1, <3>2
  <2>7. Distinct(order)
    <3> DEFINE f == worker.group \o (worker.rest \o queue)
    <3>2. f \in Seq(Requests) /\ Pipe = f \o order
      BY <1>0, PipeParts
    <3> HIDE DEF f
    <3>3. QED
      BY <1>0, <3>2, DistinctParts DEF PipeInv
  <2>8. Ids(turn) \intersect Ids(rest) = {}
    BY <2>3, <2>7, DistinctParts
  <2>9. pending[r].active /\ Held(r)'
    BY <2>1 DEF LogInv, Held
  <2>10. \A s \in here : Held(s)'
    BY <1>4, <2>9
  <2>11. Ids(queue') = Ids(queue) \union Ids(turn)
    BY <1>0, <2>1, <2>3, IdsOfConcat
  <2>12. CASE Working
    <3>1. r \in Ids(order) \ arrived
      BY <2>1, <2>12 DEF PipeInv
    <3>2. arrived' \subseteq Ids(order')
      BY <2>1, <2>5, <3>1 DEF PipeInv
    <3>3. \A s \in Requests : s \in Ids(order') \ arrived' <=> s \in (Ids(order) \ arrived) \ {r}
      BY <2>1, <2>4, <2>5, <2>8
    <3>4. \A s \in Requests : s \in Ids(order') \ arrived' <=> accept'[s].at \in {"logged", "active"}
      BY <1>3, <2>1, <2>12, <3>3 DEF PipeInv
    <3>5. QED
      BY <1>2, <1>4, <2>1, <2>4, <2>6, <2>10, <2>11, <3>2, <3>4 DEF PipeInv
  <2>13. Working
    BY <1>9, <2>1 DEF TypeOK, DownInv, Working
  <2>14. QED
    BY <2>12, <2>13
<1>10. QED
    BY <1>6, <1>7, <1>8, <1>9 DEF AcceptStep

LEMMA PipeStep ==
    ASSUME TypeOK, TypeOK', PipeInv, LogInv, DownInv, Next
    PROVE  PipeInv'
<1>1. CASE UNCHANGED <<run, worker, queue, order, arrived, accept, pending>>
  <2>1. Pipe' = Pipe
    BY <1>1 DEF Pipe
  <2>2. QED
    BY <1>1, <2>1 DEF PipeInv, Held, Working
<1>2. CASE Forget
  <2>1. worker' = IdleWorker /\ queue' = <<>> /\ order' = <<>> /\ arrived' = {}
        /\ \A r \in Requests : accept'[r].at = "idle"
    BY <1>2 DEF Forget
  <2>2. Ids(<<>>) = {}
    BY DEF Ids
  <2>3. Pipe' = <<>>
    BY <2>1, IdleFields DEF Pipe
  <2>4. Distinct(<<>>)
    BY DEF Distinct
  <2>5. QED
    BY <2>1, <2>2, <2>3, <2>4, IdleFields DEF PipeInv
<1>3. CASE Restart
  <2>1. /\ worker' = worker /\ order' = order /\ arrived' = arrived /\ accept' = accept
        /\ worker = IdleWorker /\ order = <<>> /\ arrived = {} /\ \A r \in Requests : accept[r].at = "idle"
    BY <1>3 DEF Restart, DownInv
  <2> DEFINE q == [i \in DOMAIN log |-> log[i].id]
  <2>2. queue' = q
    BY <1>3 DEF Restart
  <2>3. q \in Seq(Requests) /\ DOMAIN q = DOMAIN log
    <3>1. log \in Seq(EntryType)
      BY DEF TypeOK
    <3>2. \A i \in DOMAIN log : log[i].id \in Requests
      BY <3>1, EntryFields
    <3>3. DOMAIN log = 1..Len(log) /\ Len(log) \in Nat
      BY <3>1
    <3>4. QED
      BY <3>2, <3>3
  <2>4. Distinct(q)
    BY DEF Distinct, LogInv
  <2>5. Ids(q) = LoggedIds
    BY DEF Ids, LoggedIds
  <2>6. Pipe' = <<>> \o (<<>> \o (q \o <<>>))
    BY <2>1, <2>2, IdleFields DEF Pipe
  <2> HIDE DEF q
  <2>7. Pipe' = q
    BY <2>3, <2>6
  <2>8. Ids(<<>>) = {}
    BY DEF Ids
  <2>9. \A r \in LoggedIds : Held(r)'
    <3> SUFFICES ASSUME NEW r \in LoggedIds PROVE Held(r)'
      OBVIOUS
    <3>1. r \in Requests
      BY EntryFields DEF TypeOK, LoggedIds
    <3>2. pending'[r].active
      BY <1>3, <3>1 DEF Restart
    <3>3. QED
      BY <2>1, <3>1, <3>2 DEF Held
  <2>10. QED
    BY <2>1, <2>2, <2>4, <2>5, <2>7, <2>8, <2>9, IdleFields DEF PipeInv
<1>4. CASE Close
  <2>1. Pipe' = Pipe /\ Working
    BY <1>4 DEF Pipe, Close, volatile, Working
  <2>2. QED
    BY <1>4, <2>1 DEF PipeInv, Held, Close, volatile
<1>5. ASSUME NEW c \in Callers, Call(c) \/ CallerStep(c) \/ GiveUp(c) PROVE PipeInv'
    BY <1>1, <1>5 DEF CallerStep, Call, EnterGate, Barrier, BarrierDone, TakeLock, DirectCommit,
       PurgeBegins, PurgeDeletes, CreateTenant, GiveUp
<1>6. CASE Crash \/ Closed
    BY <1>2, <1>6 DEF Crash, Closed
<1>7. QED
    BY <1>3, <1>4, <1>5, <1>6, AcceptPipe, WorkerPipe DEF Next

-----------------------------------------------------------------------------
(* The log and the memory of it.                                           *)

\* Steps after which the log names the same requests.
LEMMA LogKeeps ==
    ASSUME LogInv, DOMAIN log' = DOMAIN log,
           \A i \in DOMAIN log : log'[i].id = log[i].id /\ log'[i].generation = log[i].generation,
           accept' = accept, Working' => Working, store'.generation = store.generation,
           \A i \in DOMAIN log : log[i].id \in Requests,
           \A r \in Requests : /\ pending'[r].active = pending[r].active
                               /\ pending'[r].generation = pending[r].generation
                               /\ store'.records[r] = "none" => store.records[r] = "none"
    PROVE  LogInv'
<1>1. LoggedIds' = LoggedIds
    BY DEF LoggedIds
<1>2. \A r \in LoggedIds : r \in Requests
    BY DEF LoggedIds
<1>3. \A i, j \in DOMAIN log' : log'[i].id = log'[j].id => i = j
    BY DEF LogInv
<1>4. Working' => \A r \in LoggedIds' : pending'[r].active \/ accept'[r].at = "logged"
    BY <1>1, <1>2 DEF LogInv
<1>5. \A i \in DOMAIN log' :
        /\ accept'[log'[i].id].at = "logged" => log'[i].generation = accept'[log'[i].id].generation
        /\ pending'[log'[i].id].active => log'[i].generation = pending'[log'[i].id].generation
    BY DEF LogInv
<1>6. \A r \in Requests :
        /\ accept'[r].at = "admitted" => ~pending'[r].active /\ r \notin LoggedIds'
        /\ accept'[r].at = "logged" => ~pending'[r].active /\ r \in LoggedIds'
        /\ accept'[r].at = "active" => pending'[r].active
        /\ pending'[r].active /\ pending'[r].generation = store'.generation /\ r \notin LoggedIds' =>
             store'.records[r] # "none"
    BY <1>1 DEF LogInv
<1>7. QED
    BY <1>3, <1>4, <1>5, <1>6 DEF LogInv

\* Terminal records of finished requests.
LEMMA LogForgets ==
    ASSUME LogInv, log \in Seq(EntryType), NEW durable, log' = Without(log, durable),
           accept' = accept, store' = store, Working' => Working,
           \A r \in durable : accept[r].at = "idle" /\ (Current(r) => store.records[r] # "none"),
           \A r \in Requests : pending'[r] = pending[r] \/ (r \in durable /\ ~pending'[r].active)
    PROVE  LogInv'
<1> DEFINE w == Without(log, durable)
<1>0. \A i \in DOMAIN log : log[i].id \in Requests
    BY EntryFields
<1>1. PICK at \in [DOMAIN w -> DOMAIN log] :
        /\ \A i, j \in DOMAIN w : i < j => at[i] < at[j]
        /\ \A i \in DOMAIN w : w[i] = log[at[i]] /\ log[at[i]].id \notin durable
    BY WithoutFacts
<1>2. w \in Seq(EntryType) /\ \A i \in DOMAIN log : log[i].id \notin durable => \E k \in DOMAIN w : w[k] = log[i]
    BY WithoutFacts
<1> HIDE DEF w
<1>20. log' = w
    BY DEF w
<1>3. \A r : r \in LoggedIds' <=> r \in LoggedIds /\ r \notin durable
    BY <1>1, <1>2, <1>20 DEF LoggedIds
<1>4. \A i, j \in DOMAIN w : w[i].id = w[j].id => i = j
  <2> SUFFICES ASSUME NEW i \in DOMAIN w, NEW j \in DOMAIN w, w[i].id = w[j].id PROVE i = j
    OBVIOUS
  <2>1. at[i] = at[j]
    BY <1>1 DEF LogInv
  <2>2. i \in Nat /\ j \in Nat /\ at[i] \in Nat /\ at[j] \in Nat
    <3>1. DOMAIN w = 1..Len(w) /\ DOMAIN log = 1..Len(log)
      BY <1>2
    <3>2. at[i] \in DOMAIN log /\ at[j] \in DOMAIN log
      BY <1>1
    <3>3. QED
      BY <3>1, <3>2
  <2>3. QED
    BY <1>1, <2>1, <2>2
<1>5. Working' => \A r \in LoggedIds' : pending'[r].active \/ accept'[r].at = "logged"
  <2> SUFFICES ASSUME Working', NEW r \in LoggedIds' PROVE pending'[r].active \/ accept'[r].at = "logged"
    OBVIOUS
  <2>1. r \in LoggedIds /\ r \notin durable /\ r \in Requests
    <3>1. r \in LoggedIds /\ r \notin durable
      BY <1>3
    <3>2. QED
      BY <1>0, <3>1 DEF LoggedIds
  <2>2. QED
    BY <2>1 DEF LogInv
<1>6. \A i \in DOMAIN w :
        /\ accept'[w[i].id].at = "logged" => w[i].generation = accept'[w[i].id].generation
        /\ pending'[w[i].id].active => w[i].generation = pending'[w[i].id].generation
  <2> SUFFICES ASSUME NEW i \in DOMAIN w
               PROVE /\ accept'[w[i].id].at = "logged" => w[i].generation = accept'[w[i].id].generation
                     /\ pending'[w[i].id].active => w[i].generation = pending'[w[i].id].generation
    OBVIOUS
  <2>1. w[i] = log[at[i]] /\ w[i].id \notin durable /\ w[i].id \in Requests /\ at[i] \in DOMAIN log
    BY <1>0, <1>1
  <2>2. pending'[w[i].id] = pending[w[i].id]
    BY <2>1
  <2>3. QED
    BY <2>1, <2>2 DEF LogInv
<1>7. ASSUME NEW r \in Requests
      PROVE  /\ accept'[r].at = "admitted" => ~pending'[r].active /\ r \notin LoggedIds'
             /\ accept'[r].at = "logged" => ~pending'[r].active /\ r \in LoggedIds'
             /\ accept'[r].at = "active" => pending'[r].active
             /\ pending'[r].active /\ pending'[r].generation = store'.generation /\ r \notin LoggedIds' =>
                  store'.records[r] # "none"
  <2>1. CASE r \in durable
    BY <2>1, <1>3 DEF Current
  <2>2. CASE r \notin durable
    BY <2>2, <1>3 DEF LogInv
  <2>3. QED
    BY <2>1, <2>2
<1>8. QED
    BY <1>4, <1>5, <1>6, <1>7, <1>20 DEF LogInv

\* An ACCEPTED record, of a call that still waits for it or of one that failed.
LEMMA LogGrows ==
    ASSUME LogInv, log \in Seq(EntryType), accept \in [Requests -> AcceptType], NEW r \in Requests,
           accept[r].at = "admitted", NEW a \in {"idle", "logged"}, pending' = pending, store' = store,
           log' = Append(log, [id |-> r, generation |-> accept[r].generation, plan |-> NoPlan]),
           accept' = [accept EXCEPT ![r].at = a],
           Working' => Working /\ a = "logged"
    PROVE  LogInv'
<1> DEFINE n == Len(log) + 1
           e == [id |-> r, generation |-> accept[r].generation, plan |-> NoPlan]
<1>1. e.id = r /\ e.generation = accept[r].generation
    OBVIOUS
<1> HIDE DEF e
<1>2. /\ DOMAIN log = 1..Len(log) /\ DOMAIN log' = 1..n /\ Len(log) \in Nat
      /\ log'[n] = e /\ \A i \in DOMAIN log : log'[i] = log[i]
  <2>1. log' = Append(log, e)
    BY DEF e
  <2>2. QED
    BY <2>1
<1>3. \A i \in DOMAIN log' : i = n \/ i \in DOMAIN log
    BY <1>2
<1>4. n \in DOMAIN log' /\ n \notin DOMAIN log
    BY <1>2
<1> HIDE DEF n
<1>5. \A i \in DOMAIN log : log[i].id \in Requests /\ log[i].id # r
    BY EntryFields DEF LogInv, LoggedIds
<1>6. \A s : s \in LoggedIds' <=> s \in LoggedIds \/ s = r
    BY <1>1, <1>2, <1>3, <1>4 DEF LoggedIds
<1>7. /\ accept'[r].at = a /\ accept'[r].generation = accept[r].generation
      /\ \A s \in Requests \ {r} : accept'[s] = accept[s]
    BY AcceptUpdates
<1>8. \A i, j \in DOMAIN log' : log'[i].id = log'[j].id => i = j
    BY <1>1, <1>2, <1>3, <1>5 DEF LogInv
<1>9. Working' => \A s \in LoggedIds' : pending'[s].active \/ accept'[s].at = "logged"
  <2> SUFFICES ASSUME Working', NEW s \in LoggedIds' PROVE pending'[s].active \/ accept'[s].at = "logged"
    OBVIOUS
  <2>1. CASE s = r
    BY <1>7, <2>1
  <2>2. CASE s # r
    <3>1. s \in LoggedIds
      BY <1>6, <2>2
    <3>2. s \in Requests \ {r}
      BY <1>5, <2>2, <3>1 DEF LoggedIds
    <3>3. QED
      BY <1>7, <3>1, <3>2 DEF LogInv
  <2>3. QED
    BY <2>1, <2>2
<1>10. ASSUME NEW i \in DOMAIN log'
       PROVE  /\ accept'[log'[i].id].at = "logged" => log'[i].generation = accept'[log'[i].id].generation
              /\ pending'[log'[i].id].active => log'[i].generation = pending'[log'[i].id].generation
  <2>1. CASE i = n
    BY <1>1, <1>2, <1>7, <2>1 DEF LogInv
  <2>2. CASE i # n
    <3>1. i \in DOMAIN log /\ log'[i] = log[i] /\ log[i].id \in Requests \ {r}
      BY <1>2, <1>3, <1>5, <2>2
    <3>2. QED
      BY <1>7, <3>1 DEF LogInv
  <2>3. QED
    BY <2>1, <2>2
<1>11. ASSUME NEW s \in Requests
       PROVE  /\ accept'[s].at = "admitted" => ~pending'[s].active /\ s \notin LoggedIds'
              /\ accept'[s].at = "logged" => ~pending'[s].active /\ s \in LoggedIds'
              /\ accept'[s].at = "active" => pending'[s].active
              /\ pending'[s].active /\ pending'[s].generation = store'.generation /\ s \notin LoggedIds' =>
                   store'.records[s] # "none"
  <2>1. CASE s = r
    BY <1>6, <1>7, <2>1 DEF LogInv
  <2>2. CASE s # r
    BY <1>6, <1>7, <2>2 DEF LogInv
  <2>3. QED
    BY <2>1, <2>2
<1>12. QED
    BY <1>8, <1>9, <1>10, <1>11 DEF LogInv

\* An Accept call that leaves the log alone.
LEMMA LogAwaits ==
    ASSUME LogInv, log \in Seq(EntryType), log' = log, store' = store, Working' => Working, NEW r \in Requests,
           \A s \in Requests \ {r} : accept'[s] = accept[s] /\ pending'[s] = pending[s],
           r \in LoggedIds => pending'[r].active \/ ~Working',
           r \in LoggedIds /\ pending'[r].active =>
             \A i \in DOMAIN log : log[i].id = r => log[i].generation = pending'[r].generation,
           accept'[r].at # "logged",
           accept'[r].at = "admitted" => ~pending'[r].active /\ r \notin LoggedIds,
           accept'[r].at = "active" => pending'[r].active,
           pending'[r].active => pending'[r] = pending[r] \/ r \in LoggedIds
    PROVE  LogInv'
<1>1. LoggedIds' = LoggedIds /\ \A s \in LoggedIds : s \in Requests
    BY EntryFields DEF LoggedIds
<1>2. ASSUME Working', NEW s \in LoggedIds' PROVE pending'[s].active \/ accept'[s].at = "logged"
  <2>0. s \in LoggedIds /\ s \in Requests
    BY <1>1, <1>2
  <2>1. CASE s = r
    <3>1. r \in LoggedIds
      BY <2>0, <2>1, Zenon
    <3>2. pending'[r].active \/ ~Working'
      BY <3>1, Zenon
    <3>3. QED
      BY <1>2, <2>1, <3>2, Zenon
  <2>2. CASE s # r
    BY <1>2, <2>0, <2>2 DEF LogInv
  <2>3. QED
    BY <2>1, <2>2
<1>3. ASSUME NEW i \in DOMAIN log'
      PROVE  /\ accept'[log'[i].id].at = "logged" => log'[i].generation = accept'[log'[i].id].generation
             /\ pending'[log'[i].id].active => log'[i].generation = pending'[log'[i].id].generation
  <2>0. log[i].id \in LoggedIds /\ log[i].id \in Requests
    BY <1>1 DEF LoggedIds
  <2>1. CASE log[i].id = r
    BY <2>0, <2>1
  <2>2. CASE log[i].id # r
    BY <2>0, <2>2 DEF LogInv
  <2>3. QED
    BY <2>1, <2>2
<1>4. ASSUME NEW s \in Requests
      PROVE  /\ accept'[s].at = "admitted" => ~pending'[s].active /\ s \notin LoggedIds'
             /\ accept'[s].at = "logged" => ~pending'[s].active /\ s \in LoggedIds'
             /\ accept'[s].at = "active" => pending'[s].active
             /\ pending'[s].active /\ pending'[s].generation = store'.generation /\ s \notin LoggedIds' =>
                  store'.records[s] # "none"
  <2>1. CASE s = r
    BY <1>1, <2>1 DEF LogInv
  <2>2. CASE s # r
    BY <1>1, <2>2 DEF LogInv
  <2>3. QED
    BY <2>1, <2>2
<1>5. \A i, j \in DOMAIN log' : log'[i].id = log'[j].id => i = j
    BY DEF LogInv
<1>6. QED
    BY <1>2, <1>3, <1>4, <1>5 DEF LogInv

\* What the store's changes mean for the requests in memory.
LEMMA StoreFields ==
    ASSUME store \in StoreType
    PROVE  /\ \A h : [store EXCEPT !.history = h].records = store.records
                    /\ [store EXCEPT !.history = h].generation = store.generation
                    /\ [store EXCEPT !.history = h].phase = store.phase
                    /\ [store EXCEPT !.history = h].status = store.status
                    /\ [store EXCEPT !.history = h].admits = store.admits
                    /\ [store EXCEPT !.history = h].history = h
           /\ \A x : [store EXCEPT !.records = x].records = x
                    /\ [store EXCEPT !.records = x].generation = store.generation
                    /\ [store EXCEPT !.records = x].history = store.history
                    /\ [store EXCEPT !.records = x].phase = store.phase
                    /\ [store EXCEPT !.records = x].status = store.status
                    /\ [store EXCEPT !.records = x].admits = store.admits
           /\ \A x : [store EXCEPT !.phase = x].records = store.records
                    /\ [store EXCEPT !.phase = x].generation = store.generation
                    /\ [store EXCEPT !.phase = x].history = store.history
                    /\ [store EXCEPT !.phase = x].status = store.status
                    /\ [store EXCEPT !.phase = x].admits = store.admits
                    /\ [store EXCEPT !.phase = x].phase = x
BY DEF StoreType

\* A batch record, once written, stays as long as its tenant: only a purge
\* removes records or changes the generation, and no request is active then.
LEMMA RecordsStep ==
    ASSUME TypeOK, DrainInv, LockInv, Next
    PROVE  \/ /\ store'.generation = store.generation
              /\ \A r \in Requests : store'.records[r] = "none" => store.records[r] = "none"
           \/ \E c \in Callers : /\ PurgeBegins(c) \/ PurgeDeletes(c)
                                 /\ \A r \in Requests : ~pending[r].active
<1> DEFINE Kept == /\ store'.generation = store.generation
                   /\ \A r \in Requests : store'.records[r] = "none" => store.records[r] = "none"
<1>0. store \in StoreType
    BY DEF TypeOK
<1>1. store' = store => Kept
    OBVIOUS
<1>2. \A h : store' = [store EXCEPT !.history = h] => Kept
    BY <1>0, StoreFields
<1>3. \A x : store' = [store EXCEPT !.phase = x] => Kept
    BY <1>0, StoreFields
<1>4. \A ids : store' = [store EXCEPT !.records = Recorded(ids)] => Kept
  <2> SUFFICES ASSUME NEW ids, store' = [store EXCEPT !.records = Recorded(ids)] PROVE Kept
    OBVIOUS
  <2>1. store'.records = Recorded(ids) /\ store'.generation = store.generation
    BY <1>0, StoreFields
  <2>2. \A r \in Requests : OutcomeOf(r) # "none"
    BY DEF OutcomeOf
  <2>3. \A r \in Requests : Recorded(ids)[r] = "none" => store.records[r] = "none"
    BY <2>2 DEF Recorded
  <2>4. QED
    BY <2>1, <2>3
<1>5. \A ids : store' = [store EXCEPT !.records = Resolved(ids)] => Kept
  <2> SUFFICES ASSUME NEW ids, store' = [store EXCEPT !.records = Resolved(ids)] PROVE Kept
    OBVIOUS
  <2>1. store'.records = Resolved(ids) /\ store'.generation = store.generation
    BY <1>0, StoreFields
  <2>2. \A r \in Requests : Resolved(ids)[r] = "none" => store.records[r] = "none"
    BY DEF Resolved
  <2>3. QED
    BY <2>1, <2>2
<1> HIDE DEF Kept
<1>6. ASSUME NEW r \in Requests, AcceptBegin(r) \/ AcceptStep(r) PROVE Kept
    BY <1>1, <1>6 DEF AcceptStep, AcceptBegin, AcceptRefused, AppendAccepted, AppendAcceptedFails, Activate, Enqueue
<1>7. ASSUME WorkerStep PROVE Kept
  <2>1. CASE Publish \/ PublishUnanswered
    BY <1>2, <2>1 DEF Publish, PublishUnanswered
  <2>2. CASE SaveMetadata \/ SaveMetadataFails
    BY <1>4, <2>2 DEF SaveMetadata, SaveMetadataFails
  <2>3. CASE FailGroup \/ FailGroupPartly
    BY <1>1, <1>5, <2>3 DEF FailGroup, FailGroupPartly
  <2>4. QED
    BY <1>1, <1>7, <2>1, <2>2, <2>3 DEF WorkerStep, Dispatch, NextGroup, FlushDone, EnterTenant, AppendPrepared,
       AppendPreparedFails, FlushRetries, AppendTerminal, AppendTerminalPartly, AppendTerminalFails
<1>8. ASSUME NEW c \in Callers, Call(c) \/ CallerStep(c) \/ GiveUp(c)
      PROVE  Kept \/ ((PurgeBegins(c) \/ PurgeDeletes(c)) /\ \A r \in Requests : ~pending[r].active)
  <2>1. CASE DirectCommit(c)
    BY <1>1, <1>2, <2>1 DEF DirectCommit
  <2>2. CASE CreateTenant(c)
    BY <1>1, <1>3, <2>2 DEF CreateTenant
  <2>3. CASE PurgeBegins(c) \/ PurgeDeletes(c)
    <3>1. caller[c].at \in {"locked", "purging"} /\ Operation[c] = "purge"
      BY <2>3 DEF PurgeBegins, PurgeDeletes, LockInv
    <3>2. \A r \in Requests : ~pending[r].active
      BY <3>1 DEF DrainInv, Replacing
    <3>3. QED
      BY <2>3, <3>2
  <2>4. QED
    BY <1>1, <1>8, <2>1, <2>2, <2>3 DEF CallerStep, Call, EnterGate, Barrier, BarrierDone, TakeLock, GiveUp
<1>9. Crash \/ WorkerStops \/ Close \/ Closed \/ Restart => Kept
    BY <1>1 DEF Crash, WorkerStops, Close, Closed, Restart
<1>10. Kept \/ \E c \in Callers : /\ PurgeBegins(c) \/ PurgeDeletes(c)
                                  /\ \A r \in Requests : ~pending[r].active
    BY <1>6, <1>7, <1>8, <1>9 DEF Next
<1>11. QED
    BY <1>10 DEF Kept

LEMMA WithPlanFacts ==
    ASSUME NEW l \in Seq(EntryType), NEW ids, NEW plan
    PROVE  /\ DOMAIN WithPlan(l, ids, plan) = DOMAIN l
           /\ \A i \in DOMAIN l :
                /\ WithPlan(l, ids, plan)[i].id = l[i].id
                /\ WithPlan(l, ids, plan)[i].generation = l[i].generation
                /\ WithPlan(l, ids, plan)[i].plan = IF l[i].id \in ids THEN plan ELSE l[i].plan
<1>1. \A e \in EntryType : /\ [e EXCEPT !.plan = plan].id = e.id
                           /\ [e EXCEPT !.plan = plan].generation = e.generation
                           /\ [e EXCEPT !.plan = plan].plan = plan
    BY DEF EntryType
<1>2. \A i \in DOMAIN l : l[i] \in EntryType
    OBVIOUS
<1>3. QED
    BY <1>1, <1>2 DEF WithPlan

\* A plan is all that PREPARED changes in memory.
LEMMA PreparedFields ==
    ASSUME pending \in [Requests -> PendingType], AppendPrepared
    PROVE  \A r \in Requests :
             /\ pending'[r].active = pending[r].active /\ pending'[r].generation = pending[r].generation
             /\ pending'[r].plan = IF r \in Ids(worker.todo) THEN FreshPlan ELSE pending[r].plan
BY DEF AppendPrepared, PendingType

LEMMA LogStep ==
    ASSUME TypeOK, PipeInv, DrainInv, LockInv, DownInv, LogInv, CohortInv, Next
    PROVE  LogInv'
<1>0. /\ log \in Seq(EntryType) /\ accept \in [Requests -> AcceptType] /\ pending \in [Requests -> PendingType]
      /\ worker \in WorkerType /\ worker.group \in Seq(Requests) /\ store \in StoreType
    BY WorkerTypes DEF TypeOK
<1>1. \A i \in DOMAIN log : log[i].id \in Requests
    BY <1>0, EntryFields
<1>2. ASSUME NEW r \in Requests, AcceptBegin(r) \/ AcceptStep(r) PROVE LogInv'
  <2>0. \A s \in Requests \ {r} : accept'[s] = accept[s] /\ pending'[s] = pending[s]
    <3>1. \E e : accept' = [accept EXCEPT ![r] = e] \/ accept' = [accept EXCEPT ![r].at = e]
      BY <1>2, Zenon DEF AcceptStep, AcceptBegin, AcceptRefused, AppendAccepted, AppendAcceptedFails, Activate, Enqueue
    <3>2. \A s \in Requests \ {r} : accept'[s] = accept[s]
      BY <1>0, <3>1, AcceptUpdates
    <3>3. \A s \in Requests \ {r} : pending'[s] = pending[s]
      <4>1. CASE Activate(r)
        BY <1>0, <4>1 DEF Activate
      <4>2. CASE ~Activate(r)
        BY <1>2, <4>2 DEF AcceptStep, AcceptBegin, AcceptRefused, AppendAccepted, AppendAcceptedFails, Enqueue
      <4>3. QED
        BY <4>1, <4>2
    <3>4. QED
      BY <3>2, <3>3
  <2>00. store' = store /\ (Working' => Working)
    BY <1>2 DEF AcceptStep, AcceptBegin, AcceptRefused, AppendAccepted, AppendAcceptedFails, Activate, Enqueue, Working
  <2>1. CASE AcceptBegin(r)
    <3>1. /\ log' = log /\ pending' = pending /\ accept'[r].at = "admitted" /\ ~pending[r].active
          /\ accept[r].at = "idle" /\ Working
      BY <1>0, <2>1, AcceptUpdates DEF AcceptBegin, Working
    <3>2. r \notin LoggedIds
      BY <3>1 DEF LogInv
    <3>3. QED
      BY <1>0, <2>0, <2>00, <3>1, <3>2, LogAwaits
  <2>2. CASE AcceptRefused(r)
    <3>1. /\ log' = log /\ pending' = pending /\ accept'[r].at = "idle" /\ accept[r].at = "admitted"
      BY <1>0, <2>2, AcceptUpdates DEF AcceptRefused
    <3>2. r \notin LoggedIds /\ ~pending[r].active
      BY <3>1 DEF LogInv
    <3>3. QED
      BY <1>0, <2>0, <2>00, <3>1, <3>2, LogAwaits
  <2>3. CASE AppendAccepted(r)
    BY <1>0, <2>00, <2>3, LogGrows DEF AppendAccepted
  <2>4. CASE AppendAcceptedFails(r)
    <3>1. /\ accept[r].at = "admitted" /\ pending' = pending /\ ~Working'
          /\ accept' = [accept EXCEPT ![r].at = "idle"]
      BY <2>4 DEF AppendAcceptedFails, Working
    <3>2. CASE log' = log
      <4>1. r \notin LoggedIds /\ ~pending[r].active /\ accept'[r].at = "idle"
        BY <1>0, <3>1, AcceptUpdates DEF LogInv
      <4>2. QED
        BY <1>0, <2>0, <2>00, <3>1, <3>2, <4>1, LogAwaits
    <3>3. CASE log' = Append(log, [id |-> r, generation |-> accept[r].generation, plan |-> NoPlan])
      BY <1>0, <2>00, <3>1, <3>3, LogGrows
    <3>4. QED
      BY <2>4, <3>2, <3>3 DEF AppendAcceptedFails, LogFails
  <2>5. CASE Activate(r)
    <3>1. /\ log' = log /\ accept'[r].at = "active" /\ accept[r].at = "logged"
          /\ pending'[r].active /\ pending'[r].generation = accept[r].generation
      BY <1>0, <2>5, AcceptUpdates DEF Activate
    <3>2. r \in LoggedIds /\ \A i \in DOMAIN log : log[i].id = r => log[i].generation = pending'[r].generation
      BY <3>1 DEF LogInv
    <3>3. QED
      BY <1>0, <2>0, <2>00, <3>1, <3>2, LogAwaits
  <2>6. CASE Enqueue(r)
    <3>1. log' = log /\ pending' = pending /\ accept'[r].at = "idle" /\ accept[r].at = "active"
      BY <1>0, <2>6, AcceptUpdates DEF Enqueue
    <3>2. pending[r].active /\ \A i \in DOMAIN log : log[i].id = r => log[i].generation = pending'[r].generation
      BY <3>1 DEF LogInv
    <3>3. QED
      BY <1>0, <2>0, <2>00, <3>1, <3>2, LogAwaits
  <2>7. QED
    BY <1>2, <2>1, <2>2, <2>3, <2>4, <2>5, <2>6 DEF AcceptStep
\* the log keeps its requests and memory keeps its requests
<1>3. ASSUME log' = log \/ \E ids, plan : log' = WithPlan(log, ids, plan), accept' = accept, Working' => Working,
             \A r \in Requests : /\ pending'[r].active = pending[r].active
                                 /\ pending'[r].generation = pending[r].generation,
             \A c \in Callers : ~PurgeBegins(c) /\ ~PurgeDeletes(c)
      PROVE  LogInv'
  <2>1. /\ DOMAIN log' = DOMAIN log
        /\ \A i \in DOMAIN log : log'[i].id = log[i].id /\ log'[i].generation = log[i].generation
    BY <1>0, <1>3, WithPlanFacts
  <2>2. /\ store'.generation = store.generation
        /\ \A r \in Requests : store'.records[r] = "none" => store.records[r] = "none"
    BY <1>3, RecordsStep
  <2>3. QED
    BY <1>1, <1>3, <2>1, <2>2, LogKeeps
\* terminal records
<1>4. ASSUME NEW durable \in SUBSET Ids(worker.group), worker.at = "recorded",
             log' = Without(log, durable), accept' = accept, store' = store, Working' => Working,
             \A r \in Requests : pending'[r] = pending[r] \/ (r \in durable /\ ~pending'[r].active)
      PROVE  LogInv'
  <2>1. \A r \in durable : accept[r].at = "idle" /\ (Current(r) => store.records[r] # "none")
    BY <1>4 DEF PipeInv, Held, CohortInv
  <2>2. QED
    BY <1>0, <1>4, <2>1, LogForgets
\* a purge: nothing is active
<1>5. ASSUME NEW c \in Callers, PurgeBegins(c) \/ PurgeDeletes(c) PROVE LogInv'
  <2>1. log' = log /\ accept' = accept /\ pending' = pending /\ run' = run
    BY <1>5 DEF PurgeBegins, PurgeDeletes
  <2>2. \A r \in Requests : ~pending[r].active
    <3>1. caller[c].at \in {"locked", "purging"} /\ Operation[c] = "purge"
      BY <1>5 DEF PurgeBegins, PurgeDeletes, LockInv
    <3>2. QED
      BY <3>1 DEF DrainInv, Replacing
  <2>3. LoggedIds' = LoggedIds /\ Working' = Working
    BY <2>1 DEF LoggedIds, Working
  <2>4. QED
    BY <2>1, <2>2, <2>3 DEF LogInv
<1>6. CASE Crash \/ Closed
  <2>1. /\ \A r \in Requests : ~pending'[r].active /\ accept'[r].at = "idle"
    BY <1>6 DEF Crash, Closed, Forget, Inactive
  <2>2. ~Working' /\ log' = log
    BY <1>6 DEF Crash, Closed, Working
  <2>3. \A i \in DOMAIN log' : log'[i].id \in Requests
    BY <1>1, <2>2
  <2>4. QED
    BY <2>1, <2>2, <2>3 DEF LogInv
<1>7. CASE Restart
  <2>1. /\ log' = log /\ accept' = accept /\ store' = store /\ \A r \in Requests : accept[r].at = "idle"
    BY <1>7 DEF Restart, DownInv
  <2>2. LoggedIds' = LoggedIds /\ \A r \in LoggedIds : r \in Requests
    BY <1>1, <2>1 DEF LoggedIds
  <2>3. \A r \in Requests : pending'[r].active <=> r \in LoggedIds
    BY <1>7 DEF Restart, Inactive
  <2>4. ASSUME NEW i \in DOMAIN log PROVE pending'[log[i].id].generation = log[i].generation
    <3> DEFINE k == CHOOSE k \in DOMAIN log : log[k].id = log[i].id
    <3>1. k \in DOMAIN log /\ log[k].id = log[i].id
      OBVIOUS
    <3>2. k = i
      BY <3>1 DEF LogInv
    <3>3. log[i].id \in LoggedIds /\ log[i].id \in Requests
      BY <1>1 DEF LoggedIds
    <3>4. pending'[log[i].id].generation = log[k].generation
      BY <1>7, <3>3 DEF Restart
    <3>5. QED
      BY <3>2, <3>4
  <2>5. QED
    BY <1>1, <2>1, <2>2, <2>3, <2>4 DEF LogInv
<1>8. ASSUME WorkerStep \/ WorkerStops, \A c \in Callers : ~PurgeBegins(c) /\ ~PurgeDeletes(c) PROVE LogInv'
  <2>0. accept' = accept /\ (Working' => Working)
    BY <1>8 DEF WorkerStep, Dispatch, NextGroup, FlushDone, EnterTenant, AppendPrepared,
       AppendPreparedFails, FlushRetries, Publish, PublishUnanswered, SaveMetadata, SaveMetadataFails,
       FailGroup, FailGroupPartly, AppendTerminal, AppendTerminalPartly, AppendTerminalFails, WorkerStops, Fatal,
       Working
  <2>1. CASE AppendPrepared
    <3>1. log' = WithPlan(log, Ids(worker.todo), FreshPlan)
      BY <2>1 DEF AppendPrepared
    <3>2. QED
      BY <1>0, <1>3, <1>8, <2>0, <2>1, <3>1, PreparedFields
  <2>2. CASE AppendPreparedFails
    <3>1. (log' = log \/ log' = WithPlan(log, Ids(worker.todo), FreshPlan)) /\ pending' = pending
      BY <2>2 DEF AppendPreparedFails, LogFails
    <3>2. QED
      BY <1>3, <1>8, <2>0, <3>1
  <2>3. CASE AppendTerminal
    <3>1. /\ worker.at = "recorded" /\ log' = Without(log, Ids(worker.group)) /\ store' = store
          /\ pending' = Completed(Ids(worker.group))
      BY <2>3 DEF AppendTerminal
    <3>2. \A r \in Requests : pending'[r] = pending[r] \/ (r \in Ids(worker.group) /\ ~pending'[r].active)
      BY <3>1 DEF Completed, Inactive
    <3>3. QED
      BY <1>4, <2>0, <3>1, <3>2
  <2>4. CASE AppendTerminalPartly
    <3>1. PICK durable \in SUBSET Ids(worker.group) :
            log' = Without(log, durable) /\ pending' = Completed(Ids(Answered(durable)))
      BY <2>4 DEF AppendTerminalPartly
    <3>2. worker.at = "recorded" /\ store' = store
      BY <2>4 DEF AppendTerminalPartly
    <3>3. Ids(Answered(durable)) \subseteq durable
      <4>1. PICK n \in 0..Len(worker.group) :
              /\ Answered(durable) = SubSeq(worker.group, 1, n)
              /\ \A i \in 1..n : worker.group[i] \in durable
        BY <1>0, AnsweredFacts
      <4>2. /\ \A i \in 1..n : SubSeq(worker.group, 1, n)[i] = worker.group[i]
            /\ SubSeq(worker.group, 1, n) \in Seq(Requests) /\ Len(SubSeq(worker.group, 1, n)) = n
        BY <1>0, IdsOfParts
      <4> DEFINE d == SubSeq(worker.group, 1, n)
      <4> HIDE DEF d
      <4>3. \A i \in DOMAIN d : d[i] \in durable
        BY <4>1, <4>2 DEF d
      <4>4. QED
        BY <4>1, <4>3 DEF Ids, d
    <3>4. \A r \in Requests : pending'[r] = pending[r] \/ (r \in durable /\ ~pending'[r].active)
      BY <3>1, <3>3 DEF Completed, Inactive
    <3>5. QED
      BY <1>4, <2>0, <3>1, <3>2, <3>4
  <2>5. CASE AppendTerminalFails
    <3>1. worker.at = "recorded" /\ store' = store /\ pending' = pending
      BY <2>5 DEF AppendTerminalFails, Fatal
    <3>2. CASE log' = log
      BY <1>3, <1>8, <2>0, <3>1, <3>2
    <3>3. CASE log' # log
      <4>1. PICK durable \in SUBSET Ids(worker.group) : log' = Without(log, durable)
        BY <2>5, <3>3 DEF AppendTerminalFails, LogFails
      <4>2. QED
        BY <1>4, <2>0, <3>1, <4>1
    <3>4. QED
      BY <3>2, <3>3
  <2>6. CASE log' = log /\ pending' = pending
    BY <1>3, <1>8, <2>0, <2>6
  <2>7. QED
    BY <1>8, <2>1, <2>2, <2>3, <2>4, <2>5, <2>6 DEF WorkerStep, Dispatch, NextGroup, FlushDone, EnterTenant,
       FlushRetries, Publish, PublishUnanswered, SaveMetadata, SaveMetadataFails,
       FailGroup, FailGroupPartly, WorkerStops
<1>9. ASSUME NEW d \in Callers, Call(d) \/ CallerStep(d) \/ GiveUp(d),
             \A c \in Callers : ~PurgeBegins(c) /\ ~PurgeDeletes(c)
      PROVE  LogInv'
  <2>1. log' = log /\ accept' = accept /\ pending' = pending /\ run' = run
    BY <1>9 DEF CallerStep, Call, EnterGate, Barrier, BarrierDone, TakeLock, DirectCommit, CreateTenant, GiveUp
  <2>2. QED
    BY <1>3, <1>9, <2>1 DEF Working
<1>10. ASSUME Close, \A c \in Callers : ~PurgeBegins(c) /\ ~PurgeDeletes(c) PROVE LogInv'
  <2>1. log' = log /\ accept' = accept /\ pending' = pending /\ Working
    BY <1>10 DEF Close, volatile, Working
  <2>2. QED
    BY <1>3, <1>10, <2>1
<1>11. QED
    BY <1>2, <1>5, <1>6, <1>7, <1>8, <1>9, <1>10 DEF Next

-----------------------------------------------------------------------------
(* The group of the worker.                                                *)

\* Nobody else touches what the worker's group looks at: a purge needs the
\* requests to be gone, and an Accept call is about another request.
LEMMA CohortKeeps ==
    ASSUME TypeOK, PipeInv, CohortInv, worker' = worker,
           \A r \in Ids(worker.group) : pending'[r].generation = pending[r].generation,
           \/ store'.records = store.records /\ store'.generation = store.generation
           \/ \A r \in Requests : ~pending[r].active
    PROVE  CohortInv'
<1>1. CASE worker.group = <<>>
  <2>1. worker.at \in {"idle", "group"} /\ Ids(<<>>) = {}
    BY <1>1 DEF PipeInv, Ids
  <2>2. QED
    BY <1>1, <2>1 DEF CohortInv
<1>2. CASE worker.group # <<>>
  <2>0. worker.group \in Seq(Requests)
    BY WorkerTypes DEF TypeOK
  <2>1. worker.group[1] \in Ids(worker.group) /\ worker.group[1] \in Requests
    BY <1>2, <2>0 DEF Ids
  <2>2. pending[worker.group[1]].active
    BY <2>1 DEF PipeInv, Held
  <2>3. store'.records = store.records /\ store'.generation = store.generation
    BY <2>1, <2>2
  <2>4. \A r \in Ids(worker.group) : Current(r)' = Current(r)
    BY <2>3 DEF Current
  <2>5. \A r, s \in Ids(worker'.group) : pending'[r].generation = pending'[s].generation
    BY DEF CohortInv
  <2>6. worker'.at \in {"planning", "planned", "published"} =>
          /\ Ids(worker'.commits) \subseteq Ids(worker'.todo)
          /\ Ids(worker'.todo) \subseteq Ids(worker'.group)
          /\ \A r \in Ids(worker'.group) \ Ids(worker'.todo) : store'.records[r] # "none"
    BY <2>3 DEF CohortInv
  <2>7. worker'.at \in {"planning", "planned"} =>
          \A r \in Ids(worker'.todo) : store'.records[r] = "none" /\ Current(r)'
    BY <2>3, <2>4 DEF CohortInv
  <2>8. worker'.at = "failing" /\ worker'.fenced => \A r \in Ids(worker'.group) : ~Current(r)'
    BY <2>4 DEF CohortInv
  <2>9. worker'.at = "recorded" => \A r \in Ids(worker'.group) : Current(r)' => store'.records[r] # "none"
    BY <2>3, <2>4 DEF CohortInv
  <2>10. QED
    BY <2>5, <2>6, <2>7, <2>8, <2>9 DEF CohortInv
<1>3. QED
    BY <1>1, <1>2

LEMMA CohortStep ==
    ASSUME TypeOK, PipeInv, DrainInv, LockInv, DownInv, LogInv, CohortInv, Next
    PROVE  CohortInv'
<1>0. /\ log \in Seq(EntryType) /\ accept \in [Requests -> AcceptType] /\ pending \in [Requests -> PendingType]
      /\ worker \in WorkerType /\ worker.group \in Seq(Requests) /\ worker.rest \in Seq(Requests) /\ store \in StoreType
    BY WorkerTypes DEF TypeOK
<1>00. Ids(worker.group) \subseteq Requests
    BY <1>0 DEF Ids
<1>1. ASSUME NEW r \in Requests, AcceptBegin(r) \/ AcceptStep(r) PROVE CohortInv'
  <2>1. worker' = worker /\ store' = store
    BY <1>1 DEF AcceptStep, AcceptBegin, AcceptRefused, AppendAccepted, AppendAcceptedFails, Activate, Enqueue
  <2>2. CASE Activate(r)
    <3>1. r \notin Ids(worker.group)
      BY <2>2 DEF Activate, PipeInv, Held
    <3>2. \A s \in Ids(worker.group) : pending'[s].generation = pending[s].generation
      BY <1>0, <1>00, <2>2, <3>1 DEF Activate
    <3>3. QED
      BY <2>1, <3>2, CohortKeeps
  <2>3. CASE ~Activate(r)
    <3>1. pending' = pending
      BY <1>1, <2>3 DEF AcceptStep, AcceptBegin, AcceptRefused, AppendAccepted, AppendAcceptedFails, Enqueue
    <3>2. QED
      BY <2>1, <3>1, CohortKeeps
  <2>4. QED
    BY <2>2, <2>3
<1>2. ASSUME NEW c \in Callers, Call(c) \/ CallerStep(c) \/ GiveUp(c) PROVE CohortInv'
  <2>1. worker' = worker /\ pending' = pending
    BY <1>2 DEF CallerStep, Call, EnterGate, Barrier, BarrierDone, TakeLock, DirectCommit, PurgeBegins,
       PurgeDeletes, CreateTenant, GiveUp
  <2>2. \/ store'.records = store.records /\ store'.generation = store.generation
        \/ \A r \in Requests : ~pending[r].active
    <3>1. CASE DirectCommit(c)
      BY <1>0, <3>1, StoreFields DEF DirectCommit
    <3>2. CASE CreateTenant(c)
      BY <1>0, <3>2, StoreFields DEF CreateTenant
    <3>3. CASE PurgeBegins(c) \/ PurgeDeletes(c)
      <4>1. caller[c].at \in {"locked", "purging"} /\ Operation[c] = "purge"
        BY <3>3 DEF PurgeBegins, PurgeDeletes, LockInv
      <4>2. QED
        BY <4>1 DEF DrainInv, Replacing
    <3>4. QED
      BY <1>2, <3>1, <3>2, <3>3 DEF CallerStep, Call, EnterGate, Barrier, BarrierDone, TakeLock, GiveUp
  <2>3. QED
    BY <2>1, <2>2, CohortKeeps
\* no group
<1>3. ASSUME worker'.group = <<>>, worker'.at \in {"idle", "group"} PROVE CohortInv'
  <2>1. Ids(<<>>) = {}
    BY DEF Ids
  <2>2. QED
    BY <1>3, <2>1 DEF CohortInv
<1>4. CASE worker' = IdleWorker
    BY <1>3, <1>4, IdleFields
<1>5. CASE Dispatch \/ AppendTerminal
    BY <1>0, <1>3, <1>5, DispatchFields, TerminalFields
<1>6. CASE NextGroup
  <2>1. PICK n \in 1..Len(worker.rest) :
          /\ worker'.at \in {"entering", "failing"} /\ worker'.fenced = FALSE
          /\ worker'.group = SubSeq(worker.rest, 1, n)
          /\ \A i \in 1..n : SameCohort(worker.rest[1], worker.rest[i])
    BY <1>0, <1>6, NextGroupFields
  <2>2. /\ SubSeq(worker.rest, 1, n) \in Seq(Requests) /\ Len(SubSeq(worker.rest, 1, n)) = n
        /\ \A i \in 1..n : SubSeq(worker.rest, 1, n)[i] = worker.rest[i]
    <3>1. n \in 0..Len(worker.rest)
      BY <1>0
    <3>2. QED
      BY <1>0, <3>1, IdsOfParts
  <2> DEFINE s == SubSeq(worker.rest, 1, n)
  <2> HIDE DEF s
  <2>3. \A x \in Ids(s) : pending[x].generation = pending[worker.rest[1]].generation
    <3>1. DOMAIN s = 1..n /\ \A i \in 1..n : s[i] = worker.rest[i]
      BY <2>2 DEF s
    <3>2. QED
      BY <2>1, <3>1 DEF Ids, SameCohort
  <2>4. pending' = pending
    BY <1>6 DEF NextGroup
  <2>5. worker'.group = s
    BY <2>1 DEF s
  <2>6. QED
    BY <2>1, <2>3, <2>4, <2>5 DEF CohortInv
<1>7. CASE EnterTenant
  <2>0. store' = store /\ pending' = pending
    BY <1>7 DEF EnterTenant
  <2>1. worker.group # <<>>
    BY <1>0, <1>7, EnterFields DEF PipeInv
  <2>2. worker.group[1] \in Ids(worker.group)
    BY <1>0, <2>1 DEF Ids
  <2>3. \A r \in Ids(worker.group) : Fenced(worker.group[1]) <=> ~Current(r)
    BY <2>2 DEF CohortInv, Fenced, Current
  <2>4. \A r \in Ids(worker.group) : Current(r)' <=> Current(r)
    BY <2>0 DEF Current
  <2>5. /\ Ids(Candidates) = {r \in Ids(worker.group) : store.records[r] = "none"}
        /\ Ids(FreshCommits) \subseteq Ids(Candidates)
    BY <1>0, CandidatesFacts
  <2>6. Ids(CommitsOfCohort) \subseteq Ids(Candidates)
    <3>1. Ids(<<>>) = {}
      BY DEF Ids
    <3>2. CommitsOfCohort \in {FreshCommits, <<>>}
      BY DEF CommitsOfCohort
    <3>3. QED
      BY <2>5, <3>1, <3>2
  <2>7. CASE worker'.at = "failing" /\ worker'.fenced = Fenced(worker.group[1]) /\ worker'.group = worker.group
    BY <2>0, <2>3, <2>4, <2>7 DEF CohortInv
  <2>8. CASE /\ worker'.at \in {"planned", "planning"} /\ worker'.group = worker.group
             /\ worker'.todo = Candidates /\ worker'.commits \in {CommitsOfCohort, FreshCommits}
             /\ ~Fenced(worker.group[1])
    <3>1. \A r, s \in Ids(worker'.group) : pending'[r].generation = pending'[s].generation
      BY <2>0, <2>8 DEF CohortInv
    <3>2. /\ Ids(worker'.commits) \subseteq Ids(worker'.todo)
          /\ Ids(worker'.todo) \subseteq Ids(worker'.group)
          /\ \A r \in Ids(worker'.group) \ Ids(worker'.todo) : store'.records[r] # "none"
      BY <2>0, <2>5, <2>6, <2>8
    <3>3. \A r \in Ids(worker'.todo) : store'.records[r] = "none" /\ Current(r)'
      BY <2>0, <2>3, <2>4, <2>5, <2>8
    <3>4. QED
      BY <2>8, <3>1, <3>2, <3>3 DEF CohortInv
  <2>9. QED
    BY <1>0, <1>4, <1>7, <2>7, <2>8, EnterFields
<1>8. CASE AppendPrepared \/ Publish
  <2>1. /\ worker'.group = worker.group /\ worker'.todo = worker.todo /\ worker'.commits = worker.commits
        /\ worker.at \in {"planning", "planned"} /\ worker'.at \in {"planned", "published"}
    BY <1>0, <1>8, OnwardFields
  <2>2. \A r \in Requests : pending'[r].generation = pending[r].generation
    BY <1>0, <1>8, PreparedFields DEF Publish
  <2>3. store'.records = store.records /\ store'.generation = store.generation
    <3>1. CASE AppendPrepared
      BY <3>1 DEF AppendPrepared
    <3>2. CASE Publish
      BY <1>0, <3>2, StoreFields DEF Publish
    <3>3. QED
      BY <1>8, <3>1, <3>2
  <2>4. \A r \in Requests : Current(r)' <=> Current(r)
    BY <2>2, <2>3 DEF Current
  <2>5. \A r, s \in Ids(worker'.group) : pending'[r].generation = pending'[s].generation
    BY <1>00, <2>1, <2>2 DEF CohortInv
  <2>6. /\ Ids(worker'.commits) \subseteq Ids(worker'.todo)
        /\ Ids(worker'.todo) \subseteq Ids(worker'.group)
        /\ \A r \in Ids(worker'.group) \ Ids(worker'.todo) : store'.records[r] # "none"
        /\ \A r \in Ids(worker'.todo) : store'.records[r] = "none" /\ Current(r)
    BY <2>1, <2>3 DEF CohortInv
  <2>7. \A r \in Ids(worker'.todo) : store'.records[r] = "none" /\ Current(r)'
    BY <1>00, <2>1, <2>4, <2>6
  <2>8. QED
    BY <2>1, <2>5, <2>6, <2>7 DEF CohortInv
<1>9. CASE SaveMetadata
  <2>1. /\ worker'.group = worker.group /\ worker'.todo = worker.todo
        /\ worker.at = "published" /\ worker'.at = "recorded"
    BY <1>0, <1>9, OnwardFields
  <2>2. store'.records = Recorded(Ids(worker.todo)) /\ pending' = pending
    BY <1>0, <1>9, StoreFields DEF SaveMetadata
  <2>3. \A r \in Requests : OutcomeOf(r) # "none"
    BY DEF OutcomeOf
  <2>4. \A r \in Ids(worker.group) : store'.records[r] # "none"
    BY <1>00, <2>1, <2>2, <2>3 DEF Recorded, CohortInv
  <2>5. QED
    BY <2>1, <2>2, <2>4 DEF CohortInv
<1>10. CASE FailGroup
  <2>1. worker'.group = worker.group /\ worker.at = "failing" /\ worker'.at = "recorded"
    BY <1>0, <1>10, OnwardFields
  <2>2. pending' = pending
    BY <1>10 DEF FailGroup
  <2>3. CASE worker.fenced
    <3>1. store' = store
      BY <1>10, <2>3 DEF FailGroup
    <3>2. \A r \in Ids(worker.group) : ~Current(r)'
      BY <2>1, <2>2, <2>3, <3>1 DEF CohortInv, Current
    <3>3. QED
      BY <2>1, <2>2, <3>2 DEF CohortInv
  <2>4. CASE ~worker.fenced
    <3>1. store'.records = Resolved(Ids(worker.group))
      BY <1>0, <1>10, <2>4, StoreFields DEF FailGroup
    <3>2. \A r \in Ids(worker.group) : store'.records[r] # "none"
      BY <1>00, <3>1 DEF Resolved
    <3>3. QED
      BY <2>1, <2>2, <3>2 DEF CohortInv
  <2>5. QED
    BY <2>3, <2>4
<1>11. CASE Close
    BY <1>11, CohortKeeps DEF Close, volatile
<1>12. CASE Restart
  <2>1. worker' = worker /\ worker.group = <<>> /\ worker.at = "idle"
    BY <1>12, IdleFields DEF Restart, DownInv
  <2>2. QED
    BY <1>3, <2>1
<1>13. CASE Crash \/ Closed
    BY <1>4, <1>13 DEF Crash, Closed, Forget
<1>14. CASE FlushDone \/ AppendPreparedFails \/ FlushRetries \/ PublishUnanswered \/ SaveMetadataFails
             \/ FailGroupPartly \/ AppendTerminalPartly \/ AppendTerminalFails \/ WorkerStops
    BY <1>4, <1>14, IdlingFields
<1>15. QED
    BY <1>1, <1>2, <1>5, <1>6, <1>7, <1>8, <1>9, <1>10, <1>11, <1>12, <1>13, <1>14 DEF Next, WorkerStep

-----------------------------------------------------------------------------
(* The invariants and what follows from them.                              *)

LEMMA BaseInit ==
    ASSUME Init
    PROVE  BaseInv
<1> USE DEF Init
<1>1. TypeOK
  <2>1. <<>> \in Seq(Requests) /\ <<>> \in Seq(EntryType) /\ <<>> \in Seq(Requests \union Callers)
    OBVIOUS
  <2>2. store \in StoreType
    <3>1. [r \in Requests |-> "none"] \in [Requests -> Outcomes]
      BY DEF Outcomes
    <3>2. /\ store = [history |-> <<>>, records |-> [r \in Requests |-> "none"], generation |-> 1,
                      phase |-> "cleared", status |-> "active", admits |-> store.admits]
          /\ store.admits \in BOOLEAN
      OBVIOUS
    <3> DEFINE none == [r \in Requests |-> "none"]
    <3> HIDE DEF none
    <3>3. store = [history |-> <<>>, records |-> none, generation |-> 1,
                   phase |-> "cleared", status |-> "active", admits |-> store.admits]
      BY <3>2 DEF none
    <3>4. none \in [Requests -> Outcomes]
      BY <3>1 DEF none
    <3> HIDE DEF Init
    <3>5. [history |-> <<>>, records |-> none, generation |-> 1,
           phase |-> "cleared", status |-> "active", admits |-> store.admits] \in StoreType
      BY <2>1, <3>2, <3>4 DEF StoreType
    <3>6. QED
      BY <3>3, <3>5
  <2>3. gate \in GateType
    BY DEF OpenGate, GateType
  <2>4. accept \in [Requests -> AcceptType] /\ pending \in [Requests -> PendingType]
    BY NoPlanType DEF AcceptType
  <2>5. worker \in WorkerType
    BY <2>1 DEF WorkerType, IdleWorker
  <2>6. caller \in [Callers -> CallerType]
    BY DEF CallerType, NotCalled
  <2>7. left \in LeftType
    BY BoundsAssumption DEF LeftType
  <2>8. QED
    BY <2>1, <2>2, <2>3, <2>4, <2>5, <2>6, <2>7 DEF TypeOK
<1>2. Ids(<<>>) = {} /\ Distinct(<<>>) /\ LoggedIds = {}
    BY DEF Ids, Distinct, LoggedIds
<1>3. Pipe = <<>>
    BY IdleFields DEF Pipe
<1>4. /\ \A r \in Requests : accept[r].at = "idle" /\ ~pending[r].active
      /\ \A c \in Callers : caller[c].at = "idle"
    BY DEF Inactive, NotCalled
<1>5. PipeInv
    BY <1>2, <1>3, <1>4, IdleFields DEF PipeInv
<1>6. GateInv /\ DrainInv
    BY <1>4 DEF GateInv, DrainInv, OpenGate, Pausing, Replacing
<1>7. LockInv
    BY <1>4, IdleFields, NamesAssumption DEF LockInv, Nobody, TheWorker
<1>8. DownInv
    BY DEF DownInv
<1>9. LogInv
    BY <1>2, <1>4 DEF LogInv
<1>10. CohortInv
    BY <1>2, IdleFields DEF CohortInv
<1>11. QED
    BY <1>1, <1>5, <1>6, <1>7, <1>8, <1>9, <1>10 DEF BaseInv

LEMMA BaseStep ==
    ASSUME BaseInv, [Next]_vars
    PROVE  BaseInv'
<1>1. CASE Next
    BY <1>1, TypeStep, PipeStep, GateStep, DrainStep, LockStep, DownStep, LogStep, CohortStep DEF BaseInv
<1>2. CASE UNCHANGED vars
    BY <1>2 DEF vars, BaseInv, TypeOK, PipeInv, Pipe, Held, Working, GateInv, Pausing, Replacing, DrainInv,
       LockInv, DownInv, LogInv, LoggedIds, CohortInv, Current
<1>3. QED
    BY <1>1, <1>2

\* The base layer of the invariant: where every acknowledged request is, who
\* holds the gate and the lock, and what the log and the worker's group say.
THEOREM BaseHolds == Spec => []BaseInv
<1>1. QED
    BY BaseInit, BaseStep, PTL DEF Spec

\* Every variable keeps its type, and the admission gate never has a writer
\* beside readers: no operation that pauses a tenant's ingestion runs beside
\* an Accept call of that tenant.
THEOREM TypeCorrect == Spec => []TypeOK
<1>1. BaseInv => TypeOK
    BY DEF BaseInv
<1>2. QED
    BY <1>1, BaseHolds, PTL

\* The barrier holds: an operation past it finds an empty log, because what
\* is durable is active, nothing is active, and no Accept call is under way.
THEOREM DrainBarrier == Spec => []BarrierDrains
<1>1. BaseInv => BarrierDrains
  <2> SUFFICES ASSUME BaseInv, NEW c \in Callers, caller[c].at = "drained", Operation[c] # "disable",
                      run # "fatal"
               PROVE  log = <<>>
    BY DEF BarrierDrains
  <2>1. Pausing(c) /\ TypeOK
    BY DEF Pausing, BaseInv
  <2>2. gate.writer = c /\ gate.writer # Nobody
    BY <2>1, NamesAssumption DEF BaseInv, GateInv
  <2>3. gate.readers = {}
    BY <2>1, <2>2 DEF TypeOK, GateType
  <2>4. \A r \in Requests : accept[r].at = "idle" /\ ~pending[r].active
    BY <2>1, <2>3 DEF BaseInv, GateInv, DrainInv
  <2>5. Working
    BY <2>1 DEF BaseInv, TypeOK, DownInv, NotCalled, Working
  <2>6. LoggedIds = {}
    <3>1. \A i \in DOMAIN log : log[i].id \in Requests
      BY <2>1, EntryFields DEF TypeOK
    <3>2. QED
      BY <2>4, <2>5, <3>1 DEF BaseInv, LogInv, LoggedIds
  <2>7. DOMAIN log = {}
    BY <2>6 DEF LoggedIds
  <2>8. QED
    BY <2>1, <2>7 DEF TypeOK
<1>2. QED
    BY <1>1, BaseHolds, PTL

LEMMA WithoutKeeps ==
    ASSUME NEW l \in Seq(EntryType), NEW ids, NEW i \in DOMAIN l, l[i].id \notin ids
    PROVE  l[i].id \in {Without(l, ids)[k].id : k \in DOMAIN Without(l, ids)}
<1>1. PICK k \in DOMAIN Without(l, ids) : Without(l, ids)[k] = l[i]
    BY WithoutFacts
<1>2. QED
    BY <1>1

LEMMA FinishedStep ==
    ASSUME BaseInv, Next, NEW i \in DOMAIN log, log[i].id \notin LoggedIds', log[i].generation = store.generation
    PROVE  store.records[log[i].id] # "none"
<1> DEFINE r == log[i].id
<1>0. log \in Seq(EntryType) /\ i \in DOMAIN log /\ worker \in WorkerType
    BY DEF BaseInv, TypeOK
<1>1. ASSUME NEW durable \in SUBSET Ids(worker.group), log' = Without(log, durable), worker.at = "recorded"
      PROVE  store.records[r] # "none"
  <2>1. r \in durable
    <3> SUFFICES ASSUME r \notin durable PROVE FALSE
      OBVIOUS
    <3>1. log[i].id \in {Without(log, durable)[k].id : k \in DOMAIN Without(log, durable)}
      BY <1>0, WithoutKeeps
    <3>2. QED
      BY <1>1, <3>1 DEF LoggedIds
  <2>2. r \in Ids(worker.group) /\ pending[r].active
    BY <2>1 DEF BaseInv, PipeInv, Held
  <2>3. Current(r)
    BY <2>2 DEF BaseInv, LogInv, Current
  <2>4. QED
    BY <1>1, <2>2, <2>3 DEF BaseInv, CohortInv
<1>2. CASE \E durable \in SUBSET Ids(worker.group) : log' = Without(log, durable) /\ worker.at = "recorded"
    BY <1>1, <1>2
<1>3. CASE DOMAIN log \subseteq DOMAIN log' /\ \A k \in DOMAIN log : log'[k].id = log[k].id
    BY <1>3 DEF LoggedIds
<1>4. \/ \E durable \in SUBSET Ids(worker.group) : log' = Without(log, durable) /\ worker.at = "recorded"
      \/ log' = log \/ (\E e : log' = Append(log, e)) \/ (\E ids, plan : log' = WithPlan(log, ids, plan))
  <2>1. ASSUME NEW s \in Requests, AcceptBegin(s) \/ AcceptStep(s) PROVE log' = log \/ \E e : log' = Append(log, e)
    BY <2>1, Zenon DEF AcceptStep, AcceptBegin, AcceptRefused, AppendAccepted, AppendAcceptedFails, Activate, Enqueue,
       LogFails
  <2>2. ASSUME NEW c \in Callers, Call(c) \/ CallerStep(c) \/ GiveUp(c) PROVE log' = log
    BY <2>2 DEF CallerStep, Call, EnterGate, Barrier, BarrierDone, TakeLock, DirectCommit, PurgeBegins,
       PurgeDeletes, CreateTenant, GiveUp
  <2>3. Crash \/ WorkerStops \/ Close \/ Closed \/ Restart => log' = log
    BY DEF Crash, WorkerStops, Close, Closed, Restart
  <2>4. CASE AppendPrepared \/ AppendPreparedFails
    BY <2>4 DEF AppendPrepared, AppendPreparedFails, LogFails
  <2>5. CASE AppendTerminal \/ AppendTerminalPartly \/ AppendTerminalFails
    BY <2>5 DEF AppendTerminal, AppendTerminalPartly, AppendTerminalFails, LogFails
  <2>6. ASSUME Dispatch \/ NextGroup \/ FlushDone \/ EnterTenant \/ FlushRetries \/ Publish \/ PublishUnanswered
                 \/ SaveMetadata \/ SaveMetadataFails \/ FailGroup \/ FailGroupPartly
        PROVE  log' = log
    BY <2>6 DEF Dispatch, NextGroup, FlushDone, EnterTenant, FlushRetries, Publish, PublishUnanswered, SaveMetadata,
       SaveMetadataFails, FailGroup, FailGroupPartly
  <2>7. QED
    BY <2>1, <2>2, <2>3, <2>4, <2>5, <2>6 DEF Next, WorkerStep
<1>5. (\E e : log' = Append(log, e)) => DOMAIN log \subseteq DOMAIN log' /\ \A k \in DOMAIN log : log'[k].id = log[k].id
    BY <1>0
<1>6. (\E ids, plan : log' = WithPlan(log, ids, plan)) =>
        DOMAIN log \subseteq DOMAIN log' /\ \A k \in DOMAIN log : log'[k].id = log[k].id
    BY <1>0, WithPlanFacts
<1>7. QED
    BY <1>2, <1>3, <1>4, <1>5, <1>6

\* A request leaves the durable log only with a batch record, unless its
\* tenant was purged: whoever asks for the outcome of a finished request is
\* answered from a record and not from memory.
THEOREM NothingEndsUnrecorded == Spec => FinishedHasOutcome
<1> DEFINE A == \A i \in DOMAIN log :
                  (log[i].id \notin {log'[k].id : k \in DOMAIN log'} /\ log[i].generation = store.generation)
                  => store.records[log[i].id] # "none"
<1>1. BaseInv /\ Next => A
    BY FinishedStep DEF LoggedIds
<1>2. BaseInv /\ [Next]_vars => [A]_vars
    BY <1>1
<1>3. QED
    BY <1>2, BaseHolds, PTL DEF Spec, FinishedHasOutcome

\* A request is published only while the tenant it was accepted for exists:
\* its record in the log carries the generation of the tenant.
THEOREM NothingCrossesAPurge == Spec => GenerationsStayApart
<1> DEFINE A == \A r \in Requests :
                  (r \in Ids(store'.history) /\ r \notin Ids(store.history))
                  => \E i \in DOMAIN log : log[i].id = r /\ log[i].generation = store.generation
<1>1. ASSUME BaseInv, Next PROVE A
  <2> SUFFICES ASSUME NEW r \in Requests, r \in Ids(store'.history), r \notin Ids(store.history)
               PROVE  \E i \in DOMAIN log : log[i].id = r /\ log[i].generation = store.generation
    OBVIOUS
  <2>0. store \in StoreType /\ worker \in WorkerType /\ store.history \in Seq(Requests \union Callers)
        /\ worker.commits \in Seq(Requests)
    BY <1>1, StoreTypes, WorkerTypes DEF BaseInv, TypeOK
  <2>1. worker.at = "planned" /\ r \in Ids(worker.commits)
    <3>1. CASE Publish \/ PublishUnanswered
      <4>1. worker.at = "planned" /\ store'.history = store.history \o worker.commits
        BY <2>0, <3>1, StoreFields DEF Publish, PublishUnanswered
      <4>2. worker.commits \in Seq(Requests \union Callers)
        BY <2>0
      <4>3. Ids(store'.history) = Ids(store.history) \union Ids(worker.commits)
        BY <2>0, <4>1, <4>2, IdsOfConcat
      <4>4. QED
        BY <4>1, <4>3
    <3>2. ASSUME NEW c \in Callers, Call(c) \/ CallerStep(c) \/ GiveUp(c) PROVE FALSE
      <4>1. CASE DirectCommit(c)
        <5>1. store'.history = Append(store.history, c) \/ store' = store
          BY <2>0, <4>1, StoreFields DEF DirectCommit
        <5>2. r # c
          BY NamesAssumption
        <5>3. \A x \in Ids(Append(store.history, c)) : x \in Ids(store.history) \/ x = c
          BY <2>0 DEF Ids
        <5>4. QED
          BY <5>1, <5>2, <5>3
      <4>2. CASE PurgeBegins(c)
        BY <2>0, <4>2 DEF PurgeBegins, StoreType
      <4>3. CASE PurgeDeletes(c)
        <5>1. store'.history = <<>>
          BY <2>0, <4>3 DEF PurgeDeletes, StoreType
        <5>2. QED
          BY <5>1 DEF Ids
      <4>4. CASE CreateTenant(c)
        BY <2>0, <4>4, StoreFields DEF CreateTenant
      <4>5. QED
        BY <3>2, <4>1, <4>2, <4>3, <4>4 DEF CallerStep, Call, EnterGate, Barrier, BarrierDone, TakeLock, GiveUp
    <3>3. CASE SaveMetadata \/ SaveMetadataFails \/ FailGroup \/ FailGroupPartly
      <4>1. store' = store \/ \E x : store' = [store EXCEPT !.records = x]
        BY <3>3, Zenon DEF SaveMetadata, SaveMetadataFails, FailGroup, FailGroupPartly
      <4>2. \A x : [store EXCEPT !.records = x].history = store.history
        BY <2>0, StoreFields
      <4>3. QED
        BY <4>1, <4>2
    <3>4. store' # store
      OBVIOUS
    <3>5. ASSUME NEW s \in Requests PROVE ~AcceptBegin(s) /\ ~AcceptStep(s)
      BY <3>4 DEF AcceptStep, AcceptBegin, AcceptRefused, AppendAccepted, AppendAcceptedFails, Activate, Enqueue
    <3>6. ~Crash /\ ~WorkerStops /\ ~Close /\ ~Closed /\ ~Restart
      BY <3>4 DEF Crash, WorkerStops, Close, Closed, Restart
    <3>7. ~Dispatch /\ ~NextGroup /\ ~FlushDone /\ ~EnterTenant /\ ~AppendPrepared /\ ~AppendPreparedFails
          /\ ~FlushRetries /\ ~AppendTerminal /\ ~AppendTerminalPartly /\ ~AppendTerminalFails
      BY <3>4 DEF Dispatch, NextGroup, FlushDone, EnterTenant, AppendPrepared,
         AppendPreparedFails, FlushRetries, AppendTerminal, AppendTerminalPartly, AppendTerminalFails
    <3>8. QED
      BY <1>1, <3>1, <3>2, <3>3, <3>5, <3>6, <3>7 DEF Next, WorkerStep
  <2>2. r \in Ids(worker.group) /\ Current(r) /\ store.records[r] = "none"
    BY <1>1, <2>1 DEF BaseInv, CohortInv
  <2>3. pending[r].active
    BY <1>1, <2>2 DEF BaseInv, PipeInv, Held
  <2>4. r \in LoggedIds
    BY <1>1, <2>2, <2>3 DEF BaseInv, LogInv, Current
  <2>5. PICK i \in DOMAIN log : log[i].id = r
    BY <2>4 DEF LoggedIds
  <2>6. QED
    BY <1>1, <2>2, <2>3, <2>5 DEF BaseInv, LogInv, Current
<1>2. BaseInv /\ [Next]_vars => [A]_vars
    BY <1>1
<1>3. QED
    BY <1>2, BaseHolds, PTL DEF Spec, GenerationsStayApart

-----------------------------------------------------------------------------
(* How a step may change the log.                                          *)

\* Nothing, or records of finished requests.
Shorter ==
  \E at \in [DOMAIN log' -> DOMAIN log] :
    /\ \A i, j \in DOMAIN log' : i < j => at[i] < at[j]
    /\ \A i \in DOMAIN log' : log'[i] = log[at[i]]

Longer(r) ==
  /\ AppendAccepted(r) \/ AppendAcceptedFails(r)
  /\ log' = Append(log, [id |-> r, generation |-> accept[r].generation, plan |-> NoPlan])

Prepares ==
  /\ AppendPrepared \/ AppendPreparedFails
  /\ wal = "open" \/ worker.todo = <<>>
  /\ log' = WithPlan(log, Ids(worker.todo), FreshPlan)

LEMMA SameIsShorter == ASSUME log' = log, log \in Seq(EntryType) PROVE Shorter
<1> DEFINE at == [i \in DOMAIN log |-> i]
<1>1. at \in [DOMAIN log' -> DOMAIN log]
    OBVIOUS
<1>2. \A i, j \in DOMAIN log' : i < j => at[i] < at[j]
    OBVIOUS
<1>3. \A i \in DOMAIN log' : log'[i] = log[at[i]]
    OBVIOUS
<1> HIDE DEF at
<1>4. QED
    BY <1>1, <1>2, <1>3 DEF Shorter

LEMMA WithoutIsShorter ==
    ASSUME log \in Seq(EntryType), NEW ids, log' = Without(log, ids)
    PROVE  Shorter
<1>1. \E at \in [DOMAIN Without(log, ids) -> DOMAIN log] :
        /\ \A i, j \in DOMAIN Without(log, ids) : i < j => at[i] < at[j]
        /\ \A i \in DOMAIN Without(log, ids) :
             Without(log, ids)[i] = log[at[i]] /\ log[at[i]].id \notin ids
    BY WithoutFacts
<1>2. QED
    BY <1>1 DEF Shorter

LEMMA LogCases ==
    ASSUME TypeOK, Next
    PROVE  \/ Shorter /\ (log' = log \/ (worker.at = "recorded" /\ store' = store))
           \/ \E r \in Requests : Longer(r)
           \/ Prepares
<1> DEFINE Less == Shorter /\ (log' = log \/ (worker.at = "recorded" /\ store' = store))
<1>s. SUFFICES Less \/ (\E r \in Requests : Longer(r)) \/ Prepares
    OBVIOUS
<1>0. log \in Seq(EntryType)
    BY DEF TypeOK
<1>1. log' = log => Less
    BY <1>0, SameIsShorter
<1>2. ASSUME NEW r \in Requests, AcceptBegin(r) \/ AcceptStep(r) PROVE log' = log \/ Longer(r)
    BY <1>2, Zenon DEF AcceptStep, AcceptBegin, AcceptRefused, AppendAccepted, AppendAcceptedFails, Activate,
       Enqueue, Longer, LogFails
<1>3. ASSUME NEW c \in Callers, Call(c) \/ CallerStep(c) \/ GiveUp(c) PROVE log' = log
    BY <1>3 DEF CallerStep, Call, EnterGate, Barrier, BarrierDone, TakeLock, DirectCommit, PurgeBegins,
       PurgeDeletes, CreateTenant, GiveUp
<1>4. Crash \/ WorkerStops \/ Close \/ Closed \/ Restart => log' = log
    BY DEF Crash, WorkerStops, Close, Closed, Restart
<1>5. CASE AppendPrepared \/ AppendPreparedFails
  <2>1. \/ log' = log
        \/ log' = WithPlan(log, Ids(worker.todo), FreshPlan) /\ (wal = "open" \/ worker.todo = <<>>)
    BY <1>5 DEF AppendPrepared, AppendPreparedFails, LogFails
  <2>2. QED
    BY <1>1, <1>5, <2>1 DEF Prepares
<1>6. CASE AppendTerminal \/ AppendTerminalPartly \/ AppendTerminalFails
  <2>1. worker.at = "recorded" /\ store' = store
    BY <1>6, Zenon DEF AppendTerminal, AppendTerminalPartly, AppendTerminalFails
  <2>2. log' = log \/ \E ids : log' = Without(log, ids)
    BY <1>6 DEF AppendTerminal, AppendTerminalPartly, AppendTerminalFails, LogFails
  <2>3. QED
    BY <1>0, <1>1, <2>1, <2>2, WithoutIsShorter
<1>7. ASSUME Dispatch \/ NextGroup \/ FlushDone \/ EnterTenant \/ FlushRetries \/ Publish \/ PublishUnanswered
               \/ SaveMetadata \/ SaveMetadataFails \/ FailGroup \/ FailGroupPartly
      PROVE  log' = log
    BY <1>7 DEF Dispatch, NextGroup, FlushDone, EnterTenant, FlushRetries, Publish, PublishUnanswered, SaveMetadata,
       SaveMetadataFails, FailGroup, FailGroupPartly
<1> HIDE DEF Less
<1>8. QED
    BY <1>1, <1>2, <1>3, <1>4, <1>5, <1>6, <1>7 DEF Next, WorkerStep

LEMMA LongerFacts ==
    ASSUME TypeOK, BaseInv, NEW r \in Requests, Longer(r)
    PROVE  /\ DOMAIN log' = DOMAIN log \union {Len(log) + 1} /\ Len(log) + 1 \notin DOMAIN log
           /\ \A i \in DOMAIN log : log'[i] = log[i] /\ log[i].id # r /\ i < Len(log) + 1
           /\ log'[Len(log) + 1].id = r /\ log'[Len(log) + 1].generation = accept[r].generation
           /\ log'[Len(log) + 1].plan = NoPlan
           /\ Working /\ accept[r].at = "admitted" /\ r \notin LoggedIds
           /\ store' = store /\ pending' = pending /\ worker' = worker /\ caller' = caller /\ queue' = queue
           /\ arrived' = arrived
<1> DEFINE e == [id |-> r, generation |-> accept[r].generation, plan |-> NoPlan]
<1>0. log \in Seq(EntryType)
    BY DEF TypeOK
<1>1. e.id = r /\ e.generation = accept[r].generation /\ e.plan = NoPlan
    OBVIOUS
<1>2. log' = Append(log, e)
    BY DEF Longer
<1> HIDE DEF e
<1>3. /\ DOMAIN log' = DOMAIN log \union {Len(log) + 1} /\ Len(log) + 1 \notin DOMAIN log
      /\ \A i \in DOMAIN log : log'[i] = log[i] /\ i < Len(log) + 1
      /\ log'[Len(log) + 1] = e
    BY <1>0, <1>2
<1>4. /\ Working /\ accept[r].at = "admitted"
      /\ store' = store /\ pending' = pending /\ worker' = worker /\ caller' = caller /\ queue' = queue
      /\ arrived' = arrived
    BY DEF Longer, AppendAccepted, AppendAcceptedFails, Working
<1>5. r \notin LoggedIds
    BY <1>4 DEF BaseInv, LogInv
<1>6. \A i \in DOMAIN log : log[i].id # r
    BY <1>5 DEF LoggedIds
<1>7. QED
    BY <1>1, <1>3, <1>4, <1>5, <1>6

-----------------------------------------------------------------------------
(* The log has the order of the pipe.                                      *)

LEMMA ShorterOrder ==
    ASSUME TypeOK, TypeOK', OrderInv, Shorter, NEW a \in Seq(Requests), Pipe = a \o Pipe'
    PROVE  \A i, j \in DOMAIN log', p, q \in DOMAIN Pipe' :
             i < j /\ Pipe'[p] = log'[i].id /\ Pipe'[q] = log'[j].id => p < q
<1>1. PICK at \in [DOMAIN log' -> DOMAIN log] :
        /\ \A i, j \in DOMAIN log' : i < j => at[i] < at[j]
        /\ \A i \in DOMAIN log' : log'[i] = log[at[i]]
    BY DEF Shorter
<1> DEFINE t == Pipe'
<1>2. t \in Seq(Requests) /\ Pipe = a \o t
    BY NextPipeParts DEF TypeOK
<1> HIDE DEF t
<1>3. \A p \in DOMAIN t : Len(a) + p \in DOMAIN Pipe /\ Pipe[Len(a) + p] = t[p]
    BY <1>2
<1>4. \A p, q \in DOMAIN t : Len(a) + p < Len(a) + q => p < q
    BY <1>2
<1> SUFFICES ASSUME NEW i \in DOMAIN log', NEW j \in DOMAIN log', NEW p \in DOMAIN t, NEW q \in DOMAIN t,
                    i < j, t[p] = log'[i].id, t[q] = log'[j].id
             PROVE  p < q
    BY DEF t
<1>5. at[i] \in DOMAIN log /\ at[j] \in DOMAIN log /\ at[i] < at[j] /\ log'[i] = log[at[i]] /\ log'[j] = log[at[j]]
    BY <1>1
<1>6. Len(a) + p \in DOMAIN Pipe /\ Len(a) + q \in DOMAIN Pipe
      /\ Pipe[Len(a) + p] = log[at[i]].id /\ Pipe[Len(a) + q] = log[at[j]].id
    BY <1>3, <1>5
<1>7. Len(a) + p < Len(a) + q
    BY <1>5, <1>6 DEF OrderInv
<1>8. QED
    BY <1>4, <1>7

\* A request without a record is not in the pipe yet.
LEMMA AdmittedOutside ==
    ASSUME TypeOK, PipeInv, Working, NEW r \in Requests, accept[r].at = "admitted"
    PROVE  r \notin Ids(Pipe)
<1>1. ~Held(r) /\ r \notin Ids(order) \ arrived
    BY DEF Held, PipeInv
<1>2. r \notin Ids(worker.group) \union Ids(worker.rest) \union Ids(queue) \union arrived
    BY <1>1 DEF PipeInv
<1>3. QED
    BY <1>1, <1>2, PipeParts DEF TypeOK

LEMMA OrderStep ==
    ASSUME BaseInv, BaseInv', OrderInv, Next
    PROVE  OrderInv'
<1> DEFINE Ordered == \A i, j \in DOMAIN log', p, q \in DOMAIN Pipe' :
                        i < j /\ Pipe'[p] = log'[i].id /\ Pipe'[q] = log'[j].id => p < q
           Placed == Working' => \A r \in Requests : pending'[r].active => r \in Ids(Pipe')
<1>0. TypeOK /\ TypeOK' /\ PipeInv /\ PipeInv' /\ LogInv /\ DownInv
    BY DEF BaseInv
<1>00. Pipe \in Seq(Requests) /\ Pipe' \in Seq(Requests) /\ log \in Seq(EntryType)
    BY <1>0, PipeParts, NextPipeParts DEF TypeOK
<1> HIDE DEF Ordered, Placed
<1>1. Ordered /\ Placed => OrderInv'
    BY DEF Ordered, Placed, OrderInv
<1>2. ASSUME Pipe' = Pipe, log' = log, Working' => Working,
             \A r \in Requests : pending'[r].active => pending[r].active
      PROVE  Ordered /\ Placed
    BY <1>2 DEF OrderInv, Ordered, Placed
<1>3. ASSUME NEW r \in Requests, AppendAccepted(r) \/ AppendAcceptedFails(r) PROVE Ordered /\ Placed
  <2>1. pending' = pending /\ Working /\ accept[r].at = "admitted" /\ (log' = log \/ Longer(r))
    BY <1>3 DEF AppendAccepted, AppendAcceptedFails, Working, Longer, LogFails
  <2>2. r \notin Ids(Pipe) /\ r \notin LoggedIds
    BY <1>0, <2>1, AdmittedOutside DEF LogInv
  <2>3. Pipe' = Pipe \/ Pipe' = Append(Pipe, r)
    BY <1>0, <1>3, AcceptPipe DEF AcceptStep
  <2>4. /\ DOMAIN Pipe \subseteq DOMAIN Pipe' /\ \A p \in DOMAIN Pipe : Pipe'[p] = Pipe[p]
        /\ \A q \in DOMAIN Pipe' : q \in DOMAIN Pipe \/ (q = Len(Pipe) + 1 /\ Pipe'[q] = r)
    BY <1>00, <2>3
  <2>5. \A p \in DOMAIN Pipe : p < Len(Pipe) + 1 /\ Pipe[p] # r
    BY <1>00, <2>2 DEF Ids
  <2>6. Placed
    <3>1. Ids(Pipe) \subseteq Ids(Pipe')
      BY <2>4 DEF Ids
    <3>2. QED
      BY <2>1, <3>1 DEF OrderInv, Placed
  <2>7. \A i \in DOMAIN log' : (i \in DOMAIN log /\ log'[i] = log[i] /\ log[i].id # r) \/ log'[i].id = r
    <3>1. CASE log' = log
      BY <2>2, <3>1 DEF LoggedIds
    <3>2. CASE Longer(r)
      BY <1>0, <3>2, LongerFacts
    <3>3. QED
      BY <2>1, <3>1, <3>2
  <2>8. \A i, j \in DOMAIN log' : i < j /\ log'[i].id = r => FALSE
    <3>1. CASE log' = log
      BY <2>2, <3>1 DEF LoggedIds
    <3>2. CASE Longer(r)
      <4>1. /\ DOMAIN log' = DOMAIN log \union {Len(log) + 1}
            /\ \A i \in DOMAIN log : log'[i] = log[i] /\ log[i].id # r /\ i < Len(log) + 1
        BY <1>0, <3>2, LongerFacts
      <4>2. Len(log) \in Nat /\ DOMAIN log = 1..Len(log)
        BY <1>00
      <4>3. QED
        BY <4>1, <4>2
    <3>3. QED
      BY <2>1, <3>1, <3>2
  <2>9. Ordered
    <3> SUFFICES ASSUME NEW i \in DOMAIN log', NEW j \in DOMAIN log', NEW p \in DOMAIN Pipe', NEW q \in DOMAIN Pipe',
                        i < j, Pipe'[p] = log'[i].id, Pipe'[q] = log'[j].id
                 PROVE  p < q
      BY DEF Ordered
    <3>1. i \in DOMAIN log /\ log'[i] = log[i] /\ log'[i].id # r
      BY <2>7, <2>8
    <3>2. p \in DOMAIN Pipe /\ Pipe'[p] = Pipe[p]
      BY <2>4, <3>1
    <3>3. CASE log'[j].id = r
      <4>1. q \notin DOMAIN Pipe
        BY <2>4, <2>5, <3>3
      <4>2. QED
        BY <2>4, <2>5, <3>2, <4>1
    <3>4. CASE log'[j].id # r
      <4>1. j \in DOMAIN log /\ log'[j] = log[j] /\ q \in DOMAIN Pipe /\ Pipe'[q] = Pipe[q]
        BY <2>4, <2>7, <3>4
      <4>2. QED
        BY <3>1, <3>2, <4>1 DEF OrderInv
    <3>5. QED
      BY <3>3, <3>4
  <2>10. QED
    BY <2>6, <2>9
<1>4. ASSUME NEW r \in Requests, AcceptBegin(r) \/ AcceptRefused(r) \/ Enqueue(r) \/ Activate(r)
      PROVE  Ordered /\ Placed
  <2>1. log' = log /\ Pipe' = Pipe /\ (Working' => Working)
    <3>1. ~AppendAccepted(r)
      BY <1>4, <1>0, AcceptUpdates DEF AcceptBegin, AcceptRefused, Enqueue, Activate, AppendAccepted, TypeOK
    <3>2. log' = log /\ (Working' => Working)
      BY <1>4 DEF AcceptBegin, AcceptRefused, Enqueue, Activate, Working
    <3>3. QED
      BY <1>0, <1>4, <3>1, <3>2, AcceptPipe DEF AcceptStep
  <2>2. CASE ~Activate(r)
    BY <1>2, <1>4, <2>1, <2>2 DEF AcceptBegin, AcceptRefused, Enqueue
  <2>3. CASE Activate(r)
    <3>1. Ordered
      BY <2>1 DEF OrderInv, Ordered
    <3>2. \A s \in Requests \ {r} : pending'[s] = pending[s]
      BY <1>0, <2>3 DEF Activate, TypeOK
    <3>3. Working => r \in Ids(Pipe)
      <4>1. accept[r].at = "logged"
        BY <2>3 DEF Activate
      <4>2. Ids(order) \subseteq Ids(Pipe)
        BY <1>0, PipeParts DEF TypeOK
      <4>3. QED
        BY <1>0, <4>1, <4>2 DEF PipeInv
    <3>4. Placed
      BY <2>1, <3>2, <3>3 DEF OrderInv, Placed
    <3>5. QED
      BY <3>1, <3>4
  <2>4. QED
    BY <2>2, <2>3
<1>5. CASE WorkerStep \/ WorkerStops
  <2>1. PICK a \in Seq(Requests) :
          /\ Pipe = a \o Pipe'
          /\ Working' => \A x \in Ids(a) : ~pending'[x].active /\ accept'[x].at = "idle"
    BY <1>0, <1>5, WorkerMoves
  <2>2. Working' => Working
    BY <1>5 DEF WorkerStep, Dispatch, NextGroup, FlushDone, EnterTenant, AppendPrepared,
       AppendPreparedFails, FlushRetries, Publish, PublishUnanswered, SaveMetadata, SaveMetadataFails,
       FailGroup, FailGroupPartly, AppendTerminal, AppendTerminalPartly, AppendTerminalFails, WorkerStops, Fatal,
       Working
  <2>3. \A r \in Requests : pending'[r].active => pending[r].active
    <3>1. CASE AppendPrepared
      BY <1>0, <3>1, PreparedFields DEF TypeOK
    <3>2. CASE AppendTerminal \/ AppendTerminalPartly
      <4>1. \E ids : pending' = Completed(ids)
        BY <3>2, Zenon DEF AppendTerminal, AppendTerminalPartly
      <4>2. QED
        BY <4>1 DEF Completed, Inactive
    <3>3. CASE ~AppendPrepared /\ ~AppendTerminal /\ ~AppendTerminalPartly
      BY <1>5, <3>3 DEF WorkerStep, Dispatch, NextGroup, FlushDone, EnterTenant,
         AppendPreparedFails, FlushRetries, Publish, PublishUnanswered, SaveMetadata, SaveMetadataFails,
         FailGroup, FailGroupPartly, AppendTerminalFails, WorkerStops, Fatal
    <3>4. QED
      BY <3>1, <3>2, <3>3
  <2>4. Placed
    <3> DEFINE t == Pipe'
    <3>1. t \in Seq(Requests) /\ Pipe = a \o t
      BY <1>00, <2>1
    <3> HIDE DEF t
    <3>2. Ids(Pipe) = Ids(a) \union Ids(t)
      BY <3>1, IdsOfConcat
    <3>3. QED
      BY <2>1, <2>2, <2>3, <3>2 DEF OrderInv, Placed, t
  <2>5. Ordered
    <3>1. CASE Shorter
      BY <1>0, <2>1, <3>1, ShorterOrder DEF Ordered
    <3>2. CASE Prepares
      <4>1. DOMAIN log' = DOMAIN log /\ \A i \in DOMAIN log : log'[i].id = log[i].id
        BY <1>00, <3>2, WithPlanFacts DEF Prepares
      <4> DEFINE t == Pipe'
      <4>2. t \in Seq(Requests) /\ Pipe = a \o t
        BY <1>00, <2>1
      <4> HIDE DEF t
      <4>3. \A p \in DOMAIN t : Len(a) + p \in DOMAIN Pipe /\ Pipe[Len(a) + p] = t[p]
        BY <4>2
      <4>4. \A p, q \in DOMAIN t : Len(a) + p < Len(a) + q => p < q
        BY <4>2
      <4>5. QED
        BY <4>1, <4>3, <4>4 DEF OrderInv, Ordered, t
    <3>3. \A r \in Requests : ~Longer(r)
      <4> SUFFICES ASSUME NEW r \in Requests, Longer(r) PROVE FALSE
        OBVIOUS
      <4>1. accept' = accept
        BY <1>5 DEF WorkerStep, Dispatch, NextGroup, FlushDone, EnterTenant, AppendPrepared,
           AppendPreparedFails, FlushRetries, Publish, PublishUnanswered, SaveMetadata, SaveMetadataFails,
           FailGroup, FailGroupPartly, AppendTerminal, AppendTerminalPartly, AppendTerminalFails, WorkerStops
      <4>2. accept[r].at = "admitted" /\ accept'[r].at # "admitted"
        <5>1. accept \in [Requests -> AcceptType]
          BY <1>0 DEF TypeOK
        <5>2. accept[r].at = "admitted" /\ \E x \in {"idle", "logged"} : accept' = [accept EXCEPT ![r].at = x]
          BY Zenon DEF Longer, AppendAccepted, AppendAcceptedFails
        <5>3. QED
          BY <5>1, <5>2, AcceptUpdates
      <4>3. QED
        BY <4>1, <4>2
    <3>4. QED
      BY <1>0, <3>1, <3>2, <3>3, LogCases
  <2>6. QED
    BY <1>1, <2>4, <2>5
<1>6. ASSUME NEW c \in Callers, Call(c) \/ CallerStep(c) \/ GiveUp(c) PROVE Ordered /\ Placed
  <2>1. UNCHANGED <<run, worker, queue, order, log, pending>>
    BY <1>6 DEF CallerStep, Call, EnterGate, Barrier, BarrierDone, TakeLock, DirectCommit,
       PurgeBegins, PurgeDeletes, CreateTenant, GiveUp
  <2>2. Pipe' = Pipe
    BY <2>1 DEF Pipe
  <2>3. QED
    BY <1>2, <2>1, <2>2 DEF Working
<1>7. CASE Close
  <2>1. Pipe' = Pipe /\ log' = log /\ pending' = pending /\ Working
    BY <1>7 DEF Close, volatile, Pipe, Working
  <2>2. QED
    BY <1>1, <1>2, <2>1
<1>8. CASE Crash \/ Closed
  <2>1. Forget /\ ~Working'
    BY <1>8 DEF Crash, Closed, Working
  <2>2. Pipe' = <<>>
    BY <2>1, IdleFields DEF Forget, Pipe
  <2>3. Ordered /\ Placed
    BY <2>1, <2>2 DEF Ordered, Placed
  <2>4. QED
    BY <1>1, <2>3
<1>9. CASE Restart
  <2> DEFINE q == [i \in DOMAIN log |-> log[i].id]
  <2>1. /\ queue' = q /\ worker' = IdleWorker /\ order' = <<>> /\ log' = log
    BY <1>0, <1>9 DEF Restart, DownInv
  <2>2. queue' \in Seq(Requests)
    BY <1>0 DEF TypeOK
  <2>3. Pipe' = <<>> \o (<<>> \o (q \o <<>>))
    BY <2>1, IdleFields DEF Pipe
  <2>4. DOMAIN q = DOMAIN log /\ \A i \in DOMAIN log : q[i] = log[i].id
    OBVIOUS
  <2> HIDE DEF q
  <2>5. Pipe' = q
    BY <2>1, <2>2, <2>3
  <2>6. Ordered
    <3> SUFFICES ASSUME NEW i \in DOMAIN log, NEW j \in DOMAIN log, NEW m \in DOMAIN log, NEW n \in DOMAIN log,
                        i < j, log[m].id = log[i].id, log[n].id = log[j].id
                 PROVE  m < n
      BY <2>1, <2>4, <2>5 DEF Ordered
    <3>1. m = i /\ n = j
      BY <1>0 DEF LogInv
    <3>2. QED
      BY <3>1
  <2>7. Placed
    <3> SUFFICES ASSUME NEW r \in Requests, pending'[r].active PROVE r \in Ids(q)
      BY <2>5 DEF Placed
    <3>1. r \in LoggedIds
      BY <1>9 DEF Restart, Inactive
    <3>2. PICK i \in DOMAIN log : log[i].id = r
      BY <3>1 DEF LoggedIds
    <3>3. QED
      BY <2>4, <3>2 DEF Ids
  <2>8. QED
    BY <1>1, <2>6, <2>7
<1>10. QED
    BY <1>1, <1>3, <1>4, <1>5, <1>6, <1>7, <1>8, <1>9 DEF Next, AcceptStep

-----------------------------------------------------------------------------
(* Who may have a plan.                                                    *)

LEMMA AcceptSteps ==
    ASSUME TypeOK, NEW r \in Requests, AcceptBegin(r) \/ AcceptStep(r)
    PROVE  /\ store' = store /\ worker' = worker /\ caller' = caller /\ intact' = intact /\ (Working' => Working)
           /\ \A s \in Requests \ {r} : accept'[s] = accept[s] /\ pending'[s] = pending[s]
           /\ run' = "down" => run = "down"
<1>0. accept \in [Requests -> AcceptType] /\ pending \in [Requests -> PendingType]
    BY DEF TypeOK
<1>1. \E e : accept' = [accept EXCEPT ![r] = e] \/ accept' = [accept EXCEPT ![r].at = e]
    BY Zenon DEF AcceptStep, AcceptBegin, AcceptRefused, AppendAccepted, AppendAcceptedFails, Activate, Enqueue
<1>2. \A s \in Requests \ {r} : accept'[s] = accept[s]
    BY <1>0, <1>1, AcceptUpdates
<1>3. \A s \in Requests \ {r} : pending'[s] = pending[s]
  <2>1. CASE Activate(r)
    BY <1>0, <2>1 DEF Activate
  <2>2. CASE ~Activate(r)
    BY <2>2 DEF AcceptStep, AcceptBegin, AcceptRefused, AppendAccepted, AppendAcceptedFails, Enqueue
  <2>3. QED
    BY <2>1, <2>2
<1>4. store' = store /\ worker' = worker /\ caller' = caller /\ intact' = intact
    BY DEF AcceptStep, AcceptBegin, AcceptRefused, AppendAccepted, AppendAcceptedFails, Activate, Enqueue
<1>5. (Working' => Working) /\ (run' = "down" => run = "down")
    BY DEF AcceptStep, AcceptBegin, AcceptRefused, AppendAccepted, AppendAcceptedFails, Activate, Enqueue, Working
<1>6. QED
    BY <1>2, <1>3, <1>4, <1>5

LEMMA CallerSteps ==
    ASSUME NEW c \in Callers, Call(c) \/ CallerStep(c) \/ GiveUp(c)
    PROVE  /\ log' = log /\ intact' = intact /\ run' = run /\ accept' = accept /\ pending' = pending
           /\ worker' = worker /\ queue' = queue /\ order' = order /\ arrived' = arrived
BY DEF CallerStep, Call, EnterGate, Barrier, BarrierDone, TakeLock, DirectCommit, PurgeBegins, PurgeDeletes,
   CreateTenant, GiveUp

LEMMA WorkerSteps ==
    ASSUME WorkerStep \/ WorkerStops
    PROVE  /\ accept' = accept /\ caller' = caller /\ order' = order /\ arrived' = arrived
           /\ (Working' => Working) /\ (run' = run \/ run' = "fatal")
BY DEF WorkerStep, Dispatch, NextGroup, FlushDone, EnterTenant, AppendPrepared,
   AppendPreparedFails, FlushRetries, Publish, PublishUnanswered, SaveMetadata, SaveMetadataFails,
   FailGroup, FailGroupPartly, AppendTerminal, AppendTerminalPartly, AppendTerminalFails, WorkerStops, Fatal,
   Working

LEMMA StoreCases ==
    ASSUME Next
    PROVE  \/ store' = store
           \/ Publish \/ PublishUnanswered
           \/ SaveMetadata \/ SaveMetadataFails \/ FailGroup \/ FailGroupPartly
           \/ \E c \in Callers : DirectCommit(c) \/ PurgeBegins(c) \/ PurgeDeletes(c) \/ CreateTenant(c)
<1>1. ASSUME NEW r \in Requests, AcceptBegin(r) \/ AcceptStep(r) PROVE store' = store
    BY <1>1 DEF AcceptStep, AcceptBegin, AcceptRefused, AppendAccepted, AppendAcceptedFails, Activate, Enqueue
<1>2. CASE Dispatch \/ NextGroup \/ FlushDone \/ EnterTenant \/ AppendPrepared \/ AppendPreparedFails
             \/ FlushRetries \/ AppendTerminal \/ AppendTerminalPartly \/ AppendTerminalFails
    BY <1>2 DEF Dispatch, NextGroup, FlushDone, EnterTenant, AppendPrepared, AppendPreparedFails,
       FlushRetries, AppendTerminal, AppendTerminalPartly, AppendTerminalFails
<1>3. ASSUME NEW c \in Callers, Call(c) \/ CallerStep(c) \/ GiveUp(c)
      PROVE  store' = store \/ DirectCommit(c) \/ PurgeBegins(c) \/ PurgeDeletes(c) \/ CreateTenant(c)
    BY <1>3 DEF CallerStep, Call, EnterGate, Barrier, BarrierDone, TakeLock, GiveUp
<1>4. CASE Crash \/ WorkerStops \/ Close \/ Closed \/ Restart
    BY <1>4 DEF Crash, WorkerStops, Close, Closed, Restart
<1>5. QED
    BY <1>1, <1>2, <1>3, <1>4 DEF Next, WorkerStep

LEMMA EmptyIds == Ids(<<>>) = {}
BY DEF Ids

LEMMA NoIds ==
    ASSUME NEW S, NEW s \in Seq(S), Ids(s) = {}
    PROVE  s = <<>>
<1>1. DOMAIN s = {}
    BY DEF Ids
<1>2. QED
    BY <1>1

\* A purge or a creation under way has the service of the tenant to itself.
LEMMA ReplacingAlone ==
    ASSUME BaseInv, NEW c \in Callers, Replacing(c)
    PROVE  /\ \A r \in Requests : ~pending[r].active /\ accept[r].at = "idle"
           /\ worker.group = <<>> /\ worker.at \in {"idle", "group"}
<1>0. TypeOK /\ PipeInv /\ GateInv /\ DrainInv
    BY DEF BaseInv
<1>1. gate.writer = c /\ gate.writer # Nobody
    BY <1>0, NamesAssumption DEF GateInv
<1>2. gate.readers = {}
    BY <1>0, <1>1 DEF TypeOK, GateType
<1>3. \A r \in Requests : ~pending[r].active /\ accept[r].at = "idle"
    BY <1>0, <1>2 DEF DrainInv, GateInv
<1>4. worker.group \in Seq(Requests) /\ worker \in WorkerType
    BY <1>0, WorkerTypes DEF TypeOK
<1>5. Ids(worker.group) = {}
  <2>1. \A r \in Ids(worker.group) : r \in Requests /\ pending[r].active
    BY <1>0, <1>4 DEF Ids, PipeInv, Held
  <2>2. QED
    BY <1>3, <2>1
<1>6. worker.group = <<>>
    BY <1>4, <1>5, NoIds
<1>7. QED
    BY <1>0, <1>3, <1>4, <1>6 DEF PipeInv, WorkerType

LEMMA CallerReplaces ==
    ASSUME BaseInv, NEW c \in Callers, PurgeBegins(c) \/ PurgeDeletes(c) \/ CreateTenant(c)
    PROVE  Replacing(c) /\ Passed(c) /\ lock = c
BY DEF BaseInv, LockInv, PurgeBegins, PurgeDeletes, CreateTenant, Replacing, Passed

\* While the worker holds the lock nobody is past a barrier.
LEMMA NobodyPassed ==
    ASSUME BaseInv, worker.at \in {"planning", "planned"}
    PROVE  \A c \in Callers : ~Passed(c)
<1> SUFFICES ASSUME NEW c \in Callers, Passed(c) PROVE FALSE
    OBVIOUS
<1>0. PipeInv /\ LockInv /\ DrainInv /\ TypeOK
    BY DEF BaseInv
<1>1. lock = TheWorker /\ lock # c
    BY <1>0, NamesAssumption DEF LockInv
<1>2. Pausing(c) /\ caller[c].at = "drained"
    BY <1>0, <1>1 DEF LockInv, Passed, Pausing
<1>3. worker.group # <<>> /\ worker.group \in Seq(Requests)
    BY <1>0, WorkerTypes DEF PipeInv, TypeOK
<1>4. worker.group[1] \in Ids(worker.group) /\ worker.group[1] \in Requests
    BY <1>3 DEF Ids
<1>5. pending[worker.group[1]].active
    BY <1>0, <1>4 DEF PipeInv, Held
<1>6. QED
    BY <1>0, <1>2, <1>4, <1>5 DEF DrainInv

\* What the worker is about to commit is active and in the log.
LEMMA TodoLogged ==
    ASSUME BaseInv, worker.at \in {"planning", "planned"}, NEW r \in Ids(worker.todo)
    PROVE  /\ r \in Requests /\ r \in Ids(worker.group) /\ Held(r) /\ r \in LoggedIds
           /\ store.records[r] = "none" /\ Current(r)
<1>0. TypeOK /\ PipeInv /\ CohortInv /\ LogInv
    BY DEF BaseInv
<1>1. r \in Ids(worker.group) /\ store.records[r] = "none" /\ Current(r)
    BY <1>0 DEF CohortInv
<1>2. worker.group \in Seq(Requests)
    BY <1>0, WorkerTypes DEF TypeOK
<1>3. r \in Requests /\ Held(r)
    BY <1>0, <1>1, <1>2 DEF Ids, PipeInv
<1>4. QED
    BY <1>0, <1>1, <1>3 DEF LogInv, Held, Current

LEMMA EntryFacts ==
    ASSUME TypeOK
    PROVE  \A e \in Entries :
             /\ e \in EntryType /\ e.id \in Requests /\ e.generation \in Nat /\ e.plan \in PlanType
             /\ e.id \in LoggedIds
<1>1. \A i \in DOMAIN log : log[i] \in EntryType
    BY DEF TypeOK
<1>2. QED
    BY <1>1, EntryFields DEF TypeOK, Entries, LoggedIds

LEMMA OneEntry ==
    ASSUME LogInv
    PROVE  /\ \A e, f \in Entries : e.id = f.id => e = f
           /\ \A r \in LoggedIds : \E e \in Entries : e.id = r
BY DEF LogInv, Entries, LoggedIds

LEMMA ShorterEntries ==
    ASSUME Shorter
    PROVE  Entries' \subseteq Entries
BY DEF Shorter, Entries

LEMMA WithoutEntries ==
    ASSUME log \in Seq(EntryType), NEW ids, log' = Without(log, ids)
    PROVE  \A e : e \in Entries' <=> e \in Entries /\ e.id \notin ids
<1> DEFINE w == Without(log, ids)
<1>1. \A i \in DOMAIN log : log[i].id \notin ids => \E k \in DOMAIN w : w[k] = log[i]
    BY WithoutFacts
<1>2. PICK at \in [DOMAIN w -> DOMAIN log] :
        \A i \in DOMAIN w : w[i] = log[at[i]] /\ log[at[i]].id \notin ids
    BY WithoutFacts
<1>3. log' = w
    OBVIOUS
<1> HIDE DEF w
<1>4. QED
    BY <1>1, <1>2, <1>3 DEF Entries

LEMMA LongerEntries ==
    ASSUME TypeOK, BaseInv, NEW r \in Requests, Longer(r)
    PROVE  /\ Entries \subseteq Entries'
           /\ \A e \in Entries' : \/ e \in Entries /\ e.id # r
                                  \/ e.id = r /\ e.generation = accept[r].generation /\ e.plan = NoPlan
<1>1. /\ DOMAIN log' = DOMAIN log \union {Len(log) + 1}
      /\ \A i \in DOMAIN log : log'[i] = log[i] /\ log[i].id # r
      /\ log'[Len(log) + 1].id = r /\ log'[Len(log) + 1].generation = accept[r].generation
      /\ log'[Len(log) + 1].plan = NoPlan
    BY LongerFacts
<1> DEFINE n == Len(log) + 1
<1> HIDE DEF n
<1>2. QED
    BY <1>1 DEF Entries, n

LEMMA PreparesEntries ==
    ASSUME TypeOK, Prepares
    PROVE  /\ \A e \in Entries' : \E f \in Entries :
                /\ e.id = f.id /\ e.generation = f.generation
                /\ e.plan = IF f.id \in Ids(worker.todo) THEN FreshPlan ELSE f.plan
           /\ \A f \in Entries : \E e \in Entries' :
                /\ e.id = f.id /\ e.generation = f.generation
                /\ e.plan = IF f.id \in Ids(worker.todo) THEN FreshPlan ELSE f.plan
<1> DEFINE ids == Ids(worker.todo)
           plan == FreshPlan
<1>1. log \in Seq(EntryType) /\ log' = WithPlan(log, ids, plan)
    BY DEF TypeOK, Prepares
<1> HIDE DEF ids, plan
<1>2. /\ DOMAIN log' = DOMAIN log
      /\ \A i \in DOMAIN log :
           /\ log'[i].id = log[i].id /\ log'[i].generation = log[i].generation
           /\ log'[i].plan = IF log[i].id \in ids THEN plan ELSE log[i].plan
    BY <1>1, WithPlanFacts
<1>3. QED
    BY <1>2 DEF Entries, ids, plan

\* Only a start opens a log that failed.
LEMMA WalStays ==
    ASSUME Next, ~Restart
    PROVE  wal = "failed" => wal' = "failed"
<1>1. ASSUME NEW r \in Requests, AcceptBegin(r) \/ AcceptStep(r) PROVE wal' = wal \/ wal' = "failed"
    BY <1>1 DEF AcceptStep, AcceptBegin, AcceptRefused, AppendAccepted, AppendAcceptedFails, Activate, Enqueue,
       LogFails
<1>2. ASSUME NEW c \in Callers, Call(c) \/ CallerStep(c) \/ GiveUp(c) PROVE wal' = wal
    BY <1>2 DEF CallerStep, Call, EnterGate, Barrier, BarrierDone, TakeLock, DirectCommit, PurgeBegins,
       PurgeDeletes, CreateTenant, GiveUp
<1>3. Crash \/ WorkerStops \/ Close \/ Closed => wal' = wal
    BY DEF Crash, WorkerStops, Close, Closed
<1>4. CASE AppendPreparedFails \/ AppendTerminalFails
    BY <1>4 DEF AppendPreparedFails, AppendTerminalFails, LogFails
<1>5. WorkerStep => AppendPreparedFails \/ AppendTerminalFails \/ wal' = wal
    BY DEF WorkerStep, Dispatch, NextGroup, FlushDone, EnterTenant, AppendPrepared, FlushRetries, Publish,
       PublishUnanswered, SaveMetadata, SaveMetadataFails, FailGroup, FailGroupPartly, AppendTerminal,
       AppendTerminalPartly
<1>6. QED
    BY <1>1, <1>2, <1>3, <1>4, <1>5 DEF Next

\* An entry whose request nobody touches.
LEMMA EntryKept ==
    ASSUME NEW e, EntryMarked(e), e.generation \in Nat, store.generation \in Nat, store'.generation \in Nat,
           store.generation <= store'.generation,
           accept'[e.id].at = "logged" => accept[e.id].at = "logged",
           pending'[e.id] = pending[e.id], run = "down" => run' = "down", wal = "failed" => wal' = "failed",
           Working' \/ worker'.at # "idle" => Working \/ worker.at # "idle"
    PROVE  EntryMarked(e)'
BY DEF EntryMarked

LEMMA MarkAccepts ==
    ASSUME BaseInv, BaseInv', MarkInv, NEW r \in Requests, AcceptBegin(r) \/ AcceptStep(r)
    PROVE  MarkInv'
<1>0. TypeOK /\ LogInv /\ accept \in [Requests -> AcceptType] /\ pending \in [Requests -> PendingType]
      /\ store.generation \in Nat /\ log \in Seq(EntryType)
    BY StoreTypes DEF BaseInv, TypeOK
<1>1. /\ store' = store /\ worker' = worker /\ caller' = caller /\ intact' = intact /\ (Working' => Working)
      /\ \A s \in Requests \ {r} : accept'[s] = accept[s] /\ pending'[s] = pending[s]
      /\ run # "down" /\ (wal = "failed" => wal' = "failed")
  <2>0. wal = "failed" => wal' = "failed"
    BY DEF AcceptStep, AcceptBegin, AcceptRefused, AppendAccepted, AppendAcceptedFails, Activate, Enqueue, LogFails
  <2>1. run # "down"
    BY DEF AcceptStep, AcceptBegin, AcceptRefused, AppendAccepted, AppendAcceptedFails, Activate, Enqueue,
       BaseInv, DownInv
  <2>2. QED
    BY <1>0, <2>0, <2>1, AcceptSteps
<1>2. ASSUME NEW e \in Entries, e.id # r PROVE EntryMarked(e)'
  <2>1. e.id \in Requests \ {r} /\ e.generation \in Nat
    BY <1>0, <1>2, EntryFacts
  <2>2. EntryMarked(e)
    BY DEF MarkInv
  <2>3. pending'[e.id] = pending[e.id] /\ accept'[e.id] = accept[e.id]
    BY <1>1, <2>1
  <2>4. QED
    BY <1>0, <1>1, <2>1, <2>2, <2>3, EntryKept
\* the request itself
<1>3. pending'[r].plan = pending[r].plan \/ pending'[r].plan = NoPlan
  <2>1. CASE Activate(r)
    BY <1>0, <2>1 DEF Activate
  <2>2. CASE ~Activate(r)
    BY <2>2 DEF AcceptStep, AcceptBegin, AcceptRefused, AppendAccepted, AppendAcceptedFails, Enqueue
  <2>3. QED
    BY <2>1, <2>2
<1>4. accept'[r].at # "idle" => accept'[r].generation = store.generation
  <2>1. CASE AcceptBegin(r)
    <3>1. accept'[r] = [at |-> "admitted", generation |-> store.generation]
      BY <1>0, <2>1, AcceptUpdates DEF AcceptBegin
    <3>2. QED
      BY <3>1
  <2>2. CASE AcceptStep(r)
    <3>1. accept[r].at # "idle" /\ \E a : accept' = [accept EXCEPT ![r].at = a]
      BY <2>2, Zenon DEF AcceptStep, AcceptRefused, AppendAccepted, AppendAcceptedFails, Activate, Enqueue
    <3>2. accept'[r].generation = accept[r].generation
      BY <1>0, <3>1, AcceptUpdates
    <3>3. QED
      BY <3>1, <3>2 DEF MarkInv
  <2>3. QED
    BY <2>1, <2>2
<1>5. \A e \in Entries' : EntryMarked(e)' /\ (e \in Entries \/ ~e.plan.made)
  <2>1. CASE Longer(r)
    <3>1. /\ \A e \in Entries' : \/ e \in Entries /\ e.id # r
                                 \/ e.id = r /\ e.generation = accept[r].generation /\ e.plan = NoPlan
          /\ accept[r].at = "admitted" /\ pending' = pending
      BY <1>0, <2>1, LongerEntries, LongerFacts
    <3>2. ~pending[r].active /\ accept[r].generation = store.generation
      BY <1>0, <3>1 DEF LogInv, MarkInv
    <3>3. ~NoPlan.made
      BY DEF NoPlan
    <3>4. ASSUME NEW e \in Entries', e.id = r, e.generation = accept[r].generation, e.plan = NoPlan
          PROVE  EntryMarked(e)' /\ ~e.plan.made
      BY <1>0, <1>1, <3>1, <3>2, <3>3, <3>4 DEF EntryMarked
    <3>5. QED
      BY <1>2, <3>1, <3>4
  <2>2. CASE log' = log
    <3> SUFFICES ASSUME NEW e \in Entries PROVE EntryMarked(e)'
      BY <2>2 DEF Entries
    <3>1. CASE e.id # r
      BY <1>2, <3>1
    <3>2. CASE e.id = r
      <4>1. EntryMarked(e) /\ r \in LoggedIds /\ e.generation \in Nat
        BY <1>0, <3>2, EntryFacts DEF MarkInv
      <4>2. CASE Activate(r)
        <5>1. /\ accept[r].at = "logged" /\ accept'[r].at = "active" /\ pending'[r].active
              /\ pending'[r].plan = NoPlan /\ run' = run
          BY <1>0, <4>2, AcceptUpdates DEF Activate
        <5>2. e.plan = NoPlan /\ ~e.plan.made
          BY <3>2, <4>1, <5>1 DEF EntryMarked
        <5>3. QED
          BY <1>1, <3>2, <4>1, <5>1, <5>2 DEF EntryMarked
      <4>3. CASE ~Activate(r)
        <5>1. pending' = pending /\ accept'[r].at # "logged"
          <6>1. pending' = pending
            BY <4>3 DEF AcceptStep, AcceptBegin, AcceptRefused, AppendAccepted, AppendAcceptedFails, Enqueue
          <6>2. ~AppendAccepted(r)
            <7>1. ~Longer(r)
              BY <1>0, <2>2, <4>1, LongerFacts
            <7>2. QED
              BY <7>1 DEF AppendAccepted, Longer
          <6>3. CASE AcceptBegin(r)
            <7>1. accept'[r] = [at |-> "admitted", generation |-> store.generation]
              BY <1>0, <6>3, AcceptUpdates DEF AcceptBegin
            <7>2. QED
              BY <6>1, <7>1
          <6>4. CASE AcceptRefused(r) \/ AppendAcceptedFails(r) \/ Enqueue(r)
            <7>1. accept' = [accept EXCEPT ![r].at = "idle"]
              BY <6>4 DEF AcceptRefused, AppendAcceptedFails, Enqueue
            <7>2. QED
              BY <1>0, <6>1, <7>1, AcceptUpdates
          <6>5. QED
            BY <4>3, <6>2, <6>3, <6>4 DEF AcceptStep
        <5>2. QED
          BY <1>0, <1>1, <3>2, <4>1, <5>1, EntryKept
      <4>4. QED
        BY <4>2, <4>3
    <3>3. QED
      BY <3>1, <3>2
  <2>3. log' = log \/ Longer(r)
    BY Zenon DEF AcceptStep, AcceptBegin, AcceptRefused, AppendAccepted, AppendAcceptedFails, Activate,
       Enqueue, Longer, LogFails
  <2>4. QED
    BY <2>1, <2>2, <2>3
<1>6. \A s \in Requests : /\ pending'[s].plan.made \/ pending'[s].plan = NoPlan
                          /\ accept'[s].at # "idle" => accept'[s].generation = store'.generation
  <2> SUFFICES ASSUME NEW s \in Requests
               PROVE  /\ pending'[s].plan.made \/ pending'[s].plan = NoPlan
                      /\ accept'[s].at # "idle" => accept'[s].generation = store'.generation
    OBVIOUS
  <2>1. CASE s = r
    BY <1>1, <1>3, <1>4, <2>1 DEF MarkInv
  <2>2. CASE s # r
    BY <1>1, <2>2 DEF MarkInv
  <2>3. QED
    BY <2>1, <2>2
<1>7. \A c \in Callers : Passed(c)' => \A e \in Entries' : ~e.plan.made
    BY <1>1, <1>5 DEF MarkInv, Passed
<1>8. QED
    BY <1>1, <1>5, <1>6, <1>7 DEF MarkInv

\* The worker changes the history or the records.
LEMMA WorkerStore ==
    ASSUME TypeOK, WorkerStep \/ WorkerStops
    PROVE  /\ store'.generation = store.generation /\ store'.phase = store.phase
           /\ store'.status = store.status /\ store'.admits = store.admits
<1>0. store \in StoreType
    BY DEF TypeOK
<1>1. CASE Publish \/ PublishUnanswered
  <2>1. \E h : store' = [store EXCEPT !.history = h]
    BY <1>1, Zenon DEF Publish, PublishUnanswered
  <2>2. QED
    BY <1>0, <2>1, StoreFields
<1>2. CASE SaveMetadata \/ SaveMetadataFails \/ FailGroup \/ FailGroupPartly
  <2>1. store' = store \/ \E x : store' = [store EXCEPT !.records = x]
    BY <1>2, Zenon DEF SaveMetadata, SaveMetadataFails, FailGroup, FailGroupPartly
  <2>2. ASSUME NEW x, store' = [store EXCEPT !.records = x]
        PROVE  /\ store'.generation = store.generation /\ store'.phase = store.phase
               /\ store'.status = store.status /\ store'.admits = store.admits
    BY <1>0, <2>2 DEF StoreType
  <2>3. QED
    BY <2>1, <2>2
<1>3. CASE Dispatch \/ NextGroup \/ FlushDone \/ EnterTenant \/ AppendPrepared \/ AppendPreparedFails
             \/ FlushRetries \/ AppendTerminal \/ AppendTerminalPartly \/ AppendTerminalFails \/ WorkerStops
    BY <1>3 DEF Dispatch, NextGroup, FlushDone, EnterTenant, AppendPrepared, AppendPreparedFails,
       FlushRetries, AppendTerminal, AppendTerminalPartly, AppendTerminalFails, WorkerStops
<1>4. QED
    BY <1>1, <1>2, <1>3 DEF WorkerStep

\* What callers do to the store.
LEMMA CallerStore ==
    ASSUME TypeOK, NEW c \in Callers
    PROVE  /\ DirectCommit(c) => /\ store'.history = store.history \/ store'.history = Append(store.history, c)
                                 /\ store'.records = store.records /\ store'.generation = store.generation
                                 /\ store'.phase = store.phase /\ store'.status = store.status
                                 /\ store'.admits = store.admits
           /\ PurgeBegins(c) => \/ store' = store
                                \/ /\ store'.generation = store.generation + 1 /\ store'.phase = "running"
                                   /\ store'.status = store.status
           /\ PurgeDeletes(c) => /\ store'.generation = store.generation /\ store'.phase = "complete"
                                 /\ store'.status = store.status
           /\ CreateTenant(c) => \/ store' = store
                                 \/ /\ store'.generation = store.generation /\ store.history = <<>>
                                    /\ store'.history = store.history /\ store'.records = store.records
                                    /\ \A r \in Requests : store.records[r] = "none"
                                    /\ store'.status = store.status
<1>0. store \in StoreType
    BY DEF TypeOK
<1>1. ASSUME DirectCommit(c)
      PROVE  /\ store'.history = store.history \/ store'.history = Append(store.history, c)
             /\ store'.records = store.records /\ store'.generation = store.generation
             /\ store'.phase = store.phase /\ store'.status = store.status /\ store'.admits = store.admits
  <2>1. store' = store \/ store' = [store EXCEPT !.history = Append(store.history, c)]
    BY <1>1 DEF DirectCommit
  <2>2. QED
    BY <1>0, <2>1 DEF StoreType
<1>2. ASSUME PurgeBegins(c)
      PROVE  \/ store' = store
             \/ /\ store'.generation = store.generation + 1 /\ store'.phase = "running"
                /\ store'.status = store.status
  <2>1. store' = store \/ store' = [store EXCEPT !.phase = "running", !.generation = @ + 1]
    BY <1>2 DEF PurgeBegins
  <2>2. QED
    BY <1>0, <2>1 DEF StoreType
<1>3. ASSUME PurgeDeletes(c)
      PROVE  /\ store'.generation = store.generation /\ store'.phase = "complete"
             /\ store'.status = store.status
  <2>1. store' = [store EXCEPT !.history = <<>>, !.phase = "complete",
                               !.records = [r \in Requests |-> "none"]]
    BY <1>3 DEF PurgeDeletes
  <2>2. QED
    BY <1>0, <2>1 DEF StoreType
<1>4. ASSUME CreateTenant(c)
      PROVE  \/ store' = store
             \/ /\ store'.generation = store.generation /\ store.history = <<>>
                /\ store'.history = store.history /\ store'.records = store.records
                /\ \A r \in Requests : store.records[r] = "none"
                /\ store'.status = store.status
  <2>1. store' = store \/ (~Residual /\ store' = [store EXCEPT !.phase = "cleared"])
    BY <1>4 DEF CreateTenant
  <2>2. QED
    BY <1>0, <2>1 DEF StoreType, Residual
<1>5. QED
    BY <1>1, <1>2, <1>3, <1>4, Zenon

LEMMA GenerationStep ==
    ASSUME BaseInv, Next
    PROVE  \/ store'.generation = store.generation
           \/ /\ store'.generation = store.generation + 1
              /\ \E c \in Callers : PurgeBegins(c)
<1>0. TypeOK
    BY DEF BaseInv
<1>1. CASE Publish \/ PublishUnanswered \/ SaveMetadata \/ SaveMetadataFails \/ FailGroup \/ FailGroupPartly
    BY <1>0, <1>1, WorkerStore DEF WorkerStep
<1>2. ASSUME NEW c \in Callers, DirectCommit(c) \/ PurgeDeletes(c) \/ CreateTenant(c)
      PROVE  store'.generation = store.generation
    BY <1>0, <1>2, CallerStore
<1>3. ASSUME NEW c \in Callers, PurgeBegins(c)
      PROVE  store'.generation = store.generation \/ store'.generation = store.generation + 1
    BY <1>0, <1>3, CallerStore
<1>4. QED
    BY <1>1, <1>2, <1>3, StoreCases

LEMMA MarkCallers ==
    ASSUME BaseInv, BaseInv', MarkInv, Next, NEW c \in Callers, Call(c) \/ CallerStep(c) \/ GiveUp(c)
    PROVE  MarkInv'
<1>0. TypeOK /\ TypeOK' /\ store.generation \in Nat /\ store'.generation \in Nat
      /\ caller \in [Callers -> CallerType] /\ gate \in GateType
    BY StoreTypes DEF BaseInv, TypeOK, StoreType
<1>1. /\ log' = log /\ intact' = intact /\ run' = run /\ accept' = accept /\ pending' = pending
      /\ worker' = worker
    BY CallerSteps
<1>w. wal' = wal
    BY DEF CallerStep, Call, EnterGate, Barrier, BarrierDone, TakeLock, DirectCommit, PurgeBegins,
       PurgeDeletes, CreateTenant, GiveUp
<1>2. Entries' = Entries
    BY <1>1 DEF Entries
<1>3. store.generation <= store'.generation
    BY <1>0, GenerationStep
<1>4. \A e \in Entries : EntryMarked(e)'
  <2> SUFFICES ASSUME NEW e \in Entries PROVE EntryMarked(e)'
    OBVIOUS
  <2>1. EntryMarked(e) /\ e.generation \in Nat
    BY <1>0, EntryFacts DEF MarkInv
  <2>2. QED
    BY <1>0, <1>1, <1>w, <1>3, <2>1, EntryKept DEF Working
<1>5. \A r \in Requests : accept'[r].at # "idle" => accept'[r].generation = store'.generation
  <2>1. CASE store'.generation = store.generation
    BY <1>1, <2>1 DEF MarkInv
  <2>2. CASE store'.generation # store.generation
    <3>1. PICK d \in Callers : PurgeBegins(d)
      BY <2>2, GenerationStep
    <3>2. Replacing(d)
      BY <3>1, CallerReplaces
    <3>3. QED
      BY <1>1, <3>2, ReplacingAlone
  <2>3. QED
    BY <2>1, <2>2
\* whoever passes the barrier now saw nothing active
<1>6. ASSUME NEW d \in Callers, Passed(d)' PROVE \A e \in Entries : ~e.plan.made
  <2>1. CASE Passed(d)
    BY <2>1 DEF MarkInv
  <2>2. CASE ~Passed(d) /\ \A r \in Requests : ~pending[r].active
    <3>1. run # "down"
      <4>1. run' # "down"
        BY <1>6 DEF BaseInv, DownInv, Passed, NotCalled
      <4>2. QED
        BY <1>1, <4>1
    <3>2. QED
      BY <1>0, <2>2, <3>1, EntryFacts DEF MarkInv, EntryMarked
  <2>3. ASSUME ~Passed(d) PROVE \A r \in Requests : ~pending[r].active
    <3>1. caller'[d] # caller[d] /\ Operation[d] # "disable"
      BY <1>6, <2>3 DEF Passed
    <3>2. d = c
      <4>1. (\E e : caller' = [caller EXCEPT ![c] = e] \/ caller' = [caller EXCEPT ![c].at = e]) \/ caller' = caller
        BY Zenon DEF CallerStep, Call, EnterGate, Barrier, BarrierDone, TakeLock, DirectCommit, PurgeBegins,
           PurgeDeletes, CreateTenant, GiveUp, Return
      <4>2. QED
        BY <1>0, <3>1, <4>1, CallerUpdates
    <3>3. CASE Barrier(c)
      <4>1. caller[c].at = "gated"
        BY <3>3 DEF Barrier
      <4> DEFINE active == {r \in Requests : pending[r].active}
                 a == IF active = {} THEN "drained" ELSE "flushing"
                 new == [at |-> a, awaiting |-> active]
      <4>2. caller'[c].at = "idle" \/ caller'[c] = new
        <5>1. CASE Return(c)
          BY <1>0, <5>1, Returns
        <5>2. CASE caller' = [caller EXCEPT ![c] = new]
          BY <1>0, <5>2, CallerUpdates
        <5>3. QED
          BY <3>3, <5>1, <5>2 DEF Barrier
      <4>3. caller'[c].at \in {"drained", "locked", "purging"}
        BY <1>6, <3>2 DEF Passed
      <4>4. new.at = a
        OBVIOUS
      <4>5. a = "drained"
        BY <4>2, <4>3, <4>4
      <4>6. QED
        BY <4>5
    <3>4. CASE BarrierDone(c)
      <4>1. caller[c].at = "flushing" /\ Pausing(c)
        BY <3>1, <3>2, <3>4 DEF BarrierDone, Pausing
      <4>2. caller'[c].at # "idle"
        BY <1>6, <3>2 DEF Passed
      <4>3. \A r \in caller[c].awaiting : ~pending[r].active
        BY <1>0, <3>4, <4>2, Returns DEF BarrierDone
      <4>4. QED
        BY <4>1, <4>3 DEF BaseInv, DrainInv
    <3>5. ASSUME ~Barrier(c), ~BarrierDone(c) PROVE FALSE
      <4>1. caller'[c].at \in {"drained", "locked", "purging"} /\ caller[c].at \notin {"drained", "locked", "purging"}
        BY <1>6, <2>3, <3>1, <3>2 DEF Passed
      <4>2. caller'[c].at \in {"idle", "waiting", "gated"} \/ caller'[c] = caller[c]
            \/ caller[c].at \in {"drained", "locked", "purging"}
        <5>1. CASE Call(c) \/ EnterGate(c)
          <6>1. caller' = [caller EXCEPT ![c].at = "gated"] \/ caller' = [caller EXCEPT ![c].at = "waiting"]
            BY <5>1 DEF Call, EnterGate
          <6>2. \A x : [caller EXCEPT ![c].at = x][c].at = x
            BY <1>0, CallerUpdates
          <6>3. QED
            BY <6>1, <6>2
        <5>2. CASE GiveUp(c)
          BY <1>0, <5>2, Returns DEF GiveUp
        <5>3. CASE TakeLock(c) \/ DirectCommit(c) \/ PurgeBegins(c) \/ PurgeDeletes(c) \/ CreateTenant(c)
          BY <5>3 DEF TakeLock, DirectCommit, PurgeBegins, PurgeDeletes, CreateTenant
        <5>4. QED
          BY <3>5, <5>1, <5>2, <5>3 DEF CallerStep
      <4>3. QED
        BY <3>1, <3>2, <4>1, <4>2
    <3>6. QED
      BY <3>3, <3>4, <3>5
  <2>4. QED
    BY <2>1, <2>2, <2>3
<1>7. QED
    BY <1>1, <1>2, <1>4, <1>5, <1>6 DEF MarkInv

\* A plan becomes durable.
LEMMA MarkPrepares ==
    ASSUME BaseInv, BaseInv', MarkInv, FlushInv, Prepares
    PROVE  MarkInv'
<1> DEFINE ids == Ids(worker.todo)
<1>0. TypeOK /\ LogInv /\ store.generation \in Nat /\ store \in StoreType /\ pending \in [Requests -> PendingType]
    BY StoreTypes DEF BaseInv, TypeOK
<1>1. /\ store' = store /\ accept' = accept /\ caller' = caller /\ worker.at = "planning" /\ Working
      /\ (run' = run \/ run' = "fatal")
    BY DEF Prepares, AppendPrepared, AppendPreparedFails, Working
<1>2. \A r \in ids : /\ r \in Requests /\ Held(r) /\ r \in LoggedIds
                     /\ pending[r].plan = NoPlan
    BY <1>1, TodoLogged DEF FlushInv, MarkInv
<1>3. FreshPlan.made
    BY DEF FreshPlan
<1>4. \A c \in Callers : ~Passed(c)'
    BY <1>1, NobodyPassed DEF Passed
<1>5. intact'
  <2>1. CASE AppendPrepared
    BY <1>2, <2>1 DEF AppendPrepared, MarkInv
  <2>2. CASE AppendPreparedFails
    BY <2>2 DEF AppendPreparedFails, MarkInv
  <2>3. QED
    BY <2>1, <2>2 DEF Prepares
<1>6. \/ pending' = pending /\ wal' = "failed"
      \/ /\ wal' = wal
         /\ \A r \in Requests :
              /\ pending'[r].active = pending[r].active
              /\ pending'[r].plan = IF r \in ids THEN FreshPlan ELSE pending[r].plan
  <2>1. CASE AppendPrepared
    BY <1>0, <2>1, PreparedFields DEF AppendPrepared
  <2>2. CASE AppendPreparedFails
    BY <2>2 DEF AppendPreparedFails, LogFails
  <2>3. QED
    BY <2>1, <2>2 DEF Prepares
<1> HIDE DEF ids
<1>7. \A r \in Requests : pending'[r].plan.made \/ pending'[r].plan = NoPlan
    BY <1>3, <1>6 DEF MarkInv
<1>8. \A e \in Entries' : EntryMarked(e)'
  <2> SUFFICES ASSUME NEW e \in Entries' PROVE EntryMarked(e)'
    OBVIOUS
  <2>1. PICK f \in Entries : /\ e.id = f.id /\ e.generation = f.generation
                             /\ e.plan = IF f.id \in ids THEN FreshPlan ELSE f.plan
    BY <1>0, PreparesEntries DEF ids
  <2>2. EntryMarked(f) /\ f.id \in Requests
    BY <1>0, EntryFacts DEF MarkInv
  <2>3. run # "down" /\ run' # "down"
    BY <1>1 DEF Working
  <2>4. pending'[f.id].active = pending[f.id].active
    BY <1>6, <2>2
  <2>5. CASE f.id \in ids
    <3>1. e.plan = FreshPlan /\ pending[f.id].active /\ accept[f.id].at = "idle"
      BY <1>2, <2>1, <2>5 DEF Held
    <3>2. pending'[f.id].plan = FreshPlan \/ (wal' = "failed" /\ pending'[f.id].plan = NoPlan)
      BY <1>2, <1>6, <2>2, <2>5
    <3>3. QED
      BY <1>1, <1>3, <2>1, <2>2, <2>4, <3>1, <3>2 DEF EntryMarked
  <2>6. CASE f.id \notin ids
    <3>1. e.plan = f.plan
      BY <2>1, <2>6
    <3>2. pending'[f.id].plan = pending[f.id].plan /\ (wal = "failed" => wal' = "failed")
      BY <1>6, <2>2, <2>6
    <3>3. QED
      BY <1>1, <2>1, <2>2, <2>3, <2>4, <3>1, <3>2 DEF EntryMarked
  <2>7. QED
    BY <2>5, <2>6
<1>9. QED
    BY <1>1, <1>4, <1>5, <1>7, <1>8 DEF MarkInv

LEMMA MarkWorker ==
    ASSUME BaseInv, BaseInv', MarkInv, FlushInv, Next, WorkerStep \/ WorkerStops
    PROVE  MarkInv'
<1>0. TypeOK /\ LogInv /\ store.generation \in Nat /\ store'.generation \in Nat /\ pending \in [Requests -> PendingType]
      /\ log \in Seq(EntryType) /\ worker \in WorkerType
    BY StoreTypes DEF BaseInv, TypeOK, StoreType
<1>1. CASE Prepares
    BY <1>1, MarkPrepares
<1>2. CASE ~Prepares
  <2>0. run # "down" => ~Restart
    BY DEF Restart
  <2>1. /\ accept' = accept /\ caller' = caller /\ (Working' => Working) /\ (run' = run \/ run' = "fatal")
    BY WorkerSteps
  <2>2. store'.generation = store.generation
    BY <1>0, WorkerStore
  <2>3. worker'.at # "idle" => Working \/ worker.at # "idle"
    <3>1. CASE worker.at = "idle"
      BY <3>1 DEF WorkerStep, Dispatch, NextGroup, FlushDone, EnterTenant, AppendPrepared,
         AppendPreparedFails, FlushRetries, Publish, PublishUnanswered, SaveMetadata, SaveMetadataFails,
         FailGroup, FailGroupPartly, AppendTerminal, AppendTerminalPartly, AppendTerminalFails, WorkerStops, Working
    <3>2. QED
      BY <3>1
  <2>4. ~AppendPrepared
    <3>1. ~AppendPrepared \/ Prepares
      BY DEF AppendPrepared, Prepares
    <3>2. QED
      BY <1>2, <3>1
  <2>5. intact' = intact
    BY <2>4 DEF WorkerStep, Dispatch, NextGroup, FlushDone, EnterTenant,
       AppendPreparedFails, FlushRetries, Publish, PublishUnanswered, SaveMetadata, SaveMetadataFails,
       FailGroup, FailGroupPartly, AppendTerminal, AppendTerminalPartly, AppendTerminalFails, WorkerStops
  \* what is forgotten is not in the log any more
  <2>6. \E ids : /\ \A r \in Requests : pending'[r] = IF r \in ids THEN Inactive ELSE pending[r]
                 /\ \A e \in Entries' : e \in Entries /\ e.id \notin ids
    <3>1. CASE AppendTerminal
      <4>1. log' = Without(log, Ids(worker.group)) /\ pending' = Completed(Ids(worker.group))
        BY <3>1 DEF AppendTerminal
      <4>2. \A e \in Entries' : e \in Entries /\ e.id \notin Ids(worker.group)
        BY <1>0, <4>1, WithoutEntries
      <4>3. QED
        BY <4>1, <4>2 DEF Completed
    <3>2. CASE AppendTerminalPartly
      <4>1. PICK durable \in SUBSET Ids(worker.group) :
              log' = Without(log, durable) /\ pending' = Completed(Ids(Answered(durable)))
        BY <3>2 DEF AppendTerminalPartly
      <4>2. \A e \in Entries' : e \in Entries /\ e.id \notin durable
        BY <1>0, <4>1, WithoutEntries
      <4>3. Ids(Answered(durable)) \subseteq durable
        <5>1. worker.group \in Seq(Requests)
          BY <1>0, WorkerTypes
        <5>2. PICK n \in 0..Len(worker.group) :
                /\ Answered(durable) = SubSeq(worker.group, 1, n)
                /\ \A i \in 1..n : worker.group[i] \in durable
          BY <5>1, AnsweredFacts
        <5>3. Len(SubSeq(worker.group, 1, n)) = n /\ SubSeq(worker.group, 1, n) \in Seq(Requests)
              /\ \A i \in 1..n : SubSeq(worker.group, 1, n)[i] = worker.group[i]
          BY <5>1, IdsOfParts
        <5> DEFINE s == SubSeq(worker.group, 1, n)
        <5> HIDE DEF s
        <5>4. DOMAIN s = 1..n /\ \A i \in 1..n : s[i] \in durable
          BY <5>2, <5>3 DEF s
        <5>5. Ids(s) \subseteq durable
          BY <5>4 DEF Ids
        <5>6. QED
          BY <5>2, <5>5 DEF s
      <4>4. QED
        BY <4>1, <4>2, <4>3 DEF Completed
    <3>3. CASE pending' = pending /\ Shorter
      <4>1. Entries' \subseteq Entries
        BY <3>3, ShorterEntries
      <4> DEFINE none == {}
      <4>2. /\ \A r \in Requests : pending'[r] = IF r \in none THEN Inactive ELSE pending[r]
            /\ \A e \in Entries' : e \in Entries /\ e.id \notin none
        BY <3>3, <4>1
      <4> HIDE DEF none
      <4>3. QED
        BY <4>2
    <3>4. ASSUME ~AppendTerminal, ~AppendTerminalPartly PROVE pending' = pending
      BY <2>4, <3>4 DEF WorkerStep, Dispatch, NextGroup, FlushDone, EnterTenant,
         AppendPreparedFails, FlushRetries, Publish, PublishUnanswered, SaveMetadata, SaveMetadataFails,
         FailGroup, FailGroupPartly, AppendTerminalFails, WorkerStops, Fatal
    <3>5. Shorter
      <4>1. \A r \in Requests : ~Longer(r)
        <5> SUFFICES ASSUME NEW r \in Requests, Longer(r) PROVE FALSE
          OBVIOUS
        <5>1. accept \in [Requests -> AcceptType]
          BY <1>0 DEF TypeOK
        <5>2. accept[r].at = "admitted" /\ \E x \in {"idle", "logged"} : accept' = [accept EXCEPT ![r].at = x]
          BY Zenon DEF Longer, AppendAccepted, AppendAcceptedFails
        <5>3. QED
          BY <2>1, <5>1, <5>2, AcceptUpdates
      <4>2. QED
        BY <1>0, <1>2, <4>1, LogCases
    <3>6. QED
      BY <3>1, <3>2, <3>3, <3>4, <3>5
  <2>7. PICK ids : /\ \A r \in Requests : pending'[r] = IF r \in ids THEN Inactive ELSE pending[r]
                   /\ \A e \in Entries' : e \in Entries /\ e.id \notin ids
    BY <2>6
  <2>8. \A r \in Requests : pending'[r].plan.made \/ pending'[r].plan = NoPlan
    BY <2>7 DEF MarkInv, Inactive
  <2>9. \A e \in Entries' : EntryMarked(e)'
    <3> SUFFICES ASSUME NEW e \in Entries' PROVE EntryMarked(e)'
      OBVIOUS
    <3>1. e \in Entries /\ e.id \notin ids
      BY <2>7
    <3>2. EntryMarked(e) /\ e.id \in Requests /\ e.generation \in Nat
      BY <1>0, <3>1, EntryFacts DEF MarkInv
    <3>3. pending'[e.id] = pending[e.id]
      BY <2>7, <3>1, <3>2
    <3>4. run # "down"
      <4>1. CASE run = "down"
        BY <4>1, IdleFields DEF BaseInv, DownInv, WorkerStep, Dispatch, NextGroup, FlushDone, EnterTenant, AppendPrepared,
         AppendPreparedFails, FlushRetries, Publish, PublishUnanswered, SaveMetadata, SaveMetadataFails,
         FailGroup, FailGroupPartly, AppendTerminal, AppendTerminalPartly, AppendTerminalFails, WorkerStops
      <4>2. QED
        BY <4>1
    <3>5. wal = "failed" => wal' = "failed"
      BY <2>0, <3>4, WalStays
    <3>6. QED
      BY <1>0, <2>1, <2>2, <2>3, <3>2, <3>3, <3>4, <3>5, EntryKept
  <2>10. \A c \in Callers : Passed(c)' => \A e \in Entries' : ~e.plan.made
    BY <2>1, <2>7 DEF MarkInv, Passed
  <2>11. QED
    BY <2>1, <2>2, <2>5, <2>8, <2>9, <2>10 DEF MarkInv
<1>3. QED
    BY <1>1, <1>2

LEMMA MarkStep ==
    ASSUME BaseInv, BaseInv', MarkInv, FlushInv, Next
    PROVE  MarkInv'
<1>0. TypeOK /\ LogInv /\ DownInv /\ store.generation \in Nat
    BY StoreTypes DEF BaseInv, TypeOK
<1>1. CASE Crash \/ Closed
  <2>1. Forget /\ store' = store /\ log' = log /\ intact' = intact /\ run' = "down"
    BY <1>1 DEF Crash, Closed
  <2>2. /\ \A r \in Requests : pending'[r] = Inactive /\ accept'[r].at = "idle"
        /\ worker'.at = "idle" /\ \A c \in Callers : ~Passed(c)'
    BY <2>1, IdleFields DEF Forget, Passed, NotCalled
  <2>3. Entries' = Entries
    BY <2>1 DEF Entries
  <2>4. Inactive.plan = NoPlan /\ ~Inactive.active
    BY DEF Inactive
  <2>5. ASSUME NEW e \in Entries PROVE EntryMarked(e)'
    <3>1. EntryMarked(e) /\ e.id \in Requests
      BY <1>0, EntryFacts DEF MarkInv
    <3>2. QED
      BY <2>1, <2>2, <2>4, <3>1 DEF EntryMarked
  <2>6. QED
    BY <2>1, <2>2, <2>3, <2>4, <2>5 DEF MarkInv
<1>2. CASE Close
  <2>1. /\ UNCHANGED <<store, log, intact, wal, pending, accept, worker, caller>> /\ Working /\ run = "up"
        /\ run' = "closing"
    BY <1>2 DEF Close, volatile, Working
  <2>2. Entries' = Entries
    BY <2>1 DEF Entries
  <2>3. ASSUME NEW e \in Entries PROVE EntryMarked(e)'
    BY <2>1 DEF EntryMarked, MarkInv
  <2>4. QED
    BY <2>1, <2>2, <2>3 DEF MarkInv, Passed
<1>3. CASE Restart
  <2>1. /\ UNCHANGED <<store, log, intact, accept, worker, caller>> /\ run = "down"
        /\ \A r \in Requests : accept[r].at = "idle"
        /\ \A c \in Callers : caller[c].at = "idle"
    BY <1>0, <1>3 DEF Restart, DownInv, NotCalled
  <2>2. Entries' = Entries
    BY <2>1 DEF Entries
  <2>3. \A r \in Requests : IF r \in LoggedIds THEN \E e \in Entries : e.id = r /\ pending'[r].plan = e.plan /\ pending'[r].active
                            ELSE pending'[r] = Inactive
    <3> SUFFICES ASSUME NEW r \in Requests
                 PROVE  IF r \in LoggedIds THEN \E e \in Entries : e.id = r /\ pending'[r].plan = e.plan /\ pending'[r].active
                        ELSE pending'[r] = Inactive
      OBVIOUS
    <3>1. CASE r \notin LoggedIds
      BY <1>3, <3>1 DEF Restart
    <3>2. CASE r \in LoggedIds
      <4> DEFINE i == CHOOSE i \in DOMAIN log : log[i].id = r
      <4>1. i \in DOMAIN log /\ log[i].id = r
        BY <3>2 DEF LoggedIds
      <4>2. pending'[r] = [active |-> TRUE, generation |-> log[i].generation, plan |-> log[i].plan]
        BY <1>3, <3>2 DEF Restart
      <4> HIDE DEF i
      <4>3. pending'[r].plan = log[i].plan /\ pending'[r].active
        BY <4>2
      <4>4. log[i] \in Entries
        BY <4>1 DEF Entries
      <4>5. QED
        BY <3>2, <4>1, <4>3, <4>4
    <3>3. QED
      BY <3>1, <3>2
  <2>4. Inactive.plan = NoPlan /\ ~Inactive.active
    BY DEF Inactive
  <2>5. ASSUME NEW e \in Entries PROVE EntryMarked(e)'
    <3>1. EntryMarked(e) /\ e.id \in Requests /\ e.id \in LoggedIds
      BY <1>0, EntryFacts DEF MarkInv
    <3>2. PICK f \in Entries : f.id = e.id /\ pending'[e.id].plan = f.plan /\ pending'[e.id].active
      BY <2>3, <3>1
    <3>3. f = e
      BY <1>0, <3>2, OneEntry
    <3>4. QED
      BY <2>1, <3>1, <3>2, <3>3 DEF EntryMarked
  <2>6. \A r \in Requests : pending'[r].plan.made \/ pending'[r].plan = NoPlan
    <3>1. \A e \in Entries : e.plan.made \/ e.plan = NoPlan
      BY DEF MarkInv, EntryMarked
    <3>2. QED
      BY <2>3, <2>4, <3>1
  <2>7. \A c \in Callers : ~Passed(c)'
    BY <2>1 DEF Passed
  <2>8. QED
    BY <2>1, <2>2, <2>5, <2>6, <2>7 DEF MarkInv
<1>4. QED
    BY <1>1, <1>2, <1>3, MarkAccepts, MarkCallers, MarkWorker DEF Next

-----------------------------------------------------------------------------
(* The group of the worker and its plans.                                  *)

\* Steps of others leave the group alone.
LEMMA FlushKeeps ==
    ASSUME BaseInv, FlushInv, worker' = worker,
           \A r \in Ids(worker.group) : pending'[r] = pending[r],
           worker.at \in {"planning", "planned", "published"} =>
             /\ store'.phase = store.phase
             /\ store'.records = store.records /\ store'.admits = store.admits
    PROVE  FlushInv'
<1>1. worker.at = "entering" => \A r, s \in Ids(worker.group) : SameCohort(r, s)'
  <2> SUFFICES ASSUME worker.at = "entering", NEW r \in Ids(worker.group), NEW s \in Ids(worker.group)
               PROVE  SameCohort(r, s)'
    OBVIOUS
  <2>1. SameCohort(r, s)
    BY DEF FlushInv
  <2>2. QED
    BY <2>1 DEF SameCohort
<1>2. worker.at = "planning" => Candidates' = Candidates /\ FreshCommits' = FreshCommits
    BY DEF Candidates, FreshCommits, Admits
<1>3. worker.at \in {"planning", "planned", "published"} => Ids(worker.todo) \subseteq Ids(worker.group)
    BY DEF BaseInv, CohortInv
<1>4. QED
    BY <1>1, <1>2, <1>3 DEF FlushInv

LEMMA FlushIdles ==
    ASSUME worker'.at \in {"idle", "group", "failing", "recorded"}
    PROVE  FlushInv'
BY DEF FlushInv

LEMMA FlushStep ==
    ASSUME BaseInv, BaseInv', FlushInv, Next
    PROVE  FlushInv'
<1>0. /\ TypeOK /\ worker \in WorkerType /\ store \in StoreType /\ pending \in [Requests -> PendingType]
      /\ worker.group \in Seq(Requests) /\ PipeInv
      /\ worker.rest \in Seq(Requests)
    BY WorkerTypes DEF BaseInv, TypeOK
<1>00. \A r \in Ids(worker.group) : r \in Requests /\ Held(r)
    BY <1>0 DEF Ids, PipeInv
<1>1. ASSUME NEW r \in Requests, AcceptBegin(r) \/ AcceptStep(r) PROVE FlushInv'
  <2>1. store' = store /\ worker' = worker /\ \A s \in Requests \ {r} : pending'[s] = pending[s]
    BY <1>0, <1>1, AcceptSteps
  <2>2. r \notin Ids(worker.group)
    BY <1>1, <1>00 DEF Held, AcceptStep, AcceptBegin, AcceptRefused, AppendAccepted, AppendAcceptedFails, Activate, Enqueue
  <2>3. QED
    BY <1>00, <2>1, <2>2, FlushKeeps
<1>2. ASSUME NEW c \in Callers, Call(c) \/ CallerStep(c) \/ GiveUp(c) PROVE FlushInv'
  <2>1. worker' = worker /\ pending' = pending
    BY <1>2, CallerSteps
  <2>2. CASE store' = store
    BY <2>1, <2>2, FlushKeeps
  <2>3. CASE DirectCommit(c)
    <3>1. store'.phase = store.phase /\ store'.records = store.records /\ store'.admits = store.admits
      BY <1>0, <2>3, CallerStore
    <3>2. QED
      BY <2>1, <3>1, FlushKeeps
  <2>4. CASE PurgeBegins(c) \/ PurgeDeletes(c) \/ CreateTenant(c)
    <3>1. worker.at \in {"idle", "group"}
      BY <2>4, CallerReplaces, ReplacingAlone
    <3>2. QED
      BY <2>1, <3>1, FlushIdles
  <2>5. QED
    BY <1>2, <2>2, <2>3, <2>4 DEF CallerStep, Call, EnterGate, Barrier, BarrierDone, TakeLock, GiveUp
<1>3. CASE Crash \/ Closed
  <2>1. worker'.at = "idle"
    BY <1>3, IdleFields DEF Crash, Closed, Forget
  <2>2. QED
    BY <2>1, FlushIdles
<1>4. CASE Close
    BY <1>4, FlushKeeps DEF Close, volatile
<1>5. CASE Restart
  <2>1. worker'.at = "idle"
    BY <1>5, IdleFields DEF Restart, BaseInv, DownInv
  <2>2. QED
    BY <2>1, FlushIdles
<1>6. CASE FlushDone \/ AppendPreparedFails \/ FlushRetries \/ PublishUnanswered \/ SaveMetadataFails
             \/ FailGroupPartly \/ AppendTerminalPartly \/ AppendTerminalFails \/ WorkerStops
    BY <1>6, IdlingFields, FlushIdles
<1>7. CASE Dispatch
    BY <1>7, DispatchFields, FlushIdles
<1>8. CASE AppendTerminal
    BY <1>0, <1>8, TerminalFields, FlushIdles
<1>9. CASE SaveMetadata \/ FailGroup
    BY <1>0, <1>9, OnwardFields, FlushIdles
<1>10. CASE NextGroup
  <2>1. PICK n \in 1..Len(worker.rest) :
             /\ worker'.at = IF Writable THEN "entering" ELSE "failing"
             /\ worker'.group = SubSeq(worker.rest, 1, n)
             /\ \A i \in 1..n : SameCohort(worker.rest[1], worker.rest[i])
    BY <1>0, <1>10, NextGroupFields
  <2>2. pending' = pending
    BY <1>10 DEF NextGroup
  <2> DEFINE s == SubSeq(worker.rest, 1, n)
  <2>3. s \in Seq(Requests) /\ Len(s) = n /\ \A i \in 1..n : s[i] = worker.rest[i]
    <3>1. n \in 0..Len(worker.rest)
      BY <1>0
    <3>2. QED
      BY <1>0, <3>1, IdsOfParts
  <2> HIDE DEF s
  <2>4. \A x \in Ids(s) : SameCohort(worker.rest[1], x)
    <3>1. DOMAIN s = 1..n
      BY <2>3
    <3>2. QED
      BY <2>1, <2>3, <3>1 DEF Ids
  <2>5. \A x, y \in Ids(s) : SameCohort(x, y)'
    BY <2>2, <2>4 DEF SameCohort
  <2>6. worker'.group = s
    BY <2>1 DEF s
  <2>7. QED
    BY <2>1, <2>5, <2>6 DEF FlushInv
<1>11. CASE EnterTenant
  <2>1. store' = store /\ pending' = pending
    BY <1>11 DEF EnterTenant
  <2>2. worker.at = "entering" /\ worker.group # <<>>
    BY <1>0, <1>11, EnterFields DEF PipeInv
  <2>3. worker.group[1] \in Ids(worker.group)
    BY <1>0, <2>2 DEF Ids
  <2>4. \A r \in Ids(worker.group) : pending[r].plan = CohortPlan
    BY <2>2, <2>3 DEF FlushInv, SameCohort, CohortPlan
  <2>5. Ids(Candidates) \subseteq Ids(worker.group)
    BY <1>0, CandidatesFacts
  <2>6. CASE worker'.at = "failing" \/ worker' = IdleWorker
    BY <2>6, IdleFields, FlushIdles
  <2>7. CASE /\ worker'.at = "planned" /\ worker'.todo = Candidates /\ Writable /\ CohortPlan.made
    <3>1. \A r \in Ids(worker'.todo) : pending'[r].plan.made
      BY <2>1, <2>4, <2>5, <2>7
    <3>2. QED
      BY <2>1, <2>7, <3>1 DEF FlushInv, Writable
  <2>8. CASE /\ worker'.at = "planning" /\ worker'.group = worker.group
             /\ worker'.todo = Candidates /\ worker'.commits = FreshCommits /\ Writable /\ ~CohortPlan.made
    <3>1. Candidates' = Candidates /\ FreshCommits' = FreshCommits
      BY <2>1, <2>8 DEF Candidates, FreshCommits, Admits
    <3>2. \A r \in Ids(worker'.group) : ~pending'[r].plan.made
      BY <2>1, <2>4, <2>8
    <3>3. QED
      BY <2>1, <2>8, <3>1, <3>2 DEF FlushInv, Writable
  <2>9. QED
    BY <1>0, <1>11, <2>6, <2>7, <2>8, EnterFields
<1>12. CASE AppendPrepared
  <2>1. /\ worker'.at = "planned" /\ worker'.todo = worker.todo /\ worker.at = "planning"
    BY <1>0, <1>12, OnwardFields
  <2>2. store' = store
    BY <1>12 DEF AppendPrepared
  <2>3. \A r \in Ids(worker.todo) : pending'[r].plan.made
    <3>1. \A r \in Ids(worker.todo) : r \in Requests
      BY <2>1, TodoLogged
    <3>2. FreshPlan.made
      BY DEF FreshPlan
    <3>3. QED
      BY <1>0, <1>12, <3>1, <3>2, PreparedFields
  <2>4. QED
    BY <2>1, <2>2, <2>3 DEF FlushInv
<1>13. CASE Publish
  <2>1. worker'.at = "published" /\ worker'.todo = worker.todo /\ worker.at = "planned"
    BY <1>0, <1>13, OnwardFields
  <2>2. pending' = pending
    BY <1>13 DEF Publish
  <2>3. store'.phase = store.phase
    BY <1>0, <1>13, WorkerStore DEF WorkerStep
  <2>4. QED
    BY <2>1, <2>2, <2>3 DEF FlushInv
<1>14. QED
    BY <1>1, <1>2, <1>3, <1>4, <1>5, <1>6, <1>7, <1>8, <1>9, <1>10, <1>11, <1>12, <1>13 DEF Next, WorkerStep

-----------------------------------------------------------------------------
(* Prepared in log order.                                                  *)

LEMMA LoggedInPipe ==
    ASSUME BaseInv, OrderInv, Working, NEW r \in LoggedIds
    PROVE  r \in Ids(Pipe)
<1>1. r \in Requests
    BY EntryFields DEF BaseInv, TypeOK, LoggedIds
<1>2. CASE pending[r].active
    BY <1>1, <1>2 DEF OrderInv
<1>3. CASE accept[r].at = "logged"
  <2>1. Ids(order) \subseteq Ids(Pipe)
    BY PipeParts DEF BaseInv, TypeOK
  <2>2. QED
    BY <1>1, <1>3, <2>1 DEF BaseInv, PipeInv
<1>4. QED
    BY <1>2, <1>3 DEF BaseInv, LogInv

\* What was logged before a request of the group and is still outstanding is
\* in the group too.
LEMMA GroupAhead ==
    ASSUME BaseInv, OrderInv, NEW i \in DOMAIN log, NEW j \in DOMAIN log, i < j,
           log[j].id \in Ids(worker.group), log[i].id \in Ids(Pipe)
    PROVE  log[i].id \in Ids(worker.group)
<1> DEFINE g == worker.group
           t == worker.rest \o (queue \o order)
<1>1. g \in Seq(Requests) /\ t \in Seq(Requests) /\ Pipe = g \o t
  <2>1. worker.rest \in Seq(Requests) /\ queue \in Seq(Requests) /\ order \in Seq(Requests) /\ g \in Seq(Requests)
    BY WorkerTypes DEF BaseInv, TypeOK
  <2>2. \A x, y \in Seq(Requests) : x \o y \in Seq(Requests)
    OBVIOUS
  <2>3. t \in Seq(Requests)
    BY <2>1, <2>2
  <2>4. Pipe = g \o t
    BY DEF Pipe
  <2>5. QED
    BY <2>1, <2>3, <2>4
<1>2. PICK q \in DOMAIN g : g[q] = log[j].id
    BY DEF Ids
<1>3. PICK p \in DOMAIN Pipe : Pipe[p] = log[i].id
    BY DEF Ids
<1> HIDE DEF g, t
<1>4. q \in DOMAIN Pipe /\ Pipe[q] = log[j].id
    BY <1>1, <1>2
<1>5. p < q
    BY <1>3, <1>4 DEF OrderInv
<1>6. p \in DOMAIN g /\ Pipe[p] = g[p]
    BY <1>1, <1>2, <1>3, <1>5
<1>7. QED
    BY <1>3, <1>6 DEF Ids, g

\* Where there is a plan the tenant keeps its generation and its records.
LEMMA PlansKeepStore ==
    ASSUME BaseInv, MarkInv, Next
    PROVE  \/ /\ store'.generation = store.generation
              /\ \A r \in Requests : store'.records[r] = "none" => store.records[r] = "none"
           \/ log' = log /\ \A e \in Entries : ~e.plan.made
<1>1. ASSUME NEW c \in Callers, PurgeBegins(c) \/ PurgeDeletes(c)
      PROVE  log' = log /\ \A e \in Entries : ~e.plan.made
  <2>1. Passed(c)
    BY <1>1, CallerReplaces
  <2>2. log' = log
    BY <1>1 DEF PurgeBegins, PurgeDeletes
  <2>3. QED
    BY <2>1, <2>2 DEF MarkInv
<1>2. QED
    BY <1>1, RecordsStep DEF BaseInv

LEMMA PreparedStep ==
    ASSUME BaseInv, OrderInv, MarkInv, FlushInv, PreparedInLogOrder, Next
    PROVE  PreparedInLogOrder'
<1>0. TypeOK /\ LogInv /\ log \in Seq(EntryType) /\ worker.group \in Seq(Requests)
    BY WorkerTypes DEF BaseInv, TypeOK
<1>00. DOMAIN log \subseteq Nat /\ \A i \in DOMAIN log : log[i].id \in Requests /\ log[i] \in Entries /\ log[i].id \in LoggedIds
    BY <1>0, EntryFields DEF Entries, LoggedIds
<1> DEFINE Gained == \A r \in Requests : store'.records[r] = "none" => store.records[r] = "none"
<1>1. ASSUME NEW i \in DOMAIN log', NEW j \in DOMAIN log', i < j, log'[j].plan.made,
             log'[i].generation = log'[j].generation, log'[j].generation = store'.generation,
             store'.records[log'[i].id] = "none"
      PROVE  log'[i].plan.made
  <2>1. CASE Shorter
    <3>1. PICK at \in [DOMAIN log' -> DOMAIN log] :
            /\ \A k, m \in DOMAIN log' : k < m => at[k] < at[m]
            /\ \A k \in DOMAIN log' : log'[k] = log[at[k]]
      BY <2>1 DEF Shorter
    <3>2. /\ at[i] \in DOMAIN log /\ at[j] \in DOMAIN log /\ at[i] < at[j]
          /\ log'[i] = log[at[i]] /\ log'[j] = log[at[j]]
      BY <1>1, <3>1
    <3>3. store'.generation = store.generation /\ Gained
      BY <1>00, <1>1, <3>2, PlansKeepStore
    <3>4. store.records[log[at[i]].id] = "none"
      BY <1>00, <1>1, <3>2, <3>3
    <3>5. QED
      BY <1>1, <3>2, <3>3, <3>4 DEF PreparedInLogOrder
  <2>2. CASE \E r \in Requests : Longer(r)
    <3>1. PICK r \in Requests : Longer(r)
      BY <2>2
    <3>2. /\ DOMAIN log' = DOMAIN log \union {Len(log) + 1}
          /\ \A k \in DOMAIN log : log'[k] = log[k] /\ k < Len(log) + 1
          /\ log'[Len(log) + 1].plan = NoPlan /\ store' = store
      BY <1>0, <3>1, LongerFacts
    <3>3. ~NoPlan.made
      BY DEF NoPlan
    <3>4. j \in DOMAIN log
      BY <1>1, <3>2, <3>3
    <3>5. i \in DOMAIN log
      <4>1. Len(log) \in Nat
        BY <1>0
      <4>2. QED
        BY <1>00, <1>1, <3>2, <3>4, <4>1
    <3>6. log'[i] = log[i] /\ log'[j] = log[j]
      BY <3>2, <3>4, <3>5
    <3>7. QED
      BY <1>1, <3>2, <3>4, <3>5, <3>6 DEF PreparedInLogOrder
  <2>3. CASE Prepares
    <3> DEFINE ids == Ids(worker.todo)
               plan == FreshPlan
    <3>1. log' = WithPlan(log, ids, plan) /\ store' = store /\ worker.at = "planning" /\ Working
      BY <2>3 DEF Prepares, AppendPrepared, AppendPreparedFails, Working
    <3>2. plan.made
      BY DEF FreshPlan
    <3> HIDE DEF ids, plan
    <3>3. /\ DOMAIN log' = DOMAIN log
          /\ \A k \in DOMAIN log :
                /\ log'[k].id = log[k].id /\ log'[k].generation = log[k].generation
                /\ log'[k].plan = IF log[k].id \in ids THEN plan ELSE log[k].plan
      BY <1>0, <3>1, WithPlanFacts
    <3>4. i \in DOMAIN log /\ j \in DOMAIN log
      BY <1>1, <3>3
    <3>5. CASE log[j].id \in ids
      <4>1. log[j].id \in Ids(worker.group)
        BY <3>1, <3>5, TodoLogged DEF ids
      <4>2. log[i].id \in Ids(Pipe)
        BY <1>00, <3>1, <3>4, LoggedInPipe
      <4>3. log[i].id \in Ids(worker.group)
        BY <1>1, <3>4, <4>1, <4>2, GroupAhead
      <4>4. store.records[log[i].id] = "none"
        BY <1>1, <3>1, <3>3, <3>4
      <4>5. log[i].id \in Ids(Candidates)
        BY <1>0, <4>3, <4>4, CandidatesFacts
      <4>6. log[i].id \in ids
        BY <3>1, <4>5 DEF FlushInv, ids
      <4>7. QED
        BY <3>2, <3>3, <3>4, <4>6
    <3>6. CASE log[j].id \notin ids
      <4>1. log[j].plan.made
        BY <1>1, <3>3, <3>4, <3>6
      <4>2. log[i].plan.made
        BY <1>1, <3>1, <3>3, <3>4, <4>1 DEF PreparedInLogOrder
      <4>3. QED
        BY <3>2, <3>3, <3>4, <4>2
    <3>7. QED
      BY <3>5, <3>6
  <2>4. QED
    BY <1>0, <2>1, <2>2, <2>3, LogCases
<1>2. QED
    BY <1>1 DEF PreparedInLogOrder

-----------------------------------------------------------------------------
(* One plan at a time.                                                     *)

\* A fresh plan for a group that is not empty finds no other plan in force:
\* its requests would be behind the group in the log, and so would the
\* group have been prepared before them.
LEMMA FreshAlone ==
    ASSUME BaseInv, OrderInv, MarkInv, FlushInv, PreparedInLogOrder, worker.at = "planning", Working,
           wal = "open", NEW r \in Ids(worker.todo), NEW e \in Entries
    PROVE  ~InForce(e)
<1> SUFFICES ASSUME InForce(e) PROVE FALSE
    OBVIOUS
<1>0. TypeOK /\ LogInv /\ log \in Seq(EntryType)
    BY DEF BaseInv, TypeOK
<1>1. r \in Requests /\ r \in Ids(worker.group) /\ Held(r) /\ r \in LoggedIds /\ store.records[r] = "none" /\ Current(r)
    BY TodoLogged
<1>2. PICK j \in DOMAIN log : log[j].id = r
    BY <1>1 DEF LoggedIds
<1>3. PICK i \in DOMAIN log : log[i] = e
    BY DEF Entries
<1>4. ~log[j].plan.made /\ log[j].generation = store.generation
  <2>1. EntryMarked(log[j])
    BY DEF MarkInv, Entries
  <2>2. pending[r].plan = log[j].plan
    BY <1>1, <1>2, <2>1 DEF EntryMarked, Held
  <2>3. ~pending[r].plan.made
    BY <1>1 DEF FlushInv
  <2>4. log[j].generation = pending[r].generation
    BY <1>0, <1>1, <1>2 DEF LogInv, Held
  <2>5. QED
    BY <1>1, <2>2, <2>3, <2>4 DEF Current
<1>5. log[i].plan.made /\ log[i].generation = store.generation
    BY <1>3 DEF InForce
<1>6. log[i].id \notin Ids(worker.group)
  <2> SUFFICES ASSUME log[i].id \in Ids(worker.group) PROVE FALSE
    OBVIOUS
  <2>1. EntryMarked(log[i])
    BY DEF MarkInv, Entries
  <2>2. pending[log[i].id].active
    BY DEF BaseInv, PipeInv, Held
  <2>3. pending[log[i].id].plan = log[i].plan
    BY <2>1, <2>2 DEF EntryMarked
  <2>4. QED
    BY <1>5, <2>3 DEF FlushInv
<1>7. i # j /\ i \in Nat /\ j \in Nat
    BY <1>0, <1>1, <1>2, <1>6
<1>8. CASE i < j
  <2>1. log[i].id \in Ids(Pipe)
    BY LoggedInPipe DEF LoggedIds
  <2>2. QED
    BY <1>1, <1>2, <1>6, <1>8, <2>1, GroupAhead
<1>9. CASE j < i
    BY <1>1, <1>2, <1>4, <1>5, <1>9 DEF PreparedInLogOrder
<1>10. QED
    BY <1>7, <1>8, <1>9

LEMMA ForceKeeps ==
    ASSUME TypeOK', OnePlan, PlansFit, \A e \in Entries' : e.plan.made => e \in Entries,
           store'.generation = store.generation, store'.history = store.history, store'.admits = store.admits,
           \A r \in Requests : store'.records[r] = "none" => store.records[r] = "none"
    PROVE  OnePlan' /\ PlansFit'
<1>1. \A e \in Entries' : InForce(e)' => e \in Entries /\ InForce(e) /\ e.id \in Requests
  <2>1. \A e \in Entries' : e.id \in Requests
    <3>1. \A i \in DOMAIN log' : log'[i] \in EntryType
      BY DEF TypeOK
    <3>2. QED
      BY <3>1 DEF Entries, EntryType
  <2>2. QED
    BY <2>1 DEF InForce
<1>2. OnePlan'
    BY <1>1 DEF OnePlan
<1>3. ASSUME NEW e \in Entries', InForce(e)'
      PROVE  /\ (AtBase(e.plan) \/ AtFinal(e.plan))'
             /\ Admits(e.id)' /\ store'.records[e.id] = "none" => e.id \in Ids(e.plan.commits)
  <2>1. e \in Entries /\ InForce(e) /\ e.id \in Requests
    BY <1>1, <1>3
  <2>2. (AtBase(e.plan) \/ AtFinal(e.plan))'
    BY <2>1 DEF PlansFit, AtBase, AtFinal
  <2>3. Admits(e.id)' => Admits(e.id)
    BY DEF Admits
  <2>4. QED
    BY <2>1, <2>2, <2>3 DEF PlansFit
<1>4. QED
    BY <1>2, <1>3 DEF PlansFit

LEMMA CommitsKeep ==
    ASSUME CommitsFit, \A e \in Entries' : e.plan.made => e \in Entries,
           worker'.at = "planned" => /\ worker.at = "planned" /\ worker'.commits = worker.commits
                                     /\ store'.generation = store.generation /\ store'.history = store.history
    PROVE  CommitsFit'
<1>1. \A e \in Entries' : InForce(e)' /\ store'.generation = store.generation => e \in Entries /\ InForce(e)
    BY DEF InForce
<1>2. ASSUME NEW e \in Entries', worker'.at = "planned", InForce(e)', worker.commits # <<>>
      PROVE  AtBase(e.plan)' /\ worker'.commits = e.plan.commits
    BY <1>1, <1>2 DEF CommitsFit, AtBase
<1>3. QED
    BY <1>2 DEF CommitsFit

\* The plan is behind the manifest once its commits are published.
LEMMA CommitsReachFinal ==
    ASSUME store \in StoreType, NEW plan \in PlanType, AtBase(plan), plan.commits # <<>>,
           store'.history = store.history \o plan.commits
    PROVE  AtFinal(plan)' /\ ~AtFinal(plan)
<1> DEFINE h == store.history
           c == plan.commits
<1>1. h \in Seq(Requests \union Callers) /\ c \in Seq(Requests) /\ plan.base \in Nat
    BY StoreTypes DEF PlanType
<1>2. c # <<>> /\ store'.history = h \o c /\ Len(h) = plan.base
    BY DEF AtBase
<1> HIDE DEF h, c
<1>3. Len(c) \in Nat /\ Len(c) > 0
    BY <1>1, <1>2
<1>4. Len(h \o c) = plan.base + Len(c) /\ h \o c # <<>> /\ (h \o c)[Len(h \o c)] = c[Len(c)]
    BY <1>1, <1>2, <1>3
<1>5. AtFinal(plan)'
    BY <1>2, <1>4 DEF AtFinal, FinalVersion, FinalHead, HeadCommit, c
<1>6. ~AtFinal(plan)
    BY <1>1, <1>2, <1>3 DEF AtFinal, FinalVersion, c, h
<1>7. QED
    BY <1>5, <1>6

LEMMA ForcePublishes ==
    ASSUME BaseInv, BaseInv', ForceInv, Publish \/ PublishUnanswered
    PROVE  ForceInv'
<1>0. TypeOK /\ TypeOK' /\ store \in StoreType /\ worker \in WorkerType
    BY DEF BaseInv, TypeOK
<1>1. store' = [store EXCEPT !.history = store.history \o worker.commits] /\ worker.at = "planned" /\ log' = log
    BY DEF Publish, PublishUnanswered
<1>2. /\ store'.history = store.history \o worker.commits /\ store'.generation = store.generation
      /\ store'.admits = store.admits /\ store'.records = store.records
    BY <1>0, <1>1 DEF StoreType
<1>3. Entries' = Entries
    BY <1>1 DEF Entries
<1>4. worker'.at # "planned"
  <2>1. CASE Publish
    BY <1>0, <2>1, OnwardFields
  <2>2. CASE PublishUnanswered
    BY <2>2, IdlingFields
  <2>3. QED
    BY <2>1, <2>2
<1>5. CASE worker.commits = <<>>
  <2>1. store'.history = store.history
    <3>1. store.history \in Seq(Requests \union Callers)
      BY <1>0, StoreTypes
    <3>2. QED
      BY <1>2, <1>5, <3>1
  <2>2. OnePlan' /\ PlansFit'
    BY <1>0, <1>2, <1>3, <2>1, ForceKeeps DEF ForceInv
  <2>3. QED
    BY <1>4, <2>2 DEF ForceInv, CommitsFit
<1>6. CASE worker.commits # <<>>
  <2>1. \A e \in Entries : InForce(e)' => InForce(e) /\ AtBase(e.plan) /\ e.plan.commits = worker.commits
    BY <1>1, <1>2, <1>6 DEF InForce, ForceInv, CommitsFit
  <2>2. OnePlan'
    BY <1>3, <2>1 DEF OnePlan, ForceInv
  <2>3. ASSUME NEW e \in Entries, InForce(e)'
        PROVE  AtFinal(e.plan)' /\ (Admits(e.id)' /\ store'.records[e.id] = "none" => e.id \in Ids(e.plan.commits))
    <3>1. InForce(e) /\ AtBase(e.plan) /\ e.plan.commits = worker.commits
      BY <2>1, <2>3
    <3>2. e.plan \in PlanType
      BY <1>0, EntryFacts
    <3>3. AtFinal(e.plan)'
      BY <1>0, <1>2, <1>6, <3>1, <3>2, CommitsReachFinal
    <3>4. QED
      BY <1>2, <3>1, <3>3 DEF ForceInv, PlansFit, Admits
  <2>4. QED
    BY <1>3, <1>4, <2>2, <2>3 DEF ForceInv, PlansFit, CommitsFit
<1>7. QED
    BY <1>5, <1>6

LEMMA ForcePrepares ==
    ASSUME BaseInv, BaseInv', OrderInv, MarkInv, FlushInv, PreparedInLogOrder, ForceInv, Prepares
    PROVE  ForceInv'
<1> DEFINE ids == Ids(worker.todo)
<1>0. TypeOK /\ worker \in WorkerType /\ worker.group \in Seq(Requests) /\ worker.commits \in Seq(Requests)
    BY WorkerTypes DEF BaseInv, TypeOK
<1>1. /\ store' = store /\ worker.at = "planning" /\ Working /\ (wal = "open" \/ worker.todo = <<>>)
    BY DEF Prepares, AppendPrepared, AppendPreparedFails, Working
<1>2. /\ worker.todo = Candidates /\ worker.commits = FreshCommits
      /\ Ids(FreshCommits) = {r \in ids : Admits(r)}
    BY <1>0, <1>1, CandidatesFacts DEF FlushInv
<1>3. FreshPlan.commits = FreshCommits /\ AtBase(FreshPlan)
    BY DEF FreshPlan, AtBase
<1>4. worker'.at = "planned" => worker'.commits = worker.commits
  <2>1. CASE AppendPrepared
    BY <1>0, <2>1, OnwardFields
  <2>2. CASE AppendPreparedFails
    BY <2>2, IdlingFields
  <2>3. QED
    BY <2>1, <2>2 DEF Prepares
<1>5. \A e \in Entries' : \E f \in Entries :
        /\ e.id = f.id /\ e.generation = f.generation
        /\ e.plan = IF f.id \in ids THEN FreshPlan ELSE f.plan
    BY <1>0, PreparesEntries
<1> HIDE DEF ids
<1>6. CASE ids = {}
  <2>1. \A e \in Entries' : \E f \in Entries : e.id = f.id /\ e.generation = f.generation /\ e.plan = f.plan
    BY <1>5, <1>6
  <2>2. worker.commits = <<>>
    BY <1>0, <1>2, <1>6, NoIds
  <2>3. OnePlan'
    BY <1>1, <2>1 DEF OnePlan, ForceInv, InForce
  <2>4. PlansFit'
    <3> SUFFICES ASSUME NEW e \in Entries', InForce(e)'
                 PROVE  /\ (AtBase(e.plan) \/ AtFinal(e.plan))'
                        /\ Admits(e.id)' /\ store'.records[e.id] = "none" => e.id \in Ids(e.plan.commits)
      BY DEF PlansFit
    <3>1. PICK f \in Entries : e.id = f.id /\ e.generation = f.generation /\ e.plan = f.plan
      BY <2>1
    <3>2. InForce(f)
      BY <1>1, <3>1 DEF InForce
    <3>3. QED
      BY <1>1, <3>1, <3>2 DEF PlansFit, ForceInv, AtBase, AtFinal, Admits
  <2>5. QED
    BY <1>4, <2>2, <2>3, <2>4 DEF ForceInv, CommitsFit
<1>7. CASE ids # {}
  <2>1. \A f \in Entries : ~InForce(f)
    <3>1. wal = "open" /\ \E r : r \in Ids(worker.todo)
      BY <1>1, <1>7, EmptyIds DEF ids
    <3>2. QED
      BY <1>1, <3>1, FreshAlone
  <2>2. \A e \in Entries' : InForce(e)' => e.id \in ids /\ e.plan = FreshPlan
    <3> SUFFICES ASSUME NEW e \in Entries', InForce(e)' PROVE e.id \in ids /\ e.plan = FreshPlan
      OBVIOUS
    <3>1. PICK f \in Entries : /\ e.id = f.id /\ e.generation = f.generation
                               /\ e.plan = IF f.id \in ids THEN FreshPlan ELSE f.plan
      BY <1>5
    <3>2. QED
      BY <1>1, <2>1, <3>1 DEF InForce
  <2>3. OnePlan'
    BY <2>2 DEF OnePlan
  <2>4. PlansFit'
    <3> SUFFICES ASSUME NEW e \in Entries', InForce(e)'
                 PROVE  AtBase(e.plan)' /\ (Admits(e.id)' => e.id \in Ids(e.plan.commits))
      BY DEF PlansFit
    <3>1. e.id \in ids /\ e.plan = FreshPlan
      BY <2>2
    <3>2. AtBase(e.plan)'
      BY <1>1, <1>3, <3>1 DEF AtBase
    <3>3. Admits(e.id)' => e.id \in Ids(FreshCommits)
      BY <1>1, <1>2, <3>1 DEF Admits
    <3>4. QED
      BY <1>3, <3>1, <3>2, <3>3
  <2>5. CommitsFit'
    <3> SUFFICES ASSUME worker'.at = "planned", NEW e \in Entries', InForce(e)'
                 PROVE  AtBase(e.plan)' /\ worker'.commits = e.plan.commits
      BY DEF CommitsFit
    <3>1. e.plan = FreshPlan
      BY <2>2
    <3>2. AtBase(e.plan)'
      BY <1>1, <1>3, <3>1 DEF AtBase
    <3>3. QED
      BY <1>2, <1>3, <1>4, <3>1, <3>2
  <2>6. QED
    BY <2>3, <2>4, <2>5 DEF ForceInv
<1>8. QED
    BY <1>6, <1>7

\* A prepared cohort that has no outcome yet is in the log with its plan.
LEMMA CohortLogged ==
    ASSUME BaseInv, MarkInv, FlushInv, worker.at = "entering", ~Fenced(worker.group[1]), CohortPlan.made,
           NEW r \in Ids(Candidates)
    PROVE  /\ r \in Requests /\ store.records[r] = "none" /\ pending[r].plan = CohortPlan
           /\ \E e \in Entries : e.id = r /\ InForce(e) /\ e.plan = CohortPlan
<1>0. TypeOK /\ LogInv /\ worker.group \in Seq(Requests) /\ PipeInv
    BY WorkerTypes DEF BaseInv, TypeOK
<1>1. r \in Ids(worker.group) /\ store.records[r] = "none"
    BY <1>0, CandidatesFacts
<1>2. r \in Requests /\ Held(r) /\ worker.group[1] \in Ids(worker.group)
  <2>1. worker.group # <<>>
    BY <1>0 DEF PipeInv
  <2>2. QED
    BY <1>0, <1>1, <2>1 DEF PipeInv, Ids
<1>3. pending[r].plan = CohortPlan /\ pending[r].generation = pending[worker.group[1]].generation
    BY <1>1, <1>2 DEF FlushInv, SameCohort, CohortPlan
<1>4. pending[r].active /\ pending[r].generation = store.generation
    BY <1>2, <1>3 DEF Held, Fenced
<1>5. r \in LoggedIds
    BY <1>0, <1>1, <1>2, <1>4 DEF LogInv
<1>6. PICK i \in DOMAIN log : log[i].id = r
    BY <1>5 DEF LoggedIds
<1>7. log[i] \in Entries /\ EntryMarked(log[i])
    BY DEF Entries, MarkInv
<1>8. log[i].plan = CohortPlan
    BY <1>3, <1>4, <1>6, <1>7 DEF EntryMarked, NoPlan
<1>9. log[i].generation = store.generation
    BY <1>0, <1>4, <1>6 DEF LogInv
<1>10. InForce(log[i])
    BY <1>8, <1>9 DEF InForce
<1>11. QED
    BY <1>1, <1>2, <1>3, <1>6, <1>7, <1>8, <1>10

\* What the manifest says of a plan that is before or behind it.
LEMMA PublishedFacts ==
    ASSUME NEW plan, NEW r
    PROVE  /\ Published(plan, r) = "no" <=> AtBase(plan)
           /\ ~AtBase(plan) /\ AtFinal(plan) => Published(plan, r) = "yes"
BY DEF Published, AtBase, AtFinal

\* A cohort publishes its plan or nothing.
LEMMA CohortCommits ==
    ASSUME BaseInv, MarkInv, FlushInv, ForceInv, worker.at = "entering", ~Fenced(worker.group[1]),
           CohortPlan.made, PlanHolds
    PROVE  \/ CommitsOfCohort = <<>>
           \/ \A e \in Entries : InForce(e) => AtBase(e.plan) /\ CommitsOfCohort = e.plan.commits
<1>0. TypeOK /\ worker.group \in Seq(Requests)
    BY WorkerTypes DEF BaseInv, TypeOK
<1>1. CASE ~\E r \in Ids(Candidates) : Published(CohortPlan, r) = "no"
    BY <1>1 DEF CommitsOfCohort
<1>2. CASE \E r \in Ids(Candidates) : Published(CohortPlan, r) = "no"
  <2>1. PICK r \in Ids(Candidates) : Published(CohortPlan, r) = "no"
    BY <1>2
  <2>2. AtBase(CohortPlan) /\ CommitsOfCohort = FreshCommits
    BY <1>2, <2>1, PublishedFacts DEF CommitsOfCohort
  <2>3. PICK f \in Entries : f.id = r /\ InForce(f) /\ f.plan = CohortPlan
    BY CohortLogged
  <2>4. \A e \in Entries : InForce(e) => e.plan = CohortPlan
    BY <2>3 DEF ForceInv, OnePlan
  <2>5. CASE \E s \in Ids(Candidates) : s \in Ids(CohortPlan.commits)
    <3>1. PICK s \in Ids(Candidates) : s \in Ids(CohortPlan.commits)
      BY <2>5
    <3>2. Published(CohortPlan, s) = "no"
      BY <2>2, PublishedFacts
    <3>3. FreshCommits = CohortPlan.commits
      BY <3>1, <3>2 DEF PlanHolds
    <3>4. QED
      BY <2>2, <2>4, <3>3
  <2>6. CASE ~\E s \in Ids(Candidates) : s \in Ids(CohortPlan.commits)
    <3>1. ASSUME NEW s \in Ids(Candidates) PROVE ~Admits(s)
      <4>1. PICK g \in Entries : g.id = s /\ InForce(g) /\ g.plan = CohortPlan
        BY CohortLogged
      <4>2. store.records[s] = "none"
        BY CohortLogged
      <4>3. QED
        BY <2>6, <4>1, <4>2 DEF ForceInv, PlansFit
    <3>2. FreshCommits \in Seq(Requests) /\ Ids(FreshCommits) = {}
      BY <1>0, <3>1, CandidatesFacts
    <3>3. FreshCommits = <<>>
      BY <3>2, NoIds
    <3>4. QED
      BY <2>2, <3>3
  <2>7. QED
    BY <2>5, <2>6
<1>3. QED
    BY <1>1, <1>2

\* Only preparing makes plans.
LEMMA MadeBefore ==
    ASSUME BaseInv, Next, ~Prepares
    PROVE  \A e \in Entries' : e.plan.made => e \in Entries
<1>0. TypeOK
    BY DEF BaseInv
<1>1. CASE Shorter
    BY <1>1, ShorterEntries
<1>2. CASE \E r \in Requests : Longer(r)
  <2>1. PICK r \in Requests : Longer(r)
    BY <1>2
  <2>2. ~NoPlan.made
    BY DEF NoPlan
  <2>3. QED
    BY <1>0, <2>1, <2>2, LongerEntries
<1>3. QED
    BY <1>0, <1>1, <1>2, LogCases

LEMMA PlannedStays ==
    ASSUME BaseInv, Next, worker'.at = "planned"
    PROVE  AppendPrepared \/ EnterTenant \/ (worker' = worker /\ store' = store)
<1>0. TypeOK /\ worker \in WorkerType
    BY DEF BaseInv, TypeOK
<1>1. ASSUME NEW r \in Requests, AcceptBegin(r) \/ AcceptStep(r) PROVE worker' = worker /\ store' = store
    BY <1>0, <1>1, AcceptSteps
<1>2. ASSUME NEW c \in Callers, Call(c) \/ CallerStep(c) \/ GiveUp(c) PROVE worker' = worker /\ store' = store
  <2>1. worker' = worker
    BY <1>2, CallerSteps
  <2>2. lock = TheWorker /\ lock # c
    BY <2>1, NamesAssumption DEF BaseInv, LockInv
  <2>3. caller[c].at \notin {"locked", "purging"}
    BY <2>2 DEF BaseInv, LockInv
  <2>4. store' = store
    BY <1>2, <2>3 DEF CallerStep, Call, EnterGate, Barrier, BarrierDone, TakeLock, GiveUp,
       DirectCommit, PurgeBegins, PurgeDeletes, CreateTenant
  <2>5. QED
    BY <2>1, <2>4
<1>3. CASE Crash \/ Closed
    BY <1>3, IdleFields DEF Crash, Closed, Forget
<1>4. CASE Close
    BY <1>4 DEF Close, volatile
<1>5. CASE Restart
    BY <1>5 DEF Restart
<1>6. CASE FlushDone \/ AppendPreparedFails \/ FlushRetries \/ PublishUnanswered \/ SaveMetadataFails
             \/ FailGroupPartly \/ AppendTerminalPartly \/ AppendTerminalFails \/ WorkerStops
    BY <1>6, IdlingFields
<1>7. CASE Dispatch
    BY <1>7, DispatchFields
<1>8. CASE AppendTerminal
    BY <1>0, <1>8, TerminalFields
<1>9. CASE Publish \/ SaveMetadata \/ FailGroup
    BY <1>0, <1>9, OnwardFields
<1>10. CASE NextGroup
  <2>1. worker'.at = IF Writable THEN "entering" ELSE "failing"
    BY <1>0, <1>10, NextGroupFields
  <2>2. QED
    BY <2>1
<1>11. QED
    BY <1>1, <1>2, <1>3, <1>4, <1>5, <1>6, <1>7, <1>8, <1>9, <1>10 DEF Next, WorkerStep

\* Operations under the tenant lock meet no plan.
LEMMA CallersMeetNoPlan ==
    ASSUME BaseInv, MarkInv, NEW c \in Callers,
           DirectCommit(c) \/ PurgeBegins(c) \/ PurgeDeletes(c) \/ CreateTenant(c)
    PROVE  \A e \in Entries : ~e.plan.made
<1>1. Passed(c)
  <2>1. CASE DirectCommit(c)
    BY <2>1 DEF DirectCommit, Passed
  <2>2. QED
    BY <2>1, CallerReplaces
<1>2. QED
    BY <1>1 DEF MarkInv

LEMMA ForceStep ==
    ASSUME BaseInv, BaseInv', OrderInv, MarkInv, FlushInv, PreparedInLogOrder, ForceInv, Next
    PROVE  ForceInv'
<1>0. TypeOK /\ TypeOK' /\ store \in StoreType /\ worker \in WorkerType
    BY DEF BaseInv, TypeOK
<1>1. CASE Prepares
    BY <1>1, ForcePrepares
<1>2. CASE Publish \/ PublishUnanswered
    BY <1>2, ForcePublishes
<1>3. ASSUME ~Prepares, NEW c \in Callers,
             DirectCommit(c) \/ PurgeBegins(c) \/ PurgeDeletes(c) \/ CreateTenant(c)
      PROVE  ForceInv'
  <2>1. \A e \in Entries' : ~e.plan.made
    BY <1>3, CallersMeetNoPlan, MadeBefore
  <2>2. \A e \in Entries' : ~InForce(e)'
    BY <2>1 DEF InForce
  <2>3. QED
    BY <2>2 DEF ForceInv, OnePlan, PlansFit, CommitsFit
<1>4. CASE /\ ~Prepares
           /\ store' = store \/ SaveMetadata \/ SaveMetadataFails \/ FailGroup \/ FailGroupPartly
  <2>1. \A e \in Entries' : e.plan.made => e \in Entries
    BY <1>4, MadeBefore
  <2>2. store'.generation = store.generation /\ store'.history = store.history /\ store'.admits = store.admits
    <3>1. \/ store' = store
          \/ \E f : store' = [store EXCEPT !.records = f]
      BY <1>4 DEF SaveMetadata, SaveMetadataFails, FailGroup, FailGroupPartly
    <3>2. QED
      BY <1>0, <3>1 DEF StoreType
  <2>3. OnePlan' /\ PlansFit'
    <3>1. CASE \A r \in Requests : store'.records[r] = "none" => store.records[r] = "none"
      BY <1>0, <2>1, <2>2, <3>1, ForceKeeps DEF ForceInv
    <3>2. CASE \A e \in Entries : ~e.plan.made
      BY <2>1, <3>2 DEF OnePlan, PlansFit, InForce
    <3>3. QED
      BY <3>1, <3>2, PlansKeepStore
  <2>4. CommitsFit'
    <3> SUFFICES ASSUME worker'.at = "planned" PROVE CommitsFit'
      BY DEF CommitsFit
    <3>1. ~AppendPrepared
      BY <1>4 DEF Prepares, AppendPrepared
    <3>2. CASE EnterTenant
      <4>1. /\ worker.at = "entering" /\ worker'.commits = CommitsOfCohort
            /\ ~Fenced(worker.group[1]) /\ CohortPlan.made /\ PlanHolds
        BY <1>0, <3>2, EnterFields, IdleFields
      <4>2. \/ CommitsOfCohort = <<>>
            \/ \A e \in Entries : InForce(e) => AtBase(e.plan) /\ CommitsOfCohort = e.plan.commits
        BY <4>1, CohortCommits
      <4>3. \A e \in Entries' : InForce(e)' => e \in Entries /\ InForce(e)
        BY <2>1, <2>2 DEF InForce
      <4>4. QED
        BY <2>2, <4>1, <4>2, <4>3 DEF CommitsFit, AtBase
    <3>3. CASE worker' = worker /\ store' = store
      BY <2>1, <3>3, CommitsKeep DEF ForceInv
    <3>4. QED
      BY <3>1, <3>2, <3>3, PlannedStays
  <2>5. QED
    BY <2>3, <2>4 DEF ForceInv
<1>5. QED
    BY <1>1, <1>2, <1>3, <1>4, StoreCases

-----------------------------------------------------------------------------
(* Outcomes.                                                               *)

LEMMA FlushStays ==
    ASSUME BaseInv, Next, worker'.at \in {"planned", "published", "failing"}
    PROVE  \/ AppendPrepared \/ EnterTenant \/ Publish \/ NextGroup
           \/ /\ worker' = worker /\ \A r \in Ids(worker.group) : pending'[r] = pending[r]
              /\ store' = store \/ \E c \in Callers : DirectCommit(c)
<1>0. TypeOK /\ worker \in WorkerType /\ worker.group \in Seq(Requests) /\ PipeInv
    BY WorkerTypes DEF BaseInv, TypeOK
<1>00. \A r \in Ids(worker.group) : r \in Requests /\ Held(r)
    BY <1>0 DEF Ids, PipeInv
<1>1. ASSUME NEW r \in Requests, AcceptBegin(r) \/ AcceptStep(r)
      PROVE  worker' = worker /\ store' = store /\ \A s \in Ids(worker.group) : pending'[s] = pending[s]
  <2>1. worker' = worker /\ store' = store /\ \A s \in Requests \ {r} : pending'[s] = pending[s]
    BY <1>0, <1>1, AcceptSteps
  <2>2. r \notin Ids(worker.group)
    BY <1>1, <1>00 DEF Held, AcceptStep, AcceptBegin, AcceptRefused, AppendAccepted, AppendAcceptedFails, Activate, Enqueue
  <2>3. QED
    BY <1>00, <2>1, <2>2
<1>2. ASSUME NEW c \in Callers, Call(c) \/ CallerStep(c) \/ GiveUp(c)
      PROVE  worker' = worker /\ pending' = pending /\ (store' = store \/ DirectCommit(c))
  <2>1. worker' = worker /\ pending' = pending
    BY <1>2, CallerSteps
  <2>2. ASSUME PurgeBegins(c) \/ PurgeDeletes(c) \/ CreateTenant(c) PROVE FALSE
    BY <2>1, <2>2, CallerReplaces, ReplacingAlone
  <2>3. store' = store \/ DirectCommit(c)
    BY <1>2, <2>2 DEF CallerStep, Call, EnterGate, Barrier, BarrierDone, TakeLock, GiveUp
  <2>4. QED
    BY <2>1, <2>3
<1>3. CASE Crash \/ Closed
    BY <1>3, IdleFields DEF Crash, Closed, Forget
<1>4. CASE Close
    BY <1>4 DEF Close, volatile
<1>5. CASE Restart
  <2>1. worker'.at = "idle"
    BY <1>5, IdleFields DEF Restart, BaseInv, DownInv
  <2>2. QED
    BY <2>1
<1>6. CASE FlushDone \/ AppendPreparedFails \/ FlushRetries \/ PublishUnanswered \/ SaveMetadataFails
             \/ FailGroupPartly \/ AppendTerminalPartly \/ AppendTerminalFails \/ WorkerStops
    BY <1>6, IdlingFields
<1>7. CASE Dispatch
    BY <1>7, DispatchFields
<1>8. CASE AppendTerminal
    BY <1>0, <1>8, TerminalFields
<1>9. CASE SaveMetadata \/ FailGroup
    BY <1>0, <1>9, OnwardFields
<1>10. QED
    BY <1>1, <1>2, <1>3, <1>4, <1>5, <1>6, <1>7, <1>8, <1>9 DEF Next, WorkerStep

LEMMA StandingStep ==
    ASSUME BaseInv, Standing, Next
    PROVE  Standing'
<1>0. TypeOK /\ worker \in WorkerType /\ store \in StoreType
    BY DEF BaseInv, TypeOK
<1>1. store'.status = store.status
  <2>1. CASE WorkerStep
    BY <1>0, <2>1, WorkerStore
  <2>2. ASSUME NEW c \in Callers, DirectCommit(c) \/ PurgeBegins(c) \/ PurgeDeletes(c) \/ CreateTenant(c)
        PROVE  store'.status = store.status
    BY <1>0, <2>2, CallerStore
  <2>3. QED
    BY <2>1, <2>2, StoreCases DEF WorkerStep
<1>2. ASSUME worker'.at = "failing", ~worker'.fenced PROVE store'.phase # "cleared"
  <2>1. CASE NextGroup
    <3>1. worker'.at = IF Writable THEN "entering" ELSE "failing"
      BY <1>0, <2>1, NextGroupFields
    <3>2. ~Writable /\ store' = store
      BY <1>2, <2>1, <3>1 DEF NextGroup
    <3>3. QED
      BY <3>2 DEF Writable, Standing
  <2>2. CASE EnterTenant
    <3>1. ~Writable /\ store' = store
      BY <1>0, <1>2, <2>2, EnterFields, IdleFields DEF EnterTenant
    <3>2. QED
      BY <3>1 DEF Writable, Standing
  <2>3. CASE AppendPrepared \/ Publish
    BY <1>0, <1>2, <2>3, OnwardFields
  <2>4. CASE worker' = worker /\ (store' = store \/ \E c \in Callers : DirectCommit(c))
    <3>1. store'.phase = store.phase
      BY <1>0, <2>4, CallerStore
    <3>2. QED
      BY <1>2, <2>4, <3>1 DEF Standing
  <2>5. QED
    BY <1>2, <2>1, <2>2, <2>3, <2>4, FlushStays
<1>3. QED
    BY <1>1, <1>2 DEF Standing

\* Who waits for a record keeps waiting while the tenant stays as it is.
LEMMA AwaitedKept ==
    ASSUME BaseInv, BaseInv', OrderInv, MarkInv, FlushInv, PreparedInLogOrder, Next, store' = store,
           NEW r \in Requests, Awaited(r), store.records[r] = "none"
    PROVE  Awaited(r)'
<1>0. TypeOK /\ LogInv /\ LogInv' /\ TypeOK' /\ log \in Seq(EntryType)
    BY DEF BaseInv, TypeOK
<1>1. PICK e \in Entries : e.id = r /\ InForce(e) /\ r \in Ids(e.plan.commits) /\ AtFinal(e.plan)
    BY DEF Awaited
<1>2. SUFFICES \E f \in Entries' : f.id = e.id /\ f.generation = e.generation /\ f.plan = e.plan
  <2>1. PICK f \in Entries' : f.id = e.id /\ f.generation = e.generation /\ f.plan = e.plan
    BY <1>2
  <2>2. InForce(f)' /\ AtFinal(f.plan)' /\ f.id = r /\ r \in Ids(f.plan.commits)
    BY <1>1, <2>1 DEF InForce, AtFinal
  <2>3. QED
    BY <2>2 DEF Awaited
<1>3. CASE Shorter
  <2>1. PICK i \in DOMAIN log : log[i] = e
    BY DEF Entries
  <2>2. e.id \in LoggedIds'
    BY <1>1, <2>1, FinishedStep DEF InForce
  <2>3. PICK k \in DOMAIN log' : log'[k].id = e.id
    BY <2>2 DEF LoggedIds
  <2>4. log'[k] \in Entries'
    BY DEF Entries
  <2>5. log'[k] = e
    BY <1>0, <1>3, <2>3, <2>4, ShorterEntries, OneEntry
  <2>6. QED
    BY <2>4, <2>5
<1>4. CASE \E s \in Requests : Longer(s)
  <2>1. PICK s \in Requests : Longer(s)
    BY <1>4
  <2>2. QED
    BY <1>0, <2>1, LongerEntries
<1>5. CASE Prepares
  <2>1. worker.at = "planning" /\ Working /\ (wal = "open" \/ worker.todo = <<>>)
    BY <1>5 DEF Prepares, AppendPrepared, AppendPreparedFails, Working
  <2>2. Ids(worker.todo) = {}
    BY <1>1, <2>1, FreshAlone, EmptyIds
  <2>3. QED
    BY <1>0, <1>5, <2>2, PreparesEntries
<1>6. QED
    BY <1>0, <1>3, <1>4, <1>5, LogCases

LEMMA PlannedEntry ==
    ASSUME BaseInv, MarkInv, FlushInv, worker.at = "planned", NEW r \in Ids(worker.todo)
    PROVE  \E e \in Entries : e.id = r /\ InForce(e) /\ e.plan = pending[r].plan
<1>0. LogInv
    BY DEF BaseInv
<1>1. r \in Requests /\ Held(r) /\ r \in LoggedIds /\ Current(r)
    BY TodoLogged
<1>2. PICK i \in DOMAIN log : log[i].id = r
    BY <1>1 DEF LoggedIds
<1>3. log[i] \in Entries /\ EntryMarked(log[i])
    BY DEF Entries, MarkInv
<1>4. pending[r].plan.made
    BY DEF FlushInv
<1>5. log[i].plan = pending[r].plan /\ log[i].generation = store.generation
    BY <1>0, <1>1, <1>2, <1>3, <1>4 DEF EntryMarked, Held, LogInv, Current, NoPlan
<1>6. QED
    BY <1>2, <1>3, <1>4, <1>5 DEF InForce

LEMMA ConcatOnce ==
    ASSUME NEW S, NEW h \in Seq(S), NEW c \in Seq(S), NEW r,
           \A i, j \in DOMAIN h : h[i] = r /\ h[j] = r => i = j, Distinct(c), r \notin Ids(h) \intersect Ids(c)
    PROVE  \A i, j \in DOMAIN (h \o c) : (h \o c)[i] = r /\ (h \o c)[j] = r => i = j
<1> SUFFICES ASSUME NEW i \in DOMAIN (h \o c), NEW j \in DOMAIN (h \o c), (h \o c)[i] = r, (h \o c)[j] = r
             PROVE  i = j
    OBVIOUS
<1>1. \A k \in DOMAIN (h \o c) : \/ k \in DOMAIN h /\ (h \o c)[k] = h[k] /\ k <= Len(h)
                                 \/ k - Len(h) \in DOMAIN c /\ (h \o c)[k] = c[k - Len(h)] /\ k \in Nat /\ Len(h) \in Nat
    OBVIOUS
<1>2. CASE i \in DOMAIN h /\ h[i] = r /\ j \in DOMAIN h /\ h[j] = r
    BY <1>2
<1>3. CASE /\ i - Len(h) \in DOMAIN c /\ c[i - Len(h)] = r /\ i \in Nat /\ Len(h) \in Nat
           /\ j - Len(h) \in DOMAIN c /\ c[j - Len(h)] = r /\ j \in Nat
  <2>1. i - Len(h) = j - Len(h)
    BY <1>3 DEF Distinct
  <2>2. QED
    BY <1>3, <2>1
<1>4. r \in Ids(h) => r \notin Ids(c)
    OBVIOUS
<1>5. (\E k \in DOMAIN h : h[k] = r) => ~\E k \in DOMAIN c : c[k] = r
    BY <1>4 DEF Ids
<1>6. QED
    BY <1>1, <1>2, <1>3, <1>5

LEMMA OutcomesPublish ==
    ASSUME BaseInv, MarkInv, FlushInv, ForceInv, HistoryInv, Publish \/ PublishUnanswered,
           worker.commits # <<>>
    PROVE  OutcomesFit'
<1> DEFINE h == store.history
           c == worker.commits
<1>0. /\ TypeOK /\ store \in StoreType /\ worker \in WorkerType /\ h \in Seq(Requests \union Callers)
      /\ c \in Seq(Requests) /\ store.records \in [Requests -> Outcomes]
    BY WorkerTypes, StoreTypes DEF BaseInv, TypeOK
<1>1. store' = [store EXCEPT !.history = store.history \o worker.commits] /\ worker.at = "planned" /\ log' = log
    BY DEF Publish, PublishUnanswered
<1>2. /\ store'.history = h \o c /\ store'.generation = store.generation
      /\ store'.records = store.records /\ store'.phase = store.phase
    BY <1>0, <1>1 DEF StoreType
<1>3. store.phase = "cleared"
    BY <1>1 DEF FlushInv
<1>4. \A e \in Entries : InForce(e) =>
        e.plan.commits = c /\ e.plan \in PlanType /\ ~AtFinal(e.plan) /\ AtFinal(e.plan)'
  <2> SUFFICES ASSUME NEW e \in Entries, InForce(e)
               PROVE  e.plan.commits = c /\ e.plan \in PlanType /\ ~AtFinal(e.plan) /\ AtFinal(e.plan)'
    OBVIOUS
  <2>1. AtBase(e.plan) /\ e.plan.commits = c
    BY <1>1 DEF ForceInv, CommitsFit
  <2>2. e.plan \in PlanType
    BY <1>0, EntryFacts
  <2>3. QED
    BY <1>0, <1>2, <2>1, <2>2, CommitsReachFinal
<1>5. \A r \in Requests : ~Awaited(r)
    BY <1>4 DEF Awaited
<1>6. Ids(c) \subseteq Ids(worker.todo) /\ \A r \in Ids(c) : store.records[r] = "none"
  <2>1. Ids(c) \subseteq Ids(worker.todo)
    BY <1>1 DEF BaseInv, CohortInv
  <2>2. QED
    BY <1>1, <2>1, TodoLogged
<1>7. Distinct(c)
    BY <1>1 DEF HistoryInv, CommitsReach
<1>8. Ids(h \o c) = Ids(h) \union Ids(c) /\ c \in Seq(Requests \union Callers)
  <2>1. c \in Seq(Requests \union Callers)
    BY <1>0
  <2>2. QED
    BY <1>0, <2>1, IdsOfConcat
<1> HIDE DEF h, c
<1>9. ASSUME NEW r \in Requests
      PROVE  /\ \A i, j \in DOMAIN (h \o c) : (h \o c)[i] = r /\ (h \o c)[j] = r => i = j
             /\ store'.records[r] = "applied" => r \in Ids(h \o c)
             /\ store'.records[r] = "failed" => r \notin Ids(h \o c)
             /\ store'.records[r] = "none" /\ r \in Ids(h \o c) => Awaited(r)'
  <2>1. /\ \A i, j \in DOMAIN h : h[i] = r /\ h[j] = r => i = j
        /\ store.records[r] = "applied" => r \in Ids(h)
        /\ store.records[r] = "failed" => r \notin Ids(h)
        /\ store.records[r] = "none" => r \notin Ids(h)
    BY <1>3, <1>5 DEF HistoryInv, OutcomesFit, h
  <2>2. r \notin Ids(h) \intersect Ids(c)
    BY <1>6, <2>1
  <2>3. \A i, j \in DOMAIN (h \o c) : (h \o c)[i] = r /\ (h \o c)[j] = r => i = j
    BY <1>0, <1>7, <1>8, <2>1, <2>2, ConcatOnce
  <2>4. /\ store'.records[r] = "applied" => r \in Ids(h \o c)
        /\ store'.records[r] = "failed" => r \notin Ids(h \o c)
    BY <1>2, <1>6, <1>8, <2>1
  <2>5. ASSUME store'.records[r] = "none", r \in Ids(h \o c) PROVE Awaited(r)'
    <3>1. r \in Ids(c)
      BY <1>2, <1>8, <2>1, <2>5
    <3>2. PICK e \in Entries : e.id = r /\ InForce(e)
      BY <1>1, <1>6, <3>1, PlannedEntry
    <3>3. e \in Entries' /\ InForce(e)' /\ AtFinal(e.plan)' /\ r \in Ids(e.plan.commits)
      BY <1>1, <1>2, <1>4, <3>1, <3>2 DEF Entries, InForce
    <3>4. QED
      BY <3>2, <3>3 DEF Awaited
  <2>6. QED
    BY <2>3, <2>4, <2>5
<1>10. QED
    BY <1>2, <1>9 DEF OutcomesFit

LEMMA OutcomesRecord ==
    ASSUME BaseInv, FlushInv, HistoryInv, SaveMetadata \/ SaveMetadataFails
    PROVE  OutcomesFit'
<1>0. /\ TypeOK /\ store \in StoreType /\ worker \in WorkerType
      /\ store.records \in [Requests -> Outcomes]
    BY StoreTypes DEF BaseInv, TypeOK
<1>1. PICK ids \in SUBSET Ids(worker.todo) : store' = [store EXCEPT !.records = Recorded(ids)]
    BY DEF SaveMetadata, SaveMetadataFails
<1>2. worker.at = "published" /\ log' = log
    BY DEF SaveMetadata, SaveMetadataFails
<1>3. /\ store'.history = store.history /\ store'.generation = store.generation
      /\ store'.records = Recorded(ids) /\ store'.phase = store.phase
    BY <1>0, <1>1 DEF StoreType
<1>4. store.phase = "cleared"
    BY <1>2 DEF FlushInv
<1>5. \A r \in ids : /\ Recorded(ids)[r] \in {"applied", "failed"} \/ r \notin Requests
                     /\ r \in Requests => (Recorded(ids)[r] = "applied" <=> r \in Ids(store.history))
  <2>1. \A r \in ids : r \in Ids(store.history) <=> OutcomeOf(r) = "applied"
    BY <1>2 DEF HistoryInv, CommitsReach, OutcomeOf
  <2>2. \A r \in ids : OutcomeOf(r) \in {"applied", "failed"}
    BY DEF OutcomeOf
  <2>3. \A r \in ids : r \in Requests => Recorded(ids)[r] = OutcomeOf(r)
    BY DEF Recorded
  <2> HIDE DEF Recorded, OutcomeOf
  <2>4. QED
    BY <2>1, <2>2, <2>3
<1>6. \A r \in Requests : r \notin ids => Recorded(ids)[r] = store.records[r]
    BY DEF Recorded
<1>7. \A r : Awaited(r) => Awaited(r)'
  <2> SUFFICES ASSUME NEW r, Awaited(r) PROVE Awaited(r)'
    OBVIOUS
  <2>1. PICK e \in Entries : e.id = r /\ InForce(e) /\ r \in Ids(e.plan.commits) /\ AtFinal(e.plan)
    BY DEF Awaited
  <2>2. e \in Entries' /\ InForce(e)' /\ AtFinal(e.plan)'
    BY <1>2, <1>3, <2>1 DEF Entries, InForce, AtFinal
  <2>3. QED
    BY <2>1, <2>2 DEF Awaited
<1>8. ASSUME NEW r \in Requests
      PROVE  /\ \A i, j \in DOMAIN store'.history : store'.history[i] = r /\ store'.history[j] = r => i = j
             /\ store'.records[r] = "applied" => r \in Ids(store'.history)
             /\ store'.records[r] = "failed" => r \notin Ids(store'.history)
             /\ store'.records[r] = "none" /\ r \in Ids(store'.history) => Awaited(r)'
  <2>1. /\ \A i, j \in DOMAIN store.history : store.history[i] = r /\ store.history[j] = r => i = j
        /\ store.records[r] = "applied" => r \in Ids(store.history)
        /\ store.records[r] = "failed" => r \notin Ids(store.history)
        /\ store.records[r] = "none" /\ r \in Ids(store.history) => Awaited(r)
    BY <1>4 DEF HistoryInv, OutcomesFit
  <2>2. CASE r \in ids
    BY <1>3, <1>5, <2>1, <2>2
  <2>3. CASE r \notin ids
    BY <1>3, <1>6, <1>7, <2>1, <2>3
  <2>4. QED
    BY <2>2, <2>3
<1>9. QED
    BY <1>8 DEF OutcomesFit

LEMMA OutcomesCommit ==
    ASSUME BaseInv, MarkInv, HistoryInv, NEW c \in Callers, DirectCommit(c), store' # store
    PROVE  OutcomesFit'
<1> DEFINE h == store.history
<1>0. TypeOK /\ store \in StoreType /\ h \in Seq(Requests \union Callers)
    BY StoreTypes DEF BaseInv, TypeOK
<1>1. store' = [store EXCEPT !.history = Append(store.history, c)] /\ store.phase = "cleared"
    BY DEF DirectCommit, Writable
<1>2. store'.history = Append(h, c) /\ store'.records = store.records
    BY <1>0, <1>1 DEF StoreType
<1>3. \A r \in Requests : ~Awaited(r)
    BY CallersMeetNoPlan DEF Awaited, InForce
<1>4. \A r \in Requests : r # c
    BY NamesAssumption
<1>5. \A r \in Requests :
        /\ \A i, j \in DOMAIN h : h[i] = r /\ h[j] = r => i = j
        /\ store.records[r] = "applied" => r \in Ids(h)
        /\ store.records[r] = "failed" => r \notin Ids(h)
        /\ store.records[r] = "none" => r \notin Ids(h)
    BY <1>1, <1>3 DEF HistoryInv, OutcomesFit
<1> HIDE DEF h
<1>6. Append(h, c) \in Seq(Requests \union Callers)
    BY <1>0
<1>7. /\ \A i \in DOMAIN h : i \in DOMAIN Append(h, c) /\ Append(h, c)[i] = h[i]
      /\ \A i \in DOMAIN Append(h, c) : i \in DOMAIN h \/ Append(h, c)[i] = c
    BY <1>0
<1>8. \A r \in Requests : r \in Ids(Append(h, c)) <=> r \in Ids(h)
    BY <1>4, <1>7 DEF Ids
<1>9. \A r \in Requests : \A i, j \in DOMAIN Append(h, c) : Append(h, c)[i] = r /\ Append(h, c)[j] = r => i = j
    BY <1>4, <1>5, <1>7
<1>10. QED
    BY <1>2, <1>5, <1>8, <1>9 DEF OutcomesFit

LEMMA OutcomesStep ==
    ASSUME BaseInv, BaseInv', OrderInv, MarkInv, FlushInv, PreparedInLogOrder, ForceInv, HistoryInv, Next
    PROVE  OutcomesFit'
<1>0. /\ TypeOK /\ store \in StoreType /\ store.history \in Seq(Requests \union Callers)
    BY StoreTypes DEF BaseInv, TypeOK
<1>1. CASE store' = store
  <2>1. \A r \in Requests : store.records[r] = "none" /\ Awaited(r) => Awaited(r)'
    BY <1>1, AwaitedKept
  <2>2. QED
    BY <1>1, <2>1 DEF HistoryInv, OutcomesFit
<1>2. CASE Publish \/ PublishUnanswered
  <2>1. CASE worker.commits # <<>>
    BY <1>2, <2>1, OutcomesPublish
  <2>2. CASE worker.commits = <<>>
    <3>1. store' = [store EXCEPT !.history = store.history \o worker.commits]
      BY <1>2 DEF Publish, PublishUnanswered
    <3>2. store.history \o worker.commits = store.history
      BY <1>0, <2>2
    <3>3. store' = store
      BY <1>0, <3>1, <3>2 DEF StoreType
    <3>4. QED
      BY <1>1, <3>3
  <2>3. QED
    BY <2>1, <2>2
<1>3. CASE SaveMetadata \/ SaveMetadataFails
    BY <1>3, OutcomesRecord
<1>4. CASE FailGroup \/ FailGroupPartly
  <2>1. worker.at = "failing"
    BY <1>4 DEF FailGroup, FailGroupPartly
  <2>2. CASE worker.fenced
    <3>1. store' = store
      BY <1>4, <2>2 DEF FailGroup, FailGroupPartly
    <3>2. QED
      BY <1>1, <3>1
  <2>3. CASE ~worker.fenced
    <3>1. store.phase # "cleared"
      BY <2>1, <2>3 DEF HistoryInv, Standing
    <3>2. store'.phase = store.phase
      BY <1>0, <1>4, WorkerStore DEF WorkerStep
    <3>3. QED
      BY <3>1, <3>2 DEF OutcomesFit
  <2>4. QED
    BY <2>2, <2>3
<1>5. ASSUME NEW c \in Callers, DirectCommit(c) PROVE OutcomesFit'
    BY <1>1, <1>5, OutcomesCommit
<1>6. ASSUME NEW c \in Callers, PurgeBegins(c) \/ PurgeDeletes(c) PROVE OutcomesFit'
  <2>1. store' = store \/ store'.phase # "cleared"
    BY <1>0, <1>6, CallerStore
  <2>2. QED
    BY <1>1, <2>1 DEF OutcomesFit
<1>7. ASSUME NEW c \in Callers, CreateTenant(c) PROVE OutcomesFit'
  <2>1. \/ store' = store
        \/ /\ store'.history = <<>>
           /\ \A r \in Requests : store'.records[r] = "none"
    BY <1>0, <1>7, CallerStore
  <2>2. CASE store'.history = <<>> /\ \A r \in Requests : store'.records[r] = "none"
    <3>1. DOMAIN store'.history = {} /\ Ids(store'.history) = {}
      BY <2>2 DEF Ids
    <3>2. QED
      BY <2>2, <3>1 DEF OutcomesFit
  <2>3. QED
    BY <1>1, <2>1, <2>2
<1>8. QED
    BY <1>1, <1>2, <1>3, <1>4, <1>5, <1>6, <1>7, StoreCases

LEMMA FreshDistinct ==
    ASSUME BaseInv
    PROVE  Distinct(FreshCommits)
<1> DEFINE g == worker.group
           keep == {i \in DOMAIN g : store.records[g[i]] = "none" /\ Admits(g[i])}
           s == Subsequence(g, keep)
<1>0. g \in Seq(Requests) /\ worker.rest \o (queue \o order) \in Seq(Requests)
  <2>1. worker \in WorkerType /\ queue \in Seq(Requests) /\ order \in Seq(Requests)
    BY DEF BaseInv, TypeOK
  <2>2. worker.rest \in Seq(Requests) /\ worker.group \in Seq(Requests)
    BY <2>1, WorkerTypes
  <2>3. QED
    BY <2>1, <2>2, IdsOfConcat
<1>1. Distinct(g)
  <2>1. Distinct(g \o (worker.rest \o (queue \o order)))
    BY DEF BaseInv, PipeInv, Pipe
  <2>2. QED
    BY <1>0, <2>1, DistinctParts
<1>2. FreshCommits = s
    BY DEF FreshCommits
<1>3. keep \in SUBSET DOMAIN g
    OBVIOUS
<1> HIDE DEF g, keep
<1>4. /\ s \in Seq(Requests)
      /\ \E at \in [DOMAIN s -> keep] :
                /\ \A i, j \in DOMAIN s : i < j => at[i] < at[j]
                /\ \A i \in DOMAIN s : s[i] = g[at[i]]
    BY <1>0, <1>3, SubsequenceFacts
<1> HIDE DEF s
<1>5. PICK at \in [DOMAIN s -> keep] :
                /\ \A i, j \in DOMAIN s : i < j => at[i] < at[j]
                /\ \A i \in DOMAIN s : s[i] = g[at[i]]
    BY <1>4
<1>6. ASSUME NEW i \in DOMAIN s, NEW j \in DOMAIN s, s[i] = s[j] PROVE i = j
  <2>1. at[i] \in DOMAIN g /\ at[j] \in DOMAIN g /\ g[at[i]] = g[at[j]]
    BY <1>3, <1>5, <1>6
  <2>2. at[i] = at[j]
    BY <1>1, <2>1 DEF Distinct
  <2>3. i \in Nat /\ j \in Nat /\ at[i] \in Nat
    BY <1>0, <1>4, <2>1
  <2>4. ~(i < j) /\ ~(j < i)
    BY <1>5, <2>2, <2>3
  <2>5. QED
    BY <2>3, <2>4
<1>7. QED
    BY <1>2, <1>6 DEF Distinct

LEMMA ReachPrepares ==
    ASSUME BaseInv, OrderInv, MarkInv, FlushInv, PreparedInLogOrder, PlansReach, Prepares
    PROVE  PlansReach'
<1> DEFINE ids == Ids(worker.todo)
<1>0. TypeOK /\ store \in StoreType /\ FreshCommits \in Seq(Requests) /\ worker.group \in Seq(Requests)
    BY WorkerTypes, CandidatesFacts DEF BaseInv, TypeOK
<1>1. store' = store /\ worker.at = "planning" /\ Working
    BY DEF Prepares, AppendPrepared, AppendPreparedFails, Working
<1>2. \A e \in Entries' : \E f \in Entries :
        /\ e.id = f.id /\ e.generation = f.generation
        /\ e.plan = IF f.id \in ids THEN FreshPlan ELSE f.plan
    BY <1>0, PreparesEntries
<1> HIDE DEF ids
<1>3. SUFFICES ASSUME NEW e \in Entries', InForce(e)'
               PROVE  /\ Distinct(e.plan.commits)
                      /\ AtFinal(e.plan)' => Ids(e.plan.commits) \subseteq Ids(store'.history)
    BY DEF PlansReach
<1>4. PICK f \in Entries : /\ e.id = f.id /\ e.generation = f.generation
                           /\ e.plan = IF f.id \in ids THEN FreshPlan ELSE f.plan
    BY <1>2
<1>5. CASE f.id \in ids
  <2>1. e.plan.commits = FreshCommits /\ e.plan.base = Len(store.history)
    BY <1>4, <1>5 DEF FreshPlan
  <2>2. Distinct(FreshCommits)
    BY FreshDistinct
  <2>3. ASSUME AtFinal(e.plan)' PROVE FreshCommits = <<>>
    <3>1. Len(store.history) = Len(store.history) + Len(FreshCommits)
      BY <1>1, <2>1, <2>3 DEF AtFinal, FinalVersion
    <3>2. Len(store.history) \in Nat /\ Len(FreshCommits) \in Nat
      BY <1>0, StoreTypes
    <3>3. QED
      BY <1>0, <3>1, <3>2
  <2>4. Ids(<<>>) = {}
    BY DEF Ids
  <2>5. QED
    BY <2>1, <2>2, <2>3, <2>4
<1>6. CASE f.id \notin ids
  <2>1. InForce(f) /\ e.plan = f.plan
    BY <1>1, <1>3, <1>4, <1>6 DEF InForce
  <2>2. QED
    BY <1>1, <2>1 DEF PlansReach, AtFinal
<1>7. QED
    BY <1>5, <1>6

LEMMA ReachStep ==
    ASSUME BaseInv, OrderInv, MarkInv, FlushInv, PreparedInLogOrder, ForceInv, PlansReach, Next
    PROVE  PlansReach'
<1>0. TypeOK /\ store \in StoreType /\ worker \in WorkerType
    BY DEF BaseInv, TypeOK
<1>1. CASE Prepares
    BY <1>1, ReachPrepares
<1>2. ASSUME ~Prepares, NEW c \in Callers,
             DirectCommit(c) \/ PurgeBegins(c) \/ PurgeDeletes(c) \/ CreateTenant(c)
      PROVE  PlansReach'
    BY <1>2, CallersMeetNoPlan, MadeBefore DEF PlansReach, InForce
<1>3. CASE ~Prepares /\ store'.generation = store.generation /\ store'.history = store.history
    BY <1>3, MadeBefore DEF PlansReach, InForce, AtFinal
<1>4. CASE ~Prepares /\ (Publish \/ PublishUnanswered)
  <2>1. store' = [store EXCEPT !.history = store.history \o worker.commits] /\ worker.at = "planned" /\ log' = log
    BY <1>4 DEF Publish, PublishUnanswered
  <2>2. store'.history = store.history \o worker.commits /\ store'.generation = store.generation
    BY <1>0, <2>1 DEF StoreType
  <2>3. store.history \in Seq(Requests \union Callers) /\ worker.commits \in Seq(Requests)
    BY <1>0, StoreTypes, WorkerTypes
  <2>4. CASE worker.commits = <<>>
    BY <1>3, <1>4, <2>2, <2>3, <2>4
  <2>5. CASE worker.commits # <<>>
    <3>1. worker.commits \in Seq(Requests \union Callers)
      BY <2>3
    <3>2. Ids(worker.commits) \subseteq Ids(store'.history)
      BY <2>2, <2>3, <3>1, IdsOfConcat
    <3>3. \A e \in Entries' : InForce(e)' => e \in Entries /\ InForce(e) /\ e.plan.commits = worker.commits
      BY <2>1, <2>2, <2>5 DEF Entries, InForce, ForceInv, CommitsFit
    <3>4. QED
      BY <3>2, <3>3 DEF PlansReach
  <2>6. QED
    BY <2>4, <2>5
<1>5. CASE ~Prepares /\ (SaveMetadata \/ SaveMetadataFails \/ FailGroup \/ FailGroupPartly)
  <2>1. store' = store \/ \E f : store' = [store EXCEPT !.records = f]
    BY <1>5 DEF SaveMetadata, SaveMetadataFails, FailGroup, FailGroupPartly
  <2>2. store'.generation = store.generation /\ store'.history = store.history
    BY <1>0, <2>1 DEF StoreType
  <2>3. QED
    BY <1>3, <1>5, <2>2
<1>6. QED
    BY <1>1, <1>2, <1>3, <1>4, <1>5, StoreCases

\* What a cohort found published is in the history.
LEMMA CohortReach ==
    ASSUME BaseInv, MarkInv, FlushInv, ForceInv, PlansReach, worker.at = "entering",
           ~Fenced(worker.group[1]), CohortPlan.made, PlanHolds, CommitsOfCohort = <<>>,
           NEW r \in Ids(Candidates), r \in Ids(CohortPlan.commits)
    PROVE  r \in Ids(store.history)
<1>1. PICK e \in Entries : e.id = r /\ InForce(e) /\ e.plan = CohortPlan
    BY CohortLogged
<1>2. ~AtBase(CohortPlan)
  <2> SUFFICES ASSUME AtBase(CohortPlan) PROVE FALSE
    OBVIOUS
  <2>1. Published(CohortPlan, r) = "no"
    BY PublishedFacts
  <2>2. FreshCommits = CohortPlan.commits /\ CommitsOfCohort = FreshCommits
    BY <2>1 DEF PlanHolds, CommitsOfCohort
  <2>3. Ids(<<>>) = {}
    BY DEF Ids
  <2>4. QED
    BY <2>2, <2>3
<1>3. AtFinal(CohortPlan)
    BY <1>1, <1>2 DEF ForceInv, PlansFit
<1>4. QED
    BY <1>1, <1>3 DEF PlansReach

\* A flush knows of a request what the history says of it once it published.
LEMMA PublishReach ==
    ASSUME BaseInv, MarkInv, FlushInv, ForceInv, HistoryInv, Publish, NEW r \in Ids(worker.todo)
    PROVE  r \in Ids(store'.history) <=> r \in Ids(worker.commits) \union Ids(pending[r].plan.commits)
<1>0. /\ TypeOK /\ store \in StoreType /\ worker \in WorkerType /\ LogInv
      /\ store.history \in Seq(Requests \union Callers) /\ worker.commits \in Seq(Requests)
    BY StoreTypes, WorkerTypes DEF BaseInv, TypeOK
<1>1. store' = [store EXCEPT !.history = store.history \o worker.commits] /\ worker.at = "planned"
    BY DEF Publish
<1>2. store'.history = store.history \o worker.commits
    BY <1>0, <1>1 DEF StoreType
<1>3. Ids(store'.history) = Ids(store.history) \union Ids(worker.commits)
  <2>1. worker.commits \in Seq(Requests \union Callers)
    BY <1>0
  <2>2. QED
    BY <1>0, <1>2, <2>1, IdsOfConcat
<1>4. PICK f \in Entries : f.id = r /\ InForce(f) /\ f.plan = pending[r].plan
    BY <1>1, PlannedEntry
<1>5. r \in Requests /\ store.records[r] = "none"
    BY <1>1, TodoLogged
<1>6. ASSUME r \in Ids(store.history) PROVE r \in Ids(pending[r].plan.commits)
  <2>1. store.phase = "cleared"
    BY <1>1 DEF FlushInv
  <2>2. Awaited(r)
    BY <1>5, <1>6, <2>1 DEF HistoryInv, OutcomesFit
  <2>3. PICK e \in Entries : e.id = r /\ r \in Ids(e.plan.commits)
    BY <2>2 DEF Awaited
  <2>4. e = f
    BY <1>0, <1>4, <2>3, OneEntry
  <2>5. QED
    BY <1>4, <2>3, <2>4
<1>7. ASSUME r \in Ids(pending[r].plan.commits), r \notin Ids(worker.commits) PROVE r \in Ids(store.history)
  <2>1. worker.commits = <<>>
    BY <1>1, <1>4, <1>7 DEF ForceInv, CommitsFit
  <2>2. QED
    BY <1>1, <1>7, <2>1 DEF HistoryInv, CommitsReach
<1>8. QED
    BY <1>3, <1>6, <1>7

LEMMA CommitsReachStep ==
    ASSUME BaseInv, MarkInv, FlushInv, ForceInv, HistoryInv, Next
    PROVE  CommitsReach'
<1>0. /\ TypeOK /\ store \in StoreType /\ worker \in WorkerType /\ pending \in [Requests -> PendingType]
      /\ worker.group \in Seq(Requests) /\ store.history \in Seq(Requests \union Callers)
    BY StoreTypes, WorkerTypes DEF BaseInv, TypeOK
<1>1. CASE worker'.at \notin {"planned", "published"}
    BY <1>1 DEF CommitsReach
<1>2. CASE AppendPrepared
  <2>1. /\ worker'.at = "planned" /\ worker'.commits = worker.commits /\ worker'.todo = worker.todo
        /\ worker.at = "planning"
    BY <1>0, <1>2, OnwardFields
  <2>2. worker.commits = FreshCommits /\ Distinct(FreshCommits)
    BY <2>1, FreshDistinct DEF FlushInv
  <2>3. \A r \in Ids(worker.todo) : r \in Requests
    BY <2>1, TodoLogged
  <2>4. \A r \in Ids(worker.todo) : pending'[r].plan.commits = FreshCommits
    BY <1>0, <1>2, <2>3, PreparedFields DEF FreshPlan
  <2>5. Ids(<<>>) = {}
    BY DEF Ids
  <2>6. QED
    BY <2>1, <2>2, <2>4, <2>5 DEF CommitsReach
<1>3. CASE EnterTenant /\ worker'.at = "planned"
  <2>1. /\ worker.at = "entering" /\ worker'.todo = Candidates /\ worker'.commits = CommitsOfCohort
        /\ ~Fenced(worker.group[1]) /\ CohortPlan.made /\ PlanHolds
    BY <1>0, <1>3, EnterFields, IdleFields
  <2>2. store' = store /\ pending' = pending
    BY <1>3 DEF EnterTenant
  <2>3. Distinct(CommitsOfCohort)
    <3>1. Distinct(<<>>)
      BY DEF Distinct
    <3>2. QED
      BY <3>1, FreshDistinct DEF CommitsOfCohort
  <2>4. ASSUME CommitsOfCohort = <<>>, NEW r \in Ids(Candidates), r \in Ids(pending[r].plan.commits)
        PROVE  r \in Ids(store.history)
    <3>1. pending[r].plan = CohortPlan
      BY <2>1, CohortLogged
    <3>2. QED
      BY <2>1, <2>4, <3>1, CohortReach DEF HistoryInv
  <2>5. QED
    BY <1>3, <2>1, <2>2, <2>3, <2>4 DEF CommitsReach
<1>4. CASE Publish
  <2>1. worker'.at = "published" /\ worker'.todo = worker.todo /\ worker'.commits = worker.commits
    BY <1>0, <1>4, OnwardFields
  <2>2. pending' = pending
    BY <1>4 DEF Publish
  <2>3. \A r \in Ids(worker.todo) :
          r \in Ids(store'.history) <=> r \in Ids(worker.commits) \union Ids(pending[r].plan.commits)
    BY <1>4, PublishReach
  <2>4. QED
    BY <2>1, <2>2, <2>3 DEF CommitsReach
<1>5. CASE /\ worker'.at \in {"planned", "published"}
           /\ worker' = worker /\ \A r \in Ids(worker.group) : pending'[r] = pending[r]
           /\ store' = store \/ \E c \in Callers : DirectCommit(c)
  <2>1. Ids(worker.todo) \subseteq Ids(worker.group) /\ Ids(worker.group) \subseteq Requests
    <3>1. Ids(worker.todo) \subseteq Ids(worker.group)
      BY <1>5 DEF BaseInv, CohortInv
    <3>2. Ids(worker.group) \subseteq Requests
      BY <1>0 DEF Ids
    <3>3. QED
      BY <3>1, <3>2
  <2>2. \A r \in Requests : r \in Ids(store'.history) <=> r \in Ids(store.history)
    <3>1. CASE store'.history = store.history
      BY <3>1
    <3>2. ASSUME NEW c \in Callers, store'.history = Append(store.history, c)
          PROVE  \A r \in Requests : r \in Ids(store'.history) <=> r \in Ids(store.history)
      <4> DEFINE h == store.history
      <4>1. h \in Seq(Requests \union Callers) /\ store'.history = Append(h, c)
        BY <1>0, <3>2
      <4> HIDE DEF h
      <4>2. /\ \A i \in DOMAIN h : i \in DOMAIN Append(h, c) /\ Append(h, c)[i] = h[i]
            /\ \A i \in DOMAIN Append(h, c) : i \in DOMAIN h \/ Append(h, c)[i] = c
        BY <4>1
      <4>3. \A r \in Requests : r # c
        BY NamesAssumption
      <4>4. \A r \in Requests : r \in Ids(Append(h, c)) <=> r \in Ids(h)
        BY <4>2, <4>3 DEF Ids
      <4>5. QED
        BY <4>1, <4>4 DEF h
    <3>3. QED
      BY <1>0, <1>5, <3>1, <3>2, CallerStore
  <2>3. QED
    BY <1>5, <2>1, <2>2 DEF HistoryInv, CommitsReach
<1>6. CASE NextGroup
  <2>1. worker'.at = IF Writable THEN "entering" ELSE "failing"
    BY <1>0, <1>6, NextGroupFields
  <2>2. QED
    BY <1>1, <2>1
<1>7. CASE EnterTenant /\ worker'.at # "planned"
  <2>1. worker'.at # "published"
    BY <1>0, <1>7, EnterFields, IdleFields
  <2>2. QED
    BY <1>1, <1>7, <2>1
<1>8. QED
    BY <1>1, <1>2, <1>3, <1>4, <1>5, <1>6, <1>7, FlushStays

LEMMA HistoryStep ==
    ASSUME BaseInv, BaseInv', OrderInv, MarkInv, FlushInv, PreparedInLogOrder, ForceInv, HistoryInv, Next
    PROVE  HistoryInv'
BY StandingStep, OutcomesStep, ReachStep, CommitsReachStep DEF HistoryInv

-----------------------------------------------------------------------------
(* The inductive invariant, and what follows from it.                      *)

LEMMA PlanInit ==
    ASSUME Init
    PROVE  IInv
<1>1. BaseInv
    BY BaseInit
<1>2. /\ log = <<>> /\ intact = TRUE /\ accept = [r \in Requests |-> [at |-> "idle", generation |-> 0]]
      /\ pending = [r \in Requests |-> Inactive] /\ worker = IdleWorker /\ caller = [c \in Callers |-> NotCalled]
      /\ store.history = <<>> /\ store.status = "active" /\ store.records = [r \in Requests |-> "none"]
    BY DEF Init
<1>3. DOMAIN log = {} /\ Entries = {} /\ worker.at = "idle" /\ worker.group = <<>>
    BY <1>2, IdleFields DEF Entries
<1>4. \A r \in Requests : ~pending[r].active /\ pending[r].plan = NoPlan /\ accept[r].at = "idle"
    BY <1>2 DEF Inactive
<1>5. OrderInv
    BY <1>3, <1>4 DEF OrderInv
<1>6. MarkInv
    BY <1>2, <1>3, <1>4 DEF MarkInv
<1>7. FlushInv
    BY <1>3 DEF FlushInv
<1>8. PreparedInLogOrder
    BY <1>3 DEF PreparedInLogOrder
<1>9. ForceInv
    BY <1>3 DEF ForceInv, OnePlan, PlansFit, CommitsFit
<1>10. HistoryInv
  <2>1. DOMAIN store.history = {} /\ Ids(store.history) = {}
    BY <1>2 DEF Ids
  <2>2. \A r \in Requests : store.records[r] = "none"
    BY <1>2
  <2>3. OutcomesFit
    BY <2>1, <2>2 DEF OutcomesFit
  <2>4. QED
    BY <1>2, <1>3, <2>3 DEF HistoryInv, Standing, PlansReach, CommitsReach
<1>11. QED
    BY <1>1, <1>5, <1>6, <1>7, <1>8, <1>9, <1>10 DEF IInv

LEMMA PlanStep ==
    ASSUME IInv, [Next]_vars
    PROVE  IInv'
<1>1. CASE Next
  <2>1. BaseInv'
    BY <1>1, BaseStep DEF IInv
  <2>2. QED
    BY <1>1, <2>1, OrderStep, MarkStep, FlushStep, PreparedStep, ForceStep, HistoryStep DEF IInv
<1>2. CASE UNCHANGED vars
  <2>1. BaseInv'
    BY BaseStep DEF IInv
  <2>2. /\ store' = store /\ log' = log /\ intact' = intact /\ run' = run /\ accept' = accept /\ pending' = pending
        /\ order' = order /\ queue' = queue /\ worker' = worker /\ caller' = caller /\ wal' = wal
    BY <1>2 DEF vars
  <2>3. Entries' = Entries /\ Pipe' = Pipe /\ Candidates' = Candidates /\ FreshCommits' = FreshCommits
    BY <2>2 DEF Entries, Pipe, Candidates, FreshCommits, Admits
  <2>4. OrderInv'
    BY <2>2, <2>3 DEF IInv, OrderInv, Working
  <2>5. MarkInv'
    BY <2>2, <2>3 DEF IInv, MarkInv, EntryMarked, Working, Passed
  <2>6. FlushInv'
    BY <2>2, <2>3 DEF IInv, FlushInv, SameCohort
  <2>7. PreparedInLogOrder'
    BY <2>2 DEF IInv, PreparedInLogOrder
  <2>8. ForceInv'
    BY <2>2, <2>3 DEF IInv, ForceInv, OnePlan, PlansFit, CommitsFit, InForce, AtBase, AtFinal, Admits
  <2>9. HistoryInv'
    BY <2>2, <2>3 DEF IInv, HistoryInv, Standing, OutcomesFit, Awaited, PlansReach, CommitsReach, InForce, AtFinal
  <2>10. QED
    BY <2>1, <2>4, <2>5, <2>6, <2>7, <2>8, <2>9 DEF IInv
<1>3. QED
    BY <1>1, <1>2

\* The whole invariant: on the base layer, that the log has the order of the
\* pipe, that memory and log have the same plans, that one plan is in force
\* and the manifest is before or behind it, and that history and records agree
\* up to the requests of that plan.
THEOREM PlansHold == Spec => []IInv
<1>1. QED
    BY PlanInit, PlanStep, PTL DEF Spec

\* Recovery always reads the log, and finds the manifest where a plan was made
\* or where the plan leaves it: no crash, retry, refused record or direct commit
\* takes the manifest to a third state.
THEOREM PlansAreFound == Spec => []DurablePlansFit
<1>1. IInv => DurablePlansFit
  <2> SUFFICES ASSUME IInv PROVE DurablePlansFit
    OBVIOUS
  <2>1. intact
    BY DEF IInv, MarkInv
  <2>2. ASSUME NEW i \in DOMAIN log, log[i].plan.made, log[i].generation = store.generation
        PROVE  AtBase(log[i].plan) \/ AtFinal(log[i].plan)
    <3>1. log[i] \in Entries /\ InForce(log[i])
      BY <2>2 DEF Entries, InForce
    <3>2. QED
      BY <3>1 DEF IInv, ForceInv, PlansFit
  <2>3. QED
    BY <2>1, <2>2 DEF DurablePlansFit, AtBase, AtFinal
<1>2. QED
    BY <1>1, PlansHold, PTL

\* A request is prepared only behind every request acknowledged before it:
\* the flush follows the order of the log, across retries and restarts.
THEOREM PreparedInOrder == Spec => []PreparedInLogOrder
<1>1. IInv => PreparedInLogOrder
    BY DEF IInv
<1>2. QED
    BY <1>1, PlansHold, PTL

\* What a batch record tells the client is what happened: no crash between the
\* manifest and the record, no unanswered write and no retry applies a request
\* twice, records it as applied without its commit, or as failed beside it.
THEOREM OutcomesTruth == Spec => []OutcomesAreTrue
<1>1. IInv => OutcomesAreTrue
  <2> SUFFICES ASSUME IInv, store.phase = "cleared", NEW r \in Requests
               PROVE  LET times == Cardinality({i \in DOMAIN store.history : store.history[i] = r})
                      IN /\ times <= 1
                         /\ store.records[r] = "applied" => times = 1
                         /\ store.records[r] = "failed" => times = 0
    BY DEF OutcomesAreTrue
  <2> DEFINE places == {i \in DOMAIN store.history : store.history[i] = r}
  <2>1. /\ \A i, j \in DOMAIN store.history : store.history[i] = r /\ store.history[j] = r => i = j
        /\ store.records[r] = "applied" => r \in Ids(store.history)
        /\ store.records[r] = "failed" => r \notin Ids(store.history)
    BY DEF IInv, HistoryInv, OutcomesFit
  <2>2. r \in Ids(store.history) <=> places # {}
    BY DEF Ids
  <2>3. places = {} \/ \E i : places = {i}
    <3>1. \A i, j \in places : i = j
      BY <2>1
    <3> HIDE DEF places
    <3>2. QED
      BY <3>1
  <2> HIDE DEF places
  <2>4. Cardinality({}) = 0 /\ \A i : Cardinality({i}) = 1
    BY FS_EmptySet, FS_Singleton
  <2>5. /\ places = {} => Cardinality(places) = 0
        /\ places # {} => Cardinality(places) = 1
    BY <2>3, <2>4
  <2>6. /\ Cardinality(places) <= 1
        /\ store.records[r] = "applied" => Cardinality(places) = 1
        /\ store.records[r] = "failed" => Cardinality(places) = 0
    BY <2>1, <2>2, <2>5
  <2>7. QED
    BY <2>6 DEF places
<1>2. QED
    BY <1>1, PlansHold, PTL
=============================================================================
