----------------------------- MODULE ServicesProofs -----------------------------
(***************************************************************************)
(* Of the services beside the requests and of what is kept beside the      *)
(* records, for any numbers of everything: batches are all or nothing, a   *)
(* cluster's parent leaves at most one worker behind, what is encrypted    *)
(* opens through rotations, what processes keep of the database is fresh   *)
(* enough, webhook deliveries have the status their POSTs earned, whoever  *)
(* watches a channel believes in who is there, one-off jobs fire once, and *)
(* the history of a record tells its states.                               *)
(***************************************************************************)
EXTENDS Batch, Supervisor, KeyRotation, Caches, Webhooks, Presence, Cron, History,
        FiniteSetTheorems, WellFoundedInduction, TLAPS

-----------------------------------------------------------------------------
(* Sequences and numbers *)

LEMMA SeqFrom ==
  ASSUME NEW R, NEW m \in Nat, NEW q \in [1 .. m -> R]
  PROVE  q \in Seq(R) /\ Len(q) = m
OBVIOUS

LEMMA SeqInto ==
  ASSUME NEW R, NEW Q, NEW q \in Seq(Q), \A n \in DOMAIN q : q[n] \in R
  PROVE  q \in Seq(R)
<1>1. Len(q) \in Nat /\ q \in [1 .. Len(q) -> R]
  OBVIOUS
<1> QED
  BY <1>1

LEMMA ConcatIs ==
  ASSUME NEW R, NEW a \in Seq(R), NEW b \in Seq(R), NEW r, r = a \o b
  PROVE  /\ r \in Seq(R) /\ Len(r) = Len(a) + Len(b)
         /\ DOMAIN r = 1 .. Len(a) + Len(b)
         /\ \A k \in 1 .. Len(a) : r[k] = a[k]
         /\ \A k \in 1 .. Len(b) : r[k + Len(a)] = b[k]
OBVIOUS

LEMMA SeqExcept ==
  ASSUME NEW R, NEW q \in Seq(R), NEW d \in DOMAIN q, NEW v \in R, NEW r, r = [q EXCEPT ![d] = v]
  PROVE  r \in Seq(R) /\ DOMAIN r = DOMAIN q
<1>1. Len(q) \in Nat /\ DOMAIN q = 1 .. Len(q) /\ r \in [1 .. Len(q) -> R]
  OBVIOUS
<1> QED
  BY <1>1, SeqFrom

(* A sequence without one of its elements. *)
LEMMA RemoveAtIs ==
  ASSUME NEW R, NEW q \in Seq(R), NEW n \in DOMAIN q
  PROVE  /\ RemoveAt(q, n) \in Seq(R) /\ Len(RemoveAt(q, n)) = Len(q) - 1
         /\ \A k \in 1 .. Len(q) - 1 : RemoveAt(q, n)[k] = q[IF k < n THEN k ELSE k + 1]
<1>1. Len(q) \in Nat /\ DOMAIN q = 1 .. Len(q) /\ n \in 1 .. Len(q)
  OBVIOUS
<1>2. PICK a : a = SubSeq(q, 1, n - 1)
  OBVIOUS
<1>3. PICK b : b = SubSeq(q, n + 1, Len(q))
  OBVIOUS
<1>4. a \in Seq(R) /\ Len(a) = n - 1 /\ \A k \in 1 .. n - 1 : a[k] = q[k]
  BY <1>1, <1>2
<1>5. b \in Seq(R) /\ Len(b) = Len(q) - n /\ \A k \in 1 .. Len(q) - n : b[k] = q[k + n]
  BY <1>1, <1>3
<1>6. PICK r : r = a \o b
  OBVIOUS
<1>7. /\ r \in Seq(R) /\ Len(r) = Len(q) - 1
      /\ \A k \in 1 .. n - 1 : r[k] = a[k]
      /\ \A k \in 1 .. Len(q) - n : r[k + (n - 1)] = b[k]
  <2>1. Len(a) + Len(b) = Len(q) - 1
    BY <1>1, <1>4, <1>5
  <2>2. /\ r \in Seq(R) /\ Len(r) = Len(a) + Len(b)
        /\ \A k \in 1 .. Len(a) : r[k] = a[k]
        /\ \A k \in 1 .. Len(b) : r[k + Len(a)] = b[k]
    <3>1. a \in Seq(R) /\ b \in Seq(R)
      BY <1>4, <1>5
    <3> QED
      BY <1>6, <3>1
  <2> QED
    BY <1>4, <1>5, <2>1, <2>2
<1>8. ASSUME NEW k \in 1 .. Len(q) - 1
      PROVE  r[k] = q[IF k < n THEN k ELSE k + 1]
  <2>1. CASE k < n
    <3>1. k \in 1 .. n - 1
      BY <1>1, <2>1
    <3> QED
      BY <1>4, <1>7, <2>1, <3>1
  <2>2. CASE ~ (k < n)
    <3>0. /\ k - (n - 1) \in 1 .. Len(q) - n
          /\ (k - (n - 1)) + (n - 1) = k /\ (k - (n - 1)) + n = k + 1
      BY <1>1, <2>2
    <3>1. PICK m \in 1 .. Len(q) - n : m + (n - 1) = k /\ m + n = k + 1
      BY <3>0
    <3> QED
      BY <1>5, <1>7, <2>2, <3>1
  <2> QED
    BY <2>1, <2>2
<1> QED
  BY <1>2, <1>3, <1>6, <1>7, <1>8 DEF RemoveAt

(* A finite set, in some order. *)
LEMMA SetToSeqIs ==
  ASSUME NEW S, IsFiniteSet(S)
  PROVE  SetToSeq(S) \in Seq(S)
<1>1. Cardinality(S) \in Nat
  BY FS_CardinalityType
<1>2. PICK f : f \in Bijection(1 .. Cardinality(S), S)
  BY FS_CardinalityType DEF ExistsBijection
<1>3. f \in [1 .. Cardinality(S) -> S] /\ IsInjective(f)
  BY <1>2 DEF Bijection, Injection, IsInjective
<1>4. SetToSeq(S) \in [1 .. Cardinality(S) -> S]
  BY <1>3 DEF SetToSeq
<1> QED
  BY <1>1, <1>4

(* How many of a sequence's elements are in W. *)
Hits(q, W) == {n \in DOMAIN q : q[n] \in W}
Count(q, W) == Cardinality(Hits(q, W))

LEMMA CountType ==
  ASSUME NEW R, NEW q \in Seq(R), NEW W
  PROVE  IsFiniteSet(Hits(q, W)) /\ Count(q, W) \in Nat
<1>1. Len(q) \in Nat /\ Hits(q, W) \in SUBSET (1..Len(q))
  BY DEF Hits
<1>2. IsFiniteSet(1..Len(q))
  BY <1>1, FS_Interval
<1>3. IsFiniteSet(Hits(q, W))
  BY <1>1, <1>2, FS_Subset
<1>4. QED
  BY <1>3, FS_CardinalityType DEF Count

LEMMA CountEmpty == \A W : Count(<<>>, W) = 0
<1>1. \A W : Hits(<<>>, W) = {}
  BY DEF Hits
<1>2. QED
  BY <1>1, FS_EmptySet DEF Count

LEMMA CountAppend ==
  ASSUME NEW R, NEW q \in Seq(R), NEW r \in R, NEW W
  PROVE  /\ r \in W => Count(Append(q, r), W) = Count(q, W) + 1
         /\ r \notin W => Count(Append(q, r), W) = Count(q, W)
<1>1. PICK a : a = Append(q, r)
  OBVIOUS
<1>2. PICK m \in Nat : m = Len(q)
  OBVIOUS
<1>3. DOMAIN q = 1..m /\ DOMAIN a = 1..(m + 1) /\ a[m + 1] = r /\ \A n \in 1..m : a[n] = q[n]
  BY <1>1, <1>2
<1>4. m + 1 \notin Hits(q, W) /\ IsFiniteSet(Hits(q, W)) /\ Count(q, W) \in Nat
  <2>1. m + 1 \notin DOMAIN q
    BY <1>3
  <2>2. QED
    BY <2>1, CountType DEF Hits
<1>5. CASE r \in W
  <2>1. Hits(a, W) = Hits(q, W) \cup {m + 1}
    BY <1>3, <1>5 DEF Hits
  <2>2. QED
    BY <1>1, <1>4, <1>5, <2>1, FS_AddElement DEF Count
<1>6. CASE r \notin W
  <2>1. Hits(a, W) = Hits(q, W)
    BY <1>3, <1>6 DEF Hits
  <2>2. QED
    BY <1>1, <1>6, <2>1 DEF Count
<1>7. QED
  BY <1>5, <1>6

LEMMA CountRemove ==
  ASSUME NEW R, NEW q \in Seq(R), NEW n \in DOMAIN q, NEW W
  PROVE  /\ q[n] \in W => Count(q, W) = Count(RemoveAt(q, n), W) + 1
         /\ q[n] \notin W => Count(q, W) = Count(RemoveAt(q, n), W)
<1>1. PICK r : r = RemoveAt(q, n)
  OBVIOUS
<1>2. PICK m \in Nat : m = Len(q)
  OBVIOUS
<1>3. DOMAIN q = 1..m /\ n \in 1..m
  BY <1>2
<1>4. r \in Seq(R) /\ Len(r) = m - 1 /\ \A k \in 1..(m - 1) : r[k] = q[IF k < n THEN k ELSE k + 1]
  BY <1>1, <1>2, RemoveAtIs
<1>5. DOMAIN r = 1..(m - 1)
  BY <1>4
<1> DEFINE S == Hits(r, W)
           T == Hits(q, W) \ {n}
           f == [k \in S |-> IF k < n THEN k ELSE k + 1]
<1>6. IsFiniteSet(S) /\ IsFiniteSet(Hits(q, W)) /\ Count(q, W) \in Nat /\ Count(r, W) \in Nat
  BY <1>4, CountType
<1>7. f \in Bijection(S, T)
  <2>1. ASSUME NEW k \in S PROVE f[k] \in T
    BY <1>2, <1>3, <1>4, <1>5 DEF Hits
  <2>2. ASSUME NEW k \in S, NEW l \in S, f[k] = f[l] PROVE k = l
    <3>1. k \in 1..(m - 1) /\ l \in 1..(m - 1)
      BY <1>5 DEF Hits
    <3>2. QED
      BY <1>2, <1>3, <2>2, <3>1
  <2>3. ASSUME NEW t \in T PROVE \E k \in S : f[k] = t
    <3>1. t \in 1..m /\ q[t] \in W /\ t # n
      BY <1>3 DEF Hits
    <3>2. CASE t < n
      <4>1. t \in 1..(m - 1) /\ r[t] = q[t]
        BY <1>2, <1>3, <1>4, <3>1, <3>2
      <4>2. t \in S
        BY <1>5, <3>1, <4>1 DEF Hits
      <4>3. QED
        BY <3>2, <4>2
    <3>3. CASE t > n
      <4>1. PICK k \in 1..(m - 1) : k + 1 = t
        <5>1. t - 1 \in 1..(m - 1) /\ (t - 1) + 1 = t
          BY <1>2, <1>3, <3>1, <3>3
        <5>2. QED
          BY <5>1
      <4>2. ~(k < n)
        BY <1>2, <1>3, <3>3, <4>1
      <4>3. r[k] = q[t]
        BY <1>4, <4>1, <4>2
      <4>4. k \in S
        BY <1>5, <3>1, <4>1, <4>3 DEF Hits
      <4>5. QED
        BY <4>1, <4>2, <4>4
    <3>4. QED
      BY <1>2, <1>3, <3>1, <3>2, <3>3
  <2>4. f \in [S -> T]
    BY <2>1
  <2>5. QED
    BY <2>2, <2>3, <2>4 DEF Bijection, Injection, Surjection, IsInjective
<1>8. Cardinality(T) = Count(r, W)
  <2>1. ExistsBijection(S, T)
    BY <1>7 DEF ExistsBijection
  <2>2. QED
    BY <1>6, <2>1, FS_Bijection DEF Count
<1>9. /\ n \in Hits(q, W) => Cardinality(T) = Count(q, W) - 1
      /\ n \notin Hits(q, W) => Cardinality(T) = Count(q, W)
  BY <1>6, FS_RemoveElement DEF Count
<1>10. n \in Hits(q, W) <=> q[n] \in W
  BY DEF Hits
<1>11. QED
  BY <1>1, <1>6, <1>8, <1>9, <1>10

LEMMA CountSubset ==
  ASSUME NEW R, NEW q \in Seq(R), NEW V, NEW W, V \subseteq W
  PROVE  Count(q, V) <= Count(q, W)
<1>1. Hits(q, V) \in SUBSET Hits(q, W)
  BY DEF Hits
<1>2. QED
  BY <1>1, CountType, FS_Subset DEF Count

(* A set of numbers that is not empty has a smallest one. *)
LEMMA SmallestNat ==
  ASSUME NEW T \in SUBSET Nat, T # {}
  PROVE  \E x \in T : \A y \in T : x <= y
<1>1. IsWellFoundedOn(OpToRel(<, Nat), Nat)
  BY NatLessThanWellFounded
<1>2. PICK x \in T : \A y \in T : ~ (<<y, x>> \in OpToRel(<, Nat))
  BY <1>1, WFMin
<1>3. \A y \in T : ~ (y < x)
  BY <1>2 DEF OpToRel
<1> QED
  BY <1>3

-----------------------------------------------------------------------------
(* Batches *)

(* Batches and single writes are different requests, and none is NoBatch. *)
Distinguished == Batches \cap Singles = {} /\ NoBatch \notin Batches /\ MaxOps \in Nat \ {0}

(* BatchWhole, said of one write: what a batch has written is durable when *)
(* it has committed, and waits in the transaction, which is its own, while *)
(* it runs.                                                                *)
Own ==
  /\ \A b \in Batches, n \in 1..MaxOps :
       /\ <<b, n>> \in durable => stage[b] = "committed"
       /\ <<b, n>> \in pending => stage[b] = "running"
  /\ \A b \in Batches : stage[b] = "running" <=> opened = b
  /\ opened = NoBatch => pending = {}

LEMMA OwnIsWhole == Own <=> BatchWhole
<1>1. ASSUME Own PROVE BatchWhole
  <2>1. ASSUME NEW b \in Batches, stage[b] # "committed" PROVE OfBatch(b) \cap durable = {}
    BY <1>1, <2>1 DEF Own, OfBatch
  <2>2. ASSUME NEW b \in Batches, stage[b] # "running" PROVE OfBatch(b) \cap pending = {}
    BY <1>1, <2>2 DEF Own, OfBatch
  <2>3. QED
    BY <1>1, <2>1, <2>2 DEF Own, BatchWhole, InTransaction
<1>2. ASSUME BatchWhole PROVE Own
  <2>1. ASSUME NEW b \in Batches, NEW n \in 1..MaxOps
        PROVE  <<b, n>> \in OfBatch(b)
    BY DEF OfBatch
  <2>2. ASSUME NEW b \in Batches, NEW n \in 1..MaxOps, <<b, n>> \in durable
        PROVE  stage[b] = "committed"
    BY <1>2, <2>1, <2>2 DEF BatchWhole
  <2>3. ASSUME NEW b \in Batches, NEW n \in 1..MaxOps, <<b, n>> \in pending
        PROVE  stage[b] = "running"
    BY <1>2, <2>1, <2>3 DEF BatchWhole
  <2>4. QED
    BY <1>2, <2>2, <2>3 DEF Own, BatchWhole, InTransaction
<1>3. QED
  BY <1>1, <1>2

(* Every reachable state is well typed: an operation's place is one a       *)
(* batch may have.                                                         *)
LEMMA BatchTypeStep ==
  ASSUME MaxOps \in Nat \ {0}, BatchTypeOK, [BatchNext]_batchVars
  PROVE  BatchTypeOK'
<1> USE DEF BatchTypeOK
<1>1. ASSUME NEW b \in Batches, BeginBatch(b) PROVE BatchTypeOK'
  BY <1>1 DEF BeginBatch, Refused
<1>2. ASSUME NEW b \in Batches, OpWrites(b) PROVE BatchTypeOK'
  <2>1. done[b] + 1 \in 1..MaxOps /\ done' \in [Batches -> 0..MaxOps]
    BY <1>2 DEF OpWrites, NextOp
  <2>2. <<b, done[b] + 1>> \in ((Batches \cup Singles) \X (1..MaxOps))
    BY <2>1
  <2>3. QED
    BY <1>2, <2>1, <2>2 DEF OpWrites, Write
<1>3. ASSUME NEW b \in Batches, OpNoWrite(b) PROVE BatchTypeOK'
  BY <1>3 DEF OpNoWrite, NextOp
<1>4. ASSUME NEW b \in Batches, OpThrows(b) PROVE BatchTypeOK'
  BY <1>4 DEF OpThrows, RollBack
<1>5. ASSUME NEW b \in Batches, CommitBatch(b) PROVE BatchTypeOK'
  BY <1>5 DEF CommitBatch, RollBack
<1>6. ASSUME NEW s \in Singles, SingleWrites(s) PROVE BatchTypeOK'
  BY <1>6 DEF SingleWrites, Write
<1>7. ASSUME NEW s \in Singles, SingleAnswers(s) PROVE BatchTypeOK'
  BY <1>7 DEF SingleAnswers
<1>8. CASE BatchCrash
  <2>1. stage' \in [Batches -> {"idle", "running", "committed", "rolledback", "refused", "failed"}]
    BY <1>8 DEF BatchCrash
  <2>2. single' \in [Singles -> {"idle", "written", "answered", "failed"}]
    BY <1>8 DEF BatchCrash
  <2>3. QED
    BY <1>8, <2>1, <2>2 DEF BatchCrash
<1>9. CASE UNCHANGED batchVars
  BY <1>9 DEF batchVars
<1>10. QED
  BY <1>1, <1>2, <1>3, <1>4, <1>5, <1>6, <1>7, <1>8, <1>9 DEF BatchNext

(* A step keeps each write where its batch is. *)
LEMMA OwnStep ==
  ASSUME Distinguished, BatchTypeOK, Own, [BatchNext]_batchVars
  PROVE  Own'
<1> USE DEF Own, BatchTypeOK, Distinguished, InTransaction
<1>1. ASSUME NEW b \in Batches, BeginBatch(b) PROVE Own'
  <2>1. CASE opened = NoBatch
    BY <1>1, <2>1 DEF BeginBatch
  <2>2. CASE opened # NoBatch
    BY <1>1, <2>2 DEF BeginBatch, Refused
  <2>3. QED
    BY <2>1, <2>2
<1>2. ASSUME NEW b \in Batches, OpWrites(b) PROVE Own'
  <2>1. /\ opened = b /\ opened # NoBatch /\ pending' = pending \cup {<<b, done[b] + 1>>}
        /\ UNCHANGED <<durable, opened, stage>>
    BY <1>2 DEF OpWrites, NextOp, Write
  <2>2. QED
    BY <1>2, <2>1 DEF NextOp
<1>3. ASSUME NEW b \in Batches, OpNoWrite(b) PROVE Own'
  BY <1>3 DEF OpNoWrite
<1>4. ASSUME NEW b \in Batches, OpThrows(b) PROVE Own'
  <2>1. opened = b /\ opened # NoBatch /\ stage' = [stage EXCEPT ![b] = "rolledback"]
    BY <1>4 DEF OpThrows, RollBack
  <2>2. QED
    BY <1>4, <2>1 DEF OpThrows, RollBack
<1>5. ASSUME NEW b \in Batches, CommitBatch(b) PROVE Own'
  <2>1. /\ opened = b /\ opened # NoBatch /\ stage' = [stage EXCEPT ![b] = "committed"]
        /\ durable' = durable \cup pending /\ pending' = {} /\ opened' = NoBatch
    BY <1>5 DEF CommitBatch
  <2>2. QED
    BY <2>1
<1>6. ASSUME NEW s \in Singles, SingleWrites(s) PROVE Own'
  <2>1. \A b \in Batches, n \in 1..MaxOps : <<b, n>> # <<s, 1>>
    OBVIOUS
  <2>2. QED
    BY <1>6, <2>1 DEF SingleWrites, Write
<1>7. ASSUME NEW s \in Singles, SingleAnswers(s) PROVE Own'
  BY <1>7 DEF SingleAnswers
<1>8. CASE BatchCrash
  BY <1>8 DEF BatchCrash
<1>9. CASE UNCHANGED batchVars
  BY <1>9 DEF batchVars
<1>10. QED
  BY <1>1, <1>2, <1>3, <1>4, <1>5, <1>6, <1>7, <1>8, <1>9 DEF BatchNext

(* However many batches and single writes a process serves at once, and    *)
(* wherever it dies, no part of a batch is durable without the rest.       *)
THEOREM BatchesWhole == ASSUME Distinguished PROVE BatchSpec => []BatchWhole
<1>1. BatchInit => BatchTypeOK /\ Own
  BY DEF Distinguished, BatchInit, BatchTypeOK, Own
<1>2. BatchTypeOK /\ Own /\ [BatchNext]_batchVars => BatchTypeOK' /\ Own'
  BY BatchTypeStep, OwnStep DEF Distinguished
<1>3. Own => BatchWhole
  BY OwnIsWhole
<1>4. QED
  BY <1>1, <1>2, <1>3, PTL DEF BatchSpec

----------------------------------------------------------------------------
(* The loop of shutdown() is over those before `next`.  Of these at most   *)
(* one still drains, and then the deadline has passed and it waits for no  *)
(* other; of those behind nothing is known but that they were told.        *)
Rest ==
  /\ phase = "run" => next = 1 /\ waiting = FALSE /\ late = FALSE
  /\ phase # "run" => \A i \in Ids : proc[i] # "up"
  /\ waiting = TRUE => next \in Ids
  /\ phase = "gone" => next = N + 1
Left == \A i \in Ids : i < next /\ proc[i] = "told" =>
          /\ late = TRUE /\ waiting = FALSE
          /\ \A j \in Ids : j < next /\ proc[j] = "told" => i = j

LEMMA DrainsInit == MaxExits \in Nat /\ SupInit => SupTypeOK /\ Rest /\ Left
<1> SUFFICES ASSUME MaxExits \in Nat, SupInit PROVE SupTypeOK /\ Rest /\ Left
  OBVIOUS
<1>1. SupTypeOK
  <2>1. proc \in [Ids -> ProcState] /\ respawn \subseteq Ids
    BY DEF SupInit, ProcState
  <2>2. next \in 1..(N + 1) /\ exits \in 0..MaxExits
    BY SupervisorAssumption DEF SupInit
  <2>3. QED
    BY <2>1, <2>2 DEF SupInit, SupTypeOK
<1>2. Rest /\ Left
  BY SupervisorAssumption DEF SupInit, Rest, Left, Ids
<1>3. QED
  BY <1>1, <1>2

(* Steps keep the types; the loop's place stays within 1..N+1.             *)
LEMMA SupTypeStep == ASSUME MaxExits \in Nat, SupTypeOK, Rest, [SupNext]_supVars PROVE SupTypeOK'
<1> USE SupervisorAssumption DEF SupTypeOK, ProcState
<1>1. CASE Shutdown
  <2>1. proc' \in [Ids -> ProcState]
    BY <1>1 DEF Shutdown
  <2>2. QED
    BY <1>1, <2>1 DEF Shutdown
<1>2. CASE Deadline
  BY <1>2 DEF Deadline
<1>3. CASE Come
  <2>1. proc' \in [Ids -> ProcState]
    BY <1>3 DEF Come, KilledNow
  <2>2. next' \in 1..(N + 1)
    BY <1>3 DEF Come, Ids
  <2>3. waiting' \in BOOLEAN
    BY <1>3 DEF Come
  <2>4. QED
    BY <1>3, <2>1, <2>2, <2>3 DEF Come
<1>4. CASE Waited
  <2>1. next' \in 1..(N + 1)
    BY <1>4 DEF Waited, Rest, Ids
  <2>2. QED
    BY <1>4, <2>1 DEF Waited
<1>5. CASE ParentExits
  BY <1>5 DEF ParentExits
<1>6. ASSUME NEW i \in Ids, ProcDies(i) PROVE SupTypeOK'
  BY <1>6 DEF ProcDies
<1>7. ASSUME NEW i \in Ids, Respawn(i) PROVE SupTypeOK'
  BY <1>7 DEF Respawn, MaySpawn
<1>8. ASSUME NEW i \in Ids, Drained(i) PROVE SupTypeOK'
  BY <1>8 DEF Drained
<1>9. CASE UNCHANGED supVars
  BY <1>9 DEF supVars
<1>10. QED
  BY <1>1, <1>2, <1>3, <1>4, <1>5, <1>6, <1>7, <1>8, <1>9 DEF SupNext

LEMMA DrainsStep ==
  ASSUME MaxExits \in Nat, SupTypeOK, Rest, Left, [SupNext]_supVars
  PROVE  Rest' /\ Left'
<1> USE SupervisorAssumption DEF SupTypeOK, Rest, Left, Ids, ProcState
<1>1. CASE Shutdown
  BY <1>1 DEF Shutdown
<1>2. CASE Deadline
  BY <1>2 DEF Deadline
<1>3. CASE Come
  <2>1. CASE late
    BY <1>3, <2>1 DEF Come, KilledNow
  <2>2. CASE ~late
    BY <1>3, <2>2 DEF Come
  <2>3. QED
    BY <2>1, <2>2
<1>4. CASE Waited
  BY <1>4 DEF Waited, WaitOver
<1>5. CASE ParentExits
  BY <1>5 DEF ParentExits
<1>6. ASSUME NEW i \in Ids, ProcDies(i) PROVE Rest' /\ Left'
  BY <1>6 DEF ProcDies
<1>7. ASSUME NEW i \in Ids, Respawn(i) PROVE Rest' /\ Left'
  BY <1>7 DEF Respawn, MaySpawn
<1>8. ASSUME NEW i \in Ids, Drained(i) PROVE Rest' /\ Left'
  BY <1>8 DEF Drained
<1>9. CASE UNCHANGED supVars
  BY <1>9 DEF supVars
<1>10. QED
  BY <1>1, <1>2, <1>3, <1>4, <1>5, <1>6, <1>7, <1>8, <1>9 DEF SupNext

(* When the parent has exited at most one worker drains, and none runs     *)
(* that it had not told to end.                                            *)
THEOREM AtMostOneOrphan == ASSUME MaxExits \in Nat PROVE SupSpec => []OneOrphan
<1>1. SupInit => SupTypeOK /\ Rest /\ Left
  BY DrainsInit
<1>2. SupTypeOK /\ Rest /\ Left /\ [SupNext]_supVars => SupTypeOK' /\ Rest' /\ Left'
  BY SupTypeStep, DrainsStep
<1>3. SupTypeOK /\ Rest /\ Left => OneOrphan
  BY SupervisorAssumption DEF Rest, Left, OneOrphan, SupTypeOK, Ids
<1>4. QED
  BY <1>1, <1>2, <1>3, PTL DEF SupSpec

----------------------------------------------------------------------------
(***************************************************************************)
(* Key rotation: what was encrypted opens, for any fields, settings, number *)
(* of keys and interrupted rotations.  Between the rotations it is Turned   *)
(* that lets the old keys go: once one has ended under the primary key,    *)
(* whatever it did not pass over is under that key.                        *)
(***************************************************************************)
Sealed == /\ MaxKeys \in Nat /\ Fields \cap Settings = {} /\ Plain # Blank
          /\ Plain \notin 0..MaxKeys /\ Blank \notin 0..MaxKeys

Ring == /\ primary = next_key /\ primary \in 0..MaxKeys /\ old \subseteq 1..MaxKeys
        /\ rotating.fields \subseteq Fields /\ (rotating.on = TRUE => primary # 0)
        /\ skipped \subseteq Fields /\ flagged \subseteq Fields
        /\ rotated \in BOOLEAN /\ rotating \in [on : BOOLEAN, fields : SUBSET Fields]
Opening == /\ stored \in [Places -> {Plain} \cup 1..MaxKeys]
           /\ \A x \in Places \ skipped : stored[x] = Plain \/ stored[x] \in Keys
           /\ history \subseteq Keys
Turned ==
  rotated = TRUE => primary # 0 /\ \A x \in Places \ skipped : stored[x] \in {Plain, primary}

LEMMA KeysInit == Sealed /\ KeyInit => Ring /\ Opening /\ Turned
<1> SUFFICES ASSUME Sealed, KeyInit PROVE Ring /\ Opening /\ Turned
  OBVIOUS
<1>1. Ring
  <2>1. rotating = [on |-> FALSE, fields |-> {}] /\ rotated = FALSE
    BY DEF KeyInit, NotRotating
  <2>2. /\ rotating.on = FALSE /\ rotating.fields = {}
        /\ rotating \in [on : BOOLEAN, fields : SUBSET Fields]
    BY <2>1
  <2>3. /\ primary = next_key /\ primary \in 0..MaxKeys
        /\ old \subseteq 1..MaxKeys /\ skipped \subseteq Fields
    BY DEF KeyInit, Sealed
  <2>4. QED
    BY <2>1, <2>2, <2>3 DEF Ring, KeyInit
<1>2. Opening
  BY DEF KeyInit, Opening, Keys
<1>3. QED
  BY <1>1, <1>2 DEF KeyInit, Turned

LEMMA OpeningOpens == Sealed /\ Ring /\ Opening => StillOpens
BY DEF Sealed, Ring, Opening, StillOpens, Opens, Places

(* No secret setting is read as Blank, so none is saved as such.            *)
LEMMA SavesOpen ==
  ASSUME Sealed, Ring, Opening, Turned,
         (\E f \in Fields : SaveField(f)) \/ (\E s \in Settings : SaveSetting(s))
  PROVE  Ring' /\ Opening' /\ Turned'
<1> USE DEF Sealed, Ring, Opening, Turned, Places, Keys
<1>1. ASSUME NEW f \in Fields, SaveField(f) PROVE Ring' /\ Opening' /\ Turned'
  <2>1. Ring'
    BY <1>1 DEF SaveField
  <2>2. \A x \in Places \ {f} : stored'[x] = stored[x]
    BY <1>1 DEF SaveField
  <2>3. stored'[f] \in {Plain, primary} /\ (stored'[f] = primary => primary # 0 \/ primary = Plain)
    BY <1>1 DEF SaveField
  <2>4. stored'[f] = Plain \/ (stored'[f] = primary /\ primary \in 1..MaxKeys)
    BY <2>3
  <2>5. Opening'
    BY <1>1, <2>2, <2>4 DEF SaveField
  <2>6. Turned'
    BY <1>1, <2>2, <2>4 DEF SaveField
  <2>7. QED
    BY <2>1, <2>5, <2>6
<1>2. ASSUME NEW s \in Settings, SaveSetting(s) PROVE Ring' /\ Opening' /\ Turned'
  <2>1. Opens(s)
    BY OpeningOpens DEF StillOpens
  <2>2. \A x \in Places \ {s} : stored'[x] = stored[x]
    BY <1>2 DEF SaveSetting
  <2>3. stored'[s] = IF primary = 0 THEN Plain ELSE primary
    BY <1>2, <2>1 DEF SaveSetting
  <2>4. Ring'
    BY <1>2 DEF SaveSetting
  <2>5. Opening'
    BY <1>2, <2>2, <2>3 DEF SaveSetting
  <2>6. Turned'
    BY <1>2, <2>2, <2>3 DEF SaveSetting
  <2>7. QED
    BY <2>4, <2>5, <2>6
<1>3. QED
  BY <1>1, <1>2

LEMMA KeysStep ==
  ASSUME Sealed, Ring, Opening, Turned, [KeyNext]_keyVars
  PROVE  Ring' /\ Opening' /\ Turned'
<1> USE DEF Sealed, Ring, Opening, Turned, Keys
<1>1. CASE (\E f \in Fields : SaveField(f)) \/ (\E s \in Settings : SaveSetting(s))
  BY <1>1, SavesOpen
<1>2. ASSUME NEW f \in Fields, Snapshot(f) PROVE Ring' /\ Opening' /\ Turned'
  BY <1>2 DEF Snapshot
<1>3. ASSUME NEW f \in Fields, Toggle(f) PROVE Ring' /\ Opening' /\ Turned'
  BY <1>3 DEF Toggle
<1>4. CASE SwapKey
  <2>1. Ring'
    <3>1. primary' = next_key' /\ primary' \in 0..MaxKeys /\ old' \subseteq 1..MaxKeys
      <4>1. primary' = primary + 1 /\ next_key' = primary + 1 /\ primary < MaxKeys
        BY <1>4 DEF SwapKey
      <4>2. primary = 0 \/ primary \in 1..MaxKeys
        OBVIOUS
      <4>3. old' \subseteq 1..MaxKeys
        BY <1>4, <4>2 DEF SwapKey
      <4>4. QED
        BY <4>1, <4>3
    <3>2. rotated' = FALSE /\ UNCHANGED <<rotating, skipped, flagged>> /\ primary' # 0
      BY <1>4 DEF SwapKey
    <3>3. QED
      BY <3>1, <3>2
  <2>2. Keys \subseteq Keys'
    BY <1>4 DEF SwapKey
  <2>3. QED
    BY <1>4, <2>1, <2>2 DEF SwapKey
<1>5. CASE StartRotation
  BY <1>5 DEF StartRotation
<1>6. CASE RotateAll
  <2>1. Ring' /\ primary # 0 /\ primary \in Keys /\ UNCHANGED <<primary, old, history>>
    BY <1>6 DEF RotateAll, NotRotating
  <2>2. ASSUME NEW x \in Places
        PROVE  stored'[x] = IF x \in Rewritten /\ Encrypted(x) THEN primary ELSE stored[x]
    BY <1>6 DEF RotateAll
  <2>3. Opening'
    <3>1. stored' \in [Places -> {Plain} \cup 1..MaxKeys]
      BY <1>6, <2>1 DEF RotateAll
    <3>2. skipped \subseteq skipped'
      BY <1>6 DEF RotateAll
    <3>3. QED
      BY <2>1, <2>2, <3>1, <3>2
  <2>4. ASSUME NEW x \in Places \ skipped' PROVE stored'[x] \in {Plain, primary}
    <3>1. x \in Rewritten \/ ~Encrypted(x)
      BY <1>6 DEF RotateAll, Rewritten, Places
    <3>2. Encrypted(x) \/ stored[x] = Plain
      BY DEF Encrypted
    <3>3. QED
      BY <2>2, <3>1, <3>2
  <2>5. Turned'
    <3>1. primary' = primary /\ Places' = Places
      BY <2>1 DEF Places
    <3>2. QED
      BY <2>1, <2>4, <3>1
  <2>6. QED
    BY <2>1, <2>3, <2>5
<1>7. CASE Interrupted
  <2>1. /\ rotating'.on = FALSE /\ rotating'.fields = {}
        /\ rotating' \in [on : BOOLEAN, fields : SUBSET Fields]
    BY <1>7 DEF Interrupted, NotRotating
  <2>2. UNCHANGED <<stored, flagged, history, primary, old, next_key, rotated, skipped>>
    BY <1>7 DEF Interrupted
  <2>3. Ring'
    BY <2>1, <2>2
  <2>4. Opening' /\ Turned'
    BY <2>2 DEF Places
  <2>5. QED
    BY <2>3, <2>4
<1>11. CASE PruneHistory
  BY <1>11 DEF PruneHistory
<1>8. CASE DropOld
  BY <1>8 DEF DropOld
<1>9. CASE UNCHANGED keyVars
  BY <1>9 DEF keyVars
<1>10. QED
  BY <1>1, <1>2, <1>3, <1>4, <1>5, <1>6, <1>7, <1>8, <1>9, <1>11 DEF KeyNext

(* Whatever is saved, flagged and interrupted between any number of keys,  *)
(* and old keys dropped when a rotation has ended: every secret opens.     *)
THEOREM SecretsStayOpen == ASSUME Sealed PROVE KeySpec => []StillOpens
<1>1. KeyInit => Ring /\ Opening /\ Turned
  BY KeysInit
<1>2. Ring /\ Opening /\ Turned /\ [KeyNext]_keyVars => (Ring /\ Opening /\ Turned)'
  BY KeysStep
<1>3. Ring /\ Opening /\ Turned => StillOpens
  BY OpeningOpens
<1>4. QED
  BY <1>1, <1>2, <1>3, PTL DEF KeySpec

----------------------------------------------------------------------------
(***************************************************************************)
(* Caches: what a copy may be behind, for any processes, edits and time.   *)
(* A copy was loaded before the version it holds ended, and no edit of its *)
(* process came after it.                                                  *)
(***************************************************************************)
Timed == Ttl \in Nat /\ MaxEdits \in Nat /\ MaxBeats \in Nat

CopyState == [in : BOOLEAN, ver : Nat, on : BOOLEAN, loaded : Nat]
Clocked == /\ truth \in Nat /\ beat \in Nat /\ enabled \in BOOLEAN
           /\ ended \in Seq(Nat) /\ Len(ended) = truth
           /\ copy \in [CacheProcs -> CopyState] /\ mine \in [CacheProcs -> Nat]
Behind(p) == /\ copy[p].ver <= truth /\ mine[p] <= truth
             /\ copy[p].loaded <= beat
             /\ copy[p].in = TRUE => mine[p] <= copy[p].ver
             /\ copy[p].in = TRUE /\ copy[p].ver < truth => copy[p].loaded <= ended[copy[p].ver + 1]
Fresh == Clocked /\ \A p \in CacheProcs : Behind(p)

LEMMA FreshInit == CacheInit => Fresh
<1> SUFFICES ASSUME CacheInit PROVE Fresh
  OBVIOUS
<1>1. Empty \in CopyState /\ Empty.in = FALSE /\ Empty.ver = 0 /\ Empty.loaded = 0
  BY DEF Empty, CopyState
<1>2. Clocked
  BY <1>1 DEF CacheInit, Clocked
<1>3. QED
  BY <1>1, <1>2 DEF CacheInit, Fresh, Behind

LEMMA FreshIsEnough == Timed /\ Fresh => FreshEnough
<1> SUFFICES ASSUME Timed, Fresh, NEW p \in CacheProcs, Holds(p)
    PROVE  /\ Acts(p).ver >= mine[p]
           /\ kind = "timed" /\ Acts(p).ver < truth => beat < ended[Acts(p).ver + 1] + Ttl
  BY DEF FreshEnough
<1> DEFINE v == copy[p].ver  l == copy[p].loaded
<1>1. Acts(p).ver = v
  BY DEF Acts
<1>2. copy[p] \in CopyState /\ beat \in Nat /\ Ttl \in Nat /\ mine[p] \in Nat /\ truth \in Nat
  BY DEF Fresh, Clocked, Timed
<1>3. copy[p].in = TRUE /\ (kind = "timed" => beat < l + Ttl)
  BY <1>2 DEF Holds, Expired, CopyState
<1>4. mine[p] <= v /\ (v < truth => l <= ended[v + 1])
  BY <1>3 DEF Fresh, Behind
<1>5. v \in Nat /\ l \in Nat /\ (v < truth => ended[v + 1] \in Nat)
  BY <1>2 DEF Fresh, Clocked, CopyState
<1> HIDE DEF v, l
<1>6. QED
  BY <1>1, <1>2, <1>3, <1>4, <1>5

LEMMA FreshStep == ASSUME Timed, Fresh, [CacheNext]_cacheVars PROVE Fresh'
<1>1. Empty \in CopyState /\ Empty.in = FALSE /\ Empty.ver = 0 /\ Empty.loaded = 0
  BY DEF Empty, CopyState
<1>2. CASE Beat
  <2>1. Clocked'
    BY <1>2 DEF Beat, Fresh, Clocked
  <2>2. ASSUME NEW p \in CacheProcs PROVE Behind(p)'
    <3>1. copy[p].loaded \in Nat /\ copy[p].loaded <= beat /\ beat \in Nat
      BY DEF Fresh, Behind, Clocked, CopyState
    <3>2. beat' = beat + 1 /\ UNCHANGED <<truth, copy, ended, mine>>
      BY <1>2 DEF Beat
    <3>3. copy[p].loaded <= beat'
      BY <3>1, <3>2
    <3>4. QED
      BY <3>2, <3>3 DEF Fresh, Behind
  <2>3. QED
    BY <2>1, <2>2 DEF Fresh
<1>3. ASSUME NEW q \in CacheProcs, CacheRestart(q) PROVE Fresh'
  <2>1. copy' = [copy EXCEPT ![q] = Empty] /\ UNCHANGED <<truth, enabled, beat, ended, mine>>
    BY <1>3 DEF CacheRestart
  <2>2. Clocked'
    BY <1>1, <2>1 DEF Fresh, Clocked
  <2>3. ASSUME NEW p \in CacheProcs PROVE Behind(p)'
    <3>1. copy'[p] = IF p = q THEN Empty ELSE copy[p]
      BY <2>1 DEF Fresh, Clocked
    <3>2. truth \in Nat /\ beat \in Nat /\ mine[p] <= truth
      BY DEF Fresh, Clocked, Behind
    <3>3. CASE p = q
      BY <1>1, <2>1, <3>1, <3>2, <3>3 DEF Behind
    <3>4. CASE p # q
      BY <2>1, <3>1, <3>4 DEF Fresh, Behind
    <3>5. QED
      BY <3>3, <3>4
  <2>4. QED
    BY <2>2, <2>3 DEF Fresh
<1>4. ASSUME NEW q \in CacheProcs, Use(q) PROVE Fresh'
  <2>1. /\ Loaded \in CopyState /\ Loaded.in = TRUE /\ Loaded.ver = truth /\ Loaded.loaded = beat
    BY DEF Loaded, CopyState, Fresh, Clocked
  <2>2. /\ copy' = [copy EXCEPT ![q] = IF Holds(q) THEN copy[q] ELSE Loaded]
        /\ UNCHANGED <<truth, enabled, beat, ended, mine>>
    BY <1>4 DEF Use, Hit
  <2>3. Clocked'
    BY <2>1, <2>2 DEF Fresh, Clocked
  <2>4. ASSUME NEW p \in CacheProcs PROVE Behind(p)'
    <3>1. copy'[p] = copy[p] \/ (p = q /\ copy'[p] = Loaded)
      BY <2>2 DEF Fresh, Clocked
    <3>2. truth \in Nat /\ beat \in Nat /\ mine[p] <= truth
      BY DEF Fresh, Clocked, Behind
    <3>3. CASE copy'[p] = copy[p]
      BY <2>2, <3>3 DEF Fresh, Behind
    <3>4. CASE copy'[p] = Loaded
      BY <2>1, <2>2, <3>2, <3>4 DEF Behind
    <3>5. QED
      BY <3>1, <3>3, <3>4
  <2>5. QED
    BY <2>3, <2>4 DEF Fresh
<1>5. ASSUME NEW q \in CacheProcs, NEW on \in BOOLEAN, Edit(q, on) PROVE Fresh'
  <2> DEFINE c == IF kind = "kept" THEN ReadAgain(on) ELSE Empty
  <2>1. /\ truth' = truth + 1 /\ enabled' = on /\ ended' = Append(ended, beat) /\ beat' = beat
        /\ copy' = [copy EXCEPT ![q] = c] /\ mine' = [mine EXCEPT ![q] = truth + 1]
    BY <1>5 DEF Edit, AfterEdit
  <2>2. truth \in Nat /\ beat \in Nat /\ ended \in Seq(Nat) /\ Len(ended) = truth
    BY DEF Fresh, Clocked
  <2>3. /\ c \in CopyState /\ c.ver <= truth + 1 /\ c.loaded <= beat /\ c.ver \in Nat
        /\ (c.in = TRUE => c.ver = truth + 1)
    BY <1>1, <2>2 DEF ReadAgain, CopyState
  <2>4. ended' \in Seq(Nat) /\ Len(ended') = truth + 1
    BY <2>1, <2>2
  <2>5. /\ beat' = beat /\ truth' = truth + 1 /\ ended'[truth + 1] = beat
        /\ \A n \in 1..truth : ended'[n] = ended[n]
    BY <2>1, <2>2
  <2> HIDE DEF c
  <2>6. Clocked'
    BY <2>1, <2>2, <2>3, <2>4 DEF Fresh, Clocked
  <2>7. ASSUME NEW p \in CacheProcs PROVE Behind(p)'
    <3>1. CASE p = q
      <4>1. copy'[p] = c /\ mine'[p] = truth + 1
        BY <2>1, <3>1 DEF Fresh, Clocked
      <4>2. QED
        BY <2>2, <2>3, <2>5, <4>1 DEF Behind
    <3>2. CASE p # q
      <4>1. copy'[p] = copy[p] /\ mine'[p] = mine[p] /\ copy[p] \in CopyState /\ mine[p] \in Nat
        BY <2>1, <3>2 DEF Fresh, Clocked
      <4>2. copy[p].ver \in Nat /\ copy[p].loaded \in Nat
        BY <4>1 DEF CopyState
      <4>3. /\ copy[p].ver <= truth /\ mine[p] <= truth /\ copy[p].loaded <= beat
            /\ copy[p].in = TRUE => mine[p] <= copy[p].ver
            /\ copy[p].in = TRUE /\ copy[p].ver < truth => copy[p].loaded <= ended[copy[p].ver + 1]
        BY DEF Fresh, Behind
      <4>4. copy[p].ver < truth => ended'[copy[p].ver + 1] = ended[copy[p].ver + 1]
        BY <2>2, <2>5, <4>2
      <4>5. copy[p].in = TRUE /\ copy[p].ver < truth' => copy[p].loaded <= ended'[copy[p].ver + 1]
        BY <2>2, <2>5, <4>2, <4>3, <4>4
      <4>6. QED
        BY <2>2, <2>5, <4>1, <4>2, <4>3, <4>5 DEF Behind
    <3>3. QED
      BY <3>1, <3>2
  <2>8. QED
    BY <2>6, <2>7 DEF Fresh
<1>6. CASE UNCHANGED cacheVars
  BY <1>6 DEF cacheVars, Fresh, Clocked, Behind
<1>7. QED
  BY <1>2, <1>3, <1>4, <1>5, <1>6 DEF CacheNext

(* However processes use, edit, restart and let time pass: none acts on     *)
(* less than its own last edit, nor on what ended a time to live ago.      *)
THEOREM CopiesStayFresh == ASSUME Timed PROVE CacheSpec => []FreshEnough
<1>1. CacheInit => Fresh
  BY FreshInit
<1>2. Fresh /\ [CacheNext]_cacheVars => Fresh'
  BY FreshStep
<1>3. Fresh => FreshEnough
  BY FreshIsEnough
<1>4. QED
  BY <1>1, <1>2, <1>3, PTL DEF CacheSpec
-----------------------------------------------------------------------------
(* Webhooks *)

(* A delivery is tried at least once, of finitely many webhooks. *)
Tried == RetryMax \in Nat \ {0} /\ IsFiniteSet(Hooks)

Delivery == [hook : Hooks, status : {"pending", "succeeded", "dead"}, attempt : 1 .. RetryMax,
             due : BOOLEAN, tired : BOOLEAN]

(* The inductive invariant: no attempt, of a row or of a POST that is out, *)
(* is more than one ahead of the failures, so that the last one's failure  *)
(* is the retry_max-th.                                                    *)
Attempts ==
  /\ deliveries \in Seq(Delivery)
  /\ posts \in [DOMAIN deliveries -> Seq(1 .. RetryMax)]
  /\ failures \in [DOMAIN deliveries -> 0 .. RetryMax]
  /\ acked \subseteq DOMAIN deliveries
  /\ \A d \in DOMAIN deliveries :
       /\ deliveries[d].attempt <= failures[d] + 1
       /\ \A n \in DOMAIN posts[d] : posts[d][n] <= failures[d] + 1
  /\ HonestStatus

LEMMA AttemptsStep ==
  ASSUME Tried, Attempts, [HooksNext]_hookVars
  PROVE  Attempts'
<1>1. /\ DOMAIN deliveries = 1 .. Len(deliveries) /\ Len(deliveries) \in Nat
      /\ \A d \in DOMAIN deliveries : deliveries[d] \in Delivery
  BY DEF Attempts
<1> USE DEF Tried
<1>2. ASSUME NEW S \in SUBSET Hooks, Dispatch(S)
      PROVE  Attempts'
  <2> DEFINE L == Len(deliveries)
  <2>1. PICK made : made = SetToSeq({Row(h) : h \in Subscribed(S)})
    OBVIOUS
  <2>2. \A h \in Hooks : Row(h) \in Delivery /\ Row(h).attempt = 1 /\ Row(h).status = "pending"
                         /\ Row(h).tired = FALSE
    BY DEF Row, Delivery
  <2>3. IsFiniteSet({Row(h) : h \in Subscribed(S)})
    <3>1. IsFiniteSet(Subscribed(S))
      BY FS_Subset DEF Subscribed
    <3>2. [h \in Subscribed(S) |-> Row(h)] \in
            Surjection(Subscribed(S), {Row(h) : h \in Subscribed(S)})
      BY DEF Surjection
    <3> QED
      BY <3>1, <3>2, FS_Surjection
  <2>4. made \in Seq({Row(h) : h \in Subscribed(S)})
    BY <2>1, <2>3, SetToSeqIs
  <2>5. Len(made) \in Nat /\ DOMAIN made = 1 .. Len(made)
    BY <2>4
  <2>6. \A n \in DOMAIN made : made[n] \in Delivery /\ made[n].attempt = 1
                               /\ made[n].status = "pending" /\ made[n].tired = FALSE
    <3>1. ASSUME NEW n \in DOMAIN made
          PROVE  \E h \in Hooks : made[n] = Row(h)
      <4>1. made[n] \in {Row(h) : h \in Subscribed(S)}
        BY <2>4
      <4> QED
        BY <4>1 DEF Subscribed
    <3> QED
      BY <2>2, <3>1
  <2>7. made \in Seq(Delivery)
    BY <2>4, <2>6, SeqInto
  <2>8. /\ deliveries' = deliveries \o made
        /\ posts' = posts \o [n \in DOMAIN made |-> <<>>]
        /\ failures' = failures \o [n \in DOMAIN made |-> 0]
        /\ UNCHANGED acked
    BY <2>1, <1>2 DEF Dispatch
  <2>9. /\ deliveries' \in Seq(Delivery) /\ Len(deliveries') = L + Len(made)
        /\ DOMAIN deliveries' = 1 .. L + Len(made)
        /\ \A d \in 1 .. L : deliveries'[d] = deliveries[d]
        /\ \A d \in L + 1 .. L + Len(made) : deliveries'[d] = made[d - L]
    BY <1>1, <2>5, <2>7, <2>8 DEF Attempts
  <2>10. /\ Len(posts) = L /\ posts \in Seq(Seq(1 .. RetryMax))
         /\ Len(failures) = L /\ failures \in Seq(0 .. RetryMax)
    BY <1>1 DEF Attempts
  <2>11. /\ posts' \in [1 .. L + Len(made) -> Seq(1 .. RetryMax)]
         /\ \A d \in 1 .. L : posts'[d] = posts[d]
         /\ \A d \in L + 1 .. L + Len(made) : posts'[d] = <<>>
    <3>1. PICK z : z = [n \in DOMAIN made |-> <<>>]
      OBVIOUS
    <3>2. z \in [1 .. Len(made) -> Seq(1 .. RetryMax)] /\ \A n \in 1 .. Len(made) : z[n] = <<>>
      BY <2>5, <3>1
    <3>3. z \in Seq(Seq(1 .. RetryMax)) /\ Len(z) = Len(made)
      BY <2>5, <3>2, SeqFrom
    <3>4. posts' = posts \o z
      BY <2>8, <3>1
    <3>5. /\ posts' \in Seq(Seq(1 .. RetryMax)) /\ DOMAIN posts' = 1 .. L + Len(made)
          /\ \A k \in 1 .. L : posts'[k] = posts[k]
          /\ \A k \in 1 .. Len(made) : posts'[k + L] = z[k]
      <4>1. PICK R : R = Seq(1 .. RetryMax)
        OBVIOUS
      <4>2. PICK r : r = posts \o z
        OBVIOUS
      <4>3. PICK a \in Seq(R) : a = posts
        BY <2>10, <4>1
      <4>4. z \in Seq(R)
        BY <3>3, <4>1
      <4>5. /\ r \in Seq(R) /\ DOMAIN r = 1 .. Len(a) + Len(z)
            /\ \A k \in 1 .. Len(a) : r[k] = a[k]
            /\ \A k \in 1 .. Len(z) : r[k + Len(a)] = z[k]
        BY <4>2, <4>3, <4>4, ConcatIs
      <4>6. Len(a) = L /\ Len(z) = Len(made) /\ r = posts'
        BY <2>10, <3>3, <3>4, <4>2, <4>3
      <4> HIDE DEF L
      <4> QED
        BY <4>1, <4>3, <4>5, <4>6
    <3>6. \A d \in L + 1 .. L + Len(made) : posts'[d] = <<>>
      <4>1. ASSUME NEW d \in L + 1 .. L + Len(made)
            PROVE  \E k \in 1 .. Len(made) : d = k + L
        <5>1. d - L \in 1 .. Len(made) /\ d = (d - L) + L
          BY <1>1, <2>5
        <5> QED
          BY <5>1
      <4> QED
        BY <3>2, <3>5, <4>1
    <3> QED
      BY <1>1, <2>5, <3>5, <3>6
  <2>12. /\ failures' \in [1 .. L + Len(made) -> 0 .. RetryMax]
         /\ \A d \in 1 .. L : failures'[d] = failures[d]
         /\ \A d \in L + 1 .. L + Len(made) : failures'[d] = 0
    <3>1. PICK z : z = [n \in DOMAIN made |-> 0]
      OBVIOUS
    <3>2. z \in [1 .. Len(made) -> 0 .. RetryMax] /\ \A n \in 1 .. Len(made) : z[n] = 0
      BY <2>5, <3>1
    <3>3. z \in Seq(0 .. RetryMax) /\ Len(z) = Len(made)
      BY <2>5, <3>2, SeqFrom
    <3>4. failures' = failures \o z
      BY <2>8, <3>1
    <3>5. /\ failures' \in Seq(0 .. RetryMax) /\ DOMAIN failures' = 1 .. L + Len(made)
          /\ \A k \in 1 .. L : failures'[k] = failures[k]
          /\ \A k \in 1 .. Len(made) : failures'[k + L] = z[k]
      <4>1. PICK R : R = 0 .. RetryMax
        OBVIOUS
      <4>2. PICK r : r = failures \o z
        OBVIOUS
      <4>3. PICK a \in Seq(R) : a = failures
        BY <2>10, <4>1
      <4>4. z \in Seq(R)
        BY <3>3, <4>1
      <4>5. /\ r \in Seq(R) /\ DOMAIN r = 1 .. Len(a) + Len(z)
            /\ \A k \in 1 .. Len(a) : r[k] = a[k]
            /\ \A k \in 1 .. Len(z) : r[k + Len(a)] = z[k]
        BY <4>2, <4>3, <4>4, ConcatIs
      <4>6. Len(a) = L /\ Len(z) = Len(made) /\ r = failures'
        BY <2>10, <3>3, <3>4, <4>2, <4>3
      <4> HIDE DEF L
      <4> QED
        BY <4>1, <4>3, <4>5, <4>6
    <3>6. \A d \in L + 1 .. L + Len(made) : failures'[d] = 0
      <4>1. ASSUME NEW d \in L + 1 .. L + Len(made)
            PROVE  \E k \in 1 .. Len(made) : d = k + L
        <5>1. d - L \in 1 .. Len(made) /\ d = (d - L) + L
          BY <1>1, <2>5
        <5> QED
          BY <5>1
      <4> QED
        BY <3>2, <3>5, <4>1
    <3> QED
      BY <1>1, <2>5, <3>5, <3>6
  <2>13. ASSUME NEW d \in DOMAIN deliveries'
         PROVE  /\ deliveries'[d].attempt <= failures'[d] + 1
                /\ \A n \in DOMAIN posts'[d] : posts'[d][n] <= failures'[d] + 1
                /\ deliveries'[d].status = "succeeded" => d \in acked'
                /\ deliveries'[d].tired => failures'[d] >= RetryMax
    <3>1. CASE d \in 1 .. L
      BY <1>1, <2>8, <2>9, <2>11, <2>12, <3>1 DEF Attempts, HonestStatus
    <3>2. CASE d \notin 1 .. L
      <4>1. d \in L + 1 .. L + Len(made) /\ d - L \in DOMAIN made
        BY <1>1, <2>5, <2>9, <3>2
      <4>2. posts'[d] = <<>> /\ failures'[d] = 0 /\ deliveries'[d] = made[d - L]
        BY <2>9, <2>11, <2>12, <4>1
      <4> QED
        BY <2>6, <4>1, <4>2
    <3> QED
      BY <3>1, <3>2
  <2>14. acked' \subseteq DOMAIN deliveries'
    BY <1>1, <2>5, <2>8, <2>9 DEF Attempts
  <2> QED
    BY <2>9, <2>11, <2>12, <2>13, <2>14 DEF Attempts, HonestStatus
<1>3. CASE HookTick
  <2>1. ASSUME NEW d \in DOMAIN deliveries
        PROVE  /\ deliveries'[d] \in Delivery
               /\ deliveries'[d].attempt = deliveries[d].attempt
               /\ deliveries'[d].tired = deliveries[d].tired
               /\ deliveries'[d].status \in {deliveries[d].status, "dead"}
    BY <1>1, <1>3 DEF HookTick, Delivery
  <2>2. deliveries' \in Seq(Delivery) /\ DOMAIN deliveries' = DOMAIN deliveries
    BY <1>1, <1>3, <2>1 DEF HookTick
  <2>3. ASSUME NEW d \in DOMAIN deliveries
        PROVE  /\ posts'[d] \in Seq(1 .. RetryMax)
               /\ \A n \in DOMAIN posts'[d] : posts'[d][n] <= failures[d] + 1
    <3>1. posts[d] \in Seq(1 .. RetryMax) /\ deliveries[d].attempt \in 1 .. RetryMax
      BY <1>1 DEF Attempts, Delivery
    <3>2. posts'[d] = posts[d] \/ posts'[d] = Append(posts[d], deliveries[d].attempt)
      BY <1>3 DEF HookTick, Attempts
    <3>3. \A n \in DOMAIN posts[d] : posts[d][n] <= failures[d] + 1
      BY DEF Attempts
    <3>4. deliveries[d].attempt <= failures[d] + 1
      BY DEF Attempts
    <3>5. PICK q : q = posts[d]
      OBVIOUS
    <3>6. PICK a : a = deliveries[d].attempt
      OBVIOUS
    <3>7. CASE posts'[d] = Append(q, a)
      BY <3>1, <3>3, <3>4, <3>5, <3>6, <3>7
    <3> QED
      BY <3>1, <3>2, <3>3, <3>5, <3>6, <3>7
  <2>4. posts' \in [DOMAIN deliveries -> Seq(1 .. RetryMax)]
    BY <1>3, <2>3 DEF HookTick, Attempts
  <2> QED
    BY <1>3, <2>1, <2>2, <2>3, <2>4 DEF HookTick, Attempts, HonestStatus
<1>4. ASSUME NEW d \in DOMAIN deliveries, NEW n \in DOMAIN posts[d], Ends(d, n),
             NEW image \in Delivery, deliveries' = [deliveries EXCEPT ![d] = image],
             acked \subseteq acked', acked' \subseteq DOMAIN deliveries,
             NEW f \in 0 .. RetryMax, failures' = [failures EXCEPT ![d] = f], f >= failures[d],
             image.attempt <= f + 1, image.status = "succeeded" => d \in acked',
             image.tired => f >= RetryMax
      PROVE  Attempts'
  <2>1. PICK q : q = RemoveAt(posts[d], n)
    OBVIOUS
  <2>2. posts[d] \in Seq(1 .. RetryMax)
    BY DEF Attempts
  <2>3. /\ q \in Seq(1 .. RetryMax)
        /\ \A k \in DOMAIN q : \E m \in DOMAIN posts[d] : q[k] = posts[d][m]
    <3>1. /\ q \in Seq(1 .. RetryMax) /\ Len(q) = Len(posts[d]) - 1
          /\ \A k \in 1 .. Len(posts[d]) - 1 : q[k] = posts[d][IF k < n THEN k ELSE k + 1]
      BY <2>1, <2>2, <1>4, RemoveAtIs
    <3>2. \A k \in 1 .. Len(posts[d]) - 1 : (IF k < n THEN k ELSE k + 1) \in DOMAIN posts[d]
      BY <2>2
    <3> QED
      BY <3>1, <3>2
  <2>4. posts' = [posts EXCEPT ![d] = q]
    BY <1>4, <2>1 DEF Ends
  <2>5. \A k \in DOMAIN q : q[k] <= f + 1
    <3>1. ASSUME NEW k \in DOMAIN q
          PROVE  q[k] <= f + 1
      <4>1. PICK m \in DOMAIN posts[d] : q[k] = posts[d][m]
        BY <2>3
      <4>2. posts[d][m] \in 1 .. RetryMax /\ posts[d][m] <= failures[d] + 1
        BY <2>2 DEF Attempts
      <4>3. failures[d] \in 0 .. RetryMax
        BY DEF Attempts
      <4> QED
        BY <1>4, <4>1, <4>2, <4>3
    <3> QED
      BY <3>1
  <2>6. deliveries' \in Seq(Delivery) /\ DOMAIN deliveries' = DOMAIN deliveries
    BY <1>4, SeqExcept DEF Attempts
  <2>7. ASSUME NEW e \in DOMAIN deliveries
        PROVE  /\ deliveries'[e].attempt <= failures'[e] + 1
               /\ \A k \in DOMAIN posts'[e] : posts'[e][k] <= failures'[e] + 1
               /\ deliveries'[e].status = "succeeded" => e \in acked'
               /\ deliveries'[e].tired => failures'[e] >= RetryMax
    <3>1. CASE e = d
      BY <1>4, <2>4, <2>5, <3>1 DEF Attempts
    <3>2. CASE e # d
      BY <1>4, <2>4, <3>2 DEF Attempts, HonestStatus
    <3> QED
      BY <3>1, <3>2
  <2>8. posts' \in [DOMAIN deliveries -> Seq(1 .. RetryMax)]
    BY <2>3, <2>4 DEF Attempts
  <2>9. failures' \in [DOMAIN deliveries -> 0 .. RetryMax]
    BY <1>4 DEF Attempts
  <2> QED
    BY <1>4, <2>6, <2>7, <2>8, <2>9 DEF Attempts, HonestStatus
<1>5. ASSUME NEW d \in DOMAIN deliveries, PostEnds(d)
      PROVE  Attempts'
  <2>1. PICK row : row = deliveries[d]
    OBVIOUS
  <2>2. row \in Delivery /\ row.attempt <= failures[d] + 1 /\ failures[d] \in 0 .. RetryMax
    BY <1>1, <2>1 DEF Attempts
  <2>3. (row.status = "succeeded" => d \in acked) /\ (row.tired => failures[d] >= RetryMax)
    BY <2>1 DEF Attempts, HonestStatus
  <2>4. PICK f \in 0 .. RetryMax : f = failures[d] /\ failures = [failures EXCEPT ![d] = f]
    BY DEF Attempts
  <2>5. CASE Blocked(d)
    <3>1. PICK n \in DOMAIN posts[d] : Ends(d, n)
      BY <2>5 DEF Blocked
    <3>2. PICK image : image = [row EXCEPT !.status = "dead"]
      OBVIOUS
    <3>3. /\ image \in Delivery /\ image.attempt = row.attempt /\ image.status = "dead"
          /\ image.tired = row.tired
      BY <2>2, <3>2 DEF Delivery
    <3>4. deliveries' = [deliveries EXCEPT ![d] = image] /\ UNCHANGED <<failures, acked>>
      BY <2>1, <2>5, <3>2 DEF Blocked
    <3>5. /\ acked \subseteq acked' /\ acked' \subseteq DOMAIN deliveries
          /\ failures' = [failures EXCEPT ![d] = f] /\ f >= failures[d]
      BY <2>2, <2>4, <3>4 DEF Attempts
    <3>6. image.attempt <= f + 1 /\ (image.tired => f >= RetryMax)
      BY <2>2, <2>3, <2>4, <3>3
    <3>7. image.status = "succeeded" => d \in acked'
      BY <3>3, <3>4
    <3> QED
      BY <1>4, <3>1, <3>3, <3>4, <3>5, <3>6, <3>7
  <2>6. CASE Succeeds(d)
    <3>1. PICK n \in DOMAIN posts[d] : Ends(d, n)
      BY <2>6 DEF Succeeds
    <3>2. PICK image : image = [row EXCEPT !.status = "succeeded"]
      OBVIOUS
    <3>3. image \in Delivery /\ image.attempt = row.attempt /\ image.tired = row.tired
      BY <2>2, <3>2 DEF Delivery
    <3>4. /\ deliveries' = [deliveries EXCEPT ![d] = image] /\ UNCHANGED failures
          /\ acked' = acked \cup {d}
      BY <2>1, <2>6, <3>2 DEF Succeeds
    <3>5. /\ acked \subseteq acked' /\ acked' \subseteq DOMAIN deliveries
          /\ failures' = [failures EXCEPT ![d] = f] /\ f >= failures[d]
      BY <2>2, <2>4, <3>4 DEF Attempts
    <3>6. image.attempt <= f + 1 /\ (image.tired => f >= RetryMax)
      BY <2>2, <2>3, <2>4, <3>3
    <3>7. image.status = "succeeded" => d \in acked'
      BY <3>3, <3>4
    <3> QED
      BY <1>4, <3>1, <3>3, <3>4, <3>5, <3>6, <3>7
  <2>7. CASE Fails(d)
    <3>1. PICK n \in DOMAIN posts[d] :
            /\ Ends(d, n)
            /\ deliveries' = [deliveries EXCEPT ![d] =
                 IF LastAttempt(posts[d][n]) THEN [@ EXCEPT !.status = "dead", !.tired = TRUE]
                                             ELSE Rescheduled(@, posts[d][n])]
            /\ failures' = [failures EXCEPT ![d] = IF @ < RetryMax THEN @ + 1 ELSE @]
            /\ UNCHANGED acked
      BY <2>7 DEF Fails
    <3>2. PICK a : a = posts[d][n]
      OBVIOUS
    <3>3. a \in 1 .. RetryMax /\ a <= failures[d] + 1
      BY <3>2 DEF Attempts
    <3>4. PICK grown : grown = IF failures[d] < RetryMax THEN failures[d] + 1 ELSE failures[d]
      OBVIOUS
    <3>5. grown \in 0 .. RetryMax /\ grown >= failures[d] /\ failures' = [failures EXCEPT ![d] = grown]
      BY <2>2, <3>1, <3>4
    <3>6. PICK image : image = IF LastAttempt(a) THEN [row EXCEPT !.status = "dead", !.tired = TRUE]
                               ELSE Rescheduled(row, a)
      OBVIOUS
    <3>7. image \in Delivery /\ image.attempt <= grown + 1 /\ image.status # "succeeded"
      <4>1. CASE LastAttempt(a)
        <5>1. image = [row EXCEPT !.status = "dead", !.tired = TRUE]
          BY <3>6, <4>1
        <5>2. image \in Delivery
          BY <2>2, <5>1, Zenon DEF Delivery
        <5>3. image.attempt = row.attempt /\ image.status = "dead"
          BY <2>2, <5>1 DEF Delivery
        <5> QED
          BY <2>2, <3>4, <5>2, <5>3 DEF Delivery
      <4>2. CASE ~ LastAttempt(a)
        <5>1. image = [row EXCEPT !.attempt = a + 1, !.status = "pending", !.due = FALSE]
          BY <3>6, <4>2 DEF Rescheduled
        <5>2. a + 1 \in 1 .. RetryMax /\ a + 1 <= grown + 1
          BY <2>2, <3>3, <3>4, <4>2 DEF LastAttempt
        <5>3. image \in Delivery
          BY <2>2, <5>1, <5>2, Zenon DEF Delivery
        <5>4. image.attempt = a + 1 /\ image.status = "pending"
          BY <2>2, <5>1 DEF Delivery
        <5> QED
          BY <5>2, <5>3, <5>4
      <4> QED
        BY <4>1, <4>2
    <3>8. image.tired => grown >= RetryMax
      BY <2>2, <2>3, <3>3, <3>4, <3>6 DEF Delivery, LastAttempt, Rescheduled
    <3>9. deliveries' = [deliveries EXCEPT ![d] = image]
      BY <2>1, <3>1, <3>2, <3>6
    <3> QED
      BY <1>4, <3>1, <3>5, <3>7, <3>8, <3>9 DEF Attempts
  <2> QED
    BY <1>5, <2>5, <2>6, <2>7 DEF PostEnds
<1>6. ASSUME NEW d \in DOMAIN deliveries, BackoffEnds(d)
      PROVE  Attempts'
  <2>1. ASSUME NEW e \in DOMAIN deliveries
        PROVE  /\ deliveries'[e] \in Delivery
               /\ deliveries'[e].attempt = deliveries[e].attempt
               /\ deliveries'[e].tired = deliveries[e].tired
               /\ deliveries'[e].status = deliveries[e].status
    BY <1>1, <1>6 DEF BackoffEnds, Delivery
  <2>2. deliveries' \in Seq(Delivery) /\ DOMAIN deliveries' = DOMAIN deliveries
    <3>1. PICK image : image = [deliveries[d] EXCEPT !.due = TRUE]
      OBVIOUS
    <3>2. image \in Delivery /\ deliveries' = [deliveries EXCEPT ![d] = image]
      BY <1>1, <1>6, <3>1 DEF BackoffEnds, Delivery
    <3> QED
      BY <3>2, SeqExcept DEF Attempts
  <2> QED
    BY <1>6, <2>1, <2>2 DEF BackoffEnds, Attempts, HonestStatus
<1>7. CASE DispatcherDies
  <2>1. /\ posts' \in [DOMAIN deliveries -> Seq(1 .. RetryMax)]
        /\ \A d \in DOMAIN deliveries : posts'[d] = <<>>
    BY <1>7 DEF DispatcherDies, Attempts
  <2> QED
    BY <1>7, <2>1 DEF DispatcherDies, Attempts, HonestStatus
<1>8. CASE UNCHANGED <<deliveries, posts, failures, acked>>
  BY <1>8 DEF Attempts, HonestStatus
<1> QED
  BY <1>2, <1>3, <1>5, <1>6, <1>7, <1>8
  DEF HooksNext, TestHook, ToggleHook, RemoveHook, DispatcherStarts, hookVars

(* However POSTs end, ticks overtake them and the dispatcher dies          *)
(* (webhooks.ts), a delivery is marked succeeded only when its endpoint    *)
(* acknowledged it, and given up for its failures only after retry_max.    *)
THEOREM DeliveriesHonest == ASSUME Tried PROVE HooksSpec => []HonestStatus
<1>1. HooksInit => Attempts
  BY DEF HooksInit, Attempts, HonestStatus
<1>2. Attempts /\ [HooksNext]_hookVars => Attempts'
  BY AttemptsStep
<1>3. Attempts => HonestStatus
  BY DEF Attempts
<1> QED
  BY <1>1, <1>2, <1>3, PTL DEF HooksSpec

-----------------------------------------------------------------------------
(* Presence *)

(* The kinds of connection and the workers are told apart. *)
Connected == Members \cap Observers = {} /\ NoWorker \notin PresWorkers

Sorts == {"join", "leave"}
Message == [kind : Sorts, who : Members]
About(k, c) == [kind |-> k, who |-> c]

(* What a feed holds of a member: a message, none, or a last one of a kind. *)
Mentions(ms, k, c) == \E n \in DOMAIN ms : ms[n] = About(k, c)
Mute(ms, c) == \A n \in DOMAIN ms : ms[n].who # c
Final(ms, k, c) == \E n \in DOMAIN ms : ms[n] = About(k, c) /\ LastOf(ms, n)

LEMMA WordOnAppend ==
  ASSUME NEW ms \in Seq(Message), NEW i \in Sorts, NEW a \in Members,
         NEW k \in Sorts, NEW c \in Members
  PROVE  LET ns == Append(ms, About(i, a)) IN
         /\ ns \in Seq(Message)
         /\ Mentions(ns, k, c) => Mentions(ms, k, c) \/ (i = k /\ a = c)
         /\ a # c => (Mute(ns, c) <=> Mute(ms, c)) /\ (Final(ns, k, c) <=> Final(ms, k, c))
         /\ a = c => ~Mute(ns, c) /\ (Final(ns, k, c) <=> i = k)
<1> DEFINE ns == Append(ms, About(i, a))
<1>1. About(i, a) \in Message
  BY DEF About, Message
<1>2. /\ ns \in Seq(Message) /\ Len(ns) = Len(ms) + 1 /\ ns[Len(ms) + 1] = About(i, a)
      /\ \A n \in 1..Len(ms) : ns[n] = ms[n]
  BY <1>1
<1>3. DOMAIN ms = 1..Len(ms) /\ DOMAIN ns = 1..(Len(ms) + 1) /\ Len(ms) \in Nat
  BY <1>2
<1>4. About(i, a).who = a /\ About(i, a).kind = i /\ About(k, c).who = c /\ About(k, c).kind = k
  BY DEF About
<1> HIDE DEF ns
<1>5. Mentions(ns, k, c) => Mentions(ms, k, c) \/ (i = k /\ a = c)
  BY <1>2, <1>3, <1>4 DEF Mentions
<1>6. ASSUME a # c PROVE Mute(ns, c) <=> Mute(ms, c)
  BY <1>2, <1>3, <1>4, <1>6 DEF Mute
<1>7. ASSUME a # c, Final(ns, k, c) PROVE Final(ms, k, c)
  BY <1>2, <1>3, <1>4, <1>7 DEF Final, LastOf
<1>8. ASSUME a # c, Final(ms, k, c) PROVE Final(ns, k, c)
  <2>1. PICK n \in 1..Len(ms) : ms[n] = About(k, c) /\ LastOf(ms, n)
    BY <1>3, <1>8 DEF Final
  <2>2. n \in DOMAIN ns /\ ns[n] = About(k, c) /\ LastOf(ns, n)
    BY <1>2, <1>3, <1>4, <1>8, <2>1 DEF LastOf
  <2>3. QED
    BY <2>2 DEF Final
<1>9. ASSUME a = c PROVE ~Mute(ns, c)
  BY <1>2, <1>3, <1>4, <1>9 DEF Mute
<1>10. ASSUME a = c, Final(ns, k, c) PROVE i = k
  BY <1>2, <1>3, <1>4, <1>10 DEF Final, LastOf
<1>11. ASSUME a = c, i = k PROVE Final(ns, k, c)
  BY <1>2, <1>3, <1>4, <1>11 DEF Final, LastOf
<1>12. QED
  BY <1>2, <1>5, <1>6, <1>7, <1>8, <1>9, <1>10, <1>11 DEF ns

LEMMA WordOnTail ==
  ASSUME NEW ms \in Seq(Message), ms # <<>>, NEW k \in Sorts, NEW c \in Members
  PROVE  /\ Tail(ms) \in Seq(Message) /\ Head(ms) \in Message
         /\ Mentions(Tail(ms), k, c) => Mentions(ms, k, c)
         /\ Final(Tail(ms), k, c) => Final(ms, k, c)
         /\ Final(ms, k, c) => Final(Tail(ms), k, c) \/ Mute(Tail(ms), c)
         /\ Mute(ms, c) => Mute(Tail(ms), c)
         /\ Mute(Tail(ms), c) => \/ Mute(ms, c) /\ Head(ms).who # c
                                 \/ Head(ms) = About(Head(ms).kind, c)
                                      /\ Final(ms, Head(ms).kind, c)
<1> DEFINE ns == Tail(ms)
<1>1. /\ ns \in Seq(Message) /\ Head(ms) \in Message /\ Head(ms) = ms[1]
      /\ DOMAIN ms = 1..Len(ms) /\ DOMAIN ns = 1..(Len(ms) - 1) /\ Len(ms) \in Nat \ {0}
      /\ \A n \in 1..(Len(ms) - 1) : ns[n] = ms[n + 1]
  OBVIOUS
<1> HIDE DEF ns
<1>2. \A n \in 2..Len(ms) : n - 1 \in DOMAIN ns /\ ns[n - 1] = ms[n]
  <2>1. SUFFICES ASSUME NEW n \in 2..Len(ms) PROVE n - 1 \in DOMAIN ns /\ ns[n - 1] = ms[n]
    OBVIOUS
  <2>2. n - 1 \in 1..(Len(ms) - 1) /\ (n - 1) + 1 = n
    BY <1>1
  <2>3. QED
    BY <1>1, <2>2
<1>3. \A n \in DOMAIN ns : n + 1 \in 2..Len(ms) /\ n + 1 \in DOMAIN ms /\ ns[n] = ms[n + 1]
  BY <1>1
<1>4. Mentions(ns, k, c) => Mentions(ms, k, c)
  BY <1>3 DEF Mentions
<1>5. Mute(ms, c) => Mute(ns, c)
  BY <1>3 DEF Mute
<1>6. ASSUME Final(ns, k, c) PROVE Final(ms, k, c)
  <2>1. PICK n \in DOMAIN ns : ns[n] = About(k, c) /\ LastOf(ns, n)
    BY <1>6 DEF Final
  <2>2. ASSUME NEW l \in DOMAIN ms, l > n + 1 PROVE ms[l].who # ms[n + 1].who
    <3>1. l \in 2..Len(ms) /\ l - 1 > n
      BY <1>1, <1>3, <2>1, <2>2
    <3>2. QED
      BY <1>2, <1>3, <2>1, <3>1 DEF LastOf
  <2>3. QED
    BY <1>3, <2>1, <2>2 DEF Final, LastOf
<1>7. ASSUME Final(ms, k, c) PROVE Final(ns, k, c) \/ Mute(ns, c)
  <2>1. PICK n \in DOMAIN ms : ms[n] = About(k, c) /\ LastOf(ms, n)
    BY <1>7 DEF Final
  <2>2. CASE n = 1
    <3>1. ASSUME NEW l \in DOMAIN ns PROVE ns[l].who # c
      BY <1>1, <1>3, <2>1, <2>2 DEF LastOf, About
    <3>2. QED
      BY <3>1 DEF Mute
  <2>3. CASE n # 1
    <3>1. n \in 2..Len(ms) /\ n - 1 \in DOMAIN ns /\ ns[n - 1] = About(k, c)
      BY <1>1, <1>2, <2>1, <2>3
    <3>2. ASSUME NEW l \in DOMAIN ns, l > n - 1 PROVE ns[l].who # ns[n - 1].who
      <4>1. l + 1 > n
        BY <1>1, <3>1, <3>2
      <4>2. QED
        BY <1>3, <2>1, <3>1, <3>2, <4>1 DEF LastOf
    <3>3. QED
      BY <3>1, <3>2 DEF Final, LastOf
  <2>4. QED
    BY <2>2, <2>3
<1>8. ASSUME Mute(ns, c)
      PROVE  \/ Mute(ms, c) /\ Head(ms).who # c
             \/ Head(ms) = About(Head(ms).kind, c) /\ Final(ms, Head(ms).kind, c)
  <2>1. \A n \in 2..Len(ms) : ms[n].who # c
    BY <1>2, <1>8 DEF Mute
  <2>2. CASE Head(ms).who = c
    <3>1. Head(ms) = About(Head(ms).kind, c) /\ ms[1].who = c
      BY <1>1, <2>2 DEF Message, About
    <3>2. LastOf(ms, 1)
      BY <1>1, <2>1, <3>1 DEF LastOf
    <3>3. QED
      BY <1>1, <3>1, <3>2 DEF Final
  <2>3. CASE Head(ms).who # c
    BY <1>1, <2>1, <2>3 DEF Mute
  <2>4. QED
    BY <2>2, <2>3
<1>9. QED
  BY <1>1, <1>4, <1>5, <1>6, <1>7, <1>8 DEF ns

LEMMA WordsTold ==
  ASSUME NEW ms, NEW k, NEW c
  PROVE  (Final(ms, k, c) => Mentions(ms, k, c)) /\ (Mentions(ms, k, c) => ~Mute(ms, c))
BY DEF Final, Mentions, Mute, About

LEMMA NoWords == \A k, c : ~Mentions(<<>>, k, c) /\ Mute(<<>>, c) /\ ~Final(<<>>, k, c)
BY DEF Final, Mentions, Mute

(* A member whose row went, or is about to, does not come back. *)
Going(c) == \E w \in PresWorkers : c \in reaping[w] \/ c \in owing[w]
Told(c) == c \in silent \/ \E w \in PresWorkers : c \in owing[w]

Placed ==
  /\ PresTypeOK
  /\ running \subseteq PresWorkers /\ open \subseteq Members \cup Observers
  /\ at \in [Members \cup Observers -> PresWorkers \cup {NoWorker}]
  /\ feed \in [PresWorkers -> Seq(Message)]
  /\ view \in [Observers -> SUBSET Members]
  /\ reaping \in [PresWorkers -> SUBSET Members] /\ owing \in [PresWorkers -> SUBSET Members]
  /\ \A c \in open : at[c] \in running
  /\ \A c \in rows : at[c] # NoWorker
  /\ \A c \in Members : c \in stale \/ c \in silent \/ Going(c) => c \notin open /\ at[c] # NoWorker
  /\ \A w \in PresWorkers : \A c, d \in owing[w] : c \notin rows /\ c = d

(* The last message of a feed about a member says what the table will: a   *)
(* join that there is a row, or that there was and it went; a leave that   *)
(* there is none.  A worker hears nothing of its own connections.          *)
Said(w, c) ==
  /\ \A k \in Sorts : Mentions(feed[w], k, c) => at[c] # NoWorker /\ (c \in open => at[c] # w)
  /\ Mentions(feed[w], "join", c) => c \notin stale /\ ~Going(c)
  /\ Mute(feed[w], c) \/ Final(feed[w], "join", c) \/ Final(feed[w], "leave", c)
  /\ Final(feed[w], "join", c) => c \in rows \/ Told(c)
  /\ Final(feed[w], "leave", c) => c \notin rows

(* An observer is right about each member its feed says nothing of. *)
Right(o, c) ==
  o \in open /\ Mute(feed[at[o]], c) =>
    /\ c \in rows => c \in view[o]
    /\ c \in view[o] => c \in rows \/ Told(c)

PresInv ==
  /\ Placed
  /\ \A w \in PresWorkers, c \in Members : Said(w, c)
  /\ \A o \in Observers, c \in Members : Right(o, c)

LEMMA RightBelieves == ASSUME Connected, PresInv PROVE BelievesRows
<1>1. SUFFICES ASSUME NEW o \in Observers \cap open
               PROVE  LET seen == SeesAll(view[o], feed[at[o]]) IN
                      /\ rows \subseteq seen
                      /\ seen \subseteq rows \cup silent \cup UNION {owing[w] : w \in PresWorkers}
  BY DEF BelievesRows
<1>2. at[o] \in PresWorkers /\ view[o] \subseteq Members /\ rows \subseteq Members
  BY DEF PresInv, Placed, PresTypeOK
<1>3. \A c \in Members : c \in SeesAll(view[o], feed[at[o]])
             <=> (c \in view[o] /\ Mute(feed[at[o]], c)) \/ Final(feed[at[o]], "join", c)
  BY DEF SeesAll, Mute, Final, Join, About
<1>4. SeesAll(view[o], feed[at[o]]) \subseteq Members
  BY DEF SeesAll
<1>5. \A c \in Members : Said(at[o], c) /\ Right(o, c)
  BY <1>2 DEF PresInv
<1>6. ASSUME NEW c \in rows PROVE c \in SeesAll(view[o], feed[at[o]])
  BY <1>2, <1>3, <1>5, <1>6 DEF Said, Right
<1>7. ASSUME NEW c \in Members, c \in SeesAll(view[o], feed[at[o]])
      PROVE  c \in rows \cup silent \cup UNION {owing[w] : w \in PresWorkers}
  BY <1>3, <1>5, <1>7 DEF Said, Right, Told
<1>8. QED
  BY <1>4, <1>6, <1>7

(* A member with which a step has nothing to do. *)
Same(c) ==
  /\ c \in rows' <=> c \in rows
  /\ c \in stale' => c \in stale
  /\ Told(c) => Told(c)'
  /\ Going(c)' => Going(c)
  /\ at'[c] = at[c] /\ (c \in open' => c \in open)

LEMMA SaidStays ==
  ASSUME NEW v, NEW c, Said(v, c), Same(c),
         \A k \in Sorts : /\ Mentions(feed'[v], k, c) => Mentions(feed[v], k, c)
                          /\ Final(feed'[v], k, c) <=> Final(feed[v], k, c),
         Mute(feed[v], c) => Mute(feed'[v], c)
  PROVE  Said(v, c)'
<1>1. "join" \in Sorts /\ "leave" \in Sorts
  BY DEF Sorts
<1>2. QED
  BY <1>1 DEF Said, Same

LEMMA RightStays ==
  ASSUME NEW o, NEW c, Right(o, c), Same(c), at'[o] = at[o], o \in open' => o \in open,
         Mute(feed'[at[o]], c) => Mute(feed[at[o]], c), view'[o] = view[o]
  PROVE  Right(o, c)'
BY DEF Right, Same

(* What a message about a member does to the feeds and views. *)
Heard(w, i, a) ==
  /\ feed' \in [PresWorkers -> Seq(Message)]
  /\ view' \in [Observers -> SUBSET Members]
  /\ \A v \in PresWorkers : v = w \/ v \notin running => feed'[v] = feed[v]
  /\ \A v \in PresWorkers, k \in Sorts, c \in Members :
       Mentions(feed'[v], k, c) =>
         Mentions(feed[v], k, c) \/ (v # w /\ v \in running /\ i = k /\ a = c)
  /\ \A v \in PresWorkers, k \in Sorts, c \in Members :
       a # c => /\ Mute(feed'[v], c) <=> Mute(feed[v], c)
                /\ Final(feed'[v], k, c) <=> Final(feed[v], k, c)
  /\ \A v \in running \ {w} : ~Mute(feed'[v], a)
  /\ \A v \in running \ {w}, k \in Sorts : Final(feed'[v], k, a) <=> i = k
  /\ \A o \in Observers : o \notin open \/ at[o] # w => view'[o] = view[o]
  /\ \A o \in Observers, c \in Members : o \in open /\ at[o] = w =>
       /\ a # c => (c \in view'[o] <=> c \in view[o])
       /\ a = c => (c \in view'[o] <=> i = "join")

LEMMA EmitWords ==
  ASSUME Placed, NEW w \in PresWorkers, NEW i \in Sorts, NEW a \in Members, Emit(w, About(i, a))
  PROVE  Heard(w, i, a)
<1>1. /\ feed \in [PresWorkers -> Seq(Message)] /\ view \in [Observers -> SUBSET Members]
      /\ running \subseteq PresWorkers
      /\ About(i, a).kind = i /\ About(i, a).who = a /\ About(i, a) \in Message
  BY DEF Placed, About, Message
<1>2. \A v \in PresWorkers : feed'[v] = IF v # w /\ v \in running
                                          THEN Append(feed[v], About(i, a)) ELSE feed[v]
  BY DEF Emit
<1>3. \A o \in Observers : view'[o] = IF o \in open /\ at[o] = w
                                       THEN Sees(view[o], About(i, a)) ELSE view[o]
  BY DEF Emit
<1>4. feed' \in [PresWorkers -> Seq(Message)]
  BY <1>1 DEF Emit
<1>5. view' \in [Observers -> SUBSET Members]
  BY <1>1 DEF Emit, Sees
<1>6. ASSUME NEW v \in PresWorkers, NEW k \in Sorts, NEW c \in Members
      PROVE  /\ Mentions(feed'[v], k, c) =>
                  Mentions(feed[v], k, c) \/ (v # w /\ v \in running /\ i = k /\ a = c)
             /\ a # c => /\ Mute(feed'[v], c) <=> Mute(feed[v], c)
                         /\ Final(feed'[v], k, c) <=> Final(feed[v], k, c)
  <2>1. CASE v # w /\ v \in running
    BY <1>1, <1>2, <2>1, WordOnAppend
  <2>2. CASE ~(v # w /\ v \in running)
    BY <1>2, <2>2
  <2>3. QED
    BY <2>1, <2>2
<1>7. ASSUME NEW v \in running \ {w}, NEW k \in Sorts
      PROVE  ~Mute(feed'[v], a) /\ (Final(feed'[v], k, a) <=> i = k)
  BY <1>1, <1>2, WordOnAppend
<1>8. \A o \in Observers, c \in Members : o \in open /\ at[o] = w =>
              /\ a # c => (c \in view'[o] <=> c \in view[o])
              /\ a = c => (c \in view'[o] <=> i = "join")
  BY <1>1, <1>3 DEF Sees
<1>9. \A v \in running \ {w} : ~Mute(feed'[v], a)
  BY <1>7
<1>10. QED
  BY <1>2, <1>3, <1>4, <1>5, <1>6, <1>7, <1>8, <1>9 DEF Heard

(* Those a message is not about stay as they are. *)
LEMMA OthersStay ==
  ASSUME PresInv, NEW w \in PresWorkers, NEW i \in Sorts, NEW a \in Members, Heard(w, i, a),
         NEW c \in Members, a # c, Same(c)
  PROVE  /\ \A v \in PresWorkers : Said(v, c)'
         /\ \A o \in Observers : at'[o] = at[o] /\ (o \in open' => o \in open) => Right(o, c)'
<1>1. ASSUME NEW v \in PresWorkers PROVE Said(v, c)'
  <2>1. /\ \A k \in Sorts : /\ Mentions(feed'[v], k, c) => Mentions(feed[v], k, c)
                            /\ Final(feed'[v], k, c) <=> Final(feed[v], k, c)
        /\ Mute(feed[v], c) => Mute(feed'[v], c)
    BY DEF Heard, Sorts
  <2>2. QED
    BY <2>1, SaidStays DEF PresInv
<1>2. ASSUME NEW o \in Observers, at'[o] = at[o], o \in open' => o \in open PROVE Right(o, c)'
  <2>1. CASE o \notin open
    BY <1>2, <2>1 DEF Right
  <2>2. CASE o \in open
    <3>1. at[o] \in PresWorkers /\ "join" \in Sorts
      BY <2>2 DEF PresInv, Placed, Sorts
    <3>2. (Mute(feed'[at[o]], c) => Mute(feed[at[o]], c)) /\ (c \in view'[o] <=> c \in view[o])
      BY <2>2, <3>1 DEF Heard
    <3>3. Right(o, c)
      BY DEF PresInv
    <3>4. QED
      BY <1>2, <2>2, <3>2, <3>3 DEF Right, Same
  <2>3. QED
    BY <2>1, <2>2
<1>3. QED
  BY <1>1, <1>2

LEMMA PresTrack ==
  ASSUME Connected, PresInv, NEW a \in Members, NEW w \in PresWorkers, Track(a, w)
  PROVE  PresInv'
<1>1. "join" \in Sorts /\ "leave" \in Sorts
  BY DEF Sorts
<1>2. Placed
  BY DEF PresInv
<1>3. Heard(w, "join", a)
  BY <1>1, <1>2, EmitWords DEF Track, Join, About
<1>4. a \notin stale /\ a \notin silent /\ ~Going(a) /\ w \in running /\ w # NoWorker
  BY <1>2 DEF Track, Placed, Connected
<1>5. Placed'
  <2>1. PresTypeOK'
    BY <1>2, <1>3, <1>4 DEF Track, Placed, PresTypeOK, Heard
  <2>2. /\ \A c \in open' : at'[c] \in running'
        /\ \A c \in rows' : at'[c] # NoWorker
    BY <1>2, <1>4 DEF Track, Placed, PresTypeOK
  <2>3. \A c \in Members : c \in stale' \/ c \in silent' \/ Going(c)' =>
        c \notin open' /\ at'[c] # NoWorker
    BY <1>2, <1>4 DEF Track, Placed, Going
  <2>4. \A v \in PresWorkers : \A c, d \in owing'[v] : c \notin rows' /\ c = d
    BY <1>2, <1>4 DEF Track, Placed, Going
  <2>5. /\ running' \subseteq PresWorkers /\ open' \subseteq Members \cup Observers
        /\ at' \in [Members \cup Observers -> PresWorkers \cup {NoWorker}]
        /\ reaping' \in [PresWorkers -> SUBSET Members]
        /\ owing' \in [PresWorkers -> SUBSET Members]
    BY <1>2 DEF Track, Placed
  <2>6. QED
    BY <1>3, <2>1, <2>2, <2>3, <2>4, <2>5 DEF Placed, Heard
<1>6. \A o \in Observers : o # a /\ at'[o] = at[o] /\ (o \in open' <=> o \in open)
  BY <1>2 DEF Connected, Track, Placed
<1>7. ASSUME NEW c \in Members, a # c PROVE Same(c)
  BY <1>2, <1>7 DEF Track, Same, Told, Going, Placed
<1>8. ASSUME NEW v \in PresWorkers PROVE Said(v, a)'
  <2>1. Said(v, a)
    BY DEF PresInv
  <2>2. CASE v = w \/ v \notin running
    <3>1. feed'[v] = feed[v]
      BY <1>3, <2>2 DEF Heard
    <3>2. \A k \in Sorts : ~Mentions(feed[v], k, a)
      <4>1. CASE v = w
        BY <1>4, <2>1, <4>1 DEF Track, Said
      <4>2. CASE v \notin running
        BY <1>2, <4>2, NoWords DEF Placed, PresTypeOK
      <4>3. QED
        BY <2>2, <4>1, <4>2
    <3>3. ~Final(feed[v], "join", a) /\ ~Final(feed[v], "leave", a)
      BY <1>1, <3>2, WordsTold
    <3>4. QED
      BY <1>1, <2>1, <3>1, <3>2, <3>3 DEF Said
  <2>3. CASE v # w /\ v \in running
    <3>1. \A k \in Sorts : Final(feed'[v], k, a) <=> k = "join"
      BY <1>3, <2>3 DEF Heard
    <3>2. a \in rows' /\ a \notin stale' /\ at'[a] = w /\ ~Going(a)'
      BY <1>2, <1>4 DEF Track, Going, Placed
    <3>3. QED
      BY <1>1, <1>4, <2>3, <3>1, <3>2 DEF Said
  <2>4. QED
    BY <2>2, <2>3
<1>9. ASSUME NEW o \in Observers PROVE Right(o, a)'
  <2>1. CASE o \in open /\ at[o] = w
    BY <1>3, <1>6, <2>1 DEF Track, Right, Heard
  <2>2. CASE o \in open /\ at[o] # w
    <3>1. ~Mute(feed'[at'[o]], a)
      BY <1>2, <1>3, <1>6, <2>2 DEF Heard, Placed
    <3>2. QED
      BY <3>1 DEF Right
  <2>3. QED
    BY <1>6, <2>1, <2>2 DEF Right
<1>10. ASSUME NEW c \in Members
       PROVE  /\ \A v \in PresWorkers : Said(v, c)'
              /\ \A o \in Observers : Right(o, c)'
  BY <1>1, <1>3, <1>6, <1>7, <1>8, <1>9, OthersStay
<1>11. QED
  BY <1>5, <1>10 DEF PresInv

LEMMA QuietStays ==
  ASSUME PresInv, feed' = feed, NEW c \in Members, Same(c)
  PROVE  /\ \A v \in PresWorkers : Said(v, c)'
         /\ \A o \in Observers :
              at'[o] = at[o] /\ (o \in open' => o \in open) /\ view'[o] = view[o] => Right(o, c)'
<1>1. /\ \A v \in PresWorkers : Said(v, c)
      /\ \A o \in Observers : Right(o, c)
  BY DEF PresInv
<1>2. QED
  BY <1>1, SaidStays, RightStays

LEMMA PresLeave ==
  ASSUME Connected, PresInv, NEW a \in Members, Untrack(a) \/ Close(a)
  PROVE  PresInv'
<1> DEFINE w == at[a]
<1>1. "join" \in Sorts /\ "leave" \in Sorts
  BY DEF Sorts
<1>2. Placed
  BY DEF PresInv
<1>3. /\ a \in open /\ w \in running /\ w \in PresWorkers
      /\ rows' = rows \ {a} /\ stale' = stale \ {a} /\ open' \subseteq open
      /\ UNCHANGED <<at, running, reaping, owing, silent>>
      /\ LeaveSaid(a, w)
  BY <1>2 DEF Untrack, Close, Placed
<1>4. a \in rows => Heard(w, "leave", a)
  BY <1>1, <1>2, <1>3, EmitWords DEF LeaveSaid, Leave, About
<1>5. a \notin rows => feed' = feed /\ view' = view
  BY <1>3 DEF LeaveSaid
<1> HIDE DEF w
<1>6. Placed'
  <2>1. feed' \in [PresWorkers -> Seq(Message)] /\ view' \in [Observers -> SUBSET Members]
    BY <1>2, <1>4, <1>5 DEF Heard, Placed
  <2>2. PresTypeOK'
    BY <1>2, <1>3, <1>4, <1>5 DEF Placed, PresTypeOK, Heard
  <2>3. \A c \in Members : c \in stale' \/ c \in silent' \/ Going(c)' =>
        c \notin open' /\ at'[c] # NoWorker
    BY <1>2, <1>3 DEF Placed, Going
  <2>4. \A v \in PresWorkers : \A c, d \in owing'[v] : c \notin rows' /\ c = d
    BY <1>2, <1>3 DEF Placed
  <2>5. QED
    BY <1>2, <1>3, <2>1, <2>2, <2>3, <2>4 DEF Placed
<1>7. ASSUME NEW c \in Members, a # c \/ a \notin rows PROVE Same(c)
  BY <1>2, <1>3, <1>7 DEF Same, Told, Going, Placed
<1>8. \A o \in Observers : at'[o] = at[o] /\ (o \in open' => o \in open)
  BY <1>3
<1>9. CASE a \notin rows
  BY <1>5, <1>6, <1>7, <1>8, <1>9, QuietStays DEF PresInv
<1>10. CASE a \in rows
  <2>1. ASSUME NEW v \in PresWorkers PROVE Said(v, a)'
    <3>1. Said(v, a)
      BY DEF PresInv
    <3>2. CASE v = w \/ v \notin running
      <4>1. feed'[v] = feed[v]
        BY <1>4, <1>10, <3>2 DEF Heard
      <4>2. \A k \in Sorts : ~Mentions(feed[v], k, a)
        <5>1. CASE v = w
          BY <1>3, <3>1, <5>1 DEF w, Said
        <5>2. CASE v \notin running
          BY <1>2, <5>2, NoWords DEF Placed, PresTypeOK
        <5>3. QED
          BY <3>2, <5>1, <5>2
      <4>3. ~Final(feed[v], "join", a) /\ ~Final(feed[v], "leave", a)
        BY <1>1, <4>2, WordsTold
      <4>4. QED
        BY <1>1, <3>1, <4>1, <4>2, <4>3 DEF Said
    <3>3. CASE v # w /\ v \in running
      <4>1. \A k \in Sorts : Final(feed'[v], k, a) <=> k = "leave"
        BY <1>4, <1>10, <3>3 DEF Heard
      <4>2. Mentions(feed'[v], "join", a) => Mentions(feed[v], "join", a)
        BY <1>1, <1>4, <1>10 DEF Heard
      <4>3. /\ a \notin rows' /\ a \notin stale' /\ at'[a] = w
            /\ (Going(a)' <=> Going(a)) /\ w # NoWorker
        BY <1>2, <1>3 DEF Going, Placed, w, Connected
      <4>4. QED
        BY <1>1, <3>1, <3>3, <4>1, <4>2, <4>3 DEF Said
    <3>4. QED
      BY <3>2, <3>3
  <2>2. ASSUME NEW o \in Observers PROVE Right(o, a)'
    <3>1. CASE o \in open /\ at[o] = w
      BY <1>1, <1>3, <1>4, <1>8, <1>10, <3>1 DEF Right, Heard
    <3>2. CASE o \in open /\ at[o] # w
      <4>1. ~Mute(feed'[at'[o]], a)
        BY <1>2, <1>4, <1>8, <1>10, <3>2 DEF Heard, Placed
      <4>2. QED
        BY <4>1 DEF Right
    <3>3. QED
      BY <1>8, <3>1, <3>2 DEF Right
  <2>3. ASSUME NEW c \in Members
        PROVE  /\ \A v \in PresWorkers : Said(v, c)'
               /\ \A o \in Observers : Right(o, c)'
    BY <1>1, <1>3, <1>4, <1>7, <1>8, <1>10, <2>1, <2>2, OthersStay
  <2>4. QED
    BY <1>6, <2>3 DEF PresInv
<1>11. QED
  BY <1>9, <1>10

LEMMA PresObserve ==
  ASSUME Connected, PresInv, NEW b \in Observers, NEW w \in PresWorkers, Observe(b, w)
  PROVE  PresInv'
<1>1. Placed /\ b \notin Members
  BY DEF PresInv, Connected
<1>2. Placed'
  <2>1. PresTypeOK' /\ view' \in [Observers -> SUBSET Members]
    BY <1>1 DEF Observe, Placed, PresTypeOK
  <2>2. \A c \in Members : c \in stale' \/ c \in silent' \/ Going(c)' =>
        c \notin open' /\ at'[c] # NoWorker
    BY <1>1 DEF Observe, Placed, Going
  <2>3. QED
    BY <1>1, <2>1, <2>2 DEF Observe, Placed, PresTypeOK
<1>3. ASSUME NEW c \in Members PROVE Same(c)
  BY <1>1 DEF Observe, Same, Told, Going, Placed
<1>4. ASSUME NEW c \in Members, NEW o \in Observers PROVE Right(o, c)'
  <2>1. CASE o = b
    BY <1>1, <2>1 DEF Observe, Right, Placed
  <2>2. CASE o # b
    BY <1>1, <1>3, <2>2, QuietStays DEF Observe, Placed
  <2>3. QED
    BY <2>1, <2>2
<1>5. ASSUME NEW c \in Members, NEW v \in PresWorkers PROVE Said(v, c)'
  BY <1>3, QuietStays DEF Observe
<1>6. QED
  BY <1>2, <1>4, <1>5 DEF PresInv

LEMMA PresTail ==
  ASSUME Connected, PresInv, NEW w \in PresWorkers, TailPresence(w)
  PROVE  PresInv'
<1>1. "join" \in Sorts /\ "leave" \in Sorts
  BY DEF Sorts
<1>2. Placed
  BY DEF PresInv
<1>3. /\ feed[w] \in Seq(Message) /\ feed[w] # <<>> /\ w \in running
      /\ feed'[w] = Tail(feed[w]) /\ \A v \in PresWorkers : v # w => feed'[v] = feed[v]
  BY <1>2 DEF TailPresence, Placed
<1>4. Head(feed[w]) \in Message /\ Tail(feed[w]) \in Seq(Message)
  BY <1>1, <1>3
<1>5. \A k \in Sorts, c \in Members :
         /\ Mentions(feed'[w], k, c) => Mentions(feed[w], k, c)
         /\ Final(feed'[w], k, c) => Final(feed[w], k, c)
         /\ Final(feed[w], k, c) => Final(feed'[w], k, c) \/ Mute(feed'[w], c)
         /\ Mute(feed[w], c) => Mute(feed'[w], c)
         /\ Mute(feed'[w], c) =>
              \/ Mute(feed[w], c) /\ Head(feed[w]).who # c
              \/ Head(feed[w]) = About(Head(feed[w]).kind, c)
                   /\ Final(feed[w], Head(feed[w]).kind, c)
  BY <1>3, WordOnTail
<1>6. \A o \in Observers :
         /\ o \in open /\ at[o] = w => view'[o] = Sees(view[o], Head(feed[w]))
         /\ ~(o \in open /\ at[o] = w) => view'[o] = view[o]
  BY DEF TailPresence
<1>7. Placed'
  <2>1. view' \in [Observers -> SUBSET Members] /\ feed' \in [PresWorkers -> Seq(Message)]
    BY <1>2, <1>3, <1>4 DEF TailPresence, Sees, Message, Placed
  <2>2. PresTypeOK'
    BY <1>2, <1>3 DEF TailPresence, Placed, PresTypeOK
  <2>3. QED
    BY <1>2, <2>1, <2>2 DEF TailPresence, Placed, Going
<1>8. ASSUME NEW c \in Members PROVE Same(c)
  BY DEF TailPresence, Same, Told, Going
<1>9. ASSUME NEW v \in PresWorkers, NEW c \in Members PROVE Said(v, c)'
  <2>1. Said(v, c) /\ Same(c)
    BY <1>8 DEF PresInv
  <2>2. CASE v = w
    BY <1>1, <1>5, <2>1, <2>2 DEF Said, Same
  <2>3. CASE v # w
    BY <1>3, <2>1, <2>3, SaidStays
  <2>4. QED
    BY <2>2, <2>3
<1>10. ASSUME NEW o \in Observers, NEW c \in Members PROVE Right(o, c)'
  <2>1. Right(o, c) /\ Same(c) /\ Said(w, c) /\ at' = at /\ open' = open
    BY <1>8 DEF PresInv, TailPresence
  <2>2. CASE o \in open /\ at[o] = w
    <3>1. ASSUME Mute(feed[w], c), Head(feed[w]).who # c PROVE Right(o, c)'
      <4>1. c \in view'[o] <=> c \in view[o]
        BY <1>6, <2>2, <3>1 DEF Sees
      <4>2. QED
        BY <2>1, <2>2, <3>1, <4>1 DEF Right, Same
    <3>2. ASSUME Head(feed[w]) = About(Head(feed[w]).kind, c), Final(feed[w], Head(feed[w]).kind, c)
          PROVE  Right(o, c)'
      <4>1. Head(feed[w]).who = c /\ Head(feed[w]).kind \in Sorts
        BY <1>4, <3>2 DEF About, Message
      <4>2. CASE Head(feed[w]).kind = "join"
        <5>1. c \in view'[o] /\ (c \in rows \/ Told(c))
          BY <1>6, <2>1, <2>2, <3>2, <4>1, <4>2 DEF Sees, Said
        <5>2. QED
          BY <2>1, <5>1 DEF Right, Same
      <4>3. CASE Head(feed[w]).kind = "leave"
        <5>1. c \notin view'[o] /\ c \notin rows
          BY <1>6, <2>1, <2>2, <3>2, <4>1, <4>3 DEF Sees, Said
        <5>2. QED
          BY <2>1, <5>1 DEF Right, Same
      <4>4. QED
        BY <4>1, <4>2, <4>3 DEF Sorts
    <3>3. CASE Mute(feed'[w], c)
      BY <1>1, <1>5, <3>1, <3>2, <3>3
    <3>4. CASE ~Mute(feed'[w], c)
      BY <2>1, <2>2, <3>4 DEF Right
    <3>5. QED
      BY <3>3, <3>4
  <2>3. CASE o \in open /\ at[o] # w
    <3>1. feed'[at[o]] = feed[at[o]] /\ view'[o] = view[o]
      BY <1>2, <1>3, <1>6, <2>3 DEF Placed
    <3>2. QED
      BY <2>1, <3>1, RightStays
  <2>4. QED
    BY <2>1, <2>2, <2>3 DEF Right
<1>11. QED
  BY <1>7, <1>9, <1>10 DEF PresInv

LEMMA PresStale ==
  ASSUME Connected, PresInv, NEW a \in Members, GrowStale(a)
  PROVE  PresInv'
<1>1. Placed /\ a \notin open /\ at[a] # NoWorker /\ feed' = feed /\ view' = view
  BY DEF PresInv, Placed, GrowStale
<1>2. Placed'
  <2>1. \A c \in Members : c \in stale' \/ c \in silent' \/ Going(c)' =>
        c \notin open' /\ at'[c] # NoWorker
    BY <1>1 DEF GrowStale, Placed, Going
  <2>2. PresTypeOK'
    BY <1>1 DEF GrowStale, Placed, PresTypeOK
  <2>3. QED
    BY <1>1, <2>1, <2>2 DEF GrowStale, Placed
<1>3. ASSUME NEW c \in Members, c # a PROVE Same(c)
  BY <1>3 DEF GrowStale, Same, Told, Going
<1>4. ASSUME NEW v \in PresWorkers, NEW k \in Sorts PROVE ~Mentions(feed[v], k, a)
  BY DEF GrowStale, Untold, Mentions, About
<1>5. ASSUME NEW v \in PresWorkers PROVE Said(v, a)'
  <2>1. Said(v, a) /\ "join" \in Sorts
    BY DEF PresInv, Sorts
  <2>2. QED
    BY <1>1, <1>4, <2>1 DEF GrowStale, Said, Told
<1>6. ASSUME NEW o \in Observers PROVE Right(o, a)'
  <2>1. Right(o, a)
    BY DEF PresInv
  <2>2. QED
    BY <2>1 DEF GrowStale, Right, Told
<1>7. ASSUME NEW c \in Members
      PROVE  /\ \A v \in PresWorkers : Said(v, c)'
             /\ \A o \in Observers : Right(o, c)'
  BY <1>1, <1>3, <1>5, <1>6, QuietStays DEF GrowStale
<1>8. QED
  BY <1>2, <1>7 DEF PresInv

LEMMA PresSelect ==
  ASSUME Connected, PresInv, NEW w \in PresWorkers, ReapSelect(w)
  PROVE  PresInv'
<1>1. Placed
  BY DEF PresInv
<1>2. \A c \in Members : Going(c)' => Going(c) \/ c \in stale
  BY <1>1 DEF ReapSelect, Going, StaleRows, Placed
<1>3. Placed'
  <2>1. PresTypeOK'
    BY <1>1 DEF ReapSelect, Placed, PresTypeOK
  <2>2. reaping' \in [PresWorkers -> SUBSET Members]
    BY <1>1 DEF ReapSelect, Placed, PresTypeOK, StaleRows
  <2>3. \A c \in Members : c \in stale' \/ c \in silent' \/ Going(c)' =>
        c \notin open' /\ at'[c] # NoWorker
    BY <1>1, <1>2 DEF ReapSelect, Placed
  <2>4. QED
    BY <1>1, <2>1, <2>2, <2>3 DEF ReapSelect, Placed
<1>4. ASSUME NEW v \in PresWorkers, NEW c \in Members PROVE Said(v, c)'
  <2>1. Said(v, c)
    BY DEF PresInv
  <2>2. QED
    BY <1>2, <2>1 DEF ReapSelect, Said, Told
<1>5. ASSUME NEW o \in Observers, NEW c \in Members PROVE Right(o, c)'
  <2>1. Right(o, c)
    BY DEF PresInv
  <2>2. QED
    BY <2>1 DEF ReapSelect, Right, Told
<1>6. QED
  BY <1>3, <1>4, <1>5 DEF PresInv

LEMMA PresDelete ==
  ASSUME Connected, PresInv, NEW a \in Members, NEW w \in PresWorkers, ReapDelete(w, a)
  PROVE  PresInv'
<1>1. Placed /\ Going(a)
  BY DEF PresInv, ReapDelete, Going
<1>2. a \in owing'[w] /\ Told(a)' /\ a \notin rows'
  BY <1>1 DEF ReapDelete, Told, Placed
<1>3. \A c \in Members : Going(c)' => Going(c)
  BY <1>1 DEF ReapDelete, Going, Placed
<1>4. Placed'
  <2>1. PresTypeOK'
    BY <1>1 DEF ReapDelete, Placed, PresTypeOK
  <2>2. reaping' \in [PresWorkers -> SUBSET Members] /\ owing' \in [PresWorkers -> SUBSET Members]
    BY <1>1 DEF ReapDelete, Placed
  <2>3. \A c \in Members : c \in stale' \/ c \in silent' \/ Going(c)' =>
        c \notin open' /\ at'[c] # NoWorker
    BY <1>1, <1>3 DEF ReapDelete, Placed
  <2>4. \A v \in PresWorkers : \A c, d \in owing'[v] : c \notin rows' /\ c = d
    BY <1>1 DEF ReapDelete, Placed
  <2>5. QED
    BY <1>1, <2>1, <2>2, <2>3, <2>4 DEF ReapDelete, Placed
<1>5. ASSUME NEW c \in Members, c # a PROVE Same(c)
  BY <1>1, <1>3, <1>5 DEF ReapDelete, Same, Told, Placed
<1>6. ASSUME NEW v \in PresWorkers PROVE Said(v, a)'
  <2>1. Said(v, a) /\ "join" \in Sorts
    BY DEF PresInv, Sorts
  <2>2. ~Mentions(feed[v], "join", a) /\ ~Final(feed[v], "join", a)
    BY <1>1, <2>1, WordsTold DEF Said
  <2>3. QED
    BY <1>1, <1>2, <2>1, <2>2 DEF ReapDelete, Said
<1>7. ASSUME NEW o \in Observers PROVE Right(o, a)'
  BY <1>2 DEF Right
<1>8. ASSUME NEW c \in Members
      PROVE  /\ \A v \in PresWorkers : Said(v, c)'
             /\ \A o \in Observers : Right(o, c)'
  BY <1>5, <1>6, <1>7, QuietStays DEF ReapDelete
<1>9. QED
  BY <1>4, <1>8 DEF PresInv

LEMMA PresTell ==
  ASSUME Connected, PresInv, NEW a \in Members, NEW w \in PresWorkers, ReapTell(w, a)
  PROVE  PresInv'
<1>1. "join" \in Sorts /\ "leave" \in Sorts
  BY DEF Sorts
<1>2. Placed
  BY DEF PresInv
<1>3. Heard(w, "leave", a)
  BY <1>1, <1>2, EmitWords DEF ReapTell, Leave, About
<1>4. a \in owing[w] /\ Going(a) /\ a \notin rows /\ a \notin open /\ at[a] # NoWorker
  BY <1>2 DEF ReapTell, Placed, Going
<1>5. \A c \in Members : Going(c)' => Going(c)
  BY <1>2 DEF ReapTell, Going, Placed
<1>6. Placed'
  <2>1. PresTypeOK'
    BY <1>2, <1>3 DEF ReapTell, Placed, PresTypeOK, Heard
  <2>2. owing' \in [PresWorkers -> SUBSET Members]
    BY <1>2 DEF ReapTell, Placed
  <2>3. \A c \in Members : c \in stale' \/ c \in silent' \/ Going(c)' =>
        c \notin open' /\ at'[c] # NoWorker
    BY <1>2, <1>5 DEF ReapTell, Placed
  <2>4. \A v \in PresWorkers : \A c, d \in owing'[v] : c \notin rows' /\ c = d
    BY <1>2 DEF ReapTell, Placed
  <2>5. QED
    BY <1>2, <1>3, <2>1, <2>2, <2>3, <2>4 DEF ReapTell, Placed, Heard
<1>7. ASSUME NEW c \in Members, a # c PROVE Same(c)
  <2>1. Told(c) => Told(c)'
    BY <1>2, <1>4, <1>7 DEF ReapTell, Told, Placed
  <2>2. QED
    BY <1>5, <2>1 DEF ReapTell, Same
<1>8. ASSUME NEW v \in PresWorkers PROVE Said(v, a)'
  <2>1. Said(v, a)
    BY DEF PresInv
  <2>2. \A k \in Sorts : Mentions(feed'[v], k, a) =>
          Mentions(feed[v], k, a) \/ (v # w /\ v \in running /\ "leave" = k)
    BY <1>3 DEF Heard
  <2>3. ~Mentions(feed'[v], "join", a) /\ ~Final(feed'[v], "join", a)
    BY <1>1, <1>4, <2>1, <2>2, WordsTold DEF Said
  <2>4. Mute(feed'[v], a) \/ Final(feed'[v], "leave", a)
    <3>1. CASE v = w \/ v \notin running
      <4>1. feed'[v] = feed[v]
        BY <1>3, <3>1 DEF Heard
      <4>2. QED
        BY <2>1, <2>3, <4>1 DEF Said
    <3>2. CASE v # w /\ v \in running
      BY <1>1, <1>3, <3>2 DEF Heard
    <3>3. QED
      BY <3>1, <3>2
  <2>5. QED
    BY <1>4, <2>3, <2>4 DEF ReapTell, Said
<1>9. ASSUME NEW o \in Observers PROVE Right(o, a)'
  <2>1. CASE o \in open /\ at[o] = w
    <3>1. a \notin view'[o] /\ a \notin rows'
      BY <1>3, <1>4, <2>1 DEF ReapTell, Heard
    <3>2. QED
      BY <3>1 DEF Right, ReapTell
  <2>2. CASE o \in open /\ at[o] # w
    <3>1. ~Mute(feed'[at[o]], a)
      BY <1>2, <1>3, <2>2 DEF Heard, Placed
    <3>2. QED
      BY <3>1 DEF Right, ReapTell
  <2>3. QED
    BY <2>1, <2>2 DEF Right, ReapTell
<1>10. \A o \in Observers : at'[o] = at[o] /\ (o \in open' => o \in open)
  BY DEF ReapTell
<1>11. ASSUME NEW c \in Members
       PROVE  /\ \A v \in PresWorkers : Said(v, c)'
              /\ \A o \in Observers : Right(o, c)'
  BY <1>1, <1>3, <1>7, <1>8, <1>9, <1>10, OthersStay
<1>12. QED
  BY <1>6, <1>11 DEF PresInv

LEMMA PresDies ==
  ASSUME Connected, PresInv, NEW w \in PresWorkers, WorkerDies(w)
  PROVE  PresInv'
<1>1. Placed
  BY DEF PresInv
<1>2. \A c \in Members : (Told(c) => Told(c)') /\ (Going(c)' => Going(c))
  BY <1>1 DEF WorkerDies, Told, Going, Placed
<1>3. Placed'
  <2>1. /\ reaping' \in [PresWorkers -> SUBSET Members]
        /\ owing' \in [PresWorkers -> SUBSET Members]
        /\ view' \in [Observers -> SUBSET Members] /\ feed' \in [PresWorkers -> Seq(Message)]
    BY <1>1 DEF WorkerDies, Placed
  <2>2. PresTypeOK'
    BY <1>1 DEF WorkerDies, Placed, PresTypeOK, tables
  <2>3. \A c \in Members : c \in stale' \/ c \in silent' \/ Going(c)' =>
        c \notin open' /\ at'[c] # NoWorker
    BY <1>1, <1>2 DEF WorkerDies, Placed, tables, Going
  <2>4. \A v \in PresWorkers : \A c, d \in owing'[v] : c \notin rows' /\ c = d
    BY <1>1 DEF WorkerDies, Placed, tables
  <2>5. QED
    BY <1>1, <2>1, <2>2, <2>3, <2>4 DEF WorkerDies, Placed, tables
<1>4. ASSUME NEW c \in Members PROVE Same(c)
  BY <1>2 DEF WorkerDies, Same, tables
<1>5. ASSUME NEW v \in PresWorkers, NEW c \in Members PROVE Said(v, c)'
  <2>1. CASE v = w
    <3>1. feed'[v] = <<>>
      BY <1>1, <2>1 DEF WorkerDies, Placed
    <3>2. QED
      BY <3>1, NoWords DEF Said
  <2>2. CASE v # w
    <3>1. feed'[v] = feed[v] /\ Said(v, c)
      BY <1>1, <2>2 DEF WorkerDies, Placed, PresInv
    <3>2. QED
      BY <1>4, <3>1, SaidStays
  <2>3. QED
    BY <2>1, <2>2
<1>6. ASSUME NEW o \in Observers, NEW c \in Members PROVE Right(o, c)'
  <2>1. CASE o \in open'
    <3>1. /\ at[o] # w /\ at'[o] = at[o] /\ o \in open /\ view'[o] = view[o]
          /\ feed'[at[o]] = feed[at[o]] /\ Right(o, c)
      BY <1>1, <2>1 DEF WorkerDies, Placed, tables, PresInv
    <3>2. QED
      BY <1>4, <3>1, RightStays
  <2>2. CASE o \notin open'
    BY <2>2 DEF Right
  <2>3. QED
    BY <2>1, <2>2
<1>7. QED
  BY <1>3, <1>5, <1>6 DEF PresInv

LEMMA PresBoots ==
  ASSUME Connected, PresInv, NEW w \in PresWorkers, WorkerBoots(w)
  PROVE  PresInv'
<1>1. Placed
  BY DEF PresInv
<1>2. \A c \in Members : /\ c \in rows' => c \in rows
                         /\ c \in rows => c \in rows' \/ Told(c)'
                         /\ Told(c) => Told(c)'
                         /\ Going(c)' => Going(c)
                         /\ c \in stale' => c \in stale
                         /\ c \in silent' => c \in silent \/ (c \in rows /\ c \notin open)
  BY <1>1 DEF WorkerBoots, Leftover, Told, Going, Placed
<1>3. Placed'
  <2>1. PresTypeOK'
    BY <1>1 DEF WorkerBoots, Leftover, Placed, PresTypeOK
  <2>2. \A c \in Members : c \in stale' \/ c \in silent' \/ Going(c)' =>
        c \notin open' /\ at'[c] # NoWorker
    BY <1>1, <1>2 DEF WorkerBoots, Placed
  <2>3. QED
    BY <1>1, <2>1, <2>2 DEF WorkerBoots, Leftover, Placed
<1>4. ASSUME NEW v \in PresWorkers, NEW c \in Members PROVE Said(v, c)'
  <2>1. Said(v, c)
    BY DEF PresInv
  <2>2. QED
    BY <1>2, <2>1 DEF WorkerBoots, Said
<1>5. ASSUME NEW o \in Observers, NEW c \in Members PROVE Right(o, c)'
  <2>1. Right(o, c)
    BY DEF PresInv
  <2>2. QED
    BY <1>2, <2>1 DEF WorkerBoots, Right
<1>6. QED
  BY <1>3, <1>4, <1>5 DEF PresInv

LEMMA PresStep == ASSUME Connected, PresInv, [PresNext]_presVars PROVE PresInv'
<1>1. ASSUME UNCHANGED presVars PROVE PresInv'
  BY <1>1 DEF presVars, PresInv, Placed, PresTypeOK, Said, Right, Going, Told
<1>2. ASSUME NEW c \in Members, Untrack(c) \/ Close(c) \/ GrowStale(c) PROVE PresInv'
  BY <1>2, PresLeave, PresStale
<1>3. ASSUME NEW w \in PresWorkers, NEW c \in Members,
             Track(c, w) \/ ReapDelete(w, c) \/ ReapTell(w, c)
      PROVE  PresInv'
  BY <1>3, PresTrack, PresDelete, PresTell
<1>4. ASSUME NEW w \in PresWorkers, NEW o \in Observers, Observe(o, w) PROVE PresInv'
  BY <1>4, PresObserve
<1>5. ASSUME NEW w \in PresWorkers,
             TailPresence(w) \/ ReapSelect(w) \/ WorkerDies(w) \/ WorkerBoots(w)
      PROVE  PresInv'
  BY <1>5, PresTail, PresSelect, PresDies, PresBoots
<1>6. QED
  BY <1>1, <1>2, <1>3, <1>4, <1>5 DEF PresNext

LEMMA PresStarts == ASSUME Connected, PresInit PROVE PresInv
<1>1. Placed
  <2>1. feed \in [PresWorkers -> Seq(Message)]
    BY DEF PresInit
  <2>2. QED
    BY <2>1 DEF PresInit, Placed, PresTypeOK, Going
<1>2. \A w \in PresWorkers, c \in Members : Said(w, c)
  BY NoWords DEF PresInit, Said
<1>3. QED
  BY <1>1, <1>2 DEF PresInit, PresInv, Right

(* However joins, leaves, reaps, crashes and reboots interleave in a       *)
(* cluster of any size (presence.ts), an observer that has heard what is   *)
(* on its way believes in exactly those with a row, and in members whose   *)
(* row is being told of or went untold.                                    *)
THEOREM ViewsFollowRows == ASSUME Connected PROVE PresSpec => []BelievesRows
<1>1. PresInv => BelievesRows
  BY RightBelieves
<1>2. QED
  BY <1>1, PresStarts, PresStep, PTL DEF PresSpec

-----------------------------------------------------------------------------
(* Cron *)

Flight == [next : {"null", "later"}, byHand : BOOLEAN]
CronRow == [in : BOOLEAN, cron : BOOLEAN, enabled : BOOLEAN, worker : BOOLEAN,
            compiles : BOOLEAN, next : {"null", "later", "due"}]

(* The runs under way: those by hand, those of the scheduler, and of each  *)
(* the ones that will leave the job with a time to run at.                 *)
Hand(q) == Count(q, {r \in Flight : r.byHand})
HandLater(q) == Count(q, {r \in Flight : r.byHand /\ r.next = "later"})
Sched(q) == Count(q, {r \in Flight : ~r.byHand})
SchedLater(q) == Count(q, {r \in Flight : ~r.byHand /\ r.next = "later"})

LEMMA FlightType ==
  ASSUME NEW q \in Seq(Flight)
  PROVE  /\ Hand(q) \in Nat /\ HandLater(q) \in Nat /\ Sched(q) \in Nat /\ SchedLater(q) \in Nat
         /\ HandLater(q) <= Hand(q) /\ SchedLater(q) <= Sched(q)
<1>1. HandLater(q) <= Hand(q)
  <2>1. {r \in Flight : r.byHand /\ r.next = "later"} \subseteq {r \in Flight : r.byHand}
    OBVIOUS
  <2>2. QED
    BY <2>1, CountSubset DEF Hand, HandLater
<1>2. SchedLater(q) <= Sched(q)
  <2>1. {r \in Flight : ~r.byHand /\ r.next = "later"} \subseteq {r \in Flight : ~r.byHand}
    OBVIOUS
  <2>2. QED
    BY <2>1, CountSubset DEF Sched, SchedLater
<1>3. QED
  BY <1>1, <1>2, CountType DEF Hand, HandLater, Sched, SchedLater

LEMMA FlightEmpty ==
  Hand(<<>>) = 0 /\ HandLater(<<>>) = 0 /\ Sched(<<>>) = 0 /\ SchedLater(<<>>) = 0
BY CountEmpty DEF Hand, HandLater, Sched, SchedLater

One(b) == IF b THEN 1 ELSE 0

LEMMA FlightAppend ==
  ASSUME NEW q \in Seq(Flight), NEW r \in Flight, NEW a, a = Append(q, r)
  PROVE  /\ a \in Seq(Flight)
         /\ Hand(a) = Hand(q) + One(r.byHand)
         /\ HandLater(a) = HandLater(q) + One(r.byHand /\ r.next = "later")
         /\ Sched(a) = Sched(q) + One(~r.byHand)
         /\ SchedLater(a) = SchedLater(q) + One(~r.byHand /\ r.next = "later")
<1>1. \A W : /\ r \in W => Count(a, W) = Count(q, W) + 1
             /\ r \notin W => Count(a, W) = Count(q, W)
             /\ Count(q, W) \in Nat
  BY CountAppend, CountType
<1>2. Hand(a) = Hand(q) + One(r.byHand)
  BY <1>1 DEF Hand, One
<1>3. HandLater(a) = HandLater(q) + One(r.byHand /\ r.next = "later")
  BY <1>1 DEF HandLater, One
<1>4. Sched(a) = Sched(q) + One(~r.byHand)
  BY <1>1 DEF Sched, One
<1>5. SchedLater(a) = SchedLater(q) + One(~r.byHand /\ r.next = "later")
  BY <1>1 DEF SchedLater, One
<1>6. QED
  BY <1>2, <1>3, <1>4, <1>5

LEMMA FlightRemove ==
  ASSUME NEW q \in Seq(Flight), NEW n \in DOMAIN q, NEW a, a = RemoveAt(q, n)
  PROVE  /\ a \in Seq(Flight) /\ q[n] \in Flight
         /\ Hand(q) = Hand(a) + One(q[n].byHand)
         /\ HandLater(q) = HandLater(a) + One(q[n].byHand /\ q[n].next = "later")
         /\ Sched(q) = Sched(a) + One(~q[n].byHand)
         /\ SchedLater(q) = SchedLater(a) + One(~q[n].byHand /\ q[n].next = "later")
<1>1. a \in Seq(Flight) /\ q[n] \in Flight
  BY RemoveAtIs
<1>2. \A W : /\ q[n] \in W => Count(q, W) = Count(a, W) + 1
             /\ q[n] \notin W => Count(q, W) = Count(a, W)
             /\ Count(a, W) \in Nat
  BY <1>1, CountRemove, CountType
<1>3. PICK r \in Flight : r = q[n]
  BY <1>1
<1>4. Hand(q) = Hand(a) + One(r.byHand)
  BY <1>2, <1>3 DEF Hand, One
<1>5. HandLater(q) = HandLater(a) + One(r.byHand /\ r.next = "later")
  BY <1>2, <1>3 DEF HandLater, One
<1>6. Sched(q) = Sched(a) + One(~r.byHand)
  BY <1>2, <1>3 DEF Sched, One
<1>7. SchedLater(q) = SchedLater(a) + One(~r.byHand /\ r.next = "later")
  BY <1>2, <1>3 DEF SchedLater, One
<1>8. QED
  BY <1>1, <1>3, <1>4, <1>5, <1>6, <1>7

(* The fire a job may still have: the one its run under way will set, or,  *)
(* when the scheduler has none, the one its row is set to.                 *)
Ahead(row, q) == IF Sched(q) = 0 THEN One(row.next # "null") ELSE SchedLater(q)

(* The inductive invariant: the fires a one-off has had and may still have *)
(* are one, and one more for each run by hand and crash.                   *)
Quota(row, q, n, x) ==
  /\ Sched(q) <= 1 /\ Hand(q) <= x
  /\ row.in /\ ~row.cron => n + HandLater(q) + Ahead(row, q) <= 1 + x

CronInv ==
  /\ jobs \in [CronJobs -> CronRow] /\ flight \in [CronJobs -> Seq(Flight)]
  /\ fires \in [CronJobs -> Nat] /\ extra \in Nat
  /\ \A j \in CronJobs : Quota(jobs[j], flight[j], fires[j], extra)

LEMMA QuotaRow ==
  ASSUME NEW q \in Seq(Flight), NEW n \in Nat, NEW x \in Nat,
         NEW row \in CronRow, NEW new \in CronRow, Quota(row, q, n, x),
         new.in /\ ~new.cron => row.in /\ ~row.cron /\ (row.next = "null" => new.next = "null")
  PROVE  Quota(new, q, n, x) /\ Quota(new, q, n, x + 1)
BY FlightType DEF Quota, Ahead, One

LEMMA QuotaSet ==
  ASSUME NEW q \in Seq(Flight), NEW n \in Nat, NEW x \in Nat,
         NEW row \in CronRow, NEW new \in CronRow, Quota(row, q, n, x)
  PROVE  Quota(new, q, 0, x)
BY FlightType DEF Quota, Ahead, One

LEMMA QuotaByHand ==
  ASSUME NEW q \in Seq(Flight), NEW n \in Nat, NEW x \in Nat, NEW row \in CronRow,
         Quota(row, q, n, x), NEW r \in Flight, r.byHand, r.next = "later" => row.cron
  PROVE  Quota(row, Append(q, r), n, x + 1)
<1>1. PICK a : a = Append(q, r)
  OBVIOUS
<1>2. /\ a \in Seq(Flight)
      /\ Hand(a) = Hand(q) + One(r.byHand)
      /\ HandLater(a) = HandLater(q) + One(r.byHand /\ r.next = "later")
      /\ Sched(a) = Sched(q) + One(~r.byHand)
      /\ SchedLater(a) = SchedLater(q) + One(~r.byHand /\ r.next = "later")
  BY <1>1, FlightAppend
<1>3. /\ Hand(q) \in Nat /\ HandLater(q) \in Nat /\ Sched(q) \in Nat /\ SchedLater(q) \in Nat
      /\ r.byHand \in BOOLEAN /\ r.next \in {"null", "later"} /\ row.cron \in BOOLEAN
  BY FlightType DEF Flight, CronRow
<1>4. /\ Hand(a) = Hand(q) + 1 /\ Sched(a) = Sched(q) /\ SchedLater(a) = SchedLater(q)
      /\ HandLater(a) <= HandLater(q) + 1
      /\ ~row.cron => HandLater(a) = HandLater(q)
  BY <1>2, <1>3 DEF One
<1>5. Ahead(row, a) = Ahead(row, q) /\ Ahead(row, q) \in Nat
  BY <1>3, <1>4 DEF Ahead, One
<1>6. Quota(row, a, n, x + 1)
  BY <1>3, <1>4, <1>5 DEF Quota
<1>7. QED
  BY <1>1, <1>6

LEMMA QuotaFires ==
  ASSUME NEW q \in Seq(Flight), NEW n \in Nat, NEW m \in Nat, m <= n + 1, NEW x \in Nat,
         NEW row \in CronRow, row.next # "null", Quota(row, q, n, x), Sched(q) = 0
  PROVE  /\ \A r \in Flight : ~r.byHand /\ (r.next = "later" => row.cron) =>
              Quota(row, Append(q, r), m, x)
         /\ \A new \in CronRow :
              new.in = row.in /\ new.cron = row.cron /\ (~row.cron => new.next = "null") =>
                Quota(new, q, m, x)
<1>1. ASSUME NEW r \in Flight, ~r.byHand, r.next = "later" => row.cron
      PROVE  Quota(row, Append(q, r), m, x)
  <2>1. PICK a : a = Append(q, r)
    OBVIOUS
  <2>2. /\ a \in Seq(Flight)
        /\ Hand(a) = Hand(q) + One(r.byHand)
        /\ HandLater(a) = HandLater(q) + One(r.byHand /\ r.next = "later")
        /\ Sched(a) = Sched(q) + One(~r.byHand)
        /\ SchedLater(a) = SchedLater(q) + One(~r.byHand /\ r.next = "later")
    BY <2>1, FlightAppend
  <2>3. /\ Hand(q) \in Nat /\ HandLater(q) \in Nat /\ Sched(q) \in Nat /\ SchedLater(q) \in Nat
        /\ SchedLater(q) <= Sched(q) /\ r.next \in {"null", "later"} /\ row.cron \in BOOLEAN
    BY FlightType DEF Flight, CronRow
  <2>4. Quota(row, a, m, x)
    BY <1>1, <2>2, <2>3 DEF Quota, Ahead, One
  <2>5. QED
    BY <2>1, <2>4
<1>2. ASSUME NEW new \in CronRow, new.in = row.in, new.cron = row.cron,
             ~row.cron => new.next = "null"
      PROVE  Quota(new, q, m, x)
  BY <1>2, FlightType DEF Quota, Ahead, One
<1>3. QED
  BY <1>1, <1>2

LEMMA QuotaEnds ==
  ASSUME NEW q \in Seq(Flight), NEW k \in DOMAIN q, NEW n \in Nat, NEW x \in Nat,
         NEW row \in CronRow, NEW new \in CronRow, Quota(row, q, n, x),
         new.in = row.in, new.cron = row.cron, row.in => new.next = q[k].next
  PROVE  Quota(new, RemoveAt(q, k), n, x)
<1>1. PICK a : a = RemoveAt(q, k)
  OBVIOUS
<1>2. a \in Seq(Flight) /\ q[k] \in Flight
  BY <1>1, FlightRemove
<1>3. PICK r \in Flight : r = q[k]
  BY <1>2
<1>4. /\ Hand(q) = Hand(a) + One(r.byHand)
      /\ HandLater(q) = HandLater(a) + One(r.byHand /\ r.next = "later")
      /\ Sched(q) = Sched(a) + One(~r.byHand)
      /\ SchedLater(q) = SchedLater(a) + One(~r.byHand /\ r.next = "later")
  BY <1>1, <1>3, FlightRemove
<1>5. /\ Hand(a) \in Nat /\ HandLater(a) \in Nat /\ Sched(a) \in Nat /\ SchedLater(a) \in Nat
      /\ SchedLater(a) <= Sched(a)
      /\ Hand(q) \in Nat /\ HandLater(q) \in Nat /\ Sched(q) \in Nat /\ SchedLater(q) \in Nat
  BY <1>2, FlightType
<1>6. r.byHand \in BOOLEAN /\ r.next \in {"null", "later"}
  BY DEF Flight
<1>7. new.in = row.in /\ new.cron = row.cron /\ (row.in => new.next = r.next)
  BY <1>3
<1>8. One(r.next = "later") \in {0, 1} /\ One(row.next # "null") \in {0, 1}
      /\ (row.in => One(new.next # "null") = One(r.next = "later"))
  BY <1>6, <1>7 DEF One
<1>9. Sched(a) <= Sched(q) /\ Hand(a) <= Hand(q)
  BY <1>4, <1>5 DEF One
<1>10. Sched(q) <= 1 /\ row.in => HandLater(a) + Ahead(new, a) <= HandLater(q) + Ahead(row, q)
  <2>1. CASE r.byHand
    <3>1. Sched(q) = Sched(a) /\ SchedLater(q) = SchedLater(a)
          /\ HandLater(q) = HandLater(a) + One(r.next = "later")
      BY <1>4, <1>5, <2>1 DEF One
    <3>2. QED
      BY <1>5, <1>8, <3>1 DEF Ahead
  <2>2. CASE ~r.byHand
    <3>1. Sched(q) = Sched(a) + 1 /\ SchedLater(q) = SchedLater(a) + One(r.next = "later")
          /\ HandLater(q) = HandLater(a)
      BY <1>4, <1>5, <2>2 DEF One
    <3>2. QED
      BY <1>5, <1>8, <3>1 DEF Ahead
  <2>3. QED
    BY <1>6, <2>1, <2>2
<1>11. Ahead(new, a) \in Nat /\ Ahead(row, q) \in Nat
  BY <1>5 DEF Ahead, One
<1>12. Sched(q) <= 1 /\ Hand(q) <= x
  BY DEF Quota
<1>13. ASSUME new.in, ~new.cron
       PROVE  n + HandLater(a) + Ahead(new, a) <= 1 + x
  <2>1. row.in /\ ~row.cron
    BY <1>7, <1>13
  <2>2. n + HandLater(q) + Ahead(row, q) <= 1 + x
    BY <2>1 DEF Quota
  <2>3. HandLater(a) + Ahead(new, a) <= HandLater(q) + Ahead(row, q)
    BY <1>10, <1>12, <2>1
  <2>4. \A b, c, d, e \in Nat : n + b + c <= 1 + x /\ d + e <= b + c => n + d + e <= 1 + x
    OBVIOUS
  <2>5. QED
    BY <1>5, <1>11, <2>2, <2>3, <2>4
<1>14. Sched(a) <= 1 /\ Hand(a) <= x
  BY <1>5, <1>9, <1>12
<1>15. Quota(new, a, n, x)
  BY <1>13, <1>14 DEF Quota
<1>16. QED
  BY <1>1, <1>15

LEMMA QuotaDies ==
  ASSUME NEW q \in Seq(Flight), NEW n \in Nat, NEW x \in Nat, NEW row \in CronRow,
         Quota(row, q, n, x)
  PROVE  Quota(row, <<>>, n, x + 1)
BY FlightType, FlightEmpty DEF Quota, Ahead, One

LEMMA CronStep ==
  ASSUME Prompt, CronInv, [CronNext]_cronVars
  PROVE  CronInv'
<1> USE DEF CronInv
<1>1. \A j \in CronJobs : /\ jobs[j] \in CronRow /\ flight[j] \in Seq(Flight)
                          /\ fires[j] \in Nat /\ Fired(j) \in Nat /\ Fired(j) <= fires[j] + 1
                          /\ Quota(jobs[j], flight[j], fires[j], extra)
                          /\ NextRun(j) \in {"null", "later"}
                          /\ NextRun(j) = "later" => jobs[j].cron
                          /\ \A b \in BOOLEAN : Run(j, b) \in Flight /\ Run(j, b).byHand = b
                                                /\ Run(j, b).next = NextRun(j)
  BY DEF Fired, NextRun, Run, Flight
<1>2. CASE CronTick
  <2>1. ASSUME NEW j \in CronJobs PROVE Sched(flight[j]) = 0
    <3>1. Hits(flight[j], {r \in Flight : ~r.byHand}) = {}
      BY <1>2 DEF CronTick, Hits
    <3>2. QED
      BY <3>1, FS_EmptySet DEF Sched, Count
  <2>2. ASSUME NEW j \in CronJobs
        PROVE  /\ jobs'[j] \in CronRow /\ flight'[j] \in Seq(Flight) /\ fires'[j] \in Nat
               /\ Quota(jobs'[j], flight'[j], fires'[j], extra)
    <3>1. /\ ~(Begins(j) /\ Enqueues(j))
          /\ ~(Due(j) /\ Adrift(j))
      BY DEF Begins, Enqueues, Due, Adrift
    <3>2. CASE Due(j) /\ Begins(j)
      <4>1. /\ jobs'[j] = jobs[j] /\ flight'[j] = Append(flight[j], Run(j, FALSE))
            /\ fires'[j] = Fired(j)
        BY <1>2, <3>1, <3>2 DEF CronTick, TickRows
      <4>2. jobs[j].next # "null"
        BY <3>2 DEF Due
      <4>3. PICK r \in Flight : r = Run(j, FALSE)
        BY <1>1
      <4>4. Append(flight[j], r) \in Seq(Flight)
        BY <1>1
      <4>5. ~r.byHand /\ (r.next = "later" => jobs[j].cron)
        BY <1>1, <4>3
      <4>6. PICK a : a = Append(flight[j], r)
        OBVIOUS
      <4>7. Quota(jobs[j], a, Fired(j), extra)
        BY <1>1, <2>1, <4>2, <4>5, <4>6, QuotaFires
      <4>8. QED
        BY <1>1, <4>1, <4>3, <4>4, <4>6, <4>7
    <3>3. CASE Due(j) /\ Enqueues(j)
      <4>1. /\ jobs'[j] = [jobs[j] EXCEPT !.next = NextRun(j)] /\ flight'[j] = flight[j]
            /\ fires'[j] = Fired(j)
        BY <1>2, <3>1, <3>3 DEF CronTick, TickRows
      <4>2. PICK new : new = jobs'[j]
        OBVIOUS
      <4>3. /\ new \in CronRow /\ new.in = jobs[j].in /\ new.cron = jobs[j].cron
            /\ new.next = NextRun(j)
        BY <1>1, <4>1, <4>2 DEF CronRow
      <4>4. jobs[j].next # "null" /\ jobs[j].cron \in BOOLEAN
        BY <1>1, <3>3 DEF Due, CronRow
      <4>5. Quota(new, flight[j], Fired(j), extra)
        BY <1>1, <2>1, <4>3, <4>4, QuotaFires
      <4>6. QED
        BY <1>1, <4>1, <4>2, <4>3, <4>5
    <3>4. CASE Adrift(j)
      <4>1. /\ jobs'[j] = [jobs[j] EXCEPT !.next = "later"]
            /\ flight'[j] = flight[j] /\ fires'[j] = fires[j]
        BY <1>2, <3>1, <3>4 DEF CronTick, TickRows
      <4>2. PICK new : new = jobs'[j]
        OBVIOUS
      <4>3. new \in CronRow /\ new.cron
        BY <1>1, <3>4, <4>1, <4>2 DEF CronRow, Adrift
      <4>4. Quota(new, flight[j], fires[j], extra)
        BY <1>1, <4>3, QuotaRow
      <4>5. QED
        BY <1>1, <4>1, <4>2, <4>3, <4>4
    <3>5. CASE ~(Due(j) /\ (Begins(j) \/ Enqueues(j))) /\ ~Adrift(j)
      <4>1. jobs'[j] = jobs[j] /\ flight'[j] = flight[j] /\ fires'[j] = fires[j]
        BY <1>2, <3>5 DEF CronTick, TickRows
      <4>2. QED
        BY <1>1, <4>1
    <3>6. QED
      BY <3>2, <3>3, <3>4, <3>5
  <2>3. QED
    BY <1>2, <2>2 DEF CronTick, TickRows
<1>3. ASSUME NEW j \in CronJobs, RunNow(j) PROVE CronInv'
  <2>1. CASE Enqueues(j)
    <3>1. PICK new : new = [jobs[j] EXCEPT !.next = NextRun(j)]
      OBVIOUS
    <3>2. new \in CronRow /\ new.in = jobs[j].in /\ new.cron = jobs[j].cron
          /\ (~jobs[j].cron => new.next = "null")
      BY <1>1, <3>1 DEF CronRow, NextRun
    <3>3. /\ jobs' = [jobs EXCEPT ![j] = new] /\ flight' = flight /\ fires' = fires
          /\ extra' = extra + 1
      BY <1>3, <2>1, <3>1 DEF RunNow
    <3>4. Quota(new, flight[j], fires[j], extra + 1)
      BY <1>1, <3>2, QuotaRow
    <3>5. \A k \in CronJobs : Quota(jobs[k], flight[k], fires[k], extra + 1)
      BY <1>1, QuotaRow
    <3>6. QED
      BY <3>2, <3>3, <3>4, <3>5
  <2>2. CASE ~Enqueues(j)
    <3>1. PICK r \in Flight : r = Run(j, TRUE)
      BY <1>1
    <3>2. PICK a : a = Append(flight[j], r)
      OBVIOUS
    <3>3. /\ flight' = [flight EXCEPT ![j] = a] /\ jobs' = jobs /\ fires' = fires
          /\ extra' = extra + 1
      BY <1>3, <2>2, <3>1, <3>2 DEF RunNow
    <3>4. a \in Seq(Flight) /\ Quota(jobs[j], a, fires[j], extra + 1)
      <4>1. r.byHand /\ (r.next = "later" => jobs[j].cron)
        BY <1>1, <3>1
      <4>2. PICK q \in Seq(Flight) : q = flight[j]
        BY <1>1
      <4>3. PICK row \in CronRow : row = jobs[j]
        BY <1>1
      <4>4. Quota(row, q, fires[j], extra) /\ fires[j] \in Nat /\ (r.next = "later" => row.cron)
        BY <1>1, <4>1, <4>2, <4>3
      <4>5. Quota(row, Append(q, r), fires[j], extra + 1)
        BY <4>1, <4>4, QuotaByHand
      <4>6. QED
        BY <3>2, <4>2, <4>3, <4>5
    <3>5. \A k \in CronJobs : Quota(jobs[k], flight[k], fires[k], extra + 1)
      BY <1>1, QuotaRow
    <3>6. QED
      BY <3>3, <3>4, <3>5
  <2>3. QED
    BY <2>1, <2>2
<1>4. ASSUME NEW j \in CronJobs, RunEnds(j) PROVE CronInv'
  <2>1. PICK k \in DOMAIN flight[j] :
          /\ flight' = [flight EXCEPT ![j] = RemoveAt(@, k)]
          /\ jobs' = IF jobs[j].in THEN [jobs EXCEPT ![j].next = flight[j][k].next] ELSE jobs
          /\ UNCHANGED <<leader, fires, extra>>
    BY <1>4 DEF RunEnds
  <2>2. PICK new : new = IF jobs[j].in THEN [jobs[j] EXCEPT !.next = flight[j][k].next] ELSE jobs[j]
    OBVIOUS
  <2>3. flight[j][k] \in Flight /\ RemoveAt(flight[j], k) \in Seq(Flight)
    BY <1>1, FlightRemove
  <2>4. /\ new \in CronRow /\ new.in = jobs[j].in /\ new.cron = jobs[j].cron
        /\ jobs[j].in => new.next = flight[j][k].next
    <3>1. PICK row \in CronRow : row = jobs[j]
      BY <1>1
    <3>2. flight[j][k].next \in {"null", "later", "due"}
      BY <2>3 DEF Flight
    <3>3. CASE row.in
      <4>1. new = [row EXCEPT !.next = flight[j][k].next]
        BY <2>2, <3>1, <3>3
      <4>2. QED
        BY <3>1, <3>2, <4>1 DEF CronRow
    <3>4. CASE ~row.in
      BY <2>2, <3>1, <3>4
    <3>5. QED
      BY <3>3, <3>4
  <2>5. jobs' = [jobs EXCEPT ![j] = new]
    BY <2>1, <2>2
  <2>6. PICK a : a = RemoveAt(flight[j], k)
    OBVIOUS
  <2>7. Quota(new, a, fires[j], extra)
    BY <1>1, <2>4, <2>6, QuotaEnds
  <2>8. flight' = [flight EXCEPT ![j] = a]
    BY <2>1, <2>6
  <2>9. QED
    BY <2>1, <2>3, <2>4, <2>5, <2>6, <2>7, <2>8
<1>5. ASSUME NEW j \in CronJobs, NEW new \in CronRow, NEW n \in Nat,
             jobs' = [jobs EXCEPT ![j] = new], flight' = flight,
             fires' = [fires EXCEPT ![j] = n], extra' = extra,
             Quota(new, flight[j], n, extra)
      PROVE  CronInv'
  BY <1>5
<1>6. ASSUME NEW j \in CronJobs, Elapses(j) PROVE CronInv'
  <2>1. PICK new : new = [jobs[j] EXCEPT !.next = "due"]
    OBVIOUS
  <2>2. new \in CronRow /\ new.in = jobs[j].in /\ new.cron = jobs[j].cron
    BY <1>1, <2>1 DEF CronRow
  <2>3. jobs[j].next # "null" /\ jobs' = [jobs EXCEPT ![j] = new]
    BY <1>6, <2>1 DEF Elapses
  <2>4. Quota(new, flight[j], fires[j], extra)
    BY <1>1, <2>2, <2>3, QuotaRow
  <2>5. fires' = [fires EXCEPT ![j] = fires[j]] /\ flight' = flight /\ extra' = extra
    BY <1>6 DEF Elapses
  <2>6. QED
    BY <1>1, <1>5, <2>2, <2>3, <2>4, <2>5
<1>7. ASSUME NEW j \in CronJobs, NEW cron \in BOOLEAN, NEW on \in BOOLEAN,
             NEW worker \in BOOLEAN, NEW compiles \in BOOLEAN,
             CreateJob(j, cron, on, worker, compiles)
      PROVE  CronInv'
  <2>1. PICK new : new = [in |-> TRUE, cron |-> cron, enabled |-> on,
                          worker |-> worker, compiles |-> compiles, next |-> "later"]
    OBVIOUS
  <2>2. new \in CronRow
    BY <2>1 DEF CronRow
  <2>3. Quota(new, flight[j], 0, extra)
    BY <1>1, <2>2, QuotaSet
  <2>4. /\ jobs' = [jobs EXCEPT ![j] = new] /\ fires' = [fires EXCEPT ![j] = 0]
        /\ flight' = flight /\ extra' = extra
    BY <1>7, <2>1 DEF CreateJob
  <2>5. QED
    BY <1>5, <2>2, <2>3, <2>4
<1>8. ASSUME NEW j \in CronJobs, NEW cron \in BOOLEAN, PatchSchedule(j, cron) PROVE CronInv'
  <2>1. PICK new : new = [jobs[j] EXCEPT !.cron = cron, !.next = "later"]
    OBVIOUS
  <2>2. new \in CronRow
    BY <1>1, <2>1, Zenon DEF CronRow
  <2>3. Quota(new, flight[j], 0, extra)
    BY <1>1, <2>2, QuotaSet
  <2>4. /\ jobs' = [jobs EXCEPT ![j] = new] /\ fires' = [fires EXCEPT ![j] = 0]
        /\ flight' = flight /\ extra' = extra
    BY <1>8, <2>1 DEF PatchSchedule
  <2>5. QED
    BY <1>5, <2>2, <2>3, <2>4
<1>9. ASSUME NEW j \in CronJobs, NEW on \in BOOLEAN, NEW worker \in BOOLEAN,
             NEW compiles \in BOOLEAN, PatchJob(j, on, worker, compiles)
      PROVE  CronInv'
  <2>1. PICK new : new = [jobs[j] EXCEPT !.enabled = on, !.worker = worker,
                                         !.compiles = compiles]
    OBVIOUS
  <2>2. new \in CronRow
    BY <1>1, <2>1, Zenon DEF CronRow
  <2>3. new.in = jobs[j].in /\ new.cron = jobs[j].cron /\ new.next = jobs[j].next
    BY <1>1, <2>1 DEF CronRow
  <2>4. Quota(new, flight[j], fires[j], extra)
    BY <1>1, <2>2, <2>3, QuotaRow
  <2>5. /\ jobs' = [jobs EXCEPT ![j] = new] /\ fires' = [fires EXCEPT ![j] = fires[j]]
        /\ flight' = flight /\ extra' = extra
    BY <1>9, <2>1 DEF PatchJob
  <2>6. QED
    BY <1>1, <1>5, <2>2, <2>4, <2>5
<1>10. ASSUME NEW j \in CronJobs, DeleteJob(j) PROVE CronInv'
  <2>1. Nobody \in CronRow /\ ~Nobody.in
    BY DEF Nobody, CronRow
  <2>2. Quota(Nobody, flight[j], fires[j], extra)
    BY <1>1, <2>1, QuotaRow
  <2>3. /\ jobs' = [jobs EXCEPT ![j] = Nobody] /\ fires' = [fires EXCEPT ![j] = fires[j]]
        /\ flight' = flight /\ extra' = extra
    BY <1>10 DEF DeleteJob
  <2>4. QED
    BY <1>1, <1>5, <2>1, <2>2, <2>3
<1>11. CASE LeaderDies
  <2>1. \A k \in CronJobs : Quota(jobs[k], <<>>, fires[k], extra + 1)
    BY <1>1, QuotaDies
  <2>2. flight' \in [CronJobs -> Seq(Flight)]
    BY <1>11 DEF LeaderDies
  <2>3. QED
    BY <1>11, <2>1, <2>2 DEF LeaderDies
<1>12. CASE LeaderStarts \/ UNCHANGED cronVars
  BY <1>12 DEF LeaderStarts, cronVars
<1>13. ASSUME NEW j \in CronJobs, CronAdmin(j) PROVE CronInv'
  BY <1>7, <1>8, <1>9, <1>10, <1>13 DEF CronAdmin
<1>14. QED
  BY <1>2, <1>3, <1>4, <1>6, <1>11, <1>12, <1>13 DEF CronNext

(* A one-off job (jobs.ts) fires once, and once more for each crash and    *)
(* each run by hand, however its runs, edits and crashes interleave: with  *)
(* runs that end before the scheduler's next tick.                         *)
THEOREM OneOffsFireOnce == ASSUME Prompt PROVE CronSpec => []OneOffOnce
<1>1. CronInit => CronInv
  <2>1. ASSUME CronInit PROVE CronInv
    <3>1. Nobody \in CronRow /\ flight \in [CronJobs -> Seq(Flight)]
      BY <2>1 DEF CronInit, Nobody, CronRow
    <3>2. Quota(Nobody, <<>>, 0, 0)
      BY FlightEmpty DEF Quota, Nobody
    <3>3. QED
      BY <2>1, <3>1, <3>2 DEF CronInit, CronInv
  <2>2. QED
    BY <2>1
<1>2. CronInv => OneOffOnce
  <2>1. ASSUME CronInv, NEW j \in CronJobs, jobs[j].in /\ ~jobs[j].cron
        PROVE  fires[j] <= 1 + extra
    <3>1. PICK q \in Seq(Flight) : q = flight[j]
      BY <2>1 DEF CronInv
    <3>2. HandLater(q) \in Nat /\ SchedLater(q) \in Nat /\ fires[j] \in Nat /\ extra \in Nat
      BY <2>1, FlightType DEF CronInv
    <3>3. fires[j] + HandLater(q) + Ahead(jobs[j], q) <= 1 + extra
      BY <2>1, <3>1 DEF CronInv, Quota
    <3>4. QED
      BY <3>2, <3>3 DEF Ahead, One
  <2>2. QED
    BY <2>1 DEF OneOffOnce
<1>3. QED
  BY <1>1, <1>2, CronStep, PTL DEF CronSpec

-----------------------------------------------------------------------------
(* Record history *)

(* No state is mistaken for the record's absence. *)
Absent == Gone \notin Nat

State == [val : Nat \cup {Gone}, from : Nat]
Entry == [op : {"create", "update", "delete"}, val : Nat, at : Nat]
Debt == [op : {"create", "update", "delete"}, val : Nat, nth : Nat]

(* A row, or one owed, tells of a state: of a delete by its operation, of  *)
(* any other by its snapshot.                                              *)
Fits(e, s) == (e.op = "delete" <=> s.val = Gone) /\ (s.val # Gone => e.val = s.val)

(* The inductive invariant: each row tells of a state of its own, which    *)
(* began no later than the row was stamped, and each row that is owed of   *)
(* another.                                                                *)
Linked(f) ==
  /\ \A m, n \in DOMAIN log : f[m] = f[n] => m = n
  /\ \A n \in DOMAIN log : /\ f[n] \in DOMAIN states /\ Fits(log[n], states[f[n]])
                           /\ states[f[n]].from <= log[n].at
                           /\ \A w \in logging : w.nth # f[n]

Chronicle ==
  /\ live \in Nat \cup {Gone} /\ second \in Nat /\ deleting \subseteq Nat
  /\ states \in Seq(State) /\ log \in Seq(Entry) /\ logging \subseteq Debt
  /\ \A m, n \in DOMAIN states : m <= n => states[m].from <= states[n].from
  /\ \A n \in DOMAIN states : states[n].from <= second
  /\ \A w \in logging : w.nth \in DOMAIN states /\ Fits(w, states[w.nth])
  /\ \A v, w \in logging : v.nth = w.nth => v = w
  /\ \E f \in [DOMAIN log -> Nat] : Linked(f)

(* A map of 1..m to itself that never goes up and merges no two stays put. *)
LEMMA NeverUp ==
  ASSUME NEW m \in Nat, NEW f \in [1..m -> Nat],
         \A n \in 1..m : f[n] \in 1..m /\ f[n] <= n,
         \A k, n \in 1..m : f[k] = f[n] => k = n
  PROVE  \A n \in 1..m : f[n] = n
<1> DEFINE Moved == {n \in 1..m : f[n] # n}
<1>1. SUFFICES ASSUME Moved # {} PROVE FALSE
  OBVIOUS
<1>2. PICK n \in Moved : \A k \in Moved : n <= k
  <2>1. Moved \in SUBSET Nat
    OBVIOUS
  <2> HIDE DEF Moved
  <2>2. QED
    BY <1>1, <2>1, SmallestNat
<1>3. n \in 1..m /\ f[n] \in 1..m /\ f[n] <= n /\ f[n] # n
  OBVIOUS
<1>4. f[n] \notin Moved
  BY <1>2, <1>3
<1>5. f[f[n]] = f[n]
  BY <1>3, <1>4
<1>6. QED
  BY <1>3, <1>5

LEMMA ChronicleTells == ASSUME Chronicle PROVE TellsState
<1>1. SUFFICES ASSUME Apart, NEW t \in 1..second, NEW n \in LatestAt(t)
               PROVE  IF StateAt(t) = Gone THEN log[n].op = "delete" ELSE log[n].val = StateAt(t)
  BY DEF TellsState
<1>2. PICK L \in Nat : /\ Len(states) = L /\ Len(log) = L
                       /\ DOMAIN states = 1..L /\ DOMAIN log = 1..L
  <2>1. Len(states) = Len(log) /\ Len(log) \in Nat
    BY <1>1 DEF Apart, Chronicle
  <2>2. DOMAIN states = 1..Len(states) /\ DOMAIN log = 1..Len(log)
    BY DEF Chronicle
  <2>3. QED
    BY <2>1, <2>2
<1>3. /\ \A k \in 1..L : states[k] \in State /\ states[k].from \in Nat /\ log[k].at = states[k].from
      /\ \A k, l \in 1..L : k < l => states[k].from < states[l].from
  <2>0. /\ states \in Seq(State) /\ log \in Seq(Entry)
        /\ \A k, l \in DOMAIN states : k <= l => states[k].from <= states[l].from
    BY DEF Chronicle
  <2>1. \A k \in 1..L : states[k] \in State /\ states[k].from \in Nat /\ log[k].at = states[k].from
    <3>1. \A k \in DOMAIN states : states[k] \in State
      BY <2>0
    <3>2. \A k \in DOMAIN log : log[k].at = states[k].from
      BY <1>1 DEF Apart
    <3>3. QED
      BY <1>2, <3>1, <3>2 DEF State
  <2>2. ASSUME NEW k \in 1..L, NEW l \in 1..L, k < l PROVE states[k].from < states[l].from
    <3>0. k \in DOMAIN states /\ l \in DOMAIN states /\ k <= l /\ k # l
      BY <1>2, <2>2
    <3>1. states[k].from <= states[l].from /\ states[k].from # states[l].from
      BY <1>1, <2>0, <3>0 DEF Apart
    <3>2. QED
      BY <2>1, <3>1
  <2>3. QED
    BY <2>1, <2>2
<1>4. Fits(log[n], states[n]) /\ n \in 1..L
  <2>1. PICK f \in [1..L -> Nat] : Linked(f)
    BY <1>2 DEF Chronicle
  <2>2. \A k \in 1..L : /\ f[k] \in 1..L /\ states[f[k]].from <= states[k].from
                        /\ Fits(log[k], states[f[k]])
    BY <1>2, <1>3, <2>1 DEF Linked
  <2>3. ASSUME NEW k \in 1..L PROVE f[k] <= k
    <3>1. ~(states[k].from < states[f[k]].from)
      BY <1>3, <2>2
    <3>2. ~(k < f[k])
      BY <1>3, <2>2, <3>1
    <3>3. QED
      BY <2>2, <3>2
  <2>4. \A k, l \in 1..L : f[k] = f[l] => k = l
    BY <1>2, <2>1 DEF Linked
  <2>5. \A k \in 1..L : f[k] = k
    BY <2>2, <2>3, <2>4, NeverUp
  <2>6. n \in 1..L
    BY <1>2 DEF LatestAt, UpTo
  <2>7. QED
    BY <2>2, <2>5, <2>6
<1>5. {k \in DOMAIN states : states[k].from <= t} = 1..n
  <2>1. states[n].from <= t
    BY <1>1, <1>2, <1>3, <1>4 DEF LatestAt, UpTo
  <2>2. ASSUME NEW k \in 1..L, states[k].from <= t PROVE k <= n
    <3>1. log[k].at <= log[n].at
      BY <1>1, <1>2, <1>3, <2>2 DEF LatestAt, UpTo
    <3>2. QED
      BY <1>3, <1>4, <3>1
  <2>3. ASSUME NEW k \in 1..n PROVE k \in 1..L /\ states[k].from <= t
    <3>1. k \in 1..L /\ (k = n \/ k < n)
      BY <1>4
    <3>2. t \in Nat
      BY DEF Chronicle
    <3>3. QED
      BY <1>3, <1>4, <2>1, <3>1, <3>2
  <2>4. QED
    BY <1>2, <1>4, <2>2, <2>3
<1>6. StateAt(t) = states[n].val
  <2>1. Cardinality(1..n) = n
    BY <1>4, FS_Interval
  <2>2. QED
    BY <1>5, <2>1 DEF StateAt
<1>7. QED
  BY <1>4, <1>6 DEF Fits

(* A step that adds a state, and owes at most a row of it. *)
LEMMA StateAdded ==
  ASSUME Chronicle, NEW s \in State, s.from = second, states' = Append(states, s),
         log' = log, second' = second, live' \in Nat \cup {Gone}, deleting' \subseteq Nat,
         NEW D \in SUBSET Debt, logging' = logging \cup D,
         \A w \in D : w.nth = Len(states) + 1 /\ Fits(w, s), \A v, w \in D : v = w
  PROVE  Chronicle'
<1>1. PICK L \in Nat : Len(states) = L /\ DOMAIN states = 1..L
  BY DEF Chronicle
<1>2. /\ states \in Seq(State) /\ log \in Seq(Entry) /\ logging \subseteq Debt /\ second \in Nat
      /\ \A m, n \in DOMAIN states : m <= n => states[m].from <= states[n].from
      /\ \A n \in DOMAIN states : states[n].from <= second
      /\ \A w \in logging : w.nth \in DOMAIN states /\ Fits(w, states[w.nth])
      /\ \A v, w \in logging : v.nth = w.nth => v = w
  BY DEF Chronicle
<1>3. /\ states' \in Seq(State) /\ DOMAIN states' = 1..(L + 1) /\ states'[L + 1] = s
      /\ \A n \in 1..L : states'[n] = states[n]
  BY <1>1, <1>2
<1>4. PICK f \in [DOMAIN log -> Nat] : Linked(f)
  BY DEF Chronicle
<1>5. \A m, n \in DOMAIN states' : m <= n => states'[m].from <= states'[n].from
  <2>1. ASSUME NEW m \in 1..(L + 1), NEW n \in 1..(L + 1), m <= n
        PROVE  states'[m].from <= states'[n].from
    <3>1. CASE n \in 1..L
      <4>1. m \in 1..L
        BY <1>1, <2>1, <3>1
      <4>2. QED
        BY <1>1, <1>2, <1>3, <2>1, <3>1, <4>1
    <3>2. CASE n = L + 1 /\ m \in 1..L
      BY <1>1, <1>2, <1>3, <3>2
    <3>3. CASE n = L + 1 /\ m = L + 1
      BY <1>2, <1>3, <3>3
    <3>4. QED
      BY <1>1, <2>1, <3>1, <3>2, <3>3
  <2>2. QED
    BY <1>3, <2>1
<1>6. \A n \in DOMAIN states' : states'[n].from <= second'
  BY <1>1, <1>2, <1>3
<1>7. \A w \in logging' : w.nth \in DOMAIN states' /\ Fits(w, states'[w.nth])
  BY <1>1, <1>2, <1>3
<1>8. \A v, w \in logging' : v.nth = w.nth => v = w
  <2>1. \A v \in logging, w \in D : v.nth # w.nth
    BY <1>1, <1>2
  <2>2. QED
    BY <1>2, <2>1
<1>9. Linked(f)'
  BY <1>1, <1>3, <1>4 DEF Linked
<1>10. QED
  BY <1>2, <1>3, <1>4, <1>5, <1>6, <1>7, <1>8, <1>9 DEF Chronicle

LEMMA RowLogged ==
  ASSUME Chronicle, NEW w \in logging, LogIt(w)
  PROVE  Chronicle'
<1>1. PICK L \in Nat : Len(log) = L /\ DOMAIN log = 1..L
  BY DEF Chronicle
<1>2. PICK f \in [DOMAIN log -> Nat] : Linked(f)
  BY DEF Chronicle
<1>3. PICK e : e = [op |-> w.op, val |-> w.val, at |-> second]
  OBVIOUS
<1>4. /\ w \in Debt /\ w.nth \in DOMAIN states /\ Fits(w, states[w.nth]) /\ w.nth \in Nat
      /\ states[w.nth].from <= second
      /\ \A v \in logging : v.nth = w.nth => v = w
  BY DEF Chronicle, Debt
<1>5. e \in Entry /\ e.at = second /\ Fits(e, states[w.nth])
  <2>1. second \in Nat
    BY DEF Chronicle
  <2>2. QED
    BY <1>3, <1>4, <2>1 DEF Entry, Debt, Fits
<1>6. log' = Append(log, e) /\ log \in Seq(Entry) /\ logging' = logging \ {w}
  BY <1>3 DEF LogIt, Chronicle
<1>7. /\ log' \in Seq(Entry) /\ DOMAIN log' = 1..(L + 1) /\ log'[L + 1] = e
      /\ \A n \in 1..L : log'[n] = log[n]
  BY <1>1, <1>5, <1>6
<1>8. PICK g : g = [n \in 1..(L + 1) |-> IF n = L + 1 THEN w.nth ELSE f[n]]
  OBVIOUS
<1>9. /\ g \in [1..(L + 1) -> Nat] /\ g[L + 1] = w.nth
      /\ \A n \in 1..L : g[n] = f[n]
  BY <1>1, <1>4, <1>8
<1>10. \A m, n \in 1..(L + 1) : g[m] = g[n] => m = n
  <2>1. \A n \in 1..L : f[n] # w.nth
    BY <1>1, <1>2 DEF Linked
  <2>2. \A m, n \in 1..L : f[m] = f[n] => m = n
    BY <1>1, <1>2 DEF Linked
  <2>3. \A n \in 1..(L + 1) : n \in 1..L \/ n = L + 1
    OBVIOUS
  <2>4. QED
    BY <1>9, <2>1, <2>2, <2>3
<1>11. ASSUME NEW n \in 1..(L + 1)
       PROVE  /\ g[n] \in DOMAIN states /\ Fits(log'[n], states[g[n]])
              /\ states[g[n]].from <= log'[n].at
              /\ \A v \in logging' : v.nth # g[n]
  <2>1. CASE n \in 1..L
    BY <1>1, <1>2, <1>6, <1>7, <1>9, <2>1 DEF Linked
  <2>2. CASE n = L + 1
    BY <1>4, <1>5, <1>6, <1>7, <1>9, <2>2
  <2>3. QED
    BY <2>1, <2>2
<1>12. Linked(g)'
  BY <1>7, <1>10, <1>11 DEF Linked, LogIt
<1>13. \E h \in [DOMAIN log' -> Nat] : Linked(h)'
  BY <1>7, <1>9, <1>12
<1>14. /\ live' \in Nat \cup {Gone} /\ second' \in Nat /\ deleting' \subseteq Nat
       /\ states' \in Seq(State) /\ logging' \subseteq Debt
       /\ \A m, n \in DOMAIN states' : m <= n => states'[m].from <= states'[n].from
       /\ \A n \in DOMAIN states' : states'[n].from <= second'
       /\ \A v \in logging' : v.nth \in DOMAIN states' /\ Fits(v, states'[v.nth])
       /\ \A u, v \in logging' : u.nth = v.nth => u = v
  BY <1>6 DEF LogIt, Chronicle
<1>15. QED
  BY <1>7, <1>13, <1>14 DEF Chronicle

LEMMA ChronicleStep ==
  ASSUME Absent, Chronicle, [HistNext]_histVars
  PROVE  Chronicle'
<1>1. /\ live \in Nat \cup {Gone} /\ second \in Nat /\ deleting \subseteq Nat
      /\ states \in Seq(State) /\ log \in Seq(Entry) /\ logging \subseteq Debt
      /\ Len(states) \in Nat
  BY DEF Chronicle
<1>2. ASSUME NEW val \in Nat, Put(val), UNCHANGED <<log, deleting, second>> PROVE Chronicle'
  <2>1. PICK s : s = [val |-> val, from |-> second]
    OBVIOUS
  <2>2. PICK w : w = Owed(IF live = Gone THEN "create" ELSE "update", val)
    OBVIOUS
  <2>3. s \in State /\ s.from = second /\ s.val = val
    BY <1>1, <2>1 DEF State
  <2>4. w \in Debt /\ w.nth = Len(states) + 1 /\ w.op # "delete" /\ w.val = val
    BY <1>1, <2>2 DEF Debt, Owed
  <2>5. Fits(w, s)
    BY <2>3, <2>4 DEF Fits, Absent
  <2>6. states' = Append(states, s) /\ logging' = logging \cup {w} /\ live' = val
    BY <1>2, <2>1, <2>2 DEF Put, Becomes
  <2>7. {w} \in SUBSET Debt /\ deleting' \subseteq Nat /\ live' \in Nat \cup {Gone}
    BY <1>1, <1>2, <2>4, <2>6
  <2>8. QED
    BY <1>2, <2>3, <2>4, <2>5, <2>6, <2>7, StateAdded
<1>3. CASE Save
  <2>1. Len(states) + 1 \in Nat
    BY <1>1
  <2>2. QED
    BY <1>2, <1>3, <2>1 DEF Save
<1>4. ASSUME NEW t \in 1..second, Restore(t) PROVE Chronicle'
  <2>1. PICK n \in LatestAt(t) : Put(log[n].val)
    BY <1>4 DEF Restore
  <2>2. log[n] \in Entry
    BY <1>1 DEF LatestAt, UpTo
  <2>3. log[n].val \in Nat
    BY <2>2 DEF Entry
  <2>4. QED
    BY <1>2, <1>4, <2>1, <2>3 DEF Restore
<1>5. ASSUME NEW val \in deleting, EndDelete(val) PROVE Chronicle'
  <2>1. PICK s : s = [val |-> Gone, from |-> second]
    OBVIOUS
  <2>2. PICK w : w = Owed("delete", val)
    OBVIOUS
  <2>3. s \in State /\ s.from = second /\ s.val = Gone
    BY <1>1, <2>1 DEF State
  <2>4. w \in Debt /\ w.nth = Len(states) + 1 /\ w.op = "delete"
    BY <1>1, <2>2 DEF Debt, Owed
  <2>5. Fits(w, s)
    BY <2>3, <2>4 DEF Fits
  <2>6. /\ states' = Append(states, s) /\ logging' = logging \cup {w} /\ live' = Gone
        /\ log' = log /\ second' = second /\ deleting' \subseteq Nat
    BY <1>1, <1>5, <2>1, <2>2 DEF EndDelete, Becomes
  <2>7. {w} \in SUBSET Debt /\ live' \in Nat \cup {Gone}
    BY <2>4, <2>6
  <2>8. QED
    BY <2>3, <2>4, <2>5, <2>6, <2>7, StateAdded
<1>6. CASE SetNull
  <2>1. PICK s : s = [val |-> Len(states) + 1, from |-> second]
    OBVIOUS
  <2>2. s \in State /\ s.from = second
    BY <1>1, <2>1 DEF State
  <2>3. /\ states' = Append(states, s) /\ logging' = logging \cup {} /\ live' \in Nat \cup {Gone}
        /\ log' = log /\ second' = second /\ deleting' \subseteq Nat
    BY <1>1, <1>6, <2>1 DEF SetNull, Becomes
  <2>4. {} \in SUBSET Debt
    OBVIOUS
  <2>5. QED
    BY <2>2, <2>3, <2>4, StateAdded
<1>7. CASE StartDelete
  BY <1>1, <1>7 DEF StartDelete, Chronicle, Linked
<1>8. CASE LoseRows
  BY <1>8 DEF LoseRows, Chronicle, Linked
<1>9. CASE NextSecond
  <2>1. \A n \in DOMAIN states : states[n] \in State
    BY <1>1
  <2>2. \A n \in DOMAIN states : states[n].from <= second + 1
    <3>1. \A n \in DOMAIN states : states[n].from <= second /\ states[n].from \in Nat
      BY <2>1 DEF Chronicle, State
    <3>2. QED
      BY <1>1, <3>1
  <2>3. PICK f \in [DOMAIN log -> Nat] : Linked(f)
    BY DEF Chronicle
  <2>4. Linked(f)' /\ UNCHANGED <<live, states, log, logging, deleting>> /\ second' = second + 1
    BY <1>9, <2>3 DEF NextSecond, Linked
  <2>5. QED
    BY <1>1, <2>2, <2>4 DEF Chronicle
<1>10. CASE UNCHANGED histVars
  <2>1. UNCHANGED <<live, states, log, logging, deleting, second>>
    BY <1>10 DEF histVars
  <2>2. PICK f \in [DOMAIN log -> Nat] : Linked(f)
    BY DEF Chronicle
  <2>3. Linked(f)'
    BY <2>1, <2>2 DEF Linked
  <2>4. QED
    BY <2>1, <2>3 DEF Chronicle
<1>11. QED
  BY <1>3, <1>4, <1>5, <1>6, <1>7, <1>8, <1>9, <1>10, RowLogged DEF HistNext

(* When the writes of a record fell in different seconds and each got its  *)
(* row at once (record-history.ts), the row in force at a time tells the   *)
(* state of that time, for any number of writes, restores, deletes and     *)
(* lost rows.                                                              *)
THEOREM HistoryTells == ASSUME Absent PROVE HistSpec => []TellsState
<1>1. HistInit => Chronicle
  <2>1. ASSUME HistInit PROVE Chronicle
    <3>1. [n \in {} |-> 0] \in [DOMAIN log -> Nat] /\ Linked([n \in {} |-> 0])
      BY <2>1 DEF HistInit, Linked
    <3>2. states \in Seq(State) /\ log \in Seq(Entry) /\ DOMAIN states = {} /\ logging = {}
      BY <2>1 DEF HistInit
    <3>3. live \in Nat \cup {Gone} /\ second \in Nat /\ deleting \subseteq Nat
      BY <2>1 DEF HistInit
    <3>4. \E f \in [DOMAIN log -> Nat] : Linked(f)
      BY <3>1
    <3>5. QED
      BY <3>2, <3>3, <3>4 DEF Chronicle
  <2>2. QED
    BY <2>1
<1>2. Chronicle => TellsState
  BY ChronicleTells
<1>3. QED
  BY <1>1, <1>2, ChronicleStep, PTL DEF HistSpec
=============================================================================
