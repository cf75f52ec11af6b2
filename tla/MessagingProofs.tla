--------------------------- MODULE MessagingProofs ---------------------------
(***************************************************************************)
(* What every van relies on: the ids of nodes and groups, the queue that   *)
(* two threads share, and the resender.                                    *)
(***************************************************************************)
EXTENDS NodeIds, ThreadsafeQueue, Resender, TLAPS

-----------------------------------------------------------------------------
(***************************************************************************)
(* The arithmetic of node ids, for every rank, group size and port: ids of *)
(* nodes and ids of groups never meet, and each conversion has an inverse. *)
(***************************************************************************)

Roles == {"server", "worker"}

(* n = q * d + r determines q and r: what the provers need of \div and %.  *)
LEMMA DivMod ==
    ASSUME NEW n \in Nat, NEW d \in Nat \ {0}
    PROVE  /\ n \div d \in Nat /\ n % d \in 0 .. d - 1
           /\ n = (n \div d) * d + (n % d)
<1>1. n \div d \in Nat
  BY SMT
<1>2. n % d \in 0 .. d - 1
  BY SMT
<1>3. n = d * (n \div d) + (n % d)
  BY SMT
<1>4. d * (n \div d) = (n \div d) * d
  BY <1>1, SMT
<1> QED
  BY <1>1, <1>2, <1>3, <1>4

(* A remainder below d does not change the quotient.                       *)
LEMMA DivUnique ==
    ASSUME NEW q \in Nat, NEW d \in Nat \ {0}, NEW r \in 0 .. d - 1
    PROVE  (q * d + r) \div d = q
<1> DEFINE n == q * d + r
<1>1. q * d \in Nat
  BY SMT
<1>2. n \in Nat
  BY <1>1
<1>3. /\ n \div d \in Nat /\ n % d \in 0 .. d - 1
      /\ n = (n \div d) * d + (n % d)
  BY <1>2, DivMod, Zenon
<1> DEFINE a == n \div d
<1> HIDE DEF a
<1>4. CASE a >= q + 1
  <2>1. a * d >= (q + 1) * d
    BY <1>3, <1>4, SMT DEF a
  <2>2. (q + 1) * d = q * d + d
    BY SMT
  <2> QED
    BY <1>1, <1>3, <2>1, <2>2, SMT DEF a
<1>5. CASE a + 1 <= q
  <2>1. (a + 1) * d <= q * d
    BY <1>3, <1>5, SMT DEF a
  <2>2. (a + 1) * d = a * d + d
    BY <1>3, SMT DEF a
  <2> QED
    BY <1>1, <1>3, <2>1, <2>2, SMT DEF a
<1> QED
  BY <1>3, <1>4, <1>5, SMT DEF a

-----------------------------------------------------------------------------
(***************************************************************************)
(* IDtoRank undoes RankToID, GetRoleFromId finds the role again, and the   *)
(* id is none of a group (below 8): postoffice.h.                          *)
(***************************************************************************)
THEOREM RankRoundTrip ==
    ASSUME NEW role \in Roles, NEW rank \in Nat
    PROVE  /\ IDtoRank(RankToID(role, rank)) = rank
           /\ GetRoleFromId(RankToID(role, rank)) = role
           /\ RankToID(role, rank) >= 8
<1>1. CASE role = "server"
  BY <1>1, SMT DEF RankToID, ServerRankToID, IDtoRank, GetRoleFromId
<1>2. CASE role = "worker"
  BY <1>2, SMT DEF RankToID, WorkerRankToID, IDtoRank, GetRoleFromId
<1> QED
  BY <1>1, <1>2 DEF Roles

(***************************************************************************)
(* No two nodes share an id: two ids are equal only for one role and one   *)
(* rank, and the scheduler's is none of them.                              *)
(***************************************************************************)
THEOREM IdsUnique ==
    ASSUME NEW role1 \in Roles, NEW role2 \in Roles, NEW rank1 \in Nat, NEW rank2 \in Nat,
           RankToID(role1, rank1) = RankToID(role2, rank2)
    PROVE  role1 = role2 /\ rank1 = rank2 /\ RankToID(role1, rank1) # kScheduler
<1>1. rank1 = rank2 /\ role1 = role2
  BY RankRoundTrip, Zenon
<1>2. RankToID(role1, rank1) >= 8
  BY RankRoundTrip
<1> QED
  BY <1>1, <1>2 DEF kScheduler

(***************************************************************************)
(* The instances of a group are found by its rank again, and two instances *)
(* have one id only if they are one: GroupRankToInstanceID and             *)
(* InstanceIDtoGroupRank, for every DMLC_GROUP_SIZE.                       *)
(***************************************************************************)
THEOREM GroupRoundTrip ==
    ASSUME NEW role \in Roles, NEW rank \in Nat, NEW group_size \in Nat \ {0},
           NEW idx \in 0 .. group_size - 1
    PROVE  InstanceIDtoGroupRank(GroupRankToInstanceID(role, rank, idx, group_size), group_size)
               = rank
<1>1. rank * group_size + idx \in Nat
  BY SMT
<1>2. IDtoRank(GroupRankToInstanceID(role, rank, idx, group_size)) = rank * group_size + idx
  BY <1>1, RankRoundTrip DEF GroupRankToInstanceID
<1> QED
  BY <1>2, DivUnique DEF InstanceIDtoGroupRank

(* Two instances have one id only if they are one, for every group size:   *)
(* GroupRankToInstanceID.                                                  *)
THEOREM InstancesUnique ==
    ASSUME NEW role1 \in Roles, NEW role2 \in Roles, NEW rank1 \in Nat, NEW rank2 \in Nat,
           NEW group_size \in Nat \ {0},
           NEW idx1 \in 0 .. group_size - 1, NEW idx2 \in 0 .. group_size - 1,
           GroupRankToInstanceID(role1, rank1, idx1, group_size)
               = GroupRankToInstanceID(role2, rank2, idx2, group_size)
    PROVE  role1 = role2 /\ rank1 = rank2 /\ idx1 = idx2
<1>1. rank1 * group_size + idx1 \in Nat /\ rank2 * group_size + idx2 \in Nat
  BY SMT
<1>2. role1 = role2 /\ rank1 * group_size + idx1 = rank2 * group_size + idx2
  BY <1>1, IdsUnique DEF GroupRankToInstanceID
<1> DEFINE id(role, rank, idx) == GroupRankToInstanceID(role, rank, idx, group_size)
<1>3. rank1 = rank2
  <2>1. /\ InstanceIDtoGroupRank(id(role1, rank1, idx1), group_size) = rank1
        /\ InstanceIDtoGroupRank(id(role2, rank2, idx2), group_size) = rank2
    BY GroupRoundTrip
  <2> QED
    BY <2>1
<1> QED
  BY <1>2, <1>3, SMT

-----------------------------------------------------------------------------
(***************************************************************************)
(* DecodeManagedID finds the node of an id that a van of MultiVan carries, *)
(* for every port, as long as the id is below MAX_NUM_IDS.                 *)
(***************************************************************************)
THEOREM ManagedRoundTrip ==
    ASSUME NEW id \in 0 .. MAX_NUM_IDS - 1, NEW index \in Nat
    PROVE  DecodeManagedID(EncodeManagedID(id, index)) = id
  BY SMT DEF DecodeManagedID, EncodeManagedID, MAX_NUM_IDS, ID_OFFSET, kEmpty

-----------------------------------------------------------------------------
(***************************************************************************)
(* For every capacity and every set of values: the ring used by one        *)
(* producer and one consumer is a first-in first-out queue, and no two     *)
(* threads ever meet in a slot.                                            *)
(***************************************************************************)

(***************************************************************************)
(* How the ring may be used: by one thread at each end.                    *)
(***************************************************************************)
OneThreadPerEnd ==
    /\ \E p : Producers = {p}
    /\ \E c : Consumers = {c}

(***************************************************************************)
(* The inductive invariant.  A register holds the index it was loaded      *)
(* from; past the full check the slot after tail_ is free, past the empty  *)
(* check the ring is not empty, and neither end can undo the other's       *)
(* check.                                                                  *)
(***************************************************************************)
ProducerInv ==
    \A p \in Producers :
        /\ ppc[p] # "idle" => ptail[p] = tail /\ pval[p] \in Value
        /\ ppc[p] \in {"write", "publish"} => Succ(tail) # head
        /\ ppc[p] = "publish" => buffer[tail] = pval[p]

ConsumerInv ==
    \A c \in Consumers :
        /\ cpc[c] # "idle" => chead[c] = head
        /\ cpc[c] \in {"read", "store"} => head # tail
        /\ cpc[c] = "store" => cval[c] = buffer[head]

QueueInv == QueueTypeOK /\ ProducerInv /\ ConsumerInv

(***************************************************************************)
(* The step to the next slot stays in the ring and wraps at its end.       *)
(***************************************************************************)
LEMMA SuccWraps ==
    ASSUME NEW i \in Index
    PROVE  /\ Succ(i) \in Index
           /\ i + 1 < Capacity => Succ(i) = i + 1
           /\ i + 1 = Capacity => Succ(i) = 0
  <1>1. i + 1 < Capacity => (i + 1) % Capacity = i + 1
    BY QueueAssumption DEF Index
  <1>2. i + 1 = Capacity => (i + 1) % Capacity = 0
    BY QueueAssumption DEF Index
  <1>3. i + 1 < Capacity \/ i + 1 = Capacity
    BY QueueAssumption DEF Index
  <1> QED BY <1>1, <1>2, <1>3, QueueAssumption DEF Succ, Index

(***************************************************************************)
(* Every reachable state satisfies the inductive invariant.                *)
(***************************************************************************)
LEMMA QueueInitInv == QueueInit => QueueInv
  BY QueueAssumption DEF QueueInit, QueueInv, QueueTypeOK, ProducerInv, ConsumerInv, Index,
     Element

(***************************************************************************)
(* Every step of Push and WaitAndPop keeps the invariant.                  *)
(***************************************************************************)
LEMMA QueueNextInv ==
    ASSUME OneThreadPerEnd, QueueInv, [QueueNext]_queueVars
    PROVE  QueueInv'
  <1> USE DEF QueueInv, QueueTypeOK, Element
  <1>1. ASSUME NEW p \in Producers, NEW v \in Value, LoadTail(p, v)
        PROVE  QueueInv'
    BY <1>1, QueueAssumption
       DEF LoadTail, ring, consumer, ProducerInv, ConsumerInv, OneThreadPerEnd
  <1>2. ASSUME NEW p \in Producers, CheckFull(p)
        PROVE  QueueInv'
    BY <1>2, QueueAssumption
       DEF CheckFull, ring, consumer, ProducerInv, ConsumerInv, OneThreadPerEnd
  <1>3. ASSUME NEW p \in Producers, WriteSlot(p)
        PROVE  QueueInv'
    <2>1. Producers = {p} /\ ptail[p] = tail /\ pval[p] \in Value
      BY <1>3 DEF WriteSlot, ProducerInv, OneThreadPerEnd
    <2>2. QueueTypeOK'
      BY <1>3, <2>1 DEF WriteSlot, consumer
    <2>3. ProducerInv'
      BY <1>3, <2>1 DEF WriteSlot, consumer, ProducerInv
    <2>4. ConsumerInv'
      BY <1>3, <2>1 DEF WriteSlot, consumer, ConsumerInv
    <2> QED BY <2>2, <2>3, <2>4
  <1>4. ASSUME NEW p \in Producers, StoreTail(p)
        PROVE  QueueInv'
    <2>1. /\ Producers = {p}
          /\ ptail[p] = tail
          /\ Succ(tail) # head
          /\ Succ(tail) \in Index
      BY <1>4, SuccWraps DEF StoreTail, ProducerInv, OneThreadPerEnd
    <2>2. QueueTypeOK'
      BY <1>4, <2>1 DEF StoreTail, consumer
    <2>3. ProducerInv'
      BY <1>4, <2>1 DEF StoreTail, consumer, ProducerInv
    <2>4. ConsumerInv'
      BY <1>4, <2>1 DEF StoreTail, consumer, ConsumerInv
    <2> QED BY <2>2, <2>3, <2>4
  <1>5. ASSUME NEW c \in Consumers, LoadHead(c) \/ ReloadHead(c)
        PROVE  QueueInv'
    BY <1>5 DEF LoadHead, ReloadHead, ring, producer, ProducerInv, ConsumerInv
  <1>6. ASSUME NEW c \in Consumers, CheckEmpty(c)
        PROVE  QueueInv'
    BY <1>6 DEF CheckEmpty, ring, producer, ProducerInv, ConsumerInv
  <1>7. ASSUME NEW c \in Consumers, ReadSlot(c)
        PROVE  QueueInv'
    BY <1>7 DEF ReadSlot, ring, producer, ProducerInv, ConsumerInv
  <1>8. ASSUME NEW c \in Consumers, StoreHead(c)
        PROVE  QueueInv'
    <2>1. /\ Consumers = {c}
          /\ chead[c] = head
          /\ head # tail
          /\ Succ(head) \in Index
      BY <1>8, SuccWraps DEF StoreHead, ConsumerInv, OneThreadPerEnd
    <2>2. Succ(tail) # Succ(head)
      BY <2>1, SuccWraps, QueueAssumption DEF Index
    <2>3. QueueTypeOK'
      BY <1>8, <2>1 DEF StoreHead, producer
    <2>4. ProducerInv'
      BY <1>8, <2>1, <2>2 DEF StoreHead, producer, ProducerInv
    <2>5. ConsumerInv'
      BY <1>8, <2>1 DEF StoreHead, producer, ConsumerInv
    <2> QED BY <2>3, <2>4, <2>5
  <1>9. CASE UNCHANGED queueVars
    BY <1>9 DEF queueVars, ProducerInv, ConsumerInv
  <1> QED
    BY <1>1, <1>2, <1>3, <1>4, <1>5, <1>6, <1>7, <1>8, <1>9
       DEF QueueNext, PushStep, PopStep

(***************************************************************************)
(* The ring holds a sequence of elements.                                  *)
(***************************************************************************)
LEMMA ContentsIsSequence ==
    ASSUME QueueTypeOK
    PROVE  /\ Contents \in Seq(Element)
           /\ Len(Contents) = Size
           /\ Size \in 0 .. (Capacity - 1)
           /\ \A i \in 1 .. Size : Slot(i) \in Index
  <1>1. Size \in 0 .. (Capacity - 1)
    BY QueueAssumption DEF QueueTypeOK, Size, Index
  <1>2. \A i \in 1 .. Size : Slot(i) \in Index
    BY QueueAssumption DEF QueueTypeOK, Size, Slot, Index
  <1>3. Contents = [i \in 1 .. Size |-> buffer[Slot(i)]]
    BY DEF Contents
  <1>4. \A i \in 1 .. Size : buffer[Slot(i)] \in Element
    BY <1>2 DEF QueueTypeOK
  <1> QED BY <1>1, <1>2, <1>3, <1>4

(***************************************************************************)
(* A sequence is the function of its elements.                             *)
(***************************************************************************)
LEMMA SequenceIsFunction ==
    ASSUME NEW S, NEW s \in Seq(S)
    PROVE  s = [i \in DOMAIN s |-> s[i]]
  OBVIOUS

(***************************************************************************)
(* Publishing tail_ appends the pushed element.                            *)
(***************************************************************************)
LEMMA StoreTailAppends ==
    ASSUME QueueInv, QueueInv', OneThreadPerEnd, NEW p \in Producers, StoreTail(p)
    PROVE  Contents' = Append(Contents, pval[p])
  <1>1. /\ tail' = Succ(tail)
        /\ head' = head
        /\ buffer' = buffer
        /\ Succ(tail) # head
        /\ buffer[tail] = pval[p]
        /\ pval[p] \in Element
    BY DEF StoreTail, QueueInv, ProducerInv, Element
  <1>2. Size' = Size + 1
    <2>1. /\ head \in 0 .. (Capacity - 1)
          /\ tail \in 0 .. (Capacity - 1)
          /\ tail + 1 < Capacity => Succ(tail) = tail + 1
          /\ tail + 1 = Capacity => Succ(tail) = 0
      BY SuccWraps DEF QueueInv, QueueTypeOK, Index
    <2> QED BY <1>1, <2>1, QueueAssumption DEF Size
  <1>3. \A i \in 1 .. Size : Slot(i)' = Slot(i)
    BY <1>1 DEF Slot
  <1>4. \A i \in 1 .. (Size + 1) : i = Size + 1 => Slot(i)' = tail
    <2>1. head \in 0 .. (Capacity - 1) /\ tail \in 0 .. (Capacity - 1)
      BY DEF QueueInv, QueueTypeOK, Index
    <2> QED BY <1>1, <2>1, QueueAssumption DEF Size, Slot
  <1>5. Contents' = [i \in 1 .. (Size + 1) |-> buffer[Slot(i)']]
    BY <1>1, <1>2 DEF Contents
  <1>6. /\ Contents \in Seq(Element) /\ Len(Contents) = Size
        /\ Size \in Nat
        /\ Contents = [i \in 1 .. Size |-> buffer[Slot(i)]]
    BY <1>1, ContentsIsSequence DEF QueueInv, Contents
  <1>7. DOMAIN Append(Contents, pval[p]) = 1 .. (Size + 1)
    BY <1>1, <1>6
  <1>8. ASSUME NEW i \in 1 .. (Size + 1)
        PROVE  Append(Contents, pval[p])[i] = buffer[Slot(i)']
    <2>1. CASE i = Size + 1
      BY <1>1, <1>4, <1>6, <2>1
    <2>2. CASE i # Size + 1
      <3>1. i \in 1 .. Size
        BY <1>6, <2>2
      <3>2. Append(Contents, pval[p])[i] = Contents[i]
        BY <1>1, <1>6, <3>1
      <3> QED BY <1>3, <1>6, <3>1, <3>2
    <2> QED BY <2>1, <2>2, Zenon
  <1>9. Append(Contents, pval[p]) \in Seq(Element)
    BY <1>1, <1>6
  <1>10. Append(Contents, pval[p])
            = [i \in 1 .. (Size + 1) |-> Append(Contents, pval[p])[i]]
    BY <1>7, <1>9, SequenceIsFunction, Zenon
  <1> QED BY <1>5, <1>8, <1>10, Zenon

(***************************************************************************)
(* Storing head_ removes the oldest element, the one WaitAndPop returns.   *)
(***************************************************************************)
LEMMA StoreHeadPops ==
    ASSUME QueueInv, QueueInv', OneThreadPerEnd, NEW c \in Consumers, StoreHead(c)
    PROVE  /\ Contents # << >>
           /\ Head(Contents) = cval[c]
           /\ Contents' = Tail(Contents)
  <1>1. /\ head' = Succ(head)
        /\ tail' = tail
        /\ buffer' = buffer
        /\ head # tail
        /\ cval[c] = buffer[head]
    BY DEF StoreHead, QueueInv, ConsumerInv
  <1> DEFINE Bounds == /\ head \in 0 .. (Capacity - 1)
                       /\ tail \in 0 .. (Capacity - 1)
                       /\ head + 1 < Capacity => Succ(head) = head + 1
                       /\ head + 1 = Capacity => Succ(head) = 0
  <1>0. Bounds
    BY SuccWraps DEF QueueInv, QueueTypeOK, Index
  <1>2. Size' = Size - 1 /\ Size \in Nat \ {0}
    BY <1>0, <1>1, QueueAssumption DEF Size
  <1>3. \A i \in 1 .. (Size - 1) : Slot(i)' = Slot(i + 1)
    BY <1>0, <1>1, QueueAssumption DEF Size, Slot
  <1>4. Slot(1) = head
    BY QueueAssumption DEF QueueInv, QueueTypeOK, Slot, Index
  <1>5. Contents' = [i \in 1 .. (Size - 1) |-> buffer[Slot(i)']]
    BY <1>1, <1>2 DEF Contents
  <1>6. /\ Contents \in Seq(Element) /\ Len(Contents) = Size
        /\ Contents = [i \in 1 .. Size |-> buffer[Slot(i)]]
    BY <1>1, ContentsIsSequence DEF QueueInv, Contents
  <1> QED BY <1>1, <1>2, <1>3, <1>4, <1>5, <1>6

(***************************************************************************)
(* The slot PushAtomic writes is not one of the slots in use.              *)
(***************************************************************************)
LEMMA WriteSlotKeeps ==
    ASSUME QueueInv, OneThreadPerEnd, NEW p \in Producers, WriteSlot(p)
    PROVE  Contents' = Contents
  <1>1. /\ head' = head /\ tail' = tail
        /\ buffer' = [buffer EXCEPT ![tail] = pval[p]]
    BY Zenon DEF WriteSlot, QueueInv, ProducerInv
  <1>2. Size' = Size /\ \A i \in 1 .. Size : Slot(i)' = Slot(i)
    BY <1>1 DEF Size, Slot
  <1>3. \A i \in 1 .. Size : Slot(i) # tail /\ Slot(i) \in Index
    BY QueueAssumption DEF QueueInv, QueueTypeOK, Size, Slot, Index
  <1>4. \A i \in 1 .. Size : buffer'[Slot(i)] = buffer[Slot(i)]
    BY <1>1, <1>3 DEF QueueInv, QueueTypeOK
  <1> QED BY <1>1, <1>2, <1>4 DEF Contents

(***************************************************************************)
(* QueueTypeOK holds in every reachable state of the code's queue.         *)
(***************************************************************************)
THEOREM QueueTypeCorrect == ASSUME OneThreadPerEnd PROVE QueueSpec => []QueueTypeOK
  <1>1. QueueInv /\ [QueueNext]_queueVars => QueueInv'
    BY QueueNextInv
  <1>2. QueueInv => QueueTypeOK
    BY DEF QueueInv
  <1> QED BY <1>1, <1>2, QueueInitInv, PTL DEF QueueSpec

(***************************************************************************)
(* With one thread at each end no slot is ever written by one thread while *)
(* another thread writes it or moves the element out of it.                *)
(***************************************************************************)
THEOREM RaceFreedom == ASSUME OneThreadPerEnd PROVE QueueSpec => []NoSlotRace
  <1>1. QueueInv /\ [QueueNext]_queueVars => QueueInv'
    BY QueueNextInv
  <1>2. ASSUME QueueInv PROVE NoSlotRace
    BY <1>2 DEF QueueInv, ProducerInv, ConsumerInv, NoSlotRace, OneThreadPerEnd
  <1> QED BY <1>1, <1>2, QueueInitInv, PTL DEF QueueSpec

(***************************************************************************)
(* The ring implements the first-in first-out queue: StoreTail is its      *)
(* push, StoreHead its pop, and every other step leaves it as it is.       *)
(***************************************************************************)
THEOREM FifoRefinement == ASSUME OneThreadPerEnd PROVE QueueSpec => IsFifo
  <1>1. QueueInit => Abstract!Init
    <2> SUFFICES ASSUME QueueInit PROVE Contents = << >>
      BY DEF Abstract!Init, QueueInit
    <2> QED BY DEF QueueInit, Contents, Size
  <1>2. ASSUME QueueInv, [QueueNext]_queueVars
        PROVE  [Abstract!Next]_<<Contents, got>>
    <2> USE <1>2
    <2>0. QueueInv'
      BY QueueNextInv
    <2>1. ASSUME NEW p \in Producers, NEW v \in Value, LoadTail(p, v)
          PROVE  UNCHANGED <<Contents, got>>
      BY <2>1 DEF LoadTail, ring, consumer, Contents, Size, Slot
    <2>2. ASSUME NEW p \in Producers, CheckFull(p)
          PROVE  UNCHANGED <<Contents, got>>
      BY <2>2 DEF CheckFull, ring, consumer, Contents, Size, Slot
    <2>3. ASSUME NEW p \in Producers, WriteSlot(p)
          PROVE  UNCHANGED <<Contents, got>>
      BY <2>3, WriteSlotKeeps, Zenon DEF WriteSlot, consumer
    <2>4. ASSUME NEW p \in Producers, StoreTail(p)
          PROVE  Abstract!Next
      <3>1. pval[p] \in Value /\ got' = got
        BY <2>4 DEF StoreTail, consumer, QueueInv, ProducerInv
      <3> QED BY <2>0, <2>4, <3>1, StoreTailAppends
               DEF Abstract!Next, Abstract!Push
    <2>5. ASSUME NEW c \in Consumers,
                 LoadHead(c) \/ ReloadHead(c) \/ CheckEmpty(c) \/ ReadSlot(c)
          PROVE  UNCHANGED <<Contents, got>>
      BY <2>5, Zenon DEF LoadHead, ReloadHead, CheckEmpty, ReadSlot, ring, producer,
                  Contents, Size, Slot
    <2>6. ASSUME NEW c \in Consumers, StoreHead(c)
          PROVE  Abstract!Next
      <3>1. got' = [got EXCEPT ![c] = cval[c]]
        BY <2>6 DEF StoreHead
      <3> QED BY <2>0, <2>6, <3>1, StoreHeadPops, Zenon
               DEF Abstract!Next, Abstract!Pop
    <2>7. CASE UNCHANGED queueVars
      BY <2>7 DEF queueVars, Contents, Size, Slot
    <2> QED
      BY <2>1, <2>2, <2>3, <2>4, <2>5, <2>6, <2>7
         DEF QueueNext, PushStep, PopStep
  <1>3. QueueInv /\ [QueueNext]_queueVars => QueueInv'
    BY QueueNextInv
  <1> QED BY <1>1, <1>2, <1>3, QueueInitInv, PTL DEF QueueSpec, IsFifo, Abstract!Spec

-----------------------------------------------------------------------------
(***************************************************************************)
(* Proofs about Resender.  Safety rests on two facts: keys tell messages   *)
(* apart, which holds while ids and timestamps fit their fields of a key   *)
(* and a node has one customer, and the receivers' resenders exist before  *)
(* messages arrive.                                                        *)
(***************************************************************************)

(* Ids fit a uint8_t, no timestamp reaches the sign of an int, and the     *)
(* messages are of one customer.                                           *)
KeysFit ==
    /\ Node \subseteq 0 .. IdRange - 1
    /\ \A m \in Message : m.ts < HighTimestamp
    /\ \A m, x \in Message : m.customer = x.customer

(* No message is sent to a node whose resender may not exist yet.          *)
NoLateReceiver == \A m \in Message : m.recver \notin Late

(***************************************************************************)
(* What a message that is somewhere says about the history.                *)
(***************************************************************************)
History ==
    /\ \A m \in Message : wire[m] > 0 => m \in sent
    /\ \A m \in Message : processed[m] > 0 => m \in sent
    /\ \A m \in Message : acks[m] > 0 => processed[m] > 0
    /\ \A m \in Message : GetKey(m) \in acked[m.recver] => processed[m] > 0
    /\ send_buff \subseteq sent
    /\ resend \subseteq sent
    /\ adding \subseteq sent
    /\ \A n \in Node : resending[n] # NoMessage =>
                          resending[n] \in sent /\ resending[n].sender = n

(* A node that is not late has its resender.                               *)
Started == \A n \in Node : n \notin Late => resender[n]

Inv == TypeOK /\ Started /\ History /\ NothingForgotten

(* Without late receivers, what was processed is remembered.               *)
Remembered ==
    \A m \in Message :
        /\ processed[m] <= 1
        /\ processed[m] > 0 => GetKey(m) \in acked[m.recver]

-----------------------------------------------------------------------------
(* A message is a record with these fields.                                *)
LEMMA MessageFields ==
    ASSUME NEW m \in Message
    PROVE  /\ m.sender \in Node /\ m.recver \in Node
           /\ m.ts \in Nat
           /\ m = [sender |-> m.sender, recver |-> m.recver,
                  customer |-> m.customer, ts |-> m.ts]
  BY ResenderAssumption

(***************************************************************************)
(* GetKey is injective while ids and timestamps fit.                       *)
(***************************************************************************)
LEMMA DistinctKeys ==
    ASSUME KeysFit, NEW m \in Message, NEW x \in Message, GetKey(m) = GetKey(x)
    PROVE  m = x
<1>1. /\ m.sender \in 0 .. IdRange - 1 /\ m.recver \in 0 .. IdRange - 1
      /\ x.sender \in 0 .. IdRange - 1 /\ x.recver \in 0 .. IdRange - 1
      /\ m.ts < HighTimestamp /\ x.ts < HighTimestamp
  BY MessageFields, ResenderAssumption, Zenon DEF KeysFit
<1>2. \A i \in 0 .. IdRange - 1 : i % IdRange = i
  BY ResenderAssumption
<1>3. /\ GetKey(m) = <<m.sender, m.recver, m.ts>>
      /\ GetKey(x) = <<x.sender, x.recver, x.ts>>
  BY <1>1, <1>2 DEF GetKey
<1>4. <<m.sender, m.recver, m.ts>> = <<x.sender, x.recver, x.ts>>
  BY <1>3, Zenon
<1>5. m.sender = x.sender /\ m.recver = x.recver /\ m.ts = x.ts
  BY ONLY <1>4
<1>6. m.customer = x.customer
  BY DEF KeysFit
<1>. QED  BY <1>5, <1>6, MessageFields

(* Only the message itself has its key, so AddOutgoing finds and an        *)
(* acknowledgement erases that message or nothing.                         *)
LEMMA OnlyOwnEntry ==
    ASSUME KeysFit, TypeOK, NEW m \in Message
    PROVE  Entries(m) \subseteq {m}
  BY DistinctKeys DEF Entries, TypeOK

(* AddOutgoing adds its message if it is not there.                        *)
LEMMA BufferAdds ==
    ASSUME KeysFit, TypeOK, NEW m \in Message, Buffer(m)
    PROVE  /\ send_buff \subseteq send_buff'
           /\ send_buff' \subseteq send_buff \union {m}
           /\ resender[m.sender] => m \in send_buff'
           /\ num_retry' \in [Message -> Nat]
<1>1. CASE ~resender[m.sender] \/ Entries(m) # {}
  <2>1. send_buff' = send_buff /\ num_retry' = num_retry
    BY <1>1 DEF Buffer
  <2>2. Entries(m) # {} => m \in send_buff
    BY OnlyOwnEntry DEF Entries
  <2>. QED  BY <1>1, <2>1, <2>2 DEF TypeOK
<1>2. CASE ~(~resender[m.sender] \/ Entries(m) # {})
  <2>1. send_buff' = send_buff \union {m} /\ num_retry' = [num_retry EXCEPT ![m] = 0]
    BY <1>2 DEF Buffer
  <2>. QED  BY <2>1 DEF TypeOK
<1>. QED  BY <1>1, <1>2
-----------------------------------------------------------------------------
LEMMA InitInv == Init => Inv
<1>. SUFFICES ASSUME Init PROVE Inv
  OBVIOUS
<1>1. TypeOK
  BY ResenderAssumption DEF Init, TypeOK
<1>2. History
  BY MessageFields DEF Init, History
<1>3. Started /\ NothingForgotten
  BY Zenon DEF Init, Started, NothingForgotten
<1>. QED  BY <1>1, <1>2, <1>3 DEF Inv

(***************************************************************************)
(* Every step keeps the invariant.  Two steps matter: an acknowledgement   *)
(* erases only its own message, which was processed; and a key that is     *)
(* remembered is that of the message just processed.                       *)
(***************************************************************************)
LEMMA NextInv ==
    ASSUME KeysFit, Inv, [Next]_vars
    PROVE  Inv'
<1>. USE DEF Inv
<1>t. TypeOK /\ Started /\ History /\ NothingForgotten
  OBVIOUS
<1>1. ASSUME NEW n \in Node, CreateResender(n) PROVE Inv'
  <2>1. TypeOK'  BY <1>1, <1>t DEF CreateResender, TypeOK
  <2>2. Started'  BY <1>1, <1>t DEF CreateResender, Started, TypeOK
  <2>3. History'  BY <1>1, <1>t DEF CreateResender, History
  <2>4. NothingForgotten'  BY <1>1, <1>t DEF CreateResender, NothingForgotten
  <2>. QED  BY <2>1, <2>2, <2>3, <2>4
<1>2. ASSUME NEW m \in Message, SendMsg(m) PROVE Inv'
  <2>1. TypeOK'  BY <1>2, <1>t DEF SendMsg, TypeOK
  <2>2. Started'  BY <1>2, <1>t, Zenon DEF SendMsg, Started
  <2>3. History'  BY <1>2, <1>t DEF SendMsg, History, TypeOK
  <2>4. NothingForgotten'
    BY <1>2, <1>t DEF SendMsg, NothingForgotten, TypeOK
  <2>. QED  BY <2>1, <2>2, <2>3, <2>4
<1>3. ASSUME NEW m \in Message, AddOutgoing(m) PROVE Inv'
  <2>0. m \in sent /\ m.sender \in Node
    BY <1>3, <1>t, MessageFields DEF AddOutgoing, History
  <2>a. /\ send_buff \subseteq send_buff'
        /\ send_buff' \subseteq send_buff \union {m}
        /\ resender[m.sender] => m \in send_buff'
        /\ num_retry' \in [Message -> Nat]
    BY <1>3, <1>t, BufferAdds DEF AddOutgoing
  <2>1. TypeOK'  BY <1>3, <1>t, <2>a DEF AddOutgoing, TypeOK
  <2>2. Started'  BY <1>3, <1>t, Zenon DEF AddOutgoing, Started
  <2>3. History'  BY <1>3, <1>t, <2>0, <2>a DEF AddOutgoing, History, TypeOK
  <2>4. NothingForgotten'
    <3>1. m.sender \notin Late => m \in send_buff'
      BY <1>t, <2>0, <2>a DEF Started
    <3>. QED  BY <1>3, <1>t, <2>a, <3>1 DEF AddOutgoing, NothingForgotten
  <2>. QED  BY <2>1, <2>2, <2>3, <2>4
<1>4. ASSUME NEW n \in Node, NEW late \in SUBSET send_buff, Collect(n, late)
      PROVE  Inv'
  <2>1. TypeOK'
    <3>1. num_retry' \in [Message -> Nat]  BY <1>4, <1>t DEF Collect, TypeOK
    <3>2. resend' \subseteq Message  BY <1>4, <1>t DEF Collect, TypeOK
    <3>3. failed' \in [Node -> BOOLEAN]  BY <1>4, <1>t DEF Collect, TypeOK
    <3>. QED  BY <1>4, <1>t, <3>1, <3>2, <3>3 DEF Collect, TypeOK
  <2>2. Started'  BY <1>4, <1>t, Zenon DEF Collect, Started
  <2>3. History'  BY <1>4, <1>t DEF Collect, History
  <2>4. NothingForgotten'  BY <1>4, <1>t DEF Collect, NothingForgotten
  <2>. QED  BY <2>1, <2>2, <2>3, <2>4
<1>5. ASSUME NEW m \in Message, MonitorSendMsg(m) PROVE Inv'
  <2>0. m.sender \in Node /\ m \in sent
    BY <1>5, <1>t, MessageFields DEF MonitorSendMsg, History
  <2>1. TypeOK'  BY <1>5, <1>t, <2>0 DEF MonitorSendMsg, TypeOK
  <2>2. Started'  BY <1>5, <1>t DEF MonitorSendMsg, Started
  <2>3. History'  BY <1>5, <1>t, <2>0, Zenon DEF MonitorSendMsg, History, TypeOK
  <2>4. NothingForgotten'
    BY <1>5, <1>t, Zenon DEF MonitorSendMsg, NothingForgotten
  <2>. QED  BY <2>1, <2>2, <2>3, <2>4
<1>6. ASSUME NEW n \in Node, MonitorAddOutgoing(n) PROVE Inv'
  <2>0. resending[n] \in Message /\ resending[n] \in sent
    BY <1>6, <1>t DEF MonitorAddOutgoing, TypeOK, History
  <2>a. /\ send_buff \subseteq send_buff'
        /\ send_buff' \subseteq send_buff \union {resending[n]}
        /\ num_retry' \in [Message -> Nat]
    BY <1>6, <1>t, <2>0, BufferAdds DEF MonitorAddOutgoing
  <2>1. TypeOK'  BY <1>6, <1>t, <2>0, <2>a DEF MonitorAddOutgoing, TypeOK
  <2>2. Started'  BY <1>6, <1>t, Zenon DEF MonitorAddOutgoing, Started
  <2>3. History'
    BY <1>6, <1>t, <2>0, <2>a DEF MonitorAddOutgoing, History, TypeOK
  <2>4. NothingForgotten'
    BY <1>6, <1>t, <2>a DEF MonitorAddOutgoing, NothingForgotten
  <2>. QED  BY <2>1, <2>2, <2>3, <2>4
<1>7. ASSUME NEW m \in Message, Receive(m) PROVE Inv'
  <2>0. m.recver \in Node /\ m \in sent /\ GetKey(m) \in {GetKey(x) : x \in Message}
    BY <1>7, <1>t, MessageFields DEF Receive, History
  <2>a. processed'[m] > 0 /\ processed' \in [Message -> Nat]
        /\ \A x \in Message : x # m => processed'[x] = processed[x]
    BY <1>7, <1>t DEF Receive, TypeOK, History, Duplicated
  <2>b. acked' \in [Node -> SUBSET {GetKey(x) : x \in Message}]
    BY <1>7, <1>t, <2>0 DEF Receive, Remember, TypeOK
  <2>c. \A n \in Node : acked'[n] \subseteq acked[n] \union {GetKey(m)}
    BY <1>7, <1>t, <2>0 DEF Receive, Remember, TypeOK
  <2>d. wire' \in [Message -> Nat] /\ acks' \in [Message -> Nat]
    BY <1>7, <1>t DEF Receive, TypeOK
  <2>1. TypeOK'  BY <1>7, <1>t, <2>a, <2>b, <2>d DEF Receive, TypeOK
  <2>2. Started'  BY <1>7, <1>t DEF Receive, Started
  <2>3. History'
    <3>1. \A x \in Message : wire'[x] > 0 => x \in sent'
      BY <1>7, <1>t, <2>0 DEF Receive, History, TypeOK
    <3>2. \A x \in Message : processed'[x] > 0 => x \in sent'
      BY <1>7, <1>t, <2>0, <2>a DEF Receive, History
    <3>3. \A x \in Message : acks'[x] > 0 => processed'[x] > 0
      BY <1>7, <1>t, <2>a DEF Receive, History, TypeOK
    <3>4. ASSUME NEW x \in Message, GetKey(x) \in acked'[x.recver]
          PROVE  processed'[x] > 0
      <4>1. GetKey(x) \in acked[x.recver] \/ GetKey(x) = GetKey(m)
        BY <3>4, <2>c, MessageFields
      <4>2. CASE GetKey(x) = GetKey(m)
        BY <4>2, DistinctKeys, <2>a
      <4>3. CASE GetKey(x) \in acked[x.recver]
        BY <4>3, <2>a, <1>t DEF History
      <4>. QED  BY <4>1, <4>2, <4>3
    <3>. QED
      BY <1>7, <1>t, <3>1, <3>2, <3>3, <3>4 DEF Receive, History, GetKey
  <2>4. NothingForgotten'
    BY <1>7, <1>t, <2>a DEF Receive, NothingForgotten, TypeOK
  <2>. QED  BY <2>1, <2>2, <2>3, <2>4
<1>8. ASSUME NEW m \in Message, ReceiveAck(m) PROVE Inv'
  <2>a. send_buff' \subseteq send_buff /\ send_buff \subseteq send_buff' \union {m}
    BY <1>8, <1>t, OnlyOwnEntry, Zenon DEF ReceiveAck
  <2>b. processed[m] > 0 /\ processed' = processed
    BY <1>8, <1>t DEF ReceiveAck, History
  <2>1. TypeOK'
    <3>1. acks' \in [Message -> Nat]  BY <1>8, <1>t DEF ReceiveAck, TypeOK
    <3>. QED  BY <1>8, <1>t, <2>a, <3>1 DEF ReceiveAck, TypeOK
  <2>2. Started'  BY <1>8, <1>t, Zenon DEF ReceiveAck, Started
  <2>3. History'  BY <1>8, <1>t, <2>a DEF ReceiveAck, History, TypeOK
  <2>4. NothingForgotten'
    BY <1>8, <1>t, <2>a, <2>b DEF ReceiveAck, NothingForgotten
  <2>. QED  BY <2>1, <2>2, <2>3, <2>4
<1>9. ASSUME NEW m \in Message, Drop(m) PROVE Inv'
  <2>a. /\ wire' \in [Message -> Nat] /\ acks' \in [Message -> Nat]
        /\ \A x \in Message : wire'[x] <= wire[x] /\ acks'[x] <= acks[x]
    BY <1>9, <1>t DEF Drop, TypeOK
  <2>b. drops' \in 0 .. MaxDrops
    BY <1>9, <1>t, ResenderAssumption DEF Drop, TypeOK
  <2>1. TypeOK'  BY <1>9, <1>t, <2>a, <2>b, Zenon DEF Drop, TypeOK
  <2>2. Started'  BY <1>9, <1>t DEF Drop, Started
  <2>3. History'  BY <1>9, <1>t, <2>a DEF Drop, History, TypeOK
  <2>4. NothingForgotten'  BY <1>9, <1>t DEF Drop, NothingForgotten
  <2>. QED  BY <2>1, <2>2, <2>3, <2>4
<1>10. CASE UNCHANGED vars
  BY <1>10, <1>t, Zenon DEF vars, TypeOK, Started, History, NothingForgotten
<1>. QED
  BY <1>1, <1>2, <1>3, <1>4, <1>5, <1>6, <1>7, <1>8, <1>9, <1>10 DEF Next
(***************************************************************************)
(* Inv holds in every state, if keys tell messages apart.                  *)
(***************************************************************************)
LEMMA Invariance == KeysFit => (Spec => []Inv)
<1>1. SUFFICES ASSUME KeysFit PROVE Spec => []Inv
  OBVIOUS
<1>2. Init => Inv
  BY InitInv
<1>3. Inv /\ [Next]_vars => Inv'
  BY <1>1, NextInv
<1>. QED  BY <1>2, <1>3, PTL DEF Spec

(***************************************************************************)
(* TypeOK holds in every state.                                            *)
(***************************************************************************)
THEOREM TypeCorrect == KeysFit => (Spec => []TypeOK)
<1>1. SUFFICES ASSUME KeysFit PROVE Spec => []TypeOK
  OBVIOUS
<1>2. Spec => []Inv
  BY <1>1, Invariance
<1>3. Inv => TypeOK
  BY DEF Inv
<1>. QED  BY <1>2, <1>3, PTL

(***************************************************************************)
(* A message that was not processed can still be sent again, whatever is   *)
(* lost and however late resenders at the receivers exist.                 *)
(***************************************************************************)
THEOREM Retained == KeysFit => (Spec => []NothingForgotten)
<1>1. SUFFICES ASSUME KeysFit PROVE Spec => []NothingForgotten
  OBVIOUS
<1>2. Spec => []Inv
  BY <1>1, Invariance
<1>3. Inv => NothingForgotten
  BY DEF Inv
<1>. QED  BY <1>2, <1>3, PTL

(***************************************************************************)
(* AddIncomming calls a message a duplicate only if it was processed.      *)
(***************************************************************************)
THEOREM DuplicatesOnly == KeysFit => (Spec => DropsOnlyDuplicates)
<1>1. SUFFICES ASSUME KeysFit PROVE Spec => DropsOnlyDuplicates
  OBVIOUS
<1>2. Spec => []Inv
  BY <1>1, Invariance
<1> DEFINE Step == \A m \in Message :
                      Receive(m) /\ processed'[m] = processed[m]
                          => processed[m] > 0
<1>3. Inv /\ [Next]_vars => [Step]_vars
  <2>. SUFFICES ASSUME Inv, NEW m \in Message, Receive(m),
                       processed'[m] = processed[m]
                PROVE  processed[m] > 0
    BY Zenon
  <2>1. processed[m] \in Nat /\ processed \in [Message -> Nat]
    BY DEF Inv, TypeOK
  <2>2. Duplicated(m)
    BY <2>1 DEF Receive
  <2>. QED  BY <2>2, Zenon DEF Inv, History, Duplicated
<1>. QED  BY <1>2, <1>3, PTL DEF Spec, DropsOnlyDuplicates

-----------------------------------------------------------------------------
(***************************************************************************)
(* Without late receivers a message that was processed is remembered.      *)
(***************************************************************************)
LEMMA NextRemembered ==
    ASSUME NoLateReceiver, Inv, Remembered, [Next]_vars
    PROVE  Remembered'
<1>1. ASSUME NEW m \in Message, Receive(m) PROVE Remembered'
  <2>1. m.recver \in Node /\ resender[m.recver]
    BY MessageFields DEF Inv, Started, NoLateReceiver
  <2>2. acked' = [acked EXCEPT ![m.recver] = @ \union {GetKey(m)}]
    BY <1>1, <2>1 DEF Receive, Remember
  <2>3. /\ \A n \in Node : acked[n] \subseteq acked'[n]
        /\ GetKey(m) \in acked'[m.recver]
    BY <2>1, <2>2 DEF Inv, TypeOK
  <2>4. processed'[m] <= 1
    <3>1. CASE Duplicated(m)
      BY <1>1, <3>1 DEF Receive, Inv, TypeOK, Remembered
    <3>2. CASE ~Duplicated(m)
      <4>1. processed[m] \in Nat /\ ~(processed[m] > 0)
        BY <2>1, <3>2 DEF Inv, TypeOK, Remembered, Duplicated
      <4>. QED  BY <1>1, <3>2, <4>1 DEF Receive, Inv, TypeOK
    <3>. QED  BY <3>1, <3>2
  <2>5. \A x \in Message : x # m => processed'[x] = processed[x]
    BY <1>1 DEF Receive, Inv, TypeOK
  <2>6. ASSUME NEW x \in Message
        PROVE  processed'[x] <= 1
               /\ (processed'[x] > 0 => GetKey(x) \in acked'[x.recver])
    <3>1. CASE x = m
      BY <3>1, <2>3, <2>4
    <3>2. CASE x # m
      BY <3>2, <2>3, <2>5, MessageFields DEF Remembered
    <3>. QED  BY <3>1, <3>2
  <2>. QED  BY <2>6 DEF Remembered, GetKey
<1>2. CASE UNCHANGED <<acked, processed>>
  BY <1>2 DEF Remembered
<1>3. CASE UNCHANGED vars
  BY <1>2, <1>3 DEF vars
<1>4. ASSUME Next PROVE UNCHANGED <<acked, processed>> \/ \E m \in Message : Receive(m)
  BY <1>4, Zenon DEF Next, CreateResender, SendMsg, AddOutgoing, Collect,
              MonitorSendMsg, MonitorAddOutgoing, ReceiveAck, Drop
<1>. QED  BY <1>1, <1>2, <1>3, <1>4

LEMMA RememberedInvariance ==
    KeysFit /\ NoLateReceiver => (Spec => [](Inv /\ Remembered))
<1>1. SUFFICES ASSUME KeysFit, NoLateReceiver PROVE Spec => [](Inv /\ Remembered)
  OBVIOUS
<1>2. Init => Inv /\ Remembered
  <2>1. Init => Remembered
    BY DEF Init, Remembered
  <2>. QED  BY <2>1, InitInv
<1>3. Inv /\ Remembered /\ [Next]_vars => Inv' /\ Remembered'
  BY <1>1, NextInv, NextRemembered
<1>. QED  BY <1>2, <1>3, PTL DEF Spec

(***************************************************************************)
(* A message is processed at most once, if receivers have their resenders. *)
(***************************************************************************)
THEOREM AtMostOnce == KeysFit /\ NoLateReceiver => (Spec => []ProcessedOnce)
<1>1. SUFFICES ASSUME KeysFit, NoLateReceiver PROVE Spec => []ProcessedOnce
  OBVIOUS
<1>2. Spec => [](Inv /\ Remembered)
  BY <1>1, RememberedInvariance
<1>3. Remembered => ProcessedOnce
  BY DEF Remembered, ProcessedOnce
<1>. QED  BY <1>2, <1>3, PTL

(***************************************************************************)
(* The resenders implement delivery at most once: only SendMsg and the     *)
(* first Receive of a message are steps of DeliverySpec.                   *)
(***************************************************************************)
THEOREM DeliveryRefinement == KeysFit /\ NoLateReceiver => (Spec => DeliversOnce)
<1>1. SUFFICES ASSUME KeysFit, NoLateReceiver PROVE Spec => DeliversOnce
  OBVIOUS
<1>2. Spec => [](Inv /\ Remembered)
  BY <1>1, RememberedInvariance
<1>3. Init => Delivery!Init
  BY DEF Init, Delivery!Init
<1>4. ASSUME Inv, Remembered, [Next]_vars
      PROVE  [Delivery!Next]_(Delivery!vars)
  <2>1. ASSUME NEW m \in Message, Receive(m)
        PROVE  Delivery!Deliver(m) \/ UNCHANGED <<sent, processed>>
    <3>0. processed \in [Message -> Nat] /\ m.recver \in Node
      BY <1>4, MessageFields DEF Inv, TypeOK
    <3>1. CASE Duplicated(m)
      BY <2>1, <3>0, <3>1 DEF Receive
    <3>2. CASE ~Duplicated(m)
      <4>1. processed[m] = 0
        BY <1>1, <1>4, <3>0, <3>2 DEF Inv, Started, Remembered, Duplicated,
                                               NoLateReceiver
      <4>2. m \in sent
        BY <1>4, <2>1 DEF Receive, Inv, History
      <4>3. processed' = [processed EXCEPT ![m] = 1] /\ sent' = sent
        BY <2>1, <3>2, <4>1, <3>0 DEF Receive
      <4>. QED  BY <4>1, <4>2, <4>3 DEF Delivery!Deliver
    <3>. QED  BY <3>1, <3>2
  <2>2. ASSUME NEW m \in Message, SendMsg(m) PROVE Delivery!Send(m)
    BY <2>2 DEF SendMsg, Delivery!Send
  <2>3. ASSUME Next
        PROVE  \/ UNCHANGED <<sent, processed>>
               \/ \E m \in Message : Receive(m) \/ SendMsg(m)
    BY <2>3, Zenon DEF Next, CreateResender, AddOutgoing, Collect,
                MonitorSendMsg, MonitorAddOutgoing, ReceiveAck, Drop
  <2>4. CASE UNCHANGED vars
    BY <2>4 DEF vars, Delivery!vars
  <2>. QED  BY <1>4, <2>1, <2>2, <2>3, <2>4 DEF Delivery!Next, Delivery!vars
<1>. QED  BY <1>2, <1>3, <1>4, PTL DEF Spec, DeliversOnce, Delivery!Spec

=============================================================================
