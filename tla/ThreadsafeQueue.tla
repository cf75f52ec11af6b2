--------------------------- MODULE ThreadsafeQueue ---------------------------
(***************************************************************************)
(* ThreadsafeQueue<T> of include/ps/internal/threadsafe_queue.h, with      *)
(* STEPAF_BUSY_POLL_ENABLE (the default).                                  *)
(*                                                                         *)
(* Push and WaitAndPop work on a ring of capacity_ slots with two atomic   *)
(* indices and no lock: every load, store and slot access of PushAtomic    *)
(* and WaitAndPopAtomic is a step here, so that the steps of all threads   *)
(* interleave.  LockedQueue is the same class without busy polling.        *)
(***************************************************************************)
EXTENDS Integers, Sequences

CONSTANTS Producers,    \* the threads that call Push
          Consumers,    \* the threads that call WaitAndPop
          Value,        \* the elements
          NoValue,      \* an empty slot, an empty register
          Capacity      \* capacity_ (32768 in the code)

ASSUME QueueAssumption ==
    /\ Capacity \in Nat \ {0, 1}
    /\ NoValue \notin Value

VARIABLES head,         \* head_, the consumer's index
          tail,         \* tail_, the producer's index
          buffer,       \* buffer_
          ppc,          \* ppc[p]: where p is in PushAtomic
          pval,         \* pval[p]: new_value
          ptail,        \* ptail[p]: current_tail
          cpc,          \* cpc[c]: where c is in WaitAndPopAtomic
          chead,        \* chead[c]: current_head
          cval,         \* cval[c]: *value, before the call returns
          got           \* got[c]: what c's last WaitAndPop returned

ring == <<head, tail, buffer>>
producer == <<ppc, pval, ptail>>
consumer == <<cpc, chead, cval, got>>
queueVars == <<head, tail, buffer, ppc, pval, ptail, cpc, chead, cval, got>>

Index == 0 .. (Capacity - 1)
Element == Value \union {NoValue}

QueueInit ==
    /\ head = 0
    /\ tail = 0
    /\ buffer = [i \in Index |-> NoValue]
    /\ ppc = [p \in Producers |-> "idle"]
    /\ pval = [p \in Producers |-> NoValue]
    /\ ptail = [p \in Producers |-> 0]
    /\ cpc = [c \in Consumers |-> "idle"]
    /\ chead = [c \in Consumers |-> 0]
    /\ cval = [c \in Consumers |-> NoValue]
    /\ got = [c \in Consumers |-> NoValue]

-----------------------------------------------------------------------------
(***************************************************************************)
(* (i + 1) % capacity_                                                     *)
(***************************************************************************)
Succ(i) == (i + 1) % Capacity

(***************************************************************************)
(* PushAtomic: load tail_, spin while the ring is full, write the slot,    *)
(* publish the new tail_.  CheckFull is the exit of the spin loop; while   *)
(* next_tail equals head_ the thread only re-reads.                        *)
(***************************************************************************)
LoadTail(p, v) ==
    /\ ppc[p] = "idle"
    /\ ppc' = [ppc EXCEPT ![p] = "check"]
    /\ pval' = [pval EXCEPT ![p] = v]
    /\ ptail' = [ptail EXCEPT ![p] = tail]
    /\ UNCHANGED <<ring, consumer>>

CheckFull(p) ==
    /\ ppc[p] = "check"
    /\ Succ(ptail[p]) # head
    /\ ppc' = [ppc EXCEPT ![p] = "write"]
    /\ UNCHANGED <<ring, pval, ptail, consumer>>

WriteSlot(p) ==
    /\ ppc[p] = "write"
    /\ buffer' = [buffer EXCEPT ![ptail[p]] = pval[p]]
    /\ ppc' = [ppc EXCEPT ![p] = "publish"]
    /\ UNCHANGED <<head, tail, pval, ptail, consumer>>

StoreTail(p) ==
    /\ ppc[p] = "publish"
    /\ tail' = Succ(ptail[p])
    /\ ppc' = [ppc EXCEPT ![p] = "idle"]
    /\ UNCHANGED <<head, buffer, pval, ptail, consumer>>

(***************************************************************************)
(* WaitAndPopAtomic: load head_, spin while the ring is empty (reloading   *)
(* head_ after 5000 rounds), move the element out, store the new head_.    *)
(* The slot keeps its value here: what the move leaves in it can only be   *)
(* seen by a second consumer.                                              *)
(***************************************************************************)
LoadHead(c) ==
    /\ cpc[c] = "idle"
    /\ cpc' = [cpc EXCEPT ![c] = "check"]
    /\ chead' = [chead EXCEPT ![c] = head]
    /\ UNCHANGED <<ring, producer, cval, got>>

ReloadHead(c) ==
    /\ cpc[c] = "check"
    /\ chead[c] = tail
    /\ chead' = [chead EXCEPT ![c] = head]
    /\ UNCHANGED <<ring, producer, cpc, cval, got>>

(* Mutant of CheckEmpty: does not look at tail_.                           *)
CheckEmptyDropped(c) ==
    /\ cpc[c] = "check"
    /\ cpc' = [cpc EXCEPT ![c] = "read"]
    /\ UNCHANGED <<ring, producer, chead, cval, got>>

CheckEmpty(c) ==
    /\ cpc[c] = "check"
    /\ chead[c] # tail
    /\ cpc' = [cpc EXCEPT ![c] = "read"]
    /\ UNCHANGED <<ring, producer, chead, cval, got>>

ReadSlot(c) ==
    /\ cpc[c] = "read"
    /\ cval' = [cval EXCEPT ![c] = buffer[chead[c]]]
    /\ cpc' = [cpc EXCEPT ![c] = "store"]
    /\ UNCHANGED <<ring, producer, chead, got>>

(* Mutant of StoreHead: the new head_ is not stored.                       *)
StoreHeadLost(c) ==
    /\ cpc[c] = "store"
    /\ got' = [got EXCEPT ![c] = cval[c]]
    /\ cpc' = [cpc EXCEPT ![c] = "idle"]
    /\ UNCHANGED <<ring, producer, chead, cval>>

StoreHead(c) ==
    /\ cpc[c] = "store"
    /\ head' = Succ(chead[c])
    /\ got' = [got EXCEPT ![c] = cval[c]]
    /\ cpc' = [cpc EXCEPT ![c] = "idle"]
    /\ UNCHANGED <<tail, buffer, producer, chead, cval>>

PushStep(p) == CheckFull(p) \/ WriteSlot(p) \/ StoreTail(p)

PopStep(c) ==
    \/ LoadHead(c)
    \/ ReloadHead(c)
    \/ CheckEmpty(c)
    \/ ReadSlot(c)
    \/ StoreHead(c)

PopProgress(c) == LoadHead(c) \/ CheckEmpty(c) \/ ReadSlot(c) \/ StoreHead(c)

QueueNext ==
    \/ \E p \in Producers, v \in Value : LoadTail(p, v)
    \/ \E p \in Producers : PushStep(p)
    \/ \E c \in Consumers : PopStep(c)

(***************************************************************************)
(* A thread inside Push keeps running; a consumer is a loop around         *)
(* WaitAndPop (Van::Receiving, PushPullWorker, ResponseWorker, PollCQ) and *)
(* keeps running too.  Nothing obliges anybody to push.                    *)
(***************************************************************************)
QueueFairness ==
    /\ \A p \in Producers : WF_queueVars(PushStep(p))
    /\ \A c \in Consumers : WF_queueVars(PopProgress(c))

QueueSpec == QueueInit /\ [][QueueNext]_queueVars /\ QueueFairness

-----------------------------------------------------------------------------
(* The ring, its indices and the copies that threads have of them.         *)
QueueTypeOK ==
    /\ head \in Index
    /\ tail \in Index
    /\ buffer \in [Index -> Element]
    /\ ppc \in [Producers -> {"idle", "check", "write", "publish"}]
    /\ pval \in [Producers -> Element]
    /\ ptail \in [Producers -> Index]
    /\ cpc \in [Consumers -> {"idle", "check", "read", "store"}]
    /\ chead \in [Consumers -> Index]
    /\ cval \in [Consumers -> Element]
    /\ got \in [Consumers -> Element]

(***************************************************************************)
(* SizeAtomic on one snapshot of the two indices, the slot that holds the  *)
(* i-th element, and the elements the ring holds, oldest first.            *)
(***************************************************************************)
Size == IF tail >= head THEN tail - head ELSE Capacity - (head - tail)

Slot(i) == IF head + i - 1 < Capacity THEN head + i - 1
                                      ELSE head + i - 1 - Capacity

Contents == [i \in 1 .. Size |-> buffer[Slot(i)]]

(***************************************************************************)
(* No thread writes a slot (PushAtomic's buffer_[current_tail] =           *)
(* new_value) while another thread writes it or moves out of it: the       *)
(* elements are structs, and two threads in one slot are a data race.      *)
(***************************************************************************)
NoSlotRace ==
    /\ \A p \in Producers, c \in Consumers :
          ppc[p] = "write" /\ cpc[c] = "read" => ptail[p] # chead[c]
    /\ \A p, r \in Producers :
          p # r /\ ppc[p] = "write" /\ ppc[r] = "write" => ptail[p] # ptail[r]

(***************************************************************************)
(* Publishing tail_ adds exactly the pushed element, at the end, and       *)
(* nothing else a thread does inside Push changes what the queue holds:    *)
(* no element that was pushed is lost or overwritten.                      *)
(***************************************************************************)
PushAppends ==
    [][\A p \in Producers :
          PushStep(p) =>
             IF ppc[p] = "publish" THEN Contents' = Append(Contents, pval[p])
                                   ELSE Contents' = Contents]_queueVars

(***************************************************************************)
(* The ring is a first-in first-out queue: every push and pop takes effect *)
(* at once, pops return the pushed elements in order, each of them once.   *)
(***************************************************************************)
Abstract == INSTANCE Fifo WITH q <- Contents
IsFifo == Abstract!Spec

(***************************************************************************)
(* A Push that finds the ring full does not spin forever: the consumers    *)
(* keep popping, and the Push completes.                                   *)
(***************************************************************************)
PushReturns == \A p \in Producers : ppc[p] # "idle" ~> ppc[p] = "idle"

=============================================================================
