------------------------------- MODULE Resender -------------------------------
(***************************************************************************)
(* Retransmission, enabled by PS_RESEND: src/resender.h and the places of  *)
(* Van::Send, Van::Receiving and Van::Start that use it.  A sent message   *)
(* stays in send_buff_ until it is acknowledged, a monitor thread sends it *)
(* again when the acknowledgement is late, and the receiver acknowledges   *)
(* every copy and processes the first.                                     *)
(*                                                                         *)
(* A message stands for one call of Van::Send by the program.  Application *)
(* id and request bit are in a key in full and are left out; every         *)
(* customer counts its timestamps from 0.  The van delivers in any order,  *)
(* and Receiving may drop what it gets (PS_DROP_MSG).                      *)
(***************************************************************************)
EXTENDS Integers

CONSTANTS Node,          \* node ids
          Message,       \* the messages the program sends
          IdRange,       \* values of the uint8_t a key has for an id: 256
          HighTimestamp, \* timestamps whose int overflows in a key: from 2^30
          MaxRetry,      \* max_num_retry_
          Late,          \* nodes that receive before their resender exists
          MaxCopies,     \* bound: copies of a message on their way
          MaxDrops,      \* bound: messages dropped
          NoMessage      \* the monitor thread is not inside Send

ASSUME ResenderAssumption ==
    /\ Node \subseteq Nat
    /\ Message \subseteq [sender : Node, recver : Node, customer : Nat, ts : Nat]
    /\ IdRange \in Nat \ {0}
    /\ HighTimestamp \in Nat
    /\ MaxRetry \in Nat \ {0}
    /\ Late \subseteq Node
    /\ MaxCopies \in Nat
    /\ MaxDrops \in Nat
    /\ NoMessage \notin Message

(***************************************************************************)
(* GetKey: ids are cut to a uint8_t, and a shifted timestamp that is       *)
(* negative as an int covers them with its sign when it is widened.  The   *)
(* customer is not in it.                                                  *)
(***************************************************************************)
GetKey(m) ==
    IF m.ts < HighTimestamp
    THEN <<m.sender % IdRange, m.recver % IdRange, m.ts>>
    ELSE <<IdRange - 1, IdRange - 1, m.ts>>

VARIABLES sent,         \* messages the program has sent
          wire,         \* wire[m]: copies of m on their way
          acks,         \* acks[m]: acknowledgements of m on their way
          resender,     \* resender[n]: resender_ exists
          send_buff,    \* the messages in the send_buff_ of their senders
          num_retry,    \* num_retry[m]: that field of the entry of m
          adding,       \* messages between SendMsg and AddOutgoing
          resend,       \* the monitor threads' lists of messages to send
          resending,    \* resending[n]: the message n's monitor is sending
          acked,        \* acked[n]: acked_
          processed,    \* processed[m]: how often m was processed
          failed,       \* failed[n]: the check of num_retry ended n
          drops         \* messages dropped

vars == <<sent, wire, acks, resender, send_buff, num_retry, adding, resend,
          resending, acked, processed, failed, drops>>

Init ==
    /\ sent = {}
    /\ wire = [m \in Message |-> 0]
    /\ acks = [m \in Message |-> 0]
    /\ resender = [n \in Node |-> n \notin Late]
    /\ send_buff = {}
    /\ num_retry = [m \in Message |-> 0]
    /\ adding = {}
    /\ resend = {}
    /\ resending = [n \in Node |-> NoMessage]
    /\ acked = [n \in Node |-> {}]
    /\ processed = [m \in Message |-> 0]
    /\ failed = [n \in Node |-> FALSE]
    /\ drops = 0

(* The entries of m's sender that have the key of m.                       *)
Entries(m) == {x \in send_buff : x.sender = m.sender /\ GetKey(x) = GetKey(m)}

-----------------------------------------------------------------------------
(***************************************************************************)
(* Van::Start creates the resender some time after the receiving thread    *)
(* has made the node ready.                                                *)
(***************************************************************************)
CreateResender(n) ==
    /\ ~resender[n]
    /\ resender' = [resender EXCEPT ![n] = TRUE]
    /\ UNCHANGED <<sent, wire, acks, send_buff, num_retry, adding, resend,
                   resending, acked, processed, failed, drops>>

(***************************************************************************)
(* Van::Send: SendMsg, and then, after other steps, AddOutgoing.  Threads  *)
(* take a timestamp and send later, so messages are sent in any order.     *)
(***************************************************************************)
SendMsg(m) ==
    /\ m \notin sent
    /\ ~failed[m.sender]
    /\ sent' = sent \union {m}
    /\ wire' = [wire EXCEPT ![m] = @ + 1]
    /\ adding' = adding \union {m}
    /\ UNCHANGED <<acks, resender, send_buff, num_retry, resend, resending,
                   acked, processed, failed, drops>>

(* Mutant of Buffer: a message is not buffered while another of its sender *)
(* is.                                                                     *)
BufferOne(m) ==
    IF ~resender[m.sender] \/ (\E x \in send_buff : x.sender = m.sender)
    THEN UNCHANGED <<send_buff, num_retry>>
    ELSE /\ send_buff' = send_buff \union {m}
         /\ num_retry' = [num_retry EXCEPT ![m] = 0]

(* AddOutgoing leaves an entry of the same key alone.                      *)
Buffer(m) ==
    IF ~resender[m.sender] \/ Entries(m) # {}
    THEN UNCHANGED <<send_buff, num_retry>>
    ELSE /\ send_buff' = send_buff \union {m}
         /\ num_retry' = [num_retry EXCEPT ![m] = 0]

AddOutgoing(m) ==
    /\ m \in adding
    /\ ~failed[m.sender]
    /\ adding' = adding \ {m}
    /\ Buffer(m)
    /\ UNCHANGED <<sent, wire, acks, resender, resend, resending, acked,
                   processed, failed, drops>>

(***************************************************************************)
(* Monitoring: under the lock, entries whose time is over are collected    *)
(* and counted; the process ends if one was retried too often.  Then every *)
(* collected message goes through Van::Send.  Which entries are late is    *)
(* left open.                                                              *)
(***************************************************************************)
Collect(n, late) ==
    /\ resender[n] /\ ~failed[n]
    /\ resending[n] = NoMessage
    /\ \A m \in resend : m.sender # n
    /\ late # {}
    /\ \A m \in late : m.sender = n
    /\ num_retry' = [m \in Message |->
                        num_retry[m] + (IF m \in late THEN 1 ELSE 0)]
    /\ resend' = resend \union late
    /\ failed' = [failed EXCEPT ![n] =
                     \E m \in late : num_retry'[m] >= MaxRetry]
    /\ UNCHANGED <<sent, wire, acks, resender, send_buff, adding, resending,
                   acked, processed, drops>>

MonitorSendMsg(m) ==
    /\ m \in resend
    /\ ~failed[m.sender]
    /\ resending[m.sender] = NoMessage
    /\ wire[m] + acks[m] < MaxCopies
    /\ resend' = resend \ {m}
    /\ resending' = [resending EXCEPT ![m.sender] = m]
    /\ wire' = [wire EXCEPT ![m] = @ + 1]
    /\ UNCHANGED <<sent, acks, resender, send_buff, num_retry, adding, acked,
                   processed, failed, drops>>

MonitorAddOutgoing(n) ==
    /\ resending[n] # NoMessage
    /\ ~failed[n]
    /\ resending' = [resending EXCEPT ![n] = NoMessage]
    /\ Buffer(resending[n])
    /\ UNCHANGED <<sent, wire, acks, resender, adding, resend, acked,
                   processed, failed, drops>>

-----------------------------------------------------------------------------
(***************************************************************************)
(* Van::Receiving takes a message.  AddIncomming acknowledges it and tells *)
(* whether it was received before; if not, it is processed.  A node whose  *)
(* resender does not exist yet processes what it gets.                     *)
(***************************************************************************)
Duplicated(m) ==
    resender[m.recver] /\ GetKey(m) \in acked[m.recver]

(* Mutant of Remember: acked_ is never filled.                             *)
RememberNothing(m) ==
    acked' = acked

Remember(m) ==
    acked' = [acked EXCEPT ![m.recver] =
                 IF resender[m.recver] THEN @ \union {GetKey(m)} ELSE @]

Receive(m) ==
    /\ wire[m] > 0
    /\ ~failed[m.recver]
    /\ wire' = [wire EXCEPT ![m] = @ - 1]
    /\ acks' = [acks EXCEPT ![m] = IF resender[m.recver] THEN @ + 1 ELSE @]
    /\ Remember(m)
    /\ processed' = [processed EXCEPT ![m] =
                        IF Duplicated(m) THEN @ ELSE @ + 1]
    /\ UNCHANGED <<sent, resender, send_buff, num_retry, adding, resend,
                   resending, failed, drops>>

(* AddIncomming for an acknowledgement; without a resender it is an        *)
(* unknown command and is dropped.                                         *)
ReceiveAck(m) ==
    /\ acks[m] > 0
    /\ ~failed[m.sender]
    /\ acks' = [acks EXCEPT ![m] = @ - 1]
    /\ send_buff' = IF resender[m.sender] THEN send_buff \ Entries(m)
                                          ELSE send_buff
    /\ UNCHANGED <<sent, wire, resender, num_retry, adding, resend,
                   resending, acked, processed, failed, drops>>

(* Receiving drops a message or an acknowledgement.                        *)
Drop(m) ==
    /\ drops < MaxDrops
    /\ drops' = drops + 1
    /\ \/ /\ wire[m] > 0 /\ ~failed[m.recver]
          /\ wire' = [wire EXCEPT ![m] = @ - 1]
          /\ acks' = acks
       \/ /\ acks[m] > 0 /\ ~failed[m.sender]
          /\ acks' = [acks EXCEPT ![m] = @ - 1]
          /\ wire' = wire
    /\ UNCHANGED <<sent, resender, send_buff, num_retry, adding, resend,
                   resending, acked, processed, failed>>

Next ==
    \/ \E n \in Node : \/ CreateResender(n)
                       \/ \E late \in SUBSET send_buff : Collect(n, late)
                       \/ MonitorAddOutgoing(n)
    \/ \E m \in Message : \/ SendMsg(m)
                          \/ AddOutgoing(m)
                          \/ MonitorSendMsg(m)
                          \/ Receive(m)
                          \/ ReceiveAck(m)
                          \/ Drop(m)

(***************************************************************************)
(* Threads keep running and the van delivers.  Every round of the monitor  *)
(* looks at every entry, and one that stays in the buffer is late at last. *)
(* Nobody has to send.                                                     *)
(***************************************************************************)
Fairness ==
    /\ \A n \in Node : /\ WF_vars(CreateResender(n))
                       /\ WF_vars(MonitorAddOutgoing(n))
    /\ \A m \in Message : /\ WF_vars(AddOutgoing(m))
                          /\ WF_vars(MonitorSendMsg(m))
                          /\ WF_vars(Receive(m))
                          /\ WF_vars(ReceiveAck(m))
                          /\ SF_vars(\E late \in SUBSET send_buff :
                                        m \in late /\ Collect(m.sender, late))

Spec == Init /\ [][Next]_vars /\ Fairness

-----------------------------------------------------------------------------
(* send_buff_, acked_ and the copies on the way.                           *)
TypeOK ==
    /\ sent \subseteq Message
    /\ wire \in [Message -> Nat]
    /\ acks \in [Message -> Nat]
    /\ resender \in [Node -> BOOLEAN]
    /\ send_buff \subseteq Message
    /\ num_retry \in [Message -> Nat]
    /\ adding \subseteq Message
    /\ resend \subseteq Message
    /\ resending \in [Node -> Message \union {NoMessage}]
    /\ acked \in [Node -> SUBSET {GetKey(m) : m \in Message}]
    /\ processed \in [Message -> Nat]
    /\ failed \in [Node -> BOOLEAN]
    /\ drops \in 0 .. MaxDrops

(***************************************************************************)
(* A message is processed at most once, however often it is sent again:    *)
(* Receiving skips the copies for which AddIncomming returns true.         *)
(***************************************************************************)
ProcessedOnce == \A m \in Message : processed[m] <= 1

(***************************************************************************)
(* The resenders and a van that loses, delays and reorders implement       *)
(* delivery at most once: a step of the code processes a message that was  *)
(* sent and not processed yet, or changes nothing a program sees.          *)
(***************************************************************************)
Delivery == INSTANCE DeliverySpec WITH delivered <- processed
DeliversOnce == Delivery!Spec

(***************************************************************************)
(* AddIncomming returns true for a message only if that message, and not   *)
(* another one with the same key, was received and processed before.       *)
(***************************************************************************)
DropsOnlyDuplicates ==
    [][\A m \in Message :
          Receive(m) /\ processed'[m] = processed[m] => processed[m] > 0]_vars

(***************************************************************************)
(* Until a message of a node with a resender is processed, the node can    *)
(* still send it again: it is in send_buff_, or about to be put there.     *)
(* Neither late acknowledgements, nor those of other messages, nor the     *)
(* monitor's second call of AddOutgoing remove it too early.               *)
(***************************************************************************)
NothingForgotten ==
    \A m \in sent :
        m.sender \notin Late /\ processed[m] = 0
            => m \in send_buff \union adding

(***************************************************************************)
(* A message of a node with a resender is processed at last although       *)
(* copies and acknowledgements get lost, unless a process gives up.        *)
(***************************************************************************)
EverythingProcessed ==
    \A m \in Message :
        m \in sent /\ m.sender \notin Late
            ~> processed[m] > 0 \/ failed[m.sender] \/ failed[m.recver]

=============================================================================
