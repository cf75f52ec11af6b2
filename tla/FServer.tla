------------------------------- MODULE FServer -------------------------------
(***************************************************************************)
(* The queues between the receiving thread and the Python thread of an FFN *)
(* server (fserver/csrc/public.hpp): RequestHandler stores a request and   *)
(* sets a bit of q_signal_, get_batch spins until q_signal_ has the bit of *)
(* every worker and takes one request of each, respond answers a request   *)
(* by its handler.                                                         *)
(*                                                                         *)
(* A uint64_t is the set of its one bits.  The masks are computed in int   *)
(* and converted: a shift takes its count modulo the width, as the build's *)
(* shift instruction does, and the conversion extends the sign.            *)
(***************************************************************************)
EXTENDS Integers, Sequences

CONSTANTS num_worker,   \* num_worker_: DMLC_NUM_WORKER
          Consumers,    \* the threads that call get_batch
          Width,        \* bits of an int; a uint64_t has 2 * Width
          MaxRequests   \* bound: requests of one worker

ASSUME FServerAssumption ==
    /\ num_worker \in Nat \ {0}
    /\ Width \in Nat \ {0}
    /\ MaxRequests \in Nat

Workers == 0 .. num_worker - 1

(***************************************************************************)
(* 1 << i, as an int converted to uint64_t.                                *)
(***************************************************************************)
Shift(i) ==
    IF i % Width = Width - 1 THEN Width - 1 .. 2 * Width - 1 ELSE {i % Width}

(***************************************************************************)
(* init: worker_mask_ = (1 << num_worker_) - 1, the subtraction wrapping   *)
(* around.                                                                 *)
(***************************************************************************)
worker_mask == 0 .. (num_worker % Width) - 1

VARIABLES q,            \* q_: handlers of the waiting requests of each worker
          q_signal,     \* q_signal_
          meta_map,     \* meta_map_: the request each handler stands for
          pc,           \* pc[c]: "spin" or "matched", its place in get_batch
          batch,        \* the handlers the last get_batch returned
          held,         \* handlers returned and not responded to
          rounds,       \* calls of get_batch that have returned
          arrived,      \* arrived[w]: requests of worker w
          answers       \* answers[w][n]: answers to the n-th request of w

vars == <<q, q_signal, meta_map, pc, batch, held, rounds, arrived, answers>>

Requests == 1 .. MaxRequests

Init ==
    /\ q = [w \in Workers |-> << >>]
    /\ q_signal = {}
    /\ meta_map = << >>
    /\ pc = [c \in Consumers |-> "spin"]
    /\ batch = << >>
    /\ held = {}
    /\ rounds = 0
    /\ arrived = [w \in Workers |-> 0]
    /\ answers = [w \in Workers |-> [n \in Requests |-> 0]]

-----------------------------------------------------------------------------
(* Mutant of RequestHandler: handler_counter_ is not incremented.          *)
SameHandler(w) ==
    /\ arrived[w] < MaxRequests
    /\ arrived' = [arrived EXCEPT ![w] = @ + 1]
    /\ meta_map' = <<[rank |-> w, n |-> arrived[w] + 1]>>
    /\ q' = [q EXCEPT ![w] = Append(@, 1)]
    /\ q_signal' = q_signal \union Shift(w)
    /\ UNCHANGED <<pc, batch, held, rounds, answers>>

(***************************************************************************)
(* RequestHandler, called by the receiving thread with the next request of *)
(* worker w.  The handler is the value of handler_counter_ plus one: the   *)
(* number of requests stored so far.  Its section under mu_ is one step.   *)
(***************************************************************************)
RequestHandler(w) ==
    /\ arrived[w] < MaxRequests
    /\ arrived' = [arrived EXCEPT ![w] = @ + 1]
    /\ meta_map' = Append(meta_map, [rank |-> w, n |-> arrived[w] + 1])
    /\ q' = [q EXCEPT ![w] = Append(@, Len(meta_map) + 1)]
    /\ q_signal' = q_signal \union Shift(w)
    /\ UNCHANGED <<pc, batch, held, rounds, answers>>

(***************************************************************************)
(* get_batch: the spin loop ends; then, some time later, the section under *)
(* mu_.  It takes q_[i][0] of every worker: undefined if there is none.    *)
(***************************************************************************)
SpinExit(c) ==
    /\ pc[c] = "spin"
    /\ q_signal = worker_mask
    /\ pc' = [pc EXCEPT ![c] = "matched"]
    /\ UNCHANGED <<q, q_signal, meta_map, batch, held, rounds, arrived, answers>>

(* Mutant of new_mask: the queue is tested before the pop.                 *)
TestedBeforePop(queues) ==
    worker_mask \ UNION {Shift(w) : w \in {x \in Workers : queues[x] = << >>}}

(***************************************************************************)
(* The value get_batch stores in q_signal_ when it finds these queues.     *)
(***************************************************************************)
new_mask(queues) ==
    worker_mask \
        UNION {Shift(w) : w \in {x \in Workers : Tail(queues[x]) = << >>}}

(* Mutant of TakeBatch: q_signal_ is cleared although requests wait.       *)
SignalCleared(c) ==
    /\ pc[c] = "matched"
    /\ \A w \in Workers : q[w] # << >>
    /\ batch' = [w \in Workers |-> Head(q[w])]
    /\ held' = held \union {Head(q[w]) : w \in Workers}
    /\ q' = [w \in Workers |-> Tail(q[w])]
    /\ q_signal' = {}
    /\ rounds' = rounds + 1
    /\ pc' = [pc EXCEPT ![c] = "spin"]
    /\ UNCHANGED <<meta_map, arrived, answers>>

TakeBatch(c) ==
    /\ pc[c] = "matched"
    /\ \A w \in Workers : q[w] # << >>
    /\ batch' = [w \in Workers |-> Head(q[w])]
    /\ held' = held \union {Head(q[w]) : w \in Workers}
    /\ q' = [w \in Workers |-> Tail(q[w])]
    /\ q_signal' = new_mask(q)
    /\ rounds' = rounds + 1
    /\ pc' = [pc EXCEPT ![c] = "spin"]
    /\ UNCHANGED <<meta_map, arrived, answers>>

(***************************************************************************)
(* respond: the application answers a request it got, by its handler.      *)
(* meta_map_ keeps the entry.                                              *)
(***************************************************************************)
respond(h) ==
    /\ held' = held \ {h}
    /\ answers' = [answers EXCEPT ![meta_map[h].rank][meta_map[h].n] = @ + 1]
    /\ UNCHANGED <<q, q_signal, meta_map, pc, batch, rounds, arrived>>

get_batch(c) == SpinExit(c) \/ TakeBatch(c)

Next ==
    \/ \E w \in Workers : RequestHandler(w)
    \/ \E c \in Consumers : get_batch(c)
    \/ \E h \in held : respond(h)

(***************************************************************************)
(* A server calls get_batch again and again, and answers what it got.      *)
(***************************************************************************)
Fairness ==
    /\ \A c \in Consumers : WF_vars(get_batch(c))
    /\ WF_vars(\E h \in held : respond(h))

Spec == Init /\ [][Next]_vars /\ Fairness

-----------------------------------------------------------------------------
Handlers == 1 .. Len(meta_map)

(* Every handler in q_ or in the program's hands is in meta_map_.          *)
TypeOK ==
    /\ meta_map \in Seq([rank : Workers, n : Requests])
    /\ q \in [Workers -> Seq(Nat)]
    /\ q_signal \subseteq 0 .. 2 * Width - 1
    /\ pc \in [Consumers -> {"spin", "matched"}]
    /\ batch \in {<< >>} \union [Workers -> Handlers]
    /\ held \subseteq Handlers
    /\ rounds \in Nat
    /\ arrived \in [Workers -> 0 .. MaxRequests]
    /\ answers \in [Workers -> [Requests -> Nat]]

(***************************************************************************)
(* get_batch never takes the first element of an empty queue: what the     *)
(* spin loop saw still holds when the lock is taken.                       *)
(***************************************************************************)
NoEmptyPop ==
    \A c \in Consumers : pc[c] = "matched" => \A w \in Workers : q[w] # << >>

(***************************************************************************)
(* A request is answered at most once, and only after get_batch returned   *)
(* it: handlers are never confused.                                        *)
(***************************************************************************)
AnsweredOnce ==
    \A w \in Workers, n \in Requests :
        answers[w][n] <= IF n <= rounds THEN 1 ELSE 0

(***************************************************************************)
(* The n-th call of get_batch returns the n-th request of every worker.    *)
(***************************************************************************)
Returned(w) ==
    IF rounds = 0 THEN <<w, 0>>
    ELSE <<meta_map[batch[w]].rank, meta_map[batch[w]].n>>

Abstract == INSTANCE RoundSpec WITH batch <- [w \in Workers |-> Returned(w)]
ServesRounds == Abstract!Spec

(***************************************************************************)
(* When every worker has sent n requests, get_batch returns n times.       *)
(***************************************************************************)
EveryRoundServed ==
    \A n \in Requests :
        (\A w \in Workers : arrived[w] >= n) ~> (rounds >= n)

=============================================================================
