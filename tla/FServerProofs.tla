---------------------------- MODULE FServerProofs ----------------------------
(***************************************************************************)
(* For any number of workers that the masks have room for, and one thread  *)
(* that calls get_batch: its n-th call returns the n-th request of every   *)
(* worker, it never takes from an empty queue, and no request is answered  *)
(* twice.                                                                  *)
(***************************************************************************)
EXTENDS FServer, TLAPS

(***************************************************************************)
(* The hypotheses: 1 << num_worker_ fits an int, and there is one consumer. *)
(***************************************************************************)
FitsMask == num_worker < Width

OneConsumer == \A c, d \in Consumers : c = d

(***************************************************************************)
(* The inductive invariant.  A bit of q_signal_ is set exactly if the      *)
(* queue is not empty; the queue of a worker holds, in order, its requests *)
(* after the ones of the finished rounds; meta_map_ describes a request    *)
(* once; what the application holds has been returned and not answered.    *)
(***************************************************************************)
SignalExact == q_signal = {w \in Workers : q[w] # << >>}

Stands(h, w, n) ==
    /\ h \in Handlers
    /\ meta_map[h].rank = w
    /\ meta_map[h].n = n

Queued(w) ==
    /\ Len(q[w]) = arrived[w] - rounds
    /\ \A i \in 1 .. Len(q[w]) : Stands(q[w][i], w, rounds + i)

QueuesOK == \A w \in Workers : Queued(w)

MapOK ==
    /\ \A h \in Handlers : meta_map[h].n <= arrived[meta_map[h].rank]
    /\ \A h, i \in Handlers :
          meta_map[h].rank = meta_map[i].rank /\ meta_map[h].n = meta_map[i].n
          => h = i

HeldOK ==
    \A h \in held : /\ meta_map[h].n <= rounds
                    /\ answers[meta_map[h].rank][meta_map[h].n] = 0

BatchOK == rounds > 0 => \A w \in Workers : Stands(batch[w], w, rounds)

Inv ==
    /\ TypeOK /\ SignalExact /\ QueuesOK /\ MapOK /\ HeldOK /\ BatchOK
    /\ NoEmptyPop /\ AnsweredOnce

-----------------------------------------------------------------------------
(***************************************************************************)
(* With room for every worker, a worker's bit is its own and the mask has  *)
(* the bits of the workers.                                                *)
(***************************************************************************)
LEMMA MaskFacts ==
    ASSUME FitsMask
    PROVE  /\ worker_mask = Workers
           /\ \A w \in Workers : Shift(w) = {w}
           /\ Workers \subseteq 0 .. 2 * Width - 1
           /\ Workers # {}
  <1>1. /\ num_worker \in Nat /\ num_worker > 0
        /\ Width \in Nat /\ num_worker < Width
    BY FServerAssumption DEF FitsMask
  <1>2. num_worker % Width = num_worker
    BY <1>1
  <1>3. worker_mask = Workers
    BY <1>2 DEF worker_mask, Workers
  <1>4. ASSUME NEW w \in Workers PROVE Shift(w) = {w}
    <2>1. w \in Nat /\ w < Width - 1
      BY <1>1 DEF Workers
    <2>2. w % Width = w
      BY <1>1, <2>1
    <2> QED BY <1>1, <2>1, <2>2 DEF Shift
  <1>5. Workers \subseteq 0 .. 2 * Width - 1 /\ 0 \in Workers
    BY <1>1 DEF Workers
  <1> QED BY <1>3, <1>4, <1>5

(***************************************************************************)
(* The elements of a sequence.                                             *)
(***************************************************************************)
LEMMA ElementType ==
    ASSUME NEW S, NEW s \in Seq(S), NEW i \in 1 .. Len(s)
    PROVE  s[i] \in S
  OBVIOUS

(***************************************************************************)
(* The invariant holds in the beginning.                                   *)
(***************************************************************************)
LEMMA InitInv == Init => Inv
  <1> SUFFICES ASSUME Init PROVE Inv
    OBVIOUS
  <1>1. Handlers = {} /\ Len(meta_map) = 0
    BY DEF Init, Handlers
  <1>2. TypeOK
    <2>1. 0 \in 0 .. MaxRequests /\ << >> \in Seq(Nat)
      BY FServerAssumption
    <2> QED BY <2>1 DEF Init, TypeOK
  <1>3. QueuesOK
    BY DEF Init, QueuesOK, Queued
  <1>4. AnsweredOnce
    BY DEF Init, AnsweredOnce, Requests
  <1> QED BY <1>1, <1>2, <1>3, <1>4
          DEF Init, Inv, SignalExact, MapOK, HeldOK, BatchOK, NoEmptyPop

(***************************************************************************)
(* RequestHandler preserves the invariant.                                 *)
(***************************************************************************)
LEMMA RequestInv ==
    ASSUME FitsMask, Inv, NEW w \in Workers, RequestHandler(w)
    PROVE  Inv'
  <1> DEFINE h == Len(meta_map) + 1
             n == arrived[w] + 1
             meta == [rank |-> w, n |-> n]
  <1>1. /\ arrived[w] < MaxRequests
        /\ arrived' = [arrived EXCEPT ![w] = arrived[w] + 1]
        /\ meta_map' = Append(meta_map, meta)
        /\ q' = [q EXCEPT ![w] = Append(q[w], h)]
        /\ q_signal' = q_signal \union Shift(w)
        /\ UNCHANGED <<pc, batch, held, rounds, answers>>
    BY DEF RequestHandler
  <1>2. /\ meta_map \in Seq([rank : Workers, n : Requests])
        /\ q \in [Workers -> Seq(Nat)]
        /\ arrived \in [Workers -> 0 .. MaxRequests]
        /\ rounds \in Nat
    BY DEF Inv, TypeOK
  <1>3. arrived[w] \in Nat /\ q[w] \in Seq(Nat) /\ Len(q[w]) \in Nat
    BY <1>2
  <1>4. n \in Requests /\ n \in 0 .. MaxRequests
    BY <1>1, <1>3, FServerAssumption DEF Requests
  <1>5. meta \in [rank : Workers, n : Requests] /\ meta.rank = w /\ meta.n = n
    BY <1>4
  <1> HIDE DEF meta
  <1>6. /\ meta_map' \in Seq([rank : Workers, n : Requests])
        /\ Len(meta_map') = Len(meta_map) + 1
        /\ meta_map'[h] = meta
        /\ \A i \in Handlers : meta_map'[i] = meta_map[i]
        /\ Len(meta_map) \in Nat
    BY <1>1, <1>2, <1>5 DEF Handlers
  <1>7. /\ Handlers \subseteq Handlers'
        /\ h \in Handlers'
        /\ \A i \in Handlers' : i \in Handlers \/ i = h
        /\ h \notin Handlers
    BY <1>6 DEF Handlers
  <1>8. ASSUME NEW i, NEW x, NEW k, Stands(i, x, k) PROVE Stands(i, x, k)'
    BY <1>6, <1>7, <1>8 DEF Stands
  <1>10. /\ q' \in [Workers -> Seq(Nat)]
         /\ q'[w] = Append(q[w], h)
         /\ \A x \in Workers : x # w => q'[x] = q[x]
    <2>1. h \in Nat
      BY <1>6
    <2> QED BY <1>1, <1>2, <1>3, <2>1
  <1>11. /\ arrived' \in [Workers -> 0 .. MaxRequests]
         /\ arrived'[w] = n
         /\ \A x \in Workers : x # w => arrived'[x] = arrived[x]
    BY <1>1, <1>2, <1>4
  <1>12. TypeOK'
    <2>1. q_signal' \subseteq 0 .. 2 * Width - 1
      <3>1. q_signal \subseteq 0 .. 2 * Width - 1
        BY DEF Inv, TypeOK
      <3>2. q_signal' = q_signal \union {w} /\ w \in 0 .. 2 * Width - 1
        BY <1>1, MaskFacts
      <3> QED BY <3>1, <3>2
    <2>2. batch' \in {<< >>} \union [Workers -> Handlers']
      BY <1>1, <1>7 DEF Inv, TypeOK
    <2>3. held' \subseteq Handlers'
      BY <1>1, <1>7 DEF Inv, TypeOK
    <2> QED BY <1>1, <1>6, <1>10, <1>11, <2>1, <2>2, <2>3 DEF Inv, TypeOK
  <1>13. /\ Len(q'[w]) = Len(q[w]) + 1
         /\ q'[w][Len(q[w]) + 1] = h
         /\ \A i \in 1 .. Len(q[w]) : q'[w][i] = q[w][i]
         /\ q'[w] # << >>
    <2>1. h \in Nat
      BY <1>6
    <2> QED BY <1>3, <1>10, <2>1
  <1>14. SignalExact'
    BY <1>1, <1>10, <1>13, MaskFacts DEF Inv, SignalExact
  <1>15. QueuesOK'
    <2> SUFFICES ASSUME NEW x \in Workers PROVE Queued(x)'
      BY DEF QueuesOK
    <2>1. Queued(x) /\ Queued(w)
      BY DEF Inv, QueuesOK
    <2>2. CASE x # w
      BY <1>1, <1>8, <1>10, <1>11, <2>1, <2>2 DEF Queued
    <2>3. CASE x = w
      <3>1. Len(q'[w]) = arrived'[w] - rounds'
        BY <1>1, <1>2, <1>3, <1>11, <1>13, <2>1 DEF Queued
      <3>2. ASSUME NEW i \in 1 .. Len(q'[w])
            PROVE  Stands(q[w][i], w, rounds + i)'
        <4>1. CASE i \in 1 .. Len(q[w])
          <5>1. Stands(q[w][i], w, rounds + i)
            BY <2>1, <4>1 DEF Queued
          <5> QED BY <1>1, <1>8, <1>13, <4>1, <5>1
        <4>2. CASE i = Len(q[w]) + 1
          <5>1. rounds + i = n
            BY <1>2, <1>3, <2>1, <4>2 DEF Queued
          <5>2. q'[w][i] = h
            BY <1>13, <4>2
          <5>3. (rounds + i)' = n
            BY <1>1, <5>1
          <5> HIDE DEF n, h
          <5> QED BY <1>5, <1>6, <1>7, <5>2, <5>3 DEF Stands, h, n
        <4> QED BY <1>3, <1>13, <4>1, <4>2
      <3> QED BY <2>3, <3>1, <3>2 DEF Queued
    <2> QED BY <2>2, <2>3
  <1>16. MapOK'
    <2>1. ASSUME NEW i \in Handlers
          PROVE  /\ meta_map[i].n \in Nat
                 /\ meta_map[i].rank \in Workers
                 /\ meta_map[i].n <= arrived[meta_map[i].rank]
                 /\ meta_map[i].rank = w => meta_map[i].n < n
      <3>1. meta_map[i] \in [rank : Workers, n : Requests]
        BY <1>2, ElementType, Zenon DEF Handlers
      <3>2. meta_map[i].n \in Nat /\ meta_map[i].rank \in Workers
        BY <3>1, FServerAssumption DEF Requests
      <3>3. meta_map[i].n <= arrived[meta_map[i].rank]
        BY DEF Inv, MapOK
      <3> QED BY <1>3, <3>2, <3>3
    <2>2. ASSUME NEW i \in Handlers'
          PROVE  meta_map'[i].n <= arrived'[meta_map'[i].rank]
      <3>1. CASE i = h
        BY <1>3, <1>5, <1>6, <1>11, <3>1
      <3>2. CASE i \in Handlers
        <4>1. meta_map'[i] = meta_map[i]
          BY <1>6, <3>2
        <4>2. CASE meta_map[i].rank = w
          BY <1>3, <1>11, <2>1, <3>2, <4>1, <4>2
        <4>3. CASE meta_map[i].rank # w
          BY <1>11, <2>1, <3>2, <4>1, <4>3
        <4> QED BY <4>2, <4>3
      <3> QED BY <1>7, <3>1, <3>2
    <2>3. ASSUME NEW i \in Handlers', NEW j \in Handlers',
                 meta_map'[i].rank = meta_map'[j].rank,
                 meta_map'[i].n = meta_map'[j].n
          PROVE  i = j
      <3>1. CASE i \in Handlers /\ j \in Handlers
        BY <1>6, <2>3, <3>1 DEF Inv, MapOK
      <3>2. ASSUME NEW k \in Handlers, meta_map'[k].rank = meta_map'[h].rank,
                   meta_map'[k].n = meta_map'[h].n
            PROVE  FALSE
        <4>1. meta_map[k].rank = w /\ meta_map[k].n = n
          BY <1>5, <1>6, <3>2
        <4> QED BY <1>3, <2>1, <4>1
      <3> QED BY <1>7, <2>3, <3>1, <3>2
    <2> QED BY <2>2, <2>3 DEF MapOK
  <1>17. HeldOK'
    <2>1. \A i \in held : meta_map'[i] = meta_map[i]
      BY <1>6 DEF Inv, TypeOK
    <2> QED BY <1>1, <2>1, Zenon DEF Inv, HeldOK
  <1>18. BatchOK'
    BY <1>1, <1>8 DEF Inv, BatchOK
  <1>19. NoEmptyPop' /\ AnsweredOnce'
    BY <1>1, <1>10, <1>13 DEF Inv, NoEmptyPop, AnsweredOnce
  <1> QED BY <1>12, <1>14, <1>15, <1>16, <1>17, <1>18, <1>19 DEF Inv

(***************************************************************************)
(* The end of the spin loop preserves the invariant: q_signal_ equals the  *)
(* mask only if no queue is empty.                                         *)
(***************************************************************************)
LEMMA SpinInv ==
    ASSUME FitsMask, Inv, NEW c \in Consumers, SpinExit(c)
    PROVE  Inv'
  <1>1. /\ q_signal = worker_mask
        /\ pc' = [pc EXCEPT ![c] = "matched"]
        /\ UNCHANGED <<q, q_signal, meta_map, batch, held, rounds, arrived,
                       answers>>
    BY DEF SpinExit
  <1>2. \A w \in Workers : q[w] # << >>
    BY <1>1, MaskFacts DEF Inv, SignalExact
  <1>3. NoEmptyPop'
    BY <1>1, <1>2 DEF NoEmptyPop
  <1>4. TypeOK'
    BY <1>1 DEF Inv, TypeOK, Handlers
  <1>5. QueuesOK' /\ BatchOK'
    BY <1>1 DEF Inv, QueuesOK, Queued, BatchOK, Stands, Handlers
  <1> QED BY <1>1, <1>3, <1>4, <1>5
          DEF Inv, SignalExact, MapOK, HeldOK, AnsweredOnce, Handlers

(***************************************************************************)
(* What the section of get_batch under mu_ takes and leaves.               *)
(***************************************************************************)
LEMMA TakeFacts ==
    ASSUME Inv, NEW c \in Consumers, TakeBatch(c), NEW w \in Workers
    PROVE  /\ Stands(Head(q[w]), w, rounds + 1)
           /\ rounds + 1 <= arrived[w]
           /\ rounds + 1 \in Requests
           /\ q'[w] = Tail(q[w])
           /\ q'[w] \in Seq(Nat)
           /\ Len(q'[w]) = Len(q[w]) - 1
           /\ \A i \in 1 .. Len(q'[w]) : q'[w][i] = q[w][i + 1]
           /\ batch'[w] = Head(q[w])
  <1>1. /\ q' = [x \in Workers |-> Tail(q[x])]
        /\ q[w] # << >>
        /\ batch' = [x \in Workers |-> Head(q[x])]
    BY DEF TakeBatch
  <1>2. q[w] \in Seq(Nat) /\ rounds \in Nat /\ arrived[w] \in 0 .. MaxRequests
    BY DEF Inv, TypeOK
  <1>3. Queued(w)
    BY DEF Inv, QueuesOK
  <1>4. Len(q[w]) \in Nat /\ Len(q[w]) >= 1 /\ Head(q[w]) = q[w][1]
    BY <1>1, <1>2
  <1>5. Stands(q[w][1], w, rounds + 1)
    BY <1>3, <1>4 DEF Queued
  <1>6. rounds + 1 <= arrived[w] /\ rounds + 1 \in Requests
    BY <1>2, <1>3, <1>4, FServerAssumption DEF Queued, Requests
  <1>7. q'[w] = Tail(q[w]) /\ batch'[w] = Head(q[w])
    BY <1>1
  <1>8. /\ Tail(q[w]) \in Seq(Nat)
        /\ Len(Tail(q[w])) = Len(q[w]) - 1
        /\ \A i \in 1 .. Len(Tail(q[w])) : Tail(q[w])[i] = q[w][i + 1]
    BY <1>1, <1>2
  <1> QED BY <1>4, <1>5, <1>6, <1>7, <1>8

(***************************************************************************)
(* get_batch's section under mu_ preserves the invariant.                  *)
(***************************************************************************)
LEMMA TakeInv ==
    ASSUME FitsMask, OneConsumer, Inv, NEW c \in Consumers, TakeBatch(c)
    PROVE  Inv'
  <1>1. /\ pc' = [pc EXCEPT ![c] = "spin"]
        /\ \A w \in Workers : q[w] # << >>
        /\ batch' = [w \in Workers |-> Head(q[w])]
        /\ held' = held \union {Head(q[w]) : w \in Workers}
        /\ q' = [w \in Workers |-> Tail(q[w])]
        /\ q_signal' = new_mask(q)
        /\ rounds' = rounds + 1
        /\ UNCHANGED <<meta_map, arrived, answers>>
    BY DEF TakeBatch
  <1>2. Handlers' = Handlers
    BY <1>1 DEF Handlers
  <1>3. ASSUME NEW h, NEW w, NEW n
        PROVE  Stands(h, w, n)' <=> Stands(h, w, n)
    BY <1>1, <1>2 DEF Stands
  <1>4. rounds \in Nat /\ rounds' \in Nat
    BY <1>1 DEF Inv, TypeOK
  <1>5. q_signal' = {w \in Workers : Tail(q[w]) # << >>}
    <2> DEFINE E == {w \in Workers : Tail(q[w]) = << >>}
    <2>1. \A w \in E : Shift(w) = {w}
      BY MaskFacts
    <2>2. UNION {Shift(w) : w \in E} = E
      BY <2>1
    <2>3. q_signal' = Workers \ E
      BY <1>1, <2>2, MaskFacts, Zenon DEF new_mask
    <2> QED BY <2>3
  <1>6. TypeOK'
    <2>1. \A w \in Workers : Head(q[w]) \in Handlers
      BY TakeFacts DEF Stands
    <2>2. batch' \in [Workers -> Handlers] /\ held' \subseteq Handlers
      BY <1>1, <2>1 DEF Inv, TypeOK
    <2>3. q' \in [Workers -> Seq(Nat)]
      BY <1>1, TakeFacts
    <2>4. q_signal' \subseteq 0 .. 2 * Width - 1
      BY <1>5, MaskFacts
    <2>5. pc' \in [Consumers -> {"spin", "matched"}]
      BY <1>1 DEF Inv, TypeOK
    <2> QED BY <1>1, <1>2, <1>4, <2>2, <2>3, <2>4, <2>5 DEF Inv, TypeOK
  <1>7. SignalExact'
    BY <1>1, <1>5 DEF SignalExact
  <1>8. QueuesOK'
    <2> SUFFICES ASSUME NEW w \in Workers PROVE Queued(w)'
      BY DEF QueuesOK
    <2>1. /\ Len(q'[w]) = Len(q[w]) - 1
          /\ \A i \in 1 .. Len(q'[w]) : q'[w][i] = q[w][i + 1]
          /\ q'[w] \in Seq(Nat)
          /\ q[w] \in Seq(Nat)
      BY TakeFacts DEF Inv, TypeOK
    <2>2. /\ Len(q[w]) = arrived[w] - rounds
          /\ \A i \in 1 .. Len(q[w]) : Stands(q[w][i], w, rounds + i)
      BY DEF Inv, QueuesOK, Queued
    <2>3. arrived[w] \in Nat
      BY DEF Inv, TypeOK
    <2>4. Len(q'[w]) = arrived'[w] - rounds'
      BY <1>1, <1>4, <2>1, <2>2, <2>3
    <2>5. ASSUME NEW i \in 1 .. Len(q'[w])
          PROVE  Stands(q[w][i], w, rounds + i)'
      <3>0. Len(q[w]) \in Nat /\ Len(q'[w]) = Len(q[w]) - 1
        BY <2>1
      <3>1. i + 1 \in 1 .. Len(q[w]) /\ i \in Nat
        BY ONLY <3>0, i \in 1 .. Len(q'[w])
      <3>2. Stands(q[w][i + 1], w, rounds + (i + 1))
        BY <2>2, <3>1
      <3>3. rounds + (i + 1) = rounds' + i
        BY <1>1, <1>4, <3>1
      <3> QED BY <1>3, <2>1, <3>2, <3>3, Zenon
    <2> QED BY <2>4, <2>5 DEF Queued
  <1>9. MapOK'
    BY <1>1, <1>2 DEF Inv, MapOK
  <1>10. AnsweredOnce'
    <2> SUFFICES ASSUME NEW w \in Workers, NEW n \in Requests
                 PROVE  answers[w][n] <= IF n <= rounds + 1 THEN 1 ELSE 0
      BY <1>1 DEF AnsweredOnce
    <2>1. answers[w][n] <= IF n <= rounds THEN 1 ELSE 0
      BY DEF Inv, AnsweredOnce
    <2>2. answers[w][n] \in Nat
      <3>1. answers[w] \in [Requests -> Nat]
        BY DEF Inv, TypeOK
      <3> QED BY <3>1
    <2> QED BY <1>4, <2>1, <2>2 DEF Requests
  <1>11. HeldOK'
    <2> SUFFICES ASSUME NEW h \in held'
                 PROVE  /\ meta_map[h].n <= rounds + 1
                        /\ answers[meta_map[h].rank][meta_map[h].n] = 0
      BY <1>1 DEF HeldOK
    <2>1. CASE h \in held
      <3>1. /\ meta_map[h].n <= rounds
            /\ answers[meta_map[h].rank][meta_map[h].n] = 0
        BY <2>1 DEF Inv, HeldOK
      <3>2. meta_map[h].n \in Nat
        <4>1. meta_map[h] \in [rank : Workers, n : Requests]
          BY <2>1, ElementType, Zenon DEF Inv, TypeOK, Handlers
        <4> QED BY <4>1, FServerAssumption DEF Requests
      <3> QED BY <1>4, <3>1, <3>2
    <2>2. ASSUME NEW w \in Workers, h = Head(q[w])
          PROVE  /\ meta_map[h].n <= rounds + 1
                 /\ answers[meta_map[h].rank][meta_map[h].n] = 0
      <3>1. /\ meta_map[h].rank = w
            /\ meta_map[h].n = rounds + 1
            /\ rounds + 1 \in Requests
        BY <2>2, TakeFacts DEF Stands
      <3>2. answers[w][rounds + 1] <= IF rounds + 1 <= rounds THEN 1 ELSE 0
        BY <3>1 DEF Inv, AnsweredOnce
      <3>3. answers[w][rounds + 1] \in Nat
        <4>1. answers[w] \in [Requests -> Nat]
          BY DEF Inv, TypeOK
        <4> QED BY <3>1, <4>1
      <3>4. answers[w][rounds + 1] = 0
        BY <1>4, <3>2, <3>3
      <3> QED BY <1>4, <3>1, <3>4
    <2> QED BY <1>1, <2>1, <2>2
  <1>12. BatchOK'
    <2>1. ASSUME NEW w \in Workers PROVE Stands(batch[w], w, rounds)'
      <3>1. Stands(Head(q[w]), w, rounds + 1) /\ batch'[w] = Head(q[w])
        BY TakeFacts
      <3> QED BY <1>1, <1>3, <3>1
    <2> QED BY <2>1 DEF BatchOK
  <1>13. NoEmptyPop'
    <2>1. \A d \in Consumers : pc'[d] = "spin"
      BY <1>1 DEF OneConsumer, Inv, TypeOK
    <2> QED BY <2>1 DEF NoEmptyPop
  <1> QED BY <1>6, <1>7, <1>8, <1>9, <1>10, <1>11, <1>12, <1>13 DEF Inv

(***************************************************************************)
(* respond preserves the invariant: no other handler stands for the same   *)
(* request.                                                                *)
(***************************************************************************)
LEMMA RespondInv ==
    ASSUME Inv, NEW h \in held, respond(h)
    PROVE  Inv'
  <1> DEFINE w == meta_map[h].rank
             n == meta_map[h].n
  <1>1. /\ held' = held \ {h}
        /\ answers' = [answers EXCEPT ![w][n] = answers[w][n] + 1]
        /\ UNCHANGED <<q, q_signal, meta_map, pc, batch, rounds, arrived>>
    BY DEF respond
  <1>2. /\ h \in Handlers
        /\ w \in Workers /\ n \in Requests
    <2>1. h \in Handlers
      BY DEF Inv, TypeOK
    <2>2. meta_map[h] \in [rank : Workers, n : Requests]
      BY <2>1, ElementType, Zenon DEF Inv, TypeOK, Handlers
    <2> QED BY <2>1, <2>2
  <1>3. n <= rounds /\ answers[w][n] = 0
    BY DEF Inv, HeldOK
  <1>4. answers \in [Workers -> [Requests -> Nat]]
    BY DEF Inv, TypeOK
  <1> HIDE DEF w, n
  <1>5. /\ answers' \in [Workers -> [Requests -> Nat]]
        /\ answers'[w][n] = 1
        /\ \A x \in Workers, k \in Requests :
              ~(x = w /\ k = n) => answers'[x][k] = answers[x][k]
    BY <1>1, <1>2, <1>3, <1>4
  <1>6. TypeOK'
    BY <1>1, <1>5, Zenon DEF Inv, TypeOK, Handlers
  <1>7. AnsweredOnce'
    <2> SUFFICES ASSUME NEW x \in Workers, NEW k \in Requests
                 PROVE  answers'[x][k] <= IF k <= rounds THEN 1 ELSE 0
      BY <1>1 DEF AnsweredOnce
    <2>1. CASE x = w /\ k = n
      BY <1>3, <1>5, <2>1
    <2>2. CASE ~(x = w /\ k = n)
      BY <1>5, <2>2 DEF Inv, AnsweredOnce
    <2> QED BY <2>1, <2>2
  <1>8. HeldOK'
    <2> SUFFICES ASSUME NEW i \in held, i # h
                 PROVE  /\ meta_map[i].n <= rounds
                        /\ answers'[meta_map[i].rank][meta_map[i].n] = 0
      BY <1>1 DEF HeldOK
    <2>1. /\ meta_map[i].n <= rounds
          /\ answers[meta_map[i].rank][meta_map[i].n] = 0
      BY DEF Inv, HeldOK
    <2>2. i \in Handlers
      BY DEF Inv, TypeOK
    <2>3. meta_map[i].rank \in Workers /\ meta_map[i].n \in Requests
      <3>1. meta_map[i] \in [rank : Workers, n : Requests]
        BY <2>2, ElementType, Zenon DEF Inv, TypeOK, Handlers
      <3> QED BY <3>1
    <2>4. ~(meta_map[i].rank = w /\ meta_map[i].n = n)
      BY <1>2, <2>2 DEF Inv, MapOK, w, n
    <2> QED BY <1>5, <2>1, <2>3, <2>4
  <1>9. QueuesOK' /\ BatchOK'
    BY <1>1 DEF Inv, QueuesOK, Queued, BatchOK, Stands, Handlers
  <1> QED BY <1>1, <1>6, <1>7, <1>8, <1>9
          DEF Inv, SignalExact, MapOK, NoEmptyPop, Handlers

(***************************************************************************)
(* Every step preserves the invariant.                                     *)
(***************************************************************************)
LEMMA StepInv == FitsMask /\ OneConsumer /\ Inv /\ [Next]_vars => Inv'
  <1> SUFFICES ASSUME FitsMask, OneConsumer, Inv, [Next]_vars PROVE Inv'
    OBVIOUS
  <1>1. ASSUME NEW w \in Workers, RequestHandler(w) PROVE Inv'
    BY <1>1, RequestInv
  <1>2. ASSUME NEW c \in Consumers, get_batch(c) PROVE Inv'
    BY <1>2, SpinInv, TakeInv DEF get_batch
  <1>3. ASSUME NEW h \in held, respond(h) PROVE Inv'
    BY <1>3, RespondInv
  <1>4. CASE UNCHANGED vars
    <2>1. QueuesOK' /\ BatchOK'
      BY <1>4 DEF vars, Inv, QueuesOK, Queued, BatchOK, Stands, Handlers
    <2> QED BY <1>4, <2>1 DEF vars, Inv, TypeOK, SignalExact, MapOK, HeldOK,
                              NoEmptyPop, AnsweredOnce, Handlers
  <1> QED BY <1>1, <1>2, <1>3, <1>4 DEF Next

-----------------------------------------------------------------------------
(***************************************************************************)
(* TypeOK is an invariant.                                                 *)
(***************************************************************************)
THEOREM TypeCorrect == ASSUME FitsMask, OneConsumer PROVE Spec => []TypeOK
  <1>1. Inv => TypeOK
    BY DEF Inv
  <1> QED BY <1>1, InitInv, StepInv, PTL DEF Spec

(***************************************************************************)
(* get_batch never takes from an empty queue.                              *)
(***************************************************************************)
THEOREM QueuesNotEmpty == ASSUME FitsMask, OneConsumer PROVE Spec => []NoEmptyPop
  <1>1. Inv => NoEmptyPop
    BY DEF Inv
  <1> QED BY <1>1, InitInv, StepInv, PTL DEF Spec

(***************************************************************************)
(* No request is answered twice, or before get_batch has returned it.      *)
(***************************************************************************)
THEOREM AnswersAreUnique ==
    ASSUME FitsMask, OneConsumer PROVE Spec => []AnsweredOnce
  <1>1. Inv => AnsweredOnce
    BY DEF Inv
  <1> QED BY <1>1, InitInv, StepInv, PTL DEF Spec

(***************************************************************************)
(* The queues, the signal word and the handlers implement RoundSpec: the   *)
(* n-th call of get_batch returns the n-th request of every worker.        *)
(***************************************************************************)
THEOREM RoundRefinement ==
    ASSUME FitsMask, OneConsumer PROVE Spec => ServesRounds
  <1> DEFINE returned == [w \in Workers |-> Returned(w)]
  <1>1. Init => Abstract!Init
    BY DEF Init, Abstract!Init, Returned
  <1>2. ASSUME Inv, Inv'
        PROVE  returned = [w \in Workers |-> <<w, rounds>>]
    <2>1. ASSUME NEW w \in Workers PROVE Returned(w) = <<w, rounds>>
      <3>1. CASE rounds = 0
        BY <3>1 DEF Returned
      <3>2. CASE rounds # 0
        <4>1. rounds \in Nat
          BY <1>2 DEF Inv, TypeOK
        <4>2. Stands(batch[w], w, rounds)
          BY <1>2, <3>2, <4>1 DEF Inv, BatchOK
        <4> QED BY <3>2, <4>2 DEF Stands, Returned
      <3> QED BY <3>1, <3>2
    <2> QED BY <2>1
  <1>3. ASSUME Inv, Inv'
        PROVE  returned' = [w \in Workers |-> <<w, rounds'>>]
    <2>1. ASSUME NEW w \in Workers PROVE Returned(w)' = <<w, rounds'>>
      <3>1. CASE rounds' = 0
        BY <3>1 DEF Returned
      <3>2. CASE rounds' # 0
        <4>1. rounds' \in Nat
          BY <1>3 DEF Inv, TypeOK
        <4>2. Stands(batch[w], w, rounds)'
          BY <1>3, <3>2, <4>1 DEF Inv, BatchOK
        <4> QED BY <3>2, <4>2 DEF Stands, Returned
      <3> QED BY <3>1, <3>2
    <2> QED BY <2>1
  <1>4. ASSUME Inv, Inv', [Next]_vars
        PROVE  [Abstract!Next]_<<arrived, rounds, returned>>
    <2>1. ASSUME NEW w \in Workers, RequestHandler(w)
          PROVE  Abstract!Next
      <3>1. rounds' = rounds /\ returned' = returned
        BY <1>2, <1>3, <1>4, <2>1 DEF RequestHandler
      <3>2. arrived' = [arrived EXCEPT ![w] = arrived[w] + 1]
        BY <2>1 DEF RequestHandler
      <3>3. Abstract!Arrive(w)
        BY <3>1, <3>2 DEF Abstract!Arrive
      <3> QED BY <3>3 DEF Abstract!Next
    <2>2. ASSUME NEW c \in Consumers, SpinExit(c)
          PROVE  UNCHANGED <<arrived, rounds, returned>>
      <3>1. rounds' = rounds /\ arrived' = arrived
        BY <2>2 DEF SpinExit
      <3> QED BY <1>2, <1>3, <1>4, <3>1
    <2>3. ASSUME NEW c \in Consumers, TakeBatch(c)
          PROVE  Abstract!Next
      <3>1. rounds' = rounds + 1 /\ arrived' = arrived
        BY <2>3 DEF TakeBatch
      <3>2. \A w \in Workers : arrived[w] > rounds
        <4> SUFFICES ASSUME NEW w \in Workers PROVE arrived[w] > rounds
          OBVIOUS
        <4>1. rounds + 1 <= arrived[w]
          BY <1>4, <2>3, TakeFacts
        <4>2. rounds \in Nat /\ arrived[w] \in Nat
          BY <1>4 DEF Inv, TypeOK
        <4> QED BY <4>1, <4>2
      <3>3. returned' = [w \in Workers |-> <<w, rounds + 1>>]
        BY <1>3, <1>4, <3>1
      <3>4. Abstract!GetBatch
        BY <3>1, <3>2, <3>3 DEF Abstract!GetBatch
      <3> QED BY <3>4 DEF Abstract!Next
    <2>4. ASSUME NEW h \in held, respond(h)
          PROVE  UNCHANGED <<arrived, rounds, returned>>
      <3>1. rounds' = rounds /\ arrived' = arrived
        BY <2>4 DEF respond
      <3> QED BY <1>2, <1>3, <1>4, <3>1
    <2>5. CASE UNCHANGED vars
      <3>1. rounds' = rounds /\ arrived' = arrived
        BY <2>5 DEF vars
      <3> QED BY <1>2, <1>3, <1>4, <3>1
    <2> QED BY <1>4, <2>1, <2>2, <2>3, <2>4, <2>5 DEF Next, get_batch
  <1> QED BY <1>1, <1>4, InitInv, StepInv, PTL
          DEF Spec, ServesRounds, Abstract!Spec

=============================================================================
