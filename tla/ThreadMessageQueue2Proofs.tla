---------------------- MODULE ThreadMessageQueue2Proofs ----------------------
(***************************************************************************)
(* Theorems about ThreadMessageQueue2 for every number of threads, every   *)
(* capacity and every mixture of calls.                                    *)
(***************************************************************************)
EXTENDS ThreadMessageQueue2, FiniteSetTheorems, SequenceTheorems, TLAPS

(* What one step can do to the shared state: append the next message, take *)
(* the oldest one, or leave both sequences alone.                          *)
LEMMA StepEffect ==
  ASSUME [Next]_vars
  PROVE  \/ \E p \in Producers : Push(p) /\ ~Full
         \/ \E c \in Consumers : Pop(c) /\ queue # <<>>
         \/ UNCHANGED <<queue, delivered>>
  BY DEF Next, vars, ProducerStep, ConsumerStep, WakerStep, TryPush,
         WaitAndPush, NotifyNotEmpty, NotifyOne, TryPop,
         WaitAndPop, WaitForPop, NotifyNotFull, Block, SpuriousWakeup,
         RaiseAbort, WakeupNotFull, WakeupNotEmpty

(* TypeOK is an invariant: the threads stay in the states of their role    *)
(* (thread_message_queue2.hpp:70-166).                                     *)
THEOREM TypeCorrect == Spec => []TypeOK
  <1>1. Init => TypeOK
    <2> SUFFICES ASSUME Init PROVE TypeOK
      OBVIOUS
    <2>1. queue \in Seq(Nat) /\ delivered \in Seq(Nat)
      BY DEF Init
    <2>2. \A t \in Threads : pc[t] = "idle"
      BY DEF Init
    <2>3. pc \in [Threads -> ProducerStates \cup ConsumerStates]
      BY DEF Init, ProducerStates
    <2>4. QED
      BY <2>1, <2>2, <2>3 DEF Init, TypeOK, ProducerStates, ConsumerStates, Threads
  <1>2. TypeOK /\ [Next]_vars => TypeOK'
    <2> SUFFICES ASSUME TypeOK, [Next]_vars PROVE TypeOK'
      OBVIOUS
    <2> USE QueueAssumption DEF TypeOK, ProducerStates, ConsumerStates, Threads,
          OnNotFull, OnNotEmpty, Goto
    <2>1. ASSUME NEW p \in Producers, Push(p) PROVE TypeOK'
      BY <2>1 DEF Push, Enqueue, Pushed
    <2>2. ASSUME NEW c \in Consumers, Pop(c), queue # <<>> PROVE TypeOK'
      BY <2>2 DEF Pop
    <2>3. ASSUME NEW t \in Threads, NEW W, NotifyOne(t, W),
                 W \in {OnNotFull, OnNotEmpty}
          PROVE TypeOK'
      BY <2>3 DEF NotifyOne, At, Woken
    <2>4. ASSUME NEW c \in Consumers, Block(c) PROVE TypeOK'
      BY <2>4 DEF Block
    <2>5. ASSUME NEW t \in Threads, SpuriousWakeup(t) PROVE TypeOK'
      BY <2>5 DEF SpuriousWakeup, Woken
    <2>6. ASSUME NEW c \in Consumers, WaitForPop(c) PROVE TypeOK'
      BY <2>6 DEF WaitForPop
    <2>7. ASSUME NEW p \in Producers, Goto(p, "waiting_push"),
                 UNCHANGED <<queue, delivered, abort, waker>>
          PROVE TypeOK'
      BY <2>7
    <2>8. ASSUME NEW c \in Consumers, Goto(c, "waiting_pop"),
                 UNCHANGED <<queue, delivered, abort, waker>>
          PROVE TypeOK'
      BY <2>8
    <2>9. CASE WakerStep
      BY <2>9 DEF WakerStep, RaiseAbort, WakeupNotFull, WakeupNotEmpty,
                  NotifyAll, Woken
    <2>10. CASE UNCHANGED vars
      BY <2>10 DEF vars
    <2>11. QED
      BY <2>1, <2>2, <2>3, <2>4, <2>5, <2>6, <2>7, <2>8, <2>9, <2>10
         DEF Next, ProducerStep, ConsumerStep, TryPush, WaitAndPush, TryPop,
             WaitAndPop, NotifyNotEmpty, NotifyNotFull
  <1>3. QED
    BY <1>1, <1>2, PTL DEF Spec

(* NeverOverfull: a bounded queue never exceeds its limit                  *)
(* (thread_message_queue2.hpp:71-106).                                     *)
THEOREM NeverOverfullHolds == Spec => []NeverOverfull
  <1>1. Init => NeverOverfull
    BY QueueAssumption DEF Init, NeverOverfull
  <1>2. TypeOK /\ NeverOverfull /\ [Next]_vars => NeverOverfull'
    <2> SUFFICES ASSUME TypeOK, NeverOverfull, [Next]_vars, MaxSize # -1
                 PROVE  Len(queue') <= MaxSize
      BY DEF NeverOverfull
    <2>1. CASE \E p \in Producers : Push(p) /\ ~Full
      BY <2>1, QueueAssumption DEF Push, Enqueue, Full, NeverOverfull, TypeOK, Pushed
    <2>2. CASE \E c \in Consumers : Pop(c) /\ queue # <<>>
      BY <2>2, QueueAssumption DEF Pop, NeverOverfull, TypeOK
    <2>3. CASE UNCHANGED <<queue, delivered>>
      BY <2>3 DEF NeverOverfull
    <2>4. QED
      BY <2>1, <2>2, <2>3, StepEffect
  <1>3. QED
    BY <1>1, <1>2, TypeCorrect, PTL DEF Spec

(* Fifo: nothing is lost, duplicated or overtaken                          *)
(* (thread_message_queue2.hpp:71-153).                                     *)
THEOREM FifoHolds == Spec => []Fifo
  <1>1. Init => Fifo
    BY DEF Init, Fifo, Pushed
  <1>2. TypeOK /\ Fifo /\ [Next]_vars => Fifo'
    <2> SUFFICES ASSUME TypeOK, Fifo, [Next]_vars PROVE Fifo'
      OBVIOUS
    <2>1. CASE \E p \in Producers : Push(p) /\ ~Full
      <3>1. queue' = Append(queue, Pushed + 1) /\ delivered' = delivered
        BY <2>1 DEF Push, Enqueue
      <3>2. Pushed' = Pushed + 1 /\ Pushed \in Nat
        BY <3>1 DEF Pushed, TypeOK
      <3>3. delivered \o Append(queue, Pushed + 1)
              = Append(delivered \o queue, Pushed + 1)
        BY <3>2 DEF TypeOK
      <3>4. Append([i \in 1..Pushed |-> i], Pushed + 1) = [i \in 1..(Pushed + 1) |-> i]
        BY <3>2
      <3>5. QED
        BY <3>1, <3>2, <3>3, <3>4 DEF Fifo
    <2>2. CASE \E c \in Consumers : Pop(c) /\ queue # <<>>
      <3>1. /\ queue' = Tail(queue) /\ delivered' = Append(delivered, Head(queue))
            /\ queue # <<>>
        BY <2>2 DEF Pop
      <3>2. Pushed' = Pushed
        BY <3>1 DEF Pushed, TypeOK
      <3>3. Append(delivered, Head(queue)) \o Tail(queue) = delivered \o queue
        BY <3>1 DEF TypeOK
      <3>4. QED
        BY <3>1, <3>2, <3>3 DEF Fifo
    <2>3. CASE UNCHANGED <<queue, delivered>>
      BY <2>3 DEF Fifo, Pushed
    <2>4. QED
      BY <2>1, <2>2, <2>3, StepEffect
  <1>3. QED
    BY <1>1, <1>2, TypeCorrect, PTL DEF Spec

(* Every step of the queue is a step of the abstract channel or invisible  *)
(* in it: thread_message_queue2.hpp implements BoundedChannel.             *)
THEOREM ImplementsChannelSafety == Spec => Channel!Spec
  <1>1. Init => Channel!Init
    BY DEF Init, Channel!Init
  <1>2. [Next]_vars => [Channel!Next]_(Channel!vars)
    BY StepEffect DEF Push, Enqueue, Pop, Pushed, Full, Channel!Next, Channel!vars,
       Channel!Send, Channel!Receive, Channel!Sent
  <1>3. QED
    BY <1>1, <1>2, PTL DEF Spec, Channel!Spec

-----------------------------------------------------------------------------
(* The counting argument behind "no lost wakeup".                          *)

(* Whoever is inside wait_for_pop made that call, and a thread about to    *)
(* block still holds m_mutex, so the queue is still empty.                 *)
WaitInv ==
  /\ \A t \in Threads :
       /\ pc[t] \in {"commit_for_pop", "waiting_for_pop", "woken_for_pop"} =>
            "wait_for_pop" \in Calls
       /\ pc[t] = "commit_for_pop" => queue = <<>>

(* WaitInv is an invariant (thread_message_queue2.hpp:156-160).   *)
LEMMA WaitInvariant == Spec => []WaitInv
  <1>1. Init => WaitInv
    BY DEF Init, WaitInv
  <1>2. TypeOK /\ WaitInv /\ [Next]_vars => WaitInv'
    <2> SUFFICES ASSUME TypeOK, WaitInv, [Next]_vars PROVE WaitInv'
      OBVIOUS
    <2> USE QueueAssumption DEF TypeOK, Threads, Goto, WaitInv, Full
    <2>1. ASSUME NEW p \in Producers, Push(p), MutexFree PROVE WaitInv'
      BY <2>1 DEF Push, Enqueue, MutexFree, At, Committed
    <2>2. ASSUME NEW c \in Consumers, Pop(c), MutexFree PROVE WaitInv'
      BY <2>2 DEF Pop, MutexFree, At, Committed
    <2>3. ASSUME NEW t \in Threads, NEW W, NotifyOne(t, W),
                 W \in {OnNotFull, OnNotEmpty}
          PROVE WaitInv'
      BY <2>3 DEF NotifyOne, At, Woken, OnNotFull, OnNotEmpty
    <2>4. ASSUME NEW c \in Consumers, Block(c) PROVE WaitInv'
      BY <2>4 DEF Block
    <2>5. ASSUME NEW t \in Threads, SpuriousWakeup(t) PROVE WaitInv'
      BY <2>5 DEF SpuriousWakeup, Woken, OnNotFull, OnNotEmpty
    <2>6. ASSUME NEW c \in Consumers, WaitForPop(c) PROVE WaitInv'
      BY <2>6 DEF WaitForPop
    <2>7. ASSUME NEW t \in Threads, NEW s \in {"waiting_push", "waiting_pop"},
                 Goto(t, s), UNCHANGED <<queue, delivered, abort, waker>>
          PROVE WaitInv'
      BY <2>7
    <2>8. CASE WakerStep
      BY <2>8 DEF WakerStep, RaiseAbort, WakeupNotFull, WakeupNotEmpty,
                  NotifyAll, Woken, OnNotFull, OnNotEmpty
    <2>9. CASE UNCHANGED vars
      BY <2>9 DEF vars
    <2>10. QED
      BY <2>1, <2>2, <2>3, <2>4, <2>5, <2>6, <2>7, <2>8, <2>9
         DEF Next, ProducerStep, ConsumerStep, TryPush, WaitAndPush, TryPop,
             WaitAndPop, NotifyNotEmpty, NotifyNotFull
  <1>3. QED
    BY <1>1, <1>2, TypeCorrect, PTL DEF Spec

(* Sets of threads are finite and can be counted.                          *)
LEMMA AtFinite ==
  ASSUME NEW S
  PROVE  IsFiniteSet(At(S)) /\ Cardinality(At(S)) \in Nat
  <1>1. IsFiniteSet(Threads)
    BY QueueAssumption, FS_Union DEF Threads
  <1>2. At(S) \in SUBSET Threads
    BY DEF At
  <1>3. QED
    BY <1>1, <1>2, FS_Subset, FS_CardinalityType

(* How a set of threads that is read off pc changes in size when one       *)
(* thread enters it, leaves it, or hands its place to another.             *)
LEMMA Counting ==
  ASSUME NEW S, IsFiniteSet(S), NEW t, NEW u
  PROVE  /\ t \notin S => Cardinality(S \cup {t}) = Cardinality(S) + 1
         /\ Cardinality(S \ {t}) >= Cardinality(S) - 1
         /\ t \in S /\ u \notin S =>
              Cardinality((S \ {t}) \cup {u}) = Cardinality(S)
  <1>1. IsFiniteSet(S \ {t}) /\ Cardinality(S) \in Nat
    BY FS_RemoveElement, FS_CardinalityType
  <1>2. t \notin S => Cardinality(S \cup {t}) = Cardinality(S) + 1
    BY FS_AddElement
  <1>3. Cardinality(S \ {t}) = IF t \in S THEN Cardinality(S) - 1 ELSE Cardinality(S)
    BY FS_RemoveElement
  <1>4. u \notin S \ {t} =>
          Cardinality((S \ {t}) \cup {u}) = Cardinality(S \ {t}) + 1
    BY <1>1, FS_AddElement
  <1>5. QED
    BY <1>1, <1>2, <1>3, <1>4

(* Growing the set of comers and shrinking the set of sleepers is safe.    *)
LEMMA MoreComers ==
  ASSUME NEW A, NEW B, A \subseteq B, B \in SUBSET Threads
  PROVE  Cardinality(A) <= Cardinality(B) /\ Cardinality(A) \in Nat
         /\ Cardinality(B) \in Nat
  BY QueueAssumption, FS_Union, FS_Subset, FS_CardinalityType DEF Threads

Coming == At({"notify_not_empty", "woken_pop"})

(* No lost wakeup on the consumer side (thread_message_queue2.hpp:82-86,   *)
(* 142-159): for any number of threads, provided the threads blocked on    *)
(* "not empty" take a message when woken.                                  *)
THEOREM NoStrandedConsumerHolds ==
  ASSUME PopWaitersTakeMessages
  PROVE  Spec => []NoStrandedConsumer
  <1>1. Init => NoStrandedConsumer
    BY DEF Init, NoStrandedConsumer, At, OnNotEmpty
  <1>2. TypeOK /\ WaitInv /\ WaitInv' /\ TypeOK' /\ NoStrandedConsumer /\ [Next]_vars
          => NoStrandedConsumer'
    <2> SUFFICES ASSUME TypeOK, TypeOK', WaitInv, WaitInv', NoStrandedConsumer,
                        [Next]_vars, At(OnNotEmpty)' # {}
                 PROVE  Len(queue') <= Cardinality(Coming')
      BY DEF NoStrandedConsumer, Coming
    <2>0. /\ Cardinality(Coming) \in Nat /\ Cardinality(Coming') \in Nat
          /\ IsFiniteSet(Coming) /\ Len(queue) \in Nat
          /\ Coming' \in SUBSET Threads
      <3>1. Coming' \in SUBSET Threads
        BY DEF Coming, At
      <3>2. QED
        BY <3>1, AtFinite, MoreComers DEF Coming, TypeOK
    <2>c. At(OnNotEmpty) # {} => Len(queue) <= Cardinality(Coming)
      BY DEF NoStrandedConsumer, Coming
    <2>1. ASSUME At(OnNotEmpty) # {}, Coming \subseteq Coming',
                 Len(queue') = Len(queue)
          PROVE  Len(queue') <= Cardinality(Coming')
      BY <2>0, <2>1, MoreComers DEF NoStrandedConsumer, Coming
    <2>2. ASSUME queue' = <<>> PROVE Len(queue') <= Cardinality(Coming')
      BY <2>0, <2>2
    <2> USE DEF Goto, TypeOK, Threads, ProducerStates, ConsumerStates
    <2>3. ASSUME NEW p \in Producers, Push(p), pc[p] \in {"idle", "woken_push"}
          PROVE  Len(queue') <= Cardinality(Coming')
      <3>1. At(OnNotEmpty) # {}
        BY <2>3 DEF Push, Enqueue, At, OnNotEmpty
      <3>2. Coming' = Coming \cup {p} /\ p \notin Coming
        BY <2>3 DEF Push, Enqueue, At, Coming
      <3>3. Len(queue') = Len(queue) + 1
        BY <2>3 DEF Push, Enqueue
      <3>4. Cardinality(Coming') = Cardinality(Coming) + 1
        BY ONLY <2>0, <3>2, Counting
      <3>5. QED
        BY ONLY <2>0, <2>c, <3>1, <3>3, <3>4
    <2>4. ASSUME NEW c \in Consumers, Pop(c), queue # <<>>,
                 pc[c] \in {"idle", "woken_pop"}
          PROVE  Len(queue') <= Cardinality(Coming')
      <3>1. At(OnNotEmpty) # {}
        BY <2>4 DEF Pop, At, OnNotEmpty
      <3>2. Coming' = Coming \ {c}
        BY <2>4 DEF Pop, At, Coming
      <3>3. Len(queue') = Len(queue) - 1
        BY <2>4 DEF Pop
      <3>4. Cardinality(Coming') >= Cardinality(Coming) - 1
        BY ONLY <2>0, <3>2, Counting
      <3>5. QED
        BY ONLY <2>0, <2>c, <3>1, <3>3, <3>4
    <2>5. ASSUME NEW p \in Producers, NotifyNotEmpty(p)
          PROVE  Len(queue') <= Cardinality(Coming')
      <3>1. PICK u \in At(OnNotEmpty) :
              pc' = [pc EXCEPT ![p] = "idle", ![u] = Woken(pc[u])]
        <4>1. CASE At(OnNotEmpty) = {} /\ Goto(p, "idle")
          BY <4>1 DEF At, OnNotEmpty
        <4>2. QED
          BY <2>5, <4>1 DEF NotifyNotEmpty, NotifyOne
      <3>2. u \in Threads /\ u # p /\ pc[p] = "notify_not_empty"
            /\ u \in Consumers
        BY <2>5, <3>1, QueueAssumption
           DEF At, OnNotEmpty, OnNotFull, NotifyNotEmpty
      <3>3. Len(queue') = Len(queue)
        BY <2>5 DEF NotifyNotEmpty, NotifyOne
      <3>4. CASE pc[u] = "waiting_pop"
        <4>1. Coming' = (Coming \ {p}) \cup {u} /\ p \in Coming /\ u \notin Coming
          BY <3>1, <3>2, <3>4 DEF At, Coming, Woken
        <4>2. Cardinality(Coming') = Cardinality(Coming)
          BY ONLY <2>0, <4>1, Counting
        <4>3. QED
          BY ONLY <2>0, <2>c, <3>1, <3>3, <4>2
      <3>5. CASE pc[u] = "waiting_for_pop"
        <4>1. \A c \in Consumers : c = u
          BY <3>2, <3>5, PopWaitersTakeMessages DEF WaitInv, PopWaitersTakeMessages
        <4>2. At(OnNotEmpty)' = {}
          BY <3>1, <3>2, <3>5, <4>1 DEF At, OnNotEmpty, OnNotFull, Woken
        <4>3. QED
          BY <4>2
      <3>6. QED
        BY <3>1, <3>4, <3>5 DEF At, OnNotEmpty
    <2>6. ASSUME NEW c \in Consumers, NotifyNotFull(c)
          PROVE  Len(queue') <= Cardinality(Coming')
      BY <2>1, <2>6, QueueAssumption
         DEF NotifyNotFull, NotifyOne, At, OnNotFull, OnNotEmpty, Woken, Coming
    <2>7. ASSUME NEW p \in Producers, pc[p] \in {"idle", "woken_push"},
                 Goto(p, "waiting_push"), UNCHANGED <<queue, delivered, abort, waker>>
          PROVE  Len(queue') <= Cardinality(Coming')
      BY <2>1, <2>7 DEF At, Coming, OnNotEmpty
    <2>8. ASSUME NEW c \in Consumers, Block(c)
          PROVE  Len(queue') <= Cardinality(Coming')
      BY <2>2, <2>8 DEF Block, WaitInv
    <2>9. ASSUME NEW c \in Consumers, WaitForPop(c)
          PROVE  Len(queue') <= Cardinality(Coming')
      BY <2>1, <2>9 DEF WaitForPop, At, Coming, OnNotEmpty
    <2>10. CASE UNCHANGED vars
      BY <2>1, <2>10 DEF vars, At, Coming
    <2>11. ASSUME NEW t \in Threads, SpuriousWakeup(t)
           PROVE  Len(queue') <= Cardinality(Coming')
      BY <2>1, <2>11 DEF SpuriousWakeup, At, Coming, OnNotEmpty, OnNotFull, Woken
    <2>12. CASE RaiseAbort \/ WakeupNotFull
      BY <2>1, <2>12 DEF RaiseAbort, WakeupNotFull, NotifyAll, At, Coming,
                         OnNotEmpty, OnNotFull, Woken
    <2>13. CASE WakeupNotEmpty
      BY <2>13 DEF WakeupNotEmpty, NotifyAll, At, OnNotEmpty, Woken
    <2>14. ASSUME NEW c \in Consumers, queue = <<>>, UNCHANGED queue
           PROVE  Len(queue') <= Cardinality(Coming')
      BY <2>2, <2>14
    <2>15. QED
      BY <2>3, <2>4, <2>5, <2>6, <2>7, <2>8, <2>9, <2>10, <2>11, <2>12, <2>13,
         <2>14
         DEF Next, ProducerStep, ConsumerStep, WakerStep, TryPush, WaitAndPush,
             TryPop, WaitAndPop
  <1>3. QED
    BY <1>1, <1>2, TypeCorrect, WaitInvariant, PTL DEF Spec

Leaving == At({"notify_not_full", "woken_push"})

(* No lost wakeup on the producer side of a bounded queue                  *)
(* (thread_message_queue2.hpp:98, 109-134): every free slot has a          *)
(* notification or a woken producer coming for it.                         *)
THEOREM NoStrandedProducerHolds == Spec => []NoStrandedProducer
  <1>1. Init => NoStrandedProducer
    BY DEF Init, NoStrandedProducer, At, OnNotFull
  <1>2. TypeOK /\ WaitInv /\ WaitInv' /\ TypeOK' /\ NoStrandedProducer /\ [Next]_vars
          => NoStrandedProducer'
    <2> SUFFICES ASSUME TypeOK, TypeOK', WaitInv, WaitInv', NoStrandedProducer,
                        [Next]_vars, At(OnNotFull)' # {}
                 PROVE  MaxSize - Len(queue') <= Cardinality(Leaving')
      BY DEF NoStrandedProducer, Leaving
    <2>0. /\ Cardinality(Leaving) \in Nat /\ Cardinality(Leaving') \in Nat
          /\ IsFiniteSet(Leaving) /\ Len(queue) \in Nat /\ MaxSize \in Int
          /\ Leaving' \in SUBSET Threads
      <3>1. Leaving' \in SUBSET Threads
        BY DEF Leaving, At
      <3>2. QED
        BY <3>1, AtFinite, MoreComers, QueueAssumption DEF Leaving, TypeOK
    <2>c. At(OnNotFull) # {} => MaxSize - Len(queue) <= Cardinality(Leaving)
      BY DEF NoStrandedProducer, Leaving
    <2>1. ASSUME At(OnNotFull) # {}, Leaving \subseteq Leaving',
                 Len(queue') = Len(queue)
          PROVE  MaxSize - Len(queue') <= Cardinality(Leaving')
      <3>1. Cardinality(Leaving) <= Cardinality(Leaving')
        BY <2>0, <2>1, MoreComers
      <3>2. QED
        BY ONLY <2>0, <2>c, <2>1, <3>1
    <2>2. ASSUME Full, queue' = queue
          PROVE  MaxSize - Len(queue') <= Cardinality(Leaving')
      BY <2>0, <2>2 DEF Full
    <2> USE DEF Goto, TypeOK, Threads, ProducerStates, ConsumerStates
    <2>3. ASSUME NEW p \in Producers, Push(p), pc[p] \in {"idle", "woken_push"}
          PROVE  MaxSize - Len(queue') <= Cardinality(Leaving')
      <3>1. At(OnNotFull) # {}
        BY <2>3 DEF Push, Enqueue, At, OnNotFull
      <3>2. Leaving' = Leaving \ {p}
        BY <2>3 DEF Push, Enqueue, At, Leaving
      <3>3. Len(queue') = Len(queue) + 1
        BY <2>3 DEF Push, Enqueue
      <3>4. Cardinality(Leaving') >= Cardinality(Leaving) - 1
        BY ONLY <2>0, <3>2, Counting
      <3>5. QED
        BY ONLY <2>0, <2>c, <3>1, <3>3, <3>4
    <2>4. ASSUME NEW c \in Consumers, Pop(c), queue # <<>>,
                 pc[c] \in {"idle", "woken_pop"}
          PROVE  MaxSize - Len(queue') <= Cardinality(Leaving')
      <3>1. At(OnNotFull) # {}
        BY <2>4 DEF Pop, At, OnNotFull
      <3>2. Leaving' = Leaving \cup {c} /\ c \notin Leaving
        BY <2>4, QueueAssumption DEF Pop, At, Leaving
      <3>3. Len(queue') = Len(queue) - 1
        BY <2>4 DEF Pop
      <3>4. Cardinality(Leaving') = Cardinality(Leaving) + 1
        BY ONLY <2>0, <3>2, Counting
      <3>5. QED
        BY ONLY <2>0, <2>c, <3>1, <3>3, <3>4
    <2>5. ASSUME NEW c \in Consumers, NotifyNotFull(c)
          PROVE  MaxSize - Len(queue') <= Cardinality(Leaving')
      <3>1. PICK u \in At(OnNotFull) :
              pc' = [pc EXCEPT ![c] = "idle", ![u] = Woken(pc[u])]
        <4>1. CASE At(OnNotFull) = {} /\ Goto(c, "idle")
          BY <4>1 DEF At, OnNotFull
        <4>2. QED
          BY <2>5, <4>1 DEF NotifyNotFull, NotifyOne
      <3>2. u \in Threads /\ u # c /\ pc[c] = "notify_not_full"
            /\ u \in Producers
        BY <2>5, <3>1, QueueAssumption
           DEF At, OnNotEmpty, OnNotFull, NotifyNotFull
      <3>3. Len(queue') = Len(queue)
        BY <2>5 DEF NotifyNotFull, NotifyOne
      <3>4. Leaving' = (Leaving \ {c}) \cup {u} /\ c \in Leaving /\ u \notin Leaving
        BY <3>1, <3>2 DEF At, OnNotFull, Leaving, Woken
      <3>5. Cardinality(Leaving') = Cardinality(Leaving)
        BY ONLY <2>0, <3>4, Counting
      <3>6. QED
        BY ONLY <2>0, <2>c, <3>1, <3>3, <3>5
    <2>6. ASSUME NEW p \in Producers, NotifyNotEmpty(p)
          PROVE  MaxSize - Len(queue') <= Cardinality(Leaving')
      BY <2>1, <2>6, QueueAssumption
         DEF NotifyNotEmpty, NotifyOne, At, OnNotFull, OnNotEmpty, Woken, Leaving
    <2>7. ASSUME NEW c \in Consumers, pc[c] \in {"idle", "woken_pop"},
                 Goto(c, "waiting_pop"), UNCHANGED <<queue, delivered, abort, waker>>
          PROVE  MaxSize - Len(queue') <= Cardinality(Leaving')
      BY <2>1, <2>7 DEF At, Leaving, OnNotFull
    <2>8. ASSUME NEW c \in Consumers, Block(c)
          PROVE  MaxSize - Len(queue') <= Cardinality(Leaving')
      BY <2>1, <2>8 DEF Block, At, Leaving, OnNotFull
    <2>9. ASSUME NEW c \in Consumers, WaitForPop(c)
          PROVE  MaxSize - Len(queue') <= Cardinality(Leaving')
      BY <2>1, <2>9 DEF WaitForPop, At, Leaving, OnNotFull
    <2>10. CASE UNCHANGED vars
      BY <2>1, <2>10 DEF vars, At, Leaving
    <2>11. ASSUME NEW t \in Threads, SpuriousWakeup(t)
           PROVE  MaxSize - Len(queue') <= Cardinality(Leaving')
      BY <2>1, <2>11 DEF SpuriousWakeup, At, Leaving, OnNotEmpty, OnNotFull, Woken
    <2>12. CASE RaiseAbort \/ WakeupNotEmpty
      BY <2>1, <2>12 DEF RaiseAbort, WakeupNotEmpty, NotifyAll, At, Leaving,
                         OnNotEmpty, OnNotFull, Woken
    <2>13. CASE WakeupNotFull
      BY <2>13 DEF WakeupNotFull, NotifyAll, At, OnNotFull, Woken
    <2>14. ASSUME NEW p \in Producers, Full, UNCHANGED queue
           PROVE  MaxSize - Len(queue') <= Cardinality(Leaving')
      BY <2>2, <2>14
    <2>15. QED
      BY <2>3, <2>4, <2>5, <2>6, <2>7, <2>8, <2>9, <2>10, <2>11, <2>12, <2>13,
         <2>14
         DEF Next, ProducerStep, ConsumerStep, WakerStep, TryPush, WaitAndPush,
             TryPop, WaitAndPop
  <1>3. QED
    BY <1>1, <1>2, TypeCorrect, WaitInvariant, PTL DEF Spec
===============================================================================
