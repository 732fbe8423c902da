------------------------- MODULE ThreadMessageQueue2 -------------------------
(***************************************************************************)
(* src/job/thread_message_queue2.hpp: the std::mutex/std::condition_       *)
(* variable queue every two threads of Galapix talk through.               *)
(*                                                                         *)
(* Granularity.  A critical section of m_mutex is one action, with two     *)
(* exceptions the code makes visible: notify_one() is called after         *)
(* lock.unlock(), so it is a step of its own; and the predicate of         *)
(* wait_for_pop reads the caller's abort condition, which is not protected *)
(* by m_mutex, so evaluating it and blocking are two steps ("commit")      *)
(* between which the flag may change and wakeup() may fire.  wakeup()      *)
(* takes no lock at all.  wait_for_push is called nowhere in src/ and is   *)
(* left out.                                                               *)
(***************************************************************************)
EXTENDS Integers, Sequences, FiniteSets

CONSTANTS
  Producers,   \* threads that push
  Consumers,   \* threads that pop
  Calls,       \* the member functions these threads use
  MaxSize,     \* m_max_size; -1 is "unbounded"
  MaxPushes    \* bound of the model: number of pushes ever begun

AllCalls == {"try_push", "wait_and_push",
             "try_pop", "wait_and_pop", "wait_for_pop"}

ASSUME QueueAssumption ==
  /\ IsFiniteSet(Producers) /\ IsFiniteSet(Consumers)
  /\ Producers \cap Consumers = {}
  /\ Calls \subseteq AllCalls
  /\ MaxSize \in Nat \cup {-1}
  /\ MaxPushes \in Nat

VARIABLES
  queue,       \* m_queue; a message is its number in the order of pushing
  delivered,   \* history: the messages popped so far, in order
  pc,          \* what each thread is doing inside the queue
  abort,       \* the caller's flag that abort_condition() reads
  waker        \* the thread that raises the flag and calls wakeup()

vars == <<queue, delivered, pc, abort, waker>>

Threads == Producers \cup Consumers

(* Blocked on m_queue_not_full_cond, respectively m_queue_not_empty_cond. *)
OnNotFull  == {"waiting_push"}
OnNotEmpty == {"waiting_pop", "waiting_for_pop"}

(* Predicate found false, m_mutex still held, not yet in the wait set. *)
Committed == {"commit_for_pop"}

ProducerStates == OnNotFull \cup {"idle", "woken_push", "notify_not_empty"}
ConsumerStates == OnNotEmpty \cup
  {"idle", "woken_pop", "woken_for_pop", "commit_for_pop", "notify_not_full"}

At(states) == {t \in Threads : pc[t] \in states}

(* Nobody holds m_mutex across two of the model's steps. *)
MutexFree == At(Committed) = {}

(* Mutant of Full: the limit is off by one. *)
FullTooLate == Len(queue) > MaxSize

Full == Len(queue) = MaxSize

Pushed == Len(delivered) + Len(queue)

(* Pushes done or being waited for: what MaxPushes bounds. *)
PushesBegun == Pushed + Cardinality(At({"waiting_push", "woken_push"}))

Goto(t, state) == pc' = [pc EXCEPT ![t] = state]

Init ==
  /\ queue = <<>>
  /\ delivered = <<>>
  /\ pc = [t \in Threads |-> "idle"]
  /\ abort = FALSE
  /\ waker = "idle"

-----------------------------------------------------------------------------
(* Pushing *)

(* Mutant of Enqueue: the wrong end. *)
EnqueueInFront(message) == queue' = <<message>> \o queue

Enqueue(message) == queue' = Append(queue, message)

(* m_queue.push(data); lock.unlock(): the notify_one() is still to come. *)
Push(p) ==
  /\ Enqueue(Pushed + 1)
  /\ Goto(p, "notify_not_empty")
  /\ UNCHANGED <<delivered, abort, waker>>

TryPush(p) ==
  /\ "try_push" \in Calls
  /\ pc[p] = "idle" /\ MutexFree
  /\ PushesBegun < MaxPushes
  /\ \/ Full /\ UNCHANGED vars            \* return false
     \/ ~Full /\ Push(p)

WaitAndPush(p) ==
  /\ MutexFree
  /\ \/ /\ pc[p] = "idle"
        /\ "wait_and_push" \in Calls
        /\ PushesBegun < MaxPushes
     \/ pc[p] = "woken_push"
  /\ \/ /\ Full
        /\ Goto(p, "waiting_push")
        /\ UNCHANGED <<queue, delivered, abort, waker>>
     \/ ~Full /\ Push(p)

(* Mutant of Woken: the two condition variables mixed up. *)
WokenForTheOther(state) ==
  CASE state = "waiting_push"    -> "woken_pop"
    [] state = "waiting_pop"     -> "woken_push"
    [] state = "waiting_for_pop" -> "woken_push"

(* The state in which a woken thread competes for m_mutex again. *)
Woken(state) ==
  CASE state = "waiting_push"    -> "woken_push"
    [] state = "waiting_pop"     -> "woken_pop"
    [] state = "waiting_for_pop" -> "woken_for_pop"

(* Mutant of NotifyOne: it is forgotten. *)
NotifyNobody(t, waiters) ==
  Goto(t, "idle") /\ UNCHANGED <<queue, delivered, abort, waker>>

(* notify_one() wakes one of the threads in the wait set, if there is any. *)
NotifyOne(t, waiters) ==
  /\ \/ At(waiters) = {} /\ Goto(t, "idle")
     \/ \E u \in At(waiters) :
          pc' = [pc EXCEPT ![t] = "idle", ![u] = Woken(pc[u])]
  /\ UNCHANGED <<queue, delivered, abort, waker>>

NotifyNotEmpty(p) == pc[p] = "notify_not_empty" /\ NotifyOne(p, OnNotEmpty)

-----------------------------------------------------------------------------
(* Popping *)

(* data_out = m_queue.front(); m_queue.pop(); lock.unlock(). *)
Pop(c) ==
  /\ delivered' = Append(delivered, Head(queue))
  /\ queue' = Tail(queue)
  /\ Goto(c, "notify_not_full")
  /\ UNCHANGED <<abort, waker>>

TryPop(c) ==
  /\ "try_pop" \in Calls
  /\ pc[c] = "idle" /\ MutexFree
  /\ \/ queue = <<>> /\ UNCHANGED vars    \* return false
     \/ queue # <<>> /\ Pop(c)

WaitAndPop(c) ==
  /\ MutexFree
  /\ \/ pc[c] = "idle" /\ "wait_and_pop" \in Calls
     \/ pc[c] = "woken_pop"
  /\ \/ /\ queue = <<>>
        /\ Goto(c, "waiting_pop")
        /\ UNCHANGED <<queue, delivered, abort, waker>>
     \/ queue # <<>> /\ Pop(c)

(* Evaluates the predicate of wait_for_pop: returns or decides to block. *)
WaitForPop(c) ==
  /\ MutexFree
  /\ \/ pc[c] = "idle" /\ "wait_for_pop" \in Calls
     \/ pc[c] = "woken_for_pop"
  /\ Goto(c, IF queue # <<>> \/ abort THEN "idle" ELSE "commit_for_pop")
  /\ UNCHANGED <<queue, delivered, abort, waker>>

NotifyNotFull(c) == pc[c] = "notify_not_full" /\ NotifyOne(c, OnNotFull)

-----------------------------------------------------------------------------
(* Waiting and waking *)

(* condition_variable::wait() releases m_mutex and blocks, atomically. *)
Block(c) ==
  /\ pc[c] = "commit_for_pop"
  /\ Goto(c, "waiting_for_pop")
  /\ UNCHANGED <<queue, delivered, abort, waker>>

(* The standard allows a wait to return without a notification. *)
SpuriousWakeup(t) ==
  /\ pc[t] \in OnNotFull \cup OnNotEmpty
  /\ Goto(t, Woken(pc[t]))
  /\ UNCHANGED <<queue, delivered, abort, waker>>

NotifyAll(waiters) ==
  pc' = [t \in Threads |-> IF pc[t] \in waiters THEN Woken(pc[t]) ELSE pc[t]]

(* The owner of the queue sets its flag without m_mutex ...  *)
RaiseAbort ==
  /\ waker = "idle"
  /\ abort' = TRUE
  /\ waker' = "raised"
  /\ UNCHANGED <<queue, delivered, pc>>

(* ... and calls wakeup(), which takes no lock either. *)
WakeupNotFull ==
  /\ waker = "raised"
  /\ NotifyAll(OnNotFull)
  /\ waker' = "notified_not_full"
  /\ UNCHANGED <<queue, delivered, abort>>

WakeupNotEmpty ==
  /\ waker = "notified_not_full"
  /\ NotifyAll(OnNotEmpty)
  /\ waker' = "done"
  /\ UNCHANGED <<queue, delivered, abort>>

-----------------------------------------------------------------------------
ProducerStep(p) ==
  TryPush(p) \/ WaitAndPush(p) \/ NotifyNotEmpty(p)

ConsumerStep(c) ==
  TryPop(c) \/ WaitAndPop(c) \/ WaitForPop(c) \/ NotifyNotFull(c) \/ Block(c)

WakerStep == RaiseAbort \/ WakeupNotFull \/ WakeupNotEmpty

Next ==
  \/ \E p \in Producers : ProducerStep(p)
  \/ \E c \in Consumers : ConsumerStep(c)
  \/ \E t \in Threads : SpuriousWakeup(t)
  \/ WakerStep

Spec == Init /\ [][Next]_vars

(* A thread inside a queue operation is scheduled and finishes it; a       *)
(* consumer comes back for more (JobWorkerThread::run and DatabaseThread:: *)
(* run are such loops).  Nobody is obliged to push, to abort or to wake    *)
(* up for no reason.                                                       *)
Fairness ==
  /\ \A p \in Producers : WF_vars(pc[p] # "idle" /\ ProducerStep(p))
  /\ \A c \in Consumers : WF_vars(ConsumerStep(c))
  /\ WF_vars(WakeupNotFull) /\ WF_vars(WakeupNotEmpty)

FairSpec == Spec /\ Fairness

-----------------------------------------------------------------------------
(* Properties *)

(* TypeOK: every thread is in a state its role allows, and the queue holds *)
(* message numbers (thread_message_queue2.hpp:32-37).                      *)
TypeOK ==
  /\ queue \in Seq(Nat)
  /\ delivered \in Seq(Nat)
  /\ pc \in [Threads -> ProducerStates \cup ConsumerStates]
  /\ \A p \in Producers : pc[p] \in ProducerStates
  /\ \A c \in Consumers : pc[c] \in ConsumerStates
  /\ abort \in BOOLEAN
  /\ waker \in {"idle", "raised", "notified_not_full", "done"}

(* A bounded queue never grows past its limit, whatever mixture of         *)
(* try_push and woken wait_and_push calls race for the last free slot:     *)
(* the test is size() == m_max_size, so one push too many would switch     *)
(* the limit off for good.                                                 *)
NeverOverfull == MaxSize # -1 => Len(queue) <= MaxSize

(* No message is lost, duplicated or overtaken between any number of       *)
(* pushing and popping threads.                                            *)
Fifo == delivered \o queue = [i \in 1..Pushed |-> i]

(* The callers for which one notification per message is enough: a thread  *)
(* woken in wait_for_pop uses up a notification without taking a message,  *)
(* so wait_for_pop may only be used where there is a single consumer.      *)
PopWaitersTakeMessages ==
  "wait_for_pop" \in Calls => \A c, d \in Consumers : c = d

(* No lost wakeup on the consumer side, although notify_one() is called    *)
(* after the unlock: while somebody is blocked on "not empty", there are   *)
(* at least as many notifications on their way, or threads already woken,  *)
(* as there are messages.                                                  *)
NoStrandedConsumer ==
  At(OnNotEmpty) # {} =>
    Len(queue) <= Cardinality(At({"notify_not_empty", "woken_pop"}))

(* The same on the producer side of a bounded queue: every free slot has   *)
(* a notification or a woken producer coming for it.                       *)
NoStrandedProducer ==
  At(OnNotFull) # {} =>
    MaxSize - Len(queue) <= Cardinality(At({"notify_not_full", "woken_push"}))

(* The queue implements the abstract channel, including that what was sent *)
(* is received.                                                            *)
Channel == INSTANCE BoundedChannel
             WITH MaxSize <- MaxSize, queue <- queue, delivered <- delivered
ImplementsChannel == Channel!LiveSpec

(* A producer blocked on a full queue gets out of the wait set again.      *)
ProducersGetOut ==
  \A p \in Producers : pc[p] = "waiting_push" ~> pc[p] # "waiting_push"
===============================================================================
