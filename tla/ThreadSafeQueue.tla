--------------------------- MODULE ThreadSafeQueue ---------------------------
(***************************************************************************)
(* ThreadSafeQueue: emplace(), push() and pop() by any number of threads,  *)
(* each under a std::lock_guard for the whole call.  Between the guards a  *)
(* call is split where its work is: pop() looks whether the queue is empty,*)
(* copies the front, then removes it.  A step that ends a call also ends   *)
(* its guard.  Nothing in the program moves a queue or asks for its size.  *)
(***************************************************************************)
EXTENDS Integers, Sequences

CONSTANTS
  Threads, Msgs,
  Nobody,       \* the mutex is free
  MaxEvents     \* bound: messages pushed

ASSUME QueueAssumption == Nobody \notin Threads /\ MaxEvents \in Nat

VARIABLES
  mutex,    \* the thread that holds m_mutex
  items,    \* m_queue
  at,       \* where each thread is
  msg,      \* the message a thread pushes, or its copy of the front
  pushed,   \* history: messages pushed
  popped    \* history: messages removed by pop()

queueVars == <<mutex, items, at, msg, pushed, popped>>

Places == {"outside", "pushing", "popping", "removing"}

TypeOK ==
  /\ mutex \in Threads \cup {Nobody}
  /\ items \in Seq(Msgs)
  /\ at \in [Threads -> Places]
  /\ msg \in [Threads -> Msgs]
  /\ pushed \in Seq(Msgs)
  /\ popped \in Seq(Msgs)

Init ==
  /\ mutex = Nobody
  /\ items = <<>>
  /\ at = [th \in Threads |-> "outside"]
  /\ msg \in [Threads -> Msgs]
  /\ pushed = <<>>
  /\ popped = <<>>

-----------------------------------------------------------------------------
Lock(th, place) ==
  /\ at[th] = "outside"
  /\ mutex = Nobody
  /\ mutex' = th
  /\ at' = [at EXCEPT ![th] = place]

Unlock(th) ==
  /\ mutex' = Nobody
  /\ at' = [at EXCEPT ![th] = "outside"]

PushLocks(th, m) ==
  /\ Lock(th, "pushing")
  /\ Len(pushed) < MaxEvents
  /\ msg' = [msg EXCEPT ![th] = m]
  /\ UNCHANGED <<items, pushed, popped>>

Push(th) ==
  /\ at[th] = "pushing"
  /\ items' = Append(items, msg[th])
  /\ pushed' = Append(pushed, msg[th])
  /\ Unlock(th)
  /\ UNCHANGED <<msg, popped>>

PopLocks(th) ==
  /\ Lock(th, "popping")
  /\ UNCHANGED <<items, msg, pushed, popped>>

PopEmpty(th) ==
  /\ at[th] = "popping"
  /\ items = <<>>
  /\ Unlock(th)
  /\ UNCHANGED <<items, msg, pushed, popped>>

PopCopiesUnchecked(th) ==                                          \* mutant
  /\ at[th] = "popping"
  /\ msg' = [msg EXCEPT ![th] = IF items = <<>> THEN Nobody ELSE Head(items)]
  /\ at' = [at EXCEPT ![th] = "removing"]
  /\ UNCHANGED <<mutex, items, pushed, popped>>

PopCopiesUnlocks(th) ==                                            \* mutant
  /\ at[th] = "popping" /\ items # <<>>
  /\ msg' = [msg EXCEPT ![th] = Head(items)]
  /\ at' = [at EXCEPT ![th] = "removing"] /\ mutex' = Nobody
  /\ UNCHANGED <<items, pushed, popped>>

PopCopies(th) ==
  /\ at[th] = "popping"
  /\ items # <<>>
  /\ msg' = [msg EXCEPT ![th] = Head(items)]
  /\ at' = [at EXCEPT ![th] = "removing"]
  /\ UNCHANGED <<mutex, items, pushed, popped>>

PopRemovesBack(th) ==                                              \* mutant
  /\ at[th] = "removing"
  /\ items' = SubSeq(items, 1, Len(items) - 1)
  /\ popped' = Append(popped, msg[th])
  /\ Unlock(th) /\ UNCHANGED <<msg, pushed>>

PopRemoves(th) ==
  /\ at[th] = "removing"
  /\ items' = Tail(items)
  /\ popped' = Append(popped, msg[th])
  /\ Unlock(th)
  /\ UNCHANGED <<msg, pushed>>

Next ==
  \E th \in Threads :
    \/ \E m \in Msgs : PushLocks(th, m)
    \/ Push(th)
    \/ PopLocks(th)
    \/ PopEmpty(th)
    \/ PopCopies(th)
    \/ PopRemoves(th)

Spec == Init /\ [][Next]_queueVars

-----------------------------------------------------------------------------
(* What pop() copied is still the front when it removes the front, however *)
(* many threads push and pop in between (pop).                             *)
RemovesWhatItCopied ==
  \A th \in Threads :
    at[th] = "removing" => items # <<>> /\ msg[th] = Head(items)

(* Whatever the threads, each message pushed is removed once, in the order *)
(* of the pushes (emplace, push, pop).                                     *)
Stream == INSTANCE EventStream WITH Events <- Msgs, log <- pushed, seen <- popped

ImplementsStream == Stream!Spec
=============================================================================
