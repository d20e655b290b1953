----------------------------- MODULE EventStream -----------------------------
(***************************************************************************)
(* What a queue between two threads promises: what one side puts in comes  *)
(* out on the other side once, in the same order, and nothing else does.   *)
(***************************************************************************)
EXTENDS Integers, Sequences

CONSTANT Events

VARIABLES
  log,    \* events put in
  seen    \* events that came out

streamVars == <<log, seen>>

Init == log = <<>> /\ seen = <<>>

Occur(e) ==
  /\ log' = Append(log, e)
  /\ UNCHANGED seen

Observe ==
  /\ Len(seen) < Len(log)
  /\ seen' = Append(seen, log[Len(seen) + 1])
  /\ UNCHANGED log

Next == (\E e \in Events : Occur(e)) \/ Observe

Spec == Init /\ [][Next]_streamVars
=============================================================================
