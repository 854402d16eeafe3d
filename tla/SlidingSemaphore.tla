-------------------------- MODULE SlidingSemaphore --------------------------
(***************************************************************************)
(* hpx::sliding_semaphore, the flow-control counter the stencil pipeline   *)
(* of dataflow_replay.cpp uses to bound the depth of its dependency tree. *)
(* The class itself is not part of the sampled sources; it is modelled    *)
(* from the specification (section 4.3): wait(upper) suspends the calling *)
(* HPX thread while upper - max_difference > lower_limit, signal(lower)   *)
(* advances lower_limit monotonically and wakes the waiters.  A suspended *)
(* waiter is modelled by its action being disabled; the wake-up is the    *)
(* action becoming enabled again once lower_limit has moved.              *)
(***************************************************************************)
EXTENDS Integers

CONSTANT MaxDifference          \* the constructor argument (nd in the stencil)

VARIABLE lower_limit

\* sliding_semaphore(max_difference): lower_limit_ starts at 0.
Init == lower_limit = 0

\* The condition under which wait(upper) returns instead of suspending.
CanProceed(upper) == ~(upper - MaxDifference > lower_limit)

\* Mutant: signal overwrites the floor, so a late signal can lower it.
SignalOverwrite(lower) == lower_limit' = lower

\* signal(lower): the floor never moves backwards.
Signal(lower) ==
    lower_limit' = IF lower > lower_limit THEN lower ELSE lower_limit

=============================================================================
