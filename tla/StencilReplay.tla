--------------------------- MODULE StencilReplay ---------------------------
(***************************************************************************)
(* The futurized 1D heat stencil with replay of dataflow_replay.cpp:      *)
(* stepper::do_work and the part of hpx_main that waits for its result.   *)
(*                                                                         *)
(* The HPX thread running do_work issues one time step per loop iteration:*)
(* for every subdomain i a dataflow_replay task whose inputs are the      *)
(* futures of subdomains i-1, i, i+1 of the previous step.  Every nd steps*)
(* it attaches a continuation to next[0] that signals the sliding         *)
(* semaphore, and then calls sem->wait(t), which suspends it while the    *)
(* tree is more than nd steps ahead of the last signal.                   *)
(*                                                                         *)
(* A task (s, i) is the future next[i] created at iteration s - 1.  It    *)
(* becomes runnable when its three inputs are ready or failed (dataflow); *)
(* each run of heat_part is one attempt that either returns or throws:    *)
(* it throws when an input future holds an exception (unwrapping calls    *)
(* get on it) or when the injected error fires.  dataflow_replay retries  *)
(* a throwing attempt until NValue attempts have been made, then the      *)
(* future holds the exception.  The partition data (doubles) is left out: *)
(* no property here is about the values, only about which futures hold a *)
(* value or an exception and when.                                        *)
(***************************************************************************)
EXTENDS Integers, FiniteSets

CONSTANTS
    Subdomains,     \* --subdomains: the number of partitions
    Iterations,     \* --iterations: the number of time steps
    ND,             \* --nd: steps the tree may grow; also the semaphore window
    NValue          \* --n-value: attempts dataflow_replay makes per task

ASSUME /\ Subdomains \in Nat \ {0}
       /\ Iterations \in Nat \ {0}
       /\ ND \in Nat \ {0}
       /\ NValue \in Nat \ {0}

VARIABLES
    t,              \* the loop counter of do_work
    mpc,            \* where the do_work / hpx_main thread is
    status,         \* status[<<s, i>>]: the state of the future U[s][i]
    attempts,       \* attempts[<<s, i>>]: heat_part runs made for that future
    cont,           \* cont[k]: the semaphore continuation of iteration k
    lower_limit     \* the sliding semaphore's floor

\* The global std::atomic<int> counter of injected errors is only printed
\* at the end; no property reads it, so it is not a variable here.
vars == <<t, mpc, status, attempts, cont, lower_limit>>

Sem == INSTANCE SlidingSemaphore WITH MaxDifference <- ND

Steps == 0 .. Iterations
Subs  == 0 .. Subdomains - 1
Cells == Steps \X Subs

Status == {"none", "pending", "ready", "failed"}

\* The three futures of the previous step a task of subdomain i reads:
\* current[(i - 1 + subdomains) % subdomains], current[i],
\* current[(i + 1) % subdomains] (the unsigned wrap of i - 1 at i = 0 is
\* undone by adding subdomains before the modulus).
Neighbours(i) == {(i - 1 + Subdomains) % Subdomains, i, (i + 1) % Subdomains}

Terminal(c) == status[c] \in {"ready", "failed"}

\* The step whose futures were created last.
Issued == IF mpc = "issue" THEN t ELSE IF mpc = "wait" THEN t + 1 ELSE Iterations

-----------------------------------------------------------------------------
(* U[0][i] = make_ready_future(partition_data(...)) for every i; the       *)
(* semaphore is constructed with nd; no error has been injected yet.       *)
Init ==
    /\ t = 0
    /\ mpc = "issue"
    /\ status = [c \in Cells |-> IF c[1] = 0 THEN "ready" ELSE "none"]
    /\ attempts = [c \in Cells |-> 0]
    /\ cont = [k \in 0 .. Iterations - 1 |-> "none"]
    /\ Sem!Init

(* One iteration of the time step loop up to the wait: next[i] =          *)
(* dataflow_replay(...) for every i, and when t % nd == 0 the             *)
(* continuation next[0].then(... sem->signal(t) ...).                     *)
Issue ==
    /\ mpc = "issue"
    /\ status' = [c \in Cells |-> IF c[1] = t + 1 THEN "pending" ELSE status[c]]
    /\ cont' = IF t % ND = 0 THEN [cont EXCEPT ![t] = "attached"] ELSE cont
    /\ mpc' = "wait"
    /\ UNCHANGED <<t, attempts, lower_limit>>

\* Mutant: the loop never suspends, as if sem->wait(t) were left out.
SemWaitSkipped ==
    /\ mpc = "wait"
    /\ t' = t + 1
    /\ mpc' = IF t + 1 = Iterations THEN "get" ELSE "issue"
    /\ UNCHANGED <<status, attempts, cont, lower_limit>>

(* sem->wait(t) returns (it is disabled while the thread is suspended),   *)
(* then ++t and the loop test t != iterations.                            *)
SemWait ==
    /\ mpc = "wait"
    /\ Sem!CanProceed(t)
    /\ t' = t + 1
    /\ mpc' = IF t + 1 = Iterations THEN "get" ELSE "issue"
    /\ UNCHANGED <<status, attempts, cont, lower_limit>>

\* Mutant: an exceptional input is not rethrown (inputs read without get).
AttemptIgnoringInputs(c) ==
    LET inputs == {<<c[1] - 1, j>> : j \in Neighbours(c[2])}
        n      == attempts[c] + 1
    IN
    /\ status[c] = "pending"
    /\ \A d \in inputs : Terminal(d)
    /\ \E injected \in BOOLEAN :
         LET result == IF ~injected THEN "ready"
                       ELSE IF n = NValue THEN "failed" ELSE "pending"
         IN /\ status' = [status EXCEPT ![c] = result]
            /\ attempts' = [attempts EXCEPT ![c] =
                                IF result = "pending" THEN n ELSE 0]
    /\ UNCHANGED <<t, mpc, cont, lower_limit>>

\* Mutant: the attempt count survives the completion of the future.
AttemptKeepsCount(c) ==
    LET inputs      == {<<c[1] - 1, j>> : j \in Neighbours(c[2])}
        inputFailed == \E d \in inputs : status[d] = "failed"
        n           == attempts[c] + 1
    IN
    /\ status[c] = "pending"
    /\ \A d \in inputs : Terminal(d)
    /\ \E injected \in IF inputFailed THEN {FALSE} ELSE BOOLEAN :
         /\ status' = [status EXCEPT ![c] =
                          IF ~inputFailed /\ ~injected THEN "ready"
                          ELSE IF n = NValue THEN "failed" ELSE "pending"]
         /\ attempts' = [attempts EXCEPT ![c] = n]
    /\ UNCHANGED <<t, mpc, cont, lower_limit>>

(* One run of heat_part for task c, once dataflow has seen all three      *)
(* inputs complete.  A failed input makes the attempt throw before        *)
(* heat_part draws; otherwise the exponential draw may inject an error    *)
(* (++counter, throw validate_exception).  dataflow_replay retries until  *)
(* NValue attempts have thrown.  The attempt count lives in the replay   *)
(* helper, which is released with it when the future completes.          *)
Attempt(c) ==
    LET inputs      == {<<c[1] - 1, j>> : j \in Neighbours(c[2])}
        inputFailed == \E d \in inputs : status[d] = "failed"
        n           == attempts[c] + 1
    IN
    /\ status[c] = "pending"
    /\ \A d \in inputs : Terminal(d)
    /\ \E injected \in IF inputFailed THEN {FALSE} ELSE BOOLEAN :
         LET result == IF ~inputFailed /\ ~injected THEN "ready"
                       ELSE IF n = NValue THEN "failed" ELSE "pending"
         IN /\ status' = [status EXCEPT ![c] = result]
            /\ attempts' = [attempts EXCEPT ![c] =
                                IF result = "pending" THEN n ELSE 0]
    /\ UNCHANGED <<t, mpc, cont, lower_limit>>

\* Mutant: the continuation calls get() on the future, so it throws, and
\* never signals, when next[0] holds an exception.
RunContinuationOnValue(k) ==
    /\ cont[k] = "attached"
    /\ status[<<k + 1, 0>>] = "ready"
    /\ Sem!Signal(k)
    /\ cont' = [cont EXCEPT ![k] = "done"]
    /\ UNCHANGED <<t, mpc, status, attempts>>

(* The continuation attached at iteration k runs once next[0] of step     *)
(* k + 1 is ready or failed: it takes the future without calling get and  *)
(* calls sem->signal(k).                                                  *)
RunContinuation(k) ==
    /\ cont[k] = "attached"
    /\ Terminal(<<k + 1, 0>>)
    /\ Sem!Signal(k)
    /\ cont' = [cont EXCEPT ![k] = "done"]
    /\ UNCHANGED <<t, mpc, status, attempts>>

(* hpx_main: result.get() on when_all(U[iterations % 2]) returns once     *)
(* every future of the last step is ready or failed.                      *)
GetResult ==
    /\ mpc = "get"
    /\ \A i \in Subs : Terminal(<<Iterations, i>>)
    /\ mpc' = "done"
    /\ UNCHANGED <<t, status, attempts, cont, lower_limit>>

(* The program has finished: nothing is left to run.                      *)
Finished ==
    /\ mpc = "done"
    /\ \A k \in DOMAIN cont : cont[k] # "attached"
    /\ UNCHANGED vars

Next ==
    \/ Issue
    \/ SemWait
    \/ \E c \in Cells : Attempt(c)
    \/ \E k \in DOMAIN cont : RunContinuation(k)
    \/ GetResult
    \/ Finished

Spec == Init /\ [][Next]_vars

(* The HPX scheduler runs every runnable task and continuation eventually *)
(* and resumes a suspended thread once it is woken: weak fairness of each *)
(* task, each continuation and each step of the main thread.              *)
FairSpec ==
    /\ Spec
    /\ \A c \in Cells : WF_vars(Attempt(c))
    /\ \A k \in 0 .. Iterations - 1 : WF_vars(RunContinuation(k))
    /\ WF_vars(Issue) /\ WF_vars(SemWait) /\ WF_vars(GetResult)

-----------------------------------------------------------------------------
TypeOK ==
    /\ t \in 0 .. Iterations
    /\ mpc \in {"issue", "wait", "get", "done"}
    /\ status \in [Cells -> Status]
    /\ attempts \in [Cells -> 0 .. NValue - 1]
    /\ cont \in [0 .. Iterations - 1 -> {"none", "attached", "done"}]
    /\ lower_limit \in 0 .. Iterations

(* The purpose of the semaphore in do_work ("suspend if the tree has      *)
(* become too deep"): between the newest step issued and the oldest task  *)
(* still pending there are never more than nd + subdomains / 2 steps.     *)
(* The window is nd from sem->wait(t), widened because a signal for step  *)
(* k only proves next[0] of step k + 1 done: the futures it did not depend*)
(* on, up to subdomains / 2 partitions away, may still be pending.        *)
MaxTreeDepth == ND + Subdomains \div 2

TreeDepthBounded ==
    \A c \in Cells : status[c] = "pending" => Issued - c[1] <= MaxTreeDepth

(* No lost wakeup: whenever the do_work thread is suspended in            *)
(* sem->wait(t), some continuation attached to a still unfinished part of *)
(* the tree, or one already runnable, will signal a floor high enough to  *)
(* resume it.  Continuations may run in any order, so this relies on     *)
(* signal never lowering the floor.                                       *)
NoLostWakeup ==
    (mpc = "wait" /\ ~Sem!CanProceed(t)) =>
        \E k \in DOMAIN cont : cont[k] = "attached" /\ t - ND <= k

(* Circular distance between two subdomains.                              *)
Dist(i, j) == LET d == (i - j + Subdomains) % Subdomains
              IN IF d <= Subdomains - d THEN d ELSE Subdomains - d

(* Fail-fast propagation through the dataflow graph: once the future of   *)
(* (s, i) holds an exception, no future that depends on it, directly or   *)
(* through later steps, ever holds a value; replays cannot mask it.       *)
FailureCone ==
    \A f \in Cells : status[f] = "failed" =>
        \A c \in Cells : (c[1] > f[1] /\ Dist(c[2], f[2]) <= c[1] - f[1])
                            => status[c] # "ready"

(* do_work issues every step and hpx_main gets its result; every attached *)
(* continuation runs, whether next[0] holds a value or an exception.      *)
Termination ==
    <>(mpc = "done" /\ \A k \in DOMAIN cont : cont[k] # "attached")

=============================================================================
