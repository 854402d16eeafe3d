---------------------------- MODULE WaitAllChunks ----------------------------
(***************************************************************************)
(* wait_all_timings.cpp: hpx_main times wait_tasks(samples, tasks, 1, d)   *)
(* and, when --chunks is not 1, wait_tasks(samples, tasks, chunks, d).     *)
(* Each sample creates the futures split into chunks; with one chunk the   *)
(* main thread waits on it, otherwise one hpx::async task per chunk waits  *)
(* on its chunk (captured by reference) and the main thread waits on those *)
(* tasks.  A future is ready at creation when delay is 0, otherwise a      *)
(* timer makes it ready later (make_ready_future_after).  Timings are not  *)
(* modelled.                                                               *)
(***************************************************************************)
EXTENDS Integers, FiniteSets

CONSTANTS
    MaxTasks,     \* largest --futures
    MaxChunks,    \* largest --chunks
    MaxSamples    \* largest --samples

VARIABLES
    numTasks, numChunks, delayed, numSamples,   \* the options, fixed
    call,    \* the argument num_chunks of the running wait_tasks, or 0
    k,       \* the sample loop counter
    mpc,     \* the main thread: "create", "wait" or "done"
    fut,     \* fut[<<c, j>>]: future j of chunks[c], "pending" or "ready"
    task     \* task[c]: the async task waiting on chunks[c]

vars == <<numTasks, numChunks, delayed, numSamples, call, k, mpc, fut, task>>

ChunkIds == 0 .. MaxChunks - 1

\* num_chunk_tasks and last_num_chunk_tasks: the size of chunk c of n.
ChunkSize(c, n) ==
    LET per == ((numTasks + n) \div n) - 1
    IN  IF c = n - 1 THEN numTasks - (n - 1) * per ELSE per

\* The futures of one sample, chunk by chunk: create_tasks for each chunk.
Created(n) ==
    [f \in {<<c, j>> \in (0 .. n - 1) \X (0 .. MaxTasks) : j < ChunkSize(c, n)}
       |-> IF delayed THEN "pending" ELSE "ready"]

ChunkReady(c) == \A f \in DOMAIN fut : f[1] = c => fut[f] = "ready"

NoTasks == [c \in ChunkIds |-> "none"]

\* chunk_results destroyed: a finished task is gone, an unfinished one goes
\* on running (a future's destructor does not join its task).
Detached == [c \in ChunkIds |-> IF task[c] = "running" THEN "running" ELSE "none"]

\* hpx_main: the options (a --chunks of 0 becomes 1), then the first call.
Init ==
    /\ numTasks \in 0 .. MaxTasks
    /\ \E n \in 0 .. MaxChunks : numChunks = IF n = 0 THEN 1 ELSE n
    /\ delayed \in BOOLEAN
    /\ numSamples \in 0 .. MaxSamples
    /\ call = 1 /\ k = 0 /\ mpc = "create"
    /\ fut = <<>> /\ task = NoTasks

\* Mutant: the sample loop test is k <= num_samples.
CreateLoopLe ==
    /\ mpc = "create" /\ k <= numSamples
    /\ fut' = Created(call)
    /\ task' = IF call = 1 THEN NoTasks
               ELSE [c \in ChunkIds |-> IF c < call THEN "running" ELSE "none"]
    /\ mpc' = "wait"
    /\ UNCHANGED <<numTasks, numChunks, delayed, numSamples, call, k>>

\* Mutant: the spawning loop stops one chunk early (c != num_chunks - 1).
CreateSpawnShort ==
    /\ mpc = "create" /\ k # numSamples
    /\ fut' = Created(call)
    /\ task' = IF call = 1 THEN NoTasks
               ELSE [c \in ChunkIds |-> IF c < call - 1 THEN "running" ELSE "none"]
    /\ mpc' = "wait"
    /\ UNCHANGED <<numTasks, numChunks, delayed, numSamples, call, k>>

\* The body of the sample loop up to the wait: create the chunks and, with
\* more than one chunk, one task per chunk.
Create ==
    /\ mpc = "create" /\ k # numSamples
    /\ fut' = Created(call)
    /\ task' = IF call = 1 THEN NoTasks
               ELSE [c \in ChunkIds |-> IF c < call THEN "running" ELSE "none"]
    /\ mpc' = "wait"
    /\ UNCHANGED <<numTasks, numChunks, delayed, numSamples, call, k>>

\* make_ready_future_after: the timer of a delayed future fires.
Timer(f) ==
    /\ fut[f] = "pending"
    /\ fut' = [fut EXCEPT ![f] = "ready"]
    /\ UNCHANGED <<numTasks, numChunks, delayed, numSamples, call, k, mpc, task>>

\* hpx::wait_all(chunks[c]) in chunk task c returns.
ChunkWait(c) ==
    /\ task[c] = "running"
    /\ ChunkReady(c)
    /\ task' = [task EXCEPT ![c] = "done"]
    /\ UNCHANGED <<numTasks, numChunks, delayed, numSamples, call, k, mpc, fut>>

\* Mutant: the main thread waits on the first chunk task only.
WaitReturnsFirstOnly ==
    /\ mpc = "wait"
    /\ IF call = 1 THEN ChunkReady(0) ELSE task[0] = "done"
    /\ k' = k + 1 /\ mpc' = "create"
    /\ fut' = <<>> /\ task' = Detached
    /\ UNCHANGED <<numTasks, numChunks, delayed, numSamples, call>>

\* hpx::wait_all(chunks[0]), or wait_all(chunk_results), returns; the
\* elapsed time is added, ++k, and chunks and chunk_results are destroyed.
WaitReturns ==
    /\ mpc = "wait"
    /\ IF call = 1 THEN ChunkReady(0)
       ELSE \A c \in 0 .. call - 1 : task[c] = "done"
    /\ k' = k + 1 /\ mpc' = "create"
    /\ fut' = <<>> /\ task' = Detached
    /\ UNCHANGED <<numTasks, numChunks, delayed, numSamples, call>>

\* The sample loop ends: the sequential call is followed by the chunked
\* one when num_chunks != 1; then hpx_main prints and finalizes.
EndCall ==
    /\ mpc = "create" /\ k = numSamples
    /\ IF call = 1 /\ numChunks # 1
       THEN call' = numChunks /\ k' = 0 /\ UNCHANGED mpc
       ELSE call' = 0 /\ mpc' = "done" /\ UNCHANGED k
    /\ UNCHANGED <<numTasks, numChunks, delayed, numSamples, fut, task>>

Finished == mpc = "done" /\ UNCHANGED vars

Next ==
    \/ Create
    \/ \E f \in DOMAIN fut : Timer(f)
    \/ \E c \in ChunkIds : ChunkWait(c)
    \/ WaitReturns
    \/ EndCall
    \/ Finished

Spec == Init /\ [][Next]_vars

\* Timers fire, runnable tasks run and the main thread resumes: the HPX
\* scheduler runs every runnable thread.
FairSpec ==
    /\ Spec
    /\ WF_vars(Create) /\ WF_vars(WaitReturns) /\ WF_vars(EndCall)
    /\ \A c \in ChunkIds : WF_vars(ChunkWait(c))
    /\ \A c \in ChunkIds, j \in 0 .. MaxTasks : WF_vars(<<c, j>> \in DOMAIN fut /\ Timer(<<c, j>>))

-----------------------------------------------------------------------------

TypeOK ==
    /\ call \in 0 .. MaxChunks
    /\ k \in 0 .. MaxSamples
    /\ mpc \in {"create", "wait", "done"}
    /\ \A f \in DOMAIN fut : fut[f] \in {"pending", "ready"}
    /\ task \in [ChunkIds -> {"none", "running", "done"}]

\* The chunk tasks capture chunks by reference: none of them is still
\* waiting once the main thread has left the wait and the chunks of the
\* sample are destroyed.
ChunksOutliveTasks ==
    \A c \in ChunkIds : task[c] = "running" => mpc = "wait"

\* Both calls of wait_tasks complete and hpx_main finalizes.
Termination == <>(mpc = "done")

=============================================================================
