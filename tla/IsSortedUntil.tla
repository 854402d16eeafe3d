--------------------------- MODULE IsSortedUntil ---------------------------
(***************************************************************************)
(* The unit test is_sorted_until.cpp and the parallel hpx::is_sorted_until *)
(* it calls.  The tests build a vector of N size_t values (10007 in the    *)
(* code) and check the iterator returned.                                  *)
(*                                                                         *)
(* The parallel algorithm splits the N - 1 comparisons pred(c[i], c[i-1]), *)
(* i = 1 .. N - 1, into contiguous partitions, one task each.  The tasks   *)
(* share a cancellation_token<difference_type> initialised to N: a task    *)
(* that finds pred true at i calls tok.cancel(i), a compare_exchange loop  *)
(* that only ever lowers the token, and before each comparison it asks     *)
(* tok.was_cancelled(i) (token < i) and stops if so.  When every task has  *)
(* finished, the result is first + tok.get_data().  The seq policy runs    *)
(* the same loop as a single partition.  The partition sizes are chosen by *)
(* the executor's chunker, so every split into at most MaxChunks parts is  *)
(* a possible run.                                                         *)
(***************************************************************************)
EXTENDS Integers, FiniteSets

CONSTANTS
    N,            \* the size of the vectors, 10007 in the code
    MaxChunks     \* the most partitions the chunker makes

ASSUME N >= 4 /\ MaxChunks >= 1

\* std::size_t ignore = 20000 and c1[0] = 20000: a value above every index.
Ignore == 20000

Iota == [i \in 0 .. N - 1 |-> i]

\* dis(gen): a uniform int in 0 .. 99; its two ends.
Draws == {0, 99}

\* The outcome of a call: an iterator first + at, or an exception.
Iter(at) == [ret |-> "iterator", at |-> at]
Thrown(e) == [ret |-> e, at |-> 0]

(* A test case: the vector, whether the predicate is test 2's lambda, what *)
(* the decorated iterator throws on a dereference, and what the test       *)
(* expects: the index of the iterator returned, or the exception caught.   *)
Case(c, ignores, throws, expect) ==
    [c |-> c, ignores |-> ignores, throws |-> throws, expect |-> expect]

\* test_sorted_until1 under every policy: iota, expected end(c).
SortedUntil1 == Case(Iota, FALSE, "none", Iter(N))

\* test_sorted_until2: iota with the middle value set to ignore, the
\* predicate skipping it; expected end(c).
SortedUntil2 == Case([Iota EXCEPT ![N \div 2] = Ignore], TRUE, "none", Iter(N))

\* test_sorted_until3: c1 unsorted at both ends, expected begin(c1) + 1;
\* c2 with zeros at size / 3 and 2 * size / 3, expected begin(c2) + size / 3.
SortedUntil3 ==
    << Case([Iota EXCEPT ![0] = Ignore, ![N - 1] = 0], FALSE, "none", Iter(1)),
       Case([Iota EXCEPT ![N \div 3] = 0, ![(2 * N) \div 3] = 0], FALSE, "none", Iter(N \div 3)) >>

\* test_sorted_until_exception: iota through iterators whose dereference
\* throws std::runtime_error; an hpx::exception_list must be caught.
SortedUntilException == Case(Iota, FALSE, "runtime_error", Thrown("exception_list"))

\* test_sorted_until_bad_alloc: 2 * dis(gen) in the first half and
\* 2 * dis(gen) + 1 in the second, through iterators whose dereference
\* throws std::bad_alloc, which must be caught as such.
SortedUntilBadAlloc ==
    {Case([i \in 0 .. N - 1 |-> IF i < N \div 2 THEN 2 * x ELSE 2 * y + 1],
          FALSE, "bad_alloc", Thrown("bad_alloc")) : x, y \in Draws}

\* hpx_main runs the five test groups.
Cases ==
    {SortedUntil1, SortedUntil2, SortedUntil3[1], SortedUntil3[2], SortedUntilException}
        \cup SortedUntilBadAlloc

\* The predicate: std::less, or test 2's lambda (ahead, behind) that is
\* true for an unsorted pair unless the one behind is the ignored value.
Pred(case, ahead, behind) ==
    IF case.ignores THEN behind > ahead /\ behind # Ignore
                    ELSE ahead < behind

\* The first index of each partition: 1 and the starts of the later ones;
\* a single partition is the seq policy.
Splits == {{1} \cup cuts : cuts \in {s \in SUBSET (2 .. N - 1) : Cardinality(s) < MaxChunks}}

VARIABLES
    case,       \* the test case being run
    starts,     \* the first comparison index of every partition
    tok,        \* the cancellation token's data_
    pos,        \* pos[s]: the index the task of partition s compares next
    old,        \* old[s]: the token value its compare_exchange expects
    pc,         \* pc[s]: "loop", "cas", "done" or "failed"; pc[0], the
                \* caller: "wait" or "done"
    result      \* what the call gives the test: an index or an exception

vars == <<case, starts, tok, pos, old, pc, result>>

\* The last comparison index of the partition starting at s.
Last(s) ==
    LET later == {u \in starts : u > s}
    IN  IF later = {} THEN N - 1 ELSE (CHOOSE u \in later : \A v \in later : u <= v) - 1

-----------------------------------------------------------------------------

Init ==
    /\ case \in Cases
    /\ starts \in Splits
    /\ tok = N
    /\ pos = [s \in starts |-> s]
    /\ old = [s \in starts |-> N]
    /\ pc = [s \in starts \cup {0} |-> IF s = 0 THEN "wait" ELSE "loop"]
    /\ result = Iter(N)

\* One iteration of the task's loop: was_cancelled(i) ends it; otherwise
\* pred(*it, *trail) reads c[i] and c[i - 1], where a decorated iterator
\* throws and ends the task with that exception, and when pred is true the
\* load that starts tok.cancel(i).
Compare(s) ==
    LET i == pos[s]
    IN
    /\ pc[s] = "loop"
    /\ CASE i > Last(s) \/ tok < i ->
              pc' = [pc EXCEPT ![s] = "done"] /\ UNCHANGED <<pos, old>>
         [] case.throws # "none" ->
              pc' = [pc EXCEPT ![s] = "failed"] /\ UNCHANGED <<pos, old>>
         [] Pred(case, case.c[i], case.c[i - 1]) ->
              pc' = [pc EXCEPT ![s] = "cas"] /\ old' = [old EXCEPT ![s] = tok]
              /\ UNCHANGED pos
         [] OTHER ->
              pos' = [pos EXCEPT ![s] = i + 1] /\ UNCHANGED <<pc, old>>
    /\ UNCHANGED <<case, starts, tok, result>>

\* Mutant: cancel(i) stores i without comparing (a plain store).
CancelStore(s) ==
    /\ pc[s] = "cas"
    /\ tok' = pos[s]
    /\ pc' = [pc EXCEPT ![s] = "loop"]
    /\ pos' = [pos EXCEPT ![s] = pos[s] + 1]
    /\ UNCHANGED <<case, starts, old, result>>

\* Mutant: the task cancels at i - 1, the index of the element behind.
CancelIndexBelow(s) ==
    LET i == pos[s] - 1
    IN
    /\ pc[s] = "cas"
    /\ IF old[s] <= i \/ tok = old[s]
       THEN /\ tok' = IF old[s] <= i THEN tok ELSE i
            /\ pc' = [pc EXCEPT ![s] = "loop"]
            /\ pos' = [pos EXCEPT ![s] = pos[s] + 1]
            /\ UNCHANGED old
       ELSE /\ old' = [old EXCEPT ![s] = tok]
            /\ UNCHANGED <<tok, pc, pos>>
    /\ UNCHANGED <<case, starts, result>>

\* Mutant: a failed compare_exchange does not reload old.
CancelNoReload(s) ==
    LET i == pos[s]
    IN
    /\ pc[s] = "cas"
    /\ IF old[s] <= i \/ tok = old[s]
       THEN /\ tok' = IF old[s] <= i THEN tok ELSE i
            /\ pc' = [pc EXCEPT ![s] = "loop"]
            /\ pos' = [pos EXCEPT ![s] = i + 1]
            /\ UNCHANGED old
       ELSE UNCHANGED <<tok, pc, pos, old>>
    /\ UNCHANGED <<case, starts, result>>

\* One round of cancel(i): it gives up when the token is already at or
\* below i; compare_exchange_strong(old, i) stores i if the token still is
\* old and otherwise reloads old.  Then the loop goes on to i + 1.
Cancel(s) ==
    LET i == pos[s]
    IN
    /\ pc[s] = "cas"
    /\ IF old[s] <= i \/ tok = old[s]
       THEN /\ tok' = IF old[s] <= i THEN tok ELSE i
            /\ pc' = [pc EXCEPT ![s] = "loop"]
            /\ pos' = [pos EXCEPT ![s] = i + 1]
            /\ UNCHANGED old
       ELSE /\ old' = [old EXCEPT ![s] = tok]
            /\ UNCHANGED <<tok, pc, pos>>
    /\ UNCHANGED <<case, starts, result>>

\* The partitioner has joined every task.  Without errors f2 returns
\* first + tok.get_data(); otherwise a std::bad_alloc is rethrown as it is
\* and any other exception reaches the caller in an hpx::exception_list.
Join ==
    /\ pc[0] = "wait"
    /\ \A s \in starts : pc[s] \in {"done", "failed"}
    /\ pc' = [pc EXCEPT ![0] = "done"]
    /\ result' = CASE \A s \in starts : pc[s] = "done" -> Iter(tok)
                   [] case.throws = "bad_alloc"       -> Thrown("bad_alloc")
                   [] OTHER                            -> Thrown("exception_list")
    /\ UNCHANGED <<case, starts, tok, pos, old>>

Finished == pc[0] = "done" /\ UNCHANGED vars

Next ==
    \/ \E s \in starts : Compare(s) \/ Cancel(s)
    \/ Join
    \/ Finished

Spec == Init /\ [][Next]_vars

\* Every task runs to its end and the caller is resumed: the executor runs
\* each task it is given.
FairSpec ==
    /\ Spec
    /\ \A s \in 1 .. N - 1 : WF_vars(s \in starts /\ (Compare(s) \/ Cancel(s)))
    /\ WF_vars(Join)

-----------------------------------------------------------------------------

TypeOK ==
    /\ tok \in 1 .. N
    /\ \A s \in starts : /\ pos[s] \in s .. Last(s) + 1
                         /\ pc[s] \in {"loop", "cas", "done", "failed"}
    /\ pc[0] \in {"wait", "done"}
    /\ result \in {Iter(n) : n \in 1 .. N} \cup {Thrown("bad_alloc"), Thrown("exception_list")}

\* What the tests check: whatever the partitions and however their tasks
\* interleave and race on the token, the call returns the iterator the test
\* expects (HPX_TEST(until == iterator(test_index))), or throws what the
\* test catches (caught_exception, caught_bad_alloc).
ReturnsTestIndex == pc[0] = "done" => result = case.expect

\* The call returns: no task spins for ever in the compare_exchange loop.
Termination == <>(pc[0] = "done")

=============================================================================
