------------------------------ MODULE RowRange ------------------------------
(***************************************************************************)
(* jacobi::row_range and its value_holder (row_range.hpp) under concurrent *)
(* use: each thread holds one row_range whose values_ is an                *)
(* intrusive_ptr<value_holder>.  Copying a row_range calls                 *)
(* intrusive_ptr_add_ref (an atomic increment of count_); destroying one,  *)
(* or replacing its holder in load(), calls intrusive_ptr_release, whose   *)
(* atomic decrement returns the new count and whose test of that value     *)
(* decides the delete: two steps, between which other threads run.  A row  *)
(* range is the slice begin_ .. end_ - 1 of its holder's v_, of which the  *)
(* model keeps the length; the values themselves are not modelled.  The    *)
(* client builds row_ranges over slices of a holder it owns (the only      *)
(* thing the constructor's HPX_ASSERT(end_ > begin_) leaves to it), and    *)
(* save()s and load()s them through an archive.                            *)
(***************************************************************************)
EXTENDS Integers, FiniteSets

CONSTANTS
    Threads,      \* threads each holding a row_range
    Holders,      \* value_holder objects load() may allocate
    NoHolder,     \* a null intrusive_ptr
    MaxSize       \* the longest v_ a holder is created with

\* The indeterminate begin_ and end_ of a default-constructed row_range
\* (row_range() {} initialises neither); no slice has it.
Unset == -1

VARIABLES
    ptr,          \* ptr[t]: values_ of thread t's row_range
    pc,           \* pc[t]: "idle", or "released" between the two steps
    rel,          \* rel[t]: the holder thread t is releasing
    fetched,      \* fetched[t]: the value --count_ returned to thread t
    count,        \* count[h]: h->count_
    allocated,    \* holders created by new value_holder()
    deletes,      \* deletes[h]: how often delete ran on h
    begin,        \* begin[t]: begin_ of thread t's row_range
    end,          \* end[t]: its end_
    size,         \* size[h]: h->v_.size()
    saved         \* the lengths of the vectors save() has written

vars == <<ptr, pc, rel, fetched, count, allocated, deletes, begin, end, size, saved>>
slice == <<begin, end>>

\* The positions in values_->v_ of the elements from begin() to end()
\* (values_->v_.begin() + begin_ and + end_), which range_begin and
\* range_end give to range-based algorithms.
Elements(t) == begin[t] .. end[t] - 1

MaxCount == Cardinality(Threads)

\* Every row_range starts default-constructed: values_ is null.
Init ==
    /\ ptr = [t \in Threads |-> NoHolder]
    /\ pc = [t \in Threads |-> "idle"]
    /\ rel = [t \in Threads |-> NoHolder]
    /\ fetched = [t \in Threads |-> 0]
    /\ count = [h \in Holders |-> 0]
    /\ allocated = {}
    /\ deletes = [h \in Holders |-> 0]
    /\ begin = [t \in Threads |-> Unset]
    /\ end = [t \in Threads |-> Unset]
    /\ size = [h \in Holders |-> 0]
    /\ saved = {}

\* Mutant: the copy shares the raw pointer without add_ref.
CopyNoAddRef(t, u) ==
    /\ pc[t] = "idle" /\ ptr[t] = NoHolder
    /\ ptr[u] # NoHolder
    /\ ptr' = [ptr EXCEPT ![t] = ptr[u]]
    /\ begin' = [begin EXCEPT ![t] = begin[u]]
    /\ end' = [end EXCEPT ![t] = end[u]]
    /\ UNCHANGED <<pc, rel, fetched, count, allocated, deletes, size, saved>>

\* Mutant: the copy takes a reference twice, in intrusive_ptr's copy and
\* again explicitly.
CopyAddRefTwice(t, u) ==
    /\ pc[t] = "idle" /\ ptr[t] = NoHolder
    /\ ptr[u] # NoHolder
    /\ ptr' = [ptr EXCEPT ![t] = ptr[u]]
    /\ count' = [count EXCEPT ![ptr[u]] = @ + 2]
    /\ begin' = [begin EXCEPT ![t] = begin[u]]
    /\ end' = [end EXCEPT ![t] = end[u]]
    /\ UNCHANGED <<pc, rel, fetched, allocated, deletes, size, saved>>

\* Thread t's row_range becomes a copy of thread u's: the implicit copy
\* constructor copies begin_, end_ and values_, whose intrusive_ptr copy
\* calls intrusive_ptr_add_ref, ++count_.
Copy(t, u) ==
    /\ pc[t] = "idle" /\ ptr[t] = NoHolder
    /\ ptr[u] # NoHolder
    /\ ptr' = [ptr EXCEPT ![t] = ptr[u]]
    /\ count' = [count EXCEPT ![ptr[u]] = @ + 1]
    /\ begin' = [begin EXCEPT ![t] = begin[u]]
    /\ end' = [end EXCEPT ![t] = end[u]]
    /\ UNCHANGED <<pc, rel, fetched, allocated, deletes, size, saved>>

\* row_range(values, b, e) over a slice b .. e - 1 of the holder thread u
\* refers to: values_ copies the intrusive_ptr (add_ref), and the client's
\* slice satisfies HPX_ASSERT(end_ > begin_).
Slice(t, u) ==
    \E b, e \in 0 .. MaxSize :
        /\ pc[t] = "idle" /\ ptr[t] = NoHolder
        /\ ptr[u] # NoHolder
        /\ b < e /\ e <= size[ptr[u]]
        /\ ptr' = [ptr EXCEPT ![t] = ptr[u]]
        /\ count' = [count EXCEPT ![ptr[u]] = @ + 1]
        /\ begin' = [begin EXCEPT ![t] = b]
        /\ end' = [end EXCEPT ![t] = e]
        /\ UNCHANGED <<pc, rel, fetched, allocated, deletes, size, saved>>

\* row_range(new value_holder(n), b, e): a holder of n values (count_ 0),
\* taken by the intrusive_ptr (count_ 1), and a slice of it.
Make(t) ==
    \E h \in Holders \ allocated, n \in 1 .. MaxSize, b, e \in 0 .. MaxSize :
        /\ pc[t] = "idle" /\ ptr[t] = NoHolder
        /\ b < e /\ e <= n
        /\ ptr' = [ptr EXCEPT ![t] = h]
        /\ allocated' = allocated \cup {h}
        /\ count' = [count EXCEPT ![h] = 1]
        /\ size' = [size EXCEPT ![h] = n]
        /\ begin' = [begin EXCEPT ![t] = b]
        /\ end' = [end EXCEPT ![t] = e]
        /\ UNCHANGED <<pc, rel, fetched, deletes, saved>>

\* Mutant: release keeps the value count_ had before the decrement, as
\* (0 == p->count_--) would.
DecrementPostfix(t, h) ==
    /\ count' = [count EXCEPT ![h] = @ - 1]
    /\ fetched' = [fetched EXCEPT ![t] = count[h]]
    /\ rel' = [rel EXCEPT ![t] = h]
    /\ pc' = [pc EXCEPT ![t] = "released"]

\* The first step of intrusive_ptr_release: --p->count_, atomically, and
\* the returned value kept for the test.
Decrement(t, h) ==
    /\ count' = [count EXCEPT ![h] = @ - 1]
    /\ fetched' = [fetched EXCEPT ![t] = count[h] - 1]
    /\ rel' = [rel EXCEPT ![t] = h]
    /\ pc' = [pc EXCEPT ![t] = "released"]

\* Thread t's row_range is destroyed: values_ is released.  The thread's
\* next row_range is default-constructed.
Destroy(t) ==
    /\ pc[t] = "idle" /\ ptr[t] # NoHolder
    /\ ptr' = [ptr EXCEPT ![t] = NoHolder]
    /\ Decrement(t, ptr[t])
    /\ begin' = [begin EXCEPT ![t] = Unset]
    /\ end' = [end EXCEPT ![t] = Unset]
    /\ UNCHANGED <<allocated, deletes, size, saved>>

\* row_range::save: HPX_ASSERT(values_), then the vector of the values
\* begin_ .. end_ - 1 is written.
Save(t) ==
    /\ pc[t] = "idle" /\ ptr[t] # NoHolder
    /\ saved' = saved \cup {Cardinality(Elements(t))}
    /\ UNCHANGED <<ptr, pc, rel, fetched, count, allocated, deletes, slice, size>>

\* Mutant: load() sets end_ but leaves begin_ as it was.
LoadKeepsBegin(t) ==
    \E h \in Holders \ allocated, n \in saved :
        /\ pc[t] = "idle"
        /\ ptr' = [ptr EXCEPT ![t] = h]
        /\ allocated' = allocated \cup {h}
        /\ size' = [size EXCEPT ![h] = n]
        /\ end' = [end EXCEPT ![t] = n]
        /\ IF ptr[t] = NoHolder
           THEN /\ count' = [count EXCEPT ![h] = 1]
                /\ UNCHANGED <<pc, rel, fetched>>
           ELSE /\ count' = [count EXCEPT ![h] = 1, ![ptr[t]] = @ - 1]
                /\ fetched' = [fetched EXCEPT ![t] = count[ptr[t]] - 1]
                /\ rel' = [rel EXCEPT ![t] = ptr[t]]
                /\ pc' = [pc EXCEPT ![t] = "released"]
        /\ UNCHANGED <<deletes, begin, saved>>

\* row_range::load from a vector save() wrote: values_.reset(new
\* value_holder()), the new holder taken with add_ref (count 1) and the
\* old one, if any, released; ar & values_->v_ gives it the n values read;
\* begin_ = 0 and end_ = v_.size().
Load(t) ==
    \E h \in Holders \ allocated, n \in saved :
        /\ pc[t] = "idle"
        /\ ptr' = [ptr EXCEPT ![t] = h]
        /\ allocated' = allocated \cup {h}
        /\ size' = [size EXCEPT ![h] = n]
        /\ begin' = [begin EXCEPT ![t] = 0]
        /\ end' = [end EXCEPT ![t] = n]
        /\ IF ptr[t] = NoHolder
           THEN /\ count' = [count EXCEPT ![h] = 1]
                /\ UNCHANGED <<pc, rel, fetched>>
           ELSE /\ count' = [count EXCEPT ![h] = 1, ![ptr[t]] = @ - 1]
                /\ fetched' = [fetched EXCEPT ![t] = count[ptr[t]] - 1]
                /\ rel' = [rel EXCEPT ![t] = ptr[t]]
                /\ pc' = [pc EXCEPT ![t] = "released"]
        /\ UNCHANGED <<deletes, saved>>

\* Mutant: the test reads p->count_ again instead of the decrement's result.
DeleteIfLastRereads(t) ==
    /\ pc[t] = "released"
    /\ deletes' = IF count[rel[t]] = 0
                  THEN [deletes EXCEPT ![rel[t]] = @ + 1] ELSE deletes
    /\ rel' = [rel EXCEPT ![t] = NoHolder]
    /\ pc' = [pc EXCEPT ![t] = "idle"]
    /\ UNCHANGED <<ptr, fetched, count, allocated, slice, size, saved>>

\* Mutant: the test is off by one, if (1 >= result) delete p.
DeleteIfLastOffByOne(t) ==
    /\ pc[t] = "released"
    /\ deletes' = IF fetched[t] <= 1
                  THEN [deletes EXCEPT ![rel[t]] = @ + 1] ELSE deletes
    /\ rel' = [rel EXCEPT ![t] = NoHolder]
    /\ pc' = [pc EXCEPT ![t] = "idle"]
    /\ UNCHANGED <<ptr, fetched, count, allocated, slice, size, saved>>

\* The second step of intrusive_ptr_release: if (0 == result) delete p.
DeleteIfLast(t) ==
    /\ pc[t] = "released"
    /\ deletes' = IF fetched[t] = 0
                  THEN [deletes EXCEPT ![rel[t]] = @ + 1] ELSE deletes
    /\ rel' = [rel EXCEPT ![t] = NoHolder]
    /\ pc' = [pc EXCEPT ![t] = "idle"]
    /\ UNCHANGED <<ptr, fetched, count, allocated, slice, size, saved>>

\* Every holder has been created and every row_range has let go.
Finished ==
    /\ allocated = Holders
    /\ \A t \in Threads : ptr[t] = NoHolder /\ pc[t] = "idle"
    /\ UNCHANGED vars

Next ==
    \/ \E t \in Threads :
          \/ \E u \in Threads : Copy(t, u) \/ Slice(t, u)
          \/ Make(t)
          \/ Destroy(t)
          \/ Save(t)
          \/ Load(t)
          \/ DeleteIfLast(t)
    \/ Finished

Spec == Init /\ [][Next]_vars

\* A thread that has decremented finishes the release: the two steps are one
\* noexcept function.
FairSpec == Spec /\ \A t \in Threads : WF_vars(DeleteIfLast(t))

-----------------------------------------------------------------------------

TypeOK ==
    /\ ptr \in [Threads -> Holders \cup {NoHolder}]
    /\ pc \in [Threads -> {"idle", "released"}]
    /\ rel \in [Threads -> Holders \cup {NoHolder}]
    /\ fetched \in [Threads -> -MaxCount .. MaxCount]
    /\ count \in [Holders -> 0 .. MaxCount]
    /\ allocated \subseteq Holders
    /\ deletes \in [Holders -> 0 .. MaxCount]
    /\ begin \in [Threads -> {Unset} \cup 0 .. MaxSize]
    /\ end \in [Threads -> {Unset} \cup 0 .. MaxSize]
    /\ size \in [Holders -> 0 .. MaxSize]
    /\ saved \subseteq 0 .. MaxSize

\* Each value_holder is deleted at most once, however the decrements and
\* tests of several threads releasing it interleave.
DeletedOnce == \A h \in Holders : deletes[h] <= 1

\* No row_range reaches a deleted value_holder: begin(), end() and save()
\* dereference values_ only while it is alive.
NoUseAfterFree ==
    \A t \in Threads : ptr[t] # NoHolder => deletes[ptr[t]] = 0

\* Every row_range with a holder has a non-empty slice inside its v_, so
\* begin(), end() and save() stay within the vector and load()'s
\* HPX_ASSERT(end_ > begin_) holds: no default-constructed begin_/end_ is
\* ever paired with a holder, however copies, slices, saves and loads of
\* several threads follow one another.
SliceInBounds ==
    \A t \in Threads :
        ptr[t] # NoHolder => Elements(t) # {} /\ Elements(t) \subseteq 0 .. size[ptr[t]] - 1

\* A holder no row_range refers to any more is eventually deleted.
NoLeak ==
    \A h \in Holders :
        (h \in allocated /\ count[h] = 0) ~> deletes[h] = 1

\* The refinement: count_ > 0 is "alive", count_ = 0 after creation is
\* "dead" (the delete that follows is invisible to the owners), and the
\* owners are the row_ranges' pointers.
Ownership == INSTANCE SharedOwnership WITH
    owner <- ptr,
    live  <- {h \in allocated : count[h] > 0},
    freed <- {h \in allocated : count[h] = 0}

\* The intrusive count implements explicit shared ownership.
RefinesSharedOwnership == Ownership!Spec

=============================================================================
