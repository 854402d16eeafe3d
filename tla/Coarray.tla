------------------------------ MODULE Coarray ------------------------------
(***************************************************************************)
(* hpx::coarray<T, N> (coarray.hpp): every image of an spmd_block runs the *)
(* constructor concurrently.  Image 0 computes num_segments, creates the   *)
(* partitioned_vector with the unrolled layout and register_as's it under  *)
(* name + "_hpx_coarray"; every other image connect_to's that name.  Each  *)
(* image then builds its view (update_view) and subscripts it (operator()),*)
(* an automatic subscript standing for this_image_.                        *)
(*                                                                         *)
(* Not in the sampled sources, and modelled from spec.md: the symbolic     *)
(* name registry (section 4.1: register is idempotent for the same id and  *)
(* fails with NameConflict for another; resolve waits for a pending        *)
(* registration; the mapping is freed when the id's credits reach zero),   *)
(* the client's credit on the vector, the spmd_block barrier that section  *)
(* 6 says separates construction from access, the placement of images on  *)
(* localities and the column-major basis of partitioned_vector_view.       *)
(*                                                                         *)
(* Each image constructs Rounds co-arrays in turn, the r-th under          *)
(* NameOf[r], and destroys each one before constructing the next.          *)
(***************************************************************************)
EXTENDS Integers, Sequences, FiniteSets, SequencesExt, UnrolledLocalities

CONSTANTS
    NumLocalities,       \* |find_all_localities()|
    ImagesPerLocality,   \* images_per_locality of the spmd_block
    Shapes,              \* candidate cosizes: sequences over Nat \cup {AUTO}
    AUTO,                \* hpx::container::placeholders::_
    Rounds,              \* co-arrays each image constructs in turn
    NameOf               \* NameOf[r]: the name argument in round r

ASSUME NumLocalities \in Nat \ {0} /\ ImagesPerLocality \in Nat \ {0}
ASSUME Rounds \in Nat \ {0} /\ DOMAIN NameOf = 1 .. Rounds

VARIABLES
    shape,      \* the cosizes argument, the same on every image
    pc,         \* pc[i]: where image i is in its current round
    round,      \* round[i]: the co-array image i is constructing or holds
    vec,        \* vec[i]: the gid image i's vector_ refers to
    registry,   \* symbolic name -> gid (AGAS symbol namespace)
    credit,     \* credit[d]: clients holding gid d
    layout      \* layout[d]: the locality of every segment of vector d

vars == <<shape, pc, round, vec, registry, credit, layout>>

NumImages == NumLocalities * ImagesPerLocality
Images == 0 .. NumImages - 1

\* Image 0 allocates one vector per round; its gid is the round number.
Ids == 1 .. Rounds
NoId == 0

\* The symbolic name a co-array is published under: name + "_hpx_coarray".
CoarrayName(name) == <<name, "_hpx_coarray">>
\* The keys a registration can use: the suffixed names, and the bare ones.
RegistryKeys == {CoarrayName(n) : n \in Range(NameOf)} \cup {<<n>> : n \in Range(NameOf)}

\* Images are numbered locality by locality (spmd_block).
LocalityOf(img) == img \div ImagesPerLocality

\* The constructor's loop over cosizes: auto counts num_images, and an empty
\* list gives no segment at all (N > 0 ? 1 : 0).
NumSegments(sizes) ==
    FoldLeft(LAMBDA acc, s : acc * (IF s = AUTO THEN NumImages ELSE s),
             IF Len(sizes) > 0 THEN 1 ELSE 0, sizes)

\* update_view: the view's sizes, auto replaced by num_images.
ViewSizes(sizes) ==
    [p \in DOMAIN sizes |-> IF sizes[p] = AUTO THEN NumImages ELSE sizes[p]]

\* operator(): every automatic subscript replaced by this_image_.
Subscript(img, idx) ==
    [p \in DOMAIN idx |-> IF idx[p] = AUTO THEN img ELSE idx[p]]

\* partitioned_vector_view's segment number of an index: column-major, the
\* first subscript varying fastest.
RECURSIVE FlatIndex(_, _)
FlatIndex(idx, ext) ==
    IF idx = <<>> THEN 0
    ELSE Head(idx) + Head(ext) * FlatIndex(Tail(idx), Tail(ext))

\* Every subscript list of the co-array's rank, each position either _ or
\* a value below that position's extent.
Calls(sizes) ==
    LET ext == ViewSizes(sizes)
        top == FoldLeft(LAMBDA m, e : IF e > m THEN e ELSE m, 0, ext)
    IN  {idx \in [DOMAIN sizes -> (0 .. top - 1) \cup {AUTO}] :
            \A p \in DOMAIN sizes : idx[p] = AUTO \/ idx[p] < ext[p]}

\* The destructor of a client (vector_): return its credit; at zero the
\* registry drops every name bound to the gid (spec 4.1, 3).
Release(i) ==
    LET d == vec[i] IN
    /\ credit' = [credit EXCEPT ![d] = @ - 1]
    /\ registry' = IF credit[d] = 1
                   THEN [k \in RegistryKeys |-> IF registry[k] = d THEN NoId ELSE registry[k]]
                   ELSE registry
    /\ vec' = [vec EXCEPT ![i] = NoId]

\* After image i's co-array of this round is gone: the next round or done.
NextRound(i) ==
    IF round[i] < Rounds
    THEN /\ round' = [round EXCEPT ![i] = @ + 1]
         /\ pc' = [pc EXCEPT ![i] = "start"]
    ELSE /\ pc' = [pc EXCEPT ![i] = "done"]
         /\ UNCHANGED round

Init ==
    /\ shape \in Shapes
    /\ pc = [i \in Images |-> "start"]
    /\ round = [i \in Images |-> 1]
    /\ vec = [i \in Images |-> NoId]
    /\ registry = [k \in RegistryKeys |-> NoId]
    /\ credit = [d \in Ids |-> 0]
    /\ layout = [d \in Ids |-> <<>>]

\* Mutant: the layout is built with an unroll of 1 (round robin).
CreateVectorRoundRobin ==
    LET n   == NumSegments(shape)
        out == GetUnrolledLocalities(NumLocalities, n, 1)
        d   == round[0]
    IN  /\ pc[0] = "start"
        /\ out # Diverged
        /\ layout' = [layout EXCEPT ![d] = out]
        /\ vec' = [vec EXCEPT ![0] = d]
        /\ credit' = [credit EXCEPT ![d] = 1]
        /\ pc' = [pc EXCEPT ![0] = "created"]
        /\ UNCHANGED <<shape, round, registry>>

\* Image 0: num_segments, find_all_localities() and the partitioned_vector
\* with container_layout(num_segments, get_unrolled_localities(localities,
\* num_segments, num_segments / localities.size())).  The call returns only
\* when the layout loop terminates.
CreateVector ==
    LET n   == NumSegments(shape)
        out == GetUnrolledLocalities(NumLocalities, n, n \div NumLocalities)
        d   == round[0]
    IN  /\ pc[0] = "start"
        /\ out # Diverged
        /\ layout' = [layout EXCEPT ![d] = out]
        /\ vec' = [vec EXCEPT ![0] = d]
        /\ credit' = [credit EXCEPT ![d] = 1]
        /\ pc' = [pc EXCEPT ![0] = "created"]
        /\ UNCHANGED <<shape, round, registry>>

\* Mutant: register_as uses the bare name, connect_to the suffixed one.
RegisterAsBareName ==
    LET key == <<NameOf[round[0]]>>
    IN  /\ pc[0] = "created"
        /\ registry[key] \in {NoId, vec[0]}
        /\ registry' = [registry EXCEPT ![key] = vec[0]]
        /\ pc' = [pc EXCEPT ![0] = "constructed"]
        /\ UNCHANGED <<shape, round, vec, credit, layout>>

\* Image 0: vector_.register_as(name + "_hpx_coarray").  A name bound to
\* another gid is a NameConflict: the exception leaves the constructor and
\* destroys vector_.
RegisterAs ==
    LET key == CoarrayName(NameOf[round[0]])
    IN  /\ pc[0] = "created"
        /\ \/ /\ registry[key] \in {NoId, vec[0]}
              /\ registry' = [registry EXCEPT ![key] = vec[0]]
              /\ pc' = [pc EXCEPT ![0] = "constructed"]
              /\ UNCHANGED <<vec, credit>>
           \/ /\ registry[key] \notin {NoId, vec[0]}
              /\ pc' = [pc EXCEPT ![0] = "failed"]
              /\ Release(0)
        /\ UNCHANGED <<shape, round, layout>>

\* Mutant: connect_to does not wait for the registration.
ConnectToNoWait(i) ==
    LET d == registry[CoarrayName(NameOf[round[i]])]
    IN  /\ i # 0
        /\ pc[i] = "start"
        /\ vec' = [vec EXCEPT ![i] = d]
        /\ credit' = IF d # NoId THEN [credit EXCEPT ![d] = @ + 1] ELSE credit
        /\ pc' = [pc EXCEPT ![i] = "constructed"]
        /\ UNCHANGED <<shape, round, registry, layout>>

\* Image i > 0: vector_.connect_to(name + "_hpx_coarray"), which waits until
\* the name is bound and takes a credit on the gid it resolves to.
ConnectTo(i) ==
    LET d == registry[CoarrayName(NameOf[round[i]])]
    IN  /\ i # 0
        /\ pc[i] = "start"
        /\ d # NoId
        /\ vec' = [vec EXCEPT ![i] = d]
        /\ credit' = [credit EXCEPT ![d] = @ + 1]
        /\ pc' = [pc EXCEPT ![i] = "constructed"]
        /\ UNCHANGED <<shape, round, registry, layout>>

\* block.sync_all() after construction.  An image does nothing between the
\* constructor and the barrier, so "constructed" is also "arrived at
\* sync_all": image i passes once every image has arrived in this round or
\* gone past it.
SyncAll(i) ==
    /\ pc[i] = "constructed"
    /\ \A j \in Images :
          \/ round[j] > round[i]
          \/ round[j] = round[i] /\ pc[j] \in {"constructed", "synced", "done"}
    /\ pc' = [pc EXCEPT ![i] = "synced"]
    /\ UNCHANGED <<shape, round, vec, registry, credit, layout>>

\* The co-array goes out of scope: ~coarray destroys vector_.
Destroy(i) ==
    /\ pc[i] = "synced"
    /\ Release(i)
    /\ NextRound(i)
    /\ UNCHANGED <<shape, layout>>

\* Every image has returned.
Finished ==
    /\ \A i \in Images : pc[i] = "done"
    /\ UNCHANGED vars

Next ==
    \/ CreateVector
    \/ RegisterAs
    \/ \E i \in Images : ConnectTo(i) \/ SyncAll(i) \/ Destroy(i)
    \/ Finished

Spec == Init /\ [][Next]_vars

\* HPX threads of every image are scheduled; each step an image can take
\* is eventually taken.
FairSpec ==
    /\ Spec
    /\ WF_vars(CreateVector) /\ WF_vars(RegisterAs)
    /\ \A i \in Images : WF_vars(ConnectTo(i)) /\ WF_vars(SyncAll(i)) /\ WF_vars(Destroy(i))

-----------------------------------------------------------------------------

\* Every variable has its type, and an image past construction holds a gid.
TypeOK ==
    /\ shape \in Shapes
    /\ pc \in [Images -> {"start", "created", "constructed", "synced", "done", "failed"}]
    /\ round \in [Images -> 1 .. Rounds]
    /\ vec \in [Images -> Ids \cup {NoId}]
    /\ registry \in [RegistryKeys -> Ids \cup {NoId}]
    /\ credit \in [Ids -> 0 .. NumImages]
    /\ \A i \in Images : pc[i] \in {"created", "constructed", "synced"} => vec[i] \in Ids

\* The gid each image's vector_ refers to after construction.
Holders(d) == {i \in Images : vec[i] = d}

\* The idiom a(j1, ..., _): on every image, every index whose last subscript
\* is automatic addresses a segment the layout of image 0 placed on the
\* calling image's own locality, so the image's slice is local.
AutoAccessIsLocal ==
    \A i \in Images : pc[i] \in {"constructed", "synced"} =>
        LET ext == ViewSizes(shape)
            n   == Len(shape)
        IN  \A idx \in Calls(shape) :
               (idx[n] = AUTO /\ \A p \in 1 .. n - 1 : idx[p] # AUTO)
                 => layout[vec[i]][FlatIndex(Subscript(i, idx), ext)] = LocalityOf(i)

\* Construction is a rendezvous on the name: every image that has
\* constructed its co-array of round r refers to the vector image 0 created
\* for round r.
ConnectedToOwnVector ==
    \A i \in Images : pc[i] \in {"constructed", "synced"} => vec[i] = round[i]

\* Both operator() overloads accept _ in any position, but this_image_ is
\* in range only where the extent is num_images: every subscript list the
\* overloads accept yields an index inside the view.
AutoSubscriptInRange ==
    \A i \in Images : pc[i] \in {"constructed", "synced"} =>
        \A idx \in Calls(shape) :
            \A p \in DOMAIN shape : Subscript(i, idx)[p] < ViewSizes(shape)[p]

\* Every image eventually returns from all its rounds.
Termination == <>(\A i \in Images : pc[i] = "done")

=============================================================================
