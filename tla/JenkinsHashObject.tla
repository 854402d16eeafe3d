--------------------------- MODULE JenkinsHashObject ---------------------------
(***************************************************************************)
(* The seed of hpx::util::jenkins_hash objects (jenkins_hash.hpp): the     *)
(* constructors, reset, set_seed and swap, each of which sets or exchanges *)
(* seed_.  operator() hashes with seed_ and changes nothing.  A random     *)
(* seed is one of the values RandomSeed gives for the size asked for; the  *)
(* model remembers that size with the seed (bound), so that what the       *)
(* object was asked for can be compared with what it got.                  *)
(***************************************************************************)
EXTENDS JenkinsHash

CONSTANTS
    Objects,      \* the jenkins_hash objects
    Sizes,        \* sizes given to jenkins_hash(size) and reset(size)
    Seedvals,     \* seeds given to jenkins_hash(seedval, seed) and set_seed
    Samples,      \* the uint32 values a random draw is taken from
    NoBound       \* the seed was not drawn for a size

VARIABLES
    alive,        \* the objects constructed
    seed_,        \* seed_[o]: the object's seed
    bound         \* bound[o]: the size seed_[o] was drawn for, or NoBound

vars == <<alive, seed_, bound>>

Init ==
    /\ alive = {}
    /\ seed_ = [o \in Objects |-> U32(0, 0)]
    /\ bound = [o \in Objects |-> NoBound]

\* jenkins_hash(): seed_(0).
DefaultCtor(o) ==
    /\ o \notin alive
    /\ alive' = alive \cup {o}
    /\ seed_' = [seed_ EXCEPT ![o] = U32(0, 0)]
    /\ bound' = [bound EXCEPT ![o] = NoBound]

\* jenkins_hash(size): seed_(random_seed(size)).
SizedCtor(o, size) ==
    \E x \in RandomSeed(size, Samples) :
        /\ o \notin alive
        /\ alive' = alive \cup {o}
        /\ seed_' = [seed_ EXCEPT ![o] = x]
        /\ bound' = [bound EXCEPT ![o] = size]

\* jenkins_hash(seedval, seedenum): seed_(seedval).
SeededCtor(o, v) ==
    /\ o \notin alive
    /\ alive' = alive \cup {o}
    /\ seed_' = [seed_ EXCEPT ![o] = v]
    /\ bound' = [bound EXCEPT ![o] = NoBound]

\* reset(size): seed_ = random_seed(size); return true.
Reset(o, size) ==
    \E x \in RandomSeed(size, Samples) :
        /\ o \in alive
        /\ seed_' = [seed_ EXCEPT ![o] = x]
        /\ bound' = [bound EXCEPT ![o] = size]
        /\ UNCHANGED alive

\* set_seed(seedval): seed_ = seedval.
SetSeed(o, v) ==
    /\ o \in alive
    /\ seed_' = [seed_ EXCEPT ![o] = v]
    /\ bound' = [bound EXCEPT ![o] = NoBound]
    /\ UNCHANGED alive

\* swap(rhs): std::swap(seed_, rhs.seed_).
Swap(o, p) ==
    /\ {o, p} \subseteq alive /\ o # p
    /\ seed_' = [seed_ EXCEPT ![o] = seed_[p], ![p] = seed_[o]]
    /\ bound' = [bound EXCEPT ![o] = bound[p], ![p] = bound[o]]
    /\ UNCHANGED alive

Next ==
    \E o \in Objects :
        \/ DefaultCtor(o)
        \/ \E size \in Sizes : SizedCtor(o, size) \/ Reset(o, size)
        \/ \E v \in Seedvals : SeededCtor(o, v) \/ SetSeed(o, v)
        \/ \E p \in Objects : Swap(o, p)

Spec == Init /\ [][Next]_vars

-----------------------------------------------------------------------------

\* An object seeded by jenkins_hash(size) or reset(size), and any object it
\* has swapped that seed to, holds a seed below that size, as
\* uniform_int_distribution<>(0, size - 1) in random_seed intends.
SeedWithinSize ==
    \A o \in alive : bound[o] # NoBound => LtU(seed_[o], bound[o])

=============================================================================
