-------------------------- MODULE MCPureFunctions --------------------------
(***************************************************************************)
(* The pure functions of the code against their reference definitions,    *)
(* over bounded inputs; each initial state is one call, its arguments the *)
(* variables, and a state checks only the call it stands for:             *)
(*  - coarray::get_unrolled_localities with at most MaxLocalities          *)
(*    localities, MaxSegments segments and an unroll up to MaxUnroll;      *)
(*  - jenkins_hash::hash of keys of every length from 0 to MaxKeyLen (two  *)
(*    full 12-byte blocks and every tail length 0 .. 11), with bytes below *)
(*    and above 0x80, under a zero and an all-ones seed;                   *)
(*  - the arithmetics counters: every creation request over at most        *)
(*    MaxCounters base counter names, valid or malformed, and the read of  *)
(*    a counter whose base counters report Readings;                       *)
(*    OpsChecked are the counter kinds whose result is compared;          *)
(*  - stepper::heat_part's indices for partitions of width 0 .. MaxWidth.  *)
(***************************************************************************)
EXTENDS UnrolledLocalities, JenkinsHash, ArithmeticsCounter, HeatPart

CONSTANT OpsChecked

MaxLocalities == 3
MaxSegments == 9
MaxUnroll == 4

MaxKeyLen == 25

\* Key bytes (base + 37 * i) % 256: distinct neighbours, so a byte added at
\* the wrong position changes the hash.  Base 0 puts a NUL first, base 71
\* puts one sixth, base 200 none within MaxKeyLen.
KeyBases == {0, 71, 200}

Keys == {[i \in 1 .. n |-> (b + 37 * (i - 1)) % 256] : n \in 0 .. MaxKeyLen, b \in KeyBases}

Seeds == {U32(0, 0), U32(Limb - 1, Limb - 1)}

MaxCounters == 3
Values == {0, 1, 2}
Scalings == {0, 1, 2}

\* A base counter's counter_value: value_, scaling_ and scale_inverse_ (the
\* flag makes no difference at scaling_ 0 or 1, where only FALSE is taken).
Readings ==
    {b \in [value : Values, scaling : Scalings, scaleInverse : BOOLEAN] :
        b.scaleInverse => b.scaling = 2}

MaxWidth == 5

VARIABLES
    fn,             \* the function called: "layout", "hash", "counter"
                    \* or "heat"
    numLocalities, numSegments, unroll,   \* get_unrolled_localities
    key,            \* the key hashed
    seed,           \* seed_
    type, op, names, vals,   \* a counter request and its base values
    width           \* --subdomain-width, the width of heat_part's inputs

vars == <<fn, numLocalities, numSegments, unroll, key, seed,
          type, op, names, vals, width>>

\* The arguments of the functions a call does not make.
NoLayout == numLocalities = 1 /\ numSegments = 0 /\ unroll = 1 /\ width = 2
NoHash == key = <<>> /\ seed = U32(0, 0)
NoCounter ==
    /\ type = "aggregating" /\ op = "add" /\ names = <<>> /\ vals = <<>>

LayoutCall ==
    /\ fn = "layout"
    /\ numLocalities \in 1 .. MaxLocalities
    /\ numSegments \in 0 .. MaxSegments
    /\ unroll \in 0 .. MaxUnroll
    /\ width = 2
    /\ NoHash /\ NoCounter

HashCall ==
    /\ fn = "hash"
    /\ key \in Keys /\ seed \in Seeds
    /\ NoLayout /\ NoCounter

\* A counter path (type, counter name, split parameter list) and, for a
\* counter that is created, the counter_value each base counter reports.
CounterCall ==
    /\ fn = "counter"
    /\ type \in {"aggregating", "raw"}
    /\ op \in Ops
    /\ names \in BoundedSeq({"valid", "malformed"}, MaxCounters)
    /\ vals \in IF Creator(type, op, names) = "counter"
                THEN [DOMAIN names -> Readings] ELSE {<<>>}
    /\ NoLayout /\ NoHash

\* A call of heat_part on three partitions of the width given on the
\* command line (any std::uint64_t is accepted).
HeatCall ==
    /\ fn = "heat"
    /\ width \in 0 .. MaxWidth
    /\ numLocalities = 1 /\ numSegments = 0 /\ unroll = 1
    /\ NoHash /\ NoCounter

Init == LayoutCall \/ HashCall \/ CounterCall \/ HeatCall

\* The arguments of a call do not change.
Next == UNCHANGED vars

Spec == Init /\ [][Next]_vars

\* The layout loop of get_unrolled_localities terminates exactly when unroll
\* is positive or there is nothing to fill, and then places block
\* k \div unroll on locality (k \div unroll) mod |in|, the partial last block
\* included.
UnrolledLayoutIsBlockCyclic ==
    fn = "layout" =>
        LET out == GetUnrolledLocalities(numLocalities, numSegments, unroll)
        IN  IF unroll = 0 /\ numSegments > 0
            THEN out = Diverged
            ELSE out = BlockCyclic(numLocalities, numSegments, unroll)

\* On a platform whose char is unsigned, jenkins_hash::hash agrees with the
\* published lookup2: the while loop over 12-byte blocks and the
\* fall-through switch over the tail read every byte at its place.
MatchesReference == fn = "hash" => Hash(key, seed, FALSE) = ReferenceHash(key, seed)

\* The hash of a key does not depend on the signedness of char: the same
\* key hashes to the same value on every platform (keys hashed on one
\* locality and looked up on another).
PlatformIndependent == fn = "hash" => Hash(key, seed, TRUE) = Hash(key, seed, FALSE)

\* What the counter names say: a read of a created /arithmetics/<op>
\* counter whose base counters can all be read reports the real value of
\* base counter 0 op that of base counter 1 op ..., each base counter's
\* value_ scaled by its own scaling_ and the result stored back in the
\* scaling of base_values[0].
AggregateMeaning ==
    (/\ fn = "counter" /\ op \in OpsChecked
     /\ Creator(type, op, names) = "counter"
     /\ \A k \in DOMAIN vals : GetValue(vals[k]) # Throws) =>
        GetCounterValue(op, vals)
          = Scale(Meaning(op, vals), vals[1].scaling, vals[1].scaleInverse)

\* heat_part stays inside its four vectors exactly when the partitions are
\* at least 2 wide: with --subdomain-width 1 or 0, size - 2 wraps around
\* and the first stencil loop reads past the end of left_input.
HeatPartInBoundsExactlyWhenWide == fn = "heat" => (InBounds(width) <=> width >= 2)

=============================================================================
