------------------------------ MODULE JenkinsHash ------------------------------
(***************************************************************************)
(* hpx::util::jenkins_hash (jenkins_hash.hpp): Bob Jenkins' lookup2 hash   *)
(* of a byte string under a 32-bit seed.  A size_type (std::uint32_t) is   *)
(* a pair <<hi, lo>> of 16-bit limbs, so that every +=, -=, ^=, << and >>  *)
(* wraps modulo 2^32 exactly as the C++ does.  A key is a sequence of      *)
(* bytes 0 .. 255; reading one through char gives a signed or an unsigned  *)
(* value, as the platform's char is (implementation-defined), chosen by    *)
(* the parameter signed.                                                   *)
(***************************************************************************)
EXTENDS Integers, Sequences, SequencesExt, Bitwise

Limb == 2^16

\* A uint32 given as its two limbs; a literal above 2^31 is written so.
U32(hi, lo) == <<hi, lo>>

\* A size_t length below 2^16 converted to size_type.
FromNat(n) == U32(n \div Limb, n % Limb)

AddU(x, y) ==
    LET lo == x[2] + y[2]
    IN  U32((x[1] + y[1] + lo \div Limb) % Limb, lo % Limb)

SubU(x, y) ==
    LET lo == x[2] - y[2]
    IN  U32((x[1] - y[1] - (IF lo < 0 THEN 1 ELSE 0)) % Limb, lo % Limb)

XorU(x, y) == U32(x[1] ^^ y[1], x[2] ^^ y[2])

\* x << k for 0 < k < 32, bits shifted past bit 31 lost.
ShlU(x, k) ==
    IF k < 16
    THEN U32((x[1] % 2^(16 - k)) * 2^k + x[2] \div 2^(16 - k),
             (x[2] % 2^(16 - k)) * 2^k)
    ELSE U32((x[2] % 2^(32 - k)) * 2^(k - 16), 0)

\* x >> k for 0 < k < 32 (logical: size_type is unsigned).
ShrU(x, k) ==
    IF k < 16
    THEN U32(x[1] \div 2^k, x[2] \div 2^k + (x[1] % 2^k) * 2^(16 - k))
    ELSE U32(0, x[1] \div 2^(k - 16))

\* The nine lines of detail::mix, each "x -= y; x -= z; x ^= (z shift k)"
\* on positions x, y, z of <<a, b, c>>.
MixSchedule ==
    << [x |-> 1, y |-> 2, z |-> 3, left |-> FALSE, k |-> 13],
       [x |-> 2, y |-> 3, z |-> 1, left |-> TRUE,  k |-> 8],
       [x |-> 3, y |-> 1, z |-> 2, left |-> FALSE, k |-> 13],
       [x |-> 1, y |-> 2, z |-> 3, left |-> FALSE, k |-> 12],
       [x |-> 2, y |-> 3, z |-> 1, left |-> TRUE,  k |-> 16],
       [x |-> 3, y |-> 1, z |-> 2, left |-> FALSE, k |-> 5],
       [x |-> 1, y |-> 2, z |-> 3, left |-> FALSE, k |-> 3],
       [x |-> 2, y |-> 3, z |-> 1, left |-> TRUE,  k |-> 10],
       [x |-> 3, y |-> 1, z |-> 2, left |-> FALSE, k |-> 15] >>

Shifted(r, v) == IF r.left THEN ShlU(v, r.k) ELSE ShrU(v, r.k)

MixLine(t, r) ==
    LET d == SubU(SubU(t[r.x], t[r.y]), t[r.z])
    IN  [t EXCEPT ![r.x] = XorU(d, Shifted(r, t[r.z]))]

\* detail::mix(a, b, c) on t = <<a, b, c>>.
Mix(t) == FoldLeft(MixLine, t, MixSchedule)

\* k[i] (0-based), a char promoted to int and converted to size_type:
\* a byte >= 0x80 read as a negative char wraps to 2^32 + byte - 256.
CharU(key, i, signed) ==
    IF signed /\ key[i + 1] >= 128
    THEN U32(Limb - 1, Limb - 256 + key[i + 1])
    ELSE U32(0, key[i + 1])

\* k[i] + (size_type(k[i+1]) << 8) + (size_type(k[i+2]) << 16)
\*      + (size_type(k[i+3]) << 24)
Word(key, i, signed) ==
    AddU(AddU(AddU(CharU(key, i, signed), ShlU(CharU(key, i + 1, signed), 8)),
              ShlU(CharU(key, i + 2, signed), 16)),
         ShlU(CharU(key, i + 3, signed), 24))

\* One iteration of "while (len >= 12)": the three words added, then mix.
Block(t, key, signed) ==
    Mix(<< AddU(t[1], Word(key, 0, signed)),
           AddU(t[2], Word(key, 4, signed)),
           AddU(t[3], Word(key, 8, signed)) >>)

\* Mutant: the loop runs while len > 12.
RECURSIVE BlocksGt(_, _, _)
BlocksGt(t, key, signed) ==
    IF Len(key) > 12
    THEN BlocksGt(Block(t, key, signed), SubSeq(key, 13, Len(key)), signed)
    ELSE <<t, key>>

\* The loop: k += 12, len -= 12 per iteration; the state and the rest of the
\* key it leaves.
RECURSIVE Blocks(_, _, _)
Blocks(t, key, signed) ==
    IF Len(key) >= 12
    THEN Blocks(Block(t, key, signed), SubSeq(key, 13, Len(key)), signed)
    ELSE <<t, key>>

\* The switch on the last len < 12 bytes, all cases falling through: byte r
\* goes to a (r < 4) or b (r < 8) at shift 8 * (r % 4), or to c at shift
\* 8 * (r - 7), the first byte of c being reserved for the length.
TailByte(t, key, r, signed) ==
    LET v == CharU(key, r, signed)
    IN  CASE r < 4 -> [t EXCEPT ![1] = AddU(@, IF r = 0 THEN v ELSE ShlU(v, 8 * r))]
          [] r < 8 -> [t EXCEPT ![2] = AddU(@, IF r = 4 THEN v ELSE ShlU(v, 8 * (r - 4)))]
          [] OTHER -> [t EXCEPT ![3] = AddU(@, ShlU(v, 8 * (r - 7)))]

Tail11(t, key, signed) ==
    FoldLeft(LAMBDA s, r : TailByte(s, key, r, signed), t,
             [i \in 1 .. Len(key) |-> Len(key) - i])

GoldenRatio == U32(40503, 31161)    \* 0x9e3779b9

\* jenkins_hash::hash(k, length) with seed_ = seed: returns c.
Hash(key, seed, signed) ==
    LET r == Blocks(<<GoldenRatio, GoldenRatio, seed>>, key, signed)
        t == [r[1] EXCEPT ![3] = AddU(@, FromNat(Len(key)))]
    IN  Mix(Tail11(t, r[2], signed))[3]

\* std::strlen(key): the number of bytes before the first NUL.
StrLen(key) ==
    LET nul == SelectInSeq(key, LAMBDA b : b = 0)
    IN  IF nul = 0 THEN Len(key) ELSE nul - 1

\* operator()(std::string const& key): hash(key.c_str(), key.size()).
HashString(key, seed, signed) == Hash(key, seed, signed)

\* operator()(char const* key): hash(key, std::strlen(key)), for a key
\* whose buffer holds the bytes of key followed by a NUL.
HashCString(key, seed, signed) == Hash(SubSeq(key, 1, StrLen(key)), seed, signed)

-----------------------------------------------------------------------------
(* Reference definitions.                                                  *)

\* The published lookup2 (unsigned bytes), read as little-endian 32-bit
\* words of the key zero-padded to a whole number of 12-byte blocks, the
\* last block's c word shifted up one byte to make room for the length.
LE(b0, b1, b2, b3) == U32(b2 + 256 * b3, b0 + 256 * b1)

Padded(key) == key \o [i \in 1 .. 12 - (Len(key) % 12) |-> 0]

RECURSIVE RefBlocks(_, _)
RefBlocks(t, p) ==
    IF Len(p) = 12 THEN t
    ELSE RefBlocks(Mix(<< AddU(t[1], LE(p[1], p[2], p[3], p[4])),
                          AddU(t[2], LE(p[5], p[6], p[7], p[8])),
                          AddU(t[3], LE(p[9], p[10], p[11], p[12])) >>),
                   SubSeq(p, 13, Len(p)))

ReferenceHash(key, seed) ==
    LET p == Padded(key)
        t == RefBlocks(<<GoldenRatio, GoldenRatio, seed>>, p)
        q == SubSeq(p, Len(p) - 11, Len(p))
    IN  Mix(<< AddU(t[1], LE(q[1], q[2], q[3], q[4])),
               AddU(t[2], LE(q[5], q[6], q[7], q[8])),
               AddU(AddU(t[3], FromNat(Len(key))), LE(0, q[9], q[10], q[11])) >>)[3]


\* x < y as unsigned 32-bit values.
LtU(x, y) == x[1] < y[1] \/ (x[1] = y[1] /\ x[2] < y[2])

(* jenkins_hash::random_seed(size), called by jenkins_hash(size) and by    *)
(* reset(size): uniform_int_distribution<>(0, b), b the int                *)
(* static_cast<int>(size - 1), draws from 0 .. b.  When the top bit of     *)
(* size - 1 is set, b is negative and the distribution's precondition      *)
(* a <= b does not hold; libstdc++ then returns whatever its rejection     *)
(* loop gives, any int, any unsigned int once returned.  The drawn values  *)
(* are taken from samples, a set of uint32 values.                         *)
RandomSeed(size, samples) ==
    LET b == SubU(size, U32(0, 1))
    IN  IF b[1] >= Limb \div 2 THEN samples ELSE {x \in samples : ~LtU(b, x)}

=============================================================================
