------------------------- MODULE MCJenkinsHashObject -------------------------
(***************************************************************************)
(* Two jenkins_hash objects; sizes below and above the edge of           *)
(* random_seed's int conversion and uint32 draws on both sides of each.   *)
(***************************************************************************)
EXTENDS JenkinsHashObject

CONSTANTS o1, o2

MCObjects == {o1, o2}

\* 1, 3, 2^31 and 2^31 + 1: the sizes on both sides of the edge where
\* static_cast<int>(size - 1) turns negative.  Size 0 is left out: no
\* seed lies below it, so it could not tell a correct random_seed from a
\* wrong one.
MCSizes == {U32(0, 1), U32(0, 3), U32(Limb \div 2, 0), U32(Limb \div 2, 1)}

\* 0 and 2^32 - 1.
MCSeedvals == {U32(0, 0), U32(Limb - 1, Limb - 1)}

\* 0, 1, 2, 2^31 and 2^32 - 1.
MCSamples == {U32(0, 0), U32(0, 1), U32(0, 2), U32(Limb \div 2, 0), U32(Limb - 1, Limb - 1)}

=============================================================================
