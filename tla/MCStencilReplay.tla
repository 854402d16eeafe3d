-------------------------- MODULE MCStencilReplay --------------------------
(* Model-checking instance of StencilReplay; the bounds are in the cfgs.  *)
EXTENDS StencilReplay
=============================================================================
