----------------------------- MODULE MCLocalVm -----------------------------
(* Two boots, so that a result can come from a boot whose predecessor was  *)
(* cut off, and at most one warning before the frame that ends a boot.     *)
EXTENDS LocalVm
=============================================================================
