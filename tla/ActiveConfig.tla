---------------------------- MODULE ActiveConfig ----------------------------
(***************************************************************************)
(* What a promotion promises to whoever reads the active configuration:    *)
(* there is none until the first promotion, and from then on exactly one,  *)
(* which each promotion replaces at once by a newer one.                   *)
(***************************************************************************)
EXTENDS Naturals

VARIABLE active     \* the active rows, by the order of their commits

NothingPromoted == active = {}

Promote == \E row \in active' : active' = {row} /\ \A old \in active : old < row

PromotionSpec == NothingPromoted /\ [][Promote]_active
=============================================================================
