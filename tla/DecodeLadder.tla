----------------------------- MODULE DecodeLadder -----------------------------
(***************************************************************************)
(* src/decode_ladder.c: how many 20 ms slots wait for the next real Opus   *)
(* frame, and what is decoded when it comes.                               *)
(***************************************************************************)
EXTENDS Integers

CONSTANT DL_MAX_PENDING_GAPS    \* 16 in the code

ASSUME LadderAssumption == DL_MAX_PENDING_GAPS \in Nat \ {0}

dl_init == 0

(* Mutant: off by one. *)
GapDeferred_OneMore(pending_gaps) == pending_gaps <= DL_MAX_PENDING_GAPS

(* dl_on_gap returned 0: there was room to defer the slot. *)
GapDeferred(pending_gaps) == pending_gaps < DL_MAX_PENDING_GAPS

dl_on_gap(pending_gaps) ==
  IF GapDeferred(pending_gaps) THEN pending_gaps + 1 ELSE pending_gaps

(* The operations for the next real frame: PLC for every deferred slot but  *)
(* the last, one FEC attempt for the last, then the frame itself.           *)
LadderOp(pending_gaps, k) ==
  IF k < pending_gaps THEN "PLC"
  ELSE IF k = pending_gaps THEN "FEC_ATTEMPT"
  ELSE "FRAME"

(* A short output array yields nothing and consumes nothing. *)
LadderFits(pending_gaps, capacity) == pending_gaps + 1 <= capacity

(* Mutant: the slot the FEC attempt stands for is forgotten. *)
dl_on_frame_NoFec(pending_gaps, capacity) ==
  [k \in 1 .. (IF pending_gaps > 1 THEN pending_gaps ELSE 1) |->
     IF k < pending_gaps THEN "PLC" ELSE "FRAME"]

dl_on_frame(pending_gaps, capacity) ==
  [k \in 1 .. (IF LadderFits(pending_gaps, capacity)
               THEN pending_gaps + 1 ELSE 0) |-> LadderOp(pending_gaps, k)]
=============================================================================
