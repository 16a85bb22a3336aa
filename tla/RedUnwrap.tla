------------------------------ MODULE RedUnwrap ------------------------------
(***************************************************************************)
(* components/peer/red_unwrap.c: RFC 2198 payloads.  A payload is          *)
(* abstracted to what the parser tells apart: the chain of redundant       *)
(* headers, the payload type of the final one-byte header (or FinalCut     *)
(* when the buffer ends before it, or inside a four-byte header) and the   *)
(* number of bytes that follow the headers.                                *)
(***************************************************************************)
EXTENDS Integers, Sequences, SequencesExt

CONSTANTS
  RED_MAX_BLOCKS,   \* 4 in the code
  RED_MAX_GAP,      \* 16
  MAX_TS_OFFSET,    \* 0x3FFF, the largest 14-bit offset
  TS_STEP,          \* RED_OPUS_TS_STEP_20MS = 960
  TsMod             \* size of the RTP timestamp space, 2^32

ASSUME RedAssumption ==
  /\ RED_MAX_BLOCKS \in Nat
  /\ RED_MAX_GAP \in Nat \ {0}
  /\ MAX_TS_OFFSET \in Nat
  /\ TS_STEP \in Nat \ {0}
  /\ TsMod \in Nat \ {0}

PT_OPUS == "opus"
FinalCut == "cut"

(* data_total after blocks 1..n of the chain *)
DataTotal(chain, n) ==
  FoldLeft(LAMBDA total, block : total + block.length, 0, SubSeq(chain, 1, n))

(* Every check of red_unwrap that returns -1. *)
Malformed(payload) ==
  \/ Len(payload.chain) > RED_MAX_BLOCKS
  \/ \E i \in 1 .. Len(payload.chain) :
       \/ payload.chain[i].pt # PT_OPUS
       \/ payload.chain[i].ts_offset = 0
  \/ payload.final # PT_OPUS
  \/ DataTotal(payload.chain, Len(payload.chain)) >= payload.bytes

(* Block i is cut out of the data area after the blocks before it; the     *)
(* primary is what the blocks leave.  A refused payload leaves all zero.   *)
red_unwrap(payload) ==
  LET n == Len(payload.chain) IN
  IF Malformed(payload)
  THEN [ok |-> FALSE, blocks |-> <<>>, primary |-> 0, primary_size |-> 0]
  ELSE [ok |-> TRUE,
        blocks |-> [i \in 1 .. n |->
                      [ts_offset |-> payload.chain[i].ts_offset,
                       length |-> payload.chain[i].length,
                       data |-> DataTotal(payload.chain, i - 1)]],
        primary |-> DataTotal(payload.chain, n),
        primary_size |-> payload.bytes - DataTotal(payload.chain, n)]

(* Mutant: only the length of the gap is checked. *)
red_validate_timestamp_advance_GapOnly(last_ts, current_ts, gap) ==
  gap > 0 /\ gap <= RED_MAX_GAP

(* The gap stayed on the fixed 20 ms profile: the timestamp moved by        *)
(* exactly gap + 1 steps, counted in unsigned arithmetic.                   *)
red_validate_timestamp_advance(last_ts, current_ts, gap) ==
  /\ gap > 0
  /\ gap <= RED_MAX_GAP
  /\ (gap + 1) * TS_STEP < TsMod
  /\ (current_ts - last_ts) % TsMod = (gap + 1) * TS_STEP

(* Block b holds the frame wanted_offset before the primary, and is the     *)
(* first to do so.                                                         *)
Matches(blocks, b, wanted_offset) ==
  /\ wanted_offset <= MAX_TS_OFFSET
  /\ blocks[b].ts_offset = wanted_offset
  /\ blocks[b].length > 0

FirstMatch(blocks, b, wanted_offset) ==
  /\ Matches(blocks, b, wanted_offset)
  /\ \A c \in 1 .. b - 1 : ~Matches(blocks, c, wanted_offset)

(* The block to feed for one missing frame, 0 where the code has -1.         *)
PlannedBlock(blocks, wanted_offset) ==
  IF \E b \in 1 .. Len(blocks) : FirstMatch(blocks, b, wanted_offset)
  THEN CHOOSE b \in 1 .. Len(blocks) : FirstMatch(blocks, b, wanted_offset)
  ELSE 0

(* Mutant: the oldest frame is taken to be one step before the primary. *)
red_recover_plan_NewestFirst(blocks, gap) ==
  LET count == IF gap > RED_MAX_GAP THEN RED_MAX_GAP ELSE gap IN
  [i \in 1 .. count |-> PlannedBlock(blocks, i * TS_STEP)]

(* The plan for a gap, oldest missing frame first. *)
red_recover_plan(blocks, gap) ==
  LET count == IF gap > RED_MAX_GAP THEN RED_MAX_GAP ELSE gap IN
  [i \in 1 .. count |-> PlannedBlock(blocks, (count - i + 1) * TS_STEP)]
=============================================================================
