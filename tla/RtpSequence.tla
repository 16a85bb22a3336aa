----------------------------- MODULE RtpSequence -----------------------------
(***************************************************************************)
(* components/peer/rtp_sequence.c: the classification of an arriving RTP   *)
(* packet against the last one accepted.  Pure operators: the state is a   *)
(* record the caller keeps, an update returns the event and the new state. *)
(***************************************************************************)
EXTENDS Integers

CONSTANT Half       \* half the sequence number space: 2^15 in the code

ASSUME HalfAssumption == Half \in Nat \ {0}

SeqSpace == 2 * Half    \* uint16_t

SequenceKinds == {"FIRST", "NEXT", "GAP", "LATE", "STREAM_RESET"}

(* memset to zero *)
rtp_sequence_init ==
  [initialized |-> FALSE, last_seq |-> 0, last_timestamp |-> 0, ssrc |-> 0]

(* Mutant: the cast to int16_t is missing. *)
Signed_NoCast(d) == d

(* The cast of an unsigned difference to int16_t. *)
Signed(d) == IF d < Half THEN d ELSE d - SeqSpace

(* Mutant: compared with the last packet instead of the expected one. *)
SequenceDelta_FromLast(last_seq, sequence_number) ==
  Signed((sequence_number - last_seq) % SeqSpace)

(* delta: how far a packet is ahead of the expected one, as the code sees it *)
SequenceDelta(last_seq, sequence_number) ==
  Signed((sequence_number - (last_seq + 1)) % SeqSpace)

(* Mutant: the packet is recorded as the one before it. *)
accept_packet_OneShort(sequence_number, timestamp, ssrc) ==
  [initialized |-> TRUE, last_seq |-> (sequence_number - 1) % SeqSpace,
   last_timestamp |-> timestamp, ssrc |-> ssrc]

accept_packet(sequence_number, timestamp, ssrc) ==
  [initialized |-> TRUE, last_seq |-> sequence_number,
   last_timestamp |-> timestamp, ssrc |-> ssrc]

(* The event alone; SequenceStateAfter is the state it leaves. *)
SequenceEvent(state, sequence_number, ssrc) ==
  LET delta == SequenceDelta(state.last_seq, sequence_number) IN
  IF ~state.initialized THEN
     [kind |-> "FIRST", gap |-> 0, previous_timestamp |-> 0]
  ELSE IF state.ssrc # ssrc THEN
     [kind |-> "STREAM_RESET", gap |-> 0, previous_timestamp |-> 0]
  ELSE IF delta < 0 THEN
     [kind |-> "LATE", gap |-> 0,
      previous_timestamp |-> state.last_timestamp]
  ELSE
     [kind |-> IF delta = 0 THEN "NEXT" ELSE "GAP", gap |-> delta,
      previous_timestamp |-> state.last_timestamp]

SequenceStateAfter(state, sequence_number, timestamp, ssrc) ==
  IF SequenceEvent(state, sequence_number, ssrc).kind = "LATE"
  THEN state
  ELSE accept_packet(sequence_number, timestamp, ssrc)
=============================================================================
