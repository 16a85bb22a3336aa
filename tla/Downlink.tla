------------------------------- MODULE Downlink -------------------------------
(***************************************************************************)
(* The audio downlink of one connection, on the WebRTC thread: from the    *)
(* RTP packet peer_connection_loop hands over, through rtp_decode_generic  *)
(* (components/peer/rtp.c) and the callbacks it makes, to the decode       *)
(* operations of pipecat_audio_decode (src/media.cpp).                     *)
(*                                                                         *)
(* The network loses, duplicates and reorders packets as it likes: a       *)
(* packet that is never taken was lost, one taken twice was duplicated.    *)
(* Packets carry their true index idx in the sender's stream, which the    *)
(* device never sees, and their true time on the sender's 48 kHz clock: the *)
(* device sees idx % SeqSpace and time % TsMod.  A slot is 20 ms of output; *)
(* it is named by the index of the packet it stands for, and it is due at   *)
(* the time that packet has if the sender kept its 20 ms cadence.           *)
(***************************************************************************)
EXTENDS RtpSequence, RedUnwrap, DecodeLadder

CONSTANTS
  Packets,       \* every packet the network may deliver
  RemoteSsrc     \* remote_assrc, read from the answer's a=ssrc line

ChainEntry == [pt : STRING, ts_offset : 0 .. MAX_TS_OFFSET, length : Nat,
               good : BOOLEAN]    \* the copy is exactly one 20 ms frame
Packet == [ssrc : Nat, idx : Nat \ {0}, time : Nat,
           red : BOOLEAN,         \* payload type RED_PAYLOAD_TYPE
           chain : Seq(ChainEntry), final : STRING, bytes : Nat,
           good : BOOLEAN]        \* the primary is exactly one 20 ms frame

ASSUME PacketAssumption ==
  /\ Packets \subseteq Packet
  /\ RemoteSsrc \in Nat

VARIABLES
  sequence,   \* rtp_decoder->sequence
  todo,       \* on_packet callbacks the current packet still has to make
  pending,    \* s_decode_ladder.pending_gaps
  \* ghosts, which no action of the device reads
  newest,     \* [idx, time] of the last accepted packet
  gaps,       \* the slots the ladder has deferred, oldest first
  played,     \* the last slot handed to the Opus decoder
  owed,       \* slots signalled, less those decoded or given up by a reset
  out         \* the decode operations of the last step

ghosts == <<newest, gaps, played, owed, out>>
vars == <<sequence, todo, pending, ghosts>>

NullData == [time |-> 0, good |-> FALSE]      \* the (NULL, 0) callback

WireSeq(p) == p.idx % SeqSpace
WireTs(p) == p.time % TsMod

(* The sequence space only tells near packets apart: 32768 packets are 11   *)
(* minutes and 2^32 ticks are 24 hours, while a connection whose peer is    *)
(* silent is closed after 30 seconds.                                       *)
InReorderWindow(p) ==
  sequence.initialized =>
    /\ p.idx - newest.idx \in (1 - Half) .. Half
    /\ p.idx > newest.idx => p.time - newest.time \in 0 .. TsMod - 1

ForAudioDecoder(p) == p.ssrc = RemoteSsrc

Event(p) == SequenceEvent(sequence, WireSeq(p), p.ssrc)

(* Mutant: the longest gap that is concealed is one too short. *)
Missing_Below(event) ==
  IF event.kind = "GAP" /\ event.gap < RED_MAX_GAP THEN event.gap ELSE 0

(* Gaps the RTP layer conceals; a longer jump resynchronises silently. *)
Missing(event) ==
  IF event.kind = "GAP" /\ event.gap <= RED_MAX_GAP THEN event.gap ELSE 0

Plan(p, event) ==
  IF /\ p.red
     /\ red_unwrap(p).ok
     /\ red_validate_timestamp_advance(event.previous_timestamp, WireTs(p),
                                       event.gap)
  THEN red_recover_plan(red_unwrap(p).blocks, event.gap)
  ELSE [i \in 1 .. Missing(event) |-> 0]

RecoveredData(p, block) ==
  IF block = 0 THEN NullData
  ELSE [time |-> p.time - p.chain[block].ts_offset,
        good |-> p.chain[block].good]

PrimaryData(p) ==
  IF p.red /\ ~red_unwrap(p).ok THEN NullData
  ELSE [time |-> p.time, good |-> p.good]

(* One callback per missing slot, oldest first, then the primary. *)
Callbacks(p, event) ==
  LET missing == Missing(event)
      plan == Plan(p, event)
  IN [i \in 1 .. missing + 1 |->
        [slot |-> p.idx - (missing + 1 - i),
         due |-> IF i <= missing THEN newest.time + i * TS_STEP ELSE p.time,
         data |-> IF i <= missing THEN RecoveredData(p, plan[i])
                  ELSE PrimaryData(p)]]

Init ==
  /\ sequence = rtp_sequence_init
  /\ todo = <<>>
  /\ pending = dl_init
  /\ newest = [idx |-> 0, time |-> 0]
  /\ gaps = <<>>
  /\ played = 0
  /\ owed = 0
  /\ out = <<>>

(* A packet whose SSRC is not the answer's never reaches a decoder. *)
ReceiveOtherStream(p) ==
  /\ todo = <<>>
  /\ ~ForAudioDecoder(p)
  /\ out' = <<>>
  /\ UNCHANGED <<sequence, todo, pending, newest, gaps, played, owed>>

(* Late or duplicate: playback has moved on. *)
ReceiveLate(p) ==
  /\ todo = <<>>
  /\ ForAudioDecoder(p)
  /\ InReorderWindow(p)
  /\ Event(p).kind = "LATE"
  /\ sequence' = SequenceStateAfter(sequence, WireSeq(p), WireTs(p), p.ssrc)
  /\ out' = <<>>
  /\ UNCHANGED <<todo, pending, newest, gaps, played, owed>>

(* First, next, after a gap, or after a jump: it is accepted. *)
ReceiveAccepted(p) ==
  /\ todo = <<>>
  /\ ForAudioDecoder(p)
  /\ InReorderWindow(p)
  /\ Event(p).kind # "LATE"
  /\ sequence' = SequenceStateAfter(sequence, WireSeq(p), WireTs(p), p.ssrc)
  /\ todo' = Callbacks(p, Event(p))
  /\ newest' = [idx |-> p.idx, time |-> p.time]
  /\ owed' = owed + Missing(Event(p)) + 1
  /\ out' = <<>>
  /\ UNCHANGED <<pending, gaps, played>>

(* queue_decode_gap with room in the ladder.  Both a missing frame and one  *)
(* that is not 20 ms long come here.                                        *)
DeferSlot ==
  /\ todo # <<>>
  /\ ~Head(todo).data.good
  /\ GapDeferred(pending)
  /\ pending' = dl_on_gap(pending)
  /\ gaps' = Append(gaps, Head(todo).slot)
  /\ todo' = Tail(todo)
  /\ out' = <<>>
  /\ UNCHANGED <<sequence, newest, played, owed>>

(* queue_decode_gap with the ladder full: one PLC frame at once, which      *)
(* stands for the oldest deferred slot.                                     *)
ConcealAtOnce ==
  /\ todo # <<>>
  /\ ~Head(todo).data.good
  /\ ~GapDeferred(pending)
  /\ pending' = dl_on_gap(pending)
  /\ gaps' = Append(Tail(gaps), Head(todo).slot)
  /\ todo' = Tail(todo)
  /\ out' = <<[op |-> "PLC", slot |-> Head(gaps), callback |-> Head(todo)]>>
  /\ played' = Head(gaps)
  /\ owed' = owed - 1
  /\ UNCHANGED <<sequence, newest>>

(* A real 20 ms frame, the primary or a RED copy. *)
DecodeFrame ==
  LET ops == dl_on_frame(pending, DL_MAX_PENDING_GAPS + 1)
  IN
  /\ todo # <<>>
  /\ Head(todo).data.good
  /\ pending' = dl_init
  /\ gaps' = <<>>
  /\ todo' = Tail(todo)
  /\ out' = [k \in DOMAIN ops |->
               [op |-> ops[k],
                slot |-> IF k <= pending THEN gaps[k] ELSE Head(todo).slot,
                callback |-> Head(todo)]]
  /\ played' = Head(todo).slot
  /\ owed' = owed - Len(out')
  /\ UNCHANGED <<sequence, newest>>

(* pipecat_reset_audio_decoder, past its guard: the RTVI task empties the    *)
(* ladder while the decoder is idle.  The guard reads the playback ring, so  *)
(* here it may hold at any time; the deferred slots are given up.            *)
ResetDecoder ==
  /\ pending' = dl_init
  /\ gaps' = <<>>
  /\ owed' = owed - Len(gaps)
  /\ out' = <<>>
  /\ UNCHANGED <<sequence, todo, newest, played>>

Receive(p) == ReceiveOtherStream(p) \/ ReceiveLate(p) \/ ReceiveAccepted(p)

Next ==
  \/ \E p \in Packets : Receive(p)
  \/ DeferSlot
  \/ ConcealAtOnce
  \/ DecodeFrame
  \/ ResetDecoder

Spec == Init /\ [][Next]_vars
=============================================================================
