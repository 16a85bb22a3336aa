---------------------------- MODULE DownlinkProps ----------------------------
(***************************************************************************)
(* What the downlink promises: slots are kept, in order, each filled with   *)
(* the right audio.                                                         *)
(***************************************************************************)
EXTENDS Downlink

Data == [time : Int, good : BOOLEAN]
Callback == [slot : Nat, due : Nat, data : Data]
Output == [op : {"PLC", "FEC_ATTEMPT", "FRAME"}, slot : Nat,
           callback : Callback]   \* the call that made the operation

SequenceState == [initialized : BOOLEAN, last_seq : 0 .. SeqSpace - 1,
                  last_timestamp : 0 .. TsMod - 1, ssrc : Nat]

(* Every variable has its type; the ladder never holds more than its cap    *)
(* (DL_MAX_PENDING_GAPS, the size of the operations array of media.cpp).     *)
TypeOK ==
  /\ sequence \in SequenceState
  /\ todo \in Seq(Callback)
  /\ pending \in 0 .. DL_MAX_PENDING_GAPS
  /\ out \in Seq(Output)
  /\ newest \in [idx : Nat, time : Nat]
  /\ gaps \in Seq(Nat)
  /\ played \in Nat
  /\ owed \in Nat

(* One recovery operation per missing slot and one decode per real frame     *)
(* (docs/PLAYBACK_RESILIENCE.md): whatever mixture of losses, RED copies,    *)
(* malformed RED and wrong packet times arrives, every slot signalled by     *)
(* rtp_decode_generic is decoded exactly once, is deferred in the ladder or  *)
(* is a callback still to come.  No slot is dropped and none is doubled,     *)
(* also when the ladder is full; a decoder reset gives up exactly the slots  *)
(* that are deferred.                                                        *)
OneOperationPerSlot ==
  /\ pending = Len(gaps)
  /\ owed = pending + Len(todo)

(* The slots deferred in the ladder and then those of the callbacks to come  *)
(* ascend, after everything played and up to the newest packet: the Opus     *)
(* decoder is always driven in the sender's order, over sequence wrap and    *)
(* resynchronisation, and never handed audio behind what it has decoded.     *)
GapSlotsAscend ==
  \A i, j \in 1 .. Len(gaps) : i < j => gaps[i] < gaps[j]
TodoSlotsAscend ==
  \A i, j \in 1 .. Len(todo) : i < j => todo[i].slot < todo[j].slot
GapsBeforeTodo ==
  \A i \in 1 .. Len(gaps), j \in 1 .. Len(todo) : gaps[i] < todo[j].slot
PlayedBeforeWaiting ==
  /\ \A i \in 1 .. Len(gaps) : played < gaps[i]
  /\ \A j \in 1 .. Len(todo) : played < todo[j].slot
WaitingUpToNewest ==
  /\ played <= newest.idx
  /\ \A i \in 1 .. Len(gaps) : gaps[i] <= newest.idx
  /\ \A j \in 1 .. Len(todo) : todo[j].slot <= newest.idx

TimelineInOrder ==
  /\ GapSlotsAscend
  /\ TodoSlotsAscend
  /\ GapsBeforeTodo
  /\ PlayedBeforeWaiting
  /\ WaitingUpToNewest

(* A frame that is decoded as real audio is the audio of its own 20 ms: a    *)
(* RED copy only ever fills the slot whose time on the sender's clock is its *)
(* own, whatever blocks, offsets, packet times and clock jumps the sender     *)
(* produces and however the 32-bit timestamp wraps.                          *)
FramesInTheirSlots ==
  \A i \in 1 .. Len(out) : out[i].op = "FRAME" =>
     /\ out[i].slot = out[i].callback.slot
     /\ out[i].callback.data.time = out[i].callback.due

(* The operations of one callback ascend and end with the slot played last.  *)
OutputInOrder ==
  /\ \A i, j \in 1 .. Len(out) : i < j => out[i].slot < out[j].slot
  /\ out # <<>> => out[Len(out)].slot = played

(* In-band FEC conceals a slot with the frame that follows it in the         *)
(* sender's order, or with the frame after a jump too long to conceal (the   *)
(* ladder is not told about the jump).  Never with an older frame and never  *)
(* with one a few slots ahead.                                               *)
FecFromNextOrAfterJump ==
  \A i \in 1 .. Len(out) : out[i].op = "FEC_ATTEMPT" =>
     \/ out[i].callback.slot = out[i].slot + 1
     \/ out[i].callback.slot > out[i].slot + RED_MAX_GAP + 1

(* Sequence wrap, reordering and duplication: for every packet the sender     *)
(* can still have under way, the 16-bit comparison of rtp_sequence_update     *)
(* agrees with the order in which the sender sent, and the gap it reports is  *)
(* the number of packets in between.                                          *)
ArrivalOrderDecided ==
  sequence.initialized =>
    \A i \in (newest.idx + 1 - Half) .. (newest.idx + Half) :
      LET event == SequenceEvent(sequence, i % SeqSpace, RemoteSsrc) IN
      IF i <= newest.idx THEN event.kind = "LATE"
      ELSE event.kind # "LATE" /\ event.gap = i - newest.idx - 1

(* A missing slot for which the packet that reveals the gap carries a        *)
(* usable copy, at the offset of that slot on an unbroken 20 ms clock, is    *)
(* played from that copy and not concealed.                                  *)
CarriesCopy(p, time) ==
  \E b \in 1 .. Len(p.chain) : /\ p.time - p.chain[b].ts_offset = time
                               /\ p.chain[b].length > 0
OnProfile(p) == p.time = newest.time + (p.idx - newest.idx) * TS_STEP
RedPackets ==
  [i \in {p.idx : p \in Packets} |->
     {p \in Packets : /\ p.idx = i /\ ForAudioDecoder(p)
                      /\ p.red /\ red_unwrap(p).ok}]

CopiesAreUsed ==
  [][(/\ sequence.initialized
      /\ newest'.idx - newest.idx - 1 \in 1 .. RED_MAX_GAP) =>
       \A p \in RedPackets[newest'.idx] :
         (OnProfile(p) /\ ReceiveAccepted(p)) =>
            \A i \in 1 .. p.idx - newest.idx - 1 :
              LET due == newest.time + i * TS_STEP IN
              CarriesCopy(p, due) => /\ todo'[i].due = due
                                     /\ todo'[i].data.time = due]_vars
=============================================================================
