---------------------------- MODULE DownlinkProofs ----------------------------
(***************************************************************************)
(* For every size of the sequence and timestamp spaces, every cap and every  *)
(* set of packets: the slots of the downlink are kept, stay in order and     *)
(* are filled with their own audio.                                          *)
(*                                                                         *)
(* The inductive invariant adds to the properties what ties the receiver to  *)
(* the sender: last_seq and last_timestamp are the wrapped index and time of *)
(* the newest accepted packet.  From it the signed 16-bit comparison gives   *)
(* back the true distance (DeltaExact).                                      *)
(***************************************************************************)
EXTENDS DownlinkProps, ArithmeticLemmas, WellFoundedInduction

SequenceFollowsNewest ==
  sequence.initialized =>
    /\ sequence.last_seq = newest.idx % SeqSpace
    /\ sequence.last_timestamp = newest.time % TsMod
    /\ sequence.ssrc = RemoteSsrc

NothingBeforeFirst ==
  ~sequence.initialized => todo = <<>> /\ gaps = <<>> /\ played = 0

RealDataIsDue ==
  \A j \in 1 .. Len(todo) : todo[j].data.good => todo[j].data.time = todo[j].due

IInv ==
  /\ TypeOK
  /\ OneOperationPerSlot
  /\ TimelineInOrder
  /\ SequenceFollowsNewest
  /\ NothingBeforeFirst
  /\ RealDataIsDue
  /\ OutputInOrder
  /\ FramesInTheirSlots

(* What a missing slot may be concealed with: the next packet, or one behind   *)
(* a jump that is too long to conceal.                                         *)
Follows(slot, earlier) ==
  \/ slot = earlier + 1
  \/ slot > earlier + RED_MAX_GAP + 1

(* The callbacks of a packet are consecutive and end with its own slot.        *)
CallbacksConsecutive ==
  /\ \A i \in 1 .. Len(todo) - 1 : todo[i + 1].slot = todo[i].slot + 1
  /\ todo # <<>> => todo[Len(todo)].slot = newest.idx

(* The slot deferred last is the newest signalled, or the next callback        *)
(* follows it.                                                                 *)
CallbackFollowsLadder ==
  gaps # <<>> =>
    /\ todo = <<>> => gaps[Len(gaps)] = newest.idx
    /\ todo # <<>> => Follows(todo[1].slot, gaps[Len(gaps)])

FecInv ==
  /\ IInv
  /\ CallbacksConsecutive
  /\ CallbackFollowsLadder
  /\ FecFromNextOrAfterJump

(* The cast to int16_t of the wrapped difference is the true distance to the *)
(* expected packet for every packet less than half the space away.           *)
LEMMA DeltaExact ==
  ASSUME NEW n \in Int, NEW i \in Int, (i - n) \in (1 - Half) .. Half
  PROVE  SequenceDelta(n % SeqSpace, i % SeqSpace) = i - n - 1
<1> DEFINE e == i - n - 1
           x == (i % SeqSpace) - ((n % SeqSpace) + 1)
           qi == i \div SeqSpace
           qn == n \div SeqSpace
<1>1. SeqSpace \in Nat \ {0} /\ SeqSpace = 2 * Half /\ Half \in Nat \ {0}
  BY HalfAssumption DEF SeqSpace
<1>0. SeqSpace \in Nat \ {0}
  BY <1>1
<1>2. /\ qi \in Int /\ i = SeqSpace * qi + (i % SeqSpace)
      /\ qn \in Int /\ n = SeqSpace * qn + (n % SeqSpace)
      /\ i % SeqSpace \in Int /\ n % SeqSpace \in Int
  <2>1. /\ i % SeqSpace \in 0 .. SeqSpace - 1 /\ i \div SeqSpace \in Int
        /\ i = SeqSpace * (i \div SeqSpace) + (i % SeqSpace)
    BY <1>0, RemainderRange
  <2>2. /\ n % SeqSpace \in 0 .. SeqSpace - 1 /\ n \div SeqSpace \in Int
        /\ n = SeqSpace * (n \div SeqSpace) + (n % SeqSpace)
    BY <1>0, RemainderRange
  <2> QED BY <2>1, <2>2, <1>0
<1> HIDE DEF qi, qn
<1>3. SeqSpace * (qn - qi) = SeqSpace * qn - SeqSpace * qi
  BY <1>1, <1>2
<1>4. x = SeqSpace * (qn - qi) + e /\ x \in Int
  BY <1>1, <1>2, <1>3
<1>5. e \in Int /\ e >= -Half /\ e < Half
  BY <1>1
<1> HIDE DEF x, e
<1>6. CASE e >= 0
  <2>1. x % SeqSpace = e
    <3>1. e \in 0 .. SeqSpace - 1 /\ qn - qi \in Int
      BY <1>1, <1>2, <1>5, <1>6
    <3> QED BY <1>1, <1>4, <3>1, RemainderUnique
  <2> QED BY <2>1, <1>5 DEF SequenceDelta, Signed, x, e
<1>7. CASE e < 0
  <2>1. x % SeqSpace = e + SeqSpace
    <3>1. e + SeqSpace \in 0 .. SeqSpace - 1 /\ qn - qi - 1 \in Int
      BY <1>1, <1>2, <1>5, <1>7
    <3>2. SeqSpace * (qn - qi - 1) = SeqSpace * (qn - qi) - SeqSpace
      BY <1>1, <1>2
    <3>3. x = SeqSpace * (qn - qi - 1) + (e + SeqSpace)
      BY <1>1, <1>2, <1>4, <1>5, <3>2
    <3> QED BY <1>1, <1>4, <3>1, <3>3, RemainderUnique
  <2>2. e + SeqSpace >= Half
    BY <1>1, <1>5
  <2> QED BY <2>1, <2>2, <1>1, <1>5 DEF SequenceDelta, Signed, x, e
<1> QED BY <1>5, <1>6, <1>7

(* What the event of an accepted packet says about the sender's order.        *)
LEMMA EventFacts ==
  ASSUME TypeOK, SequenceFollowsNewest,
         NEW p \in Packets, ForAudioDecoder(p), InReorderWindow(p),
         Event(p).kind # "LATE"
  PROVE  /\ Missing(Event(p)) \in 0 .. RED_MAX_GAP
         /\ sequence.initialized => p.idx - Missing(Event(p)) > newest.idx
         /\ sequence.initialized =>
              Follows(p.idx - Missing(Event(p)), newest.idx)
         /\ p.idx - Missing(Event(p)) > 0
         /\ Missing(Event(p)) > 0 =>
              /\ sequence.initialized
              /\ p.idx > newest.idx
              /\ Event(p).gap = Missing(Event(p))
              /\ Event(p).previous_timestamp = newest.time % TsMod
<1> DEFINE d == SequenceDelta(sequence.last_seq, WireSeq(p))
<1>1. p.idx \in Nat \ {0} /\ p.ssrc = RemoteSsrc /\ newest.idx \in Nat
  BY PacketAssumption DEF Packet, ForAudioDecoder, TypeOK
<1>2. RED_MAX_GAP \in Nat \ {0}
  BY RedAssumption
<1>3. CASE ~sequence.initialized
  <2>1. Event(p).kind = "FIRST"
    BY <1>3 DEF Event, SequenceEvent
  <2> QED BY <1>1, <1>2, <1>3, <2>1 DEF Missing
<1>4. CASE sequence.initialized
  <2>1. d = p.idx - newest.idx - 1
    BY <1>1, <1>4, DeltaExact DEF SequenceFollowsNewest, InReorderWindow, WireSeq
  <2> HIDE DEF d
  <2>2. Event(p) = IF d < 0 THEN [kind |-> "LATE", gap |-> 0,
                        previous_timestamp |-> sequence.last_timestamp]
                   ELSE [kind |-> IF d = 0 THEN "NEXT" ELSE "GAP", gap |-> d,
                         previous_timestamp |-> sequence.last_timestamp]
    BY <1>1, <1>4 DEF Event, SequenceEvent, SequenceFollowsNewest, d
  <2>3. d \in Int /\ d >= 0
    BY <1>1, <2>1, <2>2
  <2>4. /\ Event(p).gap = d
        /\ Event(p).previous_timestamp = newest.time % TsMod
        /\ Event(p).kind = IF d = 0 THEN "NEXT" ELSE "GAP"
    BY <1>4, <2>2, <2>3 DEF SequenceFollowsNewest
  <2>5. Missing(Event(p)) = IF d > 0 /\ d <= RED_MAX_GAP THEN d ELSE 0
    BY <2>3, <2>4 DEF Missing
  <2>6. Follows(p.idx - Missing(Event(p)), newest.idx)
    BY <1>1, <1>2, <2>1, <2>3, <2>5 DEF Follows
  <2> QED BY <1>1, <1>2, <1>4, <2>1, <2>3, <2>4, <2>5, <2>6
<1> QED BY <1>3, <1>4

(* A planned block lies in the chain, at the offset that was asked for.        *)
LEMMA PlannedBlockFacts ==
  ASSUME NEW blocks, NEW wanted, Len(blocks) \in Nat,
         PlannedBlock(blocks, wanted) # 0
  PROVE  /\ PlannedBlock(blocks, wanted) \in 1 .. Len(blocks)
         /\ blocks[PlannedBlock(blocks, wanted)].ts_offset = wanted
<1>1. \E b \in 1 .. Len(blocks) : FirstMatch(blocks, b, wanted)
  BY DEF PlannedBlock
<1>2. /\ PlannedBlock(blocks, wanted) \in 1 .. Len(blocks)
      /\ FirstMatch(blocks, PlannedBlock(blocks, wanted), wanted)
  BY <1>1 DEF PlannedBlock
<1> QED BY <1>2 DEF FirstMatch, Matches

(* red_unwrap hands out the offsets of the chain it was given.                 *)
LEMMA UnwrapFacts ==
  ASSUME NEW p \in Packets, red_unwrap(p).ok
  PROVE  /\ Len(red_unwrap(p).blocks) = Len(p.chain)
         /\ Len(p.chain) \in Nat
         /\ \A b \in 1 .. Len(p.chain) :
              /\ red_unwrap(p).blocks[b].ts_offset = p.chain[b].ts_offset
              /\ red_unwrap(p).blocks[b].length = p.chain[b].length
<1>1. p.chain \in Seq(ChainEntry) /\ Len(p.chain) \in Nat
  BY PacketAssumption DEF Packet
<1>2. ~Malformed(p)
  BY DEF red_unwrap
<1> DEFINE blocks == [i \in 1 .. Len(p.chain) |->
                        [ts_offset |-> p.chain[i].ts_offset,
                         length |-> p.chain[i].length,
                         data |-> DataTotal(p.chain, i - 1)]]
<1>3. red_unwrap(p).blocks = blocks
  BY <1>2 DEF red_unwrap
<1>4. Len(blocks) = Len(p.chain)
  BY <1>1, FunctionIsSeq
<1> QED BY <1>1, <1>3, <1>4
(* The timestamp check gives back the true distance in time.                   *)
LEMMA ValidatedAdvance ==
  ASSUME NEW t \in Nat, NEW u \in Nat, u - t \in 0 .. TsMod - 1,
         NEW gap \in Nat,
         red_validate_timestamp_advance(t % TsMod, u % TsMod, gap)
  PROVE  u - t = (gap + 1) * TS_STEP
<1> DEFINE x == (u % TsMod) - (t % TsMod)
           qt == t \div TsMod
           qu == u \div TsMod
<1>1. TsMod \in Nat \ {0} /\ TS_STEP \in Nat \ {0}
  BY RedAssumption
<1>2. /\ u % TsMod \in 0 .. TsMod - 1 /\ qu \in Int
      /\ u = TsMod * qu + (u % TsMod)
  BY <1>1, RemainderRange
<1>3. /\ t % TsMod \in 0 .. TsMod - 1 /\ qt \in Int
      /\ t = TsMod * qt + (t % TsMod)
  BY <1>1, RemainderRange
<1> HIDE DEF qt, qu
<1>4. TsMod * (qt - qu) = TsMod * qt - TsMod * qu
  BY <1>1, <1>2, <1>3
<1>5. x \in Int /\ x = TsMod * (qt - qu) + (u - t)
  BY <1>1, <1>2, <1>3, <1>4
<1> HIDE DEF x
<1>6. x % TsMod = u - t
  <2>1. qt - qu \in Int
    BY <1>2, <1>3
  <2> QED BY <1>1, <1>5, <2>1, RemainderUnique
<1> QED BY <1>6 DEF red_validate_timestamp_advance, x

(* Every block the plan names holds the frame that is due in its slot.         *)
LEMMA PlanFacts ==
  ASSUME TypeOK, SequenceFollowsNewest,
         NEW p \in Packets, ForAudioDecoder(p), InReorderWindow(p),
         Event(p).kind # "LATE",
         NEW i \in 1 .. Missing(Event(p)),
         Plan(p, Event(p))[i] # 0
  PROVE  /\ Plan(p, Event(p))[i] \in 1 .. Len(p.chain)
         /\ p.time - p.chain[Plan(p, Event(p))[i]].ts_offset
              = newest.time + i * TS_STEP
<1> DEFINE m == Missing(Event(p))
           blocks == red_unwrap(p).blocks
<1>1. /\ m \in 0 .. RED_MAX_GAP /\ m > 0
      /\ sequence.initialized /\ p.idx > newest.idx
      /\ Event(p).gap = m
      /\ Event(p).previous_timestamp = newest.time % TsMod
  BY EventFacts, RedAssumption
<1>2. p.time \in Nat /\ newest.time \in Nat /\ p.time - newest.time \in 0 .. TsMod - 1
  BY <1>1, PacketAssumption DEF Packet, TypeOK, InReorderWindow
<1>3. RED_MAX_GAP \in Nat /\ TS_STEP \in Nat
  BY RedAssumption
<1> HIDE DEF m
<1>4. /\ red_unwrap(p).ok
      /\ red_validate_timestamp_advance(newest.time % TsMod, p.time % TsMod, m)
      /\ Plan(p, Event(p)) = red_recover_plan(blocks, m)
  <2>1. CASE p.red /\ red_unwrap(p).ok
              /\ red_validate_timestamp_advance(Event(p).previous_timestamp,
                                                WireTs(p), Event(p).gap)
    BY <1>1, <2>1 DEF Plan, WireTs
  <2>2. CASE ~(p.red /\ red_unwrap(p).ok
              /\ red_validate_timestamp_advance(Event(p).previous_timestamp,
                                                WireTs(p), Event(p).gap))
    <3>1. Plan(p, Event(p)) = [j \in 1 .. m |-> 0]
      BY <2>2 DEF Plan, m
    <3> QED BY <3>1 DEF m
  <2> QED BY <2>1, <2>2
<1>5. p.time - newest.time = (m + 1) * TS_STEP
  BY <1>1, <1>2, <1>3, <1>4, ValidatedAdvance
<1> DEFINE wanted == (m - i + 1) * TS_STEP
<1>6. Plan(p, Event(p))[i] = PlannedBlock(blocks, wanted)
  <2>1. i \in 1 .. m
    BY DEF m
  <2> QED BY <1>1, <1>3, <1>4, <2>1 DEF red_recover_plan
<1> HIDE DEF wanted
<1>7. /\ Plan(p, Event(p))[i] \in 1 .. Len(p.chain)
      /\ p.chain[Plan(p, Event(p))[i]].ts_offset = wanted
  <2>1. /\ Len(blocks) = Len(p.chain) /\ Len(p.chain) \in Nat
        /\ \A b \in 1 .. Len(p.chain) : blocks[b].ts_offset = p.chain[b].ts_offset
    BY <1>4, UnwrapFacts
  <2> HIDE DEF blocks
  <2> QED BY <1>6, <2>1, PlannedBlockFacts
<1>8. (m + 1) * TS_STEP - wanted = i * TS_STEP
  <2>1. i \in Int /\ m \in Int
    BY <1>1, <1>3 DEF m
  <2>2. (m + 1) * TS_STEP = wanted + i * TS_STEP
    BY <2>1, <1>3 DEF wanted
  <2>3. wanted \in Int /\ i * TS_STEP \in Int
    BY <2>1, <1>3 DEF wanted
  <2> QED BY <2>2, <2>3
<1>9. i * TS_STEP \in Int /\ wanted \in Int /\ (m + 1) * TS_STEP \in Int
  BY <1>1, <1>3 DEF wanted, m
<1> QED BY <1>2, <1>5, <1>7, <1>8, <1>9
(* The callbacks of an accepted packet: consecutive slots that end with the    *)
(* packet's own, real data only where it is due.                               *)
LEMMA CallbackFacts ==
  ASSUME TypeOK, SequenceFollowsNewest,
         NEW p \in Packets, ForAudioDecoder(p), InReorderWindow(p),
         Event(p).kind # "LATE"
  PROVE  /\ Callbacks(p, Event(p)) \in Seq(Callback)
         /\ Len(Callbacks(p, Event(p))) = Missing(Event(p)) + 1
         /\ \A i \in 1 .. Missing(Event(p)) + 1 :
              LET c == Callbacks(p, Event(p))[i] IN
              /\ c.slot = p.idx - (Missing(Event(p)) + 1 - i)
              /\ c.data.good => c.data.time = c.due
<1> DEFINE m == Missing(Event(p))
           plan == Plan(p, Event(p))
           data(i) == IF i <= m THEN RecoveredData(p, plan[i]) ELSE PrimaryData(p)
           due(i) == IF i <= m THEN newest.time + i * TS_STEP ELSE p.time
           c(i) == [slot |-> p.idx - (m + 1 - i), due |-> due(i),
                    data |-> data(i)]
<1>1. m \in Nat /\ p.idx - m > 0
  BY EventFacts, RedAssumption
<1>2. /\ p.idx \in Nat /\ p.time \in Nat /\ newest.time \in Nat
      /\ TS_STEP \in Nat /\ p.good \in BOOLEAN
      /\ p.chain \in Seq(ChainEntry)
  BY PacketAssumption, RedAssumption DEF Packet, TypeOK
<1>3. Callbacks(p, Event(p)) = [i \in 1 .. m + 1 |-> c(i)]
  BY DEF Callbacks
<1>4. ASSUME NEW i \in 1 .. m + 1
      PROVE  data(i) \in Data /\ (data(i).good => data(i).time = due(i))
  <2>1. CASE i <= m
    <3>1. i \in 1 .. m
      BY <1>1, <2>1
    <3>2. CASE plan[i] = 0
      BY <2>1, <3>2 DEF RecoveredData, NullData, Data
    <3>3. CASE plan[i] # 0
      <4>1. /\ plan[i] \in 1 .. Len(p.chain)
            /\ p.time - p.chain[plan[i]].ts_offset = newest.time + i * TS_STEP
        BY <3>1, <3>3, PlanFacts
      <4>2. p.chain[plan[i]] \in ChainEntry
        BY <1>2, <4>1
      <4>3. data(i) = [time |-> p.time - p.chain[plan[i]].ts_offset,
                       good |-> p.chain[plan[i]].good]
        BY <2>1, <3>3 DEF RecoveredData
      <4> HIDE DEF data, plan
      <4>4. data(i) \in Data
        <5>1. /\ p.time \in Int /\ p.chain[plan[i]].ts_offset \in Int
              /\ p.chain[plan[i]].good \in BOOLEAN
          BY <1>2, <4>2 DEF ChainEntry
        <5> QED BY <4>3, <5>1 DEF Data
      <4>5. data(i).time = due(i)
        BY <2>1, <4>1, <4>3
      <4> QED BY <4>4, <4>5
    <3> QED BY <3>2, <3>3
  <2>2. CASE ~(i <= m)
    <3>1. data(i) = PrimaryData(p) /\ due(i) = p.time
      BY <2>2
    <3>2. \/ PrimaryData(p) = NullData
          \/ PrimaryData(p) = [time |-> p.time, good |-> p.good]
      BY DEF PrimaryData
    <3>3. /\ PrimaryData(p) \in Data
          /\ PrimaryData(p).good => PrimaryData(p).time = p.time
      <4>1. CASE PrimaryData(p) = NullData
        BY <4>1 DEF NullData, Data
      <4>2. CASE PrimaryData(p) = [time |-> p.time, good |-> p.good]
        BY <1>2, <4>2 DEF Data
      <4> QED BY <3>2, <4>1, <4>2
    <3> QED BY <3>1, <3>3
  <2> QED BY <2>1, <2>2
<1> HIDE DEF data
<1>5. ASSUME NEW i \in 1 .. m + 1
      PROVE  c(i) \in Callback
  <2>1. due(i) \in Nat
    <3>1. i * TS_STEP \in Nat
      BY <1>1, <1>2
    <3> QED BY <1>2, <3>1
  <2>2. p.idx - (m + 1 - i) \in Nat
    BY <1>1, <1>2
  <2> HIDE DEF due, m
  <2> QED BY <1>4, <2>1, <2>2 DEF Callback
<1> HIDE DEF due, m
<1>6. [i \in 1 .. m + 1 |-> c(i)] \in [1 .. m + 1 -> Callback]
  BY <1>5
<1>7. m + 1 \in Nat
  BY <1>1
<1> HIDE DEF c
<1>8. /\ Callbacks(p, Event(p)) \in Seq(Callback)
      /\ Len(Callbacks(p, Event(p))) = m + 1
  BY <1>3, <1>6, <1>7, FunctionIsSeq
<1>9. ASSUME NEW i \in 1 .. m + 1
      PROVE  LET d == Callbacks(p, Event(p))[i] IN
              /\ d.slot = p.idx - (m + 1 - i)
              /\ d.data.good => d.data.time = d.due
  <2>1. Callbacks(p, Event(p))[i] = c(i)
    BY <1>3
  <2> QED BY <1>4, <2>1 DEF c
<1> QED BY <1>8, <1>9 DEF m
(* Nothing has been signalled, deferred or played.                             *)
LEMMA InitEstablishes == Init => IInv
<1> SUFFICES ASSUME Init PROVE IInv
  OBVIOUS
<1> USE DEF Init
<1>1. TypeOK
  <2>1. Half \in Nat \ {0} /\ TsMod \in Nat \ {0} /\ DL_MAX_PENDING_GAPS \in Nat
    BY HalfAssumption, RedAssumption, LadderAssumption
  <2>2. sequence \in SequenceState
    BY <2>1 DEF rtp_sequence_init, SequenceState, SeqSpace
  <2> QED BY <2>1, <2>2 DEF TypeOK, dl_init
<1>2. OneOperationPerSlot
  BY DEF OneOperationPerSlot, dl_init
<1>3. TimelineInOrder
  BY DEF TimelineInOrder, GapSlotsAscend, TodoSlotsAscend, GapsBeforeTodo,
         PlayedBeforeWaiting, WaitingUpToNewest
<1>4. SequenceFollowsNewest /\ NothingBeforeFirst
  BY DEF SequenceFollowsNewest, NothingBeforeFirst, rtp_sequence_init
<1>5. RealDataIsDue /\ OutputInOrder /\ FramesInTheirSlots
  BY DEF RealDataIsDue, OutputInOrder, FramesInTheirSlots
<1> QED BY <1>1, <1>2, <1>3, <1>4, <1>5 DEF IInv

(* A packet of another stream or a late one changes nothing the invariant      *)
(* speaks of.                                                                  *)
LEMMA DroppedPacketPreserves ==
  ASSUME IInv, NEW p \in Packets, ReceiveOtherStream(p) \/ ReceiveLate(p)
  PROVE  IInv'
<1>2. UNCHANGED <<sequence, todo, pending, newest, gaps, played, owed>>
      /\ out' = <<>>
  BY DEF ReceiveOtherStream, ReceiveLate, SequenceStateAfter, Event
<1>3. TypeOK'
  BY <1>2 DEF IInv, TypeOK
<1>4. /\ OneOperationPerSlot' /\ TimelineInOrder' /\ SequenceFollowsNewest'
      /\ NothingBeforeFirst' /\ RealDataIsDue'
  BY <1>2 DEF IInv, OneOperationPerSlot, TimelineInOrder, GapSlotsAscend,
       TodoSlotsAscend, GapsBeforeTodo, PlayedBeforeWaiting, WaitingUpToNewest,
       SequenceFollowsNewest, NothingBeforeFirst, RealDataIsDue
<1>5. OutputInOrder' /\ FramesInTheirSlots'
  BY <1>2 DEF OutputInOrder, FramesInTheirSlots
<1> QED BY <1>3, <1>4, <1>5 DEF IInv

(* An accepted packet opens slots after everything accepted before.            *)
LEMMA AcceptedPacketPreserves ==
  ASSUME IInv, NEW p \in Packets, ReceiveAccepted(p)
  PROVE  IInv'
<1> DEFINE m == Missing(Event(p))
<1>1. /\ p.idx \in Nat /\ p.time \in Nat /\ p.ssrc = RemoteSsrc
      /\ RemoteSsrc \in Nat
  BY PacketAssumption DEF Packet, ReceiveAccepted, ForAudioDecoder
<1>2. /\ ForAudioDecoder(p) /\ InReorderWindow(p) /\ Event(p).kind # "LATE"
      /\ TypeOK /\ SequenceFollowsNewest
  BY DEF IInv, ReceiveAccepted
<1>3. /\ m \in Nat /\ p.idx - m > 0
      /\ sequence.initialized => p.idx - m > newest.idx
  BY <1>2, EventFacts, RedAssumption
<1>4. /\ todo' \in Seq(Callback)
      /\ Len(todo') = m + 1
      /\ \A i \in 1 .. m + 1 : todo'[i].slot = p.idx - (m + 1 - i)
  BY <1>2, CallbackFacts DEF ReceiveAccepted
<1>4a. \A i \in 1 .. m + 1 :
         todo'[i].data.good => todo'[i].data.time = todo'[i].due
  BY <1>2, CallbackFacts DEF ReceiveAccepted
<1>5. sequence' = accept_packet(WireSeq(p), WireTs(p), p.ssrc)
  BY DEF ReceiveAccepted, SequenceStateAfter, Event
<1>6. /\ todo = <<>> /\ out' = <<>> /\ newest' = [idx |-> p.idx, time |-> p.time]
      /\ owed' = owed + m + 1
      /\ UNCHANGED <<pending, gaps, played>>
  BY DEF ReceiveAccepted
<1> HIDE DEF m
<1>7. TypeOK'
  <2>1. SeqSpace \in Nat \ {0} /\ TsMod \in Nat \ {0}
    BY HalfAssumption, RedAssumption DEF SeqSpace
  <2>2. WireSeq(p) \in 0 .. SeqSpace - 1
    <3>1. \A x \in Int : x % SeqSpace \in 0 .. SeqSpace - 1
      BY <2>1, RemainderRange
    <3> QED BY <1>1, <3>1 DEF WireSeq
  <2>3. WireTs(p) \in 0 .. TsMod - 1
    <3>1. \A x \in Int : x % TsMod \in 0 .. TsMod - 1
      BY <2>1, RemainderRange
    <3> QED BY <1>1, <3>1 DEF WireTs
  <2>4. sequence' \in SequenceState
    BY <1>1, <1>5, <2>2, <2>3 DEF accept_packet, SequenceState
  <2>5. owed' \in Nat
    BY <1>3, <1>6 DEF IInv, TypeOK
  <2> QED BY <1>1, <1>4, <1>6, <2>4, <2>5 DEF IInv, TypeOK
<1>8. OneOperationPerSlot'
  BY <1>3, <1>4, <1>6 DEF IInv, TypeOK, OneOperationPerSlot
<1>9. TimelineInOrder'
  <2>1. /\ gaps \in Seq(Nat) /\ played \in Nat /\ newest.idx \in Nat
        /\ newest'.idx = p.idx /\ gaps' = gaps /\ played' = played
    BY <1>6 DEF IInv, TypeOK
  <2>2. /\ played <= newest.idx
        /\ \A i \in 1 .. Len(gaps) : gaps[i] <= newest.idx /\ gaps[i] \in Nat
    BY <2>1 DEF IInv, TimelineInOrder, WaitingUpToNewest
  <2>3. CASE sequence.initialized
    <3>1. p.idx - m > newest.idx
      BY <1>3, <2>3
    <3>2. ASSUME NEW i \in 1 .. Len(todo')
          PROVE  /\ todo'[i].slot > newest.idx
                 /\ todo'[i].slot <= p.idx
                 /\ todo'[i].slot \in Nat
      <4>1. i \in 1 .. m + 1
        BY <1>4
      <4>2. todo'[i].slot = p.idx - (m + 1 - i)
        BY <1>4, <4>1
      <4>3. p.idx \in Nat /\ m \in Nat /\ newest.idx \in Nat
        BY <1>1, <1>3, <2>1
      <4>4. /\ p.idx - (m + 1 - i) > newest.idx
            /\ p.idx - (m + 1 - i) <= p.idx
            /\ p.idx - (m + 1 - i) \in Nat
        BY <3>1, <4>1, <4>3
      <4> QED BY <4>2, <4>4
    <3>3. GapSlotsAscend'
      BY <2>1 DEF IInv, TimelineInOrder, GapSlotsAscend
    <3>4. TodoSlotsAscend'
      BY <1>1, <1>3, <1>4 DEF TodoSlotsAscend
    <3>5. GapsBeforeTodo'
      <4>1. ASSUME NEW i \in 1 .. Len(gaps), NEW j \in 1 .. Len(todo')
            PROVE  gaps[i] < todo'[j].slot
        <5>1. gaps[i] <= newest.idx /\ gaps[i] \in Nat
          BY <2>2
        <5>2. todo'[j].slot > newest.idx /\ todo'[j].slot \in Nat
          BY <3>2
        <5>3. newest.idx \in Nat
          BY <2>1
        <5> QED BY <5>1, <5>2, <5>3
      <4> QED BY <2>1, <4>1 DEF GapsBeforeTodo
    <3>6. PlayedBeforeWaiting'
      BY <1>1, <1>3, <1>4, <2>1, <2>2, <3>2
         DEF PlayedBeforeWaiting, IInv, TimelineInOrder
    <3>7. WaitingUpToNewest'
      <4>1. newest.idx < p.idx /\ newest.idx \in Nat /\ p.idx \in Nat
        BY <1>1, <1>3, <2>1, <3>1
      <4>2. played' <= newest'.idx
        BY <2>1, <2>2, <4>1
      <4>3. ASSUME NEW i \in 1 .. Len(gaps')
            PROVE  gaps'[i] <= newest'.idx
        <5>1. gaps'[i] = gaps[i] /\ gaps[i] <= newest.idx /\ gaps[i] \in Nat
          BY <2>1, <2>2
        <5> QED BY <2>1, <4>1, <5>1
      <4>4. ASSUME NEW j \in 1 .. Len(todo')
            PROVE  todo'[j].slot <= newest'.idx
        BY <2>1, <3>2
      <4> QED BY <4>2, <4>3, <4>4 DEF WaitingUpToNewest
    <3> QED BY <3>3, <3>4, <3>5, <3>6, <3>7 DEF TimelineInOrder
  <2>4. CASE ~sequence.initialized
    <3>1. gaps = <<>> /\ played = 0 /\ Len(gaps) = 0
      BY <2>4 DEF IInv, NothingBeforeFirst
    <3>2. \A i \in 1 .. m + 1 : todo'[i].slot > 0 /\ todo'[i].slot <= p.idx
      BY <1>1, <1>3, <1>4
    <3>3. GapSlotsAscend' /\ GapsBeforeTodo'
      BY <2>1, <3>1 DEF GapSlotsAscend, GapsBeforeTodo
    <3>4. TodoSlotsAscend'
      BY <1>1, <1>3, <1>4 DEF TodoSlotsAscend
    <3>5. PlayedBeforeWaiting'
      BY <1>4, <2>1, <3>1, <3>2 DEF PlayedBeforeWaiting
    <3>6. WaitingUpToNewest'
      BY <1>1, <1>4, <2>1, <3>1, <3>2 DEF WaitingUpToNewest
    <3> QED BY <3>3, <3>4, <3>5, <3>6 DEF TimelineInOrder
  <2> QED BY <2>3, <2>4
<1>10. SequenceFollowsNewest' /\ NothingBeforeFirst'
  BY <1>1, <1>5, <1>6 DEF SequenceFollowsNewest, NothingBeforeFirst,
                          accept_packet, WireSeq, WireTs
<1>11. RealDataIsDue' /\ OutputInOrder' /\ FramesInTheirSlots'
  BY <1>4, <1>4a, <1>6 DEF RealDataIsDue, OutputInOrder, FramesInTheirSlots
<1> QED BY <1>7, <1>8, <1>9, <1>10, <1>11 DEF IInv
(* What taking the callback at the head leaves of the queue.                   *)
LEMMA QueueFacts ==
  ASSUME IInv, todo # <<>>, todo' = Tail(todo)
  PROVE  /\ Len(todo) \in Nat \ {0}
         /\ Head(todo) = todo[1] /\ todo[1] \in Callback
         /\ todo' \in Seq(Callback)
         /\ Len(todo') = Len(todo) - 1
         /\ \A i \in 1 .. Len(todo') : todo'[i] = todo[i + 1]
         /\ \A i \in 1 .. Len(todo') : i + 1 \in 1 .. Len(todo)
         /\ TodoSlotsAscend'
         /\ \A i \in 1 .. Len(todo') : /\ todo[1].slot < todo'[i].slot
                                       /\ todo'[i].slot <= newest.idx
                                       /\ played < todo'[i].slot
         /\ RealDataIsDue'
<1>1. todo \in Seq(Callback)
  BY DEF IInv, TypeOK
<1>2. /\ Len(todo) \in Nat \ {0}
      /\ Head(todo) = todo[1] /\ todo[1] \in Callback
      /\ todo' \in Seq(Callback)
      /\ Len(todo') = Len(todo) - 1
      /\ \A i \in 1 .. Len(todo') : todo'[i] = todo[i + 1]
  BY <1>1, HeadTail
<1>3. \A i \in 1 .. Len(todo') : i + 1 \in 1 .. Len(todo)
  BY <1>2
<1>4. /\ TodoSlotsAscend /\ WaitingUpToNewest /\ PlayedBeforeWaiting
      /\ RealDataIsDue
  BY DEF IInv, TimelineInOrder
<1>5. TodoSlotsAscend'
  BY <1>2, <1>3, <1>4 DEF TodoSlotsAscend
<1>6. ASSUME NEW i \in 1 .. Len(todo')
      PROVE  /\ todo[1].slot < todo'[i].slot
             /\ todo'[i].slot <= newest.idx
             /\ played < todo'[i].slot
  <2>1. /\ i + 1 \in 1 .. Len(todo) /\ 1 \in 1 .. Len(todo)
        /\ todo'[i] = todo[i + 1] /\ 1 < i + 1
    BY <1>2, <1>3
  <2> QED BY <1>4, <2>1 DEF TodoSlotsAscend, WaitingUpToNewest, PlayedBeforeWaiting
<1>7. RealDataIsDue'
  BY <1>2, <1>3, <1>4 DEF RealDataIsDue
<1> QED BY <1>2, <1>3, <1>5, <1>6, <1>7

(* A missing slot joins the deferred ones, behind them all.                    *)
LEMMA DeferPreserves ==
  ASSUME IInv, DeferSlot
  PROVE  IInv'
<1> DEFINE slot == todo[1].slot
<1>1. /\ todo # <<>> /\ todo' = Tail(todo) /\ out' = <<>>
      /\ pending < DL_MAX_PENDING_GAPS /\ pending' = pending + 1
      /\ gaps' = Append(gaps, Head(todo).slot)
      /\ UNCHANGED <<sequence, newest, played, owed>>
  BY DEF DeferSlot, GapDeferred, dl_on_gap
<1>2. /\ Len(todo) \in Nat \ {0}
      /\ Head(todo) = todo[1] /\ todo[1] \in Callback
      /\ todo' \in Seq(Callback)
      /\ Len(todo') = Len(todo) - 1
      /\ TodoSlotsAscend'
      /\ \A i \in 1 .. Len(todo') : /\ slot < todo'[i].slot
                                    /\ todo'[i].slot <= newest.idx
                                    /\ played < todo'[i].slot
      /\ RealDataIsDue'
  BY <1>1, QueueFacts
<1>3. slot \in Nat /\ gaps \in Seq(Nat) /\ Len(gaps) \in Nat
      /\ pending = Len(gaps) /\ played \in Nat /\ newest.idx \in Nat
      /\ DL_MAX_PENDING_GAPS \in Nat
  BY <1>2, LadderAssumption DEF Callback, IInv, TypeOK, OneOperationPerSlot
<1>4. /\ gaps' \in Seq(Nat)
      /\ Len(gaps') = Len(gaps) + 1
      /\ \A i \in 1 .. Len(gaps) : gaps'[i] = gaps[i]
      /\ gaps'[Len(gaps) + 1] = slot
  BY <1>1, <1>2, <1>3, AppendEnd
<1>5. /\ slot <= newest.idx /\ played < slot /\ played <= newest.idx
      /\ \A i \in 1 .. Len(gaps) : /\ gaps[i] < slot /\ gaps[i] <= newest.idx
                                   /\ played < gaps[i] /\ gaps[i] \in Nat
  <2>1. 1 \in 1 .. Len(todo)
    BY <1>2
  <2> QED BY <1>3, <2>1 DEF IInv, TimelineInOrder, WaitingUpToNewest,
                            PlayedBeforeWaiting, GapsBeforeTodo
<1> HIDE DEF slot
<1>6. TypeOK'
  BY <1>1, <1>2, <1>3, <1>4 DEF IInv, TypeOK
<1>7. OneOperationPerSlot'
  BY <1>1, <1>2, <1>3, <1>4 DEF IInv, OneOperationPerSlot
<1>8. \A i \in 1 .. Len(gaps') : i \in 1 .. Len(gaps) \/ i = Len(gaps) + 1
  BY <1>3, <1>4
<1>9. GapSlotsAscend'
  <2>1. ASSUME NEW i \in 1 .. Len(gaps'), NEW j \in 1 .. Len(gaps'), i < j
        PROVE  gaps'[i] < gaps'[j]
    <3>1. i \in 1 .. Len(gaps)
      BY <1>3, <1>4, <2>1
    <3>2. CASE j \in 1 .. Len(gaps)
      BY <1>4, <2>1, <3>1, <3>2 DEF IInv, TimelineInOrder, GapSlotsAscend
    <3>3. CASE j = Len(gaps) + 1
      BY <1>4, <1>5, <3>1, <3>3
    <3> QED BY <1>8, <3>2, <3>3
  <2> QED BY <2>1 DEF GapSlotsAscend
<1>10. ASSUME NEW i \in 1 .. Len(gaps')
       PROVE  /\ gaps'[i] <= slot /\ gaps'[i] <= newest.idx /\ played < gaps'[i]
              /\ gaps'[i] \in Nat
  <2>1. CASE i \in 1 .. Len(gaps)
    BY <1>3, <1>4, <1>5, <2>1
  <2>2. CASE i = Len(gaps) + 1
    BY <1>3, <1>4, <1>5, <2>2
  <2> QED BY <1>8, <2>1, <2>2
<1>11. GapsBeforeTodo'
  <2>1. ASSUME NEW i \in 1 .. Len(gaps'), NEW j \in 1 .. Len(todo')
        PROVE  gaps'[i] < todo'[j].slot
    <3>1. todo'[j] \in Callback
      BY <1>2
    <3>2. todo'[j].slot \in Nat
      BY <3>1 DEF Callback
    <3>3. slot < todo'[j].slot
      BY <1>2 DEF slot
    <3>4. gaps'[i] <= slot /\ gaps'[i] \in Nat
      BY <1>10
    <3>5. slot \in Nat
      BY <1>3
    <3> QED BY <3>2, <3>3, <3>4, <3>5
  <2> QED BY <2>1 DEF GapsBeforeTodo
<1>12. PlayedBeforeWaiting' /\ WaitingUpToNewest'
  BY <1>1, <1>2, <1>5, <1>10 DEF PlayedBeforeWaiting, WaitingUpToNewest
<1>13. SequenceFollowsNewest' /\ NothingBeforeFirst'
  BY <1>1 DEF IInv, SequenceFollowsNewest, NothingBeforeFirst
<1>14. OutputInOrder' /\ FramesInTheirSlots'
  BY <1>1 DEF OutputInOrder, FramesInTheirSlots
<1> QED BY <1>2, <1>6, <1>7, <1>9, <1>11, <1>12, <1>13, <1>14
        DEF IInv, TimelineInOrder

(* With the ladder full the oldest deferred slot is concealed and the new one  *)
(* takes a place at the end.                                                   *)
LEMMA ConcealPreserves ==
  ASSUME IInv, ConcealAtOnce
  PROVE  IInv'
<1> DEFINE slot == todo[1].slot
           rest == Tail(gaps)
<1>1. /\ todo # <<>> /\ todo' = Tail(todo)
      /\ ~(pending < DL_MAX_PENDING_GAPS) /\ pending' = pending
      /\ gaps' = Append(Tail(gaps), Head(todo).slot)
      /\ out' = <<[op |-> "PLC", slot |-> Head(gaps), callback |-> Head(todo)]>>
      /\ played' = Head(gaps) /\ owed' = owed - 1
      /\ UNCHANGED <<sequence, newest>>
  BY DEF ConcealAtOnce, GapDeferred, dl_on_gap
<1>2. /\ Len(todo) \in Nat \ {0}
      /\ Head(todo) = todo[1] /\ todo[1] \in Callback
      /\ todo' \in Seq(Callback)
      /\ Len(todo') = Len(todo) - 1
      /\ TodoSlotsAscend'
      /\ \A i \in 1 .. Len(todo') : /\ slot < todo'[i].slot
                                    /\ todo'[i].slot <= newest.idx
      /\ RealDataIsDue'
  BY <1>1, QueueFacts
<1>3. /\ slot \in Nat /\ gaps \in Seq(Nat) /\ pending = Len(gaps)
      /\ newest.idx \in Nat /\ owed = pending + Len(todo)
      /\ DL_MAX_PENDING_GAPS \in Nat \ {0}
      /\ pending \in 0 .. DL_MAX_PENDING_GAPS
  BY <1>2, LadderAssumption DEF Callback, IInv, TypeOK, OneOperationPerSlot
<1>4. gaps # <<>>
  BY <1>1, <1>3
<1>5. /\ Len(gaps) \in Nat \ {0}
      /\ Head(gaps) = gaps[1] /\ gaps[1] \in Nat
      /\ rest \in Seq(Nat) /\ Len(rest) = Len(gaps) - 1
      /\ \A i \in 1 .. Len(rest) : rest[i] = gaps[i + 1]
  BY <1>3, <1>4, HeadTail
<1> HIDE DEF rest
<1>6. /\ gaps' \in Seq(Nat) /\ Len(gaps') = Len(gaps)
      /\ \A i \in 1 .. Len(rest) : gaps'[i] = rest[i]
      /\ gaps'[Len(rest) + 1] = slot
  <2>1. /\ Append(rest, slot) \in Seq(Nat)
        /\ Len(Append(rest, slot)) = Len(rest) + 1
        /\ \A i \in 1 .. Len(rest) : Append(rest, slot)[i] = rest[i]
        /\ Append(rest, slot)[Len(rest) + 1] = slot
    BY <1>3, <1>5, AppendEnd
  <2>2. gaps' = Append(rest, slot)
    BY <1>1, <1>2 DEF rest
  <2> QED BY <1>5, <2>1, <2>2
<1>7. ASSUME NEW i \in 1 .. Len(gaps')
      PROVE  \/ i < Len(gaps) /\ i + 1 \in 1 .. Len(gaps) /\ gaps'[i] = gaps[i + 1]
             \/ i = Len(gaps) /\ gaps'[i] = slot
  <2>1. CASE i \in 1 .. Len(rest)
    <3>1. gaps'[i] = gaps[i + 1]
      BY <1>5, <1>6, <2>1
    <3> QED BY <1>5, <2>1, <3>1
  <2>2. CASE i = Len(rest) + 1
    BY <1>5, <1>6, <2>2
  <2> QED BY <1>5, <1>6, <2>1, <2>2
<1>8. /\ slot <= newest.idx
      /\ \A i \in 1 .. Len(gaps) : /\ gaps[i] < slot /\ gaps[i] <= newest.idx
                                   /\ gaps[i] \in Nat
                                   /\ 1 < i => gaps[1] < gaps[i]
  <2>1. 1 \in 1 .. Len(todo) /\ 1 \in 1 .. Len(gaps)
    BY <1>2, <1>5
  <2> QED BY <1>3, <2>1 DEF IInv, TimelineInOrder, WaitingUpToNewest,
                            GapsBeforeTodo, GapSlotsAscend
<1> HIDE DEF slot
<1>9. TypeOK'
  <2>1. [op |-> "PLC", slot |-> Head(gaps), callback |-> Head(todo)] \in Output
    BY <1>2, <1>5 DEF Output
  <2>2. out' \in Seq(Output)
    BY <1>1, <2>1
  <2>3. owed' \in Nat
    BY <1>1, <1>2, <1>3
  <2> QED BY <1>1, <1>2, <1>3, <1>5, <1>6, <2>2, <2>3 DEF IInv, TypeOK
<1>10. OneOperationPerSlot'
  BY <1>1, <1>2, <1>3, <1>6 DEF OneOperationPerSlot
<1>11. GapSlotsAscend'
  <2>1. ASSUME NEW i \in 1 .. Len(gaps'), NEW j \in 1 .. Len(gaps'), i < j
        PROVE  gaps'[i] < gaps'[j]
    <3>0. i # Len(gaps)
      BY <1>5, <1>6, <2>1
    <3>1. i < Len(gaps) /\ i + 1 \in 1 .. Len(gaps) /\ gaps'[i] = gaps[i + 1]
      BY <3>0, <1>7
    <3>2. CASE j = Len(gaps) /\ gaps'[j] = slot
      BY <1>8, <3>1, <3>2
    <3>3. CASE j + 1 \in 1 .. Len(gaps) /\ gaps'[j] = gaps[j + 1]
      <4>1. i + 1 < j + 1
        BY <2>1
      <4> QED BY <3>1, <3>3, <4>1 DEF IInv, TimelineInOrder, GapSlotsAscend
    <3> QED BY <1>7, <3>2, <3>3
  <2> QED BY <2>1 DEF GapSlotsAscend
<1>12. ASSUME NEW i \in 1 .. Len(gaps')
       PROVE  /\ gaps'[i] <= slot /\ gaps'[i] <= newest.idx
              /\ gaps[1] < gaps'[i] /\ gaps'[i] \in Nat
  <2>1. 1 \in 1 .. Len(gaps)
    BY <1>5
  <2>2. CASE i < Len(gaps) /\ i + 1 \in 1 .. Len(gaps) /\ gaps'[i] = gaps[i + 1]
    <3>1. 1 < i + 1
      OBVIOUS
    <3> QED BY <1>3, <1>8, <2>2, <3>1
  <2>3. CASE i = Len(gaps) /\ gaps'[i] = slot
    BY <1>3, <1>8, <2>1, <2>3
  <2> QED BY <1>7, <2>2, <2>3
<1>13. GapsBeforeTodo'
  <2>1. ASSUME NEW i \in 1 .. Len(gaps'), NEW j \in 1 .. Len(todo')
        PROVE  gaps'[i] < todo'[j].slot
    <3>1. todo'[j] \in Callback
      BY <1>2
    <3>2. todo'[j].slot \in Nat
      BY <3>1 DEF Callback
    <3>3. slot < todo'[j].slot
      BY <1>2 DEF slot
    <3>4. gaps'[i] <= slot /\ gaps'[i] \in Nat
      BY <1>12
    <3>5. slot \in Nat
      BY <1>3
    <3> QED BY <3>2, <3>3, <3>4, <3>5
  <2> QED BY <2>1 DEF GapsBeforeTodo
<1>14. PlayedBeforeWaiting' /\ WaitingUpToNewest'
  <2>1. played' = gaps[1] /\ newest' = newest
    BY <1>1, <1>5
  <2>2. gaps[1] <= newest.idx /\ gaps[1] < slot /\ gaps[1] \in Nat
    BY <1>5, <1>8
  <2>3. ASSUME NEW j \in 1 .. Len(todo')
        PROVE  gaps[1] < todo'[j].slot
    <3>1. todo'[j] \in Callback
      BY <1>2
    <3>2. todo'[j].slot \in Nat
      BY <3>1 DEF Callback
    <3>3. slot < todo'[j].slot
      BY <1>2 DEF slot
    <3>4. slot \in Nat
      BY <1>3
    <3> QED BY <2>2, <3>2, <3>3, <3>4
  <2> QED BY <1>2, <1>12, <2>1, <2>2, <2>3
          DEF PlayedBeforeWaiting, WaitingUpToNewest
<1>15. SequenceFollowsNewest' /\ NothingBeforeFirst'
  BY <1>1, <1>4 DEF IInv, SequenceFollowsNewest, NothingBeforeFirst
<1>16. OutputInOrder' /\ FramesInTheirSlots'
  <2>1. Len(out') = 1 /\ out'[1].slot = played' /\ out'[1].op = "PLC"
    BY <1>1
  <2> QED BY <2>1 DEF OutputInOrder, FramesInTheirSlots
<1> QED BY <1>2, <1>9, <1>10, <1>11, <1>13, <1>14, <1>15, <1>16
        DEF IInv, TimelineInOrder

(* A real frame empties the ladder: the deferred slots and then its own.       *)
LEMMA DecodeFramePreserves ==
  ASSUME IInv, DecodeFrame
  PROVE  IInv'
<1> DEFINE slot == todo[1].slot
           ops == dl_on_frame(pending, DL_MAX_PENDING_GAPS + 1)
<1>1. /\ todo # <<>> /\ todo' = Tail(todo) /\ Head(todo).data.good
      /\ pending' = 0 /\ gaps' = <<>>
      /\ out' = [k \in DOMAIN ops |->
                   [op |-> ops[k],
                    slot |-> IF k <= pending THEN gaps[k] ELSE Head(todo).slot,
                    callback |-> Head(todo)]]
      /\ played' = Head(todo).slot /\ owed' = owed - Len(out')
      /\ UNCHANGED <<sequence, newest>>
  BY DEF DecodeFrame, dl_init
<1>2. /\ Len(todo) \in Nat \ {0}
      /\ Head(todo) = todo[1] /\ todo[1] \in Callback
      /\ todo' \in Seq(Callback)
      /\ Len(todo') = Len(todo) - 1
      /\ TodoSlotsAscend'
      /\ \A i \in 1 .. Len(todo') : /\ slot < todo'[i].slot
                                    /\ todo'[i].slot <= newest.idx
      /\ RealDataIsDue'
  BY <1>1, QueueFacts
<1>3. /\ slot \in Nat /\ gaps \in Seq(Nat) /\ pending = Len(gaps)
      /\ newest.idx \in Nat /\ owed = pending + Len(todo)
      /\ DL_MAX_PENDING_GAPS \in Nat \ {0}
      /\ pending \in 0 .. DL_MAX_PENDING_GAPS
  BY <1>2, LadderAssumption DEF Callback, IInv, TypeOK, OneOperationPerSlot
<1>4. ops = [k \in 1 .. pending + 1 |-> LadderOp(pending, k)]
  BY <1>3 DEF dl_on_frame, LadderFits
<1>5. /\ slot <= newest.idx
      /\ \A i \in 1 .. Len(gaps) : gaps[i] \in Nat /\ gaps[i] < slot
      /\ todo[1].data.time = todo[1].due
  <2>1. 1 \in 1 .. Len(todo)
    BY <1>2
  <2>2. slot <= newest.idx
    BY <2>1 DEF IInv, TimelineInOrder, WaitingUpToNewest
  <2>3. \A i \in 1 .. Len(gaps) : gaps[i] < slot
    BY <2>1 DEF IInv, TimelineInOrder, GapsBeforeTodo
  <2>4. \A i \in 1 .. Len(gaps) : gaps[i] \in Nat
    BY <1>3
  <2>5. todo[1].data.time = todo[1].due
    BY <1>1, <1>2, <2>1 DEF IInv, RealDataIsDue
  <2> QED BY <2>2, <2>3, <2>4, <2>5
<1>6. ASSUME NEW k \in 1 .. pending + 1
      PROVE  LadderOp(pending, k) \in {"PLC", "FEC_ATTEMPT", "FRAME"}
  BY DEF LadderOp
<1> DEFINE made(k) == [op |-> LadderOp(pending, k),
                       slot |-> IF k <= pending THEN gaps[k] ELSE slot,
                       callback |-> todo[1]]
<1>7. out' = [k \in 1 .. pending + 1 |-> made(k)]
  BY <1>1, <1>2, <1>4
<1> HIDE DEF ops
<1>8. ASSUME NEW k \in 1 .. pending + 1
      PROVE  made(k) \in Output
  <2>1. (IF k <= pending THEN gaps[k] ELSE slot) \in Nat
    BY <1>3, <1>5
  <2> QED BY <1>2, <1>6, <2>1 DEF Output
<1>9. /\ out' \in Seq(Output) /\ Len(out') = pending + 1
      /\ \A k \in 1 .. pending + 1 : out'[k] = made(k)
  <2>1. [k \in 1 .. pending + 1 |-> made(k)] \in [1 .. pending + 1 -> Output]
    <3> HIDE DEF made
    <3> QED BY <1>8
  <2>2. pending + 1 \in Nat
    BY <1>3
  <2> HIDE DEF made
  <2> QED BY <1>7, <2>1, <2>2, FunctionIsSeq
<1>10. /\ played' = slot /\ newest' = newest /\ owed' = Len(todo) - 1
  BY <1>1, <1>2, <1>3, <1>9
<1>11. \A k \in 1 .. pending + 1 :
         /\ out'[k].op = LadderOp(pending, k)
         /\ out'[k].slot = IF k <= pending THEN gaps[k] ELSE slot
         /\ out'[k].callback = todo[1]
  BY <1>9
<1> HIDE DEF made, slot
<1>12. TypeOK'
  BY <1>1, <1>2, <1>3, <1>9, <1>10 DEF IInv, TypeOK
<1>13. OneOperationPerSlot'
  BY <1>1, <1>2, <1>10 DEF OneOperationPerSlot
<1>14. TimelineInOrder'
  <2>1. GapSlotsAscend' /\ GapsBeforeTodo'
    BY <1>1 DEF GapSlotsAscend, GapsBeforeTodo
  <2>2. PlayedBeforeWaiting'
    <3>1. \A i \in 1 .. Len(gaps') : played' < gaps'[i]
      BY <1>1
    <3>2. \A j \in 1 .. Len(todo') : played' < todo'[j].slot
      BY <1>2, <1>10 DEF slot
    <3> QED BY <3>1, <3>2 DEF PlayedBeforeWaiting
  <2>3. WaitingUpToNewest'
    <3>1. played' <= newest'.idx
      BY <1>5, <1>10
    <3>2. \A i \in 1 .. Len(gaps') : gaps'[i] <= newest'.idx
      BY <1>1
    <3>3. \A j \in 1 .. Len(todo') : todo'[j].slot <= newest'.idx
      BY <1>2, <1>10
    <3> QED BY <3>1, <3>2, <3>3 DEF WaitingUpToNewest
  <2> QED BY <1>2, <2>1, <2>2, <2>3 DEF TimelineInOrder
<1>15. SequenceFollowsNewest' /\ NothingBeforeFirst'
  BY <1>1 DEF IInv, SequenceFollowsNewest, NothingBeforeFirst
<1>16. OutputInOrder'
  <2>1. ASSUME NEW i \in 1 .. Len(out'), NEW j \in 1 .. Len(out'), i < j
        PROVE  out'[i].slot < out'[j].slot
    <3>1. i \in 1 .. Len(gaps) /\ out'[i].slot = gaps[i]
      BY <1>3, <1>9, <1>11, <2>1
    <3>2. CASE j <= pending
      <4>1. j \in 1 .. Len(gaps) /\ out'[j].slot = gaps[j]
        BY <1>3, <1>9, <1>11, <3>2
      <4> QED BY <2>1, <3>1, <4>1 DEF IInv, TimelineInOrder, GapSlotsAscend
    <3>3. CASE ~(j <= pending)
      BY <1>5, <1>9, <1>11, <3>1, <3>3
    <3> QED BY <3>2, <3>3
  <2>2. out'[Len(out')].slot = played'
    BY <1>3, <1>9, <1>10, <1>11
  <2> QED BY <2>1, <2>2 DEF OutputInOrder
<1>17. FramesInTheirSlots'
  <2>1. ASSUME NEW i \in 1 .. Len(out'), out'[i].op = "FRAME"
        PROVE  /\ out'[i].slot = out'[i].callback.slot
               /\ out'[i].callback.data.time = out'[i].callback.due
    <3>1. i \in 1 .. pending + 1 /\ out'[i].op = LadderOp(pending, i)
      BY <1>9, <1>11
    <3>2. ~(i <= pending)
      BY <1>3, <2>1, <3>1 DEF LadderOp
    <3> QED BY <1>5, <1>11, <3>1, <3>2 DEF slot
  <2> QED BY <2>1 DEF FramesInTheirSlots
<1> QED BY <1>2, <1>12, <1>13, <1>14, <1>15, <1>16, <1>17 DEF IInv

(* A reset gives up the deferred slots and nothing else.                       *)
LEMMA ResetPreserves ==
  ASSUME IInv, ResetDecoder
  PROVE  IInv'
<1>1. /\ pending' = 0 /\ gaps' = <<>> /\ owed' = owed - Len(gaps) /\ out' = <<>>
      /\ UNCHANGED <<sequence, todo, newest, played>>
  BY DEF ResetDecoder, dl_init
<1>2. /\ todo \in Seq(Callback) /\ Len(todo) \in Nat /\ gaps \in Seq(Nat)
      /\ pending = Len(gaps) /\ owed = pending + Len(todo) /\ owed \in Nat
      /\ Len(gaps) \in Nat
      /\ DL_MAX_PENDING_GAPS \in Nat
  BY LadderAssumption DEF IInv, TypeOK, OneOperationPerSlot
<1>3. TypeOK' /\ OneOperationPerSlot'
  <2>1. owed' = Len(todo)
    BY <1>1, <1>2
  <2> QED BY <1>1, <1>2, <2>1 DEF IInv, TypeOK, OneOperationPerSlot
<1>4. TimelineInOrder'
  BY <1>1 DEF IInv, TimelineInOrder, GapSlotsAscend, TodoSlotsAscend,
              GapsBeforeTodo, PlayedBeforeWaiting, WaitingUpToNewest
<1>5. /\ SequenceFollowsNewest' /\ NothingBeforeFirst' /\ RealDataIsDue'
      /\ OutputInOrder' /\ FramesInTheirSlots'
  BY <1>1 DEF IInv, SequenceFollowsNewest, NothingBeforeFirst, RealDataIsDue,
              OutputInOrder, FramesInTheirSlots
<1> QED BY <1>3, <1>4, <1>5 DEF IInv

(* Nothing happens: the invariant only reads the variables.                    *)
LEMMA StutterPreserves ==
  ASSUME IInv, UNCHANGED vars
  PROVE  IInv'
<1>1. UNCHANGED <<sequence, todo, pending, newest, gaps, played,
                  owed, out>>
  BY DEF vars, ghosts
<1> QED BY <1>1 DEF IInv, TypeOK, OneOperationPerSlot, TimelineInOrder,
        GapSlotsAscend, TodoSlotsAscend, GapsBeforeTodo, PlayedBeforeWaiting,
        WaitingUpToNewest, SequenceFollowsNewest, NothingBeforeFirst,
        RealDataIsDue, OutputInOrder, FramesInTheirSlots

(* Every step keeps the invariant.                                             *)
LEMMA InvarianceStep ==
  ASSUME IInv, [Next]_vars
  PROVE  IInv'
<1>1. ASSUME NEW p \in Packets, ReceiveOtherStream(p) PROVE IInv'
  BY <1>1, DroppedPacketPreserves
<1>2. ASSUME NEW p \in Packets, ReceiveLate(p) PROVE IInv'
  BY <1>2, DroppedPacketPreserves
<1>3. ASSUME NEW p \in Packets, ReceiveAccepted(p) PROVE IInv'
  BY <1>3, AcceptedPacketPreserves
<1>4. CASE DeferSlot
  BY <1>4, DeferPreserves
<1>5. CASE ConcealAtOnce
  BY <1>5, ConcealPreserves
<1>6. CASE DecodeFrame
  BY <1>6, DecodeFramePreserves
<1>7. CASE ResetDecoder
  BY <1>7, ResetPreserves
<1>8. CASE UNCHANGED vars
  BY <1>8, StutterPreserves
<1> QED BY <1>1, <1>2, <1>3, <1>4, <1>5, <1>6, <1>7, <1>8 DEF Next, Receive

(* The invariant is inductive: it holds at first and every step keeps it.      *)
THEOREM Invariance == Spec => []IInv
<1>1. IInv /\ [Next]_vars => IInv'
  BY InvarianceStep
<1> QED BY <1>1, InitEstablishes, PTL DEF Spec

(* Every variable keeps its type, and the ladder never holds more than its    *)
(* cap: dl_on_frame never finds the operations array of media.cpp too short.  *)
THEOREM TypeCorrect == Spec => []TypeOK
<1>1. IInv => TypeOK
  BY DEF IInv
<1> QED BY <1>1, Invariance, PTL

(* Every slot rtp_decode_generic signals is decoded exactly once or still      *)
(* waits, whatever arrives.                                                    *)
THEOREM SlotsAreKept == Spec => []OneOperationPerSlot
<1>1. IInv => OneOperationPerSlot
  BY DEF IInv
<1> QED BY <1>1, Invariance, PTL

(* What waits for the decoder is in the sender's order and ahead of what the   *)
(* decoder has been given.                                                     *)
THEOREM SlotsStayInOrder == Spec => []TimelineInOrder
<1>1. IInv => TimelineInOrder
  BY DEF IInv
<1> QED BY <1>1, Invariance, PTL

(* Audio decoded as a real frame is the audio of its own 20 ms.                *)
THEOREM RecoveredFramesFit == Spec => []FramesInTheirSlots
<1>1. IInv => FramesInTheirSlots
  BY DEF IInv
<1> QED BY <1>1, Invariance, PTL

(* The decode operations of one callback are in the sender's order.            *)
THEOREM DecodesInOrder == Spec => []OutputInOrder
<1>1. IInv => OutputInOrder
  BY DEF IInv
<1> QED BY <1>1, Invariance, PTL

(* For every packet less than half the sequence space from the newest one the  *)
(* 16-bit comparison decides as the sender's order does, over every wrap.      *)
THEOREM WrapDecidesOrder == Spec => []ArrivalOrderDecided
<1>1. IInv => ArrivalOrderDecided
  <2> SUFFICES ASSUME IInv, sequence.initialized,
                      NEW i \in (newest.idx + 1 - Half) .. (newest.idx + Half)
               PROVE  LET event == SequenceEvent(sequence, i % SeqSpace, RemoteSsrc)
                      IN IF i <= newest.idx THEN event.kind = "LATE"
                         ELSE event.kind # "LATE" /\ event.gap = i - newest.idx - 1
    BY DEF ArrivalOrderDecided
  <2>1. newest.idx \in Int /\ i \in Int /\ Half \in Nat
    BY HalfAssumption DEF IInv, TypeOK
  <2>2. i - newest.idx \in (1 - Half) .. Half
    BY <2>1
  <2>3. SequenceDelta(newest.idx % SeqSpace, i % SeqSpace) = i - newest.idx - 1
    BY <2>1, <2>2, DeltaExact
  <2>4. sequence.last_seq = newest.idx % SeqSpace /\ sequence.ssrc = RemoteSsrc
    BY DEF IInv, SequenceFollowsNewest
  <2> QED BY <2>1, <2>3, <2>4 DEF SequenceEvent
<1> QED BY <1>1, Invariance, PTL

(* Nothing waits and nothing was decoded.                                      *)
LEMMA FecInitEstablishes == Init => FecInv
<1> SUFFICES ASSUME Init PROVE FecInv
  OBVIOUS
<1>1. todo = <<>> /\ gaps = <<>> /\ out = <<>>
  BY DEF Init
<1>2. CallbacksConsecutive /\ CallbackFollowsLadder /\ FecFromNextOrAfterJump
  BY <1>1 DEF CallbacksConsecutive, CallbackFollowsLadder,
              FecFromNextOrAfterJump
<1> QED BY <1>2, InitEstablishes DEF FecInv

(* The callbacks of an accepted packet follow the slot deferred last, which    *)
(* was the newest, because a packet is only taken when no callback is left.    *)
LEMMA AcceptedPacketFollows ==
  ASSUME FecInv, NEW p \in Packets, ReceiveAccepted(p)
  PROVE  /\ CallbacksConsecutive' /\ CallbackFollowsLadder'
         /\ FecFromNextOrAfterJump'
<1> DEFINE m == Missing(Event(p))
<1>1. /\ ForAudioDecoder(p) /\ InReorderWindow(p) /\ Event(p).kind # "LATE"
      /\ TypeOK /\ SequenceFollowsNewest /\ NothingBeforeFirst
      /\ todo = <<>> /\ out' = <<>> /\ gaps' = gaps /\ newest'.idx = p.idx
  BY DEF FecInv, IInv, ReceiveAccepted
<1>2. p.idx \in Nat
  BY PacketAssumption DEF Packet
<1>3. /\ m \in Nat
      /\ sequence.initialized => Follows(p.idx - m, newest.idx)
  BY <1>1, EventFacts, RedAssumption
<1>4. /\ todo' \in Seq(Callback)
      /\ Len(todo') = m + 1
      /\ \A i \in 1 .. m + 1 : todo'[i].slot = p.idx - (m + 1 - i)
  BY <1>1, CallbackFacts DEF ReceiveAccepted
<1> HIDE DEF m
<1>5. CallbacksConsecutive'
  <2>1. ASSUME NEW i \in 1 .. Len(todo') - 1
        PROVE  todo'[i + 1].slot = todo'[i].slot + 1
    <3>1. i \in 1 .. m + 1 /\ i + 1 \in 1 .. m + 1
      BY <1>3, <1>4
    <3>2. /\ todo'[i].slot = p.idx - (m + 1 - i)
          /\ todo'[i + 1].slot = p.idx - (m + 1 - (i + 1))
      BY <1>4, <3>1
    <3> QED BY <1>2, <1>3, <3>2
  <2>2. todo'[Len(todo')].slot = newest'.idx
    <3>1. m + 1 \in 1 .. m + 1
      BY <1>3
    <3>2. todo'[m + 1].slot = p.idx - (m + 1 - (m + 1))
      BY <1>4, <3>1
    <3> QED BY <1>1, <1>2, <1>3, <1>4, <3>2
  <2> QED BY <2>1, <2>2 DEF CallbacksConsecutive
<1>6. CallbackFollowsLadder'
  <2>1. todo' # <<>>
    BY <1>3, <1>4
  <2>2. ASSUME gaps' # <<>>
        PROVE  Follows(todo'[1].slot, gaps'[Len(gaps')])
    <3>1. gaps # <<>> /\ sequence.initialized
      BY <1>1, <2>2 DEF NothingBeforeFirst
    <3>2. gaps[Len(gaps)] = newest.idx
      BY <1>1, <3>1 DEF FecInv, CallbackFollowsLadder
    <3>3. todo'[1].slot = p.idx - m
      BY <1>2, <1>3, <1>4
    <3> QED BY <1>1, <1>3, <3>1, <3>2, <3>3
  <2> QED BY <2>1, <2>2 DEF CallbackFollowsLadder, Follows
<1>7. FecFromNextOrAfterJump'
  BY <1>1 DEF FecFromNextOrAfterJump
<1> QED BY <1>5, <1>6, <1>7

(* The callbacks behind the head stay consecutive, and the head is the newest  *)
(* slot when it is the last.                                                   *)
LEMMA QueueStaysConsecutive ==
  ASSUME FecInv, todo # <<>>, todo' = Tail(todo), newest' = newest
  PROVE  /\ CallbacksConsecutive'
         /\ todo' = <<>> => todo[1].slot = newest.idx
         /\ todo' # <<>> => todo'[1].slot = todo[1].slot + 1
<1>1. /\ Len(todo) \in Nat \ {0}
      /\ todo' \in Seq(Callback)
      /\ Len(todo') = Len(todo) - 1
      /\ \A i \in 1 .. Len(todo') : todo'[i] = todo[i + 1]
  BY QueueFacts DEF FecInv
<1>2. CallbacksConsecutive
  BY DEF FecInv
<1>3. ASSUME NEW i \in 1 .. Len(todo') - 1
      PROVE  todo'[i + 1].slot = todo'[i].slot + 1
  <2>1. /\ i \in 1 .. Len(todo') /\ i + 1 \in 1 .. Len(todo')
        /\ i + 1 \in 1 .. Len(todo) - 1
    BY <1>1
  <2>2. todo'[i] = todo[i + 1] /\ todo'[i + 1] = todo[(i + 1) + 1]
    BY <1>1, <2>1
  <2>3. todo[(i + 1) + 1].slot = todo[i + 1].slot + 1
    BY <1>2, <2>1 DEF CallbacksConsecutive
  <2> QED BY <2>2, <2>3
<1>4. CASE todo' = <<>>
  <2>0. Len(todo') = 0
    <3>1. Len(<<>>) = 0
      OBVIOUS
    <3> QED BY <1>4, <3>1
  <2>1. Len(todo) = 1
    BY <1>1, <2>0
  <2>2. todo[1].slot = newest.idx
    BY <1>2, <2>1 DEF CallbacksConsecutive
  <2>3. \A i \in 1 .. Len(todo') - 1 : todo'[i + 1].slot = todo'[i].slot + 1
    BY <1>3
  <2> QED BY <1>4, <2>2, <2>3 DEF CallbacksConsecutive
<1>5. CASE todo' # <<>>
  <2>1. Len(todo') >= 1 /\ Len(todo') \in Nat
    BY <1>1, <1>5
  <2>2. /\ todo'[Len(todo')] = todo[Len(todo)]
        /\ todo'[1] = todo[1 + 1] /\ 1 \in 1 .. Len(todo) - 1
    BY <1>1, <2>1
  <2>3. todo'[Len(todo')].slot = newest'.idx
    BY <1>2, <2>2 DEF CallbacksConsecutive
  <2>4. todo'[1].slot = todo[1].slot + 1
    BY <1>2, <2>2 DEF CallbacksConsecutive
  <2> QED BY <1>3, <1>5, <2>3, <2>4 DEF CallbacksConsecutive
<1> QED BY <1>4, <1>5

(* A slot that joins the ladder is followed by the next callback.              *)
LEMMA DeferringFollows ==
  ASSUME FecInv, DeferSlot \/ ConcealAtOnce
  PROVE  /\ CallbacksConsecutive' /\ CallbackFollowsLadder'
         /\ FecFromNextOrAfterJump'
<1>1. /\ todo # <<>> /\ todo' = Tail(todo) /\ newest' = newest
      /\ \/ gaps' = Append(gaps, Head(todo).slot) /\ out' = <<>>
         \/ /\ ~(pending < DL_MAX_PENDING_GAPS)
            /\ gaps' = Append(Tail(gaps), Head(todo).slot)
            /\ out' = <<[op |-> "PLC", slot |-> Head(gaps),
                         callback |-> Head(todo)]>>
  BY DEF DeferSlot, ConcealAtOnce, GapDeferred
<1>2. /\ CallbacksConsecutive'
      /\ todo' = <<>> => todo[1].slot = newest.idx
      /\ todo' # <<>> => todo'[1].slot = todo[1].slot + 1
  BY <1>1, QueueStaysConsecutive
<1>3. /\ Head(todo) = todo[1] /\ todo[1] \in Callback
      /\ gaps \in Seq(Nat) /\ pending = Len(gaps)
      /\ DL_MAX_PENDING_GAPS \in Nat \ {0}
  BY <1>1, QueueFacts, LadderAssumption
     DEF FecInv, IInv, TypeOK, OneOperationPerSlot
<1>4. gaps' # <<>> /\ gaps'[Len(gaps')] = todo[1].slot
  <2>1. PICK q \in Seq(Nat) : gaps' = Append(q, todo[1].slot)
    <3>1. CASE gaps' = Append(gaps, Head(todo).slot)
      BY <1>3, <3>1
    <3>2. CASE /\ ~(pending < DL_MAX_PENDING_GAPS)
               /\ gaps' = Append(Tail(gaps), Head(todo).slot)
      <4>1. gaps # <<>>
        BY <1>3, <3>2
      <4>2. Tail(gaps) \in Seq(Nat)
        BY <1>3, <4>1, HeadTail
      <4> QED BY <1>3, <3>2, <4>2
    <3> QED BY <1>1, <3>1, <3>2
  <2>2. todo[1].slot \in Nat
    BY <1>3 DEF Callback
  <2>3. /\ Len(q) \in Nat /\ Len(gaps') = Len(q) + 1
        /\ gaps'[Len(q) + 1] = todo[1].slot
    BY <2>1, <2>2, AppendEnd
  <2> QED BY <2>1, <2>2, <2>3
<1>5. CallbackFollowsLadder'
  BY <1>1, <1>2, <1>4 DEF CallbackFollowsLadder, Follows
<1>6. FecFromNextOrAfterJump'
  <2>1. CASE out' = <<>>
    BY <2>1 DEF FecFromNextOrAfterJump
  <2>2. CASE out' = <<[op |-> "PLC", slot |-> Head(gaps),
                       callback |-> Head(todo)]>>
    <3>1. Len(out') = 1 /\ out'[1].op = "PLC"
      BY <2>2
    <3> QED BY <3>1 DEF FecFromNextOrAfterJump
  <2> QED BY <1>1, <2>1, <2>2
<1> QED BY <1>2, <1>5, <1>6

(* The one FEC attempt of a frame stands for the slot deferred last.           *)
LEMMA FecUsesFollowingFrame ==
  ASSUME FecInv, DecodeFrame
  PROVE  /\ CallbacksConsecutive' /\ CallbackFollowsLadder'
         /\ FecFromNextOrAfterJump'
<1> DEFINE ops == dl_on_frame(pending, DL_MAX_PENDING_GAPS + 1)
<1>1. /\ todo # <<>> /\ todo' = Tail(todo) /\ newest' = newest
      /\ gaps' = <<>>
      /\ out' = [k \in DOMAIN ops |->
                   [op |-> ops[k],
                    slot |-> IF k <= pending THEN gaps[k] ELSE Head(todo).slot,
                    callback |-> Head(todo)]]
  BY DEF DecodeFrame
<1>2. CallbacksConsecutive' /\ CallbackFollowsLadder'
  BY <1>1, QueueStaysConsecutive DEF CallbackFollowsLadder
<1>3. /\ Head(todo) = todo[1]
      /\ gaps \in Seq(Nat) /\ pending = Len(gaps)
      /\ DL_MAX_PENDING_GAPS \in Nat \ {0}
      /\ pending \in 0 .. DL_MAX_PENDING_GAPS
  BY <1>1, QueueFacts, LadderAssumption
     DEF FecInv, IInv, TypeOK, OneOperationPerSlot
<1>4. ops = [k \in 1 .. pending + 1 |-> LadderOp(pending, k)]
  BY <1>3 DEF dl_on_frame, LadderFits
<1>5. out' = [k \in 1 .. pending + 1 |->
                [op |-> LadderOp(pending, k),
                 slot |-> IF k <= pending THEN gaps[k] ELSE todo[1].slot,
                 callback |-> todo[1]]]
  BY <1>1, <1>3, <1>4
<1> HIDE DEF ops
<1>6. Len(out') = pending + 1
  BY <1>3, <1>5
<1>7. ASSUME NEW k \in 1 .. Len(out'), out'[k].op = "FEC_ATTEMPT"
      PROVE  Follows(out'[k].callback.slot, out'[k].slot)
  <2>1. /\ k \in 1 .. pending + 1
        /\ out'[k].op = LadderOp(pending, k)
        /\ out'[k].callback = todo[1]
        /\ out'[k].slot = IF k <= pending THEN gaps[k] ELSE todo[1].slot
    BY <1>5, <1>6
  <2>2. k = pending /\ out'[k].slot = gaps[Len(gaps)] /\ gaps # <<>>
    BY <1>3, <1>7, <2>1 DEF LadderOp
  <2> QED BY <1>1, <2>1, <2>2 DEF FecInv, CallbackFollowsLadder
<1>8. FecFromNextOrAfterJump'
  BY <1>7 DEF FecFromNextOrAfterJump, Follows
<1> QED BY <1>2, <1>8

(* Late packets and packets of other streams change nothing; a reset empties   *)
(* the ladder.                                                                 *)
LEMMA OtherStepsFollow ==
  ASSUME FecInv,
         \/ UNCHANGED vars
         \/ ResetDecoder
         \/ \E p \in Packets : ReceiveOtherStream(p) \/ ReceiveLate(p)
  PROVE  /\ CallbacksConsecutive' /\ CallbackFollowsLadder'
         /\ FecFromNextOrAfterJump'
<1>1. /\ UNCHANGED <<todo, newest>>
      /\ gaps' = <<>> \/ gaps' = gaps
      /\ out' = <<>> \/ out' = out
  BY DEF vars, ghosts, ResetDecoder, ReceiveOtherStream, ReceiveLate
<1>2. CallbacksConsecutive'
  BY <1>1 DEF FecInv, CallbacksConsecutive
<1>3. CallbackFollowsLadder'
  BY <1>1 DEF FecInv, CallbackFollowsLadder
<1>4. FecFromNextOrAfterJump'
  BY <1>1 DEF FecInv, FecFromNextOrAfterJump
<1> QED BY <1>2, <1>3, <1>4

(* In-band FEC is taken from the packet after the missing one, or from the     *)
(* packet behind a jump longer than RED_MAX_GAP, and from no other.            *)
THEOREM FecIsTakenFromTheNext == Spec => []FecFromNextOrAfterJump
<1>1. FecInv /\ [Next]_vars => FecInv'
  <2> SUFFICES ASSUME FecInv, [Next]_vars PROVE FecInv'
    OBVIOUS
  <2>1. IInv'
    BY InvarianceStep DEF FecInv
  <2>2. ASSUME NEW p \in Packets, ReceiveAccepted(p)
        PROVE  FecInv'
    BY <2>1, <2>2, AcceptedPacketFollows DEF FecInv
  <2>3. CASE DeferSlot \/ ConcealAtOnce
    BY <2>1, <2>3, DeferringFollows DEF FecInv
  <2>4. CASE DecodeFrame
    BY <2>1, <2>4, FecUsesFollowingFrame DEF FecInv
  <2>5. CASE \/ UNCHANGED vars
             \/ ResetDecoder
             \/ \E p \in Packets : ReceiveOtherStream(p) \/ ReceiveLate(p)
    BY <2>1, <2>5, OtherStepsFollow DEF FecInv
  <2> QED BY <2>2, <2>3, <2>4, <2>5 DEF Next, Receive
<1>2. FecInv => FecFromNextOrAfterJump
  BY DEF FecInv
<1> QED BY <1>1, <1>2, FecInitEstablishes, PTL DEF Spec

(* A set of naturals that is not empty has a least one.                        *)
LEMMA LeastOf ==
  ASSUME NEW T, T \subseteq Nat, T # {}
  PROVE  \E x \in T : \A y \in T : x <= y
<1>1. PICK x \in T : \A y \in T : ~(<<y, x>> \in OpToRel(<, Nat))
  BY NatLessThanWellFounded, WFMin
<1>2. ASSUME NEW y \in T PROVE x <= y
  <2>1. x \in Nat /\ y \in Nat
    OBVIOUS
  <2>2. ~(<<y, x>> \in OpToRel(<, Nat))
    BY <1>1
  <2>3. ~(y < x)
    BY <2>1, <2>2 DEF OpToRel
  <2> QED BY <2>1, <2>3
<1> QED BY <1>2

(* red_recover_plan leaves no slot out that a block of the chain would fill.   *)
LEMMA MatchIsPlanned ==
  ASSUME NEW blocks, NEW wanted, Len(blocks) \in Nat,
         NEW b \in 1 .. Len(blocks), Matches(blocks, b, wanted)
  PROVE  PlannedBlock(blocks, wanted) # 0
<1> DEFINE T == {c \in 1 .. Len(blocks) : Matches(blocks, c, wanted)}
<1>1. T \subseteq Nat /\ T # {}
  OBVIOUS
<1>2. PICK x \in T : \A y \in T : x <= y
  BY <1>1, LeastOf
<1>3. FirstMatch(blocks, x, wanted)
  <2>1. x \in 1 .. Len(blocks) /\ Matches(blocks, x, wanted)
    OBVIOUS
  <2>2. ASSUME NEW c \in 1 .. x - 1, Matches(blocks, c, wanted)
        PROVE  FALSE
    <3>1. c \in T /\ c < x
      BY <2>1, <2>2
    <3> QED BY <1>2, <2>1, <3>1
  <2> QED BY <2>1, <2>2 DEF FirstMatch
<1>4. x \in 1 .. Len(blocks)
  OBVIOUS
<1> HIDE DEF T
<1>5. \E c \in 1 .. Len(blocks) : FirstMatch(blocks, c, wanted)
  BY <1>3, <1>4
<1>6. (CHOOSE c \in 1 .. Len(blocks) : FirstMatch(blocks, c, wanted))
        \in 1 .. Len(blocks)
  BY <1>5
<1> QED BY <1>5, <1>6 DEF PlannedBlock

(* The signed distance to a packet that is one of the next Half is positive,   *)
(* so a gap of at most RED_MAX_GAP is concealed.                               *)
LEMMA ShortGapIsMissing ==
  ASSUME TypeOK, SequenceFollowsNewest, sequence.initialized,
         NEW p \in Packets, ForAudioDecoder(p), InReorderWindow(p),
         p.idx - newest.idx - 1 \in 1 .. RED_MAX_GAP
  PROVE  Missing(Event(p)) = p.idx - newest.idx - 1
<1> DEFINE d == SequenceDelta(sequence.last_seq, WireSeq(p))
<1>1. p.idx \in Nat \ {0} /\ p.ssrc = RemoteSsrc /\ newest.idx \in Nat
  BY PacketAssumption DEF Packet, ForAudioDecoder, TypeOK
<1>2. RED_MAX_GAP \in Nat \ {0}
  BY RedAssumption
<1>3. d = p.idx - newest.idx - 1
  BY <1>1, DeltaExact DEF SequenceFollowsNewest, InReorderWindow, WireSeq
<1> HIDE DEF d
<1>4. d \in Int /\ d > 0 /\ d <= RED_MAX_GAP
  BY <1>1, <1>2, <1>3
<1>5. Event(p).kind = "GAP" /\ Event(p).gap = d
  BY <1>1, <1>4 DEF Event, SequenceEvent, SequenceFollowsNewest, d
<1> QED BY <1>3, <1>4, <1>5 DEF Missing

(* An advance by whole 20 ms steps passes the timestamp check, over the wrap.  *)
LEMMA ProfileIsValidated ==
  ASSUME NEW t \in Nat, NEW gap \in 1 .. RED_MAX_GAP,
         (gap + 1) * TS_STEP < TsMod
  PROVE  red_validate_timestamp_advance(
           t % TsMod, (t + (gap + 1) * TS_STEP) % TsMod, gap)
<1> DEFINE u == t + (gap + 1) * TS_STEP
           x == (u % TsMod) - (t % TsMod)
           qt == t \div TsMod
           qu == u \div TsMod
<1>1. TsMod \in Nat \ {0} /\ TS_STEP \in Nat \ {0} /\ RED_MAX_GAP \in Nat
  BY RedAssumption
<1>2. (gap + 1) * TS_STEP \in 0 .. TsMod - 1
  BY <1>1
<1>3. u \in Int
  BY <1>1, <1>2
<1> HIDE DEF u
<1>4. /\ u % TsMod \in 0 .. TsMod - 1 /\ qu \in Int
      /\ u = TsMod * qu + (u % TsMod)
  BY <1>1, <1>3, RemainderRange
<1>5. /\ t % TsMod \in 0 .. TsMod - 1 /\ qt \in Int
      /\ t = TsMod * qt + (t % TsMod)
  BY <1>1, RemainderRange
<1> HIDE DEF qt, qu
<1>6. TsMod * (qt - qu) = TsMod * qt - TsMod * qu
  BY <1>1, <1>4, <1>5
<1> DEFINE r == (gap + 1) * TS_STEP
<1>7. u = t + r
  BY DEF u
<1>8. r \in 0 .. TsMod - 1
  BY <1>2
<1> HIDE DEF r
<1>9. x \in Int /\ x = TsMod * (qt - qu) + r
  <2>1. /\ TsMod * qt \in Int /\ TsMod * qu \in Int
        /\ u % TsMod \in Int /\ t % TsMod \in Int
    BY <1>1, <1>4, <1>5
  <2>2. (u % TsMod) - (t % TsMod) = TsMod * qt - TsMod * qu + r
    BY <1>1, <1>3, <1>4, <1>5, <1>7, <1>8, <2>1
  <2> QED BY <1>6, <2>1, <2>2
<1> HIDE DEF x
<1>10. x % TsMod = r
  <2>1. qt - qu \in Int
    BY <1>4, <1>5
  <2> QED BY <1>1, <1>8, <1>9, <2>1, RemainderUnique
<1> QED BY <1>1, <1>10 DEF red_validate_timestamp_advance, x, u, r

(* The callback of a slot of which the packet carries a usable copy.           *)
LEMMA CarriedCopyIsPlanned ==
  ASSUME TypeOK, SequenceFollowsNewest, sequence.initialized,
         NEW p \in Packets, ForAudioDecoder(p), InReorderWindow(p),
         Event(p).kind # "LATE",
         p.idx - newest.idx - 1 \in 1 .. RED_MAX_GAP,
         p.red, red_unwrap(p).ok, OnProfile(p),
         NEW i \in 1 .. p.idx - newest.idx - 1,
         CarriesCopy(p, newest.time + i * TS_STEP)
  PROVE  /\ Callbacks(p, Event(p))[i].due = newest.time + i * TS_STEP
         /\ Callbacks(p, Event(p))[i].data.time = newest.time + i * TS_STEP
<1> DEFINE m == Missing(Event(p))
           blocks == red_unwrap(p).blocks
           wanted == (m - i + 1) * TS_STEP
           due == newest.time + i * TS_STEP
<1>1. /\ m = p.idx - newest.idx - 1 /\ m \in 1 .. RED_MAX_GAP
      /\ i \in 1 .. m
  BY ShortGapIsMissing
<1>2. /\ p.idx \in Nat /\ p.time \in Nat /\ p.chain \in Seq(ChainEntry)
      /\ newest.idx \in Nat /\ newest.time \in Nat
      /\ RED_MAX_GAP \in Nat /\ TS_STEP \in Nat \ {0} /\ TsMod \in Nat \ {0}
  BY PacketAssumption, RedAssumption DEF Packet, TypeOK
<1>3. /\ sequence.initialized /\ p.idx > newest.idx
      /\ Event(p).gap = m
      /\ Event(p).previous_timestamp = newest.time % TsMod
  BY <1>1, EventFacts, RedAssumption
<1>4. p.time = newest.time + (m + 1) * TS_STEP
  <2>1. m + 1 = p.idx - newest.idx
    BY <1>1, <1>2
  <2> HIDE DEF m
  <2> QED BY <2>1 DEF OnProfile
<1> HIDE DEF m
<1>5. /\ m \in Nat /\ i \in Nat
      /\ (m + 1) * TS_STEP \in Nat /\ wanted \in Nat /\ i * TS_STEP \in Nat
      /\ (m + 1) * TS_STEP = wanted + i * TS_STEP
  <2>1. m \in Nat /\ i \in Nat /\ m - i + 1 \in Nat
    <3>1. m \in Nat /\ i \in 1 .. m
      BY <1>1, <1>2
    <3> QED BY <3>1
  <2>2. m + 1 = (m - i + 1) + i
    BY <2>1
  <2>3. ((m - i + 1) + i) * TS_STEP = (m - i + 1) * TS_STEP + i * TS_STEP
    BY <1>2, <2>1
  <2> QED BY <1>2, <2>1, <2>2, <2>3
<1>6. (m + 1) * TS_STEP < TsMod
  <2>1. p.time - newest.time \in 0 .. TsMod - 1
    BY <1>3 DEF InReorderWindow
  <2> QED BY <1>2, <1>4, <1>5, <2>1
<1>7. red_validate_timestamp_advance(Event(p).previous_timestamp, WireTs(p),
                                     Event(p).gap)
  BY <1>1, <1>2, <1>3, <1>4, <1>6, ProfileIsValidated DEF WireTs
<1>8. Plan(p, Event(p)) = red_recover_plan(blocks, m)
  BY <1>3, <1>7 DEF Plan
<1>9. Plan(p, Event(p))[i] = PlannedBlock(blocks, wanted)
  BY <1>1, <1>2, <1>8 DEF red_recover_plan
<1>10. PICK b \in 1 .. Len(p.chain) :
         p.time - p.chain[b].ts_offset = due /\ p.chain[b].length > 0
  BY DEF CarriesCopy
<1>11. /\ p.chain[b].ts_offset = wanted /\ wanted <= MAX_TS_OFFSET
  <2>1. p.chain[b] \in ChainEntry
    BY <1>2
  <2>2. p.chain[b].ts_offset \in 0 .. MAX_TS_OFFSET
    BY <2>1 DEF ChainEntry
  <2>3. MAX_TS_OFFSET \in Nat
    BY RedAssumption
  <2> DEFINE after == i * TS_STEP
             all == (m + 1) * TS_STEP
  <2>4. /\ wanted \in Nat /\ after \in Nat /\ all = wanted + after
        /\ p.time = newest.time + all
        /\ p.time - p.chain[b].ts_offset = newest.time + after
    BY <1>4, <1>5, <1>10
  <2> DEFINE offset == p.chain[b].ts_offset
  <2>5. offset \in 0 .. MAX_TS_OFFSET /\ p.time - offset = newest.time + after
    BY <2>2, <2>4
  <2> HIDE DEF wanted, after, all, offset
  <2>6. /\ offset \in Nat /\ offset <= MAX_TS_OFFSET
        /\ wanted \in Nat /\ after \in Nat /\ p.time \in Nat
        /\ newest.time \in Nat
    BY <1>2, <2>3, <2>4, <2>5
  <2>7. /\ p.time = newest.time + (wanted + after)
        /\ p.time - offset = newest.time + after
    BY <2>4, <2>5
  <2>8. offset = wanted
    BY <2>6, <2>7
  <2> QED BY <2>6, <2>8 DEF offset
<1>12. Plan(p, Event(p))[i] # 0
  <2>1. /\ Len(blocks) = Len(p.chain) /\ Len(p.chain) \in Nat
        /\ blocks[b].ts_offset = p.chain[b].ts_offset
        /\ blocks[b].length = p.chain[b].length
    BY UnwrapFacts
  <2>2. Matches(blocks, b, wanted)
    <3> HIDE DEF blocks, wanted
    <3> QED BY <1>10, <1>11, <2>1 DEF Matches
  <2> HIDE DEF blocks, wanted
  <2> QED BY <1>9, <2>1, <2>2, MatchIsPlanned
<1>13. p.time - p.chain[Plan(p, Event(p))[i]].ts_offset = due
  BY <1>1, <1>12, PlanFacts DEF m
<1>14. Callbacks(p, Event(p))[i]
         = [slot |-> p.idx - (m + 1 - i), due |-> due,
            data |-> RecoveredData(p, Plan(p, Event(p))[i])]
  <2>1. i \in 1 .. m + 1 /\ i <= m
    BY <1>1, <1>5
  <2> QED BY <2>1 DEF Callbacks, m
<1> HIDE DEF due
<1>15. RecoveredData(p, Plan(p, Event(p))[i]).time = due
  BY <1>12, <1>13 DEF RecoveredData
<1> QED BY <1>14, <1>15 DEF due

(* A missing slot of which the next packet to arrive carries a usable copy is  *)
(* played from the copy, whatever else the packet and the sender's clock do.   *)
THEOREM CarriedCopiesAreUsed == Spec => CopiesAreUsed
<1>1. IInv /\ [Next]_vars =>
        ((/\ sequence.initialized
          /\ newest'.idx - newest.idx - 1 \in 1 .. RED_MAX_GAP) =>
           \A p \in RedPackets[newest'.idx] :
             (OnProfile(p) /\ ReceiveAccepted(p)) =>
                \A i \in 1 .. p.idx - newest.idx - 1 :
                  LET due == newest.time + i * TS_STEP IN
                  CarriesCopy(p, due) => /\ todo'[i].due = due
                                         /\ todo'[i].data.time = due)
  <2> SUFFICES ASSUME IInv, [Next]_vars, sequence.initialized,
                      newest'.idx - newest.idx - 1 \in 1 .. RED_MAX_GAP,
                      NEW p \in RedPackets[newest'.idx],
                      OnProfile(p), ReceiveAccepted(p),
                      NEW i \in 1 .. p.idx - newest.idx - 1,
                      CarriesCopy(p, newest.time + i * TS_STEP)
               PROVE  /\ todo'[i].due = newest.time + i * TS_STEP
                      /\ todo'[i].data.time = newest.time + i * TS_STEP
    OBVIOUS
  <2>1. \E q \in Packets : newest'.idx = q.idx
    <3>1. newest' # newest
      <4>1. newest.idx \in Nat /\ RED_MAX_GAP \in Nat
        BY RedAssumption DEF IInv, TypeOK
      <4> QED BY <4>1
    <3> QED BY <3>1 DEF Next, Receive, ReceiveOtherStream, ReceiveLate,
          ReceiveAccepted, DeferSlot, ConcealAtOnce, DecodeFrame, ResetDecoder,
          vars, ghosts
  <2>2. newest'.idx \in {q.idx : q \in Packets}
    BY <2>1
  <2>3. /\ p \in Packets /\ p.idx = newest'.idx /\ ForAudioDecoder(p)
        /\ p.red /\ red_unwrap(p).ok
    BY <2>2 DEF RedPackets
  <2>4. /\ InReorderWindow(p) /\ Event(p).kind # "LATE"
        /\ todo' = Callbacks(p, Event(p))
    BY DEF ReceiveAccepted
  <2> QED BY <2>3, <2>4, CarriedCopyIsPlanned DEF IInv
<1> QED BY <1>1, Invariance, PTL DEF CopiesAreUsed, Spec
=============================================================================
