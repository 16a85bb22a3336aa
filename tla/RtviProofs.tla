----------------------------- MODULE RtviProofs -----------------------------
(***************************************************************************)
(* For every set of messages and size of the queue: the types, the decode   *)
(* ladder under its two threads, and that every step of the queue, the RTVI  *)
(* task and the callbacks is one of ServerCommands or none.                  *)
(***************************************************************************)
EXTENDS RtviProps, SequenceTheorems, TLAPS

USE RtviAssumption, LadderAssumption

(* The message in a thread's hand is one the server sent; only               *)
(* bot-started-speaking has a reset.                                         *)
InHandSent ==
  /\ main.step = "sending" => main.msg \in Message
  /\ rtvi.step # "idle" => rtvi.msg \in Message
  /\ rtvi.step \in {"reset", "phase"} => rtvi.msg = "bot-started-speaking"

(* What a thread holds of the ladder is what is in it, unless a reset came     *)
(* between: then a deferral is to bring the old slots back.                    *)
LadderInHand ==
  /\ main.step # "gap" => pending_gaps = since + revived
  /\ main.step = "gap" =>
       \/ pending_gaps = main.read /\ main.read = since + revived
       \/ pending_gaps = 0 /\ since = 0 /\ revived = Revived
  /\ main.step = "frame" => pending_gaps = main.read \/ pending_gaps = 0

RtviInv == TypeOK /\ InHandSent /\ LadderInHand

LEMMA RtviInit == Init => RtviInv
  BY DEF Init, RtviInv, TypeOK, InHandSent, LadderInHand, Idle, AtRest, dl_init

LEMMA RtviStep == RtviInv /\ [Next]_vars => RtviInv'
<1> SUFFICES ASSUME RtviInv, [Next]_vars PROVE RtviInv'
  OBVIOUS
<1> USE DEF RtviInv, TypeOK, InHandSent, LadderInHand, Idle, AtRest, ladder,
            Revived, GapDeferred
<1>1. ASSUME NEW m \in Message, MessageArrives(m) PROVE RtviInv'
  <2>1. /\ main' = [step |-> "sending", msg |-> m, read |-> 0]
        /\ main.step = "idle"
        /\ UNCHANGED <<rtvi_queue, rtvi, pending_gaps, since, revived,
                       g_server_phase>>
    BY <1>1 DEF MessageArrives
  <2>2. TypeOK'
    BY <2>1
  <2>3. InHandSent'
    BY <2>1
  <2>4. LadderInHand'
    BY <2>1
  <2> QED BY <2>2, <2>3, <2>4
<1>2. CASE QueueSend
  BY <1>2 DEF QueueSend
<1>3. ASSUME NEW step \in {"gap", "frame"}, LoadLadder(step) PROVE RtviInv'
  BY <1>3 DEF LoadLadder
<1>4. CASE StoreGap
  <2>1. /\ main.step = "gap" /\ main' = Idle
        /\ UNCHANGED <<rtvi_queue, rtvi, revived, g_server_phase>>
    BY <1>4 DEF StoreGap
  <2>2. LadderInHand' /\ {pending_gaps', since'} \subseteq 0 .. DL_MAX_PENDING_GAPS
    <3>1. CASE GapDeferred(main.read)
      <4>1. pending_gaps' = main.read + 1 /\ since' = since + 1
        BY <1>4, <3>1 DEF StoreGap, dl_on_gap
      <4>2. main.read = since + revived
        BY <2>1, <3>1
      <4>3. main.read < DL_MAX_PENDING_GAPS /\ main.read \in Nat
            /\ since \in Nat /\ revived \in Nat
        BY <3>1
      <4>4. /\ pending_gaps' = since' + revived
            /\ {pending_gaps', since'} \subseteq 0 .. DL_MAX_PENDING_GAPS
        <5> HIDE DEF RtviInv, TypeOK, InHandSent, LadderInHand
        <5> QED BY <4>1, <4>2, <4>3
      <4> QED BY <2>1, <4>4
    <3>2. CASE ~GapDeferred(main.read)
      <4>1. pending_gaps' = pending_gaps /\ since' = since
        BY <1>4, <3>2 DEF StoreGap
      <4>2. pending_gaps = since + revived
        BY <2>1, <3>2
      <4> QED BY <2>1, <4>1, <4>2
    <3> QED BY <3>1, <3>2
  <2>3. TypeOK'
    BY <2>1, <2>2
  <2>4. InHandSent'
    BY <2>1
  <2> QED BY <2>2, <2>3, <2>4
<1>5. CASE StoreFrame
  BY <1>5 DEF StoreFrame
<1>6. CASE QueueReceive
  BY <1>6 DEF QueueReceive
<1>7. CASE HandlePing
  BY <1>7 DEF HandlePing
<1>8. CASE GuardReset
  BY <1>8 DEF GuardReset
<1>9. CASE ResetDecoder
  BY <1>9 DEF ResetDecoder, dl_init
<1>10. CASE SetPhase
  BY <1>10 DEF SetPhase, Phases, LedPhase
<1>11. CASE UNCHANGED vars
  BY <1>11 DEF vars
<1> QED
  BY <1>1, <1>2, <1>3, <1>4, <1>5, <1>6, <1>7, <1>8, <1>9, <1>10, <1>11 DEF Next

(* The inductive invariant of the queue, the task and the ladder. *)
THEOREM RtviInvariance == Spec => []RtviInv
<1> QED BY RtviInit, RtviStep, PTL DEF Spec

(* Every variable has its type, and the queue and the ladder their bounds. *)
THEOREM RtviTypeOK == Spec => []TypeOK
<1>1. RtviInv => TypeOK
  BY DEF RtviInv
<1> QED BY <1>1, RtviInvariance, PTL

(* For every cap of the ladder: a reset takes every deferred slot or, when a   *)
(* half-done deferral overtook it, none.                                      *)
THEOREM ResetTakesOrIsUndoneHolds == Spec => []ResetTakesOrIsUndone
<1>1. RtviInv => ResetTakesOrIsUndone
  BY DEF RtviInv, LadderInHand, ResetTakesOrIsUndone
<1> QED BY <1>1, RtviInvariance, PTL
-----------------------------------------------------------------------------
(* A message at either end of the queue. *)
LEMMA QueueBack ==
  ASSUME NEW S, NEW q \in Seq(S), NEW e \in S
  PROVE  Append(q, e) = q \o <<e>>
  OBVIOUS

LEMMA QueueFront ==
  ASSUME NEW S, NEW q \in Seq(S), NEW e \in S
  PROVE  /\ <<e>> \o q # <<>>
         /\ Head(<<e>> \o q) = e
         /\ Tail(<<e>> \o q) = q
  OBVIOUS

LEMMA FrontAndRest ==
  ASSUME NEW S, NEW q \in Seq(S), q # <<>>
  PROVE  <<Head(q)>> \o Tail(q) = q
  OBVIOUS

(* What the RTVI task, the queue and the WebRTC thread hold are sequences of   *)
(* messages.                                                                  *)
LEMMA PartsAreMessages ==
  ASSUME RtviInv
  PROVE  /\ InHand \in Seq(Message) /\ rtvi_queue \in Seq(Message)
         /\ Offered \in Seq(Message)
         /\ InHand \o rtvi_queue \in Seq(Message)
         /\ rtvi_queue \o Offered \in Seq(Message)
<1>1. InHand \in Seq(Message)
  BY DEF RtviInv, InHandSent, InHand
<1>2. Offered \in Seq(Message)
  BY DEF RtviInv, InHandSent, Offered
<1>3. rtvi_queue \in Seq(Message)
  BY DEF RtviInv, TypeOK
<1> QED BY <1>1, <1>2, <1>3, ConcatProperties

CommandsPending == InHand \o rtvi_queue \o Offered

(* A message is offered at the back. *)
LEMMA OfferTakes ==
  ASSUME RtviInv, NEW m \in Message, MessageArrives(m)
  PROVE  /\ CommandsPending' = Append(CommandsPending, m)
         /\ UNCHANGED g_server_phase
<1>1. InHand' = InHand /\ rtvi_queue' = rtvi_queue /\ Offered = <<>>
      /\ Offered' = <<m>>
  BY DEF MessageArrives, InHand, Offered, Idle, ladder
<1>2. CommandsPending = InHand \o rtvi_queue
  BY <1>1, PartsAreMessages, ConcatEmptySeq DEF CommandsPending
<1>3. CommandsPending' = (InHand \o rtvi_queue) \o <<m>>
  BY <1>1 DEF CommandsPending
<1> QED BY <1>2, <1>3, PartsAreMessages, QueueBack DEF MessageArrives, ladder

(* To queue it moves it within what is pending. *)
LEMMA SendMovesWithin ==
  ASSUME RtviInv, QueueSend
  PROVE  CommandsPending' = CommandsPending
<1>1. /\ InHand' = InHand /\ Offered = <<main.msg>> /\ Offered' = <<>>
      /\ rtvi_queue' = Append(rtvi_queue, main.msg) /\ main.msg \in Message
  BY DEF QueueSend, InHand, Offered, Idle, RtviInv, InHandSent
<1>2. rtvi_queue' = rtvi_queue \o Offered /\ rtvi_queue' \in Seq(Message)
  BY <1>1, PartsAreMessages, QueueBack
<1>3. CommandsPending' = InHand \o rtvi_queue'
  <2>1. InHand \o rtvi_queue' \in Seq(Message)
    BY <1>2, PartsAreMessages, ConcatProperties
  <2>2. CommandsPending' = (InHand \o rtvi_queue') \o <<>>
    BY <1>1 DEF CommandsPending
  <2> QED BY <2>1, <2>2, ConcatEmptySeq
<1>4. CommandsPending = InHand \o (rtvi_queue \o Offered)
  BY PartsAreMessages, ConcatAssociative DEF CommandsPending
<1> QED BY <1>2, <1>3, <1>4

(* So does the task when it takes it up. *)
LEMMA ReceiveMovesWithin ==
  ASSUME RtviInv, QueueReceive
  PROVE  CommandsPending' = CommandsPending
<1>1. /\ InHand = <<>> /\ InHand' = <<Head(rtvi_queue)>>
      /\ Offered' = Offered /\ rtvi_queue' = Tail(rtvi_queue)
      /\ rtvi_queue # <<>>
  BY DEF QueueReceive, InHand, Offered
<1>2. InHand' \o rtvi_queue' = rtvi_queue
  BY <1>1, PartsAreMessages, FrontAndRest
<1>3. InHand \o rtvi_queue = rtvi_queue
  BY <1>1, PartsAreMessages, ConcatEmptySeq
<1>4. (InHand \o rtvi_queue \o Offered)' = (InHand' \o rtvi_queue') \o Offered
  BY <1>1
<1> QED BY <1>2, <1>3, <1>4 DEF CommandsPending

(* A message that is done with was the first of those pending. *)
LEMMA DoneIsFirst ==
  ASSUME RtviInv, rtvi.step # "idle", rtvi'.step = "idle",
         UNCHANGED <<main, rtvi_queue>>
  PROVE  /\ CommandsPending # <<>> /\ Head(CommandsPending) = rtvi.msg
         /\ rtvi.msg \in Message
         /\ CommandsPending' = Tail(CommandsPending)
<1>1. /\ InHand = <<rtvi.msg>> /\ InHand' = <<>>
      /\ Offered' = Offered /\ rtvi.msg \in Message
  BY DEF InHand, Offered, RtviInv, InHandSent
<1> DEFINE rest == rtvi_queue \o Offered
<1>2. rest \in Seq(Message)
  BY PartsAreMessages
<1>3. CommandsPending = <<rtvi.msg>> \o rest
  BY <1>1, PartsAreMessages, ConcatAssociative DEF CommandsPending
<1>4. CommandsPending' = rest
  <2>1. <<>> \o rtvi_queue = rtvi_queue
    BY PartsAreMessages, ConcatEmptySeq
  <2> QED BY <1>1, <2>1 DEF CommandsPending
<1> HIDE DEF rest
<1> QED BY <1>1, <1>2, <1>3, <1>4, QueueFront

LEMMA CommandsInit == Init => Commands!Init
<1> SUFFICES ASSUME Init PROVE Commands!Init
  OBVIOUS
<1>1. InHand = <<>> /\ rtvi_queue = <<>> /\ Offered = <<>>
  BY DEF Init, InHand, Offered, Idle, AtRest
<1>2. CommandsPending = <<>>
  BY <1>1, EmptySeq, ConcatEmptySeq DEF CommandsPending
<1> QED BY <1>2 DEF Init, Commands!Init, CommandsPending

LEMMA CommandsStep ==
  RtviInv /\ [Next]_vars => [Commands!Next]_(Commands!vars)
<1> SUFFICES ASSUME RtviInv, [Next]_vars
             PROVE  [Commands!Next]_(Commands!vars)
  OBVIOUS
<1>a. ASSUME UNCHANGED <<CommandsPending, g_server_phase>>
      PROVE  UNCHANGED Commands!vars
  BY <1>a DEF Commands!vars, CommandsPending
<1>b. ASSUME CommandsPending # <<>>, CommandsPending' = Tail(CommandsPending),
             Head(CommandsPending) = rtvi.msg, rtvi.msg \in Message,
             g_server_phase' = IF LedPhase(rtvi.msg) = "none"
                               THEN g_server_phase ELSE LedPhase(rtvi.msg)
      PROVE  Commands!CarryOut
  BY <1>b DEF Commands!CarryOut, CommandsPending
<1>1. ASSUME NEW m \in Message, MessageArrives(m) PROVE Commands!Take(m)
  BY <1>1, OfferTakes DEF Commands!Take, CommandsPending
<1>2. CASE QueueSend
  BY <1>2, <1>a, SendMovesWithin DEF QueueSend
<1>3. ASSUME NEW step \in {"gap", "frame"}, LoadLadder(step)
      PROVE  UNCHANGED Commands!vars
  BY <1>3, <1>a DEF LoadLadder, CommandsPending, InHand, Offered, Idle
<1>4. CASE StoreGap
  BY <1>4, <1>a DEF StoreGap, CommandsPending, InHand, Offered, Idle
<1>5. CASE StoreFrame
  BY <1>5, <1>a DEF StoreFrame, CommandsPending, InHand, Offered, Idle
<1>6. CASE QueueReceive
  BY <1>6, <1>a, ReceiveMovesWithin DEF QueueReceive
<1>7. CASE HandlePing
  <2>1. LedPhase(rtvi.msg) = "none"
    BY <1>7 DEF HandlePing, LedPhase
  <2>2. /\ rtvi.step # "idle" /\ rtvi'.step = "idle"
        /\ UNCHANGED <<main, rtvi_queue, g_server_phase>>
    BY <1>7 DEF HandlePing, AtRest
  <2>3. Commands!CarryOut
    BY <2>1, <2>2, <1>b, DoneIsFirst
  <2> QED BY <2>3 DEF Commands!Next
<1>8. CASE GuardReset
  <2>1. UNCHANGED <<CommandsPending, g_server_phase>>
    BY <1>8 DEF GuardReset, CommandsPending, InHand, Offered, RtviInv, TypeOK
  <2> QED BY <2>1, <1>a
<1>9. CASE ResetDecoder
  <2>1. UNCHANGED <<CommandsPending, g_server_phase>>
    BY <1>9 DEF ResetDecoder, CommandsPending, InHand, Offered, RtviInv, TypeOK
  <2> QED BY <2>1, <1>a
<1>10. CASE SetPhase
  <2>1. /\ rtvi.step # "idle" /\ rtvi'.step = "idle"
        /\ UNCHANGED <<main, rtvi_queue>>
        /\ g_server_phase' = LedPhase(rtvi.msg) /\ rtvi.msg # "ping"
    BY <1>10 DEF SetPhase, AtRest, RtviInv, InHandSent
  <2>2. rtvi.msg \in Message
    BY <2>1 DEF RtviInv, InHandSent
  <2>3. LedPhase(rtvi.msg) # "none"
    BY <2>1, <2>2 DEF LedPhase
  <2>4. Commands!CarryOut
    BY <2>1, <2>3, <1>b, DoneIsFirst
  <2> QED BY <2>4 DEF Commands!Next
<1>11. CASE UNCHANGED vars
  BY <1>11, <1>a DEF vars, CommandsPending, InHand, Offered
<1> QED
  BY <1>1, <1>2, <1>3, <1>4, <1>5, <1>6, <1>7, <1>8, <1>9, <1>10, <1>11
     DEF Next, Commands!Next

(* For every set of messages and size of the queue: whatever the device does   *)
(* with a message it has taken is a step of ServerCommands, in order and each  *)
(* message once.  That every message is carried out in the end is left to TLC.  *)
THEOREM CommandsAreImplemented ==
  Spec => Commands!Init /\ [][Commands!Next]_(Commands!vars)
<1> QED BY CommandsInit, CommandsStep, RtviInvariance, PTL DEF Spec
=============================================================================
