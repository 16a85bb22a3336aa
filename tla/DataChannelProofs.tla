-------------------------- MODULE DataChannelProofs --------------------------
(***************************************************************************)
(* For every number of messages, size of the queue and bound of the network: *)
(* what an acknowledgement of the device stands for, and when its packets    *)
(* are whole.                                                               *)
(***************************************************************************)
EXTENDS DataChannelProps, TLAPS

USE DataChannelAssumption

(* An acknowledgement is of a message handed over, or about to be by the       *)
(* thread that built it.                                                      *)
SackInv ==
  /\ \A p \in toServer : p.kind = "SACK" => p.n \in delivered
  /\ buf.body.kind = "SACK" =>
       \/ buf.body.n \in delivered
       \/ main.step = "deliver" /\ main.reply = buf.body
  /\ main.step = "deliver" => main.reply.kind = "SACK" /\ main.reply.n \in Messages
  /\ acked > 0 => \E m \in delivered : m >= acked

(* What a thread has built is in the buffer until another thread writes to it. *)
BufferInv ==
  /\ "rtvi" \notin spoilt =>
       /\ rtvi = "seal" => buf.body = Chunk("PONG", 0)
       /\ rtvi = "write" => Whole("data")
  /\ "main" \notin spoilt =>
       /\ main.step \in {"deliver", "seal"} =>
            main.reply.kind \in {"COOKIE_ACK", "none"} \/ buf.body = main.reply
       /\ main.step = "sealOpen" => buf.body = Chunk("OPEN", 0)
       /\ main.step = "writeOpen" => Whole("data")
       /\ main.step = "write" /\ main.reply.kind # "COOKIE_ACK" =>
            Whole(main.reply.kind)
  /\ main.step \in {"open", "sealOpen", "writeOpen"} =>
       main.reply.kind \in {"COOKIE_ACK", "none"}
  /\ main.reply.kind \in {"none", "SACK", "INIT_ACK", "COOKIE_ECHO", "COOKIE_ACK"}
  /\ main.reply.kind = "none" => main.reply = Nothing

DataChannelInv == TypeOK /\ SackInv /\ BufferInv
-----------------------------------------------------------------------------
(* What the device answers is no data and, to data, its acknowledgement. *)
LEMMA ReplyFacts ==
  ASSUME NEW p \in Chunks \cup {Data(n) : n \in Messages}
  PROVE  /\ Reply(p) \in Chunks
         /\ Reply(p).kind \in {"none", "SACK", "INIT_ACK", "COOKIE_ECHO",
                               "COOKIE_ACK"}
         /\ Reply(p).kind = "none" => Reply(p) = Nothing
         /\ p.kind = "DATA" <=> Reply(p).kind = "SACK"
         /\ p.kind = "DATA" => p.n \in Messages /\ Reply(p).n = p.n
         /\ Establishes(p) => Reply(p).kind \in {"COOKIE_ACK", "none"}
         /\ Establishes(p) => p.kind # "DATA"
<1>1. CASE p \in Chunks
  BY <1>1 DEF Reply, Chunks, Chunk, Nothing, Establishes
<1>2. CASE p \in {Data(n) : n \in Messages}
  <2>1. PICK n \in Messages : p = [kind |-> "DATA", n |-> n]
    BY <1>2 DEF Data, Chunk
  <2>2. Reply(p) = [kind |-> "SACK", n |-> n]
    BY <2>1 DEF Reply, Chunk
  <2>3. Reply(p) \in Chunks
    BY <2>2 DEF Chunks, Chunk
  <2> QED BY <2>1, <2>2, <2>3 DEF Establishes
<1> QED BY <1>1, <1>2

LEMMA ChunksTyped ==
  /\ Nothing \in Chunks /\ Chunk("OPEN", 0) \in Chunks
  /\ Chunk("PONG", 0) \in Chunks /\ Chunk("INIT", 0) \in Chunks
BY DEF Chunks, Chunk, Nothing

LEMMA DataChannelInit == Init => DataChannelInv
<1> SUFFICES ASSUME Init PROVE DataChannelInv
  OBVIOUS
<1> USE DEF Init
<1>1. buf \in Buffers
  BY ChunksTyped DEF Unused, Buffers
<1>2. toServer \subseteq Chunks
  BY ChunksTyped
<1>3. pending \in Seq({"ping"}) /\ Len(pending) <= QueueSize + 1
  OBVIOUS
<1>4. acked \in 0 .. sent /\ sent \in 0 .. MaxMessages
  OBVIOUS
<1>5. TypeOK
  BY <1>1, <1>2, <1>3, <1>4, ChunksTyped DEF TypeOK
<1>6. SackInv /\ BufferInv
  BY DEF SackInv, BufferInv, Unused, Nothing, Chunk
<1> QED BY <1>5, <1>6 DEF DataChannelInv

(* What the two threads do to the buffer and to each other's packet *)
LEMMA ComposeTyped ==
  ASSUME NEW body \in Chunks, Compose(body)
  PROVE  buf' \in Buffers /\ buf'.body = body
BY DEF Compose, Buffers

LEMMA SealedTyped ==
  ASSUME buf \in Buffers, NEW size \in Sizes, Sealed(size)
  PROVE  /\ buf' \in Buffers
         /\ buf'.body = buf.body
         /\ Size(buf.body) = size => Whole(size)'
<1>1. buf' = [body |-> buf.body, sum |-> [body |-> buf.body, size |-> size]]
  BY DEF Sealed, Buffers
<1> QED BY <1>1 DEF Whole, Buffers, Size, Outgoing

LEMMA WrittenTyped ==
  ASSUME TypeOK, NEW thread \in {"main", "rtvi"}, NEW size,
         Written(thread, size)
  PROVE  /\ buf' \in Buffers /\ buf' \in {buf, Unused}
         /\ Building(Other(thread)) => buf' = buf
         /\ setupLost' \in BOOLEAN
         /\ spoilt' = spoilt \ {thread}
         /\ toServer' \subseteq Chunks
         /\ \A p \in toServer' : p \in toServer \/ (p = buf.body /\ Whole(size))
<1>1. Unused \in Buffers
  BY ChunksTyped DEF Unused, Buffers
<1>2. buf.body \in Chunks
  BY DEF TypeOK, Buffers
<1>3. setupLost' \in BOOLEAN
  BY DEF Written, LostOnTheWay, TypeOK
<1> QED BY <1>1, <1>2, <1>3 DEF Written, TypeOK
-----------------------------------------------------------------------------
LEMMA ReceiveStep ==
  ASSUME DataChannelInv, NEW p \in toDevice, Receive(p)
  PROVE  DataChannelInv'
<1> USE DEF DataChannelInv
<1>1. p \in Chunks \cup {Data(n) : n \in Messages}
  BY DEF Receive, TypeOK
<1>2. buf' \in Buffers /\ buf'.body = Reply(p)
  BY <1>1, ReplyFacts, ComposeTyped DEF Receive
<1>3. /\ main'.reply = Reply(p)
      /\ main'.step \in {"deliver", "open", "seal"}
      /\ main'.step = "deliver" => p.kind = "DATA"
      /\ main'.step = "open" => Establishes(p)
      /\ main' \in [step : {"idle", "deliver", "open", "sealOpen", "writeOpen",
                            "seal", "write"}, reply : Chunks]
  BY <1>1, ReplyFacts DEF Receive
<1>4. delivered' \subseteq Messages /\ delivered \subseteq delivered'
  BY <1>1, ReplyFacts DEF Receive, TypeOK
<1>5. main'.step = "seal" /\ p.kind = "DATA" => p.n \in delivered'
  BY <1>1, ReplyFacts DEF Receive
<1>6. TypeOK'
  BY <1>2, <1>3, <1>4 DEF TypeOK, Receive, Spoils, Other, server
<1>7. SackInv'
  BY <1>1, <1>2, <1>3, <1>4, <1>5, ReplyFacts DEF SackInv, Receive, server
<1>8. BufferInv'
  BY <1>1, <1>2, <1>3, ReplyFacts
     DEF BufferInv, Receive, Spoils, Other, Building, TypeOK
<1> QED BY <1>6, <1>7, <1>8

LEMMA DeliverStep == ASSUME DataChannelInv, Deliver PROVE DataChannelInv'
<1> USE DEF DataChannelInv
<1>1. main.reply.kind = "SACK" /\ main.reply.n \in Messages
  BY DEF Deliver, SackInv
<1>2. main'.reply = main.reply /\ main'.step = "seal"
      /\ main' \in [step : {"idle", "deliver", "open", "sealOpen", "writeOpen",
                            "seal", "write"}, reply : Chunks]
  BY DEF Deliver, MainStep, TypeOK
<1>3. pending' \in Seq({"ping"}) /\ Len(pending') <= QueueSize + 1
  BY DEF Deliver, Inbox!Take, TypeOK
<1>4. TypeOK'
  BY <1>1, <1>2, <1>3 DEF TypeOK, Deliver, OnlyMain, server
<1>5. SackInv'
  BY <1>1, <1>2 DEF SackInv, Deliver, OnlyMain, server
<1>6. BufferInv'
  BY <1>2 DEF BufferInv, Deliver, OnlyMain, Whole
<1> QED BY <1>4, <1>5, <1>6

LEMMA OpenStep == ASSUME DataChannelInv, Open PROVE DataChannelInv'
<1> USE DEF DataChannelInv
<1>1. main'.reply = main.reply /\ main'.step = "sealOpen"
      /\ main' \in [step : {"idle", "deliver", "open", "sealOpen", "writeOpen",
                            "seal", "write"}, reply : Chunks]
  BY DEF Open, MainStep, TypeOK
<1>2. buf' \in Buffers /\ buf'.body = Chunk("OPEN", 0)
  BY ChunksTyped, ComposeTyped DEF Open
<1>3. TypeOK'
  BY <1>1, <1>2 DEF TypeOK, Open, OnlyMain, server, history, StillSpoils, Other
<1>4. SackInv'
  BY <1>1, <1>2 DEF SackInv, Open, OnlyMain, server, history, Chunk
<1>5. BufferInv'
  BY <1>1, <1>2
     DEF BufferInv, Open, OnlyMain, StillSpoils, Other, Building, TypeOK
<1> QED BY <1>3, <1>4, <1>5

LEMMA SealOpenStep == ASSUME DataChannelInv, SealOpen PROVE DataChannelInv'
<1> USE DEF DataChannelInv
<1>1. main'.reply = main.reply /\ main'.step = "writeOpen"
      /\ main' \in [step : {"idle", "deliver", "open", "sealOpen", "writeOpen",
                            "seal", "write"}, reply : Chunks]
  BY DEF SealOpen, MainStep, TypeOK
<1>2. /\ buf' \in Buffers /\ buf'.body = buf.body
      /\ Size(buf.body) = "data" => Whole("data")'
  BY SealedTyped DEF SealOpen, TypeOK, Sizes
<1>3. TypeOK'
  BY <1>1, <1>2
     DEF TypeOK, SealOpen, OnlyMain, server, history, StillSpoils, Other
<1>4. SackInv'
  BY <1>1, <1>2 DEF SackInv, SealOpen, OnlyMain, server, history
<1>5. "main" \notin spoilt => Whole("data")'
  BY <1>2 DEF BufferInv, SealOpen, Size, Outgoing, Chunk
<1>6. BufferInv'
  BY <1>1, <1>5
     DEF BufferInv, SealOpen, OnlyMain, StillSpoils, Other, Building, TypeOK
<1> QED BY <1>3, <1>4, <1>6

LEMMA WriteOpenStep == ASSUME DataChannelInv, WriteOpen PROVE DataChannelInv'
<1> USE DEF DataChannelInv
<1>1. main'.reply = main.reply /\ main'.step = "seal"
      /\ main' \in [step : {"idle", "deliver", "open", "sealOpen", "writeOpen",
                            "seal", "write"}, reply : Chunks]
  BY DEF WriteOpen, MainStep, TypeOK
<1>2. /\ buf' = buf /\ setupLost' \in BOOLEAN
      /\ spoilt' = spoilt \ {"main"} /\ toServer' \subseteq Chunks
      /\ \A p \in toServer' : p \in toServer \/ (p = buf.body /\ Whole("data"))
  <2>1. buf' = buf
    BY DEF WriteOpen, Written
  <2> QED BY <2>1, WrittenTyped DEF WriteOpen
<1>3. TypeOK'
  BY <1>1, <1>2 DEF TypeOK, WriteOpen, OnlyMain, server
<1>4. SackInv'
  BY <1>1, <1>2
     DEF SackInv, WriteOpen, OnlyMain, server, Whole, Size, Outgoing
<1>5. BufferInv'
  BY <1>1, <1>2 DEF BufferInv, WriteOpen, OnlyMain, Whole
<1> QED BY <1>3, <1>4, <1>5

LEMMA SealStep == ASSUME DataChannelInv, Seal PROVE DataChannelInv'
<1> USE DEF DataChannelInv
<1>1. main'.reply = main.reply
      /\ main' \in [step : {"idle", "deliver", "open", "sealOpen", "writeOpen",
                            "seal", "write"}, reply : Chunks]
  BY DEF Seal, MainStep, TypeOK
<1>2. CASE main.reply = Nothing
  <2>1. main'.step = "idle"
    BY <1>2 DEF Seal, MainStep, TypeOK
  <2>2. buf' \in Buffers
    BY <1>2, ChunksTyped DEF Seal, Unused, Buffers, TypeOK
  <2>3. buf'.body = buf.body \/ buf'.body = Nothing
    BY <1>2 DEF Seal, Unused, Buffers, TypeOK
  <2>4. TypeOK'
    BY <1>1, <1>2, <2>1, <2>2
       DEF TypeOK, Seal, OnlyMain, server, history, Spoils, Other
  <2>5. SackInv'
    BY <1>1, <1>2, <2>1, <2>3
       DEF SackInv, Seal, OnlyMain, server, history, Nothing, Chunk
  <2>6. BufferInv'
    BY <1>1, <1>2, <2>1
       DEF BufferInv, Seal, OnlyMain, Spoils, Other, Building, TypeOK
  <2> QED BY <2>4, <2>5, <2>6
<1>3. CASE main.reply # Nothing
  <2>1. main'.step = "write"
    BY <1>3 DEF Seal, MainStep, TypeOK
  <2>2. main.reply.kind \in {"SACK", "INIT_ACK", "COOKIE_ECHO", "COOKIE_ACK"}
        /\ Size(main.reply) = main.reply.kind
    BY <1>3 DEF BufferInv, Size, Outgoing
  <2>3. /\ buf' \in Buffers /\ buf'.body = buf.body
        /\ Size(buf.body) = Size(main.reply) => Whole(main.reply.kind)'
    BY <1>1, <1>3, <2>2, SealedTyped DEF Seal, TypeOK, Sizes, Whole
  <2>4. TypeOK'
    BY <1>1, <1>3, <2>1, <2>3
       DEF TypeOK, Seal, OnlyMain, server, history, StillSpoils, Other
  <2>5. SackInv'
    BY <1>1, <2>1, <2>3 DEF SackInv, Seal, OnlyMain, server, history
  <2>6. "main" \notin spoilt /\ main.reply.kind # "COOKIE_ACK"
          => Whole(main.reply.kind)'
    BY <2>2, <2>3 DEF BufferInv, Seal
  <2>7. BufferInv'
    BY <1>1, <1>3, <2>1, <2>6
       DEF BufferInv, Seal, OnlyMain, StillSpoils, Other, Building, TypeOK, Whole
  <2> QED BY <2>4, <2>5, <2>7
<1> QED BY <1>2, <1>3

LEMMA WriteStep == ASSUME DataChannelInv, Write PROVE DataChannelInv'
<1> USE DEF DataChannelInv
<1>1. main' = [step |-> "idle", reply |-> Nothing]
  BY DEF Write
<1>2. /\ buf' \in Buffers /\ buf' \in {buf, Unused} /\ setupLost' \in BOOLEAN
      /\ Building("rtvi") => buf' = buf
      /\ spoilt' = spoilt \ {"main"} /\ toServer' \subseteq Chunks
      /\ \A p \in toServer' : p \in toServer \/ p = buf.body
  BY WrittenTyped DEF Write, Other
<1>3. TypeOK'
  BY <1>1, <1>2, ChunksTyped DEF TypeOK, Write, OnlyMain, server
<1>4. SackInv'
  BY <1>1, <1>2
     DEF SackInv, Write, OnlyMain, server, Unused, Nothing, Chunk
<1>5. BufferInv'
  BY <1>1, <1>2
     DEF BufferInv, Write, OnlyMain, Building, Nothing, Chunk, Whole
<1> QED BY <1>3, <1>4, <1>5

LEMMA ComposePongStep == ASSUME DataChannelInv, ComposePong PROVE DataChannelInv'
<1> USE DEF DataChannelInv
<1>1. buf' \in Buffers /\ buf'.body = Chunk("PONG", 0)
  BY ChunksTyped, ComposeTyped DEF ComposePong
<1>2. TypeOK'
  BY <1>1 DEF TypeOK, ComposePong, OnlyRtvi, server, Spoils, Other
<1>3. SackInv'
  BY <1>1 DEF SackInv, ComposePong, OnlyRtvi, server, Chunk
<1>4. BufferInv'
  BY <1>1 DEF BufferInv, ComposePong, OnlyRtvi, Spoils, Other, Building, TypeOK
<1> QED BY <1>2, <1>3, <1>4

LEMMA SealPongStep == ASSUME DataChannelInv, SealPong PROVE DataChannelInv'
<1> USE DEF DataChannelInv
<1>1. /\ buf' \in Buffers /\ buf'.body = buf.body
      /\ Size(buf.body) = "data" => Whole("data")'
  BY SealedTyped DEF SealPong, TypeOK, Sizes
<1>2. "rtvi" \notin spoilt => Whole("data")'
  BY <1>1 DEF BufferInv, SealPong, Size, Outgoing, Chunk
<1>3. TypeOK'
  BY <1>1 DEF TypeOK, SealPong, OnlyRtvi, server, StillSpoils, Other
<1>4. SackInv'
  BY <1>1 DEF SackInv, SealPong, OnlyRtvi, server
<1>5. BufferInv'
  BY <1>2 DEF BufferInv, SealPong, OnlyRtvi, StillSpoils, Other, Building, TypeOK
<1> QED BY <1>3, <1>4, <1>5

LEMMA WritePongStep == ASSUME DataChannelInv, WritePong PROVE DataChannelInv'
<1> USE DEF DataChannelInv
<1>1. /\ buf' \in Buffers /\ buf' \in {buf, Unused} /\ setupLost' \in BOOLEAN
      /\ Building("main") => buf' = buf
      /\ spoilt' = spoilt \ {"rtvi"} /\ toServer' \subseteq Chunks
      /\ \A p \in toServer' : p \in toServer \/ (p = buf.body /\ Whole("data"))
  BY WrittenTyped DEF WritePong, Other
<1>2. pending' \in Seq({"ping"}) /\ Len(pending') <= QueueSize + 1
  BY DEF WritePong, Inbox!CarryOut, TypeOK
<1>3. TypeOK'
  BY <1>1, <1>2 DEF TypeOK, WritePong, OnlyRtvi, server
<1>4. SackInv'
  BY <1>1 DEF SackInv, WritePong, OnlyRtvi, server, Whole, Size, Outgoing,
              Unused, Nothing, Chunk
<1>5. BufferInv'
  BY <1>1 DEF BufferInv, WritePong, OnlyRtvi, Building, Whole, TypeOK
<1> QED BY <1>3, <1>4, <1>5

LEMMA SilentStep == ASSUME DataChannelInv, HandleSilently PROVE DataChannelInv'
<1> USE DEF DataChannelInv
<1>1. pending' \in Seq({"ping"}) /\ Len(pending') <= QueueSize + 1
  BY DEF HandleSilently, Inbox!CarryOut, TypeOK
<1>2. TypeOK'
  BY <1>1 DEF TypeOK, HandleSilently, OnlyRtvi, server
<1>3. SackInv' /\ BufferInv'
  BY DEF SackInv, BufferInv, HandleSilently, OnlyRtvi, server, Whole
<1> QED BY <1>2, <1>3

(* What the server does leaves the device's half alone but for the packets. *)
LEMMA ServerStep ==
  ASSUME DataChannelInv, UNCHANGED <<device, delivered, spoilt>>,
         toServer' \subseteq toServer,
         toDevice' \subseteq toDevice \cup Chunks \cup {Data(n) : n \in Messages},
         initiates' \in BOOLEAN, channel' \in BOOLEAN, setupLost' \in BOOLEAN,
         assoc' \in {"closed", "echoed", "open", "aborted"},
         sent' \in 0 .. MaxMessages, acked' \in 0 .. sent',
         acked' # acked => Chunk("SACK", acked') \in toServer
  PROVE  DataChannelInv'
<1> USE DEF DataChannelInv
<1>1. TypeOK'
  BY DEF TypeOK, device
<1>2. SackInv'
  <2>1. acked' > 0 => \E m \in delivered : m >= acked'
    <3>1. CASE acked' = acked
      BY <3>1 DEF SackInv
    <3>2. CASE acked' # acked
      <4>1. acked' \in delivered
        BY <3>2 DEF SackInv, Chunk
      <4> QED BY <4>1 DEF TypeOK, Messages
    <3> QED BY <3>1, <3>2
  <2> QED BY <2>1 DEF SackInv, device
<1>3. BufferInv'
  BY DEF BufferInv, device, Whole
<1> QED BY <1>1, <1>2, <1>3

LEMMA ServerSteps ==
  ASSUME DataChannelInv,
         \/ Retransmit \/ HearsHandshake \/ HearsOpen \/ SendsSack
         \/ \E n \in Messages : HearsSack(n)
         \/ SendMessage \/ (\E n \in Messages : Resend(n)) \/ Abort
  PROVE  DataChannelInv'
<1>1. DataChannelInv /\ TypeOK
  BY DEF DataChannelInv
<1>2. \A kind \in {"INIT", "COOKIE_ECHO", "INIT_ACK", "COOKIE_ACK", "SACK", "ABORT"} :
        Chunk(kind, 0) \in Chunks
  BY DEF Chunks
<1> USE <1>1 DEF TypeOK
<1>3. CASE Retransmit
  BY <1>2, <1>3, ServerStep DEF Retransmit, Arrives, OnlyServer
<1>4. CASE HearsHandshake
  BY <1>2, <1>4, ServerStep
     DEF HearsHandshake, Hears, ToDevice, Arrives, LostOnTheWay, OnlyServer
<1>5. CASE HearsOpen
  BY <1>5, ServerStep DEF HearsOpen, Hears, OnlyServer
<1>6. CASE SendsSack
  BY <1>2, <1>6, ServerStep DEF SendsSack, Arrives, OnlyServer
<1>7. CASE \E n \in Messages : HearsSack(n)
  <2>1. PICK n \in Messages : HearsSack(n)
    BY <1>7
  <2>2. channel' \in BOOLEAN
    BY <2>1 DEF HearsSack, Control
  <2>3. acked' \in 0 .. sent
    BY <2>1 DEF HearsSack, Messages
  <2>4. acked' # acked => acked' = n
    BY <2>1 DEF HearsSack
  <2> QED BY <2>1, <2>2, <2>3, <2>4, ServerStep DEF HearsSack, Hears, OnlyServer
<1>8. CASE SendMessage
  <2>1. sent' \in Messages /\ acked' \in 0 .. sent' /\ sent' \in 0 .. MaxMessages
    BY <1>8, DataChannelAssumption DEF SendMessage, OnlyServer, Messages
  <2> QED BY <1>8, <2>1, ServerStep
             DEF SendMessage, ToDevice, Arrives, LostOnTheWay, OnlyServer
<1>9. CASE \E n \in Messages : Resend(n)
  BY <1>9, ServerStep DEF Resend, Arrives, OnlyServer
<1>10. CASE Abort
  BY <1>2, <1>10, ServerStep DEF Abort, ToDevice, Arrives, LostOnTheWay, OnlyServer
<1> QED BY <1>3, <1>4, <1>5, <1>6, <1>7, <1>8, <1>9, <1>10

LEMMA DataChannelStep == DataChannelInv /\ [Next]_vars => DataChannelInv'
<1> SUFFICES ASSUME DataChannelInv, [Next]_vars PROVE DataChannelInv'
  OBVIOUS
<1>1. CASE \E p \in toDevice : Receive(p)
  BY <1>1, ReceiveStep
<1>2. CASE WebRtcThread
  BY <1>2, DeliverStep, OpenStep, SealOpenStep, WriteOpenStep, SealStep, WriteStep
     DEF WebRtcThread
<1>3. CASE RtviTask
  BY <1>3, ComposePongStep, SealPongStep, WritePongStep, SilentStep DEF RtviTask
<1>4. CASE UNCHANGED vars
  BY <1>4 DEF vars, device, server, history, DataChannelInv, TypeOK, SackInv,
              BufferInv, Whole
<1> QED BY <1>1, <1>2, <1>3, <1>4, ServerSteps DEF Next
-----------------------------------------------------------------------------
(* In every state: types, what acknowledgements stand for, and whose packet    *)
(* sctp->buf holds, at every interleaving of the two threads that build in it. *)
THEOREM DataChannelInvariance == Spec => []DataChannelInv
BY DataChannelInit, DataChannelStep, PTL DEF Spec

(* Types of all variables, and the bound of the RTVI queue. *)
THEOREM DataChannelTypeOK == Spec => []TypeOK
<1>1. DataChannelInv => TypeOK
  BY DEF DataChannelInv
<1> QED BY <1>1, DataChannelInvariance, PTL

(* sctp_incoming_data acknowledges what it has handed over, or handed over     *)
(* later: for any number of messages and packets on the way.                   *)
THEOREM LostOnlyByOvertakingHolds == Spec => []LostOnlyByOvertaking
<1>1. DataChannelInv => LostOnlyByOvertaking
  <2> SUFFICES ASSUME DataChannelInv, NEW n \in 1 .. acked
               PROVE  \E m \in delivered : m >= n
    BY DEF LostOnlyByOvertaking
  <2>1. acked \in Nat /\ delivered \subseteq Nat /\ acked >= n /\ n \in Nat
    BY DEF DataChannelInv, TypeOK, Messages
  <2>2. PICK m \in delivered : m >= acked
    BY <2>1 DEF DataChannelInv, SackInv
  <2> QED BY <2>1, <2>2
<1> QED BY <1>1, DataChannelInvariance, PTL

(* sctp_outgoing_data and sctp_incoming_data write what they built, unless the *)
(* other task was in sctp->buf: at every interleaving of their steps.          *)
THEOREM WholeUnlessSharedHolds == Spec => []WholeUnlessShared
<1>1. DataChannelInv => WholeUnlessShared
  BY DEF DataChannelInv, BufferInv, WholeUnlessShared
<1> QED BY <1>1, DataChannelInvariance, PTL
=============================================================================
