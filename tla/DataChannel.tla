----------------------------- MODULE DataChannel -----------------------------
(***************************************************************************)
(* The data channel of one connection: libpeer's SCTP (libpeer/src/sctp.c,   *)
(* without usrsctp), its callbacks (peer_connection.c, src/webrtc.cpp) and   *)
(* the answers of the RTVI task (src/rtvi.cpp).  Both the WebRTC thread and  *)
(* the RTVI task build their packets in sctp->buf.  The device sends every  *)
(* packet once; the server, an SCTP endpoint of the RFC, is external.  The   *)
(* network loses and reorders; DTLS drops its duplicates.  What becomes of   *)
(* a message once it is queued is ServerCommands, which Rtvi implements.     *)
(***************************************************************************)
EXTENDS Integers, Sequences, FiniteSets

CONSTANTS
  MaxMessages,   \* messages the server sends
  QueueSize,     \* of the RTVI queue, 10
  MaxInFlight    \* packets on the way to the server

ASSUME DataChannelAssumption == {MaxMessages, QueueSize, MaxInFlight} \subseteq Nat \ {0}

Messages == 1 .. MaxMessages

Chunk(kind, n) == [kind |-> kind, n |-> n]
Data(n) == Chunk("DATA", n)
Handshake(p) == p.kind \in {"INIT", "INIT_ACK", "COOKIE_ECHO", "COOKIE_ACK"}
Nothing == Chunk("none", 0)
Unused == [body |-> Nothing, sum |-> Nothing]

VARIABLES
  \* the device
  connected,
  buf,           \* sctp->buf: [body, sum], the checksum and what it is of
  main,          \* the WebRTC thread: [step, reply]
  rtvi,          \* what the RTVI task does with its packet
  pending,       \* messages queued for the RTVI task, its own included
  \* the network
  toDevice, toServer,
  \* the server
  initiates,     \* it opens the association and the channel
  assoc, channel, sent, acked,
  \* ghosts
  delivered,     \* messages handed to the RTVI task
  spoilt,        \* threads whose packet another one has written to
  setupLost      \* a packet of the device's handshake was lost

device == <<connected, buf, main, rtvi, pending>>
server == <<initiates, assoc, channel, sent, acked>>
history == <<delivered, setupLost>>
vars == <<device, toDevice, toServer, server, history, spoilt>>

Inbox ==
  INSTANCE ServerCommands WITH
    Command <- {"ping"}, Phase <- {}, NoPhase <- "none",
    PhaseOf <- [c \in {"ping"} |-> "none"], phase <- "none"

(* sctp_create_association has sent the one INIT of the device; a server that  *)
(* initiates is one it did not reach.                                         *)
Init ==
  /\ connected = FALSE
  /\ buf = Unused
  /\ main = [step |-> "idle", reply |-> Nothing]
  /\ rtvi = "idle" /\ pending = <<>>
  /\ initiates \in BOOLEAN
  /\ toDevice = {}
  /\ toServer = IF initiates THEN {} ELSE {Chunk("INIT", 0)}
  /\ assoc = "closed" /\ channel = FALSE /\ sent = 0 /\ acked = 0
  /\ delivered = {} /\ spoilt = {} /\ setupLost = FALSE
-----------------------------------------------------------------------------
(* Building a packet in sctp->buf: its chunk without a checksum, the checksum *)
(* over the packet's length, the write.  What is in the buffer by then goes   *)
(* out; the server only takes it if checksum and length fit.                  *)
Outgoing(body) == body.kind \in {"OPEN", "PONG"}
Size(body) == IF Outgoing(body) THEN "data" ELSE body.kind

Other(thread) == IF thread = "main" THEN "rtvi" ELSE "main"

Building(thread) ==
  IF thread = "main" THEN main.step # "idle" ELSE rtvi \in {"seal", "write"}

Spoils(thread) ==
  spoilt' = (spoilt \ {thread}) \cup
            (IF Building(Other(thread)) THEN {Other(thread)} ELSE {})

StillSpoils(thread) ==
  spoilt' = spoilt \cup (IF Building(Other(thread)) THEN {Other(thread)} ELSE {})

Compose(body) == buf' = [body |-> body, sum |-> Nothing]
Sealed(size) == buf' = [buf EXCEPT !.sum = [body |-> buf.body, size |-> size]]

Whole(size) ==
  /\ buf.sum = [body |-> buf.body, size |-> size]
  /\ Size(buf.body) = size

LostOnTheWay == setupLost' = (setupLost \/ ~(channel \/ initiates))

(* What stays in the buffer that nobody builds in is built over and not kept.  *)
(* The server's application takes the pong; the association does not miss it.  *)
Written(thread, size) ==
  /\ spoilt' = spoilt \ {thread}
  /\ buf' = IF Building(Other(thread)) \/ main.step = "writeOpen" THEN buf
            ELSE Unused
  /\ IF Whole(size) /\ buf.body.kind # "PONG" /\ assoc # "aborted"
     THEN \/ /\ Cardinality(toServer) < MaxInFlight
             /\ toServer' = toServer \cup {buf.body} /\ UNCHANGED setupLost
          \/ UNCHANGED toServer /\ LostOnTheWay
     ELSE UNCHANGED <<toServer, setupLost>>
-----------------------------------------------------------------------------
(* sctp_incoming_data, of a packet whose checksum is right *)
Control(n) == initiates /\ n = 1     \* DATA_CHANNEL_OPEN

(* Mutant: the TSN expected next is acknowledged. *)
Reply_Next(p) ==
  CASE p.kind = "DATA" -> Chunk("SACK", p.n + 1)
    [] p.kind = "INIT" -> Chunk("INIT_ACK", 0)
    [] p.kind = "INIT_ACK" -> Chunk("COOKIE_ECHO", 0)
    [] p.kind = "COOKIE_ECHO" -> Chunk("COOKIE_ACK", 0)
    [] OTHER -> Nothing

Reply(p) ==
  CASE p.kind = "DATA" -> Chunk("SACK", p.n)
    [] p.kind = "INIT" -> Chunk("INIT_ACK", 0)
    [] p.kind = "INIT_ACK" -> Chunk("COOKIE_ECHO", 0)
    [] p.kind = "COOKIE_ECHO" -> Chunk("COOKIE_ACK", 0)
    [] OTHER -> Nothing

(* Mutant: only the answer to the server's own handshake opens the channel. *)
Establishes_Echo(p) == p.kind = "COOKIE_ECHO"

Establishes(p) == p.kind \in {"COOKIE_ECHO", "COOKIE_ACK"}

Receive(p) ==
  /\ main.step = "idle" /\ p \in toDevice
  /\ toDevice' = toDevice \ {p}
  /\ Compose(Reply(p))
  /\ Spoils("main")
  /\ connected' = CASE Establishes(p) -> TRUE
                    [] p.kind = "ABORT" -> FALSE
                    [] OTHER -> connected
  /\ main' = [reply |-> Reply(p),
              step |-> IF p.kind = "DATA" /\ ~Control(p.n) THEN "deliver"
                       ELSE IF Establishes(p) /\ ~connected THEN "open"
                       ELSE "seal"]
  /\ delivered' = IF p.kind = "DATA" /\ Control(p.n) THEN delivered \cup {p.n}
                  ELSE delivered
  /\ UNCHANGED <<rtvi, pending, toServer, server, setupLost>>

MainStep(step) == main' = [main EXCEPT !.step = step]
OnlyMain == UNCHANGED <<connected, rtvi, toDevice, server>>

(* Mutant: a full queue drops the message. *)
Deliver_NoWait ==
  /\ main.step = "deliver"
  /\ IF Len(pending) <= QueueSize
     THEN Inbox!Take("ping") ELSE UNCHANGED pending
  /\ delivered' = IF pending' = pending THEN delivered
                  ELSE delivered \cup {main.reply.n}
  /\ MainStep("seal")
  /\ OnlyMain /\ UNCHANGED <<buf, spoilt, toServer, setupLost>>

(* onmessage, which waits for room in the queue *)
Deliver ==
  /\ main.step = "deliver" /\ Len(pending) <= QueueSize
  /\ Inbox!Take("ping")
  /\ delivered' = delivered \cup {main.reply.n}
  /\ MainStep("seal")
  /\ OnlyMain /\ UNCHANGED <<buf, spoilt, toServer, setupLost>>

(* onopen: DATA_CHANNEL_OPEN is built over the reply *)
Open ==
  /\ main.step = "open"
  /\ Compose(Chunk("OPEN", 0)) /\ StillSpoils("main")
  /\ MainStep("sealOpen")
  /\ OnlyMain /\ UNCHANGED <<pending, toServer, history>>

SealOpen ==
  /\ main.step = "sealOpen"
  /\ Sealed("data") /\ StillSpoils("main")
  /\ MainStep("writeOpen")
  /\ OnlyMain /\ UNCHANGED <<pending, toServer, history>>

WriteOpen ==
  /\ main.step = "writeOpen"
  /\ Written("main", "data")
  /\ MainStep("seal")
  /\ OnlyMain /\ UNCHANGED <<pending, delivered>>

(* The header; without a reply its checksum stays zero and nothing is sent. *)
Seal ==
  /\ main.step = "seal"
  /\ IF main.reply = Nothing
     THEN /\ buf' = IF Building("rtvi") THEN [buf EXCEPT !.sum = Nothing]
                    ELSE Unused
          /\ Spoils("main") /\ MainStep("idle")
     ELSE Sealed(Size(main.reply)) /\ StillSpoils("main") /\ MainStep("write")
  /\ OnlyMain /\ UNCHANGED <<pending, toServer, history>>

Write ==
  /\ main.step = "write"
  /\ Written("main", Size(main.reply))
  /\ main' = [step |-> "idle", reply |-> Nothing]
  /\ OnlyMain /\ UNCHANGED <<pending, delivered>>
-----------------------------------------------------------------------------
(* The RTVI task: sctp_outgoing_data of a pong, if there is an association *)
OnlyRtvi == UNCHANGED <<connected, main, toDevice, server, delivered>>

ComposePong ==
  /\ rtvi = "idle" /\ pending # <<>> /\ connected
  /\ Compose(Chunk("PONG", 0)) /\ Spoils("rtvi")
  /\ rtvi' = "seal"
  /\ OnlyRtvi /\ UNCHANGED <<pending, toServer, setupLost>>

(* Mutant: the checksum is left to the WebRTC thread. *)
SealPong_Unsealed ==
  /\ rtvi = "seal"
  /\ rtvi' = "write"
  /\ OnlyRtvi /\ UNCHANGED <<buf, spoilt, pending, toServer, setupLost>>

SealPong ==
  /\ rtvi = "seal"
  /\ Sealed("data") /\ StillSpoils("rtvi")
  /\ rtvi' = "write"
  /\ OnlyRtvi /\ UNCHANGED <<pending, toServer, setupLost>>

WritePong ==
  /\ rtvi = "write"
  /\ Written("rtvi", "data")
  /\ rtvi' = "idle"
  /\ Inbox!CarryOut
  /\ OnlyRtvi

(* No ping, or no association to answer it on *)
HandleSilently ==
  /\ rtvi = "idle"
  /\ Inbox!CarryOut
  /\ OnlyRtvi /\ UNCHANGED <<buf, spoilt, rtvi, toServer, setupLost>>
-----------------------------------------------------------------------------
(* The server *)
Arrives(p) == toDevice' = toDevice \cup {p} /\ UNCHANGED setupLost
ToDevice(p) == Arrives(p) \/ (UNCHANGED toDevice /\ LostOnTheWay)
OnlyServer == UNCHANGED <<device, initiates, delivered, spoilt>>

Retransmit ==     \* T1-init and T1-cookie
  /\ initiates /\ assoc \in {"closed", "echoed"}
  /\ Arrives(Chunk(IF assoc = "closed" THEN "INIT" ELSE "COOKIE_ECHO", 0))
  /\ OnlyServer /\ UNCHANGED <<toServer, assoc, channel, sent, acked>>

Hears(p) ==
  /\ p \in toServer
  /\ toServer' = toServer \ {p}
  /\ OnlyServer

HearsHandshake ==
  \E p \in toServer :
    /\ Hears(p)
    /\ \/ /\ p.kind = "INIT"
          /\ ToDevice(Chunk("INIT_ACK", 0)) /\ UNCHANGED assoc
       \/ /\ p.kind = "COOKIE_ECHO"
          /\ ToDevice(Chunk("COOKIE_ACK", 0)) /\ assoc' = "open"
       \/ /\ p.kind = "INIT_ACK"
          /\ assoc' = IF assoc = "closed" THEN "echoed" ELSE assoc
          /\ UNCHANGED <<toDevice, setupLost>>
       \/ /\ p.kind = "COOKIE_ACK"
          /\ assoc' = IF assoc = "echoed" THEN "open" ELSE assoc
          /\ UNCHANGED <<toDevice, setupLost>>
    /\ UNCHANGED <<channel, sent, acked>>

HearsOpen ==
  \E p \in toServer :
    /\ p.kind = "OPEN" /\ Hears(p)
    /\ channel' = (channel \/ assoc = "open")
    /\ UNCHANGED <<toDevice, assoc, sent, acked, setupLost>>

(* For a pong, or on its own account: nothing the device answers.  Bound: not  *)
(* while anything else is on the way to it.                                   *)
SendsSack ==
  /\ assoc = "open" /\ channel /\ toDevice = {}
  /\ Arrives(Chunk("SACK", 0))
  /\ OnlyServer /\ UNCHANGED <<toServer, assoc, channel, sent, acked>>

HearsSack(n) ==
  \E p \in toServer :
    /\ p = Chunk("SACK", n) /\ Hears(p)
    /\ acked' = IF n \in acked .. sent THEN n ELSE acked
    /\ channel' = (channel \/ Control(n))
    /\ UNCHANGED <<toDevice, assoc, sent, setupLost>>

SendMessage ==
  /\ assoc = "open" /\ sent < MaxMessages
  /\ channel \/ Control(sent + 1)
  /\ sent' = sent + 1
  /\ ToDevice(Data(sent + 1))
  /\ OnlyServer /\ UNCHANGED <<toServer, assoc, channel, acked>>

Resend(n) ==
  /\ assoc = "open" /\ n \in acked + 1 .. sent
  /\ Arrives(Data(n))
  /\ OnlyServer /\ UNCHANGED <<toServer, assoc, channel, sent, acked>>

Abort ==
  /\ assoc = "open"
  /\ assoc' = "aborted"
  /\ ToDevice(Chunk("ABORT", 0)) /\ toServer' = {}
  /\ OnlyServer /\ UNCHANGED <<channel, sent, acked>>
-----------------------------------------------------------------------------
WebRtcThread == Deliver \/ Open \/ SealOpen \/ WriteOpen \/ Seal \/ Write
RtviTask == ComposePong \/ SealPong \/ WritePong \/ HandleSilently

Next ==
  \/ \E p \in toDevice : Receive(p)
  \/ WebRtcThread \/ RtviTask
  \/ Retransmit \/ HearsHandshake \/ HearsOpen \/ SendsSack
  \/ \E n \in Messages : HearsSack(n)
  \/ SendMessage \/ (\E n \in Messages : Resend(n)) \/ Abort

(* Both threads run, packets that are not lost arrive, the server retransmits  *)
(* its handshake and its last message until they are answered, and the network *)
(* does not lose every copy of what is sent again and again.                  *)
Fairness ==
  /\ WF_vars(WebRtcThread) /\ WF_vars(RtviTask)
  /\ WF_vars(Retransmit) /\ WF_vars(HearsHandshake) /\ WF_vars(HearsOpen)
  /\ WF_vars(Resend(sent)) /\ SF_vars(Receive(Data(sent)))
  /\ SF_vars(\E p \in toDevice : Handshake(p) /\ Receive(p))
  /\ SF_vars(Write /\ Handshake(main.reply) /\ main.reply \in toServer')

Spec == Init /\ [][Next]_vars /\ Fairness
=============================================================================
