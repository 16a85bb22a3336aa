--------------------------- MODULE DataChannelProps ---------------------------
(***************************************************************************)
(* What the device's half of the data channel promises to a server that     *)
(* follows the RFC, and what it does not.                                    *)
(***************************************************************************)
EXTENDS DataChannel

Chunks ==
  {Chunk(kind, 0) : kind \in {"none", "INIT", "INIT_ACK", "COOKIE_ECHO",
                              "COOKIE_ACK", "OPEN", "PONG", "SACK", "ABORT"}}
    \cup {Chunk("SACK", n) : n \in Messages}

Sizes == {"data", "SACK", "INIT_ACK", "COOKIE_ECHO", "COOKIE_ACK"}
Buffers == [body : Chunks, sum : {Nothing} \cup [body : Chunks, size : Sizes]]

(* Every variable has its type; the RTVI task and its queue hold no more than  *)
(* they have room for.                                                        *)
TypeOK ==
  /\ connected \in BOOLEAN /\ initiates \in BOOLEAN /\ channel \in BOOLEAN
  /\ setupLost \in BOOLEAN
  /\ buf \in Buffers
  /\ main \in [step : {"idle", "deliver", "open", "sealOpen", "writeOpen",
                       "seal", "write"}, reply : Chunks]
  /\ rtvi \in {"idle", "seal", "write"}
  /\ pending \in Seq({"ping"}) /\ Len(pending) <= QueueSize + 1
  /\ toServer \subseteq Chunks
  /\ toDevice \subseteq Chunks \cup {Data(n) : n \in Messages}
  /\ assoc \in {"closed", "echoed", "open", "aborted"}
  /\ acked \in 0 .. sent /\ sent \in 0 .. MaxMessages
  /\ delivered \subseteq Messages
  /\ spoilt \subseteq {"main", "rtvi"}

(* The device acknowledges whatever TSN it sees as if all before it had come.  *)
(* What the server takes for received and will not send again was handed to    *)
(* the RTVI task, unless a later message overtook it.                         *)
LostOnlyByOvertaking ==
  \A n \in 1 .. acked : \E m \in delivered : m >= n

(* A packet that is about to be written is what its thread built, unless the   *)
(* other thread was in sctp->buf meanwhile.  The first COOKIE_ACK never is:    *)
(* the channel is opened on top of it.                                        *)
WholeUnlessShared ==
  /\ rtvi = "write" /\ "rtvi" \notin spoilt => Whole("data")
  /\ main.step = "writeOpen" /\ "main" \notin spoilt => Whole("data")
  /\ main.step = "write" /\ "main" \notin spoilt /\ main.reply.kind # "COOKIE_ACK"
       => Whole(main.reply.kind)

(* The device sends INIT, COOKIE_ECHO and DATA_CHANNEL_OPEN once each.  The    *)
(* channel opens unless one of them or of their answers is lost, or the        *)
(* server aborts; an association the server opens, with its retransmissions,   *)
(* is formed however many are lost.                                           *)
ChannelOpens ==
  <>(IF initiates THEN assoc \in {"open", "aborted"}
     ELSE channel \/ setupLost \/ assoc = "aborted")

(* Every message of the server reaches the RTVI task, or a later one does,     *)
(* however many packets are lost and acknowledgements overwritten.             *)
SentIsDelivered ==
  []<>(assoc = "aborted" \/ sent = 0 \/ \E m \in delivered : m >= sent)

(* docs/PLAYBACK_RESILIENCE.md calls the data channel reliable and ordered:    *)
(* each message is delivered once, after all before it.                       *)
ReliableOrdered ==
  [][delivered' # delivered => delivered' = 1 .. Cardinality(delivered')]_delivered
=============================================================================
