---------------------------- MODULE ConnectionProps ----------------------------
(***************************************************************************)
(* What the connection's loop, watchdog and keepalive promise together.     *)
(***************************************************************************)
EXTENDS Connection

Time == 0 .. ClockMod - 1

PairType == [state : {"frozen", "inprogress", "failed", "succeeded"},
             conncheck : 0 .. AGENT_CONNCHECK_MAX]

(* Every variable has its type. *)
TypeOK ==
  /\ phase \in {"boot", "loop"}
  /\ \E n \in 0 .. NPairs :
       dev \in [state : {"new", "checking", "connected", "completed"},
                pairs : [1 .. n -> PairType], nominated : 0 .. n, connected : BOOLEAN,
                ticks : 0 .. connect_deadline_ticks - 1, binding_request_time : Time]
  /\ now \in Time /\ net \subseteq Datagrams
  /\ up \in BOOLEAN /\ session \in BOOLEAN /\ reach \subseteq 1 .. NPairs
  /\ quiet \in 0 .. Never

(* While pairs are checked the watchdog's count and the pair's own advance      *)
(* together: each pair before the nominated one took AGENT_CONNCHECK_MAX turns. *)
(* So a pair that comes after connect_deadline_ticks turns is never nominated.  *)
PairBudget ==
  LET i == dev.nominated IN
  dev.state = "checking" /\ i # 0 =>
    /\ dev.ticks = (i - 1) * AGENT_CONNCHECK_MAX + dev.pairs[i].conncheck + 1
    /\ \A j \in DOMAIN dev.pairs :
         dev.pairs[j].state = IF j < i THEN "failed"
                              ELSE IF j = i THEN "inprogress" ELSE "frozen"

Closes == dev.state = "completed" /\ phase' = "boot"

(* components/peer/CMakeLists.txt: the peer is closed when no binding request    *)
(* came for the keepalive time.  The other way is the clock's: one that wraps    *)
(* below the time of the last request closes a connection that is not silent.    *)
ClosedOnlyWhenSilent ==
  [][Closes => quiet' > KEEPALIVE_TIMEOUT \/ now' < dev.binding_request_time]_vars

(* The turn in which the silence of the server reaches past the keepalive time. *)
SilencePasses ==
  /\ dev.state = "completed"
  /\ quiet = KEEPALIVE_TIMEOUT /\ quiet' = KEEPALIVE_TIMEOUT + 1

(* A completed connection does not outlive that turn, wrapped clock or not. *)
SilentPeerIsClosed == [][SilencePasses => Closes]_vars

(* src/main.cpp: the device never sits idle without a connection, whatever the  *)
(* server does: it connects or it restarts.                                     *)
NeverIdle ==
  phase = "loop" /\ ~dev.connected ~> phase = "boot" \/ dev.connected

(* A server that is gone from a completed connection is noticed. *)
LostServerIsNoticed ==
  dev.state = "completed" /\ ~session ~> phase = "boot"

(* The pairs the watchdog leaves time for. *)
Timely == {i \in 1 .. NPairs : (i - 1) * AGENT_CONNCHECK_MAX < connect_deadline_ticks}

(* src/webrtc.cpp: the device heals itself, when the server stays up and can be *)
(* reached over a pair there is time for; unless a handshake never ends.        *)
Heals ==
  <>[]up /\ reach \intersect Timely # {} =>
    []<>(dev.state = "completed") \/ <>[](dev.state = "connected")

(* components/peer/CMakeLists.txt: "a genuinely dead server is still caught      *)
(* quickly".  One that dies between the binding response and the handshake's end *)
(* is not: the watchdog is over, the keepalive has not begun.                    *)
DeadServerIsCaught ==
  dev.connected /\ ~session ~> phase = "boot"
=============================================================================
