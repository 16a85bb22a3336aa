------------------------------ MODULE Connection ------------------------------
(***************************************************************************)
(* How the device gets and keeps its server: src/main.cpp runs one turn of   *)
(* peer_connection_loop and of the connection watchdog at a time, and every  *)
(* lost connection ends in esp_restart.  The server, the network between     *)
(* them and the clock are the environment.                                   *)
(***************************************************************************)
EXTENDS Integers, FiniteSetsExt

CONSTANTS
  NPairs,                   \* candidate pairs a full answer yields
  AGENT_CONNCHECK_MAX,      \* 1000 turns for each pair
  AGENT_CONNCHECK_PERIOD,   \* a binding request every 100 of them
  connect_deadline_ticks,   \* 30000 / TICK_INTERVAL = 2000 turns
  KEEPALIVE_TIMEOUT,        \* 30000 ms, in units of time
  ClockMod                  \* 2^32 ms: ports_get_epoch_time is a uint32_t

ASSUME ConnectionAssumption ==
  /\ {NPairs, AGENT_CONNCHECK_MAX, AGENT_CONNCHECK_PERIOD,
      connect_deadline_ticks, KEEPALIVE_TIMEOUT} \subseteq Nat \ {0}
  /\ ClockMod \in Nat /\ ClockMod > KEEPALIVE_TIMEOUT + 1

VARIABLES
  phase,    \* "boot" before the offer is made, "loop" in the main loop
  dev,      \* what the device has in RAM
  now,      \* ports_get_epoch_time(), which a restart does not reset
  net,      \* datagrams on the way to the device: "request", "response"
  up,       \* the server runs
  session,  \* and knows this boot's offer
  reach,    \* the pairs a datagram gets through
  quiet     \* ghost: time since a binding request was heard in this boot

vars == <<phase, dev, now, net, up, session, reach, quiet>>

Never == KEEPALIVE_TIMEOUT + 2    \* no binding request in this boot

(* peer_connection_create callocs its state, and the statics start from zero. *)
Boot ==
  [state |-> "new", pairs |-> <<>>, nominated |-> 0, connected |-> FALSE,
   ticks |-> 0, binding_request_time |-> 0]

Pair(state, conncheck) == [state |-> state, conncheck |-> conncheck]

agent_update_candidate_pairs(n) == [i \in 1 .. n |-> Pair("frozen", 0)]

(* Mutant: a pair gets one check more. *)
Expires_Late(p) ==
  p.state = "inprogress" /\ p.conncheck + 1 > AGENT_CONNCHECK_MAX

(* The check about to be counted is one too many. *)
Expires(p) ==
  p.state = "inprogress" /\ p.conncheck + 1 >= AGENT_CONNCHECK_MAX

(* Mutant: a pair that runs out of checks ends the scan. *)
Candidates_NoFallback(pairs) ==
  {i \in DOMAIN pairs :
     \A j \in 1 .. i : pairs[j].state # "failed" /\ ~Expires(pairs[j])}

(* The pairs at which the scan would stop. *)
Candidates(pairs) ==
  {i \in DOMAIN pairs : pairs[i].state # "failed" /\ ~Expires(pairs[i])}

(* What the scan leaves of a pair it comes to. *)
Scanned(p) ==
  CASE p.state = "frozen" -> Pair("inprogress", 0)
    [] p.state = "inprogress" ->
         Pair(IF Expires(p) THEN "failed" ELSE "inprogress", p.conncheck + 1)
    [] OTHER -> p

agent_select_candidate_pair(d) ==
  LET chosen == Min(Candidates(d.pairs)) IN
  [d EXCEPT !.pairs = [i \in DOMAIN @ |-> IF i <= chosen THEN Scanned(@[i]) ELSE @[i]],
            !.nominated = IF d.pairs[chosen].state = "frozen" THEN chosen ELSE @]

(* Mutant: the time of a binding request is not kept. *)
agent_recv_Forgets(d, got, t) ==
  [d EXCEPT !.pairs = IF "response" \in got
                      THEN [@ EXCEPT ![d.nominated].state = "succeeded"] ELSE @]

(* The datagrams got at time t.  A response carries no more than the password *)
(* of the session: it counts for the pair nominated when it comes.            *)
agent_recv(d, got, t) ==
  [d EXCEPT !.pairs = IF "response" \in got
                      THEN [@ EXCEPT ![d.nominated].state = "succeeded"] ELSE @,
            !.binding_request_time = IF "request" \in got THEN t ELSE @]

(* Mutant: keepalive disabled, as the project had it. *)
KeepaliveExpired_Off(d, t) == FALSE

(* Mutant: a signed difference. *)
KeepaliveExpired_Signed(d, t) ==
  t - d.binding_request_time > KEEPALIVE_TIMEOUT

(* binding_request_time is a uint64_t: below it, the difference is huge. *)
KeepaliveExpired(d, t) ==
  \/ t < d.binding_request_time
  \/ t - d.binding_request_time > KEEPALIVE_TIMEOUT

(* Mutant: restarts one turn late. *)
WatchdogFires_Late(d) == ~d.connected /\ d.ticks + 1 > connect_deadline_ticks

WatchdogFires(d) == ~d.connected /\ d.ticks + 1 >= connect_deadline_ticks
-----------------------------------------------------------------------------
Init ==
  /\ phase = "boot" /\ dev = Boot /\ now = 0
  /\ net = {} /\ up = TRUE /\ session = FALSE
  /\ reach \in SUBSET (1 .. NPairs)
  /\ quiet = Never

(* Datagrams of an earlier boot fail the password of the next. *)
esp_restart ==
  /\ phase' = "boot" /\ dev' = Boot
  /\ net' = {} /\ session' = FALSE

(* pipecat_init_webrtc: the offer is posted and its answer awaited.  (A chunked *)
(* answer, or no memory for the connection, restarts the device as it was.)     *)
OfferAnswered(n) ==
  /\ phase = "boot" /\ up
  /\ phase' = "loop" /\ session' = TRUE
  /\ dev' = [dev EXCEPT !.state = "checking",
                        !.pairs = agent_update_candidate_pairs(n)]
  /\ quiet' = Never
  /\ UNCHANGED <<now, net, up, reach>>

(* The request fails, times out, or brings no usable answer. *)
OfferUnanswered ==
  /\ phase = "boot"
  /\ phase' = "loop" /\ quiet' = Never
  /\ UNCHANGED <<dev, now, net, up, session, reach>>

(* Mutant: turns only count while pairs are checked. *)
EndOfTurn_OnlyChecking(d, left) ==
  IF WatchdogFires(d) THEN esp_restart
  ELSE /\ dev' = [d EXCEPT !.ticks = IF d.state = "checking" THEN @ + 1 ELSE @]
       /\ net' = left
       /\ UNCHANGED <<phase, session>>

(* The end of a turn that peer_connection_loop leaves with the device as d and *)
(* the datagrams in left not yet taken.                                       *)
EndOfTurn(d, left) ==
  IF WatchdogFires(d) THEN esp_restart
  ELSE /\ dev' = [d EXCEPT !.ticks = IF d.connected THEN @ ELSE @ + 1]
       /\ net' = left
       /\ UNCHANGED <<phase, session>>

(* A turn of the main loop at time t, at most a unit of time after the last, in *)
(* which the datagrams in got are taken.                                       *)
Turn(state, got, t) ==
  /\ phase = "loop" /\ dev.state = state
  /\ t \in {now, (now + 1) % ClockMod} /\ now' = t
  /\ quiet' = IF "request" \in got THEN 0
              ELSE IF t = now \/ quiet > KEEPALIVE_TIMEOUT THEN quiet ELSE quiet + 1
  /\ UNCHANGED <<up, reach>>

NewTurn(t) ==
  /\ Turn("new", {}, t)
  /\ EndOfTurn(dev, net)

(* Every pair has failed. *)
ChecksFail(t) ==
  /\ Turn("checking", {}, t)
  /\ Candidates(dev.pairs) = {}
  /\ esp_restart

(* agent_connectivity_check sends a request for the nominated pair. *)
Probes(d) == d.pairs[d.nominated].conncheck % AGENT_CONNCHECK_PERIOD = 0

ServerHears(pair) == up /\ session /\ pair \in reach

(* A turn of checks: one datagram at most is taken, and onconnectionstatechange *)
(* ends the watchdog's part.  The probe may be answered, at once or later.      *)
CheckPair(answered, got, t) ==
  LET selected == agent_select_candidate_pair(dev)
      waiting  == net \union (IF answered THEN {"response"} ELSE {})
      after    == agent_recv(selected, got, t)
      succeeded == after.pairs[after.nominated].state = "succeeded" IN
  /\ Turn("checking", got, t)
  /\ Candidates(dev.pairs) # {}
  /\ answered => Probes(selected) /\ ServerHears(selected.nominated)
  /\ got \subseteq waiting
  /\ EndOfTurn(IF succeeded
                THEN [after EXCEPT !.state = "connected", !.connected = TRUE]
                ELSE after,
               waiting \ got)

(* A DTLS handshake, which takes what it likes of the datagrams.  It ends within *)
(* the turn: with the keys, or after CONFIG_TLS_READ_TIMEOUT and to be repeated. *)
Handshake(done, got, t) ==
  /\ Turn("connected", got, t)
  /\ done => ServerHears(dev.nominated)
  /\ got \subseteq net
  /\ LET after == agent_recv(dev, got, t) IN
     EndOfTurn(IF done THEN [after EXCEPT !.state = "completed"] ELSE after,
               net \ got)

(* One datagram, then the keepalive. *)
CompletedTurn(got, t) ==
  /\ Turn("completed", got, t)
  /\ got \subseteq net
  /\ LET after == agent_recv(dev, got, t) IN
     IF KeepaliveExpired(after, t) THEN esp_restart
     ELSE EndOfTurn(after, net \ got)

Datagrams == {"request", "response"}
OneAtMost == {got \in SUBSET Datagrams : \A a, b \in got : a = b}

PeerConnectionLoop(t) ==
  \/ NewTurn(t)
  \/ ChecksFail(t)
  \/ \E answered \in BOOLEAN, got \in OneAtMost : CheckPair(answered, got, t)
  \/ \E done \in BOOLEAN, got \in SUBSET Datagrams : Handshake(done, got, t)
  \/ \E got \in OneAtMost : CompletedTurn(got, t)

pipecat_init_webrtc ==
  \/ \E n \in {0, NPairs} : OfferAnswered(n)
  \/ OfferUnanswered

(* Consent freshness: the server asks for a binding now and then. *)
ServerRequest ==
  /\ up /\ session /\ reach # {}
  /\ net' = net \union {"request"}
  /\ UNCHANGED <<phase, dev, now, up, session, reach, quiet>>

(* The server's process ends, and with it what it knew of the offer. *)
ServerStops ==
  /\ up
  /\ up' = FALSE /\ session' = FALSE
  /\ UNCHANGED <<phase, dev, now, net, reach, quiet>>

ServerStarts ==
  /\ ~up
  /\ up' = TRUE
  /\ UNCHANGED <<phase, dev, now, net, session, reach, quiet>>

LoseDatagram(m) ==
  /\ m \in net
  /\ net' = net \ {m}
  /\ UNCHANGED <<phase, dev, now, up, session, reach, quiet>>

Next ==
  \/ pipecat_init_webrtc
  \/ \E t \in 0 .. ClockMod - 1 : PeerConnectionLoop(t)
  \/ ServerRequest \/ ServerStops \/ ServerStarts
  \/ \E m \in Datagrams : LoseDatagram(m)

(* The main loop never waits for ever, and time passes in it.  The network is   *)
(* fair-lossy: what is tried over and over in some boot succeeds in some boot.  *)
Fairness ==
  /\ WF_vars(pipecat_init_webrtc)
  /\ WF_vars(PeerConnectionLoop((now + 1) % ClockMod))
  /\ SF_vars(OfferAnswered(NPairs))
  /\ SF_vars(\E got \in OneAtMost : CheckPair(TRUE, got, (now + 1) % ClockMod))
  /\ SF_vars(\E answered \in BOOLEAN : CheckPair(answered, {"response"}, now))
  /\ SF_vars(\E got \in SUBSET Datagrams : Handshake(TRUE, got, now))

Spec == Init /\ [][Next]_vars /\ Fairness
=============================================================================
