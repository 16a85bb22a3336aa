--------------------------- MODULE ConnectionProofs ---------------------------
(***************************************************************************)
(* Proofs about Connection, for any number of pairs and any deadlines.       *)
(***************************************************************************)
EXTENDS ConnectionProps, ArithmeticLemmas

M == AGENT_CONNCHECK_MAX

(* The pairs while the i-th is checked. *)
Checking(pairs, i) ==
  \A j \in DOMAIN pairs :
    pairs[j].state = IF j < i THEN "failed" ELSE IF j = i THEN "inprogress" ELSE "frozen"

(* What PairBudget needs to be inductive: the first turn of checks finds a fresh *)
(* answer, the watchdog counts until the connection, and the nominated pair      *)
(* stays in the array.                                                          *)
PhaseFacts ==
  /\ phase = "boot" => dev = Boot
  /\ dev.state = "new" => dev.pairs = <<>> /\ dev.nominated = 0
  /\ dev.connected <=> dev.state \in {"connected", "completed"}
  /\ dev.connected => dev.nominated # 0
  /\ dev.state = "checking" =>
       IF dev.nominated = 0
       THEN dev.ticks = 0 /\ \A j \in DOMAIN dev.pairs : dev.pairs[j].state = "frozen"
       ELSE dev.pairs[dev.nominated].conncheck < M

IInv == TypeOK /\ PairBudget /\ PhaseFacts /\ dev.nominated \in Timely \union {0}

(* The least element of a set, once it is known. *)
LEMMA MinIs ==
  ASSUME NEW S \in SUBSET Int, NEW k \in S, \A x \in S : k <= x
  PROVE  Min(S) = k
<1>1. \A x, y \in S : (\A z \in S : x <= z) /\ (\A z \in S : y <= z) => x = y
  OBVIOUS
<1> QED BY <1>1 DEF Min

(* The scan leaves a failed pair alone, starts a frozen one and counts a check   *)
(* of the one in progress, the last of which fails it.                          *)
LEMMA ScannedFacts ==
  ASSUME NEW p \in PairType
  PROVE  /\ p.state = "frozen" => Scanned(p) = Pair("inprogress", 0)
         /\ p.state = "failed" => Scanned(p) = p
         /\ p.state = "inprogress" =>
              Scanned(p) = Pair(IF p.conncheck + 1 >= M THEN "failed" ELSE "inprogress",
                                p.conncheck + 1)
  BY DEF Scanned, Expires, PairType, M

(* A pair of a known state and count. *)
LEMMA PairFacts ==
  ASSUME NEW c \in 0 .. M, NEW s \in {"frozen", "inprogress", "failed", "succeeded"}
  PROVE  /\ Pair(s, c) \in PairType
         /\ Pair(s, c).state = s /\ Pair(s, c).conncheck = c
  BY DEF Pair, PairType, M

Scan(pairs, c) ==
  [j \in DOMAIN pairs |-> IF j <= c THEN Scanned(pairs[j]) ELSE pairs[j]]

(* Where the scan stops when no pair has been nominated. *)
LEMMA FirstScan ==
  ASSUME NEW n \in Nat \ {0}, NEW pairs \in [1 .. n -> PairType],
         \A j \in 1 .. n : pairs[j].state = "frozen"
  PROVE  /\ Min(Candidates(pairs)) = 1
         /\ Scan(pairs, 1) \in [1 .. n -> PairType]
         /\ Checking(Scan(pairs, 1), 1) /\ Scan(pairs, 1)[1].conncheck = 0
<1>0. M \in Nat \ {0} /\ DOMAIN pairs = 1 .. n /\ \A j \in 1 .. n : pairs[j] \in PairType
  BY ConnectionAssumption DEF M
<1>1. Candidates(pairs) = 1 .. n
  BY <1>0 DEF Candidates, Expires
<1>2. Min(1 .. n) = 1
  <2>1. 1 \in 1 .. n /\ 1 .. n \in SUBSET Int /\ \A x \in 1 .. n : 1 <= x
    OBVIOUS
  <2> QED BY <2>1, MinIs
<1>3. \A j \in 1 .. n : Scan(pairs, 1)[j] = IF j = 1 THEN Pair("inprogress", 0) ELSE pairs[j]
  BY <1>0, ScannedFacts DEF Scan
<1>4. \A j \in 1 .. n : Scan(pairs, 1)[j] \in PairType
  BY <1>0, <1>3, PairFacts
<1>5. Scan(pairs, 1) \in [1 .. n -> PairType]
  BY <1>0, <1>4 DEF Scan
<1>6. Checking(Scan(pairs, 1), 1) /\ Scan(pairs, 1)[1].conncheck = 0
  BY <1>0, <1>3, <1>5, PairFacts DEF Checking
<1> QED BY <1>1, <1>2, <1>5, <1>6

(* Where it stops while pair i has checks left. *)
LEMMA NextCheck ==
  ASSUME NEW n \in Nat, NEW pairs \in [1 .. n -> PairType], NEW i \in 1 .. n,
         Checking(pairs, i), pairs[i].conncheck + 1 < M
  PROVE  /\ Min(Candidates(pairs)) = i
         /\ Scan(pairs, i) \in [1 .. n -> PairType]
         /\ Checking(Scan(pairs, i), i)
         /\ Scan(pairs, i)[i].conncheck = pairs[i].conncheck + 1
<1>0. M \in Nat \ {0} /\ DOMAIN pairs = 1 .. n /\ \A j \in 1 .. n : pairs[j] \in PairType
  BY ConnectionAssumption DEF M
<1>1. /\ pairs[i].conncheck + 1 \in 0 .. M
      /\ \A j \in 1 .. n : pairs[j].state = IF j < i THEN "failed"
                                             ELSE IF j = i THEN "inprogress" ELSE "frozen"
  BY <1>0 DEF Checking, PairType, M
<1>2. Candidates(pairs) = i .. n
  <2>1. \A j \in 1 .. n : ~Expires(pairs[j])
    BY <1>0, <1>1 DEF Expires, M, PairType
  <2> QED BY <1>0, <1>1, <2>1 DEF Candidates
<1>3. Min(i .. n) = i
  <2>1. i \in i .. n /\ i .. n \in SUBSET Int /\ \A x \in i .. n : i <= x
    OBVIOUS
  <2> QED BY <2>1, MinIs
<1>4. \A j \in 1 .. n :
        Scan(pairs, i)[j] = IF j = i THEN Pair("inprogress", pairs[i].conncheck + 1)
                            ELSE pairs[j]
  <2> SUFFICES ASSUME NEW j \in 1 .. n
               PROVE  Scan(pairs, i)[j] =
                        IF j = i THEN Pair("inprogress", pairs[i].conncheck + 1) ELSE pairs[j]
    OBVIOUS
  <2>1. Scan(pairs, i)[j] = IF j <= i THEN Scanned(pairs[j]) ELSE pairs[j]
    BY <1>0 DEF Scan
  <2>2. CASE j = i
    <3>1. ~(pairs[j].conncheck + 1 >= M)
      BY <1>0, <1>1, <2>2
    <3> QED BY <1>0, <1>1, <2>1, <2>2, <3>1, ScannedFacts
  <2>3. CASE j # i
    BY <1>0, <1>1, <2>1, <2>3, ScannedFacts
  <2> QED BY <2>2, <2>3
<1>5. \A j \in 1 .. n : Scan(pairs, i)[j] \in PairType
  BY <1>0, <1>1, <1>4, PairFacts
<1>6. Scan(pairs, i) \in [1 .. n -> PairType]
  BY <1>0, <1>5 DEF Scan
<1>7. Checking(Scan(pairs, i), i) /\ Scan(pairs, i)[i].conncheck = pairs[i].conncheck + 1
  BY <1>0, <1>1, <1>4, <1>6, PairFacts DEF Checking
<1> QED BY <1>2, <1>3, <1>6, <1>7

(* Where it stops when pair i has none left: at the next, unless i is the last. *)
LEMMA NextPair ==
  ASSUME NEW n \in Nat, NEW pairs \in [1 .. n -> PairType], NEW i \in 1 .. n,
         Checking(pairs, i), pairs[i].conncheck + 1 = M, Candidates(pairs) # {}
  PROVE  /\ i + 1 \in 1 .. n
         /\ Min(Candidates(pairs)) = i + 1
         /\ Scan(pairs, i + 1) \in [1 .. n -> PairType]
         /\ Checking(Scan(pairs, i + 1), i + 1)
         /\ Scan(pairs, i + 1)[i + 1].conncheck = 0
<1>0. M \in Nat \ {0} /\ DOMAIN pairs = 1 .. n /\ \A j \in 1 .. n : pairs[j] \in PairType
  BY ConnectionAssumption DEF M
<1>1. \A j \in 1 .. n : pairs[j].state = IF j < i THEN "failed"
                                         ELSE IF j = i THEN "inprogress" ELSE "frozen"
  BY <1>0 DEF Checking
<1>2. Candidates(pairs) = i + 1 .. n
  <2>1. Expires(pairs[i])
    BY <1>0, <1>1 DEF Expires, M, PairType
  <2>2. \A j \in 1 .. n : j # i => ~Expires(pairs[j])
    BY <1>0, <1>1 DEF Expires
  <2>3. \A j \in 1 .. n : j \in Candidates(pairs) <=> j > i
    BY <1>0, <1>1, <2>1, <2>2 DEF Candidates
  <2> QED BY <1>0, <2>3 DEF Candidates
<1>3. i + 1 \in 1 .. n
  BY <1>2
<1>4. Min(i + 1 .. n) = i + 1
  <2>1. i + 1 \in i + 1 .. n /\ i + 1 .. n \in SUBSET Int /\ \A x \in i + 1 .. n : i + 1 <= x
    BY <1>3
  <2> QED BY <2>1, MinIs
<1>5. \A j \in 1 .. n :
        Scan(pairs, i + 1)[j] = IF j = i THEN Pair("failed", M)
                                ELSE IF j = i + 1 THEN Pair("inprogress", 0) ELSE pairs[j]
  <2> SUFFICES ASSUME NEW j \in 1 .. n
               PROVE  Scan(pairs, i + 1)[j] =
                        IF j = i THEN Pair("failed", M)
                        ELSE IF j = i + 1 THEN Pair("inprogress", 0) ELSE pairs[j]
    OBVIOUS
  <2>1. Scan(pairs, i + 1)[j] = IF j <= i + 1 THEN Scanned(pairs[j]) ELSE pairs[j]
    BY <1>0 DEF Scan
  <2>2. CASE j = i
    BY <1>0, <1>1, <2>1, <2>2, ScannedFacts
  <2>3. CASE j = i + 1
    BY <1>0, <1>1, <2>1, <2>3, ScannedFacts
  <2>4. CASE j # i /\ j # i + 1
    BY <1>0, <1>1, <2>1, <2>4, ScannedFacts
  <2> QED BY <2>2, <2>3, <2>4
<1>6. \A j \in 1 .. n : Scan(pairs, i + 1)[j] \in PairType
  BY <1>0, <1>5, PairFacts
<1>7. Scan(pairs, i + 1) \in [1 .. n -> PairType]
  BY <1>0, <1>6 DEF Scan
<1>8. Checking(Scan(pairs, i + 1), i + 1) /\ Scan(pairs, i + 1)[i + 1].conncheck = 0
  <2>1. \A j \in 1 .. n :
          Scan(pairs, i + 1)[j].state = IF j < i + 1 THEN "failed"
                                        ELSE IF j = i + 1 THEN "inprogress" ELSE "frozen"
    BY <1>0, <1>1, <1>5, PairFacts
  <2> QED BY <1>0, <1>3, <1>5, <1>7, <2>1, PairFacts DEF Checking
<1> QED BY <1>2, <1>3, <1>4, <1>7, <1>8

(* What a scan that stops at pair k makes of the pairs and the watchdog's count. *)
Selected(n, k, pairs) ==
  /\ k \in 1 .. n /\ pairs \in [1 .. n -> PairType]
  /\ agent_select_candidate_pair(dev) = [dev EXCEPT !.pairs = pairs, !.nominated = k]
  /\ Checking(pairs, k)
  /\ pairs[k].conncheck < M
  /\ dev.ticks = (k - 1) * M + pairs[k].conncheck

(* One scan of a turn of checks: the nominated pair advances by the turn that    *)
(* the watchdog counted, or the next takes its place.                           *)
LEMMA SelectFacts ==
  ASSUME IInv, dev.state = "checking", Candidates(dev.pairs) # {},
         NEW n \in 0 .. NPairs, dev.pairs \in [1 .. n -> PairType], dev.nominated \in 0 .. n,
         dev.ticks \in Nat
  PROVE  \E k, pairs : Selected(n, k, pairs)
<1> DEFINE i == dev.nominated
           chosen == Min(Candidates(dev.pairs))
           k == IF dev.pairs[chosen].state = "frozen" THEN chosen ELSE i
<1>0. M \in Nat \ {0} /\ n \in Nat /\ DOMAIN dev.pairs = 1 .. n /\ i \in 0 .. n
  BY ConnectionAssumption DEF M
<1>1. agent_select_candidate_pair(dev) =
        [dev EXCEPT !.pairs = Scan(dev.pairs, chosen), !.nominated = k]
  BY DEF agent_select_candidate_pair, Scan
<1>2. CASE i = 0
  <2>1. \A j \in 1 .. n : dev.pairs[j].state = "frozen"
    BY <1>0, <1>2 DEF IInv, PhaseFacts
  <2>2. dev.ticks = 0
    BY <1>2 DEF IInv, PhaseFacts
  <2>3. n \in Nat \ {0}
    BY <1>0 DEF Candidates
  <2>4. chosen = 1 /\ 1 \in 1 .. n
    BY <2>1, <2>3, FirstScan
  <2>5. k = 1
    BY <2>1, <2>4
  <2> HIDE DEF k, chosen
  <2>6. Selected(n, 1, Scan(dev.pairs, 1))
    BY <1>0, <1>1, <2>1, <2>2, <2>3, <2>4, <2>5, FirstScan DEF Selected
  <2> QED BY <2>6
<1>3. CASE i # 0
  <2>1. i \in 1 .. n /\ dev.pairs[i] \in PairType
    BY <1>0, <1>3
  <2>2. /\ Checking(dev.pairs, i)
        /\ dev.ticks = (i - 1) * M + dev.pairs[i].conncheck + 1
    BY <1>3 DEF IInv, PairBudget, Checking, M
  <2>3. dev.pairs[i].conncheck \in 0 .. M - 1
    BY <1>0, <1>3, <2>1 DEF IInv, PhaseFacts, PairType, M
  <2>4. \A j \in 1 .. n : dev.pairs[j].state = IF j < i THEN "failed"
                                               ELSE IF j = i THEN "inprogress" ELSE "frozen"
    BY <1>0, <2>2 DEF Checking
  <2>5. CASE dev.pairs[i].conncheck + 1 < M
    <3>1. chosen = i
      BY <1>0, <2>1, <2>2, <2>5, NextCheck
    <3>2. k = i
      BY <2>1, <2>4, <3>1
    <3> HIDE DEF k, chosen
    <3>3. /\ Scan(dev.pairs, i) \in [1 .. n -> PairType]
          /\ Checking(Scan(dev.pairs, i), i)
          /\ Scan(dev.pairs, i)[i].conncheck = dev.pairs[i].conncheck + 1
      BY <1>0, <2>1, <2>2, <2>5, NextCheck
    <3>4. dev.ticks = (i - 1) * M + Scan(dev.pairs, i)[i].conncheck
      <4>1. (i - 1) * M \in Int
        BY <1>0, <2>1
      <4> QED BY <2>2, <2>3, <3>3, <4>1
    <3>5. Selected(n, i, Scan(dev.pairs, i))
      BY <1>0, <1>1, <2>1, <2>3, <2>5, <3>1, <3>2, <3>3, <3>4 DEF Selected
    <3> QED BY <3>5
  <2>6. CASE dev.pairs[i].conncheck + 1 = M
    <3>1. chosen = i + 1 /\ i + 1 \in 1 .. n
      BY <1>0, <2>1, <2>2, <2>6, NextPair
    <3>2. k = i + 1
      BY <2>1, <2>4, <3>1
    <3>3. /\ Scan(dev.pairs, i + 1) \in [1 .. n -> PairType]
          /\ Checking(Scan(dev.pairs, i + 1), i + 1)
          /\ Scan(dev.pairs, i + 1)[i + 1].conncheck = 0
      BY <1>0, <2>1, <2>2, <2>6, NextPair
    <3>4. (i + 1 - 1) * M = (i - 1) * M + M
      BY <1>0, <2>1
    <3>5. dev.ticks = (i + 1 - 1) * M + 0
      <4> DEFINE spent == (i - 1) * M
                 next == (i + 1 - 1) * M
      <4>1. spent \in Int /\ next = spent + M /\ dev.ticks = spent + dev.pairs[i].conncheck + 1
        BY <1>0, <2>1, <2>2, <3>4
      <4> HIDE DEF spent, next
      <4>2. dev.ticks = next + 0
        <5>1. ASSUME NEW c \in Int, c + 1 = M PROVE spent + c + 1 = spent + M
          BY <1>0, <4>1, <5>1
        <5>2. dev.pairs[i].conncheck \in Int
          BY <2>3
        <5>3. dev.ticks = spent + M
          BY <2>6, <4>1, <5>1, <5>2
        <5> QED BY <1>0, <4>1, <5>3
      <4> QED BY <4>2 DEF next
    <3> HIDE DEF k, chosen
    <3>6. Selected(n, i + 1, Scan(dev.pairs, i + 1))
      <4> DEFINE scan == Scan(dev.pairs, i + 1)
      <4>1. agent_select_candidate_pair(dev) = [dev EXCEPT !.pairs = scan, !.nominated = i + 1]
        BY <1>1, <3>1, <3>2
      <4>2. scan[i + 1].conncheck < M /\ dev.ticks = (i + 1 - 1) * M + scan[i + 1].conncheck
        BY <1>0, <3>3, <3>5
      <4> QED BY <3>1, <3>3, <4>1, <4>2 DEF Selected
    <3> QED BY <3>6
  <2>7. dev.pairs[i].conncheck + 1 < M \/ dev.pairs[i].conncheck + 1 = M
    BY <1>0, <2>3
  <2> QED BY <2>5, <2>6, <2>7
<1> QED BY <1>2, <1>3

(* The device's variables besides the pairs: what every action must show. *)
OtherTypes ==
  /\ phase \in {"boot", "loop"}
  /\ now \in Time /\ net \subseteq Datagrams
  /\ up \in BOOLEAN /\ session \in BOOLEAN /\ reach \subseteq 1 .. NPairs
  /\ quiet \in 0 .. Never

(* The part of the invariant that is about the device, of any record d. *)
DeviceType(d, n) ==
  d \in [state : {"new", "checking", "connected", "completed"},
         pairs : [1 .. n -> PairType], nominated : 0 .. n, connected : BOOLEAN,
         ticks : 0 .. connect_deadline_ticks - 1, binding_request_time : Time]

DeviceInv(d) ==
  /\ \E n \in 0 .. NPairs : DeviceType(d, n)
  /\ d.state = "checking" /\ d.nominated # 0 =>
       /\ d.ticks = (d.nominated - 1) * M + d.pairs[d.nominated].conncheck + 1
       /\ Checking(d.pairs, d.nominated)
       /\ d.pairs[d.nominated].conncheck < M
  /\ d.state = "checking" /\ d.nominated = 0 =>
       d.ticks = 0 /\ \A j \in DOMAIN d.pairs : d.pairs[j].state = "frozen"
  /\ d.state = "new" => d.pairs = <<>> /\ d.nominated = 0
  /\ d.connected <=> d.state \in {"connected", "completed"}
  /\ d.connected => d.nominated # 0
  /\ d.nominated \in Timely \union {0}

(* The invariant, split into what concerns the device and the rest. *)
LEMMA InvSplit ==
  IInv <=> OtherTypes /\ (phase = "boot" => dev = Boot) /\ DeviceInv(dev)
  BY DEF IInv, TypeOK, PairBudget, PhaseFacts, DeviceInv, DeviceType, OtherTypes, Checking, M

(* The same of the next state. *)
LEMMA InvSplitNext ==
  OtherTypes' /\ (phase' = "boot" => dev' = Boot) /\ DeviceInv(dev') => IInv'
  BY DEF IInv, TypeOK, PairBudget, PhaseFacts, DeviceInv, DeviceType, OtherTypes, Checking, M

(* A device that has just booted satisfies its part. *)
LEMMA BootInv == DeviceInv(Boot)
<1>1. \A n \in {0} : Boot.pairs \in [1 .. n -> PairType]
  BY DEF Boot
<1>2. DeviceType(Boot, 0)
  BY <1>1, ConnectionAssumption DEF Boot, DeviceType, Time
<1> QED BY <1>2, ConnectionAssumption DEF DeviceInv, Boot

(* What a turn does to the variables besides the device. *)
LEMMA TurnTypes ==
  ASSUME OtherTypes, NEW state, NEW got, NEW t, Turn(state, got, t)
  PROVE  /\ t \in Time
         /\ (now \in Time /\ up \in BOOLEAN /\ reach \subseteq 1 .. NPairs /\ quiet \in 0 .. Never)'
  BY ConnectionAssumption DEF Turn, OtherTypes, Time, Never

(* A turn that ends in esp_restart keeps the invariant. *)
LEMMA RestartInv ==
  ASSUME OtherTypes, NEW state, NEW got, NEW t, Turn(state, got, t), esp_restart
  PROVE  IInv'
<1>1. OtherTypes' /\ dev' = Boot
  BY TurnTypes DEF esp_restart, OtherTypes
<1> QED BY <1>1, BootInv, InvSplitNext

(* A turn whose record d keeps the invariant once its turn is counted. *)
LEMMA EndOfTurnInv ==
  ASSUME IInv, NEW d, NEW left \in SUBSET Datagrams, NEW got, NEW t,
         Turn(dev.state, got, t), EndOfTurn(d, left),
         ~WatchdogFires(d) =>
           DeviceInv([d EXCEPT !.ticks = IF d.connected THEN @ ELSE @ + 1])
  PROVE  IInv'
<1>1. OtherTypes /\ DeviceInv(dev) /\ phase = "loop"
  BY InvSplit DEF Turn
<1>2. (now \in Time /\ up \in BOOLEAN /\ reach \subseteq 1 .. NPairs /\ quiet \in 0 .. Never)'
  BY <1>1, TurnTypes
<1>3. CASE WatchdogFires(d)
  BY <1>1, <1>3, RestartInv DEF EndOfTurn
<1>4. CASE ~WatchdogFires(d)
  <2>1. OtherTypes'
    BY <1>1, <1>2, <1>4 DEF EndOfTurn, OtherTypes
  <2>2. DeviceInv(dev') /\ phase' = "loop"
    BY <1>1, <1>4 DEF EndOfTurn
  <2> QED BY <2>1, <2>2, InvSplitNext
<1> QED BY <1>3, <1>4

(* Datagrams change the pairs only by the success of the nominated one. *)
LEMMA RecvFacts ==
  ASSUME NEW d, NEW n \in Nat, DeviceType(d, n), d.nominated # 0,
         NEW got \in SUBSET Datagrams, NEW t \in Time
  PROVE  /\ DeviceType(agent_recv(d, got, t), n)
         /\ agent_recv(d, got, t).state = d.state
         /\ agent_recv(d, got, t).nominated = d.nominated
         /\ agent_recv(d, got, t).connected = d.connected
         /\ agent_recv(d, got, t).ticks = d.ticks
         /\ \/ agent_recv(d, got, t).pairs = d.pairs
            \/ agent_recv(d, got, t).pairs[d.nominated].state = "succeeded"
<1> DEFINE won == [d.pairs EXCEPT ![d.nominated].state = "succeeded"]
<1>1. d.pairs \in [1 .. n -> PairType] /\ d.nominated \in 1 .. n
  BY DEF DeviceType
<1>2. won \in [1 .. n -> PairType] /\ won[d.nominated].state = "succeeded"
  BY <1>1 DEF PairType
<1> HIDE DEF won
<1>3. agent_recv(d, got, t) =
        [d EXCEPT !.pairs = IF "response" \in got THEN won ELSE @,
                  !.binding_request_time = IF "request" \in got THEN t ELSE @]
  BY DEF agent_recv, won
<1> QED BY <1>1, <1>2, <1>3 DEF DeviceType

(* One lemma per action: it keeps the invariant.  A turn without an answer. *)
LEMMA NewTurnInv ==
  ASSUME IInv, NEW t, NewTurn(t)
  PROVE  IInv'
<1>1. DeviceInv(dev) /\ dev.state = "new" /\ net \in SUBSET Datagrams
  BY InvSplit DEF NewTurn, Turn, OtherTypes
<1>2. PICK n \in 0 .. NPairs : DeviceType(dev, n)
  BY <1>1 DEF DeviceInv
<1> DEFINE next == [dev EXCEPT !.ticks = IF dev.connected THEN @ ELSE @ + 1]
<1>3. ASSUME ~WatchdogFires(dev) PROVE DeviceInv(next)
  <2>1. dev.connected = FALSE /\ dev.ticks \in Nat /\ dev.ticks + 1 < connect_deadline_ticks
    BY <1>1, <1>2, <1>3, ConnectionAssumption DEF WatchdogFires, DeviceInv, DeviceType
  <2>2. /\ dev.ticks + 1 \in 0 .. connect_deadline_ticks - 1
        /\ next = [dev EXCEPT !.ticks = dev.ticks + 1]
    BY <2>1, ConnectionAssumption
  <2> HIDE DEF next
  <2>3. DeviceType(next, n)
    BY <1>2, <2>2 DEF DeviceType
  <2>4. /\ next.state = "new" /\ next.connected = dev.connected
        /\ next.pairs = dev.pairs /\ next.nominated = dev.nominated
    BY <1>1, <1>2, <2>2 DEF DeviceType
  <2> QED BY <1>1, <2>3, <2>4 DEF DeviceInv
<1> QED BY <1>1, <1>3, EndOfTurnInv DEF NewTurn

(* A turn with a handshake. *)
LEMMA HandshakeInv ==
  ASSUME IInv, NEW done \in BOOLEAN, NEW got \in SUBSET Datagrams, NEW t, Handshake(done, got, t)
  PROVE  IInv'
<1>1. DeviceInv(dev) /\ dev.state = "connected" /\ net \ got \in SUBSET Datagrams
  BY InvSplit DEF Handshake, Turn, OtherTypes
<1>2. t \in Time
  BY InvSplit, ConnectionAssumption DEF Handshake, Turn, OtherTypes, Time
<1>3. PICK n \in 0 .. NPairs : DeviceType(dev, n)
  BY <1>1 DEF DeviceInv
<1>4. dev.connected /\ dev.nominated # 0 /\ dev.nominated \in Timely \union {0} /\ n \in Nat
  BY <1>1, <1>3, ConnectionAssumption DEF DeviceInv
<1> DEFINE after == agent_recv(dev, got, t)
           d == IF done THEN [after EXCEPT !.state = "completed"] ELSE after
           next == [d EXCEPT !.ticks = IF d.connected THEN @ ELSE @ + 1]
<1>5. /\ DeviceType(after, n) /\ after.state = "connected" /\ after.connected = TRUE
      /\ after.nominated = dev.nominated
  BY <1>1, <1>2, <1>3, <1>4, RecvFacts DEF DeviceType
<1>6. EndOfTurn(d, net \ got) /\ Turn(dev.state, got, t)
  BY <1>1 DEF Handshake
<1> HIDE DEF after
<1>7. DeviceInv(next)
  <2>1. DeviceType(next, n) /\ next.state \in {"connected", "completed"}
    BY <1>5 DEF DeviceType
  <2>2. next.connected = TRUE /\ next.nominated = dev.nominated
    BY <1>5 DEF DeviceType
  <2> HIDE DEF next
  <2> QED BY <1>4, <2>1, <2>2 DEF DeviceInv
<1> HIDE DEF d
<1> QED BY <1>1, <1>6, <1>7, EndOfTurnInv

(* A turn of a completed connection. *)
LEMMA CompletedTurnInv ==
  ASSUME IInv, NEW got \in OneAtMost, NEW t, CompletedTurn(got, t)
  PROVE  IInv'
<1>1. DeviceInv(dev) /\ dev.state = "completed" /\ OtherTypes /\ net \ got \in SUBSET Datagrams
  BY InvSplit DEF CompletedTurn, Turn, OtherTypes
<1>2. t \in Time /\ got \in SUBSET Datagrams
  BY InvSplit, ConnectionAssumption DEF CompletedTurn, Turn, OtherTypes, Time, OneAtMost
<1>3. PICK n \in 0 .. NPairs : DeviceType(dev, n)
  BY <1>1 DEF DeviceInv
<1>4. dev.connected /\ dev.nominated # 0 /\ dev.nominated \in Timely \union {0} /\ n \in Nat
  BY <1>1, <1>3, ConnectionAssumption DEF DeviceInv
<1> DEFINE after == agent_recv(dev, got, t)
           next == [after EXCEPT !.ticks = IF after.connected THEN @ ELSE @ + 1]
<1>5. /\ DeviceType(after, n) /\ after.state = "completed" /\ after.connected = TRUE
      /\ after.nominated = dev.nominated
  BY <1>1, <1>2, <1>3, <1>4, RecvFacts DEF DeviceType
<1>6. CASE KeepaliveExpired(after, t)
  <2>1. esp_restart /\ Turn(dev.state, got, t)
    BY <1>1, <1>6 DEF CompletedTurn
  <2> QED BY <1>1, <2>1, RestartInv
<1>7. CASE ~KeepaliveExpired(after, t)
  <2>1. EndOfTurn(after, net \ got) /\ Turn(dev.state, got, t)
    BY <1>1, <1>7 DEF CompletedTurn
  <2> HIDE DEF after
  <2>2. DeviceType(next, n) /\ next.state = "completed"
    BY <1>5 DEF DeviceType
  <2>3. next.connected = TRUE /\ next.nominated = dev.nominated
    BY <1>5 DEF DeviceType
  <2>4. DeviceInv(next)
    <3> HIDE DEF next
    <3> QED BY <1>4, <2>2, <2>3 DEF DeviceInv
  <2> QED BY <1>1, <2>1, <2>4, EndOfTurnInv
<1> QED BY <1>6, <1>7

(* The turn in which every pair has failed. *)
LEMMA ChecksFailInv ==
  ASSUME IInv, NEW t, ChecksFail(t)
  PROVE  IInv'
<1>1. OtherTypes /\ esp_restart /\ Turn("checking", {}, t)
  BY InvSplit DEF ChecksFail
<1> QED BY <1>1, RestartInv

(* A turn of checks: the scan keeps the pair's budget, and what is received      *)
(* either leaves the pairs alone or ends the checks.                            *)
LEMMA CheckPairInv ==
  ASSUME IInv, NEW answered \in BOOLEAN, NEW got \in OneAtMost, NEW t,
         CheckPair(answered, got, t)
  PROVE  IInv'
<1> DEFINE selected == agent_select_candidate_pair(dev)
           left == (net \union (IF answered THEN {"response"} ELSE {})) \ got
           after == agent_recv(selected, got, t)
           succeeded == after.pairs[after.nominated].state = "succeeded"
           d == IF succeeded THEN [after EXCEPT !.state = "connected", !.connected = TRUE]
                ELSE after
           next == [d EXCEPT !.ticks = IF d.connected THEN @ ELSE @ + 1]
<1>1. /\ DeviceInv(dev) /\ OtherTypes /\ dev.state = "checking" /\ Candidates(dev.pairs) # {}
      /\ left \in SUBSET Datagrams
  BY InvSplit DEF CheckPair, Turn, OtherTypes, Datagrams
<1>2. t \in Time /\ got \in SUBSET Datagrams
  BY <1>1, ConnectionAssumption DEF CheckPair, Turn, OtherTypes, Time, OneAtMost
<1>3. EndOfTurn(d, left) /\ Turn(dev.state, got, t)
  BY <1>1 DEF CheckPair
<1>4. PICK n \in 0 .. NPairs : DeviceType(dev, n)
  BY <1>1 DEF DeviceInv
<1>5. n \in Nat /\ M \in Nat \ {0} /\ dev.ticks \in 0 .. connect_deadline_ticks - 1
      /\ dev.connected = FALSE
  BY <1>1, <1>4, ConnectionAssumption DEF DeviceType, DeviceInv, M
<1>6. PICK k, pairs : Selected(n, k, pairs)
  BY <1>1, <1>4, <1>5, SelectFacts DEF DeviceType
<1>7. /\ selected = [dev EXCEPT !.pairs = pairs, !.nominated = k]
      /\ k \in 1 .. n /\ pairs \in [1 .. n -> PairType] /\ Checking(pairs, k)
      /\ pairs[k].conncheck \in 0 .. M - 1 /\ pairs[k].state = "inprogress"
      /\ dev.ticks = (k - 1) * M + pairs[k].conncheck
  BY <1>5, <1>6 DEF Selected, PairType, Checking, M
<1> HIDE DEF selected
<1>8. /\ DeviceType(selected, n) /\ selected.state = "checking" /\ selected.nominated = k
      /\ selected.ticks = dev.ticks /\ selected.connected = FALSE /\ selected.pairs = pairs
  <2>1. k \in 0 .. n /\ pairs \in [1 .. n -> PairType]
    BY <1>5, <1>7
  <2>2. DeviceType([dev EXCEPT !.pairs = pairs, !.nominated = k], n)
    BY <1>4, <2>1 DEF DeviceType
  <2>3. DeviceType(selected, n)
    BY <1>7, <2>2
  <2> QED BY <1>1, <1>4, <1>5, <1>7, <2>3 DEF DeviceType
<1>9. /\ DeviceType(after, n) /\ after.state = "checking" /\ after.nominated = k
      /\ after.ticks = dev.ticks /\ after.connected = FALSE
      /\ after.pairs = pairs \/ after.pairs[k].state = "succeeded"
  <2>1. selected.nominated # 0 /\ n \in Nat
    BY <1>5, <1>7, <1>8
  <2> QED BY <1>2, <1>8, <2>1, RecvFacts
<1> HIDE DEF after
<1>10. k \in Timely /\ k # 0
  <2> DEFINE spent == (k - 1) * M
  <2>1. spent \in Int /\ dev.ticks = spent + pairs[k].conncheck
    BY <1>5, <1>7
  <2> HIDE DEF spent
  <2>2. pairs[k].conncheck \in Nat /\ connect_deadline_ticks \in Nat
    BY <1>5, <1>7, ConnectionAssumption
  <2>4. spent < connect_deadline_ticks
    BY <1>5, <2>1, <2>2
  <2>3. k \in 1 .. NPairs
    BY <1>7, ConnectionAssumption
  <2> QED BY <2>3, <2>4 DEF Timely, M, spent
<1>11. CASE succeeded
  <2>1. d = [after EXCEPT !.state = "connected", !.connected = TRUE]
    BY <1>11
  <2> HIDE DEF d
  <2>2. DeviceType(next, n) /\ next.state = "connected"
    BY <1>9, <2>1 DEF DeviceType
  <2>3. next.connected = TRUE /\ next.nominated = k
    BY <1>9, <2>1 DEF DeviceType
  <2>4. DeviceInv(next)
    <3> HIDE DEF next
    <3> QED BY <1>10, <2>2, <2>3 DEF DeviceInv
  <2> QED BY <1>1, <1>3, <2>4, EndOfTurnInv
<1>12. CASE ~succeeded
  <2>1. d = after /\ after.pairs = pairs
    BY <1>9, <1>12
  <2> HIDE DEF d
  <2>2. ASSUME ~WatchdogFires(d) PROVE DeviceInv(next)
    <3>1. /\ dev.ticks + 1 \in 0 .. connect_deadline_ticks - 1
          /\ next = [after EXCEPT !.ticks = dev.ticks + 1]
      BY <1>5, <1>9, <2>1, <2>2, ConnectionAssumption DEF WatchdogFires
    <3> HIDE DEF next
    <3>2. DeviceType(next, n)
      BY <1>9, <3>1 DEF DeviceType
    <3>3. /\ next.state = "checking" /\ next.nominated = k /\ next.connected = FALSE
          /\ next.ticks = dev.ticks + 1 /\ next.pairs = pairs
      BY <1>9, <2>1, <3>1 DEF DeviceType
    <3>4. next.ticks = (k - 1) * M + pairs[k].conncheck + 1
      BY <1>7, <3>3
    <3> QED BY <1>5, <1>7, <1>10, <3>2, <3>3, <3>4 DEF DeviceInv
  <2> QED BY <1>1, <1>3, <2>2, EndOfTurnInv
<1> QED BY <1>11, <1>12

(* An answer makes the pairs, none of which has been checked. *)
LEMMA OfferAnsweredInv ==
  ASSUME IInv, NEW n \in {0, NPairs}, OfferAnswered(n)
  PROVE  IInv'
<1>1. OtherTypes /\ dev = Boot
  BY InvSplit DEF OfferAnswered
<1>2. n \in 0 .. NPairs /\ n \in Nat
  BY ConnectionAssumption
<1>3. dev' = [Boot EXCEPT !.state = "checking", !.pairs = agent_update_candidate_pairs(n)]
  BY <1>1 DEF OfferAnswered
<1>4. /\ agent_update_candidate_pairs(n) \in [1 .. n -> PairType]
      /\ \A j \in 1 .. n : agent_update_candidate_pairs(n)[j].state = "frozen"
  BY <1>2, ConnectionAssumption DEF agent_update_candidate_pairs, Pair, PairType
<1>5. DeviceType(dev', n)
  <2>1. /\ 0 \in 0 .. n /\ 0 \in 0 .. connect_deadline_ticks - 1 /\ 0 \in Time
    BY <1>2, ConnectionAssumption DEF Time
  <2> QED BY <1>3, <1>4, <2>1 DEF Boot, DeviceType
<1>6. /\ dev'.state = "checking" /\ dev'.nominated = 0 /\ dev'.connected = FALSE
      /\ dev'.ticks = 0 /\ dev'.pairs = agent_update_candidate_pairs(n)
  BY <1>3 DEF Boot
<1>7. DeviceInv(dev')
  BY <1>2, <1>4, <1>5, <1>6 DEF DeviceInv
<1>8. OtherTypes' /\ phase' = "loop"
  BY <1>1, ConnectionAssumption DEF OfferAnswered, OtherTypes, Never
<1> QED BY <1>7, <1>8, InvSplitNext

(* The device starts in the invariant. *)
LEMMA InitInv == Init => IInv
<1> SUFFICES ASSUME Init PROVE IInv
  OBVIOUS
<1>1. 0 \in Time /\ Never \in 0 .. Never
  BY ConnectionAssumption DEF Time, Never
<1>2. OtherTypes /\ dev = Boot
  BY <1>1 DEF Init, OtherTypes
<1> QED BY <1>2, BootInv, InvSplit

(* Every step keeps it. *)
LEMMA NextInv == IInv /\ [Next]_vars => IInv'
<1> SUFFICES ASSUME IInv, [Next]_vars PROVE IInv'
  OBVIOUS
<1>1. OtherTypes /\ (phase = "boot" => dev = Boot) /\ DeviceInv(dev)
  BY InvSplit
<1>2. CASE pipecat_init_webrtc
  <2>1. ASSUME OfferUnanswered PROVE IInv'
    BY <1>1, <2>1, InvSplitNext, ConnectionAssumption DEF OfferUnanswered, OtherTypes, Never
  <2> QED BY <1>2, <2>1, OfferAnsweredInv DEF pipecat_init_webrtc
<1>3. ASSUME NEW t, PeerConnectionLoop(t) PROVE IInv'
  BY <1>3, NewTurnInv, ChecksFailInv, CheckPairInv, HandshakeInv, CompletedTurnInv
  DEF PeerConnectionLoop
<1>4. CASE ServerRequest
  BY <1>1, <1>4, InvSplitNext DEF ServerRequest, OtherTypes, Datagrams
<1>5. CASE ServerStops
  BY <1>1, <1>5, InvSplitNext DEF ServerStops, OtherTypes
<1>6. CASE ServerStarts
  BY <1>1, <1>6, InvSplitNext DEF ServerStarts, OtherTypes
<1>7. ASSUME NEW m \in Datagrams, LoseDatagram(m) PROVE IInv'
  BY <1>1, <1>7, InvSplitNext DEF LoseDatagram, OtherTypes
<1>8. CASE UNCHANGED vars
  BY <1>1, <1>8, InvSplitNext DEF vars, OtherTypes
<1> QED BY <1>2, <1>3, <1>4, <1>5, <1>6, <1>7, <1>8 DEF Next

(* The inductive invariant of boot, watchdog and checks. *)
THEOREM InvariantHolds == Spec => []IInv
  BY InitInv, NextInv, PTL DEF Spec

(* Every variable has its type. *)
THEOREM ConnectionTypeOK == Spec => []TypeOK
<1>1. IInv => TypeOK
  BY DEF IInv
<1> QED BY <1>1, InvariantHolds, PTL

(* Each pair takes AGENT_CONNCHECK_MAX turns of the watchdog's count, no more and *)
(* no less: main.cpp and agent.c count the same turns.                          *)
THEOREM PairBudgetHolds == Spec => []PairBudget
<1>1. IInv => PairBudget
  BY DEF IInv
<1> QED BY <1>1, InvariantHolds, PTL

(* A pair that comes after connect_deadline_ticks turns is never nominated, in   *)
(* no boot: with the firmware's numbers only the first two are ever tried.       *)
THEOREM LatePairsAreNeverTried == Spec => [](dev.nominated \in Timely \union {0})
<1>1. IInv => dev.nominated \in Timely \union {0}
  BY DEF IInv
<1> QED BY <1>1, InvariantHolds, PTL

(***************************************************************************)
(* The keepalive.  The clock wraps, but within the keepalive time of a       *)
(* binding request the wrapped difference is the silence.                    *)
(***************************************************************************)
KeepaliveInv ==
  phase = "loop" /\ quiet <= KEEPALIVE_TIMEOUT =>
    (now - dev.binding_request_time) % ClockMod = quiet

(* The difference of two times on the clock, wrapped or not. *)
LEMMA WrappedDifference ==
  ASSUME NEW a \in Time, NEW b \in Time
  PROVE  (a - b) % ClockMod = IF a >= b THEN a - b ELSE a - b + ClockMod
<1>1. ClockMod \in Nat \ {0} /\ a \in 0 .. ClockMod - 1 /\ b \in 0 .. ClockMod - 1
  BY ConnectionAssumption DEF Time
<1>2. CASE a >= b
  <2>1. a - b \in 0 .. ClockMod - 1 /\ a - b = ClockMod * 0 + (a - b)
    BY <1>1, <1>2
  <2> QED BY <1>1, <1>2, <2>1, RemainderUnique
<1>3. CASE a < b
  <2>1. /\ a - b + ClockMod \in 0 .. ClockMod - 1 /\ -1 \in Int /\ a - b \in Int
        /\ a - b = ClockMod * (-1) + (a - b + ClockMod)
    BY <1>1, <1>3
  <2> QED BY <1>1, <1>3, <2>1, RemainderUnique
<1> QED BY <1>1, <1>2, <1>3

(* What comes after a time on the clock. *)
LEMMA WrappedSuccessor ==
  ASSUME NEW a \in Time
  PROVE  (a + 1) % ClockMod = IF a + 1 = ClockMod THEN 0 ELSE a + 1
  BY ConnectionAssumption DEF Time

(* One more unit of silence is one more of the difference. *)
LEMMA SilenceGrows ==
  ASSUME NEW a \in Time, NEW b \in Time, NEW q \in 0 .. KEEPALIVE_TIMEOUT,
         (a - b) % ClockMod = q
  PROVE  (((a + 1) % ClockMod) - b) % ClockMod = q + 1
<1>1. (a + 1) % ClockMod \in Time
  BY WrappedSuccessor, ConnectionAssumption DEF Time
<1>2. (((a + 1) % ClockMod) - b) % ClockMod =
        IF (a + 1) % ClockMod >= b THEN ((a + 1) % ClockMod) - b
        ELSE ((a + 1) % ClockMod) - b + ClockMod
  BY <1>1, WrappedDifference
<1>3. q = IF a >= b THEN a - b ELSE a - b + ClockMod
  BY WrappedDifference
<1>4. q + 1 < ClockMod /\ a \in Nat /\ b \in Nat /\ a < ClockMod /\ b < ClockMod /\ q \in Nat
      /\ ClockMod \in Nat
  BY ConnectionAssumption DEF Time
<1>5. CASE a + 1 = ClockMod
  BY <1>2, <1>3, <1>4, <1>5, WrappedSuccessor
<1>6. CASE a + 1 # ClockMod
  BY <1>2, <1>3, <1>4, <1>6, WrappedSuccessor
<1> QED BY <1>5, <1>6

(* The time a turn leaves, unless it restarts the device. *)
LEMMA TurnKeepsTime ==
  ASSUME IInv, NEW t, PeerConnectionLoop(t), phase' = "loop"
  PROVE  \E state, got : /\ Turn(state, got, t)
                         /\ dev'.binding_request_time =
                              IF "request" \in got THEN t ELSE dev.binding_request_time
<1>1. PICK n \in 0 .. NPairs : DeviceType(dev, n)
  BY InvSplit DEF DeviceInv
<1>2. ASSUME NEW d, NEW left, EndOfTurn(d, left), DeviceType(d, n)
      PROVE  dev'.binding_request_time = d.binding_request_time
  BY <1>2 DEF EndOfTurn, esp_restart, DeviceType
<1>3. CASE NewTurn(t)
  <2>1. Turn("new", {}, t) /\ dev'.binding_request_time = dev.binding_request_time
    BY <1>1, <1>2, <1>3 DEF NewTurn
  <2> QED BY <2>1
<1>4. CASE ChecksFail(t)
  BY <1>4 DEF ChecksFail, esp_restart
<1>5. ASSUME NEW answered \in BOOLEAN, NEW got \in OneAtMost, CheckPair(answered, got, t)
      PROVE  /\ Turn("checking", got, t)
             /\ dev'.binding_request_time =
                  IF "request" \in got THEN t ELSE dev.binding_request_time
  <2> DEFINE selected == agent_select_candidate_pair(dev)
             after == agent_recv(selected, got, t)
             connected == [after EXCEPT !.state = "connected", !.connected = TRUE]
             b == IF "request" \in got THEN t ELSE dev.binding_request_time
             d == IF after.pairs[after.nominated].state = "succeeded" THEN connected ELSE after
             left == (net \union (IF answered THEN {"response"} ELSE {})) \ got
  <2>1. EndOfTurn(d, left)
    BY <1>5 DEF CheckPair
  <2>2. PICK pairs, k : selected = [dev EXCEPT !.pairs = pairs, !.nominated = k]
    BY DEF agent_select_candidate_pair
  <2>3. /\ selected.binding_request_time = dev.binding_request_time
        /\ "binding_request_time" \in DOMAIN selected
    BY <1>1, <2>2 DEF DeviceType
  <2> HIDE DEF selected
  <2>4. after.binding_request_time = b /\ "binding_request_time" \in DOMAIN after
    BY <2>3 DEF agent_recv
  <2> HIDE DEF after, b
  <2>5. /\ after.binding_request_time = b /\ connected.binding_request_time = b
        /\ "binding_request_time" \in DOMAIN connected \intersect DOMAIN after
    BY <2>4
  <2> HIDE DEF connected
  <2>6. d.binding_request_time = b /\ "binding_request_time" \in DOMAIN d
    BY <2>5
  <2> HIDE DEF d
  <2>7. dev' = [d EXCEPT !.ticks = IF d.connected THEN @ ELSE @ + 1]
    BY <2>1 DEF EndOfTurn, esp_restart
  <2>8. dev'.binding_request_time = d.binding_request_time
    BY <2>7, <2>6
  <2> QED BY <1>5, <2>8, <2>6 DEF b, CheckPair
<1>6. ASSUME NEW done \in BOOLEAN, NEW got \in SUBSET Datagrams, Handshake(done, got, t)
      PROVE  /\ Turn("connected", got, t)
             /\ dev'.binding_request_time =
                  IF "request" \in got THEN t ELSE dev.binding_request_time
  BY <1>1, <1>6 DEF Handshake, EndOfTurn, esp_restart, agent_recv, DeviceType
<1>7. ASSUME NEW got \in OneAtMost, CompletedTurn(got, t)
      PROVE  /\ Turn("completed", got, t)
             /\ dev'.binding_request_time =
                  IF "request" \in got THEN t ELSE dev.binding_request_time
  BY <1>1, <1>7 DEF CompletedTurn, EndOfTurn, esp_restart, agent_recv, DeviceType
<1> QED BY <1>3, <1>4, <1>5, <1>6, <1>7 DEF PeerConnectionLoop

(* A turn of the loop keeps the difference equal to the silence. *)
LEMMA TurnKeepsKeepalive ==
  ASSUME IInv, KeepaliveInv, NEW t, PeerConnectionLoop(t)
  PROVE  KeepaliveInv'
<1> SUFFICES ASSUME phase' = "loop", (quiet <= KEEPALIVE_TIMEOUT)'
             PROVE  ((now - dev.binding_request_time) % ClockMod = quiet)'
  BY DEF KeepaliveInv
<1>1. PICK state, got : /\ Turn(state, got, t)
                        /\ dev'.binding_request_time =
                             IF "request" \in got THEN t ELSE dev.binding_request_time
  BY TurnKeepsTime
<1>2. /\ t \in Time /\ now' = t /\ now \in Time /\ phase = "loop"
      /\ dev.binding_request_time \in Time /\ quiet \in 0 .. Never
      /\ KEEPALIVE_TIMEOUT \in Nat
  BY <1>1, InvSplit, TurnTypes, ConnectionAssumption DEF Turn, OtherTypes, DeviceInv, DeviceType
<1>3. CASE "request" \in got
  BY <1>1, <1>2, <1>3, WrappedDifference DEF Turn, Time
<1>4. CASE "request" \notin got /\ (t = now \/ quiet > KEEPALIVE_TIMEOUT)
  BY <1>1, <1>2, <1>4, ConnectionAssumption DEF Turn, KeepaliveInv, Never
<1>5. CASE "request" \notin got /\ ~(t = now \/ quiet > KEEPALIVE_TIMEOUT)
  <2>1. t = (now + 1) % ClockMod /\ quiet' = quiet + 1 /\ quiet \in 0 .. KEEPALIVE_TIMEOUT
    BY <1>1, <1>2, <1>5, ConnectionAssumption DEF Turn, Never
  <2>2. (now - dev.binding_request_time) % ClockMod = quiet
    BY <1>2, <2>1 DEF KeepaliveInv
  <2> QED BY <1>1, <1>2, <1>5, <2>1, <2>2, SilenceGrows
<1> QED BY <1>3, <1>4, <1>5

(* The keepalive's difference is the silence, as long as that is not too long. *)
LEMMA KeepaliveInvariant == Spec => []KeepaliveInv
<1>1. Init => KeepaliveInv
  BY DEF Init, KeepaliveInv
<1>2. IInv /\ KeepaliveInv /\ [Next]_vars => KeepaliveInv'
  <2> SUFFICES ASSUME IInv, KeepaliveInv, [Next]_vars PROVE KeepaliveInv'
    OBVIOUS
  <2>1. CASE pipecat_init_webrtc
    BY <2>1, ConnectionAssumption
    DEF pipecat_init_webrtc, OfferAnswered, OfferUnanswered, KeepaliveInv, Never
  <2>2. ASSUME NEW t, PeerConnectionLoop(t) PROVE KeepaliveInv'
    BY <2>2, TurnKeepsKeepalive
  <2>3. CASE ServerRequest \/ ServerStops \/ ServerStarts \/ UNCHANGED vars
    BY <2>3 DEF ServerRequest, ServerStops, ServerStarts, vars, KeepaliveInv
  <2>4. ASSUME NEW m \in Datagrams, LoseDatagram(m) PROVE KeepaliveInv'
    BY <2>4 DEF LoseDatagram, KeepaliveInv
  <2> QED BY <2>1, <2>2, <2>3, <2>4 DEF Next
<1> QED BY <1>1, <1>2, InvariantHolds, PTL DEF Spec

(* The turn that closes a connection leaves the time of the last request as it   *)
(* was, and finds it too far away.                                              *)
LEMMA ClosingTurn ==
  ASSUME IInv, [Next]_vars, Closes
  PROVE  \E t \in Time, got \in OneAtMost :
           /\ Turn("completed", got, t)
           /\ "request" \notin got
           /\ KeepaliveExpired(dev, t)
<1>1. DeviceInv(dev) /\ phase = "loop" /\ dev # Boot /\ OtherTypes
  BY InvSplit DEF Closes, Boot, OtherTypes
<1>2. PICK n \in 0 .. NPairs : DeviceType(dev, n)
  BY <1>1 DEF DeviceInv
<1>3. PICK t : PeerConnectionLoop(t)
  BY <1>1 DEF Next, vars, Closes, pipecat_init_webrtc, OfferAnswered, OfferUnanswered,
             ServerRequest, ServerStops, ServerStarts, LoseDatagram
<1>4. PICK got \in OneAtMost : CompletedTurn(got, t)
  BY <1>3 DEF PeerConnectionLoop, Closes, NewTurn, ChecksFail, CheckPair, Handshake, Turn
<1> DEFINE after == agent_recv(dev, got, t)
<1>5. Turn("completed", got, t) /\ t \in Time
  BY <1>1, <1>4, TurnTypes DEF CompletedTurn
<1>6. after.connected = dev.connected
  BY <1>2 DEF agent_recv, DeviceType
<1>7. KeepaliveExpired(after, t)
  <2>1. dev.connected
    BY <1>1 DEF DeviceInv, Closes
  <2>2. ~WatchdogFires(after)
    BY <1>6, <2>1 DEF WatchdogFires
  <2> QED BY <1>1, <1>4, <2>2 DEF CompletedTurn, EndOfTurn, Closes
<1>8. "request" \notin got
  <2>1. ASSUME "request" \in got PROVE after.binding_request_time = t
    BY <1>2, <2>1 DEF agent_recv, DeviceType
  <2> QED BY <1>5, <1>7, <2>1, ConnectionAssumption DEF KeepaliveExpired, Time
<1>9. after.binding_request_time = dev.binding_request_time
  BY <1>2, <1>8 DEF agent_recv, DeviceType
<1> QED BY <1>5, <1>7, <1>8, <1>9 DEF KeepaliveExpired

(* A connection is closed only when the server was silent for the keepalive time, *)
(* or the clock wrapped below the time of its last request.                      *)
THEOREM ClosedOnlyWhenSilentHolds == Spec => ClosedOnlyWhenSilent
<1>1. ASSUME IInv, KeepaliveInv, [Next]_vars, Closes
      PROVE  quiet' > KEEPALIVE_TIMEOUT \/ now' < dev.binding_request_time
  <2>1. PICK t \in Time, got \in OneAtMost :
               /\ Turn("completed", got, t)
               /\ "request" \notin got
               /\ KeepaliveExpired(dev, t)
    BY <1>1, ClosingTurn
  <2>2. /\ now' = t /\ now \in Time /\ phase = "loop" /\ dev.binding_request_time \in Time
        /\ quiet \in 0 .. Never
    BY <1>1, <2>1, InvSplit DEF Turn, OtherTypes, DeviceInv, DeviceType
  <2>3. (t - dev.binding_request_time) % ClockMod = quiet' \/ quiet' > KEEPALIVE_TIMEOUT
    <3>1. CASE quiet > KEEPALIVE_TIMEOUT
      BY <2>1, <3>1 DEF Turn
    <3>2. CASE quiet <= KEEPALIVE_TIMEOUT
      <4>1. (now - dev.binding_request_time) % ClockMod = quiet
        BY <1>1, <2>2, <3>2 DEF KeepaliveInv
      <4>2. CASE t = now
        BY <2>1, <3>2, <4>1, <4>2 DEF Turn
      <4>3. CASE t # now
        <5>1. t = (now + 1) % ClockMod /\ quiet' = quiet + 1
          BY <2>1, <2>2, <3>2, <4>3, ConnectionAssumption DEF Turn, Never
        <5>2. quiet \in 0 .. KEEPALIVE_TIMEOUT
          BY <2>2, <3>2, ConnectionAssumption DEF Never
        <5> QED BY <2>2, <4>1, <5>1, <5>2, SilenceGrows
      <4> QED BY <4>2, <4>3
    <3> QED BY <2>2, <3>1, <3>2, ConnectionAssumption DEF Never
  <2>4. CASE t < dev.binding_request_time
    BY <2>2, <2>4
  <2>5. CASE t - dev.binding_request_time > KEEPALIVE_TIMEOUT
    <3>1. t >= dev.binding_request_time
      BY <2>2, <2>5, ConnectionAssumption DEF Time
    <3>2. (t - dev.binding_request_time) % ClockMod = t - dev.binding_request_time
      BY <2>2, <3>1, WrappedDifference
    <3> QED BY <2>3, <2>5, <3>2
  <2> QED BY <2>1, <2>4, <2>5 DEF KeepaliveExpired
<1>2. IInv /\ KeepaliveInv /\ [Next]_vars
        => [Closes => quiet' > KEEPALIVE_TIMEOUT \/ now' < dev.binding_request_time]_vars
  BY <1>1
<1> QED BY <1>2, InvariantHolds, KeepaliveInvariant, PTL DEF Spec, ClosedOnlyWhenSilent

(* A completed connection does not outlive the turn in which the silence reaches *)
(* past the keepalive time: the wrapped clock can close it too early, never late. *)
THEOREM SilentPeerIsClosedHolds == Spec => SilentPeerIsClosed
<1>1. ASSUME IInv, KeepaliveInv, [Next]_vars, SilencePasses
      PROVE  Closes
  <2>1. /\ OtherTypes /\ quiet = KEEPALIVE_TIMEOUT /\ quiet' = KEEPALIVE_TIMEOUT + 1
        /\ dev.state = "completed" /\ KEEPALIVE_TIMEOUT \in Nat /\ quiet' # Never
        /\ quiet' # quiet
    BY <1>1, InvSplit, ConnectionAssumption DEF SilencePasses, Never
  <2>2. phase = "loop"
    BY <1>1, <2>1, InvSplit DEF Boot, OtherTypes
  <2>3. PICK t : PeerConnectionLoop(t)
    BY <1>1, <2>1, <2>2 DEF Next, vars, pipecat_init_webrtc, OfferAnswered, OfferUnanswered,
                           ServerRequest, ServerStops, ServerStarts, LoseDatagram
  <2>4. PICK got \in OneAtMost : CompletedTurn(got, t)
    BY <2>1, <2>3 DEF PeerConnectionLoop, NewTurn, ChecksFail, CheckPair, Handshake, Turn
  <2>5. /\ t = (now + 1) % ClockMod /\ "request" \notin got /\ t \in Time /\ now \in Time
    BY <2>1, <2>4, TurnTypes DEF CompletedTurn, Turn, OtherTypes
  <2>6. PICK n \in 0 .. NPairs : DeviceType(dev, n)
    BY <1>1, InvSplit DEF DeviceInv
  <2> DEFINE b == dev.binding_request_time
  <2>7. b \in Time /\ agent_recv(dev, got, t).binding_request_time = b
    BY <2>5, <2>6 DEF agent_recv, DeviceType
  <2>8. (t - b) % ClockMod = KEEPALIVE_TIMEOUT + 1
    <3>1. (now - b) % ClockMod = KEEPALIVE_TIMEOUT
      BY <1>1, <2>1, <2>2 DEF KeepaliveInv
    <3>2. KEEPALIVE_TIMEOUT \in 0 .. KEEPALIVE_TIMEOUT
      BY <2>1
    <3> HIDE DEF b
    <3> QED BY <2>5, <2>7, <3>1, <3>2, SilenceGrows
  <2>9. t < b \/ t - b > KEEPALIVE_TIMEOUT
    <3> HIDE DEF b
    <3>1. t \in Nat /\ b \in Nat
      BY <2>5, <2>7, ConnectionAssumption DEF Time
    <3>2. (t - b) % ClockMod = IF t >= b THEN t - b ELSE t - b + ClockMod
      BY <2>5, <2>7, WrappedDifference
    <3> QED BY <2>1, <2>8, <3>1, <3>2
  <2>10. KeepaliveExpired(agent_recv(dev, got, t), t)
    BY <2>7, <2>9 DEF KeepaliveExpired
  <2> QED BY <2>1, <2>4, <2>10 DEF CompletedTurn, esp_restart, Closes
<1>2. IInv /\ KeepaliveInv /\ [Next]_vars => [SilencePasses => Closes]_vars
  BY <1>1
<1> QED BY <1>2, InvariantHolds, KeepaliveInvariant, PTL DEF Spec, SilentPeerIsClosed
=============================================================================
