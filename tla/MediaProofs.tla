---------------------------- MODULE MediaProofs ----------------------------
(***************************************************************************)
(* Proofs about the state that the tasks of src/media.cpp share without a   *)
(* lock, for every size of it: first the playback ring, then the phase of   *)
(* the LED ring.                                                            *)
(*                                                                         *)
(* The ring's inductive invariant says what a task knows while it holds a   *)
(* stale load: a producer's play_ring_tail is one that was right and at     *)
(* most a ring behind, the playback task's play_ring_head one that is no    *)
(* longer right but not ahead.  Most of it holds as long as one task pushes *)
(* and nothing was overrun: an overrun moves the playback task's counter.   *)
(***************************************************************************)
EXTENDS PlayRingProps, LedRingProps, ArithmeticLemmas

(* One task pushes: the stream or the self-test, not both. *)
OnePushes == clips = 0 \/ frames = 0
Pusher == IF clips = 0 THEN "webrtc" ELSE "http"

AllSteps == {"idle", "count", "drop", "write", "publish", "pop", "release",
             "playing", "reset"}

Push == [n : Nat, done : Nat, loud : BOOLEAN]

RingTypes ==
  /\ play_ring \in [0 .. PLAY_RING_SAMPLES - 1 -> Sample]
  /\ play_ring_head \in Counter /\ play_ring_tail \in Counter
  /\ play_ring_drops \in BOOLEAN /\ g_play_stat_underruns \in BOOLEAN
  /\ is_playing \in BOOLEAN /\ silence_count \in 0 .. frames
  /\ pc \in [Tasks -> AllSteps] /\ \A t \in Tasks : pc[t] \in Steps[t]
  /\ head \in [Tasks -> Counter \cup {NotLoaded}]
  /\ tail \in [Tasks -> Counter \cup {NotLoaded}]
  /\ push \in [Producers -> Push]
  /\ pushed \in [Producers -> Nat] /\ played \in Nat /\ seen \in Nat
  /\ workload \in Workloads
  /\ clips \in 0 .. workload.clips /\ frames \in 0 .. workload.frames
  /\ resets \in 0 .. workload.resets
  /\ prebuffering \in BOOLEAN
  /\ pop_buf \in Seq(Sample) /\ Len(pop_buf) <= PCM_SAMPLES_PER_FRAME

(* What the tasks' locals look like at each of their steps.                   *)
Unloaded(t) == head[t] = NotLoaded /\ tail[t] = NotLoaded

StreamShape ==
  /\ frames = 0 =>
       pc["webrtc"] = "idle" /\ pushed["webrtc"] = 0 /\ ~play_ring_drops
  /\ push["webrtc"].n = IF pc["webrtc"] = "idle" THEN 0
                        ELSE PCM_SAMPLES_PER_FRAME
  /\ push["webrtc"].done <= push["webrtc"].n
  /\ pc["webrtc"] = "publish" => push["webrtc"].done = push["webrtc"].n
  /\ pc["webrtc"] \notin {"write", "publish"} => push["webrtc"].done = 0
  /\ pc["webrtc"] = "drop" => tail["webrtc"] # NotLoaded
  /\ pc["webrtc"] = "publish" => head["webrtc"] # NotLoaded
  /\ pc["webrtc"] = "idle" => Unloaded("webrtc")

ClipShape ==
  /\ clips = 0 => pc["http"] = "idle"
  /\ IF pc["http"] = "idle" THEN pushed["http"] = clips * ClipSamples
     ELSE push["http"].n <= ClipLeft
  /\ push["http"].done <= push["http"].n
  /\ pc["http"] = "publish" => push["http"].done = push["http"].n
  /\ pc["http"] \notin {"write", "publish"} => push["http"].n = 0
  /\ pc["http"] = "publish" => head["http"] # NotLoaded
  /\ pc["http"] = "idle" => Unloaded("http")

PopShape ==
  /\ pc["playback"] = "count" => pop_buf = <<>>
  /\ pc["playback"] = "release" =>
       Len(pop_buf) = PCM_SAMPLES_PER_FRAME /\ tail["playback"] # NotLoaded

GuardShape == pc["rtvi"] # "count" => Unloaded("rtvi")

PushShape == StreamShape /\ ClipShape /\ PopShape /\ GuardShape

HeadOf(t) ==
  /\ pc[t] \in {"count", "drop"} /\ head[t] # NotLoaded =>
       head[t] = Published % CounterMod
  /\ pc[t] = "publish" => head[t] = (Published + push[t].n) % CounterMod
HeadIsPublished ==
  play_ring_head = Published % CounterMod /\ \A t \in Producers : HeadOf(t)

Whole(x) == \E k \in Nat : x = k * PCM_SAMPLES_PER_FRAME

Writing == push["webrtc"].done + push["http"].done

TailIsPlayed ==
  /\ play_ring_tail = played % CounterMod
  /\ played <= Published
  /\ Published <= played + PLAY_RING_SAMPLES
RoomFor(t) ==
  /\ pc[t] = "count" /\ tail[t] # NotLoaded =>
       \E a \in 0 .. played : /\ Published <= a + PLAY_RING_SAMPLES
                              /\ tail[t] = a % CounterMod
  /\ pc[t] \in {"write", "publish"} =>
       Published + push[t].n <= played + PLAY_RING_SAMPLES
FrameToPop ==
  /\ pc["playback"] = "count" =>
       /\ tail["playback"] # NotLoaded => tail["playback"] = played % CounterMod
       /\ head["playback"] # NotLoaded =>
            \E b \in played .. Published : /\ head["playback"] = b % CounterMod
                                           /\ clips = 0 => Whole(b)
  /\ pc["playback"] \in {"pop", "release"} =>
       played + PCM_SAMPLES_PER_FRAME <= Published
  /\ pc["playback"] = "release" =>
       tail["playback"] = (played + PCM_SAMPLES_PER_FRAME) % CounterMod
WholeFrames ==
  clips = 0 => Whole(Published) /\ Whole(played) /\ ~g_play_stat_underruns
CountersInStep ==
  /\ TailIsPlayed /\ \A t \in Producers : RoomFor(t)
  /\ FrameToPop /\ WholeFrames

GuardInStep ==
  Published < CounterMod =>
    /\ seen <= Published
    /\ pc["rtvi"] = "count" /\ head["rtvi"] # NotLoaded => head["rtvi"] = seen
    /\ pc["rtvi"] = "count" /\ tail["rtvi"] # NotLoaded =>
         tail["rtvi"] \in 0 .. played
    /\ pc["rtvi"] \in {"playing", "reset"} => seen <= played

IsSample(s, p) == s.from = Pusher /\ s.pos = p
ContentsInOrder ==
  /\ \A p \in played + 1 .. Published + Writing :
       IsSample(play_ring[(p - 1) % PLAY_RING_SAMPLES], p)
  /\ \A i \in 1 .. Len(pop_buf) : IsSample(pop_buf[i], played + i)

RingInStep ==
  OnePushes =>
    /\ HeadIsPublished
    /\ ~play_ring_drops => CountersInStep /\ GuardInStep /\ ContentsInOrder

QuietFor ==
  IF pc["webrtc"] = "idle"
  THEN (IF is_playing THEN silence_count ELSE PLAYBACK_SILENCE_FRAMES - 1)
         * PCM_SAMPLES_PER_FRAME
  ELSE IF push["webrtc"].loud THEN 0
       ELSE (silence_count - 1) * PCM_SAMPLES_PER_FRAME
Quiet(slot) == ~play_ring[slot % PLAY_RING_SAMPLES].loud
GateOpen ==
  /\ is_playing => silence_count < PLAYBACK_SILENCE_FRAMES
  /\ pc["webrtc"] # "idle" =>
       is_playing /\ (push["webrtc"].loud <=> silence_count = 0)
QuietPublished ==
  \A i \in 1 .. PLAY_RING_SAMPLES : i <= QuietFor => Quiet(Published - i)
QuietWritten ==
  push["webrtc"].loud \/
    \A j \in 0 .. push["webrtc"].done - 1 : Quiet(Published + j)
QuietBehind == clips = 0 => GateOpen /\ QuietPublished /\ QuietWritten

RingInv == RingTypes /\ PushShape /\ RingInStep /\ QuietBehind
-----------------------------------------------------------------------------
(* Free-running counters.  Under the mask of the ring and under the wrap of    *)
(* the counters a position is what is left of it.                             *)
LEMMA RingSizes ==
  /\ PLAY_RING_SAMPLES \in Nat \ {0}
  /\ CounterMod \in Nat \ {0}
  /\ PCM_SAMPLES_PER_FRAME \in Nat \ {0}
  /\ PCM_SAMPLES_PER_FRAME <= PLAY_RING_SAMPLES
  /\ PLAY_RING_SAMPLES < CounterMod
  /\ PLAYBACK_SILENCE_FRAMES \in Nat \ {0}
  /\ ClipSamples \in Nat
  /\ Counter = 0 .. CounterMod - 1
  BY RingAssumption DEF Counter

(* Whole turns do not change a remainder. *)
LEMMA AddTurns ==
  ASSUME NEW x \in Int, NEW k \in Int, NEW m \in Nat \ {0}
  PROVE  (x + m * k) % m = x % m
<1> DEFINE q == x \div m
<1> DEFINE r == x % m
<1>1. q \in Int /\ r \in 0 .. m - 1 /\ x = m * q + r
  BY RemainderRange
<1> HIDE DEF q, r
<1>2. m * (q + k) = m * q + m * k /\ q + k \in Int /\ m * k \in Int
  BY <1>1
<1>3. x + m * k = m * (q + k) + r /\ x + m * k \in Int
  BY <1>1, <1>2
<1>4. (x + m * k) % m = r
  <2> DEFINE y == x + m * k
  <2> DEFINE p == q + k
  <2>1. y = m * p + r /\ y \in Int /\ p \in Int
    BY <1>2, <1>3
  <2> HIDE DEF y, p
  <2>2. y % m = r
    BY <1>1, <2>1, RemainderUnique
  <2> QED BY <2>2 DEF y
<1> QED BY <1>4 DEF r

(* Equal remainders are whole turns apart. *)
LEMMA SameRemainder ==
  ASSUME NEW x \in Int, NEW y \in Int, NEW m \in Nat \ {0}, x % m = y % m,
         x - y < m, y - x < m
  PROVE  x = y
<1> DEFINE p == x \div m
<1> DEFINE q == y \div m
<1> DEFINE r == x % m
<1>1. p \in Int /\ q \in Int /\ r \in Int /\ x = m * p + r /\ y = m * q + r
  BY RemainderRange
<1> HIDE DEF p, q, r
<1>2. m * (p - q) = m * p - m * q /\ p - q \in Int
  BY <1>1
<1>3. m * (p - q) = x - y
  BY <1>1, <1>2
<1>4. p - q = 0
  BY <1>2, <1>3, NoMultipleInside
<1>5. p = q
  BY <1>1, <1>4
<1> QED BY <1>1, <1>5

(* play_ring_count: two counters give the distance of what they count. *)
LEMMA CountIsDistance ==
  ASSUME NEW x \in Int, NEW y \in Int, x - y \in 0 .. CounterMod - 1
  PROVE  ((x % CounterMod) - (y % CounterMod)) % CounterMod = x - y
<1> DEFINE m == CounterMod
<1> DEFINE p == x \div m
<1> DEFINE q == y \div m
<1> DEFINE r == x % m
<1> DEFINE s == y % m
<1>1. /\ m \in Nat \ {0}
      /\ p \in Int /\ q \in Int /\ r \in Int /\ s \in Int
      /\ x = m * p + r /\ y = m * q + s
      /\ x - y \in 0 .. m - 1
  <2>1. m \in Nat \ {0} /\ x - y \in 0 .. m - 1
    BY RingSizes
  <2> HIDE DEF m
  <2> QED BY <2>1, RemainderRange
<1>2. SUFFICES (r - s) % m = x - y
  OBVIOUS
<1> HIDE DEF m, p, q, r, s
<1>3. m * (q - p) = m * q - m * p /\ q - p \in Int
  BY <1>1
<1>4. r - s = m * (q - p) + (x - y) /\ r - s \in Int
  BY <1>1, <1>3
<1> DEFINE d == r - s
<1> DEFINE k == q - p
<1> DEFINE e == x - y
<1>5. d \in Int /\ k \in Int /\ e \in 0 .. m - 1 /\ d = m * k + e
  BY <1>1, <1>3, <1>4
<1> HIDE DEF d, k, e
<1>6. d % m = e
  BY <1>1, <1>5, RemainderUnique
<1> QED BY <1>6 DEF d, e

(* A counter that goes on, and the slot behind or ahead of a counter, are      *)
(* those of the position it stands for.                                       *)
LEMMA CounterGoesOn ==
  ASSUME NEW x \in Int, NEW n \in Int
  PROVE  /\ ((x % CounterMod) + n) % CounterMod = (x + n) % CounterMod
         /\ Slot(x % CounterMod, n) = (x + n) % PLAY_RING_SAMPLES
<1> DEFINE m == CounterMod
<1> DEFINE q == x \div m
<1> DEFINE r == x % m
<1>1. /\ m \in Nat \ {0} /\ q \in Int /\ r \in Int /\ x = m * q + r
  <2>1. m \in Nat \ {0}
    BY RingSizes
  <2> HIDE DEF m
  <2> QED BY <2>1, RemainderRange
<1>2. r + n = (x + n) + m * (-q) /\ x + n \in Int /\ -q \in Int
  <2>1. m * (-q) = -(m * q)
    BY <1>1
  <2> QED BY <1>1, <2>1
<1>3. (r + n) % m = (x + n) % m
  <2> DEFINE y == x + n
  <2> DEFINE k == -q
  <2>1. y \in Int /\ k \in Int /\ r + n = y + m * k
    BY <1>2
  <2> HIDE DEF y, k, m, r
  <2>2. (y + m * k) % m = y % m
    BY <1>1, <2>1, AddTurns
  <2> QED BY <2>1, <2>2 DEF y
<1>4. (r + n) % PLAY_RING_SAMPLES = (x + n) % PLAY_RING_SAMPLES
  <2> DEFINE R == PLAY_RING_SAMPLES
  <2> DEFINE t == m \div R
  <2>1. R \in Nat \ {0} /\ m \in Int /\ m % R = 0
    BY RingSizes, RingAssumption
  <2>2. t \in Int /\ m = R * t
    BY <2>1, RemainderRange
  <2> DEFINE y == x + n
  <2> DEFINE k == t * (-q)
  <2>3. y \in Int /\ k \in Int /\ r + n = y + m * (-q)
    BY <1>1, <1>2, <2>2
  <2> HIDE DEF y, m, r, R, t, q
  <2>4. m * (-q) = R * (t * (-q))
    BY <1>1, <2>1, <2>2
  <2>5. r + n = y + R * k
    BY <2>3, <2>4
  <2> HIDE DEF k
  <2>6. (y + R * k) % R = y % R
    BY <2>1, <2>3, AddTurns
  <2> QED BY <2>5, <2>6 DEF y, R
<1> QED BY <1>3, <1>4 DEF Slot

(* Positions less than a ring apart have slots of their own. *)
LEMMA SlotsDiffer ==
  ASSUME NEW x \in Int, NEW y \in Int, x # y,
         x - y < PLAY_RING_SAMPLES, y - x < PLAY_RING_SAMPLES
  PROVE  x % PLAY_RING_SAMPLES # y % PLAY_RING_SAMPLES
  BY RingSizes, SameRemainder

LEMMA InRing ==
  ASSUME NEW x \in Int
  PROVE  /\ x % PLAY_RING_SAMPLES \in 0 .. PLAY_RING_SAMPLES - 1
         /\ x % CounterMod \in Counter
         /\ x % CounterMod # NotLoaded
<1>1. PLAY_RING_SAMPLES \in Nat \ {0} /\ CounterMod \in Nat \ {0}
  BY RingSizes
<1>2. x % PLAY_RING_SAMPLES \in 0 .. PLAY_RING_SAMPLES - 1
  BY <1>1, RemainderRange
<1>3. x % CounterMod \in 0 .. CounterMod - 1
  BY <1>1, RemainderRange
<1> QED BY <1>1, <1>2, <1>3 DEF NotLoaded, Counter

LEMMA SmallRemainder ==
  ASSUME NEW x \in 0 .. CounterMod - 1
  PROVE  x % CounterMod = x
<1>1. x = CounterMod * 0 + x
  BY RingSizes
<1> QED BY <1>1, RingSizes, RemainderUnique

(* Whole frames: what is left of one is all of it or nothing. *)
LEMMA NoPartialFrame ==
  ASSUME NEW x \in Nat, NEW y \in Nat, Whole(x), Whole(y), y <= x,
         x - y < PCM_SAMPLES_PER_FRAME
  PROVE  x = y
<1>1. PICK j \in Nat : x = j * PCM_SAMPLES_PER_FRAME
  BY DEF Whole
<1>2. PICK k \in Nat : y = k * PCM_SAMPLES_PER_FRAME
  BY DEF Whole
<1> DEFINE m == PCM_SAMPLES_PER_FRAME
<1>3. m \in Nat \ {0} /\ x = j * m /\ y = k * m /\ x - y < m /\ 0 <= x - y
  BY <1>1, <1>2, RingSizes
<1> HIDE DEF m
<1>4. m * (j - k) = x - y /\ j - k \in Int
  BY <1>3
<1>5. j - k = 0
  BY <1>3, <1>4, NoMultipleInside
<1> QED BY <1>3, <1>5

LEMMA NextWhole ==
  ASSUME NEW x \in Nat, Whole(x)
  PROVE  Whole(x + PCM_SAMPLES_PER_FRAME)
<1>1. PICK k \in Nat : x = k * PCM_SAMPLES_PER_FRAME
  BY DEF Whole
<1>2. x + PCM_SAMPLES_PER_FRAME = (k + 1) * PCM_SAMPLES_PER_FRAME /\ k + 1 \in Nat
  BY <1>1, RingSizes
<1> QED BY <1>2 DEF Whole

-----------------------------------------------------------------------------
(* Types of the ring.                                                         *)
LEMMA GotoTypes ==
  ASSUME RingTypes, NEW t \in Tasks, NEW step \in Steps[t], Goto(t, step)
  PROVE  pc' \in [Tasks -> AllSteps] /\ \A u \in Tasks : pc'[u] \in Steps[u]
<1>1. step \in AllSteps
  BY DEF Steps, AllSteps, Tasks, Producers
<1> QED BY <1>1 DEF RingTypes, Goto

LEMMA ForgetTypes ==
  ASSUME RingTypes, NEW t \in Tasks, Forget(t)
  PROVE  /\ head' \in [Tasks -> Counter \cup {NotLoaded}]
         /\ tail' \in [Tasks -> Counter \cup {NotLoaded}]
  BY DEF RingTypes, Forget

LEMMA TaskNames ==
  /\ Producers \subseteq Tasks
  /\ {"webrtc", "http", "playback", "rtvi"} = Tasks
  /\ {"webrtc", "http"} = Producers
  BY DEF Tasks, Producers

LEMMA CountTypes ==
  ASSUME RingTypes, NEW t \in Tasks
  PROVE  /\ head[t] \in Int /\ tail[t] \in Int
         /\ Count(t) \in 0 .. CounterMod - 1
         /\ FreeSpace(t) \in 0 .. CounterMod - 1
<1>1. head[t] \in Int /\ tail[t] \in Int
  BY RingSizes DEF RingTypes, NotLoaded
<1>2. head[t] - tail[t] \in Int
  BY <1>1
<1>3. Count(t) \in 0 .. CounterMod - 1
  BY <1>2, InRing, RingSizes DEF Count
<1>4. PLAY_RING_SAMPLES - Count(t) \in Int
  BY <1>3, RingSizes
<1>5. FreeSpace(t) \in 0 .. CounterMod - 1
  BY <1>4, InRing, RingSizes DEF FreeSpace
<1> QED BY <1>1, <1>3, <1>5

LEMMA RingTypesInit == Init => RingTypes /\ PushShape
<1> SUFFICES ASSUME Init PROVE RingTypes /\ PushShape
  OBVIOUS
<1>1. <<>> \in Seq(Sample) /\ Len(<<>>) = 0 /\ Silence \in Sample
  BY DEF Silence, Sample
<1>2. 0 \in Counter /\ PLAY_RING_SAMPLES - 1 \in Nat
  BY RingSizes
<1>3. workload.clips \in Nat /\ workload.frames \in Nat /\ workload.resets \in Nat
  BY RingAssumption DEF Init
<1>4. pc \in [Tasks -> AllSteps] /\ \A t \in Tasks : pc[t] \in Steps[t]
  BY DEF Init, Tasks, Producers, AllSteps, Steps
<1>5. push \in [Producers -> Push]
  BY DEF Init, NoPush, Push
<1>6. play_ring \in [0 .. PLAY_RING_SAMPLES - 1 -> Sample]
  BY <1>1 DEF Init
<1>7. /\ head \in [Tasks -> Counter \cup {NotLoaded}]
      /\ tail \in [Tasks -> Counter \cup {NotLoaded}]
      /\ pushed \in [Producers -> Nat]
  BY DEF Init
<1>8. /\ silence_count \in 0 .. frames /\ workload \in Workloads
       /\ clips \in 0 .. workload.clips /\ frames \in 0 .. workload.frames
       /\ resets \in 0 .. workload.resets
  BY <1>3 DEF Init
<1>9. /\ is_playing \in BOOLEAN /\ prebuffering \in BOOLEAN
       /\ play_ring_drops \in BOOLEAN /\ g_play_stat_underruns \in BOOLEAN
       /\ pop_buf = <<>> /\ played = 0 /\ seen = 0
       /\ play_ring_head = 0 /\ play_ring_tail = 0
  BY DEF Init
<1>10. RingTypes
  BY <1>1, <1>2, <1>3, <1>4, <1>5, <1>6, <1>7, <1>8, <1>9, RingSizes
  DEF RingTypes
<1>11. PushShape
  BY RingSizes
  DEF PushShape, StreamShape, ClipShape, PopShape, GuardShape, Unloaded, Init,
      Tasks, Producers, NoPush
<1> QED BY <1>10, <1>11

LEMMA RingTypesStep ==
  ASSUME RingTypes, PushShape, [Next]_vars
  PROVE  RingTypes'
<1> USE TaskNames
<1>1. ASSUME NEW t \in Tasks, LoadHead(t) PROVE RingTypes'
  <2>1. play_ring_head \in Counter
    BY DEF RingTypes
  <2>2. head' \in [Tasks -> Counter \cup {NotLoaded}]
    BY <1>1, <2>1 DEF RingTypes, LoadHead
  <2>3. seen' \in Nat
    BY <1>1 DEF RingTypes, LoadHead, Published
  <2>4. UNCHANGED <<ring, gate, producer, playback, resets, workload, pc, tail>>
    BY <1>1 DEF LoadHead
  <2> QED BY <2>2, <2>3, <2>4 DEF RingTypes, ring, gate, producer, playback
<1>2. ASSUME NEW t \in Tasks, LoadTail(t) PROVE RingTypes'
  <2>1. play_ring_tail \in Counter
    BY DEF RingTypes
  <2>2. tail' \in [Tasks -> Counter \cup {NotLoaded}]
    BY <1>2, <2>1 DEF RingTypes, LoadTail
  <2>3. UNCHANGED <<ring, gate, producer, playback, rtvi, pc, head>>
    BY <1>2 DEF LoadTail
  <2> QED BY <2>2, <2>3 DEF RingTypes, ring, gate, producer, playback, rtvi
<1>3. ASSUME NEW loud \in BOOLEAN, DecodedFrame(loud) PROVE RingTypes'
  <2>1. /\ frames' \in 0 .. workload.frames /\ frames' = frames + 1
        /\ silence_count' \in 0 .. frames' /\ is_playing' \in BOOLEAN
    <3>1. workload.frames \in Nat /\ frames \in Nat /\ silence_count \in 0 .. frames
      BY RingAssumption DEF RingTypes
    <3>2. frames < workload.frames /\ frames' = frames + 1
      BY <1>3 DEF DecodedFrame
    <3>3. silence_count' \in 0 .. frames'
      BY <1>3, <3>1, <3>2 DEF DecodedFrame, SilenceAfter
    <3>4. is_playing' \in BOOLEAN
      BY <1>3 DEF DecodedFrame, PlayingAfter, RingTypes
    <3> QED BY <3>1, <3>2, <3>3, <3>4
  <2>2. pc' \in [Tasks -> AllSteps] /\ \A u \in Tasks : pc'[u] \in Steps[u]
    <3>1. CASE is_playing'
      <4>1. Goto("webrtc", "count") /\ "count" \in Steps["webrtc"]
        BY <1>3, <3>1 DEF DecodedFrame, Steps
      <4> QED BY <4>1, GotoTypes
    <3>2. CASE ~is_playing'
      BY <1>3, <3>2 DEF DecodedFrame, RingTypes
    <3> QED BY <3>1, <3>2
  <2>3. push' \in [Producers -> Push]
    <3>1. [n |-> PCM_SAMPLES_PER_FRAME, done |-> 0, loud |-> loud]
            \in Push
      BY RingSizes DEF Push
    <3> QED BY <1>3, <3>1 DEF DecodedFrame, RingTypes
  <2>4. UNCHANGED <<ring, pushed, clips, playback, rtvi, head, tail>>
    BY <1>3 DEF DecodedFrame
  <2> QED BY <2>1, <2>2, <2>3, <2>4 DEF RingTypes, ring, playback, rtvi
<1>4. CASE PushFits
  <2>1. /\ Goto("webrtc", "write") /\ Forget("webrtc")
        /\ UNCHANGED <<ring, gate, producer, playback, rtvi>>
        /\ "write" \in Steps["webrtc"]
    BY <1>4 DEF PushFits, Steps
  <2>2. pc' \in [Tasks -> AllSteps] /\ \A u \in Tasks : pc'[u] \in Steps[u]
    BY <2>1, GotoTypes
  <2>3. /\ head' \in [Tasks -> Counter \cup {NotLoaded}]
        /\ tail' \in [Tasks -> Counter \cup {NotLoaded}]
    BY <2>1, ForgetTypes
  <2> QED
    BY <2>1, <2>2, <2>3 DEF RingTypes, ring, gate, producer, playback, rtvi
<1>5. CASE PushOverruns
  <2>1. /\ Goto("webrtc", "drop") /\ "drop" \in Steps["webrtc"]
        /\ UNCHANGED <<ring, gate, producer, playback, rtvi, head>>
    BY <1>5 DEF PushOverruns, Steps
  <2>2. pc' \in [Tasks -> AllSteps] /\ \A u \in Tasks : pc'[u] \in Steps[u]
    BY <2>1, GotoTypes
  <2>3. tail' \in [Tasks -> Counter \cup {NotLoaded}]
    <3>1. FreeSpace("webrtc") \in Int
      BY CountTypes, RingSizes
    <3>2. play_ring_tail + push["webrtc"].n - FreeSpace("webrtc") \in Int
      BY <3>1, RingSizes DEF RingTypes, Push
    <3>3. (play_ring_tail + push["webrtc"].n - FreeSpace("webrtc")) % CounterMod
            \in Counter
      BY <3>2, InRing
    <3> QED BY <1>5, <3>3 DEF PushOverruns, RingTypes
  <2> QED
    BY <2>1, <2>2, <2>3 DEF RingTypes, ring, gate, producer, playback, rtvi
<1>6. CASE DropOldest
  <2>1. /\ Goto("webrtc", "write") /\ Forget("webrtc") /\ "write" \in Steps["webrtc"]
        /\ UNCHANGED <<play_ring, play_ring_head, gate, producer, playback, rtvi>>
    BY <1>6 DEF DropOldest, Steps
  <2>2. pc' \in [Tasks -> AllSteps] /\ \A u \in Tasks : pc'[u] \in Steps[u]
    BY <2>1, GotoTypes
  <2>3. /\ head' \in [Tasks -> Counter \cup {NotLoaded}]
        /\ tail' \in [Tasks -> Counter \cup {NotLoaded}]
    BY <2>1, ForgetTypes
  <2>4. play_ring_tail' \in Counter /\ play_ring_drops' \in BOOLEAN
    BY <1>6 DEF DropOldest, RingTypes, PushShape, StreamShape
  <2> QED
    BY <2>1, <2>2, <2>3, <2>4 DEF RingTypes, gate, producer, playback, rtvi
<1>7. CASE RequestClip
  <2>1. /\ Goto("http", "count")
        /\ UNCHANGED <<ring, gate, push, pushed, frames, playback, rtvi, head, tail>>
        /\ "count" \in Steps["http"]
    BY <1>7 DEF RequestClip, Steps
  <2>2. pc' \in [Tasks -> AllSteps] /\ \A u \in Tasks : pc'[u] \in Steps[u]
    BY <2>1, GotoTypes
  <2>3. clips' \in 0 .. workload.clips
    BY <1>7, RingAssumption DEF RequestClip, RingTypes
  <2> QED
    BY <2>1, <2>2, <2>3
  DEF RingTypes, ring, gate, playback, rtvi
<1>8. CASE ClipWaits
  <2>1. /\ Forget("http")
        /\ UNCHANGED <<ring, gate, producer, playback, rtvi, pc>>
    BY <1>8 DEF ClipWaits
  <2>2. /\ head' \in [Tasks -> Counter \cup {NotLoaded}]
        /\ tail' \in [Tasks -> Counter \cup {NotLoaded}]
    BY <2>1, ForgetTypes
  <2> QED
    BY <2>1, <2>2
  DEF RingTypes, ring, gate, producer, playback, rtvi
<1>9. CASE ClipFits
  <2>1. /\ Goto("http", "write") /\ Forget("http")
        /\ UNCHANGED <<ring, gate, pushed, frames, clips, playback, rtvi>>
        /\ "write" \in Steps["http"]
    BY <1>9 DEF ClipFits, Steps
  <2>2. pc' \in [Tasks -> AllSteps] /\ \A u \in Tasks : pc'[u] \in Steps[u]
    BY <2>1, GotoTypes
  <2>3. /\ head' \in [Tasks -> Counter \cup {NotLoaded}]
        /\ tail' \in [Tasks -> Counter \cup {NotLoaded}]
    BY <2>1, ForgetTypes
  <2>4. FreeSpace("http") \in Nat
    BY CountTypes, RingSizes
  <2>5. ClipLeft \in Nat
    <3>1. pc["http"] # "idle" /\ push["http"].n \in Nat
      BY <1>9, TaskNames DEF ClipFits, RingTypes, Push
    <3>2. ClipLeft \in Int
      BY RingSizes, RingAssumption DEF ClipLeft, ClipDone, RingTypes
    <3> QED BY <3>1, <3>2 DEF PushShape, ClipShape
  <2>6. push' \in [Producers -> Push]
    BY <1>9, <2>4, <2>5 DEF ClipFits, RingTypes, Push
  <2> QED
    BY <2>1, <2>2, <2>3, <2>4, <2>5, <2>6
  DEF RingTypes, ring, gate, playback, rtvi
<1>10. ASSUME NEW t \in Producers, WriteSample(t) PROVE RingTypes'
  <2>1. /\ UNCHANGED <<play_ring_head, play_ring_tail, play_ring_drops, gate, pushed,
                     frames, clips, playback, rtvi, regs>>
    BY <1>10 DEF WriteSample
  <2>2. push' \in [Producers -> Push]
    <3>1. push[t] \in Push
      BY DEF RingTypes
    <3>2. [push[t] EXCEPT !.done = @ + 1] \in Push
      BY <3>1 DEF Push
    <3>3. push' = [push EXCEPT ![t] = [push[t] EXCEPT !.done = @ + 1]]
      BY <1>10 DEF WriteSample
    <3> QED BY <3>2, <3>3 DEF RingTypes
  <2>3. play_ring' \in [0 .. PLAY_RING_SAMPLES - 1 -> Sample]
    <3>1. [from |-> t, pos |-> pushed[t] + push[t].done + 1, loud |-> push[t].loud]
            \in Sample
      BY DEF Sample, RingTypes, Push
    <3> QED BY <1>10, <3>1 DEF WriteSample, RingTypes
  <2> QED
    BY <2>1, <2>2, <2>3
  DEF RingTypes, gate, playback, rtvi, regs
<1>11. ASSUME NEW t \in Producers, LoadForPublish(t) PROVE RingTypes'
  <2>1. /\ Goto(t, "publish")
        /\ UNCHANGED <<ring, gate, producer, playback, rtvi, tail>>
        /\ "publish" \in Steps[t] /\ t \in Tasks
    BY <1>11 DEF LoadForPublish, Steps
  <2>2. pc' \in [Tasks -> AllSteps] /\ \A u \in Tasks : pc'[u] \in Steps[u]
    BY <2>1, GotoTypes
  <2>3. head' \in [Tasks -> Counter \cup {NotLoaded}]
    <3>1. play_ring_head + push[t].n \in Int
      <4>1. play_ring_head \in Nat
        BY RingSizes DEF RingTypes
      <4>2. push[t] \in Push
        BY DEF RingTypes
      <4>3. push[t].n \in Nat
        BY <4>2 DEF Push
      <4> QED BY <4>1, <4>3
    <3>2. (play_ring_head + push[t].n) % CounterMod \in Counter
      BY <3>1, InRing
    <3> QED BY <1>11, <3>2 DEF LoadForPublish, RingTypes
  <2> QED
    BY <2>1, <2>2, <2>3
  DEF RingTypes, ring, gate, producer, playback, rtvi
<1>12. ASSUME NEW t \in Producers, Publish(t) PROVE RingTypes'
  <2>1. /\ Goto(t, IF t = "http" /\ push[t].n < ClipLeft
                   THEN "count" ELSE "idle")
        /\ Forget(t) /\ t \in Tasks
        /\ UNCHANGED <<play_ring, play_ring_tail, play_ring_drops, gate, frames,
                       clips, playback, rtvi>>
        /\ "count" \in Steps[t] /\ "idle" \in Steps[t]
    BY <1>12 DEF Publish, Steps
  <2>2. pc' \in [Tasks -> AllSteps] /\ \A u \in Tasks : pc'[u] \in Steps[u]
    BY <2>1, GotoTypes
  <2>3. /\ head' \in [Tasks -> Counter \cup {NotLoaded}]
        /\ tail' \in [Tasks -> Counter \cup {NotLoaded}]
    BY <2>1, ForgetTypes
  <2>4. /\ push' \in [Producers -> Push]
        /\ pushed' \in [Producers -> Nat]
    BY <1>12 DEF Publish, RingTypes, NoPush, Push
  <2>5. play_ring_head' \in Counter
    BY <1>12 DEF Publish, RingTypes, PushShape, StreamShape, ClipShape
  <2> QED
    BY <2>1, <2>2, <2>3, <2>4, <2>5
  DEF RingTypes, gate, playback, rtvi
<1>13. ASSUME NEW threshold \in Thresholds, Prebuffer(threshold) PROVE RingTypes'
  <2>1. /\ Forget("playback")
        /\ UNCHANGED <<ring, gate, producer, playback, rtvi, pc>>
    BY <1>13 DEF Prebuffer
  <2>2. /\ head' \in [Tasks -> Counter \cup {NotLoaded}]
        /\ tail' \in [Tasks -> Counter \cup {NotLoaded}]
    BY <2>1, ForgetTypes
  <2> QED
    BY <2>1, <2>2
  DEF RingTypes, ring, gate, producer, playback, rtvi
<1>14. CASE Underrun
  <2>1. /\ Forget("playback")
        /\ UNCHANGED <<ring, gate, producer, pop_buf, played, rtvi, pc>>
    BY <1>14 DEF Underrun
  <2>2. /\ head' \in [Tasks -> Counter \cup {NotLoaded}]
        /\ tail' \in [Tasks -> Counter \cup {NotLoaded}]
    BY <2>1, ForgetTypes
  <2>3. g_play_stat_underruns' \in BOOLEAN /\ prebuffering' \in BOOLEAN
    BY <1>14 DEF Underrun, RingTypes
  <2> QED
    BY <2>1, <2>2, <2>3
  DEF RingTypes, ring, gate, producer, rtvi
<1>15. ASSUME NEW threshold \in Thresholds, StartPop(threshold) PROVE RingTypes'
  <2>1. /\ Goto("playback", "pop") /\ Forget("playback")
        /\ UNCHANGED <<ring, gate, producer, pop_buf, played,
                       g_play_stat_underruns, rtvi>>
        /\ "pop" \in Steps["playback"]
    BY <1>15 DEF StartPop, Steps
  <2>2. pc' \in [Tasks -> AllSteps] /\ \A u \in Tasks : pc'[u] \in Steps[u]
    BY <2>1, GotoTypes
  <2>3. /\ head' \in [Tasks -> Counter \cup {NotLoaded}]
        /\ tail' \in [Tasks -> Counter \cup {NotLoaded}]
    BY <2>1, ForgetTypes
  <2>4. prebuffering' \in BOOLEAN
    BY <1>15 DEF StartPop
  <2> QED
    BY <2>1, <2>2, <2>3, <2>4
  DEF RingTypes, ring, gate, producer, rtvi
<1>16. CASE PopSample
  <2>1. /\ UNCHANGED <<ring, gate, producer, prebuffering, played,
                       g_play_stat_underruns, rtvi, regs>>
    BY <1>16 DEF PopSample
  <2>2. pop_buf' \in Seq(Sample) /\ Len(pop_buf') <= PCM_SAMPLES_PER_FRAME
    <3>1. play_ring_tail + Len(pop_buf) \in Int
      <4>1. play_ring_tail \in Nat
        BY RingSizes DEF RingTypes
      <4>2. Len(pop_buf) \in Nat
        BY DEF RingTypes
      <4> QED BY <4>1, <4>2
    <3>2. Slot(play_ring_tail, Len(pop_buf)) \in 0 .. PLAY_RING_SAMPLES - 1
      BY <3>1, InRing DEF Slot
    <3>3. play_ring[Slot(play_ring_tail, Len(pop_buf))] \in Sample
      BY <3>2 DEF RingTypes
    <3> QED BY <1>16, <3>3, AppendEnd, RingSizes DEF PopSample, RingTypes
  <2> QED
    BY <2>1, <2>2
  DEF RingTypes, ring, gate, producer, rtvi, regs
<1>17. CASE LoadForPop
  <2>1. /\ Goto("playback", "release")
        /\ UNCHANGED <<ring, gate, producer, playback, rtvi, head>>
        /\ "release" \in Steps["playback"]
    BY <1>17 DEF LoadForPop, Steps
  <2>2. pc' \in [Tasks -> AllSteps] /\ \A u \in Tasks : pc'[u] \in Steps[u]
    BY <2>1, GotoTypes
  <2>3. tail' \in [Tasks -> Counter \cup {NotLoaded}]
    <3>1. play_ring_tail + PCM_SAMPLES_PER_FRAME \in Int
      BY RingSizes DEF RingTypes
    <3>2. (play_ring_tail + PCM_SAMPLES_PER_FRAME) % CounterMod \in Counter
      BY <3>1, InRing
    <3> QED BY <1>17, <3>2 DEF LoadForPop, RingTypes
  <2> QED
    BY <2>1, <2>2, <2>3
  DEF RingTypes, ring, gate, producer, playback, rtvi
<1>18. CASE ReleaseFrame
  <2>1. /\ Goto("playback", "count") /\ Forget("playback")
        /\ UNCHANGED <<play_ring, play_ring_head, play_ring_drops, gate, producer,
                     prebuffering, g_play_stat_underruns, rtvi>>
        /\ "count" \in Steps["playback"]
    BY <1>18 DEF ReleaseFrame, Steps
  <2>2. pc' \in [Tasks -> AllSteps] /\ \A u \in Tasks : pc'[u] \in Steps[u]
    BY <2>1, GotoTypes
  <2>3. /\ head' \in [Tasks -> Counter \cup {NotLoaded}]
        /\ tail' \in [Tasks -> Counter \cup {NotLoaded}]
    BY <2>1, ForgetTypes
  <2>4. /\ play_ring_tail' \in Counter /\ played' \in Nat
        /\ pop_buf' \in Seq(Sample) /\ Len(pop_buf') = 0
    BY <1>18, RingSizes DEF ReleaseFrame, RingTypes, PushShape, PopShape
  <2> QED
    BY <2>1, <2>2, <2>3, <2>4, RingSizes
  DEF RingTypes, gate, producer, rtvi
<1>19. CASE BotStartedSpeaking
  <2>1. /\ Goto("rtvi", "count")
        /\ UNCHANGED <<ring, gate, producer, playback, seen, workload, head, tail>>
        /\ "count" \in Steps["rtvi"]
    BY <1>19 DEF BotStartedSpeaking, Steps
  <2>2. pc' \in [Tasks -> AllSteps] /\ \A u \in Tasks : pc'[u] \in Steps[u]
    BY <2>1, GotoTypes
  <2>3. resets' \in 0 .. workload.resets
    BY <1>19, RingAssumption DEF BotStartedSpeaking, RingTypes
  <2> QED
    BY <2>1, <2>2, <2>3
  DEF RingTypes, ring, gate, producer, playback
<1>20. CASE GuardRing
  <2>1. /\ Goto("rtvi", IF Count("rtvi") = 0 THEN "playing" ELSE "idle")
        /\ Forget("rtvi")
        /\ UNCHANGED <<ring, gate, producer, playback, resets, workload>>
        /\ (IF Count("rtvi") = 0 THEN "playing" ELSE "idle") \in Steps["rtvi"]
    BY <1>20 DEF GuardRing, Steps
  <2>2. pc' \in [Tasks -> AllSteps] /\ \A u \in Tasks : pc'[u] \in Steps[u]
    BY <2>1, GotoTypes
  <2>3. /\ head' \in [Tasks -> Counter \cup {NotLoaded}]
        /\ tail' \in [Tasks -> Counter \cup {NotLoaded}]
    BY <2>1, ForgetTypes
  <2>4. seen' \in Nat
    BY <1>20 DEF GuardRing, ForgetSeen, RingTypes
  <2> QED
    BY <2>1, <2>2, <2>3, <2>4
  DEF RingTypes, ring, gate, producer, playback
<1>21. CASE GuardPlaying
  <2>1. /\ Goto("rtvi", IF is_playing THEN "idle" ELSE "reset")
        /\ UNCHANGED <<ring, gate, producer, playback, resets, workload, head, tail>>
        /\ (IF is_playing THEN "idle" ELSE "reset") \in Steps["rtvi"]
    BY <1>21 DEF GuardPlaying, Steps
  <2>2. pc' \in [Tasks -> AllSteps] /\ \A u \in Tasks : pc'[u] \in Steps[u]
    BY <2>1, GotoTypes
  <2>3. seen' \in Nat
    BY <1>21 DEF GuardPlaying, ForgetSeen, RingTypes
  <2> QED
    BY <2>1, <2>2, <2>3
  DEF RingTypes, ring, gate, producer, playback
<1>22. CASE ResetDecoder
  <2>1. /\ Goto("rtvi", "idle")
        /\ UNCHANGED <<ring, gate, producer, playback, resets, workload, head, tail>>
        /\ "idle" \in Steps["rtvi"]
    BY <1>22 DEF ResetDecoder, Steps
  <2>2. pc' \in [Tasks -> AllSteps] /\ \A u \in Tasks : pc'[u] \in Steps[u]
    BY <2>1, GotoTypes
  <2>3. seen' \in Nat
    BY <1>22 DEF ResetDecoder, ForgetSeen, RingTypes
  <2> QED
    BY <2>1, <2>2, <2>3
  DEF RingTypes, ring, gate, producer, playback
<1>23. CASE UNCHANGED vars
  BY <1>23 DEF RingTypes, vars, ring, gate, producer, playback, rtvi, regs
<1> QED
  BY <1>1, <1>2, <1>3, <1>4, <1>5, <1>6, <1>7, <1>8, <1>9, <1>10, <1>11, <1>12,
     <1>13, <1>14, <1>15, <1>16, <1>17, <1>18, <1>19, <1>20, <1>21, <1>22, <1>23
  DEF Next

-----------------------------------------------------------------------------
(* The four tasks: every step is a step of one of them.                       *)
Loads(t) == LoadHead(t) \/ LoadTail(t)
StreamStep ==
  \/ Loads("webrtc")
  \/ \E loud \in BOOLEAN : DecodedFrame(loud)
  \/ PushFits \/ PushOverruns \/ DropOldest
  \/ WriteSample("webrtc") \/ LoadForPublish("webrtc") \/ Publish("webrtc")
ClipStep ==
  \/ Loads("http")
  \/ RequestClip \/ ClipWaits \/ ClipFits
  \/ WriteSample("http") \/ LoadForPublish("http") \/ Publish("http")
PlaybackStep ==
  \/ Loads("playback")
  \/ \E threshold \in Thresholds : Prebuffer(threshold) \/ StartPop(threshold)
  \/ Underrun \/ PopSample \/ LoadForPop \/ ReleaseFrame
GuardStep ==
  \/ Loads("rtvi")
  \/ BotStartedSpeaking \/ GuardRing \/ GuardPlaying \/ ResetDecoder

LEMMA StepOfOneTask ==
  ASSUME [Next]_vars
  PROVE  StreamStep \/ ClipStep \/ PlaybackStep \/ GuardStep \/ UNCHANGED vars
<1> USE DEF Loads, StreamStep, ClipStep, PlaybackStep, GuardStep
<1>1. ASSUME NEW t \in Tasks, LoadHead(t) \/ LoadTail(t)
      PROVE  StreamStep \/ ClipStep \/ PlaybackStep \/ GuardStep
  BY <1>1, TaskNames
<1>2. ASSUME NEW t \in Producers,
             WriteSample(t) \/ LoadForPublish(t) \/ Publish(t)
      PROVE  StreamStep \/ ClipStep
  BY <1>2, TaskNames
<1> QED BY <1>1, <1>2 DEF Next

(* The step and the loads of the other tasks stay. *)
Moves(t) ==
  \A u \in Tasks : u # t => /\ pc'[u] = pc[u]
                           /\ head'[u] = head[u]
                           /\ tail'[u] = tail[u]

LEMMA GotoSteps ==
  ASSUME RingTypes, NEW t \in Tasks, NEW step, Goto(t, step)
  PROVE  /\ pc'[t] = step
         /\ \A u \in Tasks : u # t => pc'[u] = pc[u]
  BY DEF RingTypes, Goto

LEMMA ForgetLoads ==
  ASSUME RingTypes, NEW t \in Tasks, Forget(t)
  PROVE  /\ head'[t] = NotLoaded /\ tail'[t] = NotLoaded
         /\ \A u \in Tasks : u # t => head'[u] = head[u] /\ tail'[u] = tail[u]
  BY DEF RingTypes, Forget

LEMMA StreamFrame ==
  ASSUME RingTypes, StreamStep
  PROVE  /\ Moves("webrtc")
         /\ push'["http"] = push["http"] /\ pushed'["http"] = pushed["http"]
         /\ UNCHANGED <<clips, playback, rtvi>>
<1> USE TaskNames, GotoSteps, ForgetLoads
        DEF Moves, ring, gate, producer, playback, rtvi, regs, RingTypes
<1>1. CASE Loads("webrtc")
  BY <1>1 DEF Loads, LoadHead, LoadTail
<1>2. ASSUME NEW loud \in BOOLEAN, DecodedFrame(loud)
      PROVE  /\ Moves("webrtc")
             /\ push'["http"] = push["http"] /\ pushed'["http"] = pushed["http"]
             /\ UNCHANGED <<clips, playback, rtvi>>
  BY <1>2 DEF DecodedFrame
<1>3. CASE PushFits
  BY <1>3 DEF PushFits
<1>4. CASE PushOverruns
  BY <1>4 DEF PushOverruns
<1>5. CASE DropOldest
  BY <1>5 DEF DropOldest
<1>6. CASE WriteSample("webrtc")
  BY <1>6 DEF WriteSample
<1>7. CASE LoadForPublish("webrtc")
  BY <1>7 DEF LoadForPublish
<1>8. CASE Publish("webrtc")
  BY <1>8 DEF Publish
<1> QED
  BY <1>1, <1>2, <1>3, <1>4, <1>5, <1>6, <1>7, <1>8 DEF StreamStep

LEMMA ClipFrame ==
  ASSUME RingTypes, ClipStep
  PROVE  /\ Moves("http")
         /\ push'["webrtc"] = push["webrtc"]
         /\ pushed'["webrtc"] = pushed["webrtc"]
         /\ UNCHANGED <<play_ring_tail, play_ring_drops, gate, frames, playback,
                        rtvi>>
<1> USE TaskNames, GotoSteps, ForgetLoads
        DEF Moves, ring, gate, producer, playback, rtvi, regs, RingTypes
<1>1. CASE Loads("http")
  BY <1>1 DEF Loads, LoadHead, LoadTail
<1>2. CASE RequestClip
  BY <1>2 DEF RequestClip
<1>3. CASE ClipWaits
  BY <1>3 DEF ClipWaits
<1>4. CASE ClipFits
  BY <1>4 DEF ClipFits
<1>5. CASE WriteSample("http")
  BY <1>5 DEF WriteSample
<1>6. CASE LoadForPublish("http")
  BY <1>6 DEF LoadForPublish
<1>7. CASE Publish("http")
  BY <1>7 DEF Publish
<1> QED
  BY <1>1, <1>2, <1>3, <1>4, <1>5, <1>6, <1>7 DEF ClipStep

LEMMA PlaybackFrame ==
  ASSUME RingTypes, PlaybackStep
  PROVE  /\ Moves("playback")
         /\ UNCHANGED <<play_ring, play_ring_head, play_ring_drops, gate,
                        producer, rtvi>>
<1> USE TaskNames, GotoSteps, ForgetLoads
        DEF Moves, ring, gate, producer, playback, rtvi, regs
<1>1. CASE Loads("playback")
  BY <1>1 DEF Loads, LoadHead, LoadTail, RingTypes
<1>2. ASSUME NEW threshold \in Thresholds,
             Prebuffer(threshold) \/ StartPop(threshold)
      PROVE  /\ Moves("playback")
             /\ UNCHANGED <<play_ring, play_ring_head, play_ring_drops, gate,
                            producer, rtvi>>
  BY <1>2 DEF Prebuffer, StartPop
<1>3. CASE Underrun
  BY <1>3 DEF Underrun
<1>4. CASE PopSample
  BY <1>4 DEF PopSample
<1>5. CASE LoadForPop
  BY <1>5 DEF LoadForPop, RingTypes
<1>6. CASE ReleaseFrame
  BY <1>6 DEF ReleaseFrame
<1> QED
  BY <1>1, <1>2, <1>3, <1>4, <1>5, <1>6 DEF PlaybackStep

LEMMA GuardFrame ==
  ASSUME RingTypes, GuardStep
  PROVE  /\ Moves("rtvi")
         /\ UNCHANGED <<ring, gate, producer, playback, workload>>
<1> USE TaskNames, GotoSteps, ForgetLoads
        DEF Moves, ring, gate, producer, playback, rtvi, regs
<1>1. CASE Loads("rtvi")
  BY <1>1 DEF Loads, LoadHead, LoadTail, RingTypes
<1>2. CASE BotStartedSpeaking
  BY <1>2 DEF BotStartedSpeaking
<1>3. CASE GuardRing
  BY <1>3 DEF GuardRing
<1>4. CASE GuardPlaying
  BY <1>4 DEF GuardPlaying
<1>5. CASE ResetDecoder
  BY <1>5 DEF ResetDecoder
<1> QED
  BY <1>1, <1>2, <1>3, <1>4, <1>5 DEF GuardStep

(* What the types say of the values the steps compute with.                    *)
LEMMA RingFacts ==
  ASSUME RingTypes
  PROVE  /\ clips \in Nat /\ frames \in Nat /\ resets \in Nat
         /\ silence_count \in Nat
         /\ play_ring_head \in Nat /\ play_ring_tail \in Nat
         /\ pushed["webrtc"] \in Nat /\ pushed["http"] \in Nat
         /\ Published \in Nat /\ ClipLeft \in Int
         /\ Len(pop_buf) \in Nat
         /\ \A t \in Producers :
              /\ push[t] \in Push
              /\ push[t].n \in Nat /\ push[t].done \in Nat
              /\ push[t].loud \in BOOLEAN
<1>1. workload.clips \in Nat /\ workload.frames \in Nat /\ workload.resets \in Nat
  BY RingAssumption DEF RingTypes
<1>2. /\ clips \in Nat /\ frames \in Nat /\ resets \in Nat
      /\ silence_count \in Nat
  BY <1>1 DEF RingTypes
<1>3. /\ play_ring_head \in Nat /\ play_ring_tail \in Nat
  BY RingSizes DEF RingTypes
<1>4. /\ pushed["webrtc"] \in Nat /\ pushed["http"] \in Nat
      /\ Published \in Nat
  BY TaskNames DEF RingTypes, Published
<1>5. ClipLeft \in Int
  <2>1. (clips - 1) * ClipSamples \in Int
    BY <1>2, RingSizes
  <2> QED BY <1>4, <2>1, RingSizes DEF ClipLeft, ClipDone
<1>6. \A t \in Producers : push[t] \in Push
  BY DEF RingTypes
<1>7. \A t \in Producers : /\ push[t].n \in Nat /\ push[t].done \in Nat
                           /\ push[t].loud \in BOOLEAN
  BY <1>6 DEF Push
<1>8. Len(pop_buf) \in Nat
  BY DEF RingTypes
<1> QED BY <1>2, <1>3, <1>4, <1>5, <1>6, <1>7, <1>8

(* The shapes are kept by their own task, and by every other one.              *)
LEMMA StreamShapeStep ==
  ASSUME RingTypes, StreamShape, StreamStep
  PROVE  StreamShape'
<1> USE TaskNames, GotoSteps, ForgetLoads, RingSizes
        DEF StreamShape, Unloaded, regs, producer, ring
<1>0. /\ push["webrtc"] \in Push /\ push \in [Producers -> Push]
      /\ pushed \in [Producers -> Nat] /\ frames \in Nat
      /\ head \in [Tasks -> Counter \cup {NotLoaded}]
      /\ tail \in [Tasks -> Counter \cup {NotLoaded}]
      /\ push["webrtc"].n \in Nat /\ push["webrtc"].done \in Nat
  BY RingFacts DEF RingTypes
<1>1. CASE Loads("webrtc")
  BY <1>0, <1>1 DEF Loads, LoadHead, LoadTail
<1>2. ASSUME NEW loud \in BOOLEAN, DecodedFrame(loud) PROVE StreamShape'
  BY <1>0, <1>2 DEF DecodedFrame
<1>3. CASE PushFits
  BY <1>0, <1>3 DEF PushFits
<1>4. CASE PushOverruns
  <2>1. play_ring_tail + push["webrtc"].n - FreeSpace("webrtc") \in Int
    <3>1. FreeSpace("webrtc") \in 0 .. CounterMod - 1
      BY CountTypes
    <3>2. FreeSpace("webrtc") \in Int /\ play_ring_tail \in Int
      BY <3>1, RingFacts
    <3> HIDE DEF FreeSpace
    <3> QED BY <1>0, <3>2
  <2>2. tail'["webrtc"] \in Counter
    BY <1>0, <1>4, <2>1, InRing DEF PushOverruns
  <2> QED BY <1>0, <1>4, <2>2 DEF PushOverruns, NotLoaded
<1>5. CASE DropOldest
  BY <1>0, <1>5 DEF DropOldest
<1>6. CASE WriteSample("webrtc")
  <2>1. push'["webrtc"] = [push["webrtc"] EXCEPT !.done = @ + 1]
    BY <1>0, <1>6 DEF WriteSample
  <2>2. /\ push'["webrtc"].done = push["webrtc"].done + 1
        /\ push'["webrtc"].n = push["webrtc"].n
    BY <1>0, <2>1 DEF Push
  <2>3. /\ pc["webrtc"] = "write" /\ push["webrtc"].done < push["webrtc"].n
        /\ UNCHANGED <<pc, head, tail, frames, pushed>>
    BY <1>6 DEF WriteSample
  <2> QED BY <1>0, <2>2, <2>3
<1>7. CASE LoadForPublish("webrtc")
  <2>1. play_ring_head + push["webrtc"].n \in Int
    BY <1>0 DEF RingTypes
  <2>2. head'["webrtc"] \in Counter
    BY <1>0, <1>7, <2>1, InRing DEF LoadForPublish
  <2> QED BY <1>0, <1>7, <2>2 DEF LoadForPublish, NotLoaded
<1>8. CASE Publish("webrtc")
  BY <1>0, <1>8 DEF Publish, NoPush
<1> QED
  BY <1>1, <1>2, <1>3, <1>4, <1>5, <1>6, <1>7, <1>8 DEF StreamStep

LEMMA ClipShapeStep ==
  ASSUME RingTypes, ClipShape, ClipStep
  PROVE  ClipShape'
<1> USE TaskNames, GotoSteps, ForgetLoads, RingSizes
        DEF ClipShape, Unloaded, regs, producer, ring
<1>0. /\ push["http"] \in Push /\ push \in [Producers -> Push]
      /\ pushed \in [Producers -> Nat] /\ clips \in Nat
      /\ head \in [Tasks -> Counter \cup {NotLoaded}]
      /\ tail \in [Tasks -> Counter \cup {NotLoaded}]
      /\ push["http"].n \in Nat /\ push["http"].done \in Nat
      /\ pushed["http"] \in Nat /\ ClipLeft \in Int
  BY RingFacts DEF RingTypes
<1>1. CASE Loads("http")
  BY <1>0, <1>1 DEF Loads, LoadHead, LoadTail, ClipLeft, ClipDone
<1>2. CASE RequestClip
  <2>1. /\ clips' = clips + 1 /\ pushed' = pushed /\ push' = push
        /\ pc["http"] = "idle" /\ pc'["http"] = "count"
    BY <1>2 DEF RequestClip
  <2>2. ClipLeft' = ClipSamples
    <3>1. (clips' - 1) * ClipSamples = clips * ClipSamples
      BY <1>0, <2>1
    <3> QED BY <1>0, <2>1, <3>1 DEF ClipLeft, ClipDone
  <2> QED BY <1>0, <2>1, <2>2
<1>3. CASE ClipWaits
  BY <1>0, <1>3 DEF ClipWaits, ClipLeft, ClipDone
<1>4. CASE ClipFits
  <2>1. /\ clips' = clips /\ pushed' = pushed
        /\ pc["http"] = "count" /\ pc'["http"] = "write"
        /\ push'["http"] = [n |-> IF ClipLeft > FreeSpace("http")
                                  THEN FreeSpace("http") ELSE ClipLeft,
                            done |-> 0, loud |-> TRUE]
    BY <1>0, <1>4 DEF ClipFits
  <2>2. FreeSpace("http") \in Nat /\ ClipLeft \in Nat /\ ClipLeft' = ClipLeft
    BY <1>0, <2>1, CountTypes DEF ClipLeft, ClipDone
  <2>3. push'["http"].n <= ClipLeft /\ push'["http"].done = 0
        /\ push'["http"].n \in Nat
    BY <2>1, <2>2
  <2> QED BY <1>0, <2>1, <2>2, <2>3
<1>5. CASE WriteSample("http")
  <2>1. push'["http"] = [push["http"] EXCEPT !.done = @ + 1]
    BY <1>0, <1>5 DEF WriteSample
  <2>2. /\ push'["http"].done = push["http"].done + 1
        /\ push'["http"].n = push["http"].n
    BY <1>0, <2>1 DEF Push
  <2>3. /\ UNCHANGED <<pc, head, tail, pushed, clips>>
        /\ pc["http"] = "write" /\ push["http"].done < push["http"].n
    BY <1>5 DEF WriteSample
  <2>4. ClipLeft' = ClipLeft
    BY <2>3 DEF ClipLeft, ClipDone
  <2>5. push'["http"].done <= push'["http"].n
    BY <1>0, <2>2, <2>3
  <2> QED BY <2>2, <2>3, <2>4, <2>5
<1>6. CASE LoadForPublish("http")
  <2>1. play_ring_head + push["http"].n \in Int
    BY <1>0 DEF RingTypes
  <2>2. head'["http"] \in Counter
    BY <1>0, <1>6, <2>1, InRing DEF LoadForPublish
  <2> QED BY <1>0, <1>6, <2>2 DEF LoadForPublish, NotLoaded, ClipLeft, ClipDone
<1>7. CASE Publish("http")
  <2>1. /\ pc["http"] = "publish" /\ clips' = clips
        /\ pushed'["http"] = pushed["http"] + push["http"].n
        /\ push'["http"] = NoPush
        /\ head'["http"] = NotLoaded /\ tail'["http"] = NotLoaded
        /\ pc'["http"] = IF push["http"].n < ClipLeft THEN "count" ELSE "idle"
    BY <1>0, <1>7 DEF Publish
  <2>2. ClipLeft' = ClipLeft - push["http"].n /\ push["http"].n <= ClipLeft
    BY <1>0, <2>1 DEF ClipLeft, ClipDone
  <2>3. CASE push["http"].n < ClipLeft
    BY <1>0, <2>1, <2>2, <2>3 DEF NoPush
  <2>4. CASE push["http"].n = ClipLeft
    <3>1. pushed'["http"] = clips * ClipSamples
      <4>1. (clips - 1) * ClipSamples + ClipSamples = clips * ClipSamples
        BY <1>0
      <4>2. (clips - 1) * ClipSamples \in Int
        BY <1>0
      <4> QED BY <1>0, <2>1, <2>4, <4>1, <4>2 DEF ClipLeft, ClipDone
    <3> QED BY <1>0, <2>1, <2>4, <3>1 DEF NoPush
  <2> QED BY <1>0, <2>2, <2>3, <2>4
<1> QED
  BY <1>1, <1>2, <1>3, <1>4, <1>5, <1>6, <1>7 DEF ClipStep

LEMMA PopShapeStep ==
  ASSUME RingTypes, PopShape, PlaybackStep
  PROVE  PopShape'
<1> USE TaskNames, GotoSteps, ForgetLoads, RingSizes
        DEF PopShape, regs, playback, Loaded
<1>1. CASE Loads("playback")
  BY <1>1 DEF Loads, LoadHead, LoadTail
<1>2. ASSUME NEW threshold \in Thresholds,
             Prebuffer(threshold) \/ StartPop(threshold)
      PROVE  PopShape'
  BY <1>2 DEF Prebuffer, StartPop
<1>3. CASE Underrun
  BY <1>3 DEF Underrun
<1>4. CASE PopSample
  BY <1>4 DEF PopSample
<1>5. CASE LoadForPop
  <2>1. play_ring_tail + PCM_SAMPLES_PER_FRAME \in Int
    BY DEF RingTypes
  <2>2. tail'["playback"] \in Counter
    BY <1>5, <2>1, InRing DEF LoadForPop, RingTypes
  <2> QED BY <1>5, <2>2 DEF LoadForPop, NotLoaded
<1>6. CASE ReleaseFrame
  BY <1>6 DEF ReleaseFrame
<1> QED
  BY <1>1, <1>2, <1>3, <1>4, <1>5, <1>6 DEF PlaybackStep

LEMMA GuardShapeStep ==
  ASSUME RingTypes, GuardShape, GuardStep
  PROVE  GuardShape'
<1> USE TaskNames, GotoSteps, ForgetLoads DEF GuardShape, Unloaded
<1>1. CASE Loads("rtvi")
  BY <1>1 DEF Loads, LoadHead, LoadTail
<1>2. CASE BotStartedSpeaking
  BY <1>2 DEF BotStartedSpeaking
<1>3. CASE GuardRing
  BY <1>3 DEF GuardRing
<1>4. CASE GuardPlaying
  BY <1>4 DEF GuardPlaying
<1>5. CASE ResetDecoder
  BY <1>5 DEF ResetDecoder
<1> QED BY <1>1, <1>2, <1>3, <1>4, <1>5 DEF GuardStep

LEMMA PushShapeStep ==
  ASSUME RingTypes, PushShape, [Next]_vars
  PROVE  PushShape'
<1> USE TaskNames
        DEF PushShape, Moves, Unloaded, ring, producer, playback, rtvi, gate
<1>1. CASE StreamStep
  <2>1. StreamShape'
    BY <1>1, StreamShapeStep
  <2>2. ClipShape' /\ PopShape' /\ GuardShape'
    BY <1>1, StreamFrame DEF ClipShape, PopShape, GuardShape, ClipLeft, ClipDone
  <2> QED BY <2>1, <2>2
<1>2. CASE ClipStep
  <2>1. ClipShape'
    BY <1>2, ClipShapeStep
  <2>2. StreamShape' /\ PopShape' /\ GuardShape'
    BY <1>2, ClipFrame DEF StreamShape, PopShape, GuardShape
  <2> QED BY <2>1, <2>2
<1>3. CASE PlaybackStep
  <2>1. PopShape'
    BY <1>3, PopShapeStep
  <2>2. StreamShape' /\ ClipShape' /\ GuardShape'
    BY <1>3, PlaybackFrame
    DEF StreamShape, ClipShape, GuardShape, ClipLeft, ClipDone
  <2> QED BY <2>1, <2>2
<1>4. CASE GuardStep
  <2>1. GuardShape'
    BY <1>4, GuardShapeStep
  <2>2. StreamShape' /\ ClipShape' /\ PopShape'
    BY <1>4, GuardFrame DEF StreamShape, ClipShape, PopShape, ClipLeft, ClipDone
  <2> QED BY <2>1, <2>2
<1>5. CASE UNCHANGED vars
  BY <1>5
  DEF vars, regs, StreamShape, ClipShape, PopShape, GuardShape, ClipLeft, ClipDone
<1> QED BY <1>1, <1>2, <1>3, <1>4, <1>5, StepOfOneTask

-----------------------------------------------------------------------------
(* The counters.  One producer pushes, and the other one is idle and has       *)
(* pushed nothing.                                                            *)
Alone(t) ==
  \A u \in Producers : u # t =>
    pc[u] = "idle" /\ pushed[u] = 0 /\ push[u].n = 0 /\ push[u].done = 0

LEMMA StreamAlone ==
  ASSUME RingTypes, PushShape, OnePushes', StreamStep
  PROVE  /\ clips = 0 /\ clips' = 0
         /\ Alone("webrtc") /\ Alone("webrtc")'
<1>1. frames' # 0
  <2>1. frames \in Nat
    BY RingFacts
  <2>2. CASE pc["webrtc"] # "idle"
    <3>1. frames # 0
      BY <2>2 DEF PushShape, StreamShape
    <3>2. frames' = frames
      BY <2>2 DEF StreamStep, Loads, LoadHead, LoadTail, DecodedFrame, PushFits,
                  PushOverruns, DropOldest, WriteSample, LoadForPublish, Publish,
                  producer
    <3> QED BY <3>1, <3>2
  <2>3. CASE pc["webrtc"] = "idle"
    <3>1. frames' = frames + 1
      BY <2>3 DEF StreamStep, Loads, LoadHead, LoadTail, DecodedFrame, PushFits,
                  PushOverruns, DropOldest, WriteSample, LoadForPublish, Publish
    <3> QED BY <2>1, <3>1
  <2> QED BY <2>2, <2>3
<1>2. clips = 0 /\ clips' = 0
  BY <1>1, StreamFrame DEF OnePushes
<1>3. Alone("webrtc")
  <2>1. pc["http"] = "idle"
    BY <1>2 DEF PushShape, ClipShape
  <2>2. pushed["http"] = 0
    BY <1>2, <2>1, RingSizes DEF PushShape, ClipShape
  <2>3. push["http"].n = 0 /\ push["http"].done = 0
    BY <2>1, RingFacts, TaskNames DEF PushShape, ClipShape
  <2> QED BY <2>1, <2>2, <2>3, TaskNames DEF Alone
<1>4. Alone("webrtc")'
  BY <1>3, StreamFrame, TaskNames DEF Alone, Moves
<1> QED BY <1>2, <1>3, <1>4

LEMMA ClipAlone ==
  ASSUME RingTypes, PushShape, OnePushes', ClipStep
  PROVE  /\ frames = 0 /\ frames' = 0 /\ clips' # 0
         /\ Alone("http") /\ Alone("http")'
<1>1. clips' # 0
  <2>1. clips \in Nat
    BY RingFacts
  <2>2. CASE pc["http"] # "idle"
    <3>1. clips # 0
      BY <2>2 DEF PushShape, ClipShape
    <3>2. clips' = clips
      BY <2>2 DEF ClipStep, Loads, LoadHead, LoadTail, RequestClip, ClipWaits,
                  ClipFits, WriteSample, LoadForPublish, Publish, producer
    <3> QED BY <3>1, <3>2
  <2>3. CASE pc["http"] = "idle"
    <3>1. clips' = clips + 1
      BY <2>3 DEF ClipStep, Loads, LoadHead, LoadTail, RequestClip, ClipWaits,
                  ClipFits, WriteSample, LoadForPublish, Publish
    <3> QED BY <2>1, <3>1
  <2> QED BY <2>2, <2>3
<1>2. frames = 0 /\ frames' = 0
  BY <1>1, ClipFrame DEF OnePushes
<1>3. Alone("http")
  <2>1. pc["webrtc"] = "idle" /\ pushed["webrtc"] = 0
    BY <1>2 DEF PushShape, StreamShape
  <2>2. push["webrtc"].n = 0 /\ push["webrtc"].done = 0
    BY <2>1, RingFacts, TaskNames DEF PushShape, StreamShape
  <2> QED BY <2>1, <2>2, TaskNames DEF Alone
<1>4. Alone("http")'
  BY <1>3, ClipFrame, TaskNames DEF Alone, Moves
<1> QED BY <1>1, <1>2, <1>3, <1>4

LEMMA AlonePublishes ==
  ASSUME RingTypes, NEW t \in Producers, Alone(t)
  PROVE  Published = pushed[t] /\ Writing = push[t].done
<1>1. /\ pushed["webrtc"] \in Nat /\ pushed["http"] \in Nat
      /\ push["webrtc"].done \in Nat /\ push["http"].done \in Nat
  BY RingFacts, TaskNames
<1> QED BY <1>1, TaskNames DEF Published, Writing, Alone

LEMMA AlonePublishesNext ==
  ASSUME RingTypes', NEW t \in Producers, Alone(t)'
  PROVE  Published' = pushed'[t] /\ Writing' = push'[t].done
<1>1. /\ pushed' \in [Producers -> Nat] /\ push' \in [Producers -> Push]
  BY DEF RingTypes
<1>2. /\ pushed'["webrtc"] \in Nat /\ pushed'["http"] \in Nat
      /\ push'["webrtc"] \in Push /\ push'["http"] \in Push
  BY <1>1, TaskNames
<1>3. push'["webrtc"].done \in Nat /\ push'["http"].done \in Nat
  BY <1>2 DEF Push
<1> QED BY <1>2, <1>3, TaskNames DEF Published, Writing, Alone

(* What the steps that all producers share do to the counters.                 *)
LEMMA WriteEffect ==
  ASSUME RingTypes, NEW t \in Producers, WriteSample(t)
  PROVE  /\ push'[t].n = push[t].n /\ push'[t].done = push[t].done + 1
         /\ push'[t].loud = push[t].loud
<1>1. push[t] \in Push /\ push \in [Producers -> Push]
  BY RingFacts DEF RingTypes
<1>2. push'[t] = [push[t] EXCEPT !.done = @ + 1]
  BY <1>1 DEF WriteSample
<1> QED BY <1>1, <1>2 DEF Push

LEMMA PublishEffect ==
  ASSUME RingTypes, PushShape, NEW t \in Producers, Publish(t)
  PROVE  /\ pc'[t] \in {"count", "idle"}
         /\ head'[t] = NotLoaded /\ tail'[t] = NotLoaded
         /\ push'[t] = NoPush /\ pushed'[t] = pushed[t] + push[t].n
         /\ push[t].done = push[t].n
  BY TaskNames, ForgetLoads, GotoSteps
  DEF RingTypes, PushShape, StreamShape, ClipShape, Publish

LEMMA ProducerHead ==
  ASSUME RingTypes, RingTypes', PushShape, NEW t \in Producers, Alone(t),
         Alone(t)', HeadIsPublished,
         \/ Loads(t) \/ WriteSample(t) \/ LoadForPublish(t) \/ Publish(t)
  PROVE  HeadIsPublished'
<1> USE TaskNames
<1>1. Published = pushed[t] /\ Published' = pushed'[t]
  BY AlonePublishes, AlonePublishesNext
<1>2. \A u \in Producers : u # t => HeadOf(u)'
  BY DEF Alone, HeadOf
<1>3. play_ring_head = pushed[t] % CounterMod /\ HeadOf(t)
  BY <1>1 DEF HeadIsPublished
<1>4. /\ head \in [Tasks -> Counter \cup {NotLoaded}]
      /\ pushed[t] \in Nat /\ push[t].n \in Nat
  BY RingFacts DEF RingTypes
<1>5. SUFFICES play_ring_head' = pushed'[t] % CounterMod /\ HeadOf(t)'
  BY <1>1, <1>2 DEF HeadIsPublished
<1>6. CASE Loads(t)
  BY <1>1, <1>3, <1>4, <1>6
  DEF Loads, LoadHead, LoadTail, HeadOf, ring, producer
<1>7. CASE WriteSample(t)
  BY <1>1, <1>3, <1>7, WriteEffect DEF WriteSample, HeadOf, regs
<1>8. CASE LoadForPublish(t)
  <2>1. /\ pc'[t] = "publish" /\ push' = push /\ pushed' = pushed
        /\ play_ring_head' = play_ring_head
    BY <1>8, GotoSteps DEF LoadForPublish, ring, producer
  <2>2. head'[t] = (play_ring_head + push[t].n) % CounterMod
    BY <1>4, <1>8 DEF LoadForPublish
  <2>3. head'[t] = (pushed[t] + push[t].n) % CounterMod
    BY <1>3, <1>4, <2>2, CounterGoesOn
  <2> QED BY <1>1, <1>3, <2>1, <2>3 DEF HeadOf
<1>9. CASE Publish(t)
  <2>1. head[t] = (pushed[t] + push[t].n) % CounterMod
    BY <1>1, <1>3, <1>9 DEF Publish, HeadOf
  <2>2. play_ring_head' = head[t]
    BY <1>9 DEF Publish
  <2> QED BY <1>9, <2>1, <2>2, PublishEffect DEF HeadOf
<1> QED BY <1>6, <1>7, <1>8, <1>9

LEMMA HeadStep ==
  ASSUME RingTypes, RingTypes', PushShape, OnePushes', HeadIsPublished,
         [Next]_vars
  PROVE  HeadIsPublished'
<1> USE TaskNames
<1>1. CASE StreamStep
  <2>1. /\ Alone("webrtc") /\ Alone("webrtc")'
    BY <1>1, StreamAlone
  <2>2. \A u \in Producers : u # "webrtc" => HeadOf(u)'
    BY <2>1 DEF Alone, HeadOf
  <2>3. SUFFICES ASSUME \/ \E loud \in BOOLEAN : DecodedFrame(loud)
                        \/ PushFits \/ PushOverruns \/ DropOldest
                 PROVE  play_ring_head' = Published' % CounterMod
                        /\ HeadOf("webrtc")'
    BY <1>1, <2>1, <2>2, ProducerHead DEF StreamStep, HeadIsPublished
  <2>4. /\ play_ring_head' = play_ring_head /\ Published' = Published
    BY <2>3 DEF DecodedFrame, PushFits, PushOverruns, DropOldest, ring, producer,
                Published
  <2>5. HeadOf("webrtc")'
    <3> USE DEF HeadOf
    <3>1. ASSUME NEW loud \in BOOLEAN, DecodedFrame(loud)
          PROVE  HeadOf("webrtc")'
      <4>1. head' = head /\ head["webrtc"] = NotLoaded
        BY <3>1 DEF DecodedFrame, PushShape, StreamShape, Unloaded
      <4>2. pc'["webrtc"] \in {"idle", "count"}
        BY <3>1, GotoSteps DEF DecodedFrame
      <4> QED BY <4>1, <4>2
    <3>2. CASE PushFits
      BY <3>2, GotoSteps DEF PushFits
    <3>3. CASE PushOverruns
      <4>1. pc'["webrtc"] = "drop" /\ head' = head /\ pc["webrtc"] = "count"
        BY <3>3, GotoSteps DEF PushOverruns
      <4> QED BY <2>4, <4>1 DEF HeadIsPublished
    <3>4. CASE DropOldest
      BY <3>4, GotoSteps DEF DropOldest
    <3> QED BY <2>3, <3>1, <3>2, <3>3, <3>4
  <2> QED BY <2>2, <2>4, <2>5, <1>1, <2>1 DEF HeadIsPublished
<1>2. CASE ClipStep
  <2>1. /\ Alone("http") /\ Alone("http")'
    BY <1>2, ClipAlone
  <2>2. \A u \in Producers : u # "http" => HeadOf(u)'
    BY <2>1 DEF Alone, HeadOf
  <2>3. SUFFICES ASSUME RequestClip \/ ClipWaits \/ ClipFits
                 PROVE  play_ring_head' = Published' % CounterMod
                        /\ HeadOf("http")'
    BY <1>2, <2>1, <2>2, ProducerHead DEF ClipStep, HeadIsPublished
  <2>4. /\ play_ring_head' = play_ring_head /\ Published' = Published
    BY <2>3 DEF RequestClip, ClipWaits, ClipFits, ring, producer, Published
  <2>5. /\ pc'["http"] \in {"count", "write"} /\ head'["http"] = NotLoaded
    BY <2>3, GotoSteps, ForgetLoads
    DEF RequestClip, ClipWaits, ClipFits, PushShape, ClipShape, Unloaded
  <2> QED BY <2>4, <2>5 DEF HeadIsPublished, HeadOf
<1>3. CASE PlaybackStep
  BY <1>3, PlaybackFrame
  DEF HeadIsPublished, HeadOf, Moves, producer, Published
<1>4. CASE GuardStep
  BY <1>4, GuardFrame
  DEF HeadIsPublished, HeadOf, Moves, producer, ring, Published
<1>5. CASE UNCHANGED vars
  BY <1>5 DEF HeadIsPublished, HeadOf, vars, producer, ring, regs, Published
<1> QED BY <1>1, <1>2, <1>3, <1>4, <1>5, StepOfOneTask

(* Room that a producer sees is room that there is: the playback task may only *)
(* have made more of it since.                                                *)
LEMMA RoomIsThere ==
  ASSUME RingTypes, NEW t \in Producers, pc[t] = "count", Loaded(t),
         HeadIsPublished, TailIsPlayed, RoomFor(t)
  PROVE  Published + FreeSpace(t) <= played + PLAY_RING_SAMPLES
<1>1. head[t] = Published % CounterMod
  BY DEF Loaded, HeadIsPublished, HeadOf
<1>2. PICK a \in 0 .. played : /\ Published <= a + PLAY_RING_SAMPLES
                               /\ tail[t] = a % CounterMod
  BY DEF Loaded, RoomFor
<1>3. /\ Published \in Nat /\ played \in Nat /\ a \in Nat
      /\ a <= played /\ played <= Published
  BY RingFacts DEF TailIsPlayed, RingTypes
<1>4. Published - a \in 0 .. CounterMod - 1
  BY <1>2, <1>3, RingSizes
<1>5. Count(t) = Published - a
  BY <1>1, <1>2, <1>3, <1>4, CountIsDistance DEF Count
<1>6. PLAY_RING_SAMPLES - Count(t) \in 0 .. CounterMod - 1
  BY <1>2, <1>3, <1>5, RingSizes
<1>7. FreeSpace(t) = PLAY_RING_SAMPLES - Count(t)
  BY <1>6, SmallRemainder DEF FreeSpace
<1> QED BY <1>3, <1>5, <1>7, RingSizes

LEMMA ProducerRoom ==
  ASSUME RingTypes, RingTypes', PushShape, NEW t \in Producers, Alone(t),
         Alone(t)', HeadIsPublished, TailIsPlayed, RoomFor(t),
         \/ Loads(t) \/ WriteSample(t) \/ LoadForPublish(t) \/ Publish(t)
  PROVE  TailIsPlayed' /\ (\A u \in Producers : RoomFor(u)')
<1> USE TaskNames
<1>1. Published = pushed[t] /\ Published' = pushed'[t]
  BY AlonePublishes, AlonePublishesNext
<1>2. \A u \in Producers : u # t => RoomFor(u)'
  BY DEF Alone, RoomFor
<1>3. SUFFICES TailIsPlayed' /\ RoomFor(t)'
  BY <1>2
<1>4. /\ play_ring_tail' = play_ring_tail /\ played' = played
  BY DEF Loads, LoadHead, LoadTail, WriteSample, LoadForPublish, Publish, ring,
         playback
<1>5. /\ pushed[t] \in Nat /\ push[t].n \in Nat /\ played \in Nat
      /\ tail \in [Tasks -> Counter \cup {NotLoaded}]
  BY RingFacts DEF RingTypes
<1>6. CASE LoadHead(t)
  BY <1>1, <1>4, <1>6 DEF LoadHead, TailIsPlayed, RoomFor, producer
<1>7. CASE LoadTail(t)
  <2>1. /\ pc' = pc /\ push' = push /\ Published' = Published
        /\ pc[t] = "count" /\ tail'[t] = play_ring_tail
    BY <1>5, <1>7 DEF LoadTail, producer, Published
  <2>2. played \in 0 .. played
    BY <1>5
  <2>3. /\ Published <= played + PLAY_RING_SAMPLES
        /\ tail'[t] = played % CounterMod
    BY <2>1 DEF TailIsPlayed
  <2> QED BY <1>4, <2>1, <2>2, <2>3 DEF TailIsPlayed, RoomFor
<1>8. CASE WriteSample(t)
  <2>1. /\ pc' = pc /\ pushed' = pushed /\ tail' = tail
    BY <1>8 DEF WriteSample, regs
  <2> QED
    BY <1>1, <1>4, <1>8, <2>1, WriteEffect DEF WriteSample, TailIsPlayed, RoomFor
<1>9. CASE LoadForPublish(t)
  <2>1. /\ pc[t] = "write" /\ pc'[t] = "publish" /\ push' = push
        /\ pushed' = pushed
    BY <1>9, GotoSteps DEF LoadForPublish, producer
  <2> QED BY <1>1, <1>4, <2>1 DEF TailIsPlayed, RoomFor
<1>10. CASE Publish(t)
  <2>1. /\ pc[t] = "publish" /\ pc'[t] \in {"idle", "count"}
        /\ tail'[t] = NotLoaded /\ pushed'[t] = pushed[t] + push[t].n
    BY <1>10, PublishEffect DEF Publish
  <2>2. Published + push[t].n <= played + PLAY_RING_SAMPLES
    BY <2>1 DEF RoomFor
  <2>3. TailIsPlayed'
    BY <1>1, <1>4, <1>5, <2>1, <2>2, RingSizes DEF TailIsPlayed
  <2> QED BY <2>1, <2>3 DEF RoomFor
<1> QED BY <1>6, <1>7, <1>8, <1>9, <1>10 DEF Loads

LEMMA StreamRoom ==
  ASSUME RingTypes, RingTypes', PushShape, OnePushes', StreamStep,
         HeadIsPublished, TailIsPlayed, RoomFor("webrtc"), ~play_ring_drops'
  PROVE  TailIsPlayed' /\ (\A u \in Producers : RoomFor(u)')
<1> USE TaskNames
<1>1. /\ Alone("webrtc") /\ Alone("webrtc")'
  BY StreamAlone
<1>2. \A u \in Producers : u # "webrtc" => RoomFor(u)'
  BY <1>1 DEF Alone, RoomFor
<1>3. SUFFICES ASSUME \/ \E loud \in BOOLEAN : DecodedFrame(loud)
                      \/ PushFits \/ PushOverruns
               PROVE  TailIsPlayed' /\ RoomFor("webrtc")'
  BY <1>1, <1>2, ProducerRoom DEF StreamStep, DropOldest
<1>4. /\ play_ring_tail' = play_ring_tail /\ Published' = Published
      /\ played' = played
  BY <1>3 DEF DecodedFrame, PushFits, PushOverruns, ring, producer, playback,
              Published
<1>5. TailIsPlayed'
  BY <1>4 DEF TailIsPlayed
<1>6. RoomFor("webrtc")'
  <2>1. ASSUME NEW loud \in BOOLEAN, DecodedFrame(loud)
        PROVE  RoomFor("webrtc")'
    <3>1. tail' = tail /\ tail["webrtc"] = NotLoaded
      BY <2>1 DEF DecodedFrame, PushShape, StreamShape, Unloaded
    <3>2. pc'["webrtc"] \in {"idle", "count"}
      BY <2>1, GotoSteps DEF DecodedFrame
    <3> QED BY <3>1, <3>2 DEF RoomFor
  <2>2. CASE PushFits
    <3>1. /\ pc["webrtc"] = "count" /\ Loaded("webrtc")
          /\ FreeSpace("webrtc") >= push["webrtc"].n
          /\ push' = push /\ pc'["webrtc"] = "write"
      BY <2>2, GotoSteps DEF PushFits, producer
    <3>2. Published + FreeSpace("webrtc") <= played + PLAY_RING_SAMPLES
      BY <3>1, RoomIsThere
    <3>3. FreeSpace("webrtc") \in Int /\ push["webrtc"].n \in Int
      <4>1. FreeSpace("webrtc") \in 0 .. CounterMod - 1
        BY CountTypes
      <4> QED BY <4>1, RingFacts
    <3>4. Published \in Int /\ played \in Int
      BY RingFacts DEF RingTypes
    <3>5. Published + push["webrtc"].n <= played + PLAY_RING_SAMPLES
      BY <3>1, <3>2, <3>3, <3>4, RingSizes
    <3> QED BY <1>4, <3>1, <3>5 DEF RoomFor
  <2>3. CASE PushOverruns
    BY <2>3, GotoSteps DEF PushOverruns, RoomFor
  <2> QED BY <1>3, <2>1, <2>2, <2>3
<1> QED BY <1>5, <1>6

LEMMA ClipRoom ==
  ASSUME RingTypes, RingTypes', PushShape, OnePushes', ClipStep,
         HeadIsPublished, TailIsPlayed, RoomFor("http")
  PROVE  TailIsPlayed' /\ (\A u \in Producers : RoomFor(u)')
<1> USE TaskNames
<1>1. /\ Alone("http") /\ Alone("http")'
  BY ClipAlone
<1>2. \A u \in Producers : u # "http" => RoomFor(u)'
  BY <1>1 DEF Alone, RoomFor
<1>3. SUFFICES ASSUME RequestClip \/ ClipWaits \/ ClipFits
               PROVE  TailIsPlayed' /\ RoomFor("http")'
  BY <1>1, <1>2, ProducerRoom DEF ClipStep
<1>4. /\ play_ring_tail' = play_ring_tail /\ Published' = Published
      /\ played' = played
  BY <1>3 DEF RequestClip, ClipWaits, ClipFits, ring, producer, playback,
              Published
<1>5. TailIsPlayed'
  BY <1>4 DEF TailIsPlayed
<1>6. RoomFor("http")'
  <2>1. CASE RequestClip \/ ClipWaits
    <3>1. pc'["http"] = "count" /\ tail'["http"] = NotLoaded
      BY <2>1, GotoSteps, ForgetLoads
      DEF RequestClip, ClipWaits, PushShape, ClipShape, Unloaded
    <3> QED BY <3>1 DEF RoomFor
  <2>2. CASE ClipFits
    <3>1. /\ pc["http"] = "count" /\ Loaded("http") /\ pc'["http"] = "write"
          /\ push'["http"].n = IF ClipLeft > FreeSpace("http")
                               THEN FreeSpace("http") ELSE ClipLeft
      BY <2>2, GotoSteps DEF ClipFits, RingTypes
    <3>2. Published + FreeSpace("http") <= played + PLAY_RING_SAMPLES
      BY <3>1, RoomIsThere
    <3>3. FreeSpace("http") \in Int /\ ClipLeft \in Int
      <4>1. FreeSpace("http") \in 0 .. CounterMod - 1
        BY CountTypes
      <4> QED BY <4>1, RingFacts
    <3>4. Published \in Int /\ played \in Int
      BY RingFacts DEF RingTypes
    <3> DEFINE n == push'["http"].n
    <3> DEFINE free == FreeSpace("http")
    <3>5. n \in Int /\ n <= free
      BY <3>1, <3>3
    <3>6. Published + n <= played + PLAY_RING_SAMPLES
      <4>1. PLAY_RING_SAMPLES \in Int
        BY RingSizes
      <4>2. free \in Int /\ Published + free <= played + PLAY_RING_SAMPLES
        BY <3>2, <3>3
      <4> HIDE DEF n, free
      <4> QED BY <3>4, <3>5, <4>1, <4>2
    <3> QED BY <1>4, <3>1, <3>6 DEF RoomFor
  <2> QED BY <1>3, <2>1, <2>2
<1> QED BY <1>5, <1>6

(* What is published and what is played only grows. *)
LEMMA PublishedGrows ==
  ASSUME RingTypes, RingTypes', PushShape, OnePushes', [Next]_vars
  PROVE  Published <= Published' /\ Published' \in Nat
<1> USE TaskNames
<1>1. ASSUME NEW t \in Producers, Alone(t), Alone(t)'
      PROVE  Published = pushed[t] /\ Published' = pushed'[t]
  BY <1>1, AlonePublishes, AlonePublishesNext
<1>2. pushed \in [Producers -> Nat] /\ pushed' \in [Producers -> Nat]
  BY DEF RingTypes
<1>3. Published \in Nat
  BY RingFacts
<1>4. Published' \in Nat
  BY <1>2 DEF Published
<1>5. CASE StreamStep
  <2>1. push["webrtc"].n \in Nat
    BY RingFacts
  <2>2. pushed["webrtc"] <= pushed'["webrtc"]
    BY <1>2, <1>5, <2>1, PublishEffect
    DEF StreamStep, Loads, LoadHead, LoadTail, DecodedFrame, PushFits,
        PushOverruns, DropOldest, WriteSample, LoadForPublish, producer
  <2> QED BY <1>1, <1>4, <1>5, <2>2, StreamAlone
<1>6. CASE ClipStep
  <2>1. push["http"].n \in Nat
    BY RingFacts
  <2>2. pushed["http"] <= pushed'["http"]
    BY <1>2, <1>6, <2>1, PublishEffect
    DEF ClipStep, Loads, LoadHead, LoadTail, RequestClip, ClipWaits, ClipFits,
        WriteSample, LoadForPublish, producer
  <2> QED BY <1>1, <1>4, <1>6, <2>2, ClipAlone
<1>7. CASE PlaybackStep \/ GuardStep \/ UNCHANGED vars
  BY <1>3, <1>7, PlaybackFrame, GuardFrame DEF producer, vars, Published
<1> QED BY <1>4, <1>5, <1>6, <1>7, StepOfOneTask

LEMMA PlayedGrows ==
  ASSUME RingTypes, [Next]_vars
  PROVE  played <= played' /\ played' \in Nat
<1>1. CASE PlaybackStep
  BY <1>1, RingSizes
  DEF RingTypes, PlaybackStep, Loads, LoadHead, LoadTail, Prebuffer, StartPop,
      Underrun, PopSample, LoadForPop, ReleaseFrame, playback
<1>2. CASE StreamStep \/ ClipStep \/ GuardStep \/ UNCHANGED vars
  BY <1>2, StreamFrame, ClipFrame, GuardFrame DEF RingTypes, playback, vars
<1> QED BY <1>1, <1>2, StepOfOneTask

(* The playback task counts at most what there is, in whole frames as long as  *)
(* there was no clip.                                                         *)
LEMMA CountIsThere ==
  ASSUME RingTypes, pc["playback"] = "count", Loaded("playback"), TailIsPlayed,
         FrameToPop
  PROVE  \E b \in played .. Published : /\ Count("playback") = b - played
                                        /\ clips = 0 => Whole(b)
<1>1. tail["playback"] = played % CounterMod
  BY DEF Loaded, FrameToPop
<1>2. PICK b \in played .. Published : /\ head["playback"] = b % CounterMod
                                       /\ clips = 0 => Whole(b)
  BY DEF Loaded, FrameToPop
<1>3. played \in Nat /\ Published \in Nat /\ b \in Nat
  BY RingFacts DEF RingTypes
<1>4. b - played \in 0 .. CounterMod - 1
  BY <1>3, RingSizes DEF TailIsPlayed
<1>5. Count("playback") = b - played
  BY <1>1, <1>2, <1>3, <1>4, CountIsDistance DEF Count
<1> QED BY <1>2, <1>5

LEMMA PlaybackCounters ==
  ASSUME RingTypes, RingTypes', PushShape, HeadIsPublished, CountersInStep,
         PlaybackStep
  PROVE  CountersInStep'
<1> USE TaskNames
<1>1. /\ UNCHANGED <<play_ring_head, pushed, push, clips>>
      /\ Published' = Published
      /\ \A u \in Producers : pc'[u] = pc[u] /\ tail'[u] = tail[u]
  BY PlaybackFrame DEF producer, Published, Moves
<1>2. /\ played \in Nat /\ Published \in Nat /\ played' \in Nat
      /\ pc["playback"] \in Steps["playback"]
  BY RingFacts DEF RingTypes
<1>3. /\ TailIsPlayed /\ FrameToPop /\ WholeFrames
      /\ \A u \in Producers : RoomFor(u)
  BY DEF CountersInStep
<1>4. CASE Loads("playback")
  <2>1. /\ UNCHANGED <<play_ring_tail, played, g_play_stat_underruns, pc>>
        /\ pc["playback"] = "count"
    BY <1>4 DEF Loads, LoadHead, LoadTail, ring, playback
  <2>2. TailIsPlayed' /\ WholeFrames' /\ \A u \in Producers : RoomFor(u)'
    BY <1>1, <1>3, <2>1 DEF TailIsPlayed, WholeFrames, RoomFor
  <2>3. FrameToPop'
    <3>1. CASE LoadHead("playback")
      <4>1. /\ head'["playback"] = Published % CounterMod /\ tail' = tail
            /\ Published \in played .. Published
            /\ clips = 0 => Whole(Published)
        BY <1>2, <1>3, <3>1
        DEF LoadHead, HeadIsPublished, RingTypes, TailIsPlayed, WholeFrames
      <4> QED BY <1>1, <1>3, <2>1, <4>1 DEF FrameToPop
    <3>2. CASE LoadTail("playback")
      <4>1. tail'["playback"] = played % CounterMod /\ head' = head
        BY <1>3, <3>2 DEF LoadTail, RingTypes, TailIsPlayed
      <4> QED BY <1>1, <1>3, <2>1, <4>1 DEF FrameToPop
    <3> QED BY <1>4, <3>1, <3>2 DEF Loads
  <2> QED BY <2>2, <2>3 DEF CountersInStep
<1>5. ASSUME NEW threshold,
             \/ threshold \in Thresholds /\ Prebuffer(threshold)
             \/ threshold \in Thresholds /\ StartPop(threshold)
             \/ Underrun
      PROVE  CountersInStep'
  <2>1. /\ UNCHANGED <<play_ring_tail, played>>
        /\ pc["playback"] = "count" /\ Loaded("playback")
        /\ head'["playback"] = NotLoaded /\ tail'["playback"] = NotLoaded
    BY <1>5, ForgetLoads DEF Prebuffer, StartPop, Underrun, ring, playback
  <2>2. PICK b \in played .. Published : /\ Count("playback") = b - played
                                         /\ clips = 0 => Whole(b)
    BY <1>3, <2>1, CountIsThere
  <2>3. TailIsPlayed' /\ \A u \in Producers : RoomFor(u)'
    BY <1>1, <1>3, <2>1 DEF TailIsPlayed, RoomFor
  <2>4. WholeFrames'
    <3>1. CASE Prebuffer(threshold) \/ StartPop(threshold)
      BY <1>1, <1>3, <2>1, <3>1 DEF Prebuffer, StartPop, WholeFrames, playback
    <3>2. CASE Underrun
      <4>1. clips = 0 => Count("playback") = 0
        BY <1>2, <1>3, <2>2, <3>2, NoPartialFrame DEF Underrun, WholeFrames
      <4>2. clips = 0 => g_play_stat_underruns' = g_play_stat_underruns
        BY <3>2, <4>1 DEF Underrun, WholeFrames, RingTypes
      <4> QED BY <1>1, <1>3, <2>1, <4>2 DEF WholeFrames
    <3> QED BY <1>5, <3>1, <3>2
  <2>5. FrameToPop'
    <3>1. CASE Prebuffer(threshold) \/ Underrun
      <4>1. pc'["playback"] = "count"
        BY <2>1, <3>1 DEF Prebuffer, Underrun
      <4> QED BY <2>1, <4>1 DEF FrameToPop
    <3>2. CASE threshold \in Thresholds /\ StartPop(threshold)
      <4>1. threshold >= PCM_SAMPLES_PER_FRAME /\ threshold \in Int
        BY <3>2, RingSizes, RingAssumption
      <4>2. Count("playback") >= PCM_SAMPLES_PER_FRAME
        <5>1. Count("playback") \in Int
          BY <1>2, <2>2
        <5> QED BY <3>2, <4>1, <5>1, RingSizes DEF StartPop
      <4>3. played + PCM_SAMPLES_PER_FRAME <= Published
        BY <1>2, <2>2, <4>2, RingSizes
      <4>4. pc'["playback"] = "pop"
        BY <3>2, GotoSteps DEF StartPop
      <4> QED BY <1>1, <2>1, <4>3, <4>4 DEF FrameToPop
    <3> QED BY <1>5, <3>1, <3>2
  <2> QED BY <2>3, <2>4, <2>5 DEF CountersInStep
<1>6. CASE PopSample \/ LoadForPop
  <2>1. /\ UNCHANGED <<play_ring_tail, played, g_play_stat_underruns>>
        /\ pc["playback"] = "pop"
    BY <1>6 DEF PopSample, LoadForPop, ring, playback
  <2>2. TailIsPlayed' /\ WholeFrames' /\ \A u \in Producers : RoomFor(u)'
    BY <1>1, <1>3, <2>1 DEF TailIsPlayed, WholeFrames, RoomFor
  <2>3. CASE PopSample
    BY <1>1, <1>3, <2>1, <2>2, <2>3 DEF PopSample, FrameToPop, CountersInStep, regs
  <2>4. CASE LoadForPop
    <3>1. /\ pc'["playback"] = "release"
          /\ tail'["playback"] = (play_ring_tail + PCM_SAMPLES_PER_FRAME) % CounterMod
      BY <2>4, GotoSteps DEF LoadForPop, RingTypes
    <3>2. tail'["playback"] = (played + PCM_SAMPLES_PER_FRAME) % CounterMod
      <4>1. play_ring_tail = played % CounterMod /\ PCM_SAMPLES_PER_FRAME \in Int
        BY <1>3, RingSizes DEF TailIsPlayed
      <4> QED BY <1>2, <3>1, <4>1, CounterGoesOn
    <3> QED
      BY <1>1, <1>3, <2>1, <2>2, <3>1, <3>2 DEF FrameToPop, CountersInStep
  <2> QED BY <1>6, <2>3, <2>4
<1>7. CASE ReleaseFrame
  <2>1. /\ pc["playback"] = "release" /\ pc'["playback"] = "count"
        /\ head'["playback"] = NotLoaded /\ tail'["playback"] = NotLoaded
        /\ play_ring_tail' = tail["playback"]
        /\ played' = played + PCM_SAMPLES_PER_FRAME
        /\ g_play_stat_underruns' = g_play_stat_underruns
    BY <1>7, ForgetLoads, GotoSteps DEF ReleaseFrame
  <2>2. /\ played + PCM_SAMPLES_PER_FRAME <= Published
        /\ tail["playback"] = (played + PCM_SAMPLES_PER_FRAME) % CounterMod
    BY <1>3, <2>1 DEF FrameToPop
  <2>3. TailIsPlayed'
    BY <1>1, <1>2, <1>3, <2>1, <2>2, RingSizes DEF TailIsPlayed
  <2>4. FrameToPop'
    BY <2>1 DEF FrameToPop
  <2>5. WholeFrames'
    BY <1>1, <1>2, <1>3, <2>1, NextWhole DEF WholeFrames
  <2>6. ASSUME NEW u \in Producers PROVE RoomFor(u)'
    <3>1. CASE pc[u] = "count" /\ tail[u] # NotLoaded
      <4>1. PICK a \in 0 .. played : /\ Published <= a + PLAY_RING_SAMPLES
                                     /\ tail[u] = a % CounterMod
        BY <1>3, <3>1 DEF RoomFor
      <4>2. a \in 0 .. played'
        BY <1>2, <2>1, RingSizes
      <4> QED BY <1>1, <3>1, <4>1, <4>2 DEF RoomFor
    <3>2. CASE pc[u] \in {"write", "publish"}
      <4>1. Published + push[u].n <= played + PLAY_RING_SAMPLES
        BY <1>3, <3>2 DEF RoomFor
      <4>2. push[u].n \in Int
        BY RingFacts
      <4> QED BY <1>1, <1>2, <2>1, <3>2, <4>1, <4>2, RingSizes DEF RoomFor
    <3>3. CASE ~(pc[u] = "count" /\ tail[u] # NotLoaded)
               /\ pc[u] \notin {"write", "publish"}
      BY <1>1, <3>3 DEF RoomFor
    <3> QED BY <3>1, <3>2, <3>3
  <2> QED BY <2>3, <2>4, <2>5, <2>6 DEF CountersInStep
<1> QED
  <2>1. ASSUME NEW threshold \in Thresholds,
               Prebuffer(threshold) \/ StartPop(threshold)
        PROVE  CountersInStep'
    BY <1>5, <2>1
  <2>2. CASE Underrun
    BY <1>5, <2>2
  <2> QED BY <1>4, <1>6, <1>7, <2>1, <2>2 DEF PlaybackStep

(* The steps of the other tasks leave the playback task's frame where it is. *)
LEMMA FrameStays ==
  ASSUME RingTypes, RingTypes', PushShape, OnePushes', [Next]_vars, FrameToPop,
         Moves("webrtc") \/ Moves("http") \/ Moves("rtvi"),
         played' = played, clips' = 0 => clips = 0
  PROVE  FrameToPop'
<1>1. /\ pc'["playback"] = pc["playback"]
      /\ head'["playback"] = head["playback"]
      /\ tail'["playback"] = tail["playback"]
  BY TaskNames DEF Moves
<1>2. /\ Published <= Published' /\ Published' \in Nat /\ Published \in Nat
      /\ played \in Nat
  BY PublishedGrows, RingFacts DEF RingTypes
<1>3. CASE pc["playback"] = "count"
  <2>1. CASE head["playback"] = NotLoaded
    BY <1>1, <1>3, <2>1 DEF FrameToPop
  <2>2. CASE head["playback"] # NotLoaded
    <3>1. PICK b \in played .. Published : /\ head["playback"] = b % CounterMod
                                           /\ clips = 0 => Whole(b)
      BY <1>3, <2>2 DEF FrameToPop
    <3>2. b \in played' .. Published'
      BY <1>2
    <3> QED BY <1>1, <1>3, <3>1, <3>2 DEF FrameToPop
  <2> QED BY <2>1, <2>2
<1>4. CASE pc["playback"] # "count"
  BY <1>1, <1>2, <1>4, RingSizes DEF FrameToPop
<1> QED BY <1>3, <1>4

LEMMA CountersStep ==
  ASSUME RingTypes, RingTypes', PushShape, OnePushes', ~play_ring_drops',
         HeadIsPublished, CountersInStep, [Next]_vars
  PROVE  CountersInStep'
<1> USE TaskNames
<1>1. /\ TailIsPlayed /\ FrameToPop /\ WholeFrames
      /\ \A u \in Producers : RoomFor(u)
  BY DEF CountersInStep
<1>2. CASE StreamStep
  <2>1. /\ Moves("webrtc") /\ clips' = clips /\ played' = played
        /\ g_play_stat_underruns' = g_play_stat_underruns
    BY <1>2, StreamFrame DEF playback
  <2>2. TailIsPlayed' /\ \A u \in Producers : RoomFor(u)'
    BY <1>1, <1>2, StreamRoom
  <2>3. FrameToPop'
    BY <1>1, <2>1, FrameStays
  <2>4. WholeFrames'
    <3>1. CASE Publish("webrtc")
      <4>1. /\ Published = pushed["webrtc"] /\ Published' = pushed'["webrtc"]
            /\ pushed'["webrtc"] = pushed["webrtc"] + push["webrtc"].n
        BY <1>2, <3>1, StreamAlone, AlonePublishes, AlonePublishesNext,
           PublishEffect
      <4>2. push["webrtc"].n = PCM_SAMPLES_PER_FRAME
        BY <3>1 DEF Publish, PushShape, StreamShape
      <4> QED
        BY <1>1, <2>1, <4>1, <4>2, NextWhole, RingFacts DEF WholeFrames
    <3>2. CASE ~Publish("webrtc")
      <4>1. Published' = Published
        BY <1>2, <3>2
        DEF StreamStep, Loads, LoadHead, LoadTail, DecodedFrame, PushFits,
            PushOverruns, DropOldest, WriteSample, LoadForPublish, producer,
            Published
      <4> QED BY <1>1, <2>1, <4>1 DEF WholeFrames
    <3> QED BY <3>1, <3>2
  <2> QED BY <2>2, <2>3, <2>4 DEF CountersInStep
<1>3. CASE ClipStep
  <2>1. Moves("http") /\ played' = played /\ clips' # 0
    BY <1>3, ClipFrame, ClipAlone DEF playback
  <2>2. TailIsPlayed' /\ \A u \in Producers : RoomFor(u)'
    BY <1>1, <1>3, ClipRoom
  <2>3. FrameToPop'
    BY <1>1, <2>1, FrameStays
  <2> QED BY <2>1, <2>2, <2>3 DEF CountersInStep, WholeFrames
<1>4. CASE PlaybackStep
  BY <1>4, PlaybackCounters
<1>5. CASE GuardStep
  BY <1>5, GuardFrame
  DEF Moves, CountersInStep, TailIsPlayed, RoomFor, FrameToPop, WholeFrames, ring,
      producer, playback, Published
<1>6. CASE UNCHANGED vars
  BY <1>6
  DEF CountersInStep, TailIsPlayed, RoomFor, FrameToPop, WholeFrames, vars, ring,
      producer, playback, regs, Published
<1> QED BY <1>2, <1>3, <1>4, <1>5, <1>6, StepOfOneTask

-----------------------------------------------------------------------------
(* The reset guard: what it saw published was played, if it saw the ring empty. *)
LEMMA GuardStays ==
  ASSUME RingTypes, RingTypes', PushShape, OnePushes', [Next]_vars, GuardInStep,
         Moves("webrtc") \/ Moves("http") \/ Moves("playback"), seen' = seen
  PROVE  GuardInStep'
<1>1. /\ pc'["rtvi"] = pc["rtvi"] /\ head'["rtvi"] = head["rtvi"]
      /\ tail'["rtvi"] = tail["rtvi"]
  BY TaskNames DEF Moves
<1>2. /\ Published <= Published' /\ Published' \in Nat /\ Published \in Nat
      /\ played <= played' /\ played' \in Nat /\ played \in Nat
      /\ seen \in Nat /\ CounterMod \in Nat
  BY PublishedGrows, PlayedGrows, RingFacts, RingSizes DEF RingTypes
<1>3. SUFFICES ASSUME Published' < CounterMod
               PROVE  /\ seen <= Published'
                      /\ pc["rtvi"] = "count" /\ head["rtvi"] # NotLoaded =>
                           head["rtvi"] = seen
                      /\ pc["rtvi"] = "count" /\ tail["rtvi"] # NotLoaded =>
                           tail["rtvi"] \in 0 .. played'
                      /\ pc["rtvi"] \in {"playing", "reset"} => seen <= played'
  BY <1>1 DEF GuardInStep
<1>4. Published < CounterMod
  BY <1>2, <1>3
<1> QED BY <1>2, <1>4 DEF GuardInStep

LEMMA GuardTakes ==
  ASSUME RingTypes, RingTypes', PushShape, HeadIsPublished, CountersInStep,
         GuardInStep, GuardStep
  PROVE  GuardInStep'
<1> USE TaskNames, GotoSteps, ForgetLoads
<1>1. /\ play_ring_head' = play_ring_head /\ play_ring_tail' = play_ring_tail
      /\ Published' = Published /\ played' = played
  BY GuardFrame DEF ring, producer, playback, Published
<1>2. /\ Published \in Nat /\ played \in Nat /\ seen \in Nat /\ CounterMod \in Nat
      /\ played <= Published /\ play_ring_head = Published % CounterMod
      /\ play_ring_tail = played % CounterMod
      /\ head \in [Tasks -> Counter \cup {NotLoaded}]
      /\ tail \in [Tasks -> Counter \cup {NotLoaded}]
  BY RingFacts, RingSizes
  DEF RingTypes, CountersInStep, TailIsPlayed, HeadIsPublished
<1>3. SUFFICES ASSUME Published < CounterMod PROVE GuardInStep'
  BY <1>1 DEF GuardInStep
<1>4. /\ seen <= Published
      /\ pc["rtvi"] = "count" /\ head["rtvi"] # NotLoaded => head["rtvi"] = seen
      /\ pc["rtvi"] = "count" /\ tail["rtvi"] # NotLoaded =>
           tail["rtvi"] \in 0 .. played
      /\ pc["rtvi"] \in {"playing", "reset"} => seen <= played
  BY <1>3 DEF GuardInStep
<1>5. play_ring_head = Published /\ play_ring_tail = played
  BY <1>2, <1>3, SmallRemainder
<1>6. CASE LoadHead("rtvi")
  <2>1. /\ pc["rtvi"] = "count" /\ pc' = pc /\ tail' = tail
        /\ head'["rtvi"] = Published /\ seen' = Published
    BY <1>2, <1>5, <1>6 DEF LoadHead
  <2> QED BY <1>1, <1>2, <1>4, <2>1 DEF GuardInStep
<1>7. CASE LoadTail("rtvi")
  <2>1. /\ pc["rtvi"] = "count" /\ pc' = pc /\ head' = head
        /\ tail'["rtvi"] = played /\ seen' = seen
    BY <1>2, <1>5, <1>7 DEF LoadTail, rtvi
  <2> QED BY <1>1, <1>2, <1>4, <2>1 DEF GuardInStep
<1>8. CASE BotStartedSpeaking
  <2>1. /\ pc'["rtvi"] = "count" /\ seen' = seen
        /\ head'["rtvi"] = NotLoaded /\ tail'["rtvi"] = NotLoaded
    BY <1>8 DEF BotStartedSpeaking, PushShape, GuardShape, Unloaded
  <2> QED BY <1>1, <1>4, <2>1 DEF GuardInStep
<1>9. CASE GuardRing
  <2>1. /\ pc["rtvi"] = "count" /\ Loaded("rtvi")
        /\ pc'["rtvi"] = IF Count("rtvi") = 0 THEN "playing" ELSE "idle"
        /\ seen' = IF pc'["rtvi"] = "idle" THEN 0 ELSE seen
    BY <1>9 DEF GuardRing, ForgetSeen
  <2>2. CASE Count("rtvi") = 0
    <3>1. head["rtvi"] = seen /\ tail["rtvi"] \in 0 .. played
      BY <1>4, <2>1 DEF Loaded
    <3>2. (seen - tail["rtvi"]) % CounterMod = 0
      BY <2>2, <3>1 DEF Count
    <3>3. /\ seen - tail["rtvi"] \in Int
          /\ seen - tail["rtvi"] < CounterMod
          /\ 0 - (seen - tail["rtvi"]) < CounterMod
      BY <1>2, <1>3, <1>4, <3>1
    <3>4. 0 % CounterMod = 0
      BY RingSizes, SmallRemainder
    <3>5. seen - tail["rtvi"] = 0
      BY <3>2, <3>3, <3>4, RingSizes, SameRemainder
    <3>6. seen <= played
      BY <1>2, <3>1, <3>5
    <3> QED BY <1>1, <1>4, <2>1, <2>2, <3>6 DEF GuardInStep
  <2>3. CASE Count("rtvi") # 0
    BY <1>1, <1>2, <2>1, <2>3 DEF GuardInStep
  <2> QED BY <2>2, <2>3
<1>10. CASE GuardPlaying \/ ResetDecoder
  <2>1. /\ pc["rtvi"] \in {"playing", "reset"} /\ pc'["rtvi"] \in {"idle", "reset"}
        /\ seen' = IF pc'["rtvi"] = "idle" THEN 0 ELSE seen
    BY <1>10 DEF GuardPlaying, ResetDecoder, ForgetSeen
  <2> QED BY <1>1, <1>2, <1>4, <2>1 DEF GuardInStep
<1> QED
  BY <1>6, <1>7, <1>8, <1>9, <1>10 DEF GuardStep, Loads

LEMMA GuardInStepKept ==
  ASSUME RingTypes, RingTypes', PushShape, OnePushes', HeadIsPublished,
         CountersInStep, GuardInStep, [Next]_vars
  PROVE  GuardInStep'
<1>1. CASE StreamStep \/ ClipStep \/ PlaybackStep
  <2>1. Moves("webrtc") \/ Moves("http") \/ Moves("playback")
    BY <1>1, StreamFrame, ClipFrame, PlaybackFrame
  <2>2. seen' = seen
    BY <1>1, StreamFrame, ClipFrame, PlaybackFrame DEF rtvi
  <2> QED BY <2>1, <2>2, GuardStays
<1>2. CASE GuardStep
  BY <1>2, GuardTakes
<1>3. CASE UNCHANGED vars
  BY <1>3 DEF GuardInStep, vars, producer, playback, rtvi, regs, Published
<1> QED BY <1>1, <1>2, <1>3, StepOfOneTask

-----------------------------------------------------------------------------
(* The samples. *)
LEMMA WritingBounds ==
  ASSUME RingTypes, PushShape, NEW t \in Producers, Alone(t), CountersInStep
  PROVE  /\ Writing \in Nat /\ Writing <= push[t].n
         /\ Writing > 0 => Published + push[t].n <= played + PLAY_RING_SAMPLES
<1>1. Writing = push[t].done /\ push[t].done \in Nat
  BY AlonePublishes, RingFacts
<1>2. push[t].done <= push[t].n
  BY TaskNames DEF PushShape, StreamShape, ClipShape
<1>3. push[t].done > 0 => pc[t] \in {"write", "publish"}
  <2>1. CASE t = "webrtc"
    BY <1>1, <2>1 DEF PushShape, StreamShape
  <2>2. CASE t = "http"
    <3>1. pc[t] \notin {"write", "publish"} => push[t].n = 0
      BY <2>2 DEF PushShape, ClipShape
    <3> QED BY <1>1, <1>2, <3>1
  <2> QED BY <2>1, <2>2, TaskNames
<1> QED BY <1>1, <1>2, <1>3 DEF CountersInStep, RoomFor

LEMMA WriteInOrder ==
  ASSUME RingTypes, RingTypes', PushShape, NEW t \in Producers, Alone(t),
         Alone(t)', HeadIsPublished, CountersInStep, ContentsInOrder,
         Pusher = t, Pusher' = t, WriteSample(t)
  PROVE  ContentsInOrder'
<1> USE TaskNames
<1>1. /\ Published = pushed[t] /\ Published' = Published
      /\ Writing = push[t].done /\ Writing' = push[t].done + 1
      /\ played' = played /\ pop_buf' = pop_buf
  BY AlonePublishes, AlonePublishesNext, WriteEffect
  DEF WriteSample, playback
<1>2. /\ pc[t] = "write" /\ push[t].done < push[t].n
  BY DEF WriteSample
<1>3. Published + push[t].n <= played + PLAY_RING_SAMPLES
  BY <1>2 DEF CountersInStep, RoomFor
<1>4. /\ Published \in Nat /\ played \in Nat /\ push[t].n \in Nat
      /\ push[t].done \in Nat /\ PLAY_RING_SAMPLES \in Nat /\ played <= Published
  BY RingFacts, RingSizes DEF RingTypes, CountersInStep, TailIsPlayed
<1> DEFINE q == Published + push[t].done
<1> DEFINE sample == [from |-> t, pos |-> q + 1, loud |-> push[t].loud]
<1>5. q \in Nat /\ q < played + PLAY_RING_SAMPLES /\ played <= q
  BY <1>2, <1>3, <1>4
<1>6. /\ Slot(play_ring_head, push[t].done) = q % PLAY_RING_SAMPLES
      /\ play_ring' = [play_ring EXCEPT ![q % PLAY_RING_SAMPLES] = sample]
  <2>1. Slot(play_ring_head, push[t].done) = q % PLAY_RING_SAMPLES
    <3>1. play_ring_head = Published % CounterMod
      BY DEF HeadIsPublished
    <3> DEFINE n == push[t].done
    <3>2. Published \in Int /\ n \in Int
      BY <1>4
    <3> HIDE DEF n
    <3>3. Slot(Published % CounterMod, n) = (Published + n) % PLAY_RING_SAMPLES
      BY <3>2, CounterGoesOn
    <3> QED BY <3>1, <3>3 DEF n
  <2> QED BY <1>1, <2>1 DEF WriteSample
<1>7. q % PLAY_RING_SAMPLES \in DOMAIN play_ring
  <2> HIDE DEF q
  <2>1. q % PLAY_RING_SAMPLES \in 0 .. PLAY_RING_SAMPLES - 1
    BY <1>5, InRing
  <2> QED BY <2>1 DEF RingTypes
<1>8. ASSUME NEW p \in played + 1 .. q + 1
      PROVE  /\ play_ring'[(p - 1) % PLAY_RING_SAMPLES].from = t
             /\ play_ring'[(p - 1) % PLAY_RING_SAMPLES].pos = p
  <2>1. CASE p = q + 1
    <3>1. (p - 1) = q
      BY <1>5, <2>1
    <3>2. play_ring'[(p - 1) % PLAY_RING_SAMPLES] = sample
      BY <1>6, <1>7, <3>1
    <3> QED BY <2>1, <3>2
  <2>2. CASE p # q + 1
    <3>1. p \in played + 1 .. q /\ p - 1 \in Int /\ p - 1 # q
          /\ q - (p - 1) < PLAY_RING_SAMPLES /\ (p - 1) - q < PLAY_RING_SAMPLES
      BY <1>4, <1>5, <2>2
    <3>2. (p - 1) % PLAY_RING_SAMPLES # q % PLAY_RING_SAMPLES
      BY <1>5, <3>1, SlotsDiffer
    <3>3. play_ring'[(p - 1) % PLAY_RING_SAMPLES]
            = play_ring[(p - 1) % PLAY_RING_SAMPLES]
      BY <1>6, <3>2 DEF RingTypes
    <3>4. IsSample(play_ring[(p - 1) % PLAY_RING_SAMPLES], p)
      BY <1>1, <3>1 DEF ContentsInOrder
    <3> QED BY <3>3, <3>4 DEF IsSample
  <2> QED BY <2>1, <2>2
<1>9. Published' + Writing' = q + 1
  BY <1>1, <1>4
<1> HIDE DEF q, sample
<1> QED BY <1>1, <1>8, <1>9 DEF ContentsInOrder, IsSample

(* A step that neither writes nor pops: the same samples or fewer, in the      *)
(* places they had.                                                           *)
LEMMA SameContents ==
  ASSUME RingTypes, ContentsInOrder, play_ring' = play_ring,
         pop_buf' = pop_buf /\ played' = played,
         Published' + Writing' = Published + Writing,
         Pusher' = Pusher
  PROVE  ContentsInOrder'
  BY DEF ContentsInOrder, IsSample

LEMMA ProducerContents ==
  ASSUME RingTypes, RingTypes', PushShape, NEW t \in Producers, Alone(t),
         Alone(t)', HeadIsPublished, CountersInStep, ContentsInOrder,
         Pusher = t, Pusher' = t,
         \/ Loads(t) \/ WriteSample(t) \/ LoadForPublish(t) \/ Publish(t)
  PROVE  ContentsInOrder'
<1> USE TaskNames
<1>1. CASE WriteSample(t)
  BY <1>1, WriteInOrder
<1>2. CASE Loads(t) \/ LoadForPublish(t)
  BY <1>2, SameContents
  DEF Loads, LoadHead, LoadTail, LoadForPublish, ring, producer, playback,
      Published, Writing
<1>3. CASE Publish(t)
  <2>1. /\ play_ring' = play_ring /\ pop_buf' = pop_buf /\ played' = played
    BY <1>3 DEF Publish, playback
  <2>2. /\ Published = pushed[t] /\ Published' = pushed[t] + push[t].n
        /\ Writing = push[t].n /\ Writing' = 0
    BY <1>3, AlonePublishes, AlonePublishesNext, PublishEffect DEF NoPush
  <2>3. pushed[t] \in Nat /\ push[t].n \in Nat
    BY RingFacts DEF RingTypes
  <2> QED BY <2>1, <2>2, <2>3, SameContents
<1> QED BY <1>1, <1>2, <1>3

LEMMA PlaybackContents ==
  ASSUME RingTypes, RingTypes', PushShape, CountersInStep, ContentsInOrder,
         PlaybackStep, Writing \in Nat
  PROVE  ContentsInOrder'
<1> USE TaskNames
<1>1. /\ play_ring' = play_ring /\ Published' = Published /\ Writing' = Writing
      /\ Pusher' = Pusher
  BY PlaybackFrame DEF producer, Published, Writing, Pusher
<1>2. /\ Published \in Nat /\ played \in Nat /\ Len(pop_buf) \in Nat
      /\ pop_buf \in Seq(Sample)
  BY RingFacts DEF RingTypes
<1>3. CASE PopSample
  <2>1. /\ pc["playback"] = "pop" /\ Len(pop_buf) < PCM_SAMPLES_PER_FRAME
        /\ played' = played
        /\ pop_buf' = Append(pop_buf,
                             play_ring[Slot(play_ring_tail, Len(pop_buf))])
    BY <1>3 DEF PopSample
  <2> DEFINE p == played + Len(pop_buf) + 1
  <2>2. p \in played + 1 .. Published + Writing
    <3>1. played + PCM_SAMPLES_PER_FRAME <= Published
      BY <2>1 DEF CountersInStep, FrameToPop
    <3> QED BY <1>2, <2>1, <3>1, RingSizes
  <2>3. Slot(play_ring_tail, Len(pop_buf)) = (p - 1) % PLAY_RING_SAMPLES
    <3>1. p - 1 = played + Len(pop_buf)
      BY <1>2
    <3> QED
      BY <1>2, <3>1, CounterGoesOn DEF CountersInStep, TailIsPlayed
  <2>4. IsSample(play_ring[(p - 1) % PLAY_RING_SAMPLES], p)
    BY <2>2 DEF ContentsInOrder
  <2>5. ASSUME NEW i \in 1 .. Len(pop_buf')
        PROVE  IsSample(pop_buf'[i], played + i)
    <3>1. Len(pop_buf') = Len(pop_buf) + 1
      BY <1>2, <2>1
    <3>2. CASE i = Len(pop_buf) + 1
      <4>1. pop_buf'[i] = play_ring[(p - 1) % PLAY_RING_SAMPLES]
        BY <1>2, <2>1, <2>3, <3>2
      <4>2. played + i = p
        BY <1>2, <3>2
      <4> QED BY <2>4, <4>1, <4>2
    <3>3. CASE i \in 1 .. Len(pop_buf)
      BY <1>2, <2>1, <3>3 DEF ContentsInOrder
    <3> QED BY <1>2, <3>1, <3>2, <3>3
  <2> QED BY <1>1, <2>1, <2>5 DEF ContentsInOrder, IsSample
<1>4. CASE ReleaseFrame
  <2>1. /\ pop_buf' = <<>> /\ played' = played + PCM_SAMPLES_PER_FRAME
    BY <1>4 DEF ReleaseFrame
  <2>2. \A p \in played' + 1 .. Published + Writing :
          p \in played + 1 .. Published + Writing
    BY <1>2, <2>1, RingSizes
  <2>3. \A i \in 1 .. Len(pop_buf') : FALSE
    BY <2>1
  <2> QED BY <1>1, <2>2, <2>3 DEF ContentsInOrder, IsSample
<1>5. ASSUME \/ Loads("playback") \/ Underrun \/ LoadForPop
             \/ \E threshold \in Thresholds :
                  Prebuffer(threshold) \/ StartPop(threshold)
      PROVE  ContentsInOrder'
  <2>1. pop_buf' = pop_buf /\ played' = played
    BY <1>5
    DEF Loads, LoadHead, LoadTail, Prebuffer, StartPop, Underrun, LoadForPop,
        playback
  <2> QED BY <1>1, <2>1, SameContents
<1> QED BY <1>3, <1>4, <1>5 DEF PlaybackStep

LEMMA ContentsStep ==
  ASSUME RingTypes, RingTypes', PushShape, OnePushes, OnePushes',
         ~play_ring_drops',
         HeadIsPublished, CountersInStep, ContentsInOrder, [Next]_vars
  PROVE  ContentsInOrder'
<1> USE TaskNames
<1>1. CASE StreamStep
  <2>1. /\ Alone("webrtc") /\ Alone("webrtc")'
        /\ Pusher = "webrtc" /\ Pusher' = "webrtc"
    BY <1>1, StreamAlone DEF Pusher
  <2>2. CASE Loads("webrtc") \/ WriteSample("webrtc") \/ LoadForPublish("webrtc")
             \/ Publish("webrtc")
    BY <2>1, <2>2, ProducerContents
  <2>3. CASE PushFits \/ PushOverruns
    BY <2>1, <2>3, SameContents
    DEF PushFits, PushOverruns, ring, producer, playback, Published, Writing
  <2>4. ASSUME NEW loud \in BOOLEAN, DecodedFrame(loud) PROVE ContentsInOrder'
    <3>1. /\ play_ring' = play_ring /\ pushed' = pushed
          /\ pop_buf' = pop_buf /\ played' = played
      BY <2>4 DEF DecodedFrame, ring, playback
    <3>2. push["webrtc"].done = 0 /\ push'["webrtc"].done = 0
      <4>1. push["webrtc"].done = 0
        BY <2>4 DEF DecodedFrame, PushShape, StreamShape
      <4> QED BY <2>4, <4>1 DEF DecodedFrame, RingTypes
    <3>3. Published' = Published /\ Writing' = Writing
      BY <2>1, <3>1, <3>2, AlonePublishes, AlonePublishesNext
    <3> QED BY <2>1, <3>1, <3>3, SameContents
  <2> QED BY <1>1, <2>2, <2>3, <2>4 DEF StreamStep, DropOldest
<1>2. CASE ClipStep
  <2>1. Alone("http") /\ Alone("http")' /\ Pusher' = "http" /\ frames = 0
    BY <1>2, ClipAlone DEF Pusher
  <2>2. CASE RequestClip
    <3>1. /\ play_ring' = play_ring /\ pushed' = pushed /\ push' = push
          /\ pop_buf' = pop_buf /\ played' = played /\ pc["http"] = "idle"
      BY <2>2 DEF RequestClip, ring, playback
    <3>2. CASE clips = 0
      <4>1. Published = 0 /\ Published' = 0
        <5>1. pushed["http"] = 0
          BY <3>1, <3>2, RingSizes DEF PushShape, ClipShape
        <5> QED BY <2>1, <3>1, <5>1, AlonePublishes, AlonePublishesNext
      <4>2. Writing = 0 /\ Writing' = 0
        <5>1. push["http"].done = 0
          BY <3>1, RingFacts DEF PushShape, ClipShape
        <5> QED BY <2>1, <3>1, <5>1, AlonePublishes, AlonePublishesNext
      <4>3. played \in Nat
        BY DEF RingTypes
      <4>4. pop_buf = <<>>
        <5>1. pc["playback"] \in {"count", "pop", "release"}
          BY DEF RingTypes, Steps
        <5>2. pc["playback"] = "count"
          BY <4>1, <4>3, <5>1, RingSizes DEF CountersInStep, FrameToPop
        <5> QED BY <5>2 DEF PushShape, PopShape
      <4>5. \A p \in played + 1 .. 0 : FALSE
        BY <4>3
      <4>6. \A i \in 1 .. Len(pop_buf') : FALSE
        BY <3>1, <4>4
      <4>7. Published' + Writing' = 0
        BY <4>1, <4>2
      <4> QED BY <3>1, <4>5, <4>6, <4>7 DEF ContentsInOrder
    <3>3. CASE clips # 0
      <4>1. Pusher = "http"
        BY <3>3 DEF Pusher
      <4> QED BY <2>1, <3>1, <4>1, SameContents DEF Published, Writing
    <3> QED BY <3>2, <3>3
  <2>3. CASE ~RequestClip
    <3>1. clips # 0
      <4>1. pc["http"] # "idle"
        BY <1>2, <2>3
        DEF ClipStep, Loads, LoadHead, LoadTail, ClipWaits, ClipFits, WriteSample,
            LoadForPublish, Publish
      <4> QED BY <4>1 DEF PushShape, ClipShape
    <3>2. Pusher = "http"
      BY <3>1 DEF Pusher
    <3>3. CASE Loads("http") \/ WriteSample("http") \/ LoadForPublish("http")
               \/ Publish("http")
      BY <2>1, <3>2, <3>3, ProducerContents
    <3>4. CASE ClipWaits
      BY <2>1, <3>2, <3>4, SameContents
      DEF ClipWaits, ring, producer, playback, Published, Writing
    <3>5. CASE ClipFits
      <4>1. /\ play_ring' = play_ring /\ pushed' = pushed
            /\ pop_buf' = pop_buf /\ played' = played
        BY <3>5 DEF ClipFits, ring, playback
      <4>2. push["http"].done = 0 /\ push'["http"].done = 0
        <5>1. push["http"].done = 0
          BY <3>5, RingFacts DEF ClipFits, PushShape, ClipShape
        <5> QED BY <3>5, <5>1 DEF ClipFits, RingTypes
      <4>3. Published' = Published /\ Writing' = Writing
        BY <2>1, <4>1, <4>2, AlonePublishes, AlonePublishesNext
      <4> QED BY <2>1, <3>2, <4>1, <4>3, SameContents
    <3> QED BY <1>2, <2>3, <3>3, <3>4, <3>5 DEF ClipStep
  <2> QED BY <2>2, <2>3
<1>3. CASE PlaybackStep
  <2>1. push["webrtc"].done \in Nat /\ push["http"].done \in Nat
    BY RingFacts
  <2>2. Writing \in Nat
    BY <2>1 DEF Writing
  <2> QED BY <1>3, <2>2, PlaybackContents
<1>4. CASE GuardStep
  BY <1>4, GuardFrame, SameContents
  DEF ring, producer, playback, Published, Writing, Pusher
<1>5. CASE UNCHANGED vars
  BY <1>5, SameContents
  DEF vars, ring, producer, playback, Published, Writing, Pusher
<1> QED BY <1>1, <1>2, <1>3, <1>4, <1>5, StepOfOneTask

-----------------------------------------------------------------------------
(* The silence behind the gate.  While the gate is open the last frames in the *)
(* ring are the silent ones it counted; when it has closed they are one frame  *)
(* fewer than it takes to close it.                                           *)
LEMMA QuietStays ==
  ASSUME UNCHANGED <<play_ring, is_playing, silence_count>>,
         Published' = Published, push'["webrtc"] = push["webrtc"],
         pc["webrtc"] = "idle" <=> pc'["webrtc"] = "idle",
         GateOpen, QuietPublished, QuietWritten
  PROVE  GateOpen' /\ QuietPublished' /\ QuietWritten'
<1>1. QuietFor' = QuietFor
  BY DEF QuietFor
<1> QED BY <1>1 DEF GateOpen, QuietPublished, QuietWritten, Quiet

LEMMA QuietDecoded ==
  ASSUME RingTypes, RingTypes', PushShape, NEW loud \in BOOLEAN,
         DecodedFrame(loud), GateOpen, QuietPublished
  PROVE  GateOpen' /\ QuietPublished' /\ QuietWritten'
<1> USE TaskNames
<1>1. /\ pc["webrtc"] = "idle"
      /\ play_ring' = play_ring /\ Published' = Published
      /\ loud => silence_count' = 0
      /\ ~loud => silence_count' = silence_count + 1
  BY DEF DecodedFrame, SilenceAfter, ring, Published
<1>2. is_playing' <=> ~(silence_count' >= PLAYBACK_SILENCE_FRAMES)
                      /\ (loud \/ is_playing)
  <2>1. is_playing' = IF SilenceAfter(loud) >= PLAYBACK_SILENCE_FRAMES
                      THEN FALSE ELSE loud \/ is_playing
    BY DEF DecodedFrame, PlayingAfter
  <2>2. silence_count' = SilenceAfter(loud)
    BY DEF DecodedFrame
  <2>3. CASE SilenceAfter(loud) >= PLAYBACK_SILENCE_FRAMES
    BY <2>1, <2>2, <2>3, Zenon
  <2>4. CASE ~(SilenceAfter(loud) >= PLAYBACK_SILENCE_FRAMES)
    BY <2>1, <2>2, <2>4, Zenon
  <2> QED BY <2>3, <2>4
<1>3. /\ silence_count \in Nat /\ is_playing \in BOOLEAN
      /\ PLAYBACK_SILENCE_FRAMES \in Nat \ {0}
      /\ PCM_SAMPLES_PER_FRAME \in Nat \ {0}
  BY RingFacts, RingSizes DEF RingTypes
<1>4. CASE is_playing'
  <2>1. /\ pc'["webrtc"] = "count" /\ push'["webrtc"].loud = loud
        /\ push'["webrtc"].done = 0
    BY <1>4, GotoSteps DEF DecodedFrame, RingTypes
  <2>2. silence_count' < PLAYBACK_SILENCE_FRAMES
    BY <1>1, <1>3, <1>4, <1>2
  <2>3. GateOpen'
    BY <1>1, <1>3, <1>4, <2>1, <2>2 DEF GateOpen
  <2>4. QuietWritten'
    BY <2>1 DEF QuietWritten
  <2>5. QuietPublished'
    <3>1. CASE loud
      <4>1. QuietFor' = 0
        BY <2>1, <3>1 DEF QuietFor
      <4> QED BY <4>1 DEF QuietPublished
    <3>2. CASE ~loud
      <4>1. is_playing /\ silence_count' - 1 = silence_count
        BY <1>1, <1>3, <1>4, <1>2, <2>2, <3>2
      <4>2. QuietFor' = QuietFor
        BY <1>1, <2>1, <3>2, <4>1 DEF QuietFor
      <4> QED BY <1>1, <4>2 DEF QuietPublished, Quiet
    <3> QED BY <3>1, <3>2
  <2> QED BY <2>3, <2>4, <2>5
<1>5. CASE ~is_playing'
  <2>1. pc' = pc /\ push' = push
    BY <1>5 DEF DecodedFrame
  <2>2. ~loud
    BY <1>1, <1>3, <1>5, <1>2
  <2>3. is_playing => silence_count = PLAYBACK_SILENCE_FRAMES - 1
    BY <1>1, <1>3, <1>5, <1>2, <2>2 DEF GateOpen
  <2>4. QuietFor' = QuietFor
    BY <1>1, <1>5, <2>1, <2>3 DEF QuietFor
  <2>5. push["webrtc"].done = 0
    BY <1>1 DEF PushShape, StreamShape
  <2>6. QuietWritten'
    BY <2>1, <2>5 DEF QuietWritten
  <2> QED
    BY <1>1, <1>5, <2>1, <2>4, <2>6 DEF GateOpen, QuietPublished, Quiet
<1> QED BY <1>4, <1>5

LEMMA QuietWrites ==
  ASSUME RingTypes, RingTypes', PushShape, HeadIsPublished,
         WriteSample("webrtc"), GateOpen, QuietPublished, QuietWritten
  PROVE  GateOpen' /\ QuietPublished' /\ QuietWritten'
<1> USE TaskNames
<1> DEFINE slot == Slot(play_ring_head, push["webrtc"].done)
<1>1. /\ pc' = pc /\ Published' = Published
      /\ UNCHANGED <<is_playing, silence_count>>
      /\ push'["webrtc"].loud = push["webrtc"].loud
      /\ push'["webrtc"].done = push["webrtc"].done + 1
  BY WriteEffect DEF WriteSample, gate, regs, Published
<1>2. QuietFor' = QuietFor
  BY <1>1 DEF QuietFor
<1>3. /\ \A s \in 0 .. PLAY_RING_SAMPLES - 1 :
           s # slot => play_ring'[s] = play_ring[s]
      /\ slot \in 0 .. PLAY_RING_SAMPLES - 1 =>
           play_ring'[slot].loud = push["webrtc"].loud
  BY DEF WriteSample, RingTypes
<1>4. /\ Published \in Nat /\ push["webrtc"].done \in Nat
      /\ push["webrtc"].loud \in BOOLEAN
  BY RingFacts
<1>5. slot = (Published + push["webrtc"].done) % PLAY_RING_SAMPLES
  BY <1>4, CounterGoesOn DEF HeadIsPublished
<1>6. CASE push["webrtc"].loud
  <2>1. pc["webrtc"] # "idle"
    BY DEF WriteSample
  <2>2. QuietFor' = 0
    BY <1>1, <1>6, <2>1 DEF QuietFor
  <2>3. GateOpen'
    BY <1>1 DEF GateOpen
  <2>4. QuietPublished' /\ QuietWritten'
    BY <1>1, <1>6, <2>2 DEF QuietPublished, QuietWritten
  <2> QED BY <2>3, <2>4
<1>7. CASE ~push["webrtc"].loud
  <2> HIDE DEF slot
  <2>1. ASSUME NEW x \in Int,
               x = Published + push["webrtc"].done \/ Quiet(x)
        PROVE  Quiet(x)'
    <3>1. x % PLAY_RING_SAMPLES \in 0 .. PLAY_RING_SAMPLES - 1
      BY InRing
    <3> QED BY <1>3, <1>5, <1>7, <2>1, <3>1 DEF Quiet
  <2>2. QuietPublished'
    <3>1. ASSUME NEW i \in 1 .. PLAY_RING_SAMPLES, i <= QuietFor
          PROVE  Quiet(Published - i)'
      <4>1. Published - i \in Int /\ Quiet(Published - i)
        BY <1>4, <3>1 DEF QuietPublished
      <4>2. Quiet(Published - i)'
        BY <1>1, <2>1, <4>1 DEF Quiet
      <4> QED BY <4>2
    <3> QED BY <1>2, <3>1 DEF QuietPublished
  <2>3. QuietWritten'
    <3>1. ASSUME NEW j \in 0 .. push["webrtc"].done
          PROVE  Quiet(Published + j)'
      <4>1. Published + j \in Int
        BY <1>4
      <4>2. j = push["webrtc"].done \/ Quiet(Published + j)
        BY <1>4, <1>7 DEF QuietWritten
      <4>3. Quiet(Published + j)'
        BY <1>1, <2>1, <4>1, <4>2 DEF Quiet
      <4> QED BY <4>3
    <3>2. push'["webrtc"].done - 1 = push["webrtc"].done
      BY <1>1, <1>4
    <3> QED BY <3>1, <3>2 DEF QuietWritten
  <2> QED BY <1>1, <2>2, <2>3 DEF GateOpen
<1> QED BY <1>4, <1>6, <1>7

LEMMA QuietPublishes ==
  ASSUME RingTypes, RingTypes', PushShape, Alone("webrtc"), Alone("webrtc")',
         Publish("webrtc"), GateOpen, QuietPublished, QuietWritten
  PROVE  GateOpen' /\ QuietPublished' /\ QuietWritten'
<1> USE TaskNames
<1> DEFINE m == PCM_SAMPLES_PER_FRAME
<1>1. /\ pc["webrtc"] = "publish" /\ pc'["webrtc"] = "idle"
      /\ UNCHANGED <<play_ring, is_playing, silence_count>>
      /\ push'["webrtc"].done = 0
  <2>1. pc["webrtc"] = "publish" /\ pc'["webrtc"] = "idle"
    BY GotoSteps DEF Publish
  <2>2. push'["webrtc"].done = 0
    BY PublishEffect DEF NoPush
  <2> QED BY <2>1, <2>2 DEF Publish, gate
<1>2. /\ push["webrtc"].n = m /\ push["webrtc"].done = m
  BY <1>1 DEF PushShape, StreamShape
<1>3. Published' = Published + m
  BY <1>2, AlonePublishes, AlonePublishesNext, PublishEffect
<1>4. /\ Published \in Nat /\ silence_count \in Nat /\ m \in Nat \ {0}
      /\ push["webrtc"].loud \in BOOLEAN
  BY RingFacts, RingSizes
<1>5. is_playing /\ (push["webrtc"].loud <=> silence_count = 0)
  BY <1>1 DEF GateOpen
<1>6. QuietFor' = silence_count * m
  BY <1>1, <1>5 DEF QuietFor
<1>7. CASE push["webrtc"].loud
  <2>1. QuietFor' = 0
    <3>1. silence_count = 0
      BY <1>5, <1>7
    <3> QED BY <1>4, <1>6, <3>1
  <2> QED BY <1>1, <2>1 DEF GateOpen, QuietPublished, QuietWritten
<1>8. CASE ~push["webrtc"].loud
  <2>1. QuietFor = (silence_count - 1) * m
    BY <1>1, <1>8 DEF QuietFor
  <2>2. QuietFor' = QuietFor + m /\ QuietFor \in Int
    BY <1>4, <1>6, <2>1
  <2>3. ASSUME NEW i \in 1 .. PLAY_RING_SAMPLES, i <= QuietFor'
        PROVE  Quiet(Published' - i)
    <3>1. CASE i <= m
      <4>1. m - i \in 0 .. m - 1 /\ Published' - i = Published + (m - i)
        BY <1>3, <1>4, <3>1
      <4> HIDE DEF m
      <4>2. Quiet(Published + (m - i))
        BY <1>2, <1>8, <4>1 DEF QuietWritten
      <4> QED BY <4>1, <4>2
    <3>2. CASE i > m
      <4>1. /\ i - m \in 1 .. PLAY_RING_SAMPLES /\ i - m <= QuietFor
            /\ Published' - i = Published - (i - m)
        BY <1>3, <1>4, <2>2, <2>3, <3>2, RingSizes
      <4> HIDE DEF m
      <4>2. Quiet(Published - (i - m))
        BY <4>1 DEF QuietPublished
      <4> QED BY <4>1, <4>2
    <3> QED BY <1>4, <3>1, <3>2
  <2>4. QuietPublished'
    BY <1>1, <2>3 DEF QuietPublished, Quiet
  <2> QED BY <1>1, <1>5, <2>4 DEF GateOpen, QuietWritten
<1> QED BY <1>4, <1>7, <1>8

LEMMA QuietStep ==
  ASSUME RingTypes, RingTypes', PushShape, RingInStep, QuietBehind,
         [Next]_vars
  PROVE  QuietBehind'
<1> USE TaskNames
<1>1. SUFFICES ASSUME clips' = 0
               PROVE  GateOpen' /\ QuietPublished' /\ QuietWritten'
  BY DEF QuietBehind
<1>2. clips = 0
  <2>1. clips \in Nat
    BY RingFacts
  <2>2. CASE ClipStep
    BY <1>1, <2>1, <2>2
    DEF ClipStep, Loads, LoadHead, LoadTail, RequestClip, ClipWaits, ClipFits,
        WriteSample, LoadForPublish, Publish, producer
  <2>3. CASE StreamStep \/ PlaybackStep \/ GuardStep \/ UNCHANGED vars
    BY <1>1, <2>3, StreamFrame, PlaybackFrame, GuardFrame DEF producer, vars
  <2> QED BY <2>2, <2>3, StepOfOneTask
<1>3. /\ GateOpen /\ QuietPublished /\ QuietWritten
      /\ HeadIsPublished /\ OnePushes'
  BY <1>1, <1>2 DEF QuietBehind, RingInStep, OnePushes
<1>4. CASE StreamStep
  <2>1. /\ Alone("webrtc") /\ Alone("webrtc")'
    BY <1>3, <1>4, StreamAlone
  <2>2. ASSUME NEW loud \in BOOLEAN, DecodedFrame(loud)
        PROVE  GateOpen' /\ QuietPublished' /\ QuietWritten'
    BY <1>3, <2>2, QuietDecoded
  <2>3. CASE WriteSample("webrtc")
    BY <1>3, <2>3, QuietWrites
  <2>4. CASE Publish("webrtc")
    BY <1>3, <2>1, <2>4, QuietPublishes
  <2>5. CASE \/ Loads("webrtc") \/ PushFits \/ PushOverruns \/ DropOldest
             \/ LoadForPublish("webrtc")
    <3>1. /\ UNCHANGED <<play_ring, is_playing, silence_count>>
          /\ Published' = Published /\ push'["webrtc"] = push["webrtc"]
      BY <2>5
      DEF Loads, LoadHead, LoadTail, PushFits, PushOverruns, DropOldest,
          LoadForPublish, ring, gate, producer, Published
    <3>2. pc["webrtc"] = "idle" <=> pc'["webrtc"] = "idle"
      BY <2>5, GotoSteps
      DEF Loads, LoadHead, LoadTail, PushFits, PushOverruns, DropOldest,
          LoadForPublish
    <3> QED BY <1>3, <3>1, <3>2, QuietStays
  <2> QED BY <1>4, <2>2, <2>3, <2>4, <2>5 DEF StreamStep
<1>5. CASE ClipStep
  BY <1>1, <1>3, <1>5, ClipAlone
<1>6. CASE PlaybackStep
  BY <1>3, <1>6, PlaybackFrame, QuietStays DEF Moves, producer, gate, Published
<1>7. CASE GuardStep
  BY <1>3, <1>7, GuardFrame, QuietStays
  DEF Moves, ring, producer, gate, Published
<1>8. CASE UNCHANGED vars
  BY <1>3, <1>8, QuietStays DEF vars, ring, producer, gate, regs, Published
<1> QED BY <1>4, <1>5, <1>6, <1>7, <1>8, StepOfOneTask

-----------------------------------------------------------------------------
(* Who pushed and what was overrun is not forgotten. *)
LEMMA OnePushedBefore ==
  ASSUME RingTypes, [Next]_vars
  PROVE  /\ OnePushes' => OnePushes
         /\ ~play_ring_drops' => ~play_ring_drops
<1> USE TaskNames
<1>1. clips \in Nat /\ frames \in Nat /\ play_ring_drops \in BOOLEAN
  BY RingFacts DEF RingTypes
<1>2. CASE StreamStep
  <2>1. clips' = clips
    BY <1>2, StreamFrame
  <2>2. frames' \in {frames, frames + 1} /\ (~play_ring_drops' => ~play_ring_drops)
    BY <1>1, <1>2
    DEF StreamStep, Loads, LoadHead, LoadTail, DecodedFrame, PushFits,
        PushOverruns, DropOldest, WriteSample, LoadForPublish, Publish, ring,
        producer
  <2> QED BY <1>1, <2>1, <2>2 DEF OnePushes
<1>3. CASE ClipStep
  <2>1. frames' = frames /\ play_ring_drops' = play_ring_drops
    BY <1>3, ClipFrame
  <2>2. clips' \in {clips, clips + 1}
    BY <1>1, <1>3
    DEF ClipStep, Loads, LoadHead, LoadTail, RequestClip, ClipWaits, ClipFits,
        WriteSample, LoadForPublish, Publish, producer
  <2> QED BY <1>1, <2>1, <2>2 DEF OnePushes
<1>4. CASE PlaybackStep \/ GuardStep \/ UNCHANGED vars
  BY <1>4, PlaybackFrame, GuardFrame DEF ring, producer, vars, OnePushes
<1> QED BY <1>2, <1>3, <1>4, StepOfOneTask

(* Nothing is loaded, published or played. *)
LEMMA RingInvInit == Init => RingInv
<1> SUFFICES ASSUME Init PROVE RingInv
  OBVIOUS
<1> USE TaskNames
<1>1. RingTypes /\ PushShape
  BY RingTypesInit
<1>2. /\ Published = 0 /\ Writing = 0 /\ played = 0 /\ seen = 0
      /\ play_ring_head = 0 /\ play_ring_tail = 0
      /\ pop_buf = <<>> /\ clips = 0 /\ ~g_play_stat_underruns
      /\ \A t \in Producers : pc[t] = "idle" /\ push[t] = NoPush
      /\ \A t \in Tasks : Unloaded(t)
      /\ pc["playback"] = "count" /\ pc["rtvi"] = "idle"
  <2>1. /\ \A t \in Producers : /\ pc[t] = "idle" /\ push[t] = NoPush
                                /\ pushed[t] = 0
        /\ \A t \in Tasks : Unloaded(t)
        /\ pc["playback"] = "count" /\ pc["rtvi"] = "idle"
    BY DEF Init, Unloaded, Tasks, Producers
  <2>2. Published = 0 /\ Writing = 0
    BY <2>1 DEF Published, Writing, NoPush
  <2> QED BY <2>1, <2>2 DEF Init
<1>3. 0 % CounterMod = 0
  BY RingSizes, SmallRemainder
<1>4. Whole(0)
  <2>1. 0 = 0 * PCM_SAMPLES_PER_FRAME
    BY RingSizes
  <2> QED BY <2>1 DEF Whole
<1>5. HeadIsPublished
  BY <1>2, <1>3 DEF HeadIsPublished, HeadOf
<1>6. CountersInStep
  <2>1. TailIsPlayed
    BY <1>2, <1>3, RingSizes DEF TailIsPlayed
  <2>2. FrameToPop /\ \A t \in Producers : RoomFor(t)
    BY <1>2 DEF FrameToPop, RoomFor, Unloaded
  <2>3. WholeFrames
    BY <1>2, <1>4 DEF WholeFrames
  <2> QED BY <2>1, <2>2, <2>3 DEF CountersInStep
<1>7. GuardInStep
  BY <1>2 DEF GuardInStep
<1>8. ContentsInOrder
  BY <1>2 DEF ContentsInOrder
<1>9. QuietBehind
  <2>1. ~is_playing /\ silence_count = 0
    BY DEF Init
  <2>2. GateOpen /\ QuietWritten
    BY <1>2, <2>1 DEF GateOpen, QuietWritten, NoPush
  <2>3. ASSUME NEW x \in Int PROVE Quiet(x)
    <3>1. x % PLAY_RING_SAMPLES \in 0 .. PLAY_RING_SAMPLES - 1
      BY InRing
    <3> QED BY <3>1 DEF Init, Quiet, Silence
  <2>4. QuietPublished
    BY <1>2, <2>3 DEF QuietPublished
  <2> QED BY <2>2, <2>4 DEF QuietBehind
<1> QED BY <1>1, <1>5, <1>6, <1>7, <1>8, <1>9 DEF RingInv, RingInStep

(* Every step of the four tasks keeps the invariant. *)
LEMMA RingInvStep == RingInv /\ [Next]_vars => RingInv'
<1> SUFFICES ASSUME RingInv, [Next]_vars PROVE RingInv'
  OBVIOUS
<1>1. /\ RingTypes /\ PushShape /\ RingInStep /\ QuietBehind
  BY DEF RingInv
<1>2. RingTypes' /\ PushShape'
  BY <1>1, RingTypesStep, PushShapeStep
<1>3. RingInStep'
  <2>1. SUFFICES ASSUME OnePushes'
                 PROVE  /\ HeadIsPublished'
                        /\ ~play_ring_drops' =>
                             CountersInStep' /\ GuardInStep' /\ ContentsInOrder'
    BY DEF RingInStep
  <2>2. OnePushes /\ HeadIsPublished
    BY <1>1, <2>1, OnePushedBefore DEF RingInStep
  <2>3. HeadIsPublished'
    BY <1>1, <1>2, <2>1, <2>2, HeadStep
  <2>4. ASSUME ~play_ring_drops'
        PROVE  CountersInStep' /\ GuardInStep' /\ ContentsInOrder'
    <3>1. CountersInStep /\ GuardInStep /\ ContentsInOrder
      BY <1>1, <2>2, <2>4, OnePushedBefore DEF RingInStep
    <3>2. CountersInStep'
      BY <1>1, <1>2, <2>1, <2>2, <2>4, <3>1, CountersStep
    <3>3. GuardInStep'
      BY <1>1, <1>2, <2>1, <2>2, <3>1, GuardInStepKept
    <3>4. ContentsInOrder'
      BY <1>1, <1>2, <2>1, <2>2, <2>4, <3>1, ContentsStep
    <3> QED BY <3>2, <3>3, <3>4
  <2> QED BY <2>3, <2>4
<1>4. QuietBehind'
  BY <1>1, <1>2, QuietStep
<1> QED BY <1>2, <1>3, <1>4 DEF RingInv

(* The inductive invariant of the playback ring. *)
THEOREM RingInvariance == Spec => []RingInv
<1>1. Init => RingInv
  BY RingInvInit
<1>2. RingInv /\ [Next]_vars => RingInv'
  BY RingInvStep
<1> QED BY <1>1, <1>2, PTL DEF Spec
-----------------------------------------------------------------------------
(* Types, with a push no larger than the ring, as long as one task pushes.     *)
THEOREM RingTypeOK == Spec => [](OnePushes => TypeOK)
<1>1. RingInv => (OnePushes => TypeOK)
  <2> SUFFICES ASSUME RingInv, OnePushes PROVE TypeOK
    OBVIOUS
  <2> USE TaskNames
  <2>1. RingTypes /\ PushShape
    BY DEF RingInv
  <2>2. ASSUME NEW t \in Producers PROVE push[t].n <= PLAY_RING_SAMPLES
    <3>1. CASE t = "webrtc"
      BY <2>1, <3>1, RingSizes DEF PushShape, StreamShape
    <3>2. CASE t = "http"
      <4>1. CASE pc["http"] \in {"write", "publish"}
        <5>1. clips # 0 /\ frames = 0
          BY <2>1, <4>1 DEF PushShape, ClipShape, OnePushes
        <5>2. CountersInStep
          BY <2>1, <5>1 DEF PushShape, StreamShape, RingInv, RingInStep
        <5>3. /\ Published + push["http"].n <= played + PLAY_RING_SAMPLES
              /\ played <= Published
          BY <4>1, <5>2 DEF CountersInStep, RoomFor, TailIsPlayed
        <5>4. Published \in Nat /\ push["http"].n \in Nat /\ played \in Nat
          BY <2>1, RingFacts DEF RingTypes
        <5> QED BY <3>2, <5>3, <5>4, RingSizes
      <4>2. CASE pc["http"] \notin {"write", "publish"}
        BY <2>1, <3>2, <4>2, RingSizes DEF PushShape, ClipShape
      <4> QED BY <4>1, <4>2
    <3> QED BY <3>1, <3>2
  <2>3. push \in [Producers -> [n : 0 .. PLAY_RING_SAMPLES,
                                done : 0 .. PLAY_RING_SAMPLES, loud : BOOLEAN]]
    <3>1. ASSUME NEW t \in Producers
          PROVE  push[t] \in [n : 0 .. PLAY_RING_SAMPLES,
                              done : 0 .. PLAY_RING_SAMPLES, loud : BOOLEAN]
      <4>1. push[t] \in Push /\ push[t].n \in Nat /\ push[t].done \in Nat
        BY <2>1, RingFacts
      <4>2. push[t].done <= push[t].n
        BY <2>1 DEF PushShape, StreamShape, ClipShape
      <4>3. /\ push[t].n \in 0 .. PLAY_RING_SAMPLES
            /\ push[t].done \in 0 .. PLAY_RING_SAMPLES
        BY <2>2, <4>1, <4>2, RingSizes
      <4> QED BY <4>1, <4>3 DEF Push
    <3> QED BY <2>1, <3>1 DEF RingTypes
  <2>4. silence_count \in 0 .. workload.frames
    BY <2>1, RingAssumption DEF RingTypes
  <2>5. DOMAIN pc = Tasks
    BY <2>1 DEF RingTypes
  <2> QED BY <2>1, <2>3, <2>4, <2>5 DEF RingTypes, TypeOK
<1> QED BY <1>1, RingInvariance, PTL

(* The frames handed to the I2S are what the one producer pushed, every sample *)
(* once and in order, until push_decoded_to_ring overruns the ring: for every  *)
(* ring size, over every wrap of the counters.                                *)
THEOREM FramesAreIntact == Spec => [](OnePushes => FramesIntact)
<1>1. RingInv => (OnePushes => FramesIntact)
  <2> SUFFICES ASSUME RingInv, OnePushes, pc["playback"] = "release",
                      ~play_ring_drops
               PROVE  \E t \in Producers : \A i \in 1 .. PCM_SAMPLES_PER_FRAME :
                        pop_buf[i].from = t /\ pop_buf[i].pos = played + i
    BY DEF FramesIntact
  <2>1. ContentsInOrder /\ Len(pop_buf) = PCM_SAMPLES_PER_FRAME
    BY DEF RingInv, RingInStep, PushShape, PopShape
  <2>2. Pusher \in Producers
    BY TaskNames DEF Pusher
  <2> QED BY <2>1, <2>2 DEF ContentsInOrder, IsSample
<1> QED BY <1>1, RingInvariance, PTL

(* Until a self-test clip was played, the playback task counts no underrun      *)
(* before an overrun: without one, what it sees in the ring are whole frames.  *)
THEOREM UnderrunOnlyAfterOverrun == Spec => []UnderrunMeansOverrun
<1>1. RingInv => UnderrunMeansOverrun
  <2>1. clips \in Nat => (clips > 0 <=> clips # 0)
    OBVIOUS
  <2>2. RingTypes => clips \in Nat
    BY RingFacts
  <2> QED
    BY <2>1, <2>2
    DEF RingInv, RingInStep, OnePushes, CountersInStep, WholeFrames,
        UnderrunMeansOverrun
<1> QED BY <1>1, RingInvariance, PTL

(* pipecat_reset_audio_decoder, after its guard, resets the decoder only after *)
(* all that it saw published was played.  The guard compares two loads that    *)
(* may be far apart, so its difference is told from zero only while the        *)
(* counters have not come round (2^32 samples are three days of speech).       *)
THEOREM ResetIsAfterEarlierAudio ==
  Spec => [](OnePushes /\ Published < CounterMod => ResetAfterEarlierAudio)
<1>1. RingInv => (OnePushes /\ Published < CounterMod => ResetAfterEarlierAudio)
  <2> SUFFICES ASSUME RingInv, OnePushes, Published < CounterMod,
                      pc["rtvi"] = "reset", ~play_ring_drops
               PROVE  played >= seen
    BY DEF ResetAfterEarlierAudio
  <2>1. seen <= played
    BY DEF RingInv, RingInStep, GuardInStep
  <2> QED BY <2>1 DEF RingInv, RingTypes
<1> QED BY <1>1, RingInvariance, PTL

(* What update_is_playing lets through behind the last audible sample is in    *)
(* the ring behind it when the gate has closed and the prebuffer waits, for    *)
(* every threshold and whatever was overrun or underrun before.               *)
THEOREM AudibleIsBehindSilence == Spec => []AudibleBehindSilence
<1>1. RingInv => AudibleBehindSilence
  <2> SUFFICES ASSUME RingInv, Withheld, clips = 0,
                      NEW i \in 0 .. Occupancy - 1,
                      ~(Occupancy - i > (PLAYBACK_SILENCE_FRAMES - 1)
                                          * PCM_SAMPLES_PER_FRAME)
               PROVE  ~play_ring[Slot(play_ring_tail, i)].loud
    BY DEF AudibleBehindSilence
  <2>1. /\ RingTypes /\ QuietPublished /\ HeadIsPublished
        /\ pc["webrtc"] = "idle" /\ ~is_playing
    BY DEF RingInv, RingInStep, OnePushes, QuietBehind, Withheld
  <2>2. PICK threshold \in Thresholds : Occupancy < threshold
    BY DEF Withheld
  <2>3. /\ threshold \in Int /\ threshold <= PLAY_RING_SAMPLES
        /\ QuietFor = (PLAYBACK_SILENCE_FRAMES - 1) * PCM_SAMPLES_PER_FRAME
    <3>1. threshold \in Int /\ threshold <= PLAY_RING_SAMPLES
      BY RingAssumption
    <3> QED BY <2>1, <3>1 DEF QuietFor
  <2>4. /\ play_ring_head \in Int /\ play_ring_tail \in Counter
        /\ play_ring_tail \in Int /\ Published \in Nat
        /\ play_ring_head = Published % CounterMod
    BY <2>1, RingFacts DEF RingTypes, HeadIsPublished
  <2>5. Occupancy \in 0 .. CounterMod - 1
    <3>1. play_ring_head - play_ring_tail \in Int
      BY <2>4
    <3> QED BY <3>1, InRing DEF Occupancy, Counter
  <2> DEFINE back == Occupancy - i
  <2>6. back \in 1 .. PLAY_RING_SAMPLES /\ back <= QuietFor
    <3>1. QuietFor \in Int
      BY <2>1, RingSizes DEF QuietFor
    <3> QED BY <2>2, <2>3, <2>5, <3>1, RingSizes
  <2>7. Slot(play_ring_tail, i) = (Published - back) % PLAY_RING_SAMPLES
    <3>1. play_ring_tail = (Published - Occupancy) % CounterMod
      <4>1. play_ring_tail = play_ring_tail % CounterMod
        BY <2>4, SmallRemainder DEF Counter
      <4>2. PICK k \in Int : play_ring_head - play_ring_tail
                               = CounterMod * k + Occupancy
        <5>1. play_ring_head - play_ring_tail \in Int /\ CounterMod \in Nat \ {0}
          BY <2>4, RingSizes
        <5> QED BY <5>1, RemainderRange DEF Occupancy
      <4>3. /\ play_ring_head - Occupancy \in Int /\ CounterMod * k \in Int
            /\ play_ring_head - Occupancy = play_ring_tail + CounterMod * k
        BY <2>4, <2>5, <4>2, RingSizes
      <4>4. (play_ring_head - Occupancy) % CounterMod = play_ring_tail % CounterMod
        <5>1. (play_ring_tail + CounterMod * k) % CounterMod
                = play_ring_tail % CounterMod
          BY <2>4, RingSizes, AddTurns
        <5> QED BY <4>3, <5>1
      <4>5. (play_ring_head - Occupancy) % CounterMod
              = (Published - Occupancy) % CounterMod
        <5>1. -Occupancy \in Int /\ Published \in Int
          BY <2>4, <2>5
        <5>2. ((Published % CounterMod) + (-Occupancy)) % CounterMod
                = (Published + (-Occupancy)) % CounterMod
          BY <5>1, CounterGoesOn
        <5>3. /\ play_ring_head - Occupancy = play_ring_head + (-Occupancy)
              /\ Published - Occupancy = Published + (-Occupancy)
          BY <2>4, <2>5, <5>1
        <5> QED BY <2>4, <5>2, <5>3
      <4> QED BY <4>1, <4>4, <4>5
    <3>2. Published - Occupancy \in Int /\ i \in Int
      BY <2>4, <2>5
    <3>3. Slot((Published - Occupancy) % CounterMod, i)
            = ((Published - Occupancy) + i) % PLAY_RING_SAMPLES
      BY <3>2, CounterGoesOn
    <3>4. (Published - Occupancy) + i = Published - back
      BY <2>4, <2>5
    <3> QED BY <3>1, <3>3, <3>4
  <2> HIDE DEF back
  <2> QED BY <2>1, <2>6, <2>7 DEF QuietPublished, Quiet
<1> QED BY <1>1, RingInvariance, PTL
-----------------------------------------------------------------------------
(* The phase of the LED ring.  For every clock and every time to live: a tick  *)
(* that no new phase disturbs shows the right phase.  Besides the types, the   *)
(* proof needs what the wrapped clock says of the age of a phase.              *)
USE LedAssumption

(* The stored time, or the one that will be stored, is the clock less the age. *)
Timed ==
  age < ClockSpan =>
    (clock - IF setter.step = "time" THEN setter.ms ELSE g_server_phase_ms)
      % ClockSpan = age

(* In an undisturbed tick the LED task has the current phase and its age. *)
TickIsCurrent ==
  led.step # "idle" /\ quiet =>
    /\ setter.step = "idle"
    /\ led.phase = g_server_phase
    /\ led.step = "now" /\ ageRead < ClockSpan =>
         (led.now - g_server_phase_ms) % ClockSpan = ageRead

LedInv == LedRingTypeOK /\ Timed /\ TickIsCurrent

(* A difference of two clock readings goes on by one with the clock. *)
LEMMA ClockGoesOn ==
  ASSUME NEW c \in 0 .. ClockSpan - 1, NEW t \in 0 .. ClockSpan - 1,
         NEW a \in Nat, a + 1 < ClockSpan, (c - t) % ClockSpan = a
  PROVE  (((c + 1) % ClockSpan) - t) % ClockSpan = a + 1
<1> DEFINE p == (c - t) \div ClockSpan
<1> DEFINE w == (c + 1) \div ClockSpan
<1> DEFINE d == (c + 1) % ClockSpan
<1>1. p \in Int /\ c - t = ClockSpan * p + a
  BY RemainderRange
<1>2. w \in Int /\ d \in Int /\ c + 1 = ClockSpan * w + d
  BY RemainderRange
<1> HIDE DEF p, w, d
<1>3. d - t = ClockSpan * p - ClockSpan * w + (a + 1)
  BY <1>1, <1>2
<1>4. ClockSpan * p - ClockSpan * w = ClockSpan * (p - w)
  BY <1>1, <1>2
<1>5. (d - t) % ClockSpan = a + 1
  <2> DEFINE q == p - w
  <2> DEFINE x == d - t
  <2>1. q \in Int /\ x \in Int /\ a + 1 \in 0 .. ClockSpan - 1
    BY <1>1, <1>2
  <2>2. x = ClockSpan * q + (a + 1)
    BY <1>3, <1>4
  <2> HIDE DEF q, x
  <2>3. x % ClockSpan = a + 1
    BY <2>1, <2>2, RemainderUnique
  <2> QED BY <2>3 DEF x
<1> QED BY <1>5 DEF d

LEMMA LedInit == LedRingInit => LedInv
<1> SUFFICES ASSUME LedRingInit PROVE LedInv
  OBVIOUS
<1>1. LedRingTypeOK
  BY DEF LedRingInit, LedRingTypeOK, NotSetting, NotReading
<1>2. Timed
  <2>1. 0 % ClockSpan = 0
    BY RemainderUnique, 0 = ClockSpan * 0 + 0
  <2> QED BY <2>1 DEF LedRingInit, Timed, NotSetting
<1>3. TickIsCurrent
  BY DEF LedRingInit, TickIsCurrent, NotReading
<1> QED BY <1>1, <1>2, <1>3 DEF LedInv

LEMMA LedStep == LedInv /\ [LedRingNext]_ledRingVars => LedInv'
<1> SUFFICES ASSUME LedInv, [LedRingNext]_ledRingVars PROVE LedInv'
  OBVIOUS
<1> USE DEF LedInv, LedRingTypeOK, Timed, TickIsCurrent, NotSetting, NotReading,
            phaseVars, ledVars
<1>1. ASSUME NEW phase \in Phases, StorePhase(phase) PROVE LedInv'
  BY <1>1 DEF StorePhase
<1>2. CASE ReadTime
  <2>1. (clock - clock) % ClockSpan = 0
    BY RemainderUnique, clock - clock = ClockSpan * 0 + 0
  <2> QED BY <1>2, <2>1 DEF ReadTime
<1>3. CASE StoreTime
  BY <1>3 DEF StoreTime
<1>4. CASE LoadPhase
  BY <1>4 DEF LoadPhase
<1>5. CASE ReadNow
  BY <1>5 DEF ReadNow
<1>6. ASSUME NEW connected \in BOOLEAN, Show(connected) PROVE LedInv'
  BY <1>6 DEF Show, Fresh
<1>7. CASE Tick
  <2>1. clock' \in 0 .. ClockSpan - 1
    BY <1>7, RemainderRange, clock + 1 \in Int DEF Tick
  <2>2. LedRingTypeOK'
    BY <1>7, <2>1 DEF Tick
  <2>3. TickIsCurrent'
    BY <1>7 DEF Tick
  <2>4. Timed'
    <3> DEFINE t == IF setter.step = "time" THEN setter.ms ELSE g_server_phase_ms
    <3>1. t \in 0 .. ClockSpan - 1 /\ t' = t
      BY <1>7 DEF Tick
    <3>2. SUFFICES ASSUME age' < ClockSpan
                   PROVE  (clock' - t) % ClockSpan = age'
      BY <3>1
    <3>3. age + 1 < ClockSpan /\ age' = age + 1
      BY <1>7, <3>2 DEF Tick
    <3>4. (clock - t) % ClockSpan = age /\ age \in Nat
          /\ clock \in 0 .. ClockSpan - 1
      BY <3>3
    <3> HIDE DEF t, LedInv, LedRingTypeOK, Timed, TickIsCurrent
    <3>5. (((clock + 1) % ClockSpan) - t) % ClockSpan = age + 1
      BY <3>1, <3>3, <3>4, ClockGoesOn
    <3> QED BY <1>7, <3>3, <3>5 DEF Tick
  <2> QED BY <2>2, <2>3, <2>4
<1>8. CASE UNCHANGED ledRingVars
  BY <1>8 DEF ledRingVars
<1> QED
  BY <1>1, <1>2, <1>3, <1>4, <1>5, <1>6, <1>7, <1>8 DEF LedRingNext

(* The inductive invariant of the LED ring. *)
THEOREM LedInvariance == LedRingSpec => []LedInv
<1> QED BY LedInit, LedStep, PTL DEF LedRingSpec

(* Every variable has its type; the state shown is a phase, the device's own   *)
(* or off.                                                                    *)
THEOREM LedTypeOK == LedRingSpec => []LedRingTypeOK
<1>1. LedInv => LedRingTypeOK
  BY DEF LedInv
<1> QED BY <1>1, LedInvariance, PTL

LEMMA ShowsTheRightPhase ==
  ASSUME LedInv, Show(TRUE), quiet, ageRead < ClockSpan, g_led_state' # "off"
  PROVE  g_led_state' = IF g_server_phase # "none" /\ ageRead < LED_PHASE_TTL_MS
                        THEN g_server_phase ELSE "local"
<1>1. /\ led.phase = g_server_phase
      /\ (led.now - g_server_phase_ms) % ClockSpan = ageRead
  BY DEF LedInv, TickIsCurrent, Show
<1> QED BY <1>1 DEF Show, Fresh

(* For every clock span and time to live: a tick that no new phase disturbs    *)
(* shows the last phase exactly while it is younger than its time to live.     *)
THEOREM QuietTickShowsThePhase == LedRingSpec => QuietTickIsRight
<1>1. LedInv /\ [LedRingNext]_ledRingVars
        => [Show(TRUE) /\ quiet /\ ageRead < ClockSpan /\ g_led_state' # "off" =>
              g_led_state' = IF g_server_phase # "none"
                                /\ ageRead < LED_PHASE_TTL_MS
                             THEN g_server_phase ELSE "local"]_ledRingVars
  BY ShowsTheRightPhase
<1> QED BY <1>1, LedInvariance, PTL DEF LedRingSpec, QuietTickIsRight
=============================================================================
