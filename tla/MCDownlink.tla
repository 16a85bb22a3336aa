------------------------------ MODULE MCDownlink ------------------------------
(* Packets for TLC: every shape of payload the parser and the planner tell  *)
(* apart, for every index up to MaxIdx.                                     *)
EXTENDS DownlinkProps

CONSTANTS MaxIdx, Skews, OtherSsrc

Entry(off, len, good) ==
  [pt |-> PT_OPUS, ts_offset |-> off, length |-> len, good |-> good]
Copy(steps) == Entry(steps * TS_STEP, 1, TRUE)

Bare(good) == [red |-> FALSE, chain |-> <<>>, final |-> PT_OPUS, bytes |-> 1,
               good |-> good]
Red(chain, bytes, good) ==
  [red |-> TRUE, chain |-> chain, final |-> PT_OPUS, bytes |-> bytes,
   good |-> good]

Payloads ==
  { Bare(TRUE), Bare(FALSE),
    Red(<<Copy(2), Copy(1)>>, 3, TRUE),          \* steady state
    Red(<<Copy(2)>>, 2, FALSE),                  \* newer copy absent, bad primary
    Red(<<Entry(2 * TS_STEP, 0, TRUE), Copy(1)>>, 3, TRUE),  \* empty block
    Red(<<Entry(TS_STEP - 1, 1, TRUE)>>, 3, TRUE),           \* off the grid
    Red(<<Entry(TS_STEP, 1, FALSE)>>, 3, TRUE),              \* bad copy
    Red(<<Copy(1)>>, 1, TRUE) }                  \* no primary left: malformed

With(s, i, k, y) ==
  [ssrc |-> s, idx |-> i, time |-> i * TS_STEP + k, red |-> y.red, chain |-> y.chain,
   final |-> y.final, bytes |-> y.bytes, good |-> y.good]

MCPackets ==
  {With(RemoteSsrc, i, k, y) : i \in 1 .. MaxIdx, k \in Skews, y \in Payloads}
    \cup {With(OtherSsrc, i, 0, Bare(TRUE)) : i \in 1 .. MaxIdx}
=============================================================================
