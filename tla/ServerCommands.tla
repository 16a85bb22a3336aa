---------------------------- MODULE ServerCommands ----------------------------
(***************************************************************************)
(* What the server may rely on once the device has taken a message from the *)
(* data channel: messages are carried out one at a time, each once, in the  *)
(* order they were taken, and the phase of the LED ring is that of the last  *)
(* one that names a phase.                                                  *)
(***************************************************************************)
EXTENDS Sequences

CONSTANTS
  Command,     \* RTVI messages
  Phase,       \* phases of the LED ring
  NoPhase,     \* before the first message
  PhaseOf      \* [Command -> Phase \cup {NoPhase}]: what a message asks for

VARIABLES
  pending,     \* taken and not carried out yet
  phase        \* what the server asked for last

vars == <<pending, phase>>

Init == pending = <<>> /\ phase = NoPhase

Take(c) ==
  /\ pending' = Append(pending, c)
  /\ UNCHANGED phase

CarryOut ==
  /\ pending # <<>>
  /\ pending' = Tail(pending)
  /\ phase' = IF PhaseOf[Head(pending)] = NoPhase THEN phase
              ELSE PhaseOf[Head(pending)]

Next == (\E c \in Command : Take(c)) \/ CarryOut

Spec == Init /\ [][Next]_vars /\ WF_vars(CarryOut)
=============================================================================
