------------------------------ MODULE MCPlayRing ------------------------------
(***************************************************************************)
(* The inputs with which the playback ring is checked: a stream of decoded  *)
(* frames, the self-test alone, a shorter stream with a decoder reset.      *)
(***************************************************************************)
EXTENDS PlayRingProps

Load(f, c, r) == [frames |-> f, clips |-> c, resets |-> r]

Stream == {Load(7, 0, 0)}
AllWorkloads == Stream \cup {Load(0, 2, 0), Load(4, 0, 1)}
=============================================================================
