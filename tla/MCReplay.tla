------------------------------ MODULE MCReplay ------------------------------
(***************************************************************************)
(* Replay on small instances.                                              *)
(***************************************************************************)
EXTENDS Replay, TLC

(* A credit is a pack of one or two replays, without a cap on events.      *)
OneReplay  == [c \in Credits |-> 1]
TwoReplays == [c \in Credits |-> 2]
NoCap      == [c \in Credits |-> 0]

SessionSymmetry == Permutations(Sessions)
Symmetry ==
  Permutations(Sessions) \cup Permutations(Handlers)
    \cup Permutations(Cancellers)
=============================================================================
