------------------------------ MODULE MCRelay ------------------------------
(* Small instances of Relay for TLC.                                       *)
EXTENDS Relay, TLC

(* The handlers are interchangeable: one permutation class is enough.      *)
MCSymmetry == Permutations(Handlers)

(* With MaxItems = 2 and MaxBytes = 3, frame 1 is kept, frame 2 dropped for*)
(* its bytes, frame 3 fills both limits exactly, and frame 4, which is     *)
(* empty, is dropped for the count alone.                                  *)
MCFrameSize == [f \in 1..MaxFrames |-> <<1, 3, 2, 0>>[f]]
=============================================================================
