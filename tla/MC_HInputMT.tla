--------------------------- MODULE MC_HInputMT ---------------------------
(* A small instance of HInputMT: one component, two buffers of two bytes. *)
EXTENDS HInputMT, TLC

MCComp == {"diff"}
MCStreamSize == [c \in MCComp |-> 5]

(* The work buffers of a component are interchangeable. *)
BufSymmetry == Permutations(Bufs)
=============================================================================
