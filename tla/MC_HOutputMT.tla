--------------------------- MODULE MC_HOutputMT --------------------------
(* A small instance of HOutputMT: one component, two buffers of two bytes. *)
EXTENDS HOutputMT, TLC

MCComp == {"new"}
MCOutSize == [c \in MCComp |-> 5]

(* The work buffers of a component are interchangeable. *)
BufSymmetry == Permutations(Bufs)
=============================================================================
