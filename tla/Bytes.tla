------------------------------- MODULE Bytes ------------------------------
(***************************************************************************)
(* What the modules with work buffers share: the bytes of a stream, where  *)
(* a byte stands as its position, and the lists of buffers.                *)
(***************************************************************************)
EXTENDS Naturals, Sequences

(* The n bytes of a stream from position p. *)
Run(p, n) == [i \in 1..n |-> p + i - 1]

InList(b, list) == \E i \in 1..Len(list) : list[i] = b
NoRepeat(list) == \A i, j \in 1..Len(list) : list[i] = list[j] => i = j
===========================================================================
