---------------------------- MODULE MC_HPatchMT --------------------------
(* Small instances of HPatchMT: which components are opened, and the diff. *)
EXTENDS HPatchMT, TLC

cov(g, o, n) == [gap |-> g, oldPos |-> o, length |-> n]

(* Two steps; one buffer holds data of two covers, one cover spans two     *)
(* buffers; the last cover is empty and follows a real one.                *)
TwoSteps == << <<cov(1, 3, 3), cov(0, 0, 2)>>, <<cov(0, 1, 2), cov(1, 0, 0)>> >>
(* A short diff for the runs with several components. *)
OneStep == << <<cov(1, 1, 3), cov(1, 0, 0)>> >>
(* A shorter one for all components together. *)
ShortStep == << <<cov(0, 1, 3), cov(0, 0, 0)>> >>
(* As TwoSteps, but its third cover reaches beyond the old data. *)
BadCover == << <<cov(1, 3, 3), cov(0, 0, 2)>>, <<cov(0, 5, 2), cov(1, 0, 0)>> >>

(* TwoSteps, cut one cover later: the last step reads no old data. *)
LastEmpty == << <<cov(1, 3, 3), cov(0, 0, 2), cov(0, 1, 2)>>, <<cov(1, 0, 0)>> >>

GoodAndBad == {TwoSteps, BadCover, LastEmpty}
OnlyOneStep == {OneStep}
OnlyShortStep == {ShortStep}

MCInputs == Comp \intersect {"diff", "dec"}
MCCaches == Comp \intersect {"old"}
MCOutputs == Comp \intersect {"new"}
MCCompSize == 3
aDiff == DiffSize(CHOOSE d \in Diffs : TRUE)
aNew == NewSize(CHOOSE d \in Diffs : TRUE)
MCStreamSize == [c \in MCInputs |-> IF c = "diff" /\ Compressed THEN MCCompSize ELSE aDiff]
MCOutSize == [c \in MCOutputs |-> aNew]

(* The work buffers of a component are interchangeable. *)
BufSymmetry == Permutations(Bufs)
=============================================================================
