----------------------------- MODULE ByteSink -----------------------------
(***************************************************************************)
(* What a sequential hpatch_TStreamOutput promises to the stream behind    *)
(* it: every byte the callers handed over arrives exactly once and in      *)
(* order, never before it was handed over.  A byte is represented by its   *)
(* position.                                                               *)
(***************************************************************************)
EXTENDS Bytes

CONSTANTS Sinks, Size
VARIABLES accepted,  \* how many bytes the calls have handed over, by sink
          file       \* what the stream behind has received

vars == <<accepted, file>>

Init ==
  /\ accepted = [c \in Sinks |-> 0]
  /\ file = [c \in Sinks |-> <<>>]

Accept(c) ==
  /\ \E m \in (accepted[c] + 1) .. Size[c] : accepted' = [accepted EXCEPT ![c] = m]
  /\ UNCHANGED file

Deliver(c) ==
  /\ \E n \in 1 .. (accepted[c] - Len(file[c])) :
       file' = [file EXCEPT ![c] = @ \o Run(Len(@), n)]
  /\ UNCHANGED accepted

Next == \E c \in Sinks : Accept(c) \/ Deliver(c)
Spec == Init /\ [][Next]_vars
===========================================================================
