---------------------------- MODULE ByteStream ----------------------------
(***************************************************************************)
(* What a sequential hpatch_TStreamInput promises to its caller: the bytes *)
(* of the stream, each exactly once and in order, however the calls cut    *)
(* it; a call succeeds only with all that it asked for.  A byte is         *)
(* represented by its position.                                            *)
(***************************************************************************)
EXTENDS Bytes

CONSTANTS Streams, Size
VARIABLES pos,     \* the next byte to hand out, by stream
          call,    \* "idle" | "busy" | "ok" | "fail": the caller's view
          want,    \* bytes the running call still wants
          got      \* bytes handed out by the running call

vars == <<pos, call, want, got>>

Init ==
  /\ pos = [c \in Streams |-> 0] /\ call = [c \in Streams |-> "idle"]
  /\ want = [c \in Streams |-> 0] /\ got = [c \in Streams |-> <<>>]

Begin(c) ==
  /\ call[c] = "idle"
  /\ \E n \in 0 .. (Size[c] - pos[c]) : want' = [want EXCEPT ![c] = n]
  /\ got' = [got EXCEPT ![c] = <<>>]
  /\ call' = [call EXCEPT ![c] = "busy"]
  /\ UNCHANGED pos

(* A call at a wrong position or beyond the end; the stream is of no       *)
(* further use, wherever it says it stands.                                *)
Refuse(c) ==
  /\ call[c] = "idle"
  /\ call' = [call EXCEPT ![c] = "fail"]
  /\ pos' = [pos EXCEPT ![c] = pos'[c]] /\ pos'[c] \in Nat
  /\ UNCHANGED <<want, got>>

Give(c) ==
  /\ call[c] = "busy"
  /\ \E n \in 1 .. want[c] :
       /\ got' = [got EXCEPT ![c] = @ \o Run(pos[c], n)]
       /\ pos' = [pos EXCEPT ![c] = @ + n]
       /\ want' = [want EXCEPT ![c] = @ - n]
  /\ UNCHANGED call

Return(c) ==
  /\ call[c] = "busy"
  /\ \/ want[c] = 0 /\ call' = [call EXCEPT ![c] = "ok"]
     \/ call' = [call EXCEPT ![c] = "fail"]
  /\ UNCHANGED <<pos, want, got>>

Again(c) ==
  /\ call[c] = "ok"
  /\ call' = [call EXCEPT ![c] = "idle"]
  /\ UNCHANGED <<pos, want, got>>

Next == \E c \in Streams : Begin(c) \/ Refuse(c) \/ Give(c) \/ Return(c) \/ Again(c)
Spec == Init /\ [][Next]_vars
===========================================================================
