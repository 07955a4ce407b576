------------------------------- MODULE Messages -------------------------------
(***************************************************************************)
(* What ipc/frame.rs promises of one direction of a connection: payloads   *)
(* arrive whole, in order and once each.  A writer that loses the framing  *)
(* (Break) takes nothing back: what was sent before still arrives.         *)
(***************************************************************************)
EXTENDS Naturals, Sequences

CONSTANT Payloads

VARIABLES sent,   \* payloads written while the framing is whole
          got,    \* those that the reader has returned
          broken  \* the writer has lost the framing

Init == sent = <<>> /\ got = <<>> /\ broken = FALSE

\* write_frame_bytes() returns Ok
Send ==
  /\ ~broken
  /\ \E p \in Payloads : sent' = Append(sent, p)
  /\ UNCHANGED <<got, broken>>

Break ==
  /\ broken' = TRUE
  /\ UNCHANGED <<sent, got>>

\* read_frame_bytes() returns Ok
Receive ==
  /\ Len(got) < Len(sent)
  /\ got' = Append(got, sent[Len(got) + 1])
  /\ UNCHANGED <<sent, broken>>

Next == Send \/ Break \/ Receive

Spec == Init /\ [][Next]_<<sent, got, broken>>
=============================================================================
