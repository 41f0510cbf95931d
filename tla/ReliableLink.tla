---------------------------- MODULE ReliableLink ----------------------------
(***************************************************************************)
(* What one direction of the H5 (three-wire UART) link promises its user:  *)
(* the packets handed over on one side come out on the other side in the   *)
(* order they were handed over, each once and none skipped.  Packets are   *)
(* named by the order in which they were handed over: 1, 2, 3, ...         *)
(***************************************************************************)
EXTENDS Naturals, Sequences

VARIABLES
  sent,   \* how many packets have been handed over
  got     \* the packets that came out, in order

Init ==
  /\ sent = 0
  /\ got  = << >>

Accept ==
  /\ sent' = sent + 1
  /\ got'  = got

Deliver ==
  /\ Len(got) < sent
  /\ got'  = Append(got, Len(got) + 1)
  /\ sent' = sent

Next == Accept \/ Deliver

Spec == Init /\ [][Next]_<<sent, got>>
=============================================================================
