---------------------------- MODULE VendorServer ----------------------------
(***************************************************************************)
(* What the vendor command server of rtk_parse.c promises: commands are    *)
(* named by the order in which they are accepted and go to the controller  *)
(* in that order, the next one only when the last one has been answered.   *)
(* Closing the library forgets what has not been sent and what has not     *)
(* been answered, and the numbers start again.                             *)
(***************************************************************************)
EXTENDS Naturals

VARIABLES
  accepted,   \* number of the last command accepted
  sent,       \* number of the last command given to the controller
  answered    \* number of the last command answered

Init == accepted = 0 /\ sent = 0 /\ answered = 0

Accept ==
  /\ accepted' = accepted + 1
  /\ UNCHANGED <<sent, answered>>

Send ==
  /\ sent < accepted
  /\ sent = answered
  /\ sent' = sent + 1
  /\ UNCHANGED <<accepted, answered>>

Answer ==
  /\ answered < sent
  /\ answered' = answered + 1
  /\ UNCHANGED <<accepted, sent>>

Forget ==
  /\ accepted' = 0 /\ sent' = 0 /\ answered' = 0

Next == Accept \/ Send \/ Answer \/ Forget

Spec == Init /\ [][Next]_<<accepted, sent, answered>>
=============================================================================
