------------------------------ MODULE H5GiveUp ------------------------------
(***************************************************************************)
(* H5Transport with one history variable: the retransmission rounds since  *)
(* h5_remove_acked_pkt last set data_retrans_count to 0.                   *)
(***************************************************************************)
EXTENDS H5Transport

VARIABLE rounds

Emptied == pc["rx"] = "remove" /\ pc'["rx"] # "remove" /\ unack' = << >>
Counted == pc["retrans"] = "store" /\ pc'["retrans"] # "store"

GInit == Init /\ rounds = 0

GNext ==
  /\ Next
  /\ rounds' = IF Emptied THEN 0 ELSE IF Counted THEN rounds + 1 ELSE rounds

GSpec == GInit /\ [][GNext]_<<vars, rounds>>

\* data_retransfer_thread gives up only after RetransLimit rounds in which no
\* acknowledgement emptied unack: the comment on DATA_RETRANS_COUNT counts
\* "40*100 = 4000ms(4s)" of retransmission.
GiveUpAfterLimit ==
  pc["retrans"] = "check" /\ data_retrans_count >= RetransLimit
    => rounds >= RetransLimit
=============================================================================
