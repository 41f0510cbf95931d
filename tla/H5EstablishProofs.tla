------------------------- MODULE H5EstablishProofs -------------------------
(***************************************************************************)
(* Proofs about H5Establish, for all limits, caps and numbers of restarts: *)
(* the type invariant, one report of success per link, no failure before a *)
(* full round of requests, and the timers of the first handshake.  Each    *)
(* rests on one conjunct of EstablishInv.                                  *)
(***************************************************************************)
EXTENDS H5Establish, TLAPS

\* A wire keeps its type when a packet is put on it or taken off.
LEMMA WireTypes ==
  ASSUME NEW w \in Seq(Ctl)
  PROVE  /\ \A p \in Ctl : Put(w, p) \in Seq(Ctl)
         /\ w # << >> => Tail(w) \in Seq(Ctl) /\ Head(w) \in Ctl
  BY DEF Put

\* The flags of the timers are only set and cleared.
LEMMA FlagStep == FlagTypeOK /\ [Next]_vars => FlagTypeOK'
  <1> SUFFICES ASSUME FlagTypeOK, [Next]_vars PROVE FlagTypeOK'
    OBVIOUS
  <1> USE DEF FlagTypeOK, timers, host
  <1>1. CASE send_sync_cmd_timer
    BY <1>1 DEF send_sync_cmd_timer
  <1>2. CASE resync
    BY <1>2 DEF resync, hci_h5_send_sync_req, UpTo, Put
  <1>3. CASE recv_sync_resp
    BY <1>3 DEF recv_sync_resp, Receive, hci_h5_send_conf_req, UpTo, Put
  <1>4. CASE recv_conf_resp
    BY <1>4 DEF recv_conf_resp, Receive, conf_resp_wanted,
      rtk_notify_hw_h5_init_result
  <1>5. CASE sync_handler_start
    BY <1>5 DEF sync_handler_start
  <1>6. CASE conf_handler_start
    BY <1>6 DEF conf_handler_start
  <1>7. CASE sync_expires
    BY <1>7 DEF sync_expires
  <1>8. CASE conf_expires
    BY <1>8 DEF conf_expires
  <1>9. ASSUME NEW h \in {"sync", "conf"}, limit_stop(h) PROVE FlagTypeOK'
    BY <1>9 DEF limit_stop
  <1>10. CASE UNCHANGED timers
    BY <1>10 DEF timers
  <1>11. CASE \/ send_sync_cmd \/ send_sync_cmd_req \/ recv_sync
              \/ recv_sync_active \/ recv_conf \/ recv_ignored \/ sync_repeat
              \/ conf_repeat \/ ctrl_recv \/ ctrl_send \/ ctrl_restart
              \/ uart_loss
              \/ \E h \in {"sync", "conf"} :
                   count_load(h) \/ count_store(h) \/ limit_reached(h) \/ limit_state(h) \/ limit_notify(h)
    BY <1>11, <1>10 DEF send_sync_cmd, send_sync_cmd_req, recv_sync,
      recv_sync_active, recv_conf, recv_ignored, sync_repeat, conf_repeat,
      ctrl_recv, ctrl_send, ctrl_restart, uart_loss, count_load,
      count_store, limit_reached, limit_state, limit_notify
  <1> QED
    BY <1>1, <1>2, <1>3, <1>4, <1>5, <1>6, <1>7, <1>8, <1>9, <1>10, <1>11
      DEF Next, Cmd, Rx, SyncHandler, ConfHandler, Handler, Controller, vars

\* Counts, wires and program counters keep their types.
LEMMA DataStep == DataTypeOK /\ [Next]_vars => DataTypeOK'
  <1> SUFFICES ASSUME DataTypeOK, [Next]_vars PROVE DataTypeOK'
    OBVIOUS
  <1> USE LimitsAssumption, CapsAssumption DEF DataTypeOK, timers, counts, ctrl, host, Goto, Threads, States, Ctl
  <1>1. CASE send_sync_cmd
    BY <1>1 DEF send_sync_cmd
  <1>2. CASE send_sync_cmd_req
    BY <1>2 DEF send_sync_cmd_req, hci_h5_send_sync_req, UpTo, Put
  <1>3. CASE send_sync_cmd_timer
    BY <1>3 DEF send_sync_cmd_timer
  <1>4. CASE recv_sync
    BY <1>4 DEF recv_sync, Receive, hci_h5_send_sync_resp, Put
  <1>5. CASE recv_sync_active
    BY <1>5 DEF recv_sync_active, Receive, hci_h5_send_sync_resp, Put
  <1>6. CASE resync
    BY <1>6 DEF resync, hci_h5_send_sync_req, UpTo, Put
  <1>7. CASE recv_sync_resp
    BY <1>7 DEF recv_sync_resp, Receive, hci_h5_send_conf_req, UpTo, Put
  <1>8. CASE recv_conf
    BY <1>8 DEF recv_conf, Receive, hci_h5_send_conf_resp, Put
  <1>9. CASE recv_conf_resp
    BY <1>9 DEF recv_conf_resp, Receive, conf_resp_wanted,
      rtk_notify_hw_h5_init_result
  <1>10. CASE recv_ignored
    <2>1. c2h # << >> /\ c2h' = Tail(c2h)
      BY <1>10 DEF recv_ignored, Receive
    <2>2. c2h' \in Seq(Ctl)
      BY <2>1, WireTypes
    <2> QED
      BY <1>10, <2>2 DEF recv_ignored
  <1>11. CASE sync_handler_start
    BY <1>11 DEF sync_handler_start
  <1>12. CASE sync_repeat
    BY <1>12 DEF sync_repeat, sync_try_again, hci_h5_send_sync_req, UpTo,
      Put
  <1>13. CASE conf_handler_start
    BY <1>13 DEF conf_handler_start
  <1>14. CASE conf_repeat
    BY <1>14 DEF conf_repeat, hci_h5_send_conf_req, UpTo, Put
  <1>15. CASE sync_expires
    BY <1>15 DEF sync_expires
  <1>16. CASE conf_expires
    BY <1>16 DEF conf_expires
  <1>17. CASE ctrl_recv
    <2>1. Head(h2c) \in Ctl /\ h2c' \in Seq(Ctl)
      BY <1>17, WireTypes DEF ctrl_recv
    <2>2. CASE Head(h2c) = "sync"
      <3>1. c2h' \in Seq(Ctl) /\ c_state' \in States
        BY <1>17, <2>2, WireTypes DEF ctrl_recv
      <3> QED
        BY <1>17, <2>1, <3>1 DEF ctrl_recv
    <2>3. CASE Head(h2c) = "conf"
      <3>1. c2h' \in Seq(Ctl) /\ c_state' \in States
        BY <1>17, <2>3, WireTypes DEF ctrl_recv
      <3> QED
        BY <1>17, <2>1, <3>1 DEF ctrl_recv
    <2>4. CASE Head(h2c) = "sync_resp"
      <3>1. c2h' \in Seq(Ctl) /\ c_state' \in States
        BY <1>17, <2>4 DEF ctrl_recv
      <3> QED
        BY <1>17, <2>1, <3>1 DEF ctrl_recv
    <2>5. CASE Head(h2c) = "conf_resp"
      <3>1. c2h' \in Seq(Ctl) /\ c_state' \in States
        BY <1>17, <2>5 DEF ctrl_recv
      <3> QED
        BY <1>17, <2>1, <3>1 DEF ctrl_recv
    <2> QED
      BY <2>1, <2>2, <2>3, <2>4, <2>5 DEF Ctl
  <1>18. CASE ctrl_send
    BY <1>18 DEF ctrl_send
  <1>19. CASE ctrl_restart
    BY <1>19 DEF ctrl_restart
  <1>20. CASE uart_loss
    <2>1. h2c' \in Seq(Ctl) /\ c2h' \in Seq(Ctl)
      BY <1>20, WireTypes DEF uart_loss
    <2> QED
      BY <1>20, <2>1 DEF uart_loss
  <1>21. ASSUME NEW h \in {"sync", "conf"}, count_load(h) PROVE DataTypeOK'
    BY <1>21 DEF count_load
  <1>22. ASSUME NEW h \in {"sync", "conf"}, count_store(h) PROVE DataTypeOK'
    BY <1>22 DEF count_store
  <1>23. ASSUME NEW h \in {"sync", "conf"}, limit_reached(h) PROVE DataTypeOK'
    BY <1>23 DEF limit_reached, sync_try_again
  <1>24. ASSUME NEW h \in {"sync", "conf"}, limit_state(h) PROVE DataTypeOK'
    BY <1>24 DEF limit_state, give_up_now
  <1>25. ASSUME NEW h \in {"sync", "conf"}, limit_notify(h) PROVE DataTypeOK'
    BY <1>25 DEF limit_notify, rtk_notify_hw_h5_init_result
  <1>26. ASSUME NEW h \in {"sync", "conf"}, limit_stop(h) PROVE DataTypeOK'
    BY <1>26 DEF limit_stop
  <1>27. CASE UNCHANGED vars
    BY <1>27 DEF vars
  <1> QED
    BY <1>1, <1>2, <1>3, <1>4, <1>5, <1>6, <1>7, <1>8, <1>9, <1>10, <1>11,
      <1>12, <1>13, <1>14, <1>15, <1>16, <1>17, <1>18, <1>19, <1>20, <1>21,
      <1>22, <1>23, <1>24, <1>25, <1>26, <1>27 DEF Next, Cmd, Rx,
      SyncHandler, ConfHandler, Handler, Controller

\* Type correctness of link establishment, for all values of the constants.
THEOREM TypeCorrect == Spec => []TypeOK
  <1>1. Init => TypeOK
    <2>1. Init => DataTypeOK
      BY LimitsAssumption, CapsAssumption DEF Init, DataTypeOK, Threads, States, Ctl
    <2>2. Init => FlagTypeOK
      BY DEF Init, FlagTypeOK
    <2> QED
      BY <2>1, <2>2 DEF TypeOK
  <1>2. TypeOK /\ [Next]_vars => TypeOK'
    BY DataStep, FlagStep DEF TypeOK
  <1> QED
    BY <1>1, <1>2, PTL DEF Spec

\* Reporting success and losing the link alternate.
LEMMA OkStep == TypeOK /\ OkCounted /\ [Next]_vars => OkCounted'
  <1> SUFFICES ASSUME TypeOK, OkCounted, [Next]_vars PROVE OkCounted'
    OBVIOUS
  <1> USE DEF OkCounted, TypeOK, DataTypeOK, States, timers, counts, ctrl, host, Goto
  <1>1. CASE recv_sync_active
    BY <1>1 DEF recv_sync_active, Receive, hci_h5_send_sync_resp, Put
  <1>2. CASE recv_sync_resp
    BY <1>2 DEF recv_sync_resp, Receive, hci_h5_send_conf_req, UpTo, Put
  <1>3. CASE recv_conf_resp
    BY <1>3 DEF recv_conf_resp, Receive, conf_resp_wanted,
      rtk_notify_hw_h5_init_result
  <1>4. ASSUME NEW h \in {"sync", "conf"}, limit_notify(h) PROVE OkCounted'
    BY <1>4 DEF limit_notify, rtk_notify_hw_h5_init_result
  <1>5. CASE UNCHANGED <<link_estab_state, oks, hw_errors>>
    BY <1>5
  <1>6. CASE \/ send_sync_cmd \/ send_sync_cmd_req \/ send_sync_cmd_timer
              \/ recv_sync \/ resync \/ recv_conf \/ recv_ignored
              \/ sync_handler_start \/ sync_repeat \/ conf_handler_start
              \/ conf_repeat \/ sync_expires \/ conf_expires \/ ctrl_recv
              \/ ctrl_send \/ ctrl_restart \/ uart_loss
              \/ \E h \in {"sync", "conf"} :
                   count_load(h) \/ count_store(h) \/ limit_reached(h) \/ limit_state(h) \/ limit_stop(h)
    BY <1>6, <1>5 DEF send_sync_cmd, send_sync_cmd_req, send_sync_cmd_timer,
      recv_sync, resync, recv_conf, recv_ignored, sync_handler_start,
      sync_repeat, conf_handler_start, conf_repeat, sync_expires,
      conf_expires, ctrl_recv, ctrl_send, ctrl_restart, uart_loss,
      count_load, count_store, limit_reached, limit_state, limit_stop
  <1> QED
    BY <1>1, <1>2, <1>3, <1>4, <1>5, <1>6 DEF Next, Cmd, Rx, SyncHandler,
      ConfHandler, Handler, Controller, vars

\* h5_process_ctl_pkts reports success at most once for each time the link comes
\* up, for any losses, repetitions and restarts.
THEOREM OkOnce == Spec => []OkOncePerLink
  <1>1. Init => OkCounted
    BY DEF Init, OkCounted
  <1>2. TypeOK /\ OkCounted => OkOncePerLink
    BY DEF TypeOK, DataTypeOK, OkCounted, OkOncePerLink
  <1> QED
    BY <1>1, <1>2, OkStep, TypeCorrect, PTL DEF Spec

\* A count never runs ahead of the requests sent, whatever updates are lost.
LEMMA RequestsStep == TypeOK /\ RequestsCounted /\ [Next]_vars => RequestsCounted'
  <1> SUFFICES ASSUME TypeOK, RequestsCounted, [Next]_vars PROVE RequestsCounted'
    OBVIOUS
  <1> USE LimitsAssumption DEF RequestsCounted, Counted, FailAfterLimit, TypeOK, DataTypeOK, FlagTypeOK, Threads, timers, counts, ctrl, host, Goto
  <1>1. CASE send_sync_cmd
    BY <1>1 DEF send_sync_cmd
  <1>2. CASE send_sync_cmd_req
    BY <1>2 DEF send_sync_cmd_req, hci_h5_send_sync_req, UpTo, Put
  <1>3. CASE send_sync_cmd_timer
    BY <1>3 DEF send_sync_cmd_timer
  <1>4. CASE recv_sync_active
    BY <1>4 DEF recv_sync_active, Receive, hci_h5_send_sync_resp, Put
  <1>5. CASE resync
    BY <1>5 DEF resync, hci_h5_send_sync_req, UpTo, Put
  <1>6. CASE recv_sync_resp
    BY <1>6 DEF recv_sync_resp, Receive, hci_h5_send_conf_req, UpTo, Put
  <1>7. CASE recv_conf_resp
    BY <1>7 DEF recv_conf_resp, Receive, conf_resp_wanted,
      rtk_notify_hw_h5_init_result
  <1>8. CASE sync_handler_start
    BY <1>8 DEF sync_handler_start
  <1>9. CASE sync_repeat
    BY <1>9 DEF sync_repeat, sync_try_again, hci_h5_send_sync_req, UpTo, Put
  <1>10. CASE conf_handler_start
    BY <1>10 DEF conf_handler_start
  <1>11. CASE conf_repeat
    BY <1>11 DEF conf_repeat, hci_h5_send_conf_req, UpTo, Put
  <1>12. CASE sync_expires
    BY <1>12 DEF sync_expires
  <1>13. CASE conf_expires
    BY <1>13 DEF conf_expires
  <1>14. ASSUME NEW h \in {"sync", "conf"}, count_load(h) PROVE RequestsCounted'
    BY <1>14 DEF count_load
  <1>15. ASSUME NEW h \in {"sync", "conf"}, count_store(h) PROVE RequestsCounted'
    BY <1>15 DEF count_store
  <1>16. ASSUME NEW h \in {"sync", "conf"}, limit_reached(h) PROVE RequestsCounted'
    BY <1>16 DEF limit_reached, sync_try_again
  <1>17. ASSUME NEW h \in {"sync", "conf"}, limit_state(h) PROVE RequestsCounted'
    BY <1>17 DEF limit_state, give_up_now
  <1>18. ASSUME NEW h \in {"sync", "conf"}, limit_notify(h) PROVE RequestsCounted'
    BY <1>18 DEF limit_notify, rtk_notify_hw_h5_init_result
  <1>19. ASSUME NEW h \in {"sync", "conf"}, limit_stop(h) PROVE RequestsCounted'
    BY <1>19 DEF limit_stop
  <1>20. CASE UNCHANGED <<timers, counts, pc, syncs, confs, fails>>
    BY <1>20
  <1>21. CASE \/ recv_sync \/ recv_conf \/ recv_ignored \/ ctrl_recv
              \/ ctrl_send \/ ctrl_restart \/ uart_loss
    BY <1>21, <1>20 DEF recv_sync, recv_conf, recv_ignored, ctrl_recv,
      ctrl_send, ctrl_restart, uart_loss
  <1> QED
    BY <1>1, <1>2, <1>3, <1>4, <1>5, <1>6, <1>7, <1>8, <1>9, <1>10, <1>11,
      <1>12, <1>13, <1>14, <1>15, <1>16, <1>17, <1>18, <1>19, <1>20, <1>21
      DEF Next, Cmd, Rx, SyncHandler, ConfHandler, Handler, Controller, vars

\* A failure is reported only after a full round of requests.
THEOREM FailsLate == Spec => []FailAfterLimit
  <1>1. Init => RequestsCounted
    BY DEF Init, RequestsCounted, Counted, FailAfterLimit, Threads
  <1>2. RequestsCounted => FailAfterLimit
    BY DEF RequestsCounted
  <1> QED
    BY <1>1, <1>2, RequestsStep, TypeCorrect, PTL DEF Spec

\* Before the first result the timer of the present state stays armed.
LEMMA TimersStep == TypeOK /\ OkCounted /\ TimersKept /\ [Next]_vars => TimersKept'
  <1> SUFFICES ASSUME TypeOK, OkCounted, TimersKept, [Next]_vars PROVE TimersKept'
    OBVIOUS
  <1> USE DEF TimersKept, OkCounted, TypeOK, DataTypeOK, FlagTypeOK, Threads, States, timers, counts, ctrl, host, Goto
  <1>1. CASE send_sync_cmd
    BY <1>1 DEF send_sync_cmd
  <1>2. CASE send_sync_cmd_req
    BY <1>2 DEF send_sync_cmd_req, hci_h5_send_sync_req, UpTo, Put
  <1>3. CASE send_sync_cmd_timer
    BY <1>3 DEF send_sync_cmd_timer
  <1>4. CASE recv_sync_active
    BY <1>4 DEF recv_sync_active, Receive, hci_h5_send_sync_resp, Put
  <1>5. CASE resync
    BY <1>5 DEF resync, hci_h5_send_sync_req, UpTo, Put
  <1>6. CASE recv_sync_resp
    BY <1>6 DEF recv_sync_resp, Receive, hci_h5_send_conf_req, UpTo, Put
  <1>7. CASE recv_conf_resp
    BY <1>7 DEF recv_conf_resp, Receive, conf_resp_wanted,
      rtk_notify_hw_h5_init_result
  <1>8. CASE sync_handler_start
    BY <1>8 DEF sync_handler_start
  <1>9. CASE sync_repeat
    BY <1>9 DEF sync_repeat, sync_try_again, hci_h5_send_sync_req, UpTo, Put
  <1>10. CASE conf_handler_start
    BY <1>10 DEF conf_handler_start
  <1>11. CASE conf_repeat
    BY <1>11 DEF conf_repeat, hci_h5_send_conf_req, UpTo, Put
  <1>12. ASSUME NEW h \in {"sync", "conf"}, count_load(h) PROVE TimersKept'
    BY <1>12 DEF count_load
  <1>13. ASSUME NEW h \in {"sync", "conf"}, count_store(h) PROVE TimersKept'
    BY <1>13 DEF count_store
  <1>14. ASSUME NEW h \in {"sync", "conf"}, limit_reached(h) PROVE TimersKept'
    BY <1>14 DEF limit_reached, sync_try_again
  <1>15. ASSUME NEW h \in {"sync", "conf"}, limit_state(h) PROVE TimersKept'
    BY <1>15 DEF limit_state, give_up_now
  <1>16. ASSUME NEW h \in {"sync", "conf"}, limit_notify(h) PROVE TimersKept'
    BY <1>16 DEF limit_notify, rtk_notify_hw_h5_init_result
  <1>17. ASSUME NEW h \in {"sync", "conf"}, limit_stop(h) PROVE TimersKept'
    BY <1>17 DEF limit_stop
  <1>18. CASE UNCHANGED <<link_estab_state, sync_timer, conf_timer, pc, oks, fails>>
    BY <1>18
  <1>19. CASE \/ recv_sync \/ recv_conf \/ recv_ignored \/ sync_expires
              \/ conf_expires \/ ctrl_recv \/ ctrl_send \/ ctrl_restart
              \/ uart_loss
    BY <1>19, <1>18 DEF recv_sync, recv_conf, recv_ignored, sync_expires,
      conf_expires, ctrl_recv, ctrl_send, ctrl_restart, uart_loss
  <1> QED
    BY <1>1, <1>2, <1>3, <1>4, <1>5, <1>6, <1>7, <1>8, <1>9, <1>10, <1>11,
      <1>12, <1>13, <1>14, <1>15, <1>16, <1>17, <1>18, <1>19 DEF Next, Cmd,
      Rx, SyncHandler, ConfHandler, Handler, Controller, vars

\* From HCI_VSC_H5_INIT to the first result the request of the present state is
\* being repeated.
THEOREM Watch == Spec => []HandshakeWatched
  <1>1. Init => OkCounted /\ TimersKept
    BY DEF Init, OkCounted, TimersKept, Threads
  <1>2. TypeOK /\ OkCounted /\ TimersKept => HandshakeWatched
    BY DEF TypeOK, DataTypeOK, States, OkCounted, TimersKept, HandshakeWatched
  <1> QED
    BY <1>1, <1>2, OkStep, TimersStep, TypeCorrect, PTL DEF Spec

\* The invariant behind the three: results, hardware errors and state agree, no count runs ahead of
\* the requests sent, and no handler stops a timer that is still needed.
LEMMA EstablishCorrect == Spec => []EstablishInv
  <1>1. Init => EstablishInv
    BY DEF Init, EstablishInv, OkCounted, RequestsCounted, Counted, FailAfterLimit, TimersKept, Threads
  <1>2. TypeOK /\ EstablishInv /\ [Next]_vars => EstablishInv'
    BY OkStep, RequestsStep, TimersStep DEF EstablishInv
  <1> QED
    BY <1>1, <1>2, TypeCorrect, PTL DEF Spec
=============================================================================
