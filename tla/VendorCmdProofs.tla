-------------------------- MODULE VendorCmdProofs ---------------------------
(***************************************************************************)
(* Proofs about VendorCmd, for any number of threads and any bounds: the   *)
(* types, the invariant of the command server, that the server keeps to    *)
(* VendorServer, and that the service has one permit.                      *)
(***************************************************************************)
EXTENDS VendorCmd, TLAPS

Pcs == {"idle", "install", "xmit", "call", "post", "clear", "loop",
        "wait_queue", "wait_send", "pop", "submit", "arm", "exit"}

\* TypeOK in two parts: numbers, sequences and functions, ...
TypeData ==
  /\ coex_list \in Seq(Command)
  /\ cmdqueue \in Nat /\ cmdqueue_sem \in Nat /\ cmdsend_sem \in Nat
  /\ heartbeatCount \in Nat /\ nextSeqNum \in SeqNum
  /\ pc \in [Threads -> Pcs]
  /\ hand \in [Threads -> Command]
  /\ event \in Event
  /\ ctrl \in Seq(Command) /\ events \in Seq(Event)
  /\ ctrl_seq \in SeqNum
  /\ accepted \in Nat /\ sent \in Nat /\ answered \in Nat
  /\ coexes \in Nat /\ ticks \in Nat /\ opens \in Nat

\* ... and flags.
TypeFlags ==
  /\ coex_cmd_send \in BOOLEAN
  /\ current_cback \in Cback
  /\ cmdqueue_thread_running \in BOOLEAN /\ complete_cback \in BOOLEAN /\ reply_timer \in BOOLEAN
  /\ heartbeatFlag \in BOOLEAN /\ poll_timer \in BOOLEAN
  /\ hb \in {"idle", "due", "send", "flush"}
  /\ alarm \in {"none", "missing", "suspend", "reply"}
  /\ phase \in {"closed", "open", "stop", "join", "destroyed"}
  /\ alive \in BOOLEAN /\ held_over \in BOOLEAN

\* The two parts are TypeOK.
LEMMA TypeParts == TypeOK <=> TypeData /\ TypeFlags
  BY DEF TypeOK, TypeData, TypeFlags, Pcs

\* Sequence numbers are uint16_t and wrap.
LEMMA NextSeq == ASSUME NEW n \in SeqNum PROVE (n + 1) % SeqMod \in SeqNum
<1>1. SeqMod \in Nat
  BY DEF SeqMod
<1>2. n + 1 \in Int
  BY <1>1 DEF SeqNum
<1>3. \A k \in Int : k % SeqMod \in Int /\ k % SeqMod >= 0 /\ k % SeqMod < SeqMod
  BY DEF SeqMod
<1>4. (n + 1) % SeqMod \in Int /\ 0 <= (n + 1) % SeqMod /\ (n + 1) % SeqMod < SeqMod
  BY <1>2, <1>3
<1> QED
  BY <1>1, <1>4 DEF SeqNum

\* The numbers that open and Heartbeat_cleanup go back to.
LEMMA FirstSeq == 0 \in SeqNum /\ 1 \in SeqNum
  BY DEF SeqNum, SeqMod

\* Every thread has a place in the functions over Threads.
LEMMA Members == "svc" \in Threads /\ "evt" \in Threads /\ Callers \subseteq Threads
  BY DEF Threads

\* What taking the first element leaves.
LEMMA HeadTail ==
  ASSUME NEW S, NEW q \in Seq(S), q # << >>
  PROVE  Head(q) \in S /\ Tail(q) \in Seq(S) /\ Len(q) > 0 /\ Len(Tail(q)) = Len(q) - 1
  OBVIOUS

\* The flags keep their types.
LEMMA FlagsStep == TypeData /\ TypeFlags /\ [Next]_vars => TypeFlags'
  <1> SUFFICES ASSUME TypeData, TypeFlags, [Next]_vars PROVE TypeFlags'
    OBVIOUS
  <1> USE Members
  <1>1. ASSUME NEW t \in Threads, coex_command(t) PROVE TypeFlags'
    <2>1. coex_cmd_send' = TRUE \/ UNCHANGED coex_cmd_send
      BY <1>1, Zenon DEF coex_command, rtk_vendor_cmd_to_fw
    <2>2. coex_cmd_send' \in BOOLEAN
      BY <2>1, Zenon DEF TypeFlags
    <2>3. UNCHANGED <<current_cback, cmdqueue_thread_running, complete_cback, reply_timer, heartbeatFlag, poll_timer, hb, alarm, phase, alive, held_over>>
      BY <1>1 DEF coex_command, parse_vars, service_vars, heartbeat_vars, thread_vars, ctrl_vars, count_vars, bound_vars
    <2> QED
      BY <2>2, <2>3, SMTT(60) DEF TypeFlags
  <1>2. ASSUME NEW t \in Threads, install(t) PROVE TypeFlags'
    <2>1. current_cback' \in Cback
      BY <1>2 DEF install, TypeData, Command
    <2>2. UNCHANGED <<coex_cmd_send, cmdqueue_thread_running, complete_cback, reply_timer, heartbeatFlag, poll_timer, hb, alarm, phase, alive, held_over>>
      BY <1>2 DEF install, parse_vars, service_vars, heartbeat_vars, thread_vars, ctrl_vars, count_vars, bound_vars
    <2> QED
      BY <2>1, <2>2, SMTT(60) DEF TypeFlags
  <1>3. ASSUME NEW t \in Threads, xmit(t) PROVE TypeFlags'
    BY <1>3 DEF xmit, After, TypeFlags, Cback, parse_vars, service_vars, heartbeat_vars, thread_vars, ctrl_vars, count_vars, bound_vars
  <1>4. CASE complete_pop
    <2>1. coex_cmd_send' = FALSE \/ UNCHANGED coex_cmd_send
      BY <1>4, Zenon DEF complete_pop
    <2>2. coex_cmd_send' \in BOOLEAN
      BY <2>1, Zenon DEF TypeFlags
    <2>3. UNCHANGED <<current_cback, cmdqueue_thread_running, complete_cback, reply_timer, heartbeatFlag, poll_timer, hb, alarm, phase, alive, held_over>>
      BY <1>4 DEF complete_pop, parse_vars, service_vars, heartbeat_vars, thread_vars, ctrl_vars, count_vars, bound_vars
    <2> QED
      BY <2>2, <2>3, SMTT(60) DEF TypeFlags
  <1>5. CASE complete_untold
    BY <1>5 DEF complete_untold, AfterCall, TypeFlags, Cback, parse_vars, service_vars, heartbeat_vars, thread_vars, ctrl_vars, count_vars, bound_vars
  <1>6. CASE complete_call
    BY <1>6 DEF complete_call, rtkbt_heartbeat_cmpl_cback, raise, TypeFlags, Cback, parse_vars, service_vars, heartbeat_vars, thread_vars, ctrl_vars, count_vars, bound_vars
  <1>7. CASE complete_post
    <2>1. complete_cback' \in BOOLEAN /\ reply_timer' \in BOOLEAN
      BY <1>7, Zenon DEF complete_post
    <2>2. UNCHANGED <<coex_cmd_send, current_cback, cmdqueue_thread_running, heartbeatFlag, poll_timer, hb, alarm, phase, alive, held_over>>
      BY <1>7 DEF complete_post, parse_vars, service_vars, heartbeat_vars, thread_vars, ctrl_vars, count_vars, bound_vars
    <2> QED
      BY <2>1, <2>2, SMTT(60) DEF TypeFlags
  <1>8. CASE complete_clear
    BY <1>8 DEF complete_clear, AfterCall, TypeFlags, Cback, parse_vars, service_vars, heartbeat_vars, thread_vars, ctrl_vars, count_vars, bound_vars
  <1>9. CASE cmdready_loop
    BY <1>9 DEF cmdready_loop, svc_step, TypeFlags, Cback, parse_vars, service_vars, heartbeat_vars, thread_vars, ctrl_vars, count_vars, bound_vars
  <1>10. CASE cmdready_wait_queue
    BY <1>10 DEF cmdready_wait_queue, svc_step, TypeFlags, Cback, parse_vars, service_vars, heartbeat_vars, thread_vars, ctrl_vars, count_vars, bound_vars
  <1>11. CASE cmdready_wait_send
    BY <1>11 DEF cmdready_wait_send, svc_step, TypeFlags, Cback, parse_vars, service_vars, heartbeat_vars, thread_vars, ctrl_vars, count_vars, bound_vars
  <1>12. CASE cmdready_pop
    <2>1. complete_cback' = TRUE \/ UNCHANGED complete_cback
      BY <1>12, Zenon DEF cmdready_pop
    <2>2. complete_cback' \in BOOLEAN
      BY <2>1, Zenon DEF TypeFlags
    <2>3. UNCHANGED <<coex_cmd_send, current_cback, cmdqueue_thread_running, reply_timer, heartbeatFlag, poll_timer, hb, alarm, phase, alive, held_over>>
      BY <1>12 DEF cmdready_pop, parse_vars, service_vars, heartbeat_vars, thread_vars, ctrl_vars, count_vars, bound_vars
    <2> QED
      BY <2>2, <2>3, SMTT(60) DEF TypeFlags
  <1>13. CASE cmdready_submit
    <2>1. coex_cmd_send' = TRUE \/ UNCHANGED coex_cmd_send
      BY <1>13, Zenon DEF cmdready_submit, rtk_vendor_cmd_to_fw
    <2>2. coex_cmd_send' \in BOOLEAN
      BY <2>1, Zenon DEF TypeFlags
    <2>3. UNCHANGED <<current_cback, cmdqueue_thread_running, complete_cback, reply_timer, heartbeatFlag, poll_timer, hb, alarm, phase, alive, held_over>>
      BY <1>13 DEF cmdready_submit, parse_vars, service_vars, heartbeat_vars, thread_vars, ctrl_vars, count_vars, bound_vars
    <2> QED
      BY <2>2, <2>3, SMTT(60) DEF TypeFlags
  <1>14. CASE cmdready_arm
    BY <1>14 DEF cmdready_arm, svc_step, TypeFlags, Cback, parse_vars, service_vars, heartbeat_vars, thread_vars, ctrl_vars, count_vars, bound_vars
  <1>15. CASE heartbeat_timed_out
    BY <1>15 DEF heartbeat_timed_out, raise, TypeFlags, Cback, parse_vars, service_vars, heartbeat_vars, thread_vars, ctrl_vars, count_vars, bound_vars
  <1>16. CASE heartbeat_send
    BY <1>16 DEF heartbeat_send, Rtk_Service_Vendorcmd_Hook, TypeFlags, Cback, parse_vars, service_vars, heartbeat_vars, thread_vars, ctrl_vars, count_vars, bound_vars
  <1>17. CASE poll_timer_flush
    BY <1>17 DEF poll_timer_flush, TypeFlags, Cback, parse_vars, service_vars, heartbeat_vars, thread_vars, ctrl_vars, count_vars, bound_vars
  <1>18. CASE thread_stop
    <2>1. cmdqueue_thread_running' \in BOOLEAN /\ phase' = "join"
      BY <1>18, Zenon DEF thread_stop
    <2>2. UNCHANGED <<coex_cmd_send, current_cback, complete_cback, reply_timer, heartbeatFlag, poll_timer, hb, alarm, alive, held_over>>
      BY <1>18 DEF thread_stop, parse_vars, service_vars, heartbeat_vars, thread_vars, ctrl_vars, count_vars, bound_vars
    <2> QED
      BY <2>1, <2>2, SMTT(60) DEF TypeFlags
  <1>19. CASE RTK_btservice_destroyed
    <2>1. complete_cback' \in BOOLEAN /\ reply_timer' \in BOOLEAN /\ phase' = "destroyed"
      BY <1>19, Zenon DEF RTK_btservice_destroyed
    <2>2. UNCHANGED <<coex_cmd_send, current_cback, cmdqueue_thread_running, heartbeatFlag, poll_timer, hb, alarm, alive, held_over>>
      BY <1>19 DEF RTK_btservice_destroyed, parse_vars, service_vars, heartbeat_vars, thread_vars, ctrl_vars, count_vars, bound_vars
    <2> QED
      BY <2>1, <2>2, SMTT(60) DEF TypeFlags, Cback
  <1>20. CASE rtk_parse_cleanup
    <2>1. phase' = "closed" /\ current_cback' = "none"
      BY <1>20, Zenon DEF rtk_parse_cleanup
    <2>2. UNCHANGED <<coex_cmd_send, cmdqueue_thread_running, complete_cback, reply_timer, heartbeatFlag, poll_timer, hb, alarm, alive, held_over>>
      BY <1>20 DEF rtk_parse_cleanup, parse_vars, service_vars, heartbeat_vars, thread_vars, ctrl_vars, count_vars, bound_vars
    <2> QED
      BY <2>1, <2>2, SMTT(60) DEF TypeFlags, Cback
  <1>21. CASE Heartbeat_init
    <2>1. heartbeatFlag' \in BOOLEAN /\ poll_timer' \in BOOLEAN
      BY <1>21, Zenon DEF Heartbeat_init
    <2>2. UNCHANGED <<coex_cmd_send, current_cback, cmdqueue_thread_running, complete_cback, reply_timer, hb, alarm, phase, alive, held_over>>
      BY <1>21 DEF Heartbeat_init, parse_vars, service_vars, heartbeat_vars, thread_vars, ctrl_vars, count_vars, bound_vars
    <2> QED
      BY <2>1, <2>2, SMTT(60) DEF TypeFlags
  <1>22. CASE poll_timer_expires
    <2>1. poll_timer' \in BOOLEAN /\ hb' = "due"
      BY <1>22, Zenon DEF poll_timer_expires
    <2>2. UNCHANGED <<coex_cmd_send, current_cback, cmdqueue_thread_running, complete_cback, reply_timer, heartbeatFlag, alarm, phase, alive, held_over>>
      BY <1>22 DEF poll_timer_expires, parse_vars, service_vars, heartbeat_vars, thread_vars, ctrl_vars, count_vars, bound_vars
    <2> QED
      BY <2>1, <2>2, SMTT(60) DEF TypeFlags
  <1>23. CASE reply_timer_expires
    BY <1>23 DEF reply_timer_expires, raise, TypeFlags, Cback, parse_vars, service_vars, heartbeat_vars, thread_vars, ctrl_vars, count_vars, bound_vars
  <1>24. CASE ctrl_answers
    BY <1>24 DEF ctrl_answers, TypeFlags, Cback, parse_vars, service_vars, heartbeat_vars, thread_vars, ctrl_vars, count_vars, bound_vars
  <1>25. CASE ctrl_dies
    <2>1. alive' \in BOOLEAN
      BY <1>25, Zenon DEF ctrl_dies
    <2>2. UNCHANGED <<coex_cmd_send, current_cback, cmdqueue_thread_running, complete_cback, reply_timer, heartbeatFlag, poll_timer, hb, alarm, phase, held_over>>
      BY <1>25 DEF ctrl_dies, parse_vars, service_vars, heartbeat_vars, thread_vars, ctrl_vars, count_vars, bound_vars
    <2> QED
      BY <2>1, <2>2, SMTT(60) DEF TypeFlags
  <1>26. CASE open
    <2>1. /\ coex_cmd_send' \in BOOLEAN /\ held_over' \in BOOLEAN
          /\ cmdqueue_thread_running' \in BOOLEAN /\ complete_cback' \in BOOLEAN
          /\ reply_timer' \in BOOLEAN /\ alive' \in BOOLEAN
      BY <1>26, Zenon DEF open, TypeFlags
    <2>2. /\ current_cback' = "none" /\ alarm' = "none" /\ phase' = "open"
          /\ UNCHANGED <<heartbeatFlag, poll_timer, hb>>
      BY <1>26 DEF open
    <2> QED
      BY <2>1, <2>2, SMTT(60) DEF TypeFlags, Cback
  <1>27. CASE Heartbeat_cleanup
    <2>1. heartbeatFlag' \in BOOLEAN /\ poll_timer' \in BOOLEAN /\ phase' = "stop"
      BY <1>27, Zenon DEF Heartbeat_cleanup
    <2>2. UNCHANGED <<coex_cmd_send, current_cback, cmdqueue_thread_running, complete_cback, reply_timer, hb, alarm, alive, held_over>>
      BY <1>27 DEF Heartbeat_cleanup, parse_vars, service_vars, heartbeat_vars, thread_vars, ctrl_vars, count_vars, bound_vars
    <2> QED
      BY <2>1, <2>2, SMTT(60) DEF TypeFlags, Cback
  <1>28. CASE UNCHANGED vars
    BY <1>28 DEF TypeFlags, vars, parse_vars, service_vars, heartbeat_vars, thread_vars, ctrl_vars, count_vars, bound_vars
  <1>29. QED
    BY <1>1, <1>2, <1>3, <1>4, <1>5, <1>6, <1>7, <1>8, <1>9, <1>10, <1>11, <1>12, <1>13, <1>14, <1>15, <1>16, <1>17, <1>18, <1>19, <1>20, <1>21, <1>22, <1>23, <1>24, <1>25, <1>26, <1>27, <1>28 DEF Next, Caller, Evt, Svc, Handler, Close

\* rtk_vendor_cmd_to_fw sends the command at once or appends it.
LEMMA SubmitCases ==
  ASSUME NEW t, NEW cb, rtk_vendor_cmd_to_fw(t, cb)
  PROVE  LET c == [id |-> accepted + 1, cb |-> cb] IN
         /\ accepted' = accepted + 1
         /\ \/ /\ ~coex_cmd_send /\ coex_cmd_send' /\ UNCHANGED coex_list
               /\ hand' = [hand EXCEPT ![t] = c]
               /\ pc' = [pc EXCEPT ![t] = "install"]
            \/ /\ coex_cmd_send /\ UNCHANGED <<coex_cmd_send, hand>>
               /\ coex_list' = Append(coex_list, c)
               /\ pc' = [pc EXCEPT ![t] = IF t = "svc" THEN "arm" ELSE "idle"]
  BY Zenon DEF rtk_vendor_cmd_to_fw, After

\* In both cases the list, the hands and the program counters keep their types.
LEMMA SubmitTypes ==
  ASSUME TypeData, NEW t \in Threads, NEW cb \in Cback, rtk_vendor_cmd_to_fw(t, cb)
  PROVE  /\ accepted' \in Nat /\ coex_list' \in Seq(Command)
         /\ hand' \in [Threads -> Command] /\ pc' \in [Threads -> Pcs]
<1> DEFINE c == [id |-> accepted + 1, cb |-> cb]
<1>a. /\ accepted \in Nat /\ coex_list \in Seq(Command)
      /\ hand \in [Threads -> Command] /\ pc \in [Threads -> Pcs]
  BY DEF TypeData
<1>b. accepted' = accepted + 1
  BY SubmitCases, Zenon
<1>1. accepted' \in Nat /\ c \in Command
  BY <1>a, <1>b DEF Command
<1>2. \/ UNCHANGED coex_list /\ hand' = [hand EXCEPT ![t] = c]
      \/ UNCHANGED hand /\ coex_list' = Append(coex_list, c)
  BY SubmitCases, Zenon
<1>3. \E where \in Pcs : pc' = [pc EXCEPT ![t] = where]
  BY SubmitCases DEF Pcs
<1> HIDE DEF c
<1>4. coex_list' \in Seq(Command) /\ hand' \in [Threads -> Command]
  BY <1>1, <1>2, <1>a
<1>5. pc' \in [Threads -> Pcs]
  BY <1>3, <1>a
<1> QED
  BY <1>1, <1>4, <1>5

\* Numbers, sequences and functions keep their types.
LEMMA DataStep == TypeData /\ [Next]_vars => TypeData'
  <1> SUFFICES ASSUME TypeData, [Next]_vars PROVE TypeData'
    OBVIOUS
  <1>a. /\ coex_list \in Seq(Command) /\ ctrl \in Seq(Command)
        /\ hand \in [Threads -> Command] /\ pc \in [Threads -> Pcs]
        /\ events \in Seq(Event)
        /\ answered \in Nat
    BY DEF TypeData
  <1> USE Members
  <1>1. ASSUME NEW t \in Threads, coex_command(t) PROVE TypeData'
    <2>1. rtk_vendor_cmd_to_fw(t, "none") /\ coexes' = coexes + 1
      BY <1>1 DEF coex_command
    <2>2. UNCHANGED <<cmdqueue, cmdqueue_sem, cmdsend_sem, heartbeatCount, nextSeqNum, event, ctrl, events, ctrl_seq, sent, answered, ticks, opens>>
      BY <1>1 DEF coex_command, parse_vars, service_vars, heartbeat_vars, thread_vars, ctrl_vars, count_vars, bound_vars
    <2>3. "none" \in Cback
      BY DEF Cback
    <2> QED
      BY <2>1, <2>2, <2>3, SubmitTypes DEF TypeData
  <1>2. ASSUME NEW t \in Threads, install(t) PROVE TypeData'
    BY <1>2, NextSeq DEF install, TypeData, Command, None, NoEvent, Cback, Pcs, parse_vars, service_vars, heartbeat_vars, thread_vars, ctrl_vars, count_vars, bound_vars
  <1>3. ASSUME NEW t \in Threads, xmit(t) PROVE TypeData'
    BY <1>3, NextSeq DEF xmit, After, TypeData, Command, None, NoEvent, Cback, Pcs, parse_vars, service_vars, heartbeat_vars, thread_vars, ctrl_vars, count_vars, bound_vars
  <1>4. CASE complete_pop
    <2>1. events # << >> /\ event' = Head(events) /\ events' = Tail(events) /\ pc' = [pc EXCEPT !["evt"] = "call"]
      BY <1>4, Zenon DEF complete_pop
    <2>2. event' \in Event /\ events' \in Seq(Event) 
      BY <2>1, <1>a, HeadTail
    <2>p. pc' \in [Threads -> Pcs]
      BY <2>1, <1>a DEF Pcs
    <2>3. \/ UNCHANGED <<coex_list, hand>>
          \/ coex_list # << >> /\ hand' = [hand EXCEPT !["evt"] = Head(coex_list)] /\ coex_list' = Tail(coex_list)
      BY <1>4, Zenon DEF complete_pop
    <2>4. coex_list' \in Seq(Command) /\ hand' \in [Threads -> Command]
      <3>1. CASE UNCHANGED <<coex_list, hand>>
        BY <3>1, <1>a
      <3>2. CASE coex_list # << >> /\ hand' = [hand EXCEPT !["evt"] = Head(coex_list)] /\ coex_list' = Tail(coex_list)
        <4>1. Head(coex_list) \in Command /\ Tail(coex_list) \in Seq(Command)
          BY <3>2, <1>a, HeadTail
        <4> QED
          BY <4>1, <3>2, <1>a
      <3> QED
        BY <2>3, <3>1, <3>2
    <2>5. UNCHANGED <<cmdqueue, cmdqueue_sem, cmdsend_sem, heartbeatCount, nextSeqNum, ctrl, ctrl_seq, accepted, sent, answered, coexes, ticks, opens>>
      BY <1>4 DEF complete_pop, parse_vars, service_vars, heartbeat_vars, thread_vars, ctrl_vars, count_vars, bound_vars
    <2> QED
      BY <2>2, <2>p, <2>4, <2>5 DEF TypeData
  <1>5. CASE complete_untold
    BY <1>5, NextSeq, FirstSeq DEF complete_untold, AfterCall, Event, TypeData, Command, None, NoEvent, Cback, Pcs, parse_vars, service_vars, heartbeat_vars, thread_vars, ctrl_vars, count_vars, bound_vars
  <1>6. CASE complete_call
    BY <1>6, NextSeq, FirstSeq DEF complete_call, rtkbt_heartbeat_cmpl_cback, raise, Event, TypeData, Command, None, NoEvent, Cback, Pcs, parse_vars, service_vars, heartbeat_vars, thread_vars, ctrl_vars, count_vars, bound_vars
  <1>7. CASE complete_post
    BY <1>7, NextSeq DEF complete_post, TypeData, Command, None, NoEvent, Cback, Pcs, parse_vars, service_vars, heartbeat_vars, thread_vars, ctrl_vars, count_vars, bound_vars
  <1>8. CASE complete_clear
    BY <1>8, NextSeq DEF complete_clear, AfterCall, TypeData, Command, None, NoEvent, Cback, Pcs, parse_vars, service_vars, heartbeat_vars, thread_vars, ctrl_vars, count_vars, bound_vars
  <1>9. CASE cmdready_loop
    BY <1>9, NextSeq DEF cmdready_loop, svc_step, TypeData, Command, None, NoEvent, Cback, Pcs, parse_vars, service_vars, heartbeat_vars, thread_vars, ctrl_vars, count_vars, bound_vars
  <1>10. CASE cmdready_wait_queue
    BY <1>10, NextSeq DEF cmdready_wait_queue, svc_step, TypeData, Command, None, NoEvent, Cback, Pcs, parse_vars, service_vars, heartbeat_vars, thread_vars, ctrl_vars, count_vars, bound_vars
  <1>11. CASE cmdready_wait_send
    BY <1>11, NextSeq DEF cmdready_wait_send, svc_step, TypeData, Command, None, NoEvent, Cback, Pcs, parse_vars, service_vars, heartbeat_vars, thread_vars, ctrl_vars, count_vars, bound_vars
  <1>12. CASE cmdready_pop
    <2>1. \/ UNCHANGED cmdqueue /\ pc' = [pc EXCEPT !["svc"] = "loop"]
          \/ cmdqueue > 0 /\ cmdqueue' = cmdqueue - 1 /\ pc' = [pc EXCEPT !["svc"] = "submit"]
      BY <1>12, Zenon DEF cmdready_pop, svc_step
    <2>2. cmdqueue' \in Nat
      BY <2>1 DEF TypeData
    <2>3. pc' \in [Threads -> Pcs]
      BY <2>1 DEF TypeData, Pcs
    <2>4. UNCHANGED <<coex_list, cmdqueue_sem, cmdsend_sem, heartbeatCount, nextSeqNum, hand, event, ctrl, events, ctrl_seq, accepted, sent, answered, coexes, ticks, opens>>
      BY <1>12 DEF cmdready_pop, parse_vars, service_vars, heartbeat_vars, thread_vars, ctrl_vars, count_vars, bound_vars
    <2> QED
      BY <2>2, <2>3, <2>4 DEF TypeData
  <1>13. CASE cmdready_submit
    <2>1. rtk_vendor_cmd_to_fw("svc", "svc")
      BY <1>13 DEF cmdready_submit
    <2>2. UNCHANGED <<cmdqueue, cmdqueue_sem, cmdsend_sem, heartbeatCount, nextSeqNum, event, ctrl, events, ctrl_seq, sent, answered, coexes, ticks, opens>>
      BY <1>13 DEF cmdready_submit, parse_vars, service_vars, heartbeat_vars, thread_vars, ctrl_vars, count_vars, bound_vars
    <2>3. "svc" \in Cback
      BY DEF Cback
    <2> QED
      BY <2>1, <2>2, <2>3, SubmitTypes DEF TypeData
  <1>14. CASE cmdready_arm
    BY <1>14, NextSeq DEF cmdready_arm, svc_step, TypeData, Command, None, NoEvent, Cback, Pcs, parse_vars, service_vars, heartbeat_vars, thread_vars, ctrl_vars, count_vars, bound_vars
  <1>15. CASE heartbeat_timed_out
    BY <1>15, NextSeq DEF heartbeat_timed_out, raise, TypeData, Command, None, NoEvent, Cback, Pcs, parse_vars, service_vars, heartbeat_vars, thread_vars, ctrl_vars, count_vars, bound_vars
  <1>16. CASE heartbeat_send
    BY <1>16, NextSeq DEF heartbeat_send, Rtk_Service_Vendorcmd_Hook, TypeData, Command, None, NoEvent, Cback, Pcs, parse_vars, service_vars, heartbeat_vars, thread_vars, ctrl_vars, count_vars, bound_vars
  <1>17. CASE poll_timer_flush
    BY <1>17, NextSeq DEF poll_timer_flush, TypeData, Command, None, NoEvent, Cback, Pcs, parse_vars, service_vars, heartbeat_vars, thread_vars, ctrl_vars, count_vars, bound_vars
  <1>18. CASE thread_stop
    BY <1>18, NextSeq DEF thread_stop, TypeData, Command, None, NoEvent, Cback, Pcs, parse_vars, service_vars, heartbeat_vars, thread_vars, ctrl_vars, count_vars, bound_vars
  <1>19. CASE RTK_btservice_destroyed
    BY <1>19, NextSeq DEF RTK_btservice_destroyed, TypeData, Command, None, NoEvent, Cback, Pcs, parse_vars, service_vars, heartbeat_vars, thread_vars, ctrl_vars, count_vars, bound_vars
  <1>20. CASE rtk_parse_cleanup
    BY <1>20, NextSeq DEF rtk_parse_cleanup, TypeData, Command, None, NoEvent, Cback, Pcs, parse_vars, service_vars, heartbeat_vars, thread_vars, ctrl_vars, count_vars, bound_vars
  <1>21. CASE Heartbeat_init
    BY <1>21, NextSeq DEF Heartbeat_init, Rtk_Service_Vendorcmd_Hook, TypeData, Command, None, NoEvent, Cback, Pcs, parse_vars, service_vars, heartbeat_vars, thread_vars, ctrl_vars, count_vars, bound_vars
  <1>22. CASE poll_timer_expires
    BY <1>22, NextSeq DEF poll_timer_expires, TypeData, Command, None, NoEvent, Cback, Pcs, parse_vars, service_vars, heartbeat_vars, thread_vars, ctrl_vars, count_vars, bound_vars
  <1>23. CASE reply_timer_expires
    BY <1>23, NextSeq DEF reply_timer_expires, raise, TypeData, Command, None, NoEvent, Cback, Pcs, parse_vars, service_vars, heartbeat_vars, thread_vars, ctrl_vars, count_vars, bound_vars
  <1>24. CASE ctrl_answers
    <2>1. PICK n \in SeqNum : ctrl_seq' = n /\ events' = Append(events, [cb |-> Head(ctrl).cb, seq |-> n])
      BY <1>24, NextSeq DEF ctrl_answers, TypeData
    <2>2. ctrl # << >> /\ ctrl' = Tail(ctrl) /\ answered' = answered + 1
      BY <1>24 DEF ctrl_answers
    <2>h. Head(ctrl) \in Command /\ ctrl' \in Seq(Command)
      BY <2>2, <1>a
    <2>3. Head(ctrl).cb \in Cback /\ ctrl' \in Seq(Command) /\ answered' \in Nat
      BY <2>2, <2>h, <1>a DEF Command
    <2>4. [cb |-> Head(ctrl).cb, seq |-> n] \in Event
      BY <2>3 DEF Event
    <2>5. events' \in Seq(Event) /\ ctrl_seq' \in SeqNum
      BY <2>1, <2>4 DEF TypeData
    <2>6. UNCHANGED <<coex_list, cmdqueue, cmdqueue_sem, cmdsend_sem, heartbeatCount, nextSeqNum, pc, hand, event, accepted, sent, coexes, ticks, opens>>
      BY <1>24 DEF ctrl_answers, parse_vars, service_vars, heartbeat_vars, thread_vars, ctrl_vars, count_vars, bound_vars
    <2> QED
      BY <2>3, <2>5, <2>6 DEF TypeData
  <1>25. CASE ctrl_dies
    BY <1>25, NextSeq DEF ctrl_dies, TypeData, Command, None, NoEvent, Cback, Pcs, parse_vars, service_vars, heartbeat_vars, thread_vars, ctrl_vars, count_vars, bound_vars
  <1>26. CASE open
    <2>1. /\ coex_list' = << >> /\ cmdqueue' = 0 /\ cmdqueue_sem' = 0 /\ cmdsend_sem' = 1
          /\ pc' = [pc EXCEPT !["svc"] = "loop"] /\ ctrl_seq' = 0 /\ opens' = opens + 1
      BY <1>26, Zenon DEF open
    <2>2. UNCHANGED <<heartbeatCount, nextSeqNum, hand, event, ctrl, events, accepted, sent, answered, coexes, ticks>>
      BY <1>26 DEF open, parse_vars, service_vars, heartbeat_vars, thread_vars, ctrl_vars, count_vars, bound_vars
    <2>3. coex_list' \in Seq(Command) /\ pc' \in [Threads -> Pcs]
      BY <2>1 DEF TypeData, Pcs
    <2> QED
      BY <2>1, <2>2, <2>3, FirstSeq DEF TypeData
  <1>27. CASE Heartbeat_cleanup
    <2>1. nextSeqNum' \in {1, nextSeqNum} /\ heartbeatCount' \in {0, heartbeatCount}
      BY <1>27 DEF Heartbeat_cleanup
    <2>2. UNCHANGED <<coex_list, cmdqueue, cmdqueue_sem, cmdsend_sem, pc, hand, event, ctrl, events, ctrl_seq, accepted, sent, answered, coexes, ticks, opens>>
      BY <1>27 DEF Heartbeat_cleanup, parse_vars, service_vars, heartbeat_vars, thread_vars, ctrl_vars, count_vars, bound_vars
    <2> QED
      BY <2>1, <2>2, FirstSeq DEF TypeData
  <1>28. CASE UNCHANGED vars
    BY <1>28 DEF TypeData, Pcs, vars, parse_vars, service_vars, heartbeat_vars, thread_vars, ctrl_vars, count_vars, bound_vars
  <1>29. QED
    BY <1>1, <1>2, <1>3, <1>4, <1>5, <1>6, <1>7, <1>8, <1>9, <1>10, <1>11, <1>12, <1>13, <1>14, <1>15, <1>16, <1>17, <1>18, <1>19, <1>20, <1>21, <1>22, <1>23, <1>24, <1>25, <1>26, <1>27, <1>28 DEF Next, Caller, Evt, Svc, Handler, Close

\* TypeOK holds in every reachable state, for all threads, commands and bounds.
THEOREM TypeCorrect == Spec => []TypeOK
<1>1. Init => TypeFlags
  BY DEF Init, TypeFlags, Cback
<1>2. Init => TypeData
  <2> SUFFICES ASSUME Init PROVE TypeData
    OBVIOUS
  <2>1. pc \in [Threads -> Pcs]
    BY DEF Init, Pcs
  <2>2. hand \in [Threads -> Command] /\ event \in Event
    BY FirstSeq DEF Event, Init, Command, None, NoEvent, Cback
  <2>3. coex_list = << >> /\ ctrl = << >> /\ events = << >>
    BY DEF Init
  <2>4. /\ cmdqueue = 0 /\ cmdqueue_sem = 0 /\ cmdsend_sem = 0 /\ heartbeatCount = 0
        /\ nextSeqNum = 1 /\ ctrl_seq = 0 /\ accepted = 0 /\ sent = 0 /\ answered = 0
        /\ coexes = 0 /\ ticks = 0 /\ opens = 0
    BY DEF Init
  <2> QED
    BY <2>1, <2>2, <2>3, <2>4, FirstSeq DEF TypeData
<1>3. Spec => [](TypeData /\ TypeFlags)
  BY <1>1, <1>2, FlagsStep, DataStep, PTL DEF Spec
<1> QED
  BY <1>3, TypeParts, PTL

-----------------------------------------------------------------------------
(* The command server.                                                     *)

server_vars == <<coex_cmd_send, coex_list, hand, ctrl, events, accepted, sent, answered>>

\* The part of ServerInv that does not mention program counters.
Core == Waiting /\ InHand /\ NoneInHand /\ Free /\ OnePlace

\* A step that touches none of its variables keeps it.
LEMMA CoreSame == ASSUME Core, UNCHANGED server_vars PROVE Core'
  BY DEF Core, server_vars, Waiting, InHand, NoneInHand, Free, OnePlace, Holds

\* The facts about the data that the steps below use.
LEMMA CoreTypes ==
  ASSUME TypeData
  PROVE  /\ accepted \in Nat /\ sent \in Nat /\ answered \in Nat
         /\ coex_list \in Seq(Command) /\ ctrl \in Seq(Command) /\ events \in Seq(Event)
         /\ hand \in [Threads -> Command] /\ pc \in [Threads -> Pcs]
         /\ \A t \in Threads : hand[t].id \in Nat /\ hand[t] \in Command
<1>1. /\ accepted \in Nat /\ sent \in Nat /\ answered \in Nat
      /\ coex_list \in Seq(Command) /\ ctrl \in Seq(Command) /\ events \in Seq(Event)
      /\ hand \in [Threads -> Command] /\ pc \in [Threads -> Pcs]
  BY DEF TypeData
<1>2. \A t \in Threads : hand[t].id \in Nat /\ hand[t] \in Command
  BY <1>1 DEF Command
<1> QED
  BY <1>1, <1>2

\* While an answer or a command is outside, nobody holds a command.
LEMMA OutsideAlone ==
  ASSUME Core, ctrl # << >> \/ events # << >>
  PROVE  coex_cmd_send /\ \A t \in Threads : ~Holds(t)
  BY DEF Core, InHand, Free

\* A command that finds the server free is the only one.
LEMMA CoreSendNow ==
  ASSUME TypeData, Core, NEW t \in Threads, NEW cb \in Cback, ~coex_cmd_send, coex_cmd_send',
         hand' = [hand EXCEPT ![t] = [id |-> accepted + 1, cb |-> cb]],
         accepted' = accepted + 1,
         UNCHANGED <<coex_list, ctrl, events, sent, answered>>
  PROVE  Core'
<1>1. coex_list = << >> /\ ctrl = << >> /\ events = << >> /\ \A u \in Threads : ~Holds(u)
  BY DEF Core, Free
<1>2. accepted = sent /\ answered = sent
  <2>1. accepted = sent + Len(coex_list) /\ answered + Len(ctrl) = sent
    BY <1>1 DEF Core, NoneInHand, OnePlace
  <2> QED
    BY <2>1, <1>1, CoreTypes
<1>3. hand'[t].id = sent + 1 /\ \A u \in Threads \ {t} : hand'[u].id = 0
  BY <1>1, <1>2, CoreTypes DEF Holds
<1>4. \A u \in Threads : Holds(u)' => u = t
  BY <1>3 DEF Holds
<1>5. Holds(t)'
  BY <1>3, CoreTypes DEF Holds
<1>6. accepted' = sent' + 1 + Len(coex_list')
  BY <1>1, <1>2, CoreTypes
<1>7. Waiting' /\ OnePlace'
  BY <1>1 DEF Core, Waiting, OnePlace
<1>8. InHand'
  BY <1>1, <1>3, <1>4, <1>6 DEF InHand
<1>9. NoneInHand' /\ Free'
  BY <1>5 DEF NoneInHand, Free
<1> QED
  BY <1>7, <1>8, <1>9 DEF Core

\* A command that finds it busy is the last one of the list.
LEMMA CoreEnqueue ==
  ASSUME TypeData, Core, NEW cb \in Cback, coex_cmd_send,
         coex_list' = Append(coex_list, [id |-> accepted + 1, cb |-> cb]),
         accepted' = accepted + 1,
         UNCHANGED <<coex_cmd_send, hand, ctrl, events, sent, answered>>
  PROVE  Core'
<1> DEFINE c == [id |-> accepted + 1, cb |-> cb]
<1>1. c \in Command /\ c.id = accepted + 1
  BY CoreTypes DEF Command
<1> HIDE DEF c
<1>2. coex_list' = Append(coex_list, c)
  BY DEF c
<1>3. Len(coex_list') = Len(coex_list) + 1 /\ coex_list'[Len(coex_list) + 1] = c
      /\ \A i \in 1..Len(coex_list) : coex_list'[i] = coex_list[i]
  BY <1>1, <1>2, CoreTypes
<1>4. Len(coex_list) \in Nat
  BY CoreTypes
<1>5. Waiting'
  <2> SUFFICES ASSUME NEW i \in 1..Len(coex_list')
               PROVE  coex_list'[i].id = accepted' - Len(coex_list') + i
    BY DEF Waiting
  <2>1. CASE i = Len(coex_list) + 1
    BY <2>1, <1>1, <1>3, <1>4, CoreTypes
  <2>2. CASE i \in 1..Len(coex_list)
    <3>1. coex_list'[i].id = accepted - Len(coex_list) + i
      BY <2>2, <1>3 DEF Core, Waiting
    <3> QED
      BY <3>1, <1>3, <1>4, CoreTypes
  <2> QED
    BY <2>1, <2>2, <1>3, <1>4
<1>6. InHand'
  <2> SUFFICES ASSUME NEW t \in Threads, Holds(t)
               PROVE  /\ coex_cmd_send /\ ctrl = << >> /\ events = << >>
                      /\ hand[t].id = sent + 1
                      /\ accepted' = sent + 1 + Len(coex_list')
                      /\ \A u \in Threads : Holds(u) => u = t
    <3>1. UNCHANGED <<coex_cmd_send, hand, ctrl, events, sent>>
      OBVIOUS
    <3> QED
      BY <3>1 DEF InHand, Holds
  <2>1. /\ ctrl = << >> /\ events = << >> /\ hand[t].id = sent + 1
        /\ accepted = sent + 1 + Len(coex_list)
        /\ \A u \in Threads : Holds(u) => u = t
    BY DEF Core, InHand
  <2>a. accepted = sent + 1 + Len(coex_list) /\ Len(coex_list') = Len(coex_list) + 1
    BY <2>1, <1>3
  <2>2. accepted' = sent + 1 + Len(coex_list')
    <3>1. accepted' = accepted + 1 /\ accepted \in Nat /\ sent \in Nat
      BY CoreTypes
    <3> QED
      BY <3>1, <2>a, <1>4
  <2> QED
    BY <2>1, <2>2
<1>7. NoneInHand'
  <2> SUFFICES ASSUME \A t \in Threads : ~Holds(t) PROVE accepted' = sent + Len(coex_list')
    BY DEF NoneInHand, Holds
  <2>1. accepted = sent + Len(coex_list)
    BY DEF Core, NoneInHand
  <2> QED
    BY <2>1, <1>3, <1>4, CoreTypes
<1>8. Free' /\ OnePlace'
  BY DEF Core, Free, OnePlace
<1> QED
  BY <1>5, <1>6, <1>7, <1>8 DEF Core

\* rtk_vendor_cmd_to_fw keeps Core.
LEMMA CoreSubmit ==
  ASSUME TypeData, Core, NEW t \in Threads, NEW cb \in Cback, rtk_vendor_cmd_to_fw(t, cb),
         UNCHANGED <<ctrl, events, sent, answered>>
  PROVE  Core'
<1> DEFINE c == [id |-> accepted + 1, cb |-> cb]
<1>1. accepted' = accepted + 1
  BY SubmitCases, Zenon
<1>2. CASE ~coex_cmd_send /\ coex_cmd_send' /\ UNCHANGED coex_list /\ hand' = [hand EXCEPT ![t] = c]
  BY <1>1, <1>2, CoreSendNow
<1>3. CASE coex_cmd_send /\ UNCHANGED <<coex_cmd_send, hand>> /\ coex_list' = Append(coex_list, c)
  BY <1>1, <1>3, CoreEnqueue
<1> QED
  BY <1>2, <1>3, SubmitCases, Zenon

\* Transmitting: the command of the hand is now with the controller.
LEMMA CoreXmit ==
  ASSUME TypeData, Core, NEW t \in Threads, Holds(t),
         ctrl' = Append(ctrl, hand[t]), sent' = hand[t].id, hand' = [hand EXCEPT ![t] = None],
         UNCHANGED <<coex_cmd_send, coex_list, events, accepted, answered>>
  PROVE  Core'
<1>1. /\ coex_cmd_send /\ ctrl = << >> /\ events = << >> /\ hand[t].id = sent + 1
      /\ accepted = sent + 1 + Len(coex_list)
      /\ \A u \in Threads : Holds(u) => u = t
  BY DEF Core, InHand
<1>2. answered = sent
  BY <1>1, CoreTypes DEF Core, OnePlace
<1>3. hand'[t].id = 0 /\ \A u \in Threads \ {t} : hand'[u] = hand[u]
  BY CoreTypes DEF None
<1>4. \A u \in Threads : ~Holds(u)'
  BY <1>1, <1>3 DEF Holds
<1>5. sent' = sent + 1 /\ accepted' = sent' + Len(coex_list')
  BY <1>1, CoreTypes
<1>6. Len(ctrl') = 1 /\ Len(events') = 0
  BY <1>1, CoreTypes
<1>7. OnePlace'
  BY <1>2, <1>5, <1>6, CoreTypes DEF OnePlace
<1>8. Waiting'
  BY DEF Core, Waiting
<1>9. InHand' /\ NoneInHand'
  BY <1>4, <1>5 DEF InHand, NoneInHand
<1>10. Free'
  BY <1>1 DEF Free
<1> QED
  BY <1>7, <1>8, <1>9, <1>10 DEF Core

\* An answer arrives: the next command of the list is taken ...
LEMMA CoreTake ==
  ASSUME TypeData, Core, events # << >>, coex_list # << >>, events' = Tail(events),
         hand' = [hand EXCEPT !["evt"] = Head(coex_list)], coex_list' = Tail(coex_list),
         UNCHANGED <<coex_cmd_send, ctrl, accepted, sent, answered>>
  PROVE  Core'
<1>1. coex_cmd_send /\ \A t \in Threads : ~Holds(t)
  BY OutsideAlone
<1>2. accepted = sent + Len(coex_list)
  BY <1>1 DEF Core, NoneInHand
<1>3. Len(coex_list) \in Nat /\ Len(coex_list) > 0 /\ Len(Tail(coex_list)) = Len(coex_list) - 1
      /\ Head(coex_list) = coex_list[1]
      /\ \A i \in 1..Len(Tail(coex_list)) : Tail(coex_list)[i] = coex_list[i + 1]
  BY CoreTypes
<1>4. ctrl = << >> /\ events' = << >>
  <2>1. Len(events) > 0 /\ Len(events) \in Nat /\ Len(ctrl) \in Nat /\ Len(Tail(events)) = Len(events) - 1
    BY CoreTypes
  <2>2. Len(ctrl) = 0 /\ Len(Tail(events)) = 0
    BY <2>1 DEF Core, OnePlace
  <2>3. Tail(events) \in Seq(Event)
    BY CoreTypes
  <2> QED
    BY <2>2, <2>3, CoreTypes
<1>5. hand'["evt"].id = sent + 1 /\ \A u \in Threads \ {"evt"} : hand'[u] = hand[u]
  <2>1. Head(coex_list).id = accepted - Len(coex_list) + 1
    BY <1>3 DEF Core, Waiting
  <2>2. hand' = [hand EXCEPT !["evt"] = Head(coex_list)] /\ hand \in [Threads -> Command] /\ "evt" \in Threads
    BY Members, CoreTypes
  <2>3. hand'["evt"] = Head(coex_list) /\ \A u \in Threads \ {"evt"} : hand'[u] = hand[u]
    BY <2>2
  <2> QED
    BY <2>1, <2>3, <1>2, <1>3, CoreTypes
<1>6. \A u \in Threads : Holds(u)' => u = "evt"
  BY <1>1, <1>5 DEF Holds
<1>7. accepted' = sent' + 1 + Len(coex_list')
  BY <1>2, <1>3, CoreTypes
<1>8. Waiting'
  <2> SUFFICES ASSUME NEW i \in 1..Len(coex_list')
               PROVE  coex_list'[i].id = accepted' - Len(coex_list') + i
    BY DEF Waiting
  <2>1. coex_list'[i] = coex_list[i + 1] /\ i + 1 \in 1..Len(coex_list)
    BY <1>3
  <2>2. coex_list[i + 1].id = accepted - Len(coex_list) + (i + 1)
    BY <2>1 DEF Core, Waiting
  <2> QED
    BY <2>1, <2>2, <1>3, CoreTypes
<1>9. InHand'
  BY <1>1, <1>4, <1>5, <1>6, <1>7 DEF InHand
<1>10. Holds("evt")'
  BY <1>5, CoreTypes DEF Holds
<1>11. NoneInHand'
  BY <1>10, Members DEF NoneInHand
<1>12. Free'
  BY <1>1 DEF Free
<1>13. OnePlace'
  BY <1>4 DEF Core, OnePlace
<1> QED
  BY <1>8, <1>9, <1>11, <1>12, <1>13 DEF Core

\* ... or, with an empty list, the server is free.
LEMMA CoreRelease ==
  ASSUME TypeData, Core, events # << >>, coex_list = << >>, events' = Tail(events), ~coex_cmd_send',
         UNCHANGED <<coex_list, hand, ctrl, accepted, sent, answered>>
  PROVE  Core'
<1>1. \A t \in Threads : ~Holds(t)
  BY OutsideAlone
<1>2. \A t \in Threads : ~Holds(t)'
  BY <1>1 DEF Holds
<1>3. ctrl = << >> /\ events' = << >>
  <2>1. Len(events) > 0 /\ Len(events) \in Nat /\ Len(ctrl) \in Nat /\ Len(Tail(events)) = Len(events) - 1
    BY CoreTypes
  <2>2. Len(ctrl) = 0 /\ Len(Tail(events)) = 0
    BY <2>1 DEF Core, OnePlace
  <2>3. Tail(events) \in Seq(Event)
    BY CoreTypes
  <2> QED
    BY <2>2, <2>3, CoreTypes
<1>4. accepted' = sent' + Len(coex_list')
  BY <1>1 DEF Core, NoneInHand
<1>5. Waiting' /\ OnePlace'
  BY <1>3 DEF Core, Waiting, OnePlace
<1>6. InHand' /\ NoneInHand'
  BY <1>2, <1>4 DEF InHand, NoneInHand
<1>7. Free'
  BY <1>2, <1>3 DEF Free
<1> QED
  BY <1>5, <1>6, <1>7 DEF Core

\* The controller answers.
LEMMA CoreAnswer ==
  ASSUME TypeData, Core, ctrl # << >>, ctrl' = Tail(ctrl), NEW e \in Event,
         events' = Append(events, e), answered' = answered + 1,
         UNCHANGED <<coex_cmd_send, coex_list, hand, accepted, sent>>
  PROVE  Core'
<1>1. coex_cmd_send /\ \A t \in Threads : ~Holds(t)
  BY OutsideAlone
<1>2. \A t \in Threads : ~Holds(t)'
  BY <1>1 DEF Holds
<1>3. /\ Len(ctrl) \in Nat /\ Len(ctrl') = Len(ctrl) - 1
      /\ Len(events) \in Nat /\ Len(events') = Len(events) + 1
  BY CoreTypes
<1>4. OnePlace'
  BY <1>3, CoreTypes DEF Core, OnePlace
<1>5. accepted' = sent' + Len(coex_list')
  BY <1>1 DEF Core, NoneInHand
<1>6. InHand' /\ NoneInHand'
  BY <1>2, <1>5 DEF InHand, NoneInHand
<1>7. Waiting' /\ Free'
  BY <1>1 DEF Core, Waiting, Free
<1> QED
  BY <1>4, <1>6, <1>7 DEF Core

\* rtk_parse_cleanup, with nobody in between.
LEMMA CoreForget ==
  ASSUME TypeData, Core, \A t \in Threads : ~Holds(t),
         coex_list' = << >>, ctrl' = << >>, events' = << >>,
         accepted' = 0, sent' = 0, answered' = 0, UNCHANGED <<coex_cmd_send, hand>>
  PROVE  Core'
<1>1. \A t \in Threads : ~Holds(t)'
  BY DEF Holds
<1>2. InHand' /\ Free'
  BY <1>1 DEF InHand, Free
<1>3. Len(coex_list') = 0 /\ Len(ctrl') = 0 /\ Len(events') = 0
  OBVIOUS
<1>4. NoneInHand' /\ OnePlace'
  BY <1>3, CoreTypes DEF NoneInHand, OnePlace
<1>5. Waiting'
  BY <1>3 DEF Waiting
<1> QED
  BY <1>2, <1>4, <1>5 DEF Core

\* Core is kept by every step.
LEMMA CoreStep ==
  ASSUME TypeData, Core, Counters, Emptied, [Next]_vars
  PROVE  Core'
<1> USE Members
<1>1. ASSUME NEW t \in Threads, coex_command(t) PROVE Core'
  <2>1. rtk_vendor_cmd_to_fw(t, "none") /\ "none" \in Cback
    BY <1>1 DEF coex_command, Cback
  <2>2. UNCHANGED <<ctrl, events, sent, answered>>
    BY <1>1 DEF coex_command, ctrl_vars
  <2> QED
    BY <2>1, <2>2, CoreSubmit
<1>2. ASSUME NEW t \in Threads, install(t) PROVE Core'
  <2>1. UNCHANGED server_vars
    BY <1>2 DEF install, server_vars, parse_vars, service_vars, heartbeat_vars, thread_vars, ctrl_vars, count_vars, bound_vars
  <2> QED
    BY <2>1, CoreSame
<1>3. ASSUME NEW t \in Threads, xmit(t) PROVE Core'
  <2>1. Holds(t)
    BY <1>3 DEF xmit, Counters
  <2>2. UNCHANGED <<coex_cmd_send, coex_list, events, accepted, answered>>
    BY <1>3 DEF xmit, parse_vars
  <2>3. ctrl' = Append(ctrl, hand[t]) /\ sent' = hand[t].id /\ hand' = [hand EXCEPT ![t] = None]
    BY <1>3 DEF xmit
  <2> QED
    BY <2>1, <2>2, <2>3, CoreXmit
<1>4. CASE complete_pop
  <2>1. events # << >> /\ events' = Tail(events)
    BY <1>4, Zenon DEF complete_pop
  <2>2. UNCHANGED <<ctrl, accepted, sent, answered>>
    BY <1>4 DEF complete_pop, count_vars
  <2>3. CASE /\ coex_list # << >> /\ hand' = [hand EXCEPT !["evt"] = Head(coex_list)]
             /\ coex_list' = Tail(coex_list) /\ UNCHANGED coex_cmd_send
    BY <2>1, <2>2, <2>3, CoreTake
  <2>4. CASE coex_list = << >> /\ ~coex_cmd_send' /\ UNCHANGED <<coex_list, hand>>
    BY <2>1, <2>2, <2>4, CoreRelease
  <2> QED
    BY <1>4, <2>3, <2>4, Zenon DEF complete_pop
<1>5. CASE complete_untold
  <2>1. UNCHANGED server_vars
    BY <1>5 DEF complete_untold, AfterCall, server_vars, parse_vars, service_vars, heartbeat_vars, thread_vars, ctrl_vars, count_vars, bound_vars
  <2> QED
    BY <2>1, CoreSame
<1>6. CASE complete_call
  <2>1. UNCHANGED server_vars
    BY <1>6 DEF complete_call, rtkbt_heartbeat_cmpl_cback, raise, server_vars, parse_vars, service_vars, heartbeat_vars, thread_vars, ctrl_vars, count_vars, bound_vars
  <2> QED
    BY <2>1, CoreSame
<1>7. CASE complete_post
  <2>1. UNCHANGED server_vars
    BY <1>7 DEF complete_post, server_vars, parse_vars, service_vars, heartbeat_vars, thread_vars, ctrl_vars, count_vars, bound_vars
  <2> QED
    BY <2>1, CoreSame
<1>8. CASE complete_clear
  <2>1. UNCHANGED server_vars
    BY <1>8 DEF complete_clear, AfterCall, server_vars, parse_vars, service_vars, heartbeat_vars, thread_vars, ctrl_vars, count_vars, bound_vars
  <2> QED
    BY <2>1, CoreSame
<1>9. CASE cmdready_loop
  <2>1. UNCHANGED server_vars
    BY <1>9 DEF cmdready_loop, svc_step, server_vars, parse_vars, service_vars, heartbeat_vars, thread_vars, ctrl_vars, count_vars, bound_vars
  <2> QED
    BY <2>1, CoreSame
<1>10. CASE cmdready_wait_queue
  <2>1. UNCHANGED server_vars
    BY <1>10 DEF cmdready_wait_queue, svc_step, server_vars, parse_vars, service_vars, heartbeat_vars, thread_vars, ctrl_vars, count_vars, bound_vars
  <2> QED
    BY <2>1, CoreSame
<1>11. CASE cmdready_wait_send
  <2>1. UNCHANGED server_vars
    BY <1>11 DEF cmdready_wait_send, svc_step, server_vars, parse_vars, service_vars, heartbeat_vars, thread_vars, ctrl_vars, count_vars, bound_vars
  <2> QED
    BY <2>1, CoreSame
<1>12. CASE cmdready_pop
  <2>1. UNCHANGED server_vars
    BY <1>12 DEF cmdready_pop, svc_step, server_vars, parse_vars, service_vars, heartbeat_vars, thread_vars, ctrl_vars, count_vars, bound_vars
  <2> QED
    BY <2>1, CoreSame
<1>13. CASE cmdready_submit
  <2>1. rtk_vendor_cmd_to_fw("svc", "svc") /\ "svc" \in Cback
    BY <1>13 DEF cmdready_submit, Cback
  <2>2. UNCHANGED <<ctrl, events, sent, answered>>
    BY <1>13 DEF cmdready_submit, ctrl_vars
  <2> QED
    BY <2>1, <2>2, CoreSubmit, Members
<1>14. CASE cmdready_arm
  <2>1. UNCHANGED server_vars
    BY <1>14 DEF cmdready_arm, svc_step, server_vars, parse_vars, service_vars, heartbeat_vars, thread_vars, ctrl_vars, count_vars, bound_vars
  <2> QED
    BY <2>1, CoreSame
<1>15. CASE heartbeat_timed_out
  <2>1. UNCHANGED server_vars
    BY <1>15 DEF heartbeat_timed_out, raise, server_vars, parse_vars, service_vars, heartbeat_vars, thread_vars, ctrl_vars, count_vars, bound_vars
  <2> QED
    BY <2>1, CoreSame
<1>16. CASE heartbeat_send
  <2>1. UNCHANGED server_vars
    BY <1>16 DEF heartbeat_send, Rtk_Service_Vendorcmd_Hook, server_vars, parse_vars, service_vars, heartbeat_vars, thread_vars, ctrl_vars, count_vars, bound_vars
  <2> QED
    BY <2>1, CoreSame
<1>17. CASE poll_timer_flush
  <2>1. UNCHANGED server_vars
    BY <1>17 DEF poll_timer_flush, server_vars, parse_vars, service_vars, heartbeat_vars, thread_vars, ctrl_vars, count_vars, bound_vars
  <2> QED
    BY <2>1, CoreSame
<1>18. CASE thread_stop
  <2>1. UNCHANGED server_vars
    BY <1>18 DEF thread_stop, server_vars, parse_vars, service_vars, heartbeat_vars, thread_vars, ctrl_vars, count_vars, bound_vars
  <2> QED
    BY <2>1, CoreSame
<1>19. CASE RTK_btservice_destroyed
  <2>1. UNCHANGED server_vars
    BY <1>19 DEF RTK_btservice_destroyed, server_vars, parse_vars, service_vars, heartbeat_vars, thread_vars, ctrl_vars, count_vars, bound_vars
  <2> QED
    BY <2>1, CoreSame
<1>20. CASE rtk_parse_cleanup
  <2>1. \A t \in Threads : ~Holds(t)
    BY <1>20 DEF rtk_parse_cleanup, Counters, Threads
  <2>2. /\ coex_list' = << >> /\ ctrl' = << >> /\ events' = << >>
        /\ accepted' = 0 /\ sent' = 0 /\ answered' = 0 /\ UNCHANGED <<coex_cmd_send, hand>>
    BY <1>20 DEF rtk_parse_cleanup
  <2> QED
    BY <2>1, <2>2, CoreForget
<1>21. CASE Heartbeat_init
  <2>1. UNCHANGED server_vars
    BY <1>21 DEF Heartbeat_init, Rtk_Service_Vendorcmd_Hook, server_vars, parse_vars, service_vars, heartbeat_vars, thread_vars, ctrl_vars, count_vars, bound_vars
  <2> QED
    BY <2>1, CoreSame
<1>22. CASE poll_timer_expires
  <2>1. UNCHANGED server_vars
    BY <1>22 DEF poll_timer_expires, server_vars, parse_vars, service_vars, heartbeat_vars, thread_vars, ctrl_vars, count_vars, bound_vars
  <2> QED
    BY <2>1, CoreSame
<1>23. CASE reply_timer_expires
  <2>1. UNCHANGED server_vars
    BY <1>23 DEF reply_timer_expires, raise, server_vars, parse_vars, service_vars, heartbeat_vars, thread_vars, ctrl_vars, count_vars, bound_vars
  <2> QED
    BY <2>1, CoreSame
<1>24. CASE ctrl_answers
  <2>1. PICK n \in SeqNum : events' = Append(events, [cb |-> Head(ctrl).cb, seq |-> n])
    BY <1>24, NextSeq DEF ctrl_answers, TypeData
  <2>2. ctrl # << >> /\ ctrl' = Tail(ctrl) /\ answered' = answered + 1
    BY <1>24 DEF ctrl_answers
  <2>3. Head(ctrl) \in Command
    BY <2>2, CoreTypes
  <2>4. [cb |-> Head(ctrl).cb, seq |-> n] \in Event
    BY <2>3 DEF Command, Event
  <2>5. UNCHANGED <<coex_cmd_send, coex_list, hand, accepted, sent>>
    BY <1>24 DEF ctrl_answers, parse_vars, thread_vars
  <2> QED
    BY <2>1, <2>2, <2>4, <2>5, CoreAnswer
<1>25. CASE ctrl_dies
  <2>1. UNCHANGED server_vars
    BY <1>25 DEF ctrl_dies, server_vars, parse_vars, service_vars, heartbeat_vars, thread_vars, ctrl_vars, count_vars, bound_vars
  <2> QED
    BY <2>1, CoreSame
<1>26. CASE open
  <2>1. UNCHANGED <<coex_cmd_send, hand, ctrl, events, accepted, sent, answered>> /\ coex_list' = << >>
    BY <1>26 DEF open, count_vars
  <2>2. coex_list = << >>
    BY <1>26 DEF open, Emptied
  <2>3. UNCHANGED server_vars
    BY <2>1, <2>2 DEF server_vars
  <2> QED
    BY <2>3, CoreSame
<1>27. CASE Heartbeat_cleanup
  <2>1. UNCHANGED server_vars
    BY <1>27 DEF Heartbeat_cleanup, server_vars, parse_vars, service_vars, heartbeat_vars, thread_vars, ctrl_vars, count_vars, bound_vars
  <2> QED
    BY <2>1, CoreSame
<1>28. CASE UNCHANGED vars
  <2>1. UNCHANGED server_vars
    BY <1>28 DEF server_vars, vars, parse_vars, service_vars, heartbeat_vars, thread_vars, ctrl_vars, count_vars, bound_vars
  <2> QED
    BY <2>1, CoreSame
<1> QED
  BY <1>1, <1>2, <1>3, <1>4, <1>5, <1>6, <1>7, <1>8, <1>9, <1>10, <1>11, <1>12, <1>13, <1>14, <1>15, <1>16, <1>17, <1>18, <1>19, <1>20, <1>21, <1>22, <1>23, <1>24, <1>25, <1>26, <1>27, <1>28 DEF Next, Caller, Evt, Svc, Handler, Close

\* Submitting keeps Counters: the thread is on its way to transmit or goes on.
LEMMA CountersSubmit ==
  ASSUME TypeData, Counters, NEW t \in Threads, NEW cb, rtk_vendor_cmd_to_fw(t, cb),
         t # "evt", pc[t] \in {"idle", "submit"}, UNCHANGED phase
  PROVE  Counters'
<1>1. ~Holds(t) /\ (t = "svc" => phase \notin {"destroyed", "closed"})
  BY DEF Counters
<1>2. \E where \in Pcs : pc' = [pc EXCEPT ![t] = where]
  BY SubmitCases DEF Pcs
<1>3. \A u \in Threads \ {t} : pc'[u] = pc[u]
  BY <1>2, CoreTypes
<1>4. \/ UNCHANGED hand /\ pc' = [pc EXCEPT ![t] = IF t = "svc" THEN "arm" ELSE "idle"]
      \/ hand' = [hand EXCEPT ![t] = [id |-> accepted + 1, cb |-> cb]] /\ pc' = [pc EXCEPT ![t] = "install"]
  BY SubmitCases, Zenon
<1>5. \A u \in Threads \ {t} : Holds(u)' <=> Holds(u)
  BY <1>4, CoreTypes DEF Holds
<1>6. \/ ~Holds(t)' /\ pc'[t] \in {"arm", "idle"}
      \/ Holds(t)' /\ pc'[t] = "install"
  BY <1>1, <1>4, CoreTypes DEF Holds
<1>7. pc'["evt"] = pc["evt"] /\ (t # "svc" => pc'["svc"] = pc["svc"])
  BY <1>3, Members
<1> QED
  BY <1>1, <1>3, <1>5, <1>6, <1>7 DEF Counters

\* Program counters agree with hands and with the phase of the closing.
LEMMA CountersStep ==
  ASSUME TypeData, Core, Counters, [Next]_vars
  PROVE  Counters'
<1>1. ASSUME NEW t \in Callers, coex_command(t) PROVE Counters'
  <2>1. rtk_vendor_cmd_to_fw(t, "none") /\ pc[t] = "idle" /\ UNCHANGED phase
    BY <1>1 DEF coex_command
  <2> QED
    BY <2>1, CountersSubmit, CallersAssumption, Members
<1>2. ASSUME NEW t \in Threads, install(t) PROVE Counters'
  BY <1>2, CoreTypes, Members, CallersAssumption DEF install, Counters, Holds, None, parse_vars, service_vars, heartbeat_vars, thread_vars, ctrl_vars, count_vars, bound_vars
<1>3. ASSUME NEW t \in Threads, xmit(t) PROVE Counters'
  BY <1>3, CoreTypes, Members, CallersAssumption DEF xmit, After, Counters, Holds, None, parse_vars, service_vars, heartbeat_vars, thread_vars, ctrl_vars, count_vars, bound_vars
<1>4. CASE complete_pop
  <2>1. /\ phase = "open" /\ pc["evt"] = "idle" /\ pc' = [pc EXCEPT !["evt"] = "call"] /\ UNCHANGED phase
        /\ (UNCHANGED hand \/ hand' = [hand EXCEPT !["evt"] = Head(coex_list)])
    BY <1>4, Zenon DEF complete_pop
  <2>2. \A u \in Threads \ {"evt"} : pc'[u] = pc[u] /\ hand'[u] = hand[u]
    BY <2>1, CoreTypes, Members
  <2>3. pc'["evt"] = "call"
    BY <2>1, CoreTypes, Members
  <2> QED
    BY <2>1, <2>2, <2>3 DEF Counters, Holds
<1>5. CASE complete_untold
  BY <1>5, CoreTypes, Members, CallersAssumption DEF complete_untold, AfterCall, Counters, Holds, None, parse_vars, service_vars, heartbeat_vars, thread_vars, ctrl_vars, count_vars, bound_vars
<1>6. CASE complete_call
  BY <1>6, CoreTypes, Members, CallersAssumption DEF complete_call, rtkbt_heartbeat_cmpl_cback, raise, Counters, Holds, None, parse_vars, service_vars, heartbeat_vars, thread_vars, ctrl_vars, count_vars, bound_vars
<1>7. CASE complete_post
  BY <1>7, CoreTypes, Members, CallersAssumption DEF complete_post, Counters, Holds, None, parse_vars, service_vars, heartbeat_vars, thread_vars, ctrl_vars, count_vars, bound_vars
<1>8. CASE complete_clear
  BY <1>8, CoreTypes, Members, CallersAssumption DEF complete_clear, AfterCall, Counters, Holds, None, parse_vars, service_vars, heartbeat_vars, thread_vars, ctrl_vars, count_vars, bound_vars
<1>9. CASE cmdready_loop
  BY <1>9, CoreTypes, Members, CallersAssumption DEF cmdready_loop, svc_step, Counters, Holds, None, parse_vars, service_vars, heartbeat_vars, thread_vars, ctrl_vars, count_vars, bound_vars
<1>10. CASE cmdready_wait_queue
  BY <1>10, CoreTypes, Members, CallersAssumption DEF cmdready_wait_queue, svc_step, Counters, Holds, None, parse_vars, service_vars, heartbeat_vars, thread_vars, ctrl_vars, count_vars, bound_vars
<1>11. CASE cmdready_wait_send
  BY <1>11, CoreTypes, Members, CallersAssumption DEF cmdready_wait_send, svc_step, Counters, Holds, None, parse_vars, service_vars, heartbeat_vars, thread_vars, ctrl_vars, count_vars, bound_vars
<1>12. CASE cmdready_pop
  <2>1. \E where \in {"submit", "loop"} : pc' = [pc EXCEPT !["svc"] = where]
    BY <1>12 DEF cmdready_pop, svc_step
  <2>2. pc["svc"] = "pop" /\ UNCHANGED <<hand, phase>>
    BY <1>12 DEF cmdready_pop, svc_step
  <2> QED
    BY <2>1, <2>2, CoreTypes, Members DEF Counters, Holds
<1>13. CASE cmdready_submit
  <2>1. rtk_vendor_cmd_to_fw("svc", "svc") /\ pc["svc"] = "submit" /\ UNCHANGED phase
    BY <1>13 DEF cmdready_submit
  <2> QED
    BY <2>1, CountersSubmit, Members
<1>14. CASE cmdready_arm
  BY <1>14, CoreTypes, Members, CallersAssumption DEF cmdready_arm, svc_step, Counters, Holds, None, parse_vars, service_vars, heartbeat_vars, thread_vars, ctrl_vars, count_vars, bound_vars
<1>15. CASE heartbeat_timed_out
  BY <1>15, CoreTypes, Members, CallersAssumption DEF heartbeat_timed_out, raise, Counters, Holds, None, parse_vars, service_vars, heartbeat_vars, thread_vars, ctrl_vars, count_vars, bound_vars
<1>16. CASE heartbeat_send
  BY <1>16, CoreTypes, Members, CallersAssumption DEF heartbeat_send, Rtk_Service_Vendorcmd_Hook, Counters, Holds, None, parse_vars, service_vars, heartbeat_vars, thread_vars, ctrl_vars, count_vars, bound_vars
<1>17. CASE poll_timer_flush
  BY <1>17, CoreTypes, Members, CallersAssumption DEF poll_timer_flush, Counters, Holds, None, parse_vars, service_vars, heartbeat_vars, thread_vars, ctrl_vars, count_vars, bound_vars
<1>18. CASE thread_stop
  BY <1>18, CoreTypes, Members, CallersAssumption DEF thread_stop, Counters, Holds, None, parse_vars, service_vars, heartbeat_vars, thread_vars, ctrl_vars, count_vars, bound_vars
<1>19. CASE RTK_btservice_destroyed
  BY <1>19, CoreTypes, Members, CallersAssumption DEF RTK_btservice_destroyed, Counters, Holds, None, parse_vars, service_vars, heartbeat_vars, thread_vars, ctrl_vars, count_vars, bound_vars
<1>20. CASE rtk_parse_cleanup
  <2>1. UNCHANGED <<pc, hand>> /\ phase = "destroyed" /\ phase' = "closed"
    BY <1>20 DEF rtk_parse_cleanup
  <2> QED
    BY <2>1, Members DEF Counters, Holds
<1>21. CASE Heartbeat_init
  BY <1>21, CoreTypes, Members, CallersAssumption DEF Heartbeat_init, Rtk_Service_Vendorcmd_Hook, Counters, Holds, None, parse_vars, service_vars, heartbeat_vars, thread_vars, ctrl_vars, count_vars, bound_vars
<1>22. CASE poll_timer_expires
  BY <1>22, CoreTypes, Members, CallersAssumption DEF poll_timer_expires, Counters, Holds, None, parse_vars, service_vars, heartbeat_vars, thread_vars, ctrl_vars, count_vars, bound_vars
<1>23. CASE reply_timer_expires
  BY <1>23, CoreTypes, Members, CallersAssumption DEF reply_timer_expires, raise, Counters, Holds, None, parse_vars, service_vars, heartbeat_vars, thread_vars, ctrl_vars, count_vars, bound_vars
<1>24. CASE ctrl_answers
  <2>1. UNCHANGED <<pc, hand, phase>>
    BY <1>24 DEF ctrl_answers, thread_vars
  <2> QED
    BY <2>1 DEF Counters, Holds
<1>25. CASE ctrl_dies
  BY <1>25, CoreTypes, Members, CallersAssumption DEF ctrl_dies, Counters, Holds, None, parse_vars, service_vars, heartbeat_vars, thread_vars, ctrl_vars, count_vars, bound_vars
<1>26. CASE open
  <2>1. pc' = [pc EXCEPT !["svc"] = "loop"] /\ phase = "closed" /\ phase' = "open" /\ UNCHANGED hand
    BY <1>26 DEF open
  <2>2. pc["svc"] = "exit"
    BY <2>1 DEF Counters
  <2> QED
    BY <2>1, <2>2, CoreTypes, Members DEF Counters, Holds
<1>27. CASE Heartbeat_cleanup
  BY <1>27, CoreTypes, Members, CallersAssumption DEF Heartbeat_cleanup, Counters, Holds, None, parse_vars, service_vars, heartbeat_vars, thread_vars, ctrl_vars, count_vars, bound_vars
<1>28. CASE UNCHANGED vars
  BY <1>28 DEF Counters, Holds, vars, parse_vars, service_vars, heartbeat_vars, thread_vars, ctrl_vars, count_vars, bound_vars
<1> QED
  BY <1>1, <1>2, <1>3, <1>4, <1>5, <1>6, <1>7, <1>8, <1>9, <1>10, <1>11, <1>12, <1>13, <1>14, <1>15, <1>16, <1>17, <1>18, <1>19, <1>20, <1>21, <1>22, <1>23, <1>24, <1>25, <1>26, <1>27, <1>28, Members DEF Next, Caller, Evt, Svc, Handler, Close

\* A closed library has an empty list.
LEMMA EmptiedStep ==
  ASSUME TypeData, Counters, Emptied, [Next]_vars
  PROVE  Emptied'
<1>1. ASSUME NEW t \in Threads, coex_command(t) PROVE Emptied'
  BY <1>1 DEF coex_command, Emptied
<1>2. ASSUME NEW t \in Threads, install(t) PROVE Emptied'
  BY <1>2 DEF install, Emptied, parse_vars, service_vars, heartbeat_vars, thread_vars, ctrl_vars, count_vars, bound_vars
<1>3. ASSUME NEW t \in Threads, xmit(t) PROVE Emptied'
  BY <1>3 DEF xmit, After, Emptied, parse_vars, service_vars, heartbeat_vars, thread_vars, ctrl_vars, count_vars, bound_vars
<1>4. CASE complete_pop
  BY <1>4 DEF complete_pop, Emptied
<1>5. CASE complete_untold
  BY <1>5 DEF complete_untold, AfterCall, Emptied, parse_vars, service_vars, heartbeat_vars, thread_vars, ctrl_vars, count_vars, bound_vars
<1>6. CASE complete_call
  BY <1>6 DEF complete_call, rtkbt_heartbeat_cmpl_cback, raise, Emptied, parse_vars, service_vars, heartbeat_vars, thread_vars, ctrl_vars, count_vars, bound_vars
<1>7. CASE complete_post
  BY <1>7 DEF complete_post, Emptied, parse_vars, service_vars, heartbeat_vars, thread_vars, ctrl_vars, count_vars, bound_vars
<1>8. CASE complete_clear
  BY <1>8 DEF complete_clear, AfterCall, Emptied, parse_vars, service_vars, heartbeat_vars, thread_vars, ctrl_vars, count_vars, bound_vars
<1>9. CASE cmdready_loop
  BY <1>9 DEF cmdready_loop, svc_step, Emptied, parse_vars, service_vars, heartbeat_vars, thread_vars, ctrl_vars, count_vars, bound_vars
<1>10. CASE cmdready_wait_queue
  BY <1>10 DEF cmdready_wait_queue, svc_step, Emptied, parse_vars, service_vars, heartbeat_vars, thread_vars, ctrl_vars, count_vars, bound_vars
<1>11. CASE cmdready_wait_send
  BY <1>11 DEF cmdready_wait_send, svc_step, Emptied, parse_vars, service_vars, heartbeat_vars, thread_vars, ctrl_vars, count_vars, bound_vars
<1>12. CASE cmdready_pop
  BY <1>12 DEF cmdready_pop, Emptied, parse_vars
<1>13. CASE cmdready_submit
  BY <1>13 DEF cmdready_submit, Emptied, Counters
<1>14. CASE cmdready_arm
  BY <1>14 DEF cmdready_arm, svc_step, Emptied, parse_vars, service_vars, heartbeat_vars, thread_vars, ctrl_vars, count_vars, bound_vars
<1>15. CASE heartbeat_timed_out
  BY <1>15 DEF heartbeat_timed_out, raise, Emptied, parse_vars, service_vars, heartbeat_vars, thread_vars, ctrl_vars, count_vars, bound_vars
<1>16. CASE heartbeat_send
  BY <1>16 DEF heartbeat_send, Rtk_Service_Vendorcmd_Hook, Emptied, parse_vars, service_vars, heartbeat_vars, thread_vars, ctrl_vars, count_vars, bound_vars
<1>17. CASE poll_timer_flush
  BY <1>17 DEF poll_timer_flush, Emptied, parse_vars, service_vars, heartbeat_vars, thread_vars, ctrl_vars, count_vars, bound_vars
<1>18. CASE thread_stop
  BY <1>18 DEF thread_stop, Emptied, parse_vars, service_vars, heartbeat_vars, thread_vars, ctrl_vars, count_vars, bound_vars
<1>19. CASE RTK_btservice_destroyed
  BY <1>19 DEF RTK_btservice_destroyed, Emptied, parse_vars, service_vars, heartbeat_vars, thread_vars, ctrl_vars, count_vars, bound_vars
<1>20. CASE rtk_parse_cleanup
  BY <1>20 DEF rtk_parse_cleanup, Emptied, parse_vars
<1>21. CASE Heartbeat_init
  BY <1>21 DEF Heartbeat_init, Rtk_Service_Vendorcmd_Hook, Emptied, parse_vars, service_vars, heartbeat_vars, thread_vars, ctrl_vars, count_vars, bound_vars
<1>22. CASE poll_timer_expires
  BY <1>22 DEF poll_timer_expires, Emptied, parse_vars, service_vars, heartbeat_vars, thread_vars, ctrl_vars, count_vars, bound_vars
<1>23. CASE reply_timer_expires
  BY <1>23 DEF reply_timer_expires, raise, Emptied, parse_vars, service_vars, heartbeat_vars, thread_vars, ctrl_vars, count_vars, bound_vars
<1>24. CASE ctrl_answers
  BY <1>24 DEF ctrl_answers, Emptied, parse_vars, thread_vars
<1>25. CASE ctrl_dies
  BY <1>25 DEF ctrl_dies, Emptied, parse_vars, service_vars, heartbeat_vars, thread_vars, ctrl_vars, count_vars, bound_vars
<1>26. CASE open
  BY <1>26 DEF open, Emptied, parse_vars
<1>27. CASE Heartbeat_cleanup
  BY <1>27 DEF Heartbeat_cleanup, Emptied, parse_vars, service_vars, heartbeat_vars, thread_vars, ctrl_vars, count_vars, bound_vars
<1>28. CASE UNCHANGED vars
  BY <1>28 DEF Emptied, vars, parse_vars, service_vars, heartbeat_vars, thread_vars, ctrl_vars, count_vars, bound_vars
<1> QED
  BY <1>1, <1>2, <1>3, <1>4, <1>5, <1>6, <1>7, <1>8, <1>9, <1>10, <1>11, <1>12, <1>13, <1>14, <1>15, <1>16, <1>17, <1>18, <1>19, <1>20, <1>21, <1>22, <1>23, <1>24, <1>25, <1>26, <1>27, <1>28, Members DEF Next, Caller, Evt, Svc, Handler, Close

permit_vars == <<cmdsend_sem, coex_list, hand, current_cback, pc>>

\* The steps of the timers and of the controller.
Outside ==
  \/ Handler \/ Heartbeat_init \/ poll_timer_expires \/ reply_timer_expires
  \/ ctrl_answers \/ ctrl_dies \/ UNCHANGED vars

\* They have nothing to do with the permit.
LEMMA OutsideSteps ==
  ASSUME Outside PROVE UNCHANGED <<permit_vars, phase>>
<1> USE DEF permit_vars, parse_vars, service_vars, heartbeat_vars, thread_vars, ctrl_vars
<1>1. CASE Handler
  BY <1>1 DEF Handler, heartbeat_timed_out, heartbeat_send, poll_timer_flush
<1>2. CASE Heartbeat_init
  BY <1>2 DEF Heartbeat_init
<1>3. CASE poll_timer_expires \/ reply_timer_expires
  BY <1>3 DEF poll_timer_expires, reply_timer_expires
<1>4. CASE ctrl_answers \/ ctrl_dies
  BY <1>4 DEF ctrl_answers, ctrl_dies
<1>5. CASE UNCHANGED vars
  BY <1>5 DEF vars
<1> QED BY <1>1, <1>2, <1>3, <1>4, <1>5 DEF Outside

\* The steps of Next by what they do to the permit.
LEMMA StepCases ==
  ASSUME [Next]_vars
  PROVE  \/ \E t \in Callers : coex_command(t)
         \/ \E t \in Threads : install(t) \/ xmit(t)
         \/ complete_pop
         \/ complete_untold \/ complete_call \/ complete_post \/ complete_clear
         \/ cmdready_loop \/ cmdready_wait_queue \/ cmdready_wait_send \/ cmdready_pop \/ cmdready_arm
         \/ cmdready_submit
         \/ open \/ Heartbeat_cleanup \/ thread_stop \/ RTK_btservice_destroyed \/ rtk_parse_cleanup
         \/ Outside
<1>1. ASSUME Next
      PROVE  \/ \E t \in Callers : coex_command(t) \/ install(t) \/ xmit(t)
             \/ Evt \/ Svc \/ Close \/ open \/ Heartbeat_cleanup \/ Outside
  BY <1>1 DEF Next, Caller, Outside
<1> QED BY <1>1, Members DEF Evt, Svc, Close, Outside

\* What Occupied is about.
occupied_vars == <<coex_cmd_send, hand, ctrl, events, held_over>>

\* A step that touches none of it, in a library that is open or stays closed.
LEMMA OccupiedSame ==
  ASSUME Occupied, UNCHANGED occupied_vars, phase # "closed" \/ UNCHANGED phase
  PROVE  Occupied'
<1>1. \A t \in Threads : Holds(t)' <=> Holds(t) BY DEF occupied_vars, Holds
<1>2. UNCHANGED <<coex_cmd_send, ctrl, events, held_over>> BY DEF occupied_vars
<1> QED BY <1>1, <1>2, Zenon DEF Occupied

\* Submitting fills the server or finds it occupied.
LEMMA OccupiedSubmit ==
  ASSUME TypeData, Occupied, NEW t \in Threads, NEW cb \in Cback, rtk_vendor_cmd_to_fw(t, cb),
         UNCHANGED <<ctrl, events, held_over, phase>>
  PROVE  Occupied'
<1>1. CASE hand' = [hand EXCEPT ![t] = [id |-> accepted + 1, cb |-> cb]]
  <2>1. hand'[t].id = accepted + 1 BY <1>1, CoreTypes
  <2>2. Holds(t)' BY <2>1, CoreTypes DEF Holds
  <2> QED BY <2>2 DEF Occupied
<1>2. CASE UNCHANGED <<coex_cmd_send, hand>>
  BY <1>2, OccupiedSame DEF occupied_vars
<1> QED BY <1>1, <1>2, SubmitCases, Zenon

\* coex_cmd_send is set with no command under way only in a session that found it set.
LEMMA OccupiedStep ==
  ASSUME TypeData, Core, Core', Counters, Occupied, [Next]_vars
  PROVE  Occupied'
<1> USE DEF occupied_vars, parse_vars, service_vars, heartbeat_vars, thread_vars, ctrl_vars, count_vars, bound_vars
<1>1. ASSUME NEW t \in Callers, coex_command(t) PROVE Occupied'
  <2>1. rtk_vendor_cmd_to_fw(t, "none") /\ UNCHANGED <<ctrl, events, held_over, phase>>
    BY <1>1 DEF coex_command
  <2> QED BY <2>1, OccupiedSubmit, Members DEF Cback
<1>2. ASSUME NEW t \in Threads, install(t) PROVE Occupied'
  BY <1>2, OccupiedSame DEF install
<1>3. ASSUME NEW t \in Threads, xmit(t) PROVE Occupied'
  <2>1. ctrl' = Append(ctrl, hand[t]) BY <1>3 DEF xmit
  <2>2. ctrl' # << >> BY <2>1, CoreTypes
  <2> QED BY <2>2 DEF Occupied
<1>4. CASE complete_pop
  <2>1. CASE ~coex_cmd_send' BY <2>1 DEF Occupied
  <2>2. CASE coex_list # << >> /\ coex_list' = Tail(coex_list)
    <3>1. \A t \in Threads : ~Holds(t)
      BY <1>4, OutsideAlone DEF complete_pop
    <3>2. accepted = sent + Len(coex_list) BY <3>1 DEF Core, NoneInHand
    <3>3. Len(coex_list) \in Nat /\ Len(coex_list') = Len(coex_list) - 1
      BY <2>2, CoreTypes
    <3>4. UNCHANGED <<accepted, sent>> BY <1>4 DEF complete_pop
    <3>5. ~(accepted' = sent' + Len(coex_list')) BY <3>2, <3>3, <3>4, CoreTypes
    <3>6. \E t \in Threads : Holds(t)' BY <3>5 DEF Core, NoneInHand
    <3> QED BY <3>6 DEF Occupied
  <2> QED BY <1>4, <2>1, <2>2, Zenon DEF complete_pop
<1>5. CASE complete_untold \/ complete_call \/ complete_post \/ complete_clear
  <2>1. UNCHANGED <<occupied_vars, phase>>
    BY <1>5 DEF complete_untold, complete_call, complete_post, complete_clear
  <2> QED BY <2>1, OccupiedSame
<1>6. CASE cmdready_loop \/ cmdready_wait_queue \/ cmdready_wait_send \/ cmdready_pop \/ cmdready_arm
  <2>1. UNCHANGED <<occupied_vars, phase>>
    BY <1>6 DEF cmdready_loop, cmdready_wait_queue, cmdready_wait_send, cmdready_pop, cmdready_arm
  <2> QED BY <2>1, OccupiedSame
<1>7. CASE cmdready_submit
  <2>1. rtk_vendor_cmd_to_fw("svc", "svc") /\ UNCHANGED <<ctrl, events, held_over, phase>>
    BY <1>7 DEF cmdready_submit
  <2> QED BY <2>1, OccupiedSubmit, Members DEF Cback
<1>8. CASE open
  <2>1. held_over' = coex_cmd_send /\ UNCHANGED coex_cmd_send BY <1>8, Zenon DEF open
  <2>2. coex_cmd_send' => held_over' BY <2>1, Zenon
  <2> QED BY <2>2, Zenon DEF Occupied
<1>9. CASE Heartbeat_cleanup \/ thread_stop \/ RTK_btservice_destroyed
  <2>1. UNCHANGED occupied_vars /\ phase # "closed"
    BY <1>9 DEF Heartbeat_cleanup, thread_stop, RTK_btservice_destroyed
  <2> QED BY <2>1, OccupiedSame
<1>10. CASE rtk_parse_cleanup
  BY <1>10 DEF rtk_parse_cleanup, Occupied
<1>11. CASE ctrl_answers
  <2>1. \E e : events' = Append(events, e) BY <1>11 DEF ctrl_answers
  <2>2. events' # << >> BY <2>1, CoreTypes
  <2> QED BY <2>2 DEF Occupied
<1>12. CASE Outside /\ ~ctrl_answers
  <2>1. UNCHANGED <<occupied_vars, phase>>
    BY <1>12
    DEF Outside, Handler, heartbeat_timed_out, heartbeat_send, poll_timer_flush, Heartbeat_init,
        poll_timer_expires, reply_timer_expires, ctrl_dies, vars
  <2> QED BY <2>1, OccupiedSame
<1> QED BY <1>1, <1>2, <1>3, <1>4, <1>5, <1>6, <1>7, <1>8, <1>9, <1>10, <1>11, <1>12, StepCases

\* ServerInv holds in every reachable state: each command accepted and not answered is in the
\* list, in one hand, with the controller or on its way back, and coex_cmd_send says so, except in a
\* session that found it set.
THEOREM ServerCorrect == Spec => []ServerInv
<1>1. Init => ServerInv
  <2> SUFFICES ASSUME Init PROVE ServerInv
    OBVIOUS
  <2>1. \A t \in Threads : ~Holds(t) /\ pc[t] \in {"idle", "exit"}
    BY DEF Init, Holds, None
  <2>2. coex_list = << >> /\ ctrl = << >> /\ events = << >> /\ accepted = 0 /\ sent = 0 /\ answered = 0
    BY DEF Init
  <2>3. pc["evt"] = "idle" /\ pc["svc"] = "exit"
    BY Members DEF Init
  <2>4. Waiting /\ InHand /\ Free /\ Emptied
    BY <2>1, <2>2 DEF Waiting, InHand, Free, Emptied
  <2>5. NoneInHand /\ OnePlace
    BY <2>2 DEF NoneInHand, OnePlace
  <2>6. Counters
    BY <2>1, <2>3 DEF Counters
  <2>7. Occupied
    BY DEF Init, Occupied
  <2> QED
    BY <2>4, <2>5, <2>6, <2>7 DEF ServerInv
<1>2. ServerInv <=> Core /\ Counters /\ Emptied /\ Occupied
  BY DEF ServerInv, Core
<1>3. TypeData /\ ServerInv /\ [Next]_vars => ServerInv'
  <2> SUFFICES ASSUME TypeData, ServerInv, [Next]_vars PROVE ServerInv'
    OBVIOUS
  <2>1. Core /\ Counters /\ Emptied /\ Occupied
    BY <1>2
  <2>2. Core' /\ Counters' /\ Emptied'
    BY <2>1, CoreStep, CountersStep, EmptiedStep
  <2>3. Occupied'
    BY <2>1, <2>2, OccupiedStep
  <2> QED
    BY <2>2, <2>3 DEF ServerInv, Core
<1>4. TypeOK => TypeData
  BY TypeParts
<1> QED
  BY <1>1, <1>3, <1>4, TypeCorrect, PTL DEF Spec

\* The detailed server implements VendorServer: whichever threads submit, transmit and complete
\* at the same time, commands go out in the order of their acceptance, the next one only when
\* the last one has been answered.
THEOREM ServerRefines == Spec => ServesInOrder
<1>1. Init => Server!Init
  BY DEF Init, Server!Init
<1>2. TypeData /\ ServerInv /\ [Next]_vars => [Server!Next]_count_vars
  <2> SUFFICES ASSUME TypeData, ServerInv, [Next]_vars PROVE [Server!Next]_count_vars
    OBVIOUS
  <2>1. ASSUME NEW t \in Threads, coex_command(t) PROVE [Server!Next]_count_vars
    <3>1. accepted' = accepted + 1 /\ UNCHANGED <<sent, answered>>
      BY <2>1 DEF coex_command, rtk_vendor_cmd_to_fw
    <3> QED
      BY <3>1 DEF Server!Next, Server!Accept
  <2>2. ASSUME NEW t \in Threads, install(t) PROVE [Server!Next]_count_vars
    BY <2>2 DEF install, count_vars
  <2>3. ASSUME NEW t \in Threads, xmit(t) PROVE [Server!Next]_count_vars
    <3>1. Holds(t)
      BY <2>3 DEF xmit, ServerInv, Counters
    <3>2. ctrl = << >> /\ hand[t].id = sent + 1 /\ accepted = sent + 1 + Len(coex_list)
      BY <3>1 DEF ServerInv, InHand
    <3>3. answered + Len(ctrl) = sent
      BY DEF ServerInv, OnePlace
    <3>4. sent < accepted /\ sent = answered
      BY <3>2, <3>3, CoreTypes
    <3>5. sent' = sent + 1 /\ UNCHANGED <<accepted, answered>>
      BY <2>3, <3>2 DEF xmit
    <3> QED
      BY <3>4, <3>5 DEF Server!Next, Server!Send
  <2>4. CASE complete_pop
    BY <2>4 DEF complete_pop, count_vars
  <2>5. CASE complete_untold
    BY <2>5 DEF complete_untold, count_vars
  <2>6. CASE complete_call
    BY <2>6 DEF complete_call, count_vars
  <2>7. CASE complete_post
    BY <2>7 DEF complete_post, count_vars
  <2>8. CASE complete_clear
    BY <2>8 DEF complete_clear, count_vars
  <2>9. CASE cmdready_loop
    BY <2>9 DEF cmdready_loop, count_vars
  <2>10. CASE cmdready_wait_queue
    BY <2>10 DEF cmdready_wait_queue, count_vars
  <2>11. CASE cmdready_wait_send
    BY <2>11 DEF cmdready_wait_send, count_vars
  <2>12. CASE cmdready_pop
    BY <2>12 DEF cmdready_pop, count_vars
  <2>13. CASE cmdready_submit
    <3>1. accepted' = accepted + 1 /\ UNCHANGED <<sent, answered>>
      BY <2>13 DEF cmdready_submit, rtk_vendor_cmd_to_fw
    <3> QED
      BY <3>1 DEF Server!Next, Server!Accept
  <2>14. CASE cmdready_arm
    BY <2>14 DEF cmdready_arm, count_vars
  <2>15. CASE heartbeat_timed_out
    BY <2>15 DEF heartbeat_timed_out, count_vars
  <2>16. CASE heartbeat_send
    BY <2>16 DEF heartbeat_send, count_vars
  <2>17. CASE poll_timer_flush
    BY <2>17 DEF poll_timer_flush, count_vars
  <2>18. CASE thread_stop
    BY <2>18 DEF thread_stop, count_vars
  <2>19. CASE RTK_btservice_destroyed
    BY <2>19 DEF RTK_btservice_destroyed, count_vars
  <2>20. CASE rtk_parse_cleanup
    <3>1. accepted' = 0 /\ sent' = 0 /\ answered' = 0
      BY <2>20 DEF rtk_parse_cleanup
    <3> QED
      BY <3>1 DEF Server!Next, Server!Forget
  <2>21. CASE Heartbeat_init
    BY <2>21 DEF Heartbeat_init, count_vars
  <2>22. CASE poll_timer_expires
    BY <2>22 DEF poll_timer_expires, count_vars
  <2>23. CASE reply_timer_expires
    BY <2>23 DEF reply_timer_expires, count_vars
  <2>24. CASE ctrl_answers
    <3>1. ctrl # << >> /\ answered' = answered + 1 /\ UNCHANGED <<accepted, sent>>
      BY <2>24 DEF ctrl_answers
    <3>2. answered + Len(ctrl) = sent
      BY DEF ServerInv, OnePlace
    <3>3. answered < sent
      BY <3>1, <3>2, CoreTypes
    <3> QED
      BY <3>1, <3>3 DEF Server!Next, Server!Answer
  <2>25. CASE ctrl_dies
    BY <2>25 DEF ctrl_dies, count_vars
  <2>26. CASE open
    BY <2>26 DEF open, count_vars
  <2>27. CASE Heartbeat_cleanup
    BY <2>27 DEF Heartbeat_cleanup, count_vars
  <2>28. CASE UNCHANGED vars
    BY <2>28 DEF vars, count_vars
  <2> QED
    BY <2>1, <2>2, <2>3, <2>4, <2>5, <2>6, <2>7, <2>8, <2>9, <2>10, <2>11, <2>12, <2>13, <2>14, <2>15, <2>16, <2>17, <2>18, <2>19, <2>20, <2>21, <2>22, <2>23, <2>24, <2>25, <2>26, <2>27, <2>28, Members DEF Next, Caller, Evt, Svc, Handler, Close
<1>3. TypeOK => TypeData
  BY TypeParts
<1> QED
  BY <1>1, <1>2, <1>3, TypeCorrect, ServerCorrect, PTL DEF Spec, ServesInOrder, Server!Spec, count_vars

-----------------------------------------------------------------------------
(* The permits of the service.                                             *)

\* The invariant: one permit while the service runs, and nobody left over when it is opened again.
PermitInv ==
  /\ phase \in {"open", "stop"} => OnePermit
  /\ phase = "closed" => \A t \in Callers : pc[t] = "idle"

\* A step that makes no new place for the permit.
LEMMA PermitLess ==
  ASSUME OnePermit, UNCHANGED <<cmdsend_sem, coex_list>>, InService' => InService,
         OnItsWay' => OnItsWay, Installed' => Installed, Posting' => Posting
  PROVE  OnePermit'
<1>1. InList' <=> InList BY DEF InList, Listed
<1>2. ListedOnce' BY DEF OnePermit, ListedOnce, Listed
<1>3. Apart' BY <1>1 DEF OnePermit, Apart
<1> QED BY <1>2, <1>3 DEF OnePermit

\* A command at the end of the list, which is a heartbeat only if there was none.
LEMMA PermitListed ==
  ASSUME TypeData, OnePermit, NEW c, coex_list' = Append(coex_list, c),
         UNCHANGED <<cmdsend_sem, hand, current_cback>>, OnItsWay' => OnItsWay,
         Installed' => Installed, Posting' => Posting,
         \/ c.cb # "svc" /\ (InService' => InService)
         \/ InService /\ ~InService'
  PROVE  OnePermit'
<1>0. PICK n \in Nat : n = Len(coex_list) BY DEF TypeData
<1>1. /\ Len(coex_list') = n + 1 /\ coex_list'[n + 1] = c
      /\ \A i \in 1..n : coex_list'[i] = coex_list[i]
  BY <1>0 DEF TypeData
<1>2. \A i \in 1..n : Listed(i)' <=> Listed(i) BY <1>1 DEF Listed
<1>3. Listed(n + 1)' <=> c.cb = "svc" BY <1>1 DEF Listed
<1>4. InList <=> \E i \in 1..n : Listed(i) BY <1>0 DEF InList
<1>5. InList' <=> \E i \in 1..(n + 1) : Listed(i)' BY <1>1 DEF InList
<1>6. InList' <=> InList \/ c.cb = "svc"
  <2>1. ASSUME NEW i \in 1..(n + 1), Listed(i)' PROVE InList \/ c.cb = "svc"
    <3>1. CASE i = n + 1 BY <1>3, <2>1, <3>1
    <3>2. CASE i # n + 1
      <4>1. i \in 1..n BY <1>1, <3>2
      <4> QED BY <1>2, <1>4, <2>1, <4>1
    <3> QED BY <3>1, <3>2
  <2>2. n + 1 \in 1..(n + 1) /\ \A i \in 1..n : i \in 1..(n + 1) BY <1>1
  <2> QED BY <1>2, <1>3, <1>4, <1>5, <2>1, <2>2
<1>7. \A i, j \in 1..n : Listed(i) /\ Listed(j) => i = j BY <1>0 DEF OnePermit, ListedOnce
<1>8. c.cb = "svc" => ~InList BY DEF OnePermit, Apart
<1>9. ListedOnce'
  <2> SUFFICES ASSUME NEW i \in 1..(n + 1), NEW j \in 1..(n + 1), Listed(i)', Listed(j)' PROVE i = j
    BY <1>1 DEF ListedOnce
  <2>1. i \in 1..n \/ i = n + 1 BY <1>1
  <2>2. j \in 1..n \/ j = n + 1 BY <1>1
  <2> QED BY <1>2, <1>3, <1>4, <1>7, <1>8, <2>1, <2>2
<1>10. Apart' BY <1>6, <1>8 DEF OnePermit, Apart
<1> QED BY <1>9, <1>10 DEF OnePermit

\* Who has no command in hand, and what the pcs of other threads are after a step of thread t.
LEMMA PermitFacts ==
  ASSUME TypeData, ServerInv
  PROVE  /\ pc \in [Threads -> Pcs] /\ hand \in [Threads -> Command]
         /\ "svc" \in Threads /\ "evt" \in Threads
         /\ \A t \in Threads : Holds(t) => \A u \in Threads : Holds(u) => u = t
         /\ \A t \in Threads : pc[t] \in {"install", "xmit"} => Holds(t)
         /\ \A t \in Threads : pc[t] = "idle" => ~Holds(t)
<1>1. \A t \in Threads : pc[t] = "idle" => ~Holds(t) BY DEF ServerInv, Counters
<1> QED BY <1>1, Members DEF TypeData, ServerInv, InHand, Counters

\* Submitting a command: a coexistence command takes no permit, a heartbeat takes along the one of
\* cmdready_thread.
LEMMA PermitSubmit ==
  ASSUME TypeData, ServerInv, OnePermit, NEW t \in Threads \ {"evt"}, NEW cb \in Cback,
         rtk_vendor_cmd_to_fw(t, cb), UNCHANGED <<cmdsend_sem, current_cback>>,
         \/ t # "svc" /\ cb = "none" /\ pc[t] = "idle"
         \/ t = "svc" /\ pc[t] = "submit"
  PROVE  OnePermit'
<1> USE PermitFacts
<1>0. \E where \in {"install", "arm", "idle"} : pc' = [pc EXCEPT ![t] = where]
  BY SubmitCases
<1>1. pc'["evt"] = pc["evt"] /\ (t # "svc" => pc'["svc"] = pc["svc"]) /\ (t = "svc" => ~InService')
  BY <1>0 DEF InService
<1>2. (InService' => InService) /\ (Posting' => Posting) /\ (Installed' => Installed)
  BY <1>1 DEF InService, Posting, Installed
<1>3. t = "svc" => InService BY DEF InService
<1> DEFINE c == [id |-> accepted + 1, cb |-> cb]
<1>4. c.cb = cb OBVIOUS
<1>5. \/ UNCHANGED coex_list /\ hand' = [hand EXCEPT ![t] = c]
      \/ UNCHANGED hand /\ coex_list' = Append(coex_list, c)
  BY SubmitCases, Zenon
<1> HIDE DEF c
<1>6. ASSUME NEW u \in Threads \ {t} PROVE pc'[u] = pc[u]
  BY <1>0
<1>7. CASE UNCHANGED hand /\ coex_list' = Append(coex_list, c)
  <2>1. ~Holds(t)
    <3>1. CASE pc[t] = "idle" BY <3>1
    <3>2. CASE t = "svc" /\ pc[t] = "submit" BY <3>2 DEF ServerInv, Counters
    <3> QED BY <3>1, <3>2
  <2>2. OnItsWay' => OnItsWay
    BY <1>6, <1>7, <2>1 DEF OnItsWay, Holds
  <2> QED BY <1>1, <1>2, <1>3, <1>4, <1>7, <2>2, PermitListed
<1>8. CASE UNCHANGED coex_list /\ hand' = [hand EXCEPT ![t] = c]
  <2>1. hand'[t] = c /\ \A u \in Threads \ {t} : hand'[u] = hand[u] BY <1>8
  <2>2. OnItsWay' => OnItsWay \/ cb = "svc"
    BY <1>4, <1>6, <2>1 DEF OnItsWay, Holds
  <2>3. CASE cb # "svc"
    BY <1>2, <1>8, <2>2, <2>3, PermitLess
  <2>4. CASE cb = "svc"
    <3>1. t = "svc" BY <2>4
    <3>2. InList' <=> InList BY <1>8 DEF InList, Listed
    <3>3. ListedOnce' BY <1>8 DEF OnePermit, ListedOnce, Listed
    <3>4. Apart' BY <1>1, <1>2, <1>3, <3>1, <3>2 DEF OnePermit, Apart
    <3> QED BY <3>3, <3>4 DEF OnePermit
  <2> QED BY <2>3, <2>4
<1> QED BY <1>5, <1>7, <1>8

\* Installing the callback: the permit is with it now, or lost if the thread of the stack is about
\* to clear it.
LEMMA PermitInstall ==
  ASSUME TypeData, ServerInv, OnePermit, NEW t \in Threads, install(t)
  PROVE  OnePermit'
<1> USE PermitFacts
<1>1. /\ pc[t] = "install" /\ current_cback' = hand[t].cb /\ pc' = [pc EXCEPT ![t] = "xmit"]
      /\ UNCHANGED <<coex_list, hand, cmdsend_sem>>
  BY DEF install, service_vars
<1>2. Holds(t) BY <1>1
<1>3. pc'[t] = "xmit" /\ \A u \in Threads \ {t} : ~Holds(u) /\ pc'[u] = pc[u] BY <1>1, <1>2
<1>4. ~OnItsWay' BY <1>1, <1>3 DEF OnItsWay, Holds
<1>5. (InService' => InService) /\ (Posting' => Posting) BY <1>1, <1>3 DEF InService, Posting
<1>6. Installed' => OnItsWay BY <1>1, <1>2 DEF Installed, OnItsWay
<1>7. InList' <=> InList BY <1>1 DEF InList, Listed
<1>8. ListedOnce' BY <1>1 DEF OnePermit, ListedOnce, Listed
<1>9. Apart' BY <1>1, <1>4, <1>5, <1>6, <1>7 DEF OnePermit, Apart
<1> QED BY <1>1, <1>8, <1>9 DEF OnePermit

\* The next command of the list: the permit of a heartbeat goes with it.
LEMMA PermitPop ==
  ASSUME TypeData, ServerInv, OnePermit, complete_pop
  PROVE  OnePermit'
<1> USE PermitFacts
<1>1. /\ events # << >> /\ pc["evt"] = "idle" /\ pc' = [pc EXCEPT !["evt"] = "call"]
      /\ UNCHANGED <<current_cback, cmdsend_sem>>
  BY Zenon DEF complete_pop, service_vars
<1>2. \A t \in Threads : ~Holds(t) BY <1>1, OutsideAlone DEF ServerInv, Core
<1>3. ~OnItsWay BY <1>2 DEF OnItsWay
<1>4. /\ InService' => InService
      /\ Posting' => Posting
      /\ Installed' => Installed
  BY <1>1 DEF InService, Posting, Installed
<1>5. \/ UNCHANGED <<coex_list, hand>>
      \/ coex_list # << >> /\ hand' = [hand EXCEPT !["evt"] = Head(coex_list)] /\ coex_list' = Tail(coex_list)
  BY Zenon DEF complete_pop
<1>6. CASE UNCHANGED <<coex_list, hand>>
  <2>1. ~OnItsWay' BY <1>2, <1>6 DEF OnItsWay, Holds
  <2> QED BY <1>1, <1>4, <1>6, <2>1, PermitLess
<1>7. CASE coex_list # << >> /\ hand' = [hand EXCEPT !["evt"] = Head(coex_list)] /\ coex_list' = Tail(coex_list)
  <2>1. PICK n \in Nat : n = Len(coex_list) BY DEF TypeData
  <2>2. /\ n > 0 /\ Len(coex_list') = n - 1 /\ Head(coex_list) = coex_list[1]
        /\ \A i \in 1..(n - 1) : coex_list'[i] = coex_list[i + 1]
    BY <1>7, <2>1 DEF TypeData
  <2>3. hand'["evt"] = coex_list[1] /\ \A t \in Threads \ {"evt"} : hand'[t] = hand[t]
    BY <1>7, <2>2
  <2>4. OnItsWay' => Listed(1) BY <1>2, <2>3 DEF OnItsWay, Listed, Holds
  <2>5. \A i \in 1..(n - 1) : (Listed(i)' <=> Listed(i + 1)) /\ i + 1 \in 1..n /\ i + 1 # 1
    BY <2>2 DEF Listed
  <2>6. 1 \in 1..n /\ (Listed(1) => InList) BY <2>1, <2>2 DEF InList
  <2>7. InList' => InList BY <2>1, <2>2, <2>5 DEF InList
  <2>8. InList' => ~Listed(1) BY <2>1, <2>2, <2>5, <2>6 DEF InList, OnePermit, ListedOnce
  <2>9. ListedOnce' BY <2>1, <2>2, <2>5 DEF OnePermit, ListedOnce
  <2>10. Apart' BY <1>1, <1>3, <1>4, <2>4, <2>6, <2>7, <2>8 DEF OnePermit, Apart
  <2> QED BY <1>1, <2>9, <2>10 DEF OnePermit
<1> QED BY <1>5, <1>6, <1>7

\* The call of the installed callback and sem_post: from the callback to the semaphore.
LEMMA PermitComplete ==
  ASSUME TypeData, ServerInv, OnePermit,
         complete_untold \/ complete_call \/ complete_post \/ complete_clear
  PROVE  OnePermit'
<1> USE PermitFacts
<1>1. UNCHANGED <<coex_list, hand>>
  BY DEF complete_untold, complete_call, complete_post, complete_clear, parse_vars
<1>2. PICK where \in {"post", "clear", "install", "idle"} : pc' = [pc EXCEPT !["evt"] = where]
  BY DEF complete_untold, complete_call, complete_post, complete_clear, AfterCall
<1>3. pc'["evt"] = where /\ \A t \in Threads \ {"evt"} : pc'[t] = pc[t] BY <1>2
<1>4. InService' <=> InService BY <1>3 DEF InService
<1>5. pc["evt"] \in {"call", "post", "clear"}
  BY DEF complete_untold, complete_call, complete_post, complete_clear
<1>6. OnItsWay' => OnItsWay BY <1>1, <1>3, <1>5 DEF OnItsWay, Holds
<1>7. CASE complete_untold \/ complete_clear
  <2>1. current_cback' = "none" /\ UNCHANGED cmdsend_sem /\ where \in {"install", "idle"}
    <3>1. CASE complete_untold
      <4>1. pc'["evt"] \in {"install", "idle"} BY <3>1 DEF complete_untold, AfterCall
      <4> QED BY <1>3, <3>1, <4>1 DEF complete_untold, parse_vars, service_vars
    <3>2. CASE complete_clear
      <4>1. pc'["evt"] \in {"install", "idle"} BY <3>2 DEF complete_clear, AfterCall
      <4> QED BY <1>3, <3>2, <4>1 DEF complete_clear, service_vars
    <3> QED BY <1>7, <3>1, <3>2
  <2>2. ~Installed' /\ ~Posting' BY <1>3, <2>1 DEF Installed, Posting
  <2> QED BY <1>1, <1>4, <1>6, <2>1, <2>2, PermitLess
<1>8. CASE complete_call
  <2>1. /\ pc["evt"] = "call" /\ current_cback = "svc" /\ UNCHANGED <<current_cback, cmdsend_sem>>
        /\ pc'["evt"] = "post"
    BY <1>8 DEF complete_call, parse_vars, service_vars
  <2>2. Installed /\ Posting' /\ ~Installed' BY <2>1 DEF Installed, Posting
  <2>3. InList' <=> InList BY <1>1 DEF InList, Listed
  <2>4. ListedOnce' BY <1>1 DEF OnePermit, ListedOnce, Listed
  <2>5. Apart' BY <1>4, <1>6, <2>1, <2>2, <2>3 DEF OnePermit, Apart
  <2> QED BY <2>1, <2>4, <2>5 DEF OnePermit
<1>9. CASE complete_post
  <2>1. /\ pc["evt"] = "post" /\ cmdsend_sem' = cmdsend_sem + 1 /\ UNCHANGED current_cback
        /\ pc'["evt"] = "clear"
    BY <1>9 DEF complete_post, parse_vars
  <2>2. Posting /\ ~Posting' /\ ~Installed' BY <2>1 DEF Installed, Posting
  <2>3. InList' <=> InList BY <1>1 DEF InList, Listed
  <2>4. ListedOnce' BY <1>1 DEF OnePermit, ListedOnce, Listed
  <2>5. cmdsend_sem = 0 /\ ~InService /\ ~InList /\ ~OnItsWay BY <2>2 DEF OnePermit, Apart
  <2>6. Apart' BY <1>4, <1>6, <2>2, <2>3, <2>5 DEF Apart
  <2> QED BY <2>1, <2>4, <2>5, <2>6 DEF OnePermit
<1> QED BY <1>7, <1>8, <1>9

\* cmdready_thread: sem_wait takes the permit; a thread that finds nothing to send loses it.
LEMMA PermitService ==
  ASSUME TypeData, ServerInv, OnePermit,
         \/ cmdready_loop \/ cmdready_wait_queue \/ cmdready_wait_send \/ cmdready_pop \/ cmdready_arm
  PROVE  OnePermit'
<1> USE PermitFacts
<1>1. UNCHANGED <<coex_list, hand, current_cback>>
  BY DEF cmdready_loop, cmdready_wait_queue, cmdready_wait_send, cmdready_pop, cmdready_arm, parse_vars
<1>2. PICK where \in {"loop", "wait_queue", "wait_send", "exit", "pop", "submit"} :
        /\ pc' = [pc EXCEPT !["svc"] = where]
        /\ where \in {"pop", "submit"} => cmdready_wait_send \/ pc["svc"] = "pop"
  BY DEF cmdready_loop, cmdready_wait_queue, cmdready_wait_send, cmdready_pop, cmdready_arm, svc_step
<1>3. pc'["svc"] = where /\ \A t \in Threads \ {"svc"} : pc'[t] = pc[t] BY <1>2
<1>4. pc["svc"] \in {"loop", "wait_queue", "wait_send", "pop", "arm"}
  BY DEF cmdready_loop, cmdready_wait_queue, cmdready_wait_send, cmdready_pop, cmdready_arm, svc_step
<1>5. OnItsWay' => OnItsWay BY <1>1, <1>3, <1>4 DEF OnItsWay, Holds
<1>6. (Posting' <=> Posting) /\ (Installed' <=> Installed) BY <1>1, <1>3 DEF Posting, Installed
<1>7. CASE cmdready_wait_send
  <2>1. cmdsend_sem > 0 /\ cmdsend_sem' = cmdsend_sem - 1 BY <1>7 DEF cmdready_wait_send
  <2>2. cmdsend_sem = 1 /\ cmdsend_sem' = 0 BY <2>1 DEF OnePermit
  <2>3. InList' <=> InList BY <1>1 DEF InList, Listed
  <2>4. ListedOnce' BY <1>1 DEF OnePermit, ListedOnce, Listed
  <2>5. Apart' BY <1>5, <1>6, <2>2, <2>3 DEF OnePermit, Apart
  <2> QED BY <2>2, <2>4, <2>5 DEF OnePermit
<1>8. CASE ~cmdready_wait_send
  <2>1. UNCHANGED cmdsend_sem
    BY <1>8 DEF cmdready_loop, cmdready_wait_queue, cmdready_pop, cmdready_arm, service_vars
  <2>2. InService' => InService BY <1>2, <1>3, <1>8 DEF InService
  <2> QED BY <1>1, <1>5, <1>6, <2>1, <2>2, PermitLess
<1> QED BY <1>7, <1>8

\* A new service has the permit in its semaphore and nothing else.
LEMMA PermitOpen ==
  ASSUME TypeData, ServerInv, PermitInv, open
  PROVE  OnePermit'
<1> USE PermitFacts
<1>1. /\ phase = "closed" /\ coex_list' = << >> /\ current_cback' = "none" /\ cmdsend_sem' = 1
      /\ pc' = [pc EXCEPT !["svc"] = "loop"] /\ UNCHANGED hand
  BY Zenon DEF open
<1>2. pc["evt"] = "idle" /\ pc["svc"] = "exit" BY <1>1 DEF ServerInv, Counters
<1>3. \A t \in Threads : ~Holds(t)
  <2>1. ~Holds("svc") BY <1>2 DEF ServerInv, Counters
  <2>2. ~Holds("evt") BY <1>2
  <2>3. \A t \in Callers : ~Holds(t) BY <1>1, Members DEF PermitInv
  <2> QED BY <2>1, <2>2, <2>3 DEF Threads
<1>4. ~OnItsWay' BY <1>1, <1>3 DEF OnItsWay, Holds
<1>5. ~InService' /\ ~Installed' /\ ~Posting' BY <1>1, <1>2 DEF InService, Installed, Posting
<1>6. ~InList' /\ ListedOnce' BY <1>1 DEF InList, ListedOnce
<1>7. Apart' BY <1>4, <1>5, <1>6 DEF Apart
<1> QED BY <1>1, <1>6, <1>7 DEF OnePermit

\* A step that touches nothing of it.
LEMMA PermitSame == ASSUME OnePermit, UNCHANGED permit_vars PROVE OnePermit'
<1>1. UNCHANGED <<cmdsend_sem, coex_list>> /\ (InService' => InService) /\ (OnItsWay' => OnItsWay)
      /\ (Installed' => Installed) /\ (Posting' => Posting)
  BY DEF permit_vars, InService, OnItsWay, Installed, Posting, Holds
<1> QED BY <1>1, PermitLess

\* While the service runs every step keeps its one permit.
LEMMA OnePermitStep ==
  ASSUME TypeData, ServerInv, PermitInv, [Next]_vars, phase' \in {"open", "stop"}
  PROVE  OnePermit'
<1> USE PermitFacts
<1>1. CASE open BY <1>1, PermitOpen
<1>2. CASE ~open
  <2>1. phase \in {"open", "stop"} \/ ~(UNCHANGED phase) OBVIOUS
  <2>2. ASSUME NEW t \in Callers, coex_command(t) PROVE OnePermit'
    <3>1. /\ rtk_vendor_cmd_to_fw(t, "none") /\ pc[t] = "idle"
          /\ UNCHANGED <<phase, cmdsend_sem, current_cback>>
      BY <2>2 DEF coex_command, service_vars
    <3>2. t \in Threads \ {"evt"} /\ t # "svc" /\ "none" \in Cback
      BY Members, CallersAssumption DEF Cback
    <3>3. OnePermit BY <3>1 DEF PermitInv
    <3> QED BY <3>1, <3>2, <3>3, PermitSubmit
  <2>3. ASSUME NEW t \in Threads, install(t) PROVE OnePermit'
    <3>1. OnePermit BY <2>3 DEF install, PermitInv
    <3> QED BY <2>3, <3>1, PermitInstall
  <2>4. ASSUME NEW t \in Threads, xmit(t) PROVE OnePermit'
    <3>1. /\ hand' = [hand EXCEPT ![t] = None] /\ pc' = [pc EXCEPT ![t] = After(t)]
          /\ UNCHANGED <<phase, cmdsend_sem, coex_list, current_cback>> /\ pc[t] = "xmit"
      BY <2>4 DEF xmit, service_vars, parse_vars
    <3>2. OnePermit BY <3>1 DEF PermitInv
    <3>3. hand'[t] = None /\ \A u \in Threads \ {t} : hand'[u] = hand[u] /\ pc'[u] = pc[u] BY <3>1
    <3>4. pc'[t] \in {"arm", "idle"} BY <3>1 DEF After
    <3>5. OnItsWay' => OnItsWay BY <3>3 DEF OnItsWay, Holds, None
    <3>6. (InService' => InService) /\ (Posting' => Posting)
      BY <3>3, <3>4 DEF InService, Posting
    <3>7. Installed' => Installed BY <3>1, <3>3, <3>4 DEF Installed
    <3> QED BY <3>1, <3>2, <3>5, <3>6, <3>7, PermitLess
  <2>5. CASE complete_pop
    <3>1. OnePermit BY <2>5 DEF complete_pop, PermitInv
    <3> QED BY <2>5, <3>1, PermitPop
  <2>6. CASE complete_untold \/ complete_call \/ complete_post \/ complete_clear
    <3>1. UNCHANGED phase
      BY <2>6 DEF complete_untold, complete_call, complete_post, complete_clear
    <3>2. OnePermit BY <3>1 DEF PermitInv
    <3> QED BY <2>6, <3>2, PermitComplete
  <2>7. CASE \/ cmdready_loop \/ cmdready_wait_queue \/ cmdready_wait_send \/ cmdready_pop \/ cmdready_arm
    <3>1. UNCHANGED phase
      BY <2>7 DEF cmdready_loop, cmdready_wait_queue, cmdready_wait_send, cmdready_pop, cmdready_arm
    <3>2. OnePermit BY <3>1 DEF PermitInv
    <3> QED BY <2>7, <3>2, PermitService
  <2>8. CASE cmdready_submit
    <3>1. /\ pc["svc"] = "submit" /\ rtk_vendor_cmd_to_fw("svc", "svc")
          /\ UNCHANGED <<phase, cmdsend_sem, current_cback>>
      BY <2>8 DEF cmdready_submit, service_vars
    <3>2. OnePermit /\ "svc" \in Cback /\ "svc" \in Threads \ {"evt"} BY <3>1 DEF PermitInv, Cback
    <3> QED BY <3>1, <3>2, PermitSubmit
  <2>9. CASE Heartbeat_cleanup
    <3>1. phase = "open" /\ UNCHANGED permit_vars
      BY <2>9 DEF Heartbeat_cleanup, permit_vars, parse_vars, service_vars
    <3> QED BY <3>1, PermitSame DEF PermitInv
  <2>10. CASE thread_stop \/ RTK_btservice_destroyed \/ rtk_parse_cleanup
    BY <2>10 DEF thread_stop, RTK_btservice_destroyed, rtk_parse_cleanup
  <2>11. CASE Outside
    <3>1. UNCHANGED <<permit_vars, phase>> BY <2>11, OutsideSteps
    <3> QED BY <3>1, PermitSame DEF PermitInv
  <2> QED BY <1>2, <2>2, <2>3, <2>4, <2>5, <2>6, <2>7, <2>8, <2>9, <2>10, <2>11, StepCases
<1> QED BY <1>1, <1>2

\* When the library is closed no caller is on its way.
LEMMA ClosedStep ==
  ASSUME TypeData, ServerInv, PermitInv, [Next]_vars, phase' = "closed", NEW c \in Callers
  PROVE  pc'[c] = "idle"
<1> USE PermitFacts
<1>0. c \in Threads /\ c # "svc" /\ c # "evt" BY Members, CallersAssumption
<1>1. CASE rtk_parse_cleanup
  BY <1>1 DEF rtk_parse_cleanup
<1>2. CASE phase = "closed"
  <2>1. pc[c] = "idle" /\ pc["evt"] = "idle" /\ pc["svc"] = "exit"
    BY <1>2 DEF PermitInv, ServerInv, Counters
  <2>2. ASSUME NEW t \in Callers, coex_command(t) PROVE FALSE BY <1>2, <2>2 DEF coex_command
  <2>3. ASSUME NEW t \in Threads, install(t) \/ xmit(t) PROVE FALSE
    <3>1. pc[t] \in {"install", "xmit"} BY <2>3 DEF install, xmit
    <3>2. t \in Callers \/ t = "svc" \/ t = "evt" BY DEF Threads
    <3> QED BY <1>2, <2>1, <3>1, <3>2 DEF PermitInv
  <2>4. CASE complete_pop \/ complete_untold \/ complete_call \/ complete_post \/ complete_clear
    BY <1>2, <2>1, <2>4 DEF complete_pop, complete_untold, complete_call, complete_post, complete_clear
  <2>5. CASE \/ cmdready_loop \/ cmdready_wait_queue \/ cmdready_wait_send \/ cmdready_pop
             \/ cmdready_arm \/ cmdready_submit
    BY <2>1, <2>5
    DEF cmdready_loop, cmdready_wait_queue, cmdready_wait_send, cmdready_pop, cmdready_arm,
        cmdready_submit, svc_step
  <2>6. CASE open \/ Heartbeat_cleanup \/ thread_stop \/ RTK_btservice_destroyed \/ rtk_parse_cleanup
    BY <1>2, <2>6 DEF open, Heartbeat_cleanup, thread_stop, RTK_btservice_destroyed, rtk_parse_cleanup
  <2>7. CASE Outside
    <3>1. UNCHANGED pc BY <2>7, OutsideSteps DEF permit_vars
    <3> QED BY <2>1, <3>1
  <2> QED BY <2>2, <2>3, <2>4, <2>5, <2>6, <2>7, StepCases
<1>3. CASE phase # "closed" /\ ~rtk_parse_cleanup
  <2>1. UNCHANGED phase \/ phase' # "closed"
    <3>1. ASSUME NEW t \in Threads, coex_command(t) \/ install(t) \/ xmit(t) PROVE UNCHANGED phase
      BY <3>1 DEF coex_command, install, xmit
    <3>2. CASE complete_pop \/ complete_untold \/ complete_call \/ complete_post \/ complete_clear
      BY <3>2 DEF complete_pop, complete_untold, complete_call, complete_post, complete_clear
    <3>3. CASE \/ cmdready_loop \/ cmdready_wait_queue \/ cmdready_wait_send \/ cmdready_pop
               \/ cmdready_arm \/ cmdready_submit
      BY <3>3
      DEF cmdready_loop, cmdready_wait_queue, cmdready_wait_send, cmdready_pop, cmdready_arm,
          cmdready_submit
    <3>4. CASE open \/ Heartbeat_cleanup \/ thread_stop \/ RTK_btservice_destroyed
      BY <3>4 DEF open, Heartbeat_cleanup, thread_stop, RTK_btservice_destroyed
    <3>5. CASE Outside BY <3>5, OutsideSteps
    <3> QED BY <1>3, <3>1, <3>2, <3>3, <3>4, <3>5, StepCases, Members
  <2> QED BY <1>3, <2>1
<1> QED BY <1>1, <1>2, <1>3

\* While the service runs its permit is in one place at most, whatever coex_command, install and
\* the completion of other commands do at the same time to the unlocked current_cback: no call of
\* the service's callback makes a second permit, and no second heartbeat is on its way.
THEOREM SerialCorrect == Spec => []ServiceSerial
<1>1. Init => PermitInv
  <2> SUFFICES ASSUME Init PROVE PermitInv
    OBVIOUS
  <2>1. \A t \in Callers : pc[t] = "idle" BY Members, CallersAssumption DEF Init
  <2>2. phase = "closed" BY DEF Init
  <2> QED BY <2>1, <2>2 DEF PermitInv
<1>2. TypeData /\ ServerInv /\ PermitInv /\ [Next]_vars => PermitInv'
  <2> SUFFICES ASSUME TypeData, ServerInv, PermitInv, [Next]_vars PROVE PermitInv'
    OBVIOUS
  <2>1. phase' \in {"open", "stop"} => OnePermit' BY OnePermitStep
  <2>2. phase' = "closed" => \A t \in Callers : pc'[t] = "idle" BY ClosedStep
  <2> QED BY <2>1, <2>2 DEF PermitInv
<1>3. TypeOK => TypeData
  BY TypeParts
<1>4. PermitInv => ServiceSerial
  BY DEF PermitInv, ServiceSerial
<1> QED BY <1>1, <1>2, <1>3, <1>4, TypeCorrect, ServerCorrect, PTL DEF Spec
=============================================================================
