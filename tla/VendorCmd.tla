----------------------------- MODULE VendorCmd ------------------------------
(***************************************************************************)
(* The commands the vendor library sends on its own account:               *)
(*   rtk_parse.c      one vendor command at a time, the others wait in     *)
(*                    coex_list (rtk_vendor_cmd_to_fw and, for the answer, *)
(*                    rtk_cmd_complete_cback);                             *)
(*   rtk_btservice.c  the queue of the vendor service and its thread       *)
(*                    cmdready_thread, paced by two semaphores, with a     *)
(*                    timer for the answer;                                *)
(*   rtk_heartbeat.c, rtk_poll.c  a heartbeat command on every expiry of a *)
(*                    one-shot timer, and a hardware error event if three  *)
(*                    expiries pass without an answer or if an answer is   *)
(*                    out of sequence.                                     *)
(* coex_mutex covers the list and coex_cmd_send, not current_cback and not *)
(* the transmission: the sections of the code between which other threads  *)
(* can run are the actions below.                                          *)
(*                                                                         *)
(* Threads: "svc" is cmdready_thread, "evt" the thread of the stack that   *)
(* passes answers to hw_process_event, Callers are the threads whose       *)
(* parsing and timers send coexistence commands, which have no callback.   *)
(* The handler of the heartbeat timer has hb as its program counter.       *)
(* Heartbeats are the only commands of the service: a client's command is  *)
(* read from descriptor 0 (rtk_btservice.c:352) and does not get this far. *)
(***************************************************************************)
EXTENDS Integers, Sequences

CONSTANTS
  Callers,     \* threads that call rtk_vendor_cmd_to_fw with a null callback
  CountLimit,  \* expiries without an answer that make an error: COUNT_3
  Punctual,    \* TRUE: the heartbeat timer expires only when nobody can do
               \* anything else, one second being long for threads and controller
  MaxCoex,     \* bound: coexistence commands
  MaxTicks,    \* bound: heartbeat periods with a controller that answers
  MaxOpens     \* bound: times the library is opened

ASSUME CallersAssumption == "svc" \notin Callers /\ "evt" \notin Callers
ASSUME BoundsAssumption ==
  /\ CountLimit \in Nat
  /\ Punctual \in BOOLEAN
  /\ MaxCoex \in Nat
  /\ MaxTicks \in Nat
  /\ MaxOpens \in Nat

Threads == Callers \cup {"svc", "evt"}
Cback == {"none", "svc"}           \* null, Rtk_Service_Cmd_Event_Cback
Command == [id : Nat, cb : Cback]  \* a command with "svc" is a heartbeat
None == [id |-> 0, cb |-> "none"]
NoEvent == [cb |-> "none", seq |-> 0]
SeqMod == 65536                    \* sequence numbers are uint16_t
SeqNum == 0 .. SeqMod - 1
Event == [cb : Cback, seq : SeqNum]

VARIABLES
  \* rtk_parse.c
  coex_cmd_send,   \* a command is with the controller or about to be sent
  coex_list,       \* commands that wait
  current_cback,   \* whom to tell of the next answer
  \* rtk_btservice.c
  cmdqueue,        \* number of heartbeats in cmdqueue_list
  cmdqueue_sem, cmdsend_sem,
  cmdqueue_thread_running,
  complete_cback,  \* current_complete_cback is rtkbt_heartbeat_cmpl_cback
  reply_timer,     \* timer_hcicmd_reply is armed
  \* rtk_heartbeat.c, rtk_poll.c
  heartbeatFlag, heartbeatCount, nextSeqNum,
  poll_timer,      \* the one-shot timer is armed
  hb,              \* where its handler is
  alarm,           \* the first hardware error event of this session
  \* threads
  pc,
  hand,            \* the command a thread is about to transmit
  event,           \* the answer evt is about to pass to a callback
  phase,           \* how far userial_vendor_close has come
  \* the controller
  ctrl, events, ctrl_seq, alive,
  \* history and bounds
  accepted, sent, answered,   \* of this session
  held_over,       \* this session began with coex_cmd_send set by an earlier one
  coexes, ticks, opens

parse_vars == <<coex_cmd_send, coex_list, current_cback>>
service_vars == <<cmdqueue, cmdqueue_sem, cmdsend_sem, cmdqueue_thread_running, complete_cback, reply_timer>>
heartbeat_vars == <<heartbeatFlag, heartbeatCount, nextSeqNum, poll_timer, hb, alarm>>
thread_vars == <<pc, hand, event, phase>>
ctrl_vars == <<ctrl, events, ctrl_seq, alive>>
count_vars == <<accepted, sent, answered>>
bound_vars == <<held_over, coexes, ticks, opens>>
vars == <<parse_vars, service_vars, heartbeat_vars, thread_vars, ctrl_vars, count_vars, bound_vars>>

Init ==
  /\ coex_cmd_send = FALSE /\ coex_list = << >> /\ current_cback = "none"
  /\ cmdqueue = 0 /\ cmdqueue_sem = 0 /\ cmdsend_sem = 0
  /\ cmdqueue_thread_running = FALSE /\ complete_cback = FALSE /\ reply_timer = FALSE
  /\ heartbeatFlag = FALSE /\ heartbeatCount = 0 /\ nextSeqNum = 1
  /\ poll_timer = FALSE /\ hb = "idle" /\ alarm = "none"
  /\ pc = [t \in Threads |-> IF t = "svc" THEN "exit" ELSE "idle"]
  /\ hand = [t \in Threads |-> None]
  /\ event = NoEvent /\ phase = "closed"
  /\ ctrl = << >> /\ events = << >> /\ ctrl_seq = 0 /\ alive = TRUE
  /\ accepted = 0 /\ sent = 0 /\ answered = 0
  /\ held_over = FALSE /\ coexes = 0 /\ ticks = 0 /\ opens = 0

-----------------------------------------------------------------------------
(* rtk_parse.c: the command server.                                        *)

\* Where thread t goes on once its command is sent or queued.
After(t) == IF t = "svc" THEN "arm" ELSE "idle"

\* mutant: coex_cmd_send is not set for the command that is sent at once
rtk_vendor_cmd_to_fw_unset(t, cb) ==
  LET c == [id |-> accepted + 1, cb |-> cb] IN
  /\ accepted' = accepted + 1
  /\ UNCHANGED coex_cmd_send
  /\ IF ~coex_cmd_send
     THEN /\ hand' = [hand EXCEPT ![t] = c]
          /\ pc' = [pc EXCEPT ![t] = "install"]
          /\ UNCHANGED coex_list
     ELSE /\ coex_list' = Append(coex_list, c)
          /\ pc' = [pc EXCEPT ![t] = After(t)]
          /\ UNCHANGED hand

\* rtk_vendor_cmd_to_fw up to the unlock of coex_mutex.
rtk_vendor_cmd_to_fw(t, cb) ==
  LET c == [id |-> accepted + 1, cb |-> cb] IN
  /\ accepted' = accepted + 1
  /\ \/ /\ ~coex_cmd_send
        /\ coex_cmd_send' = TRUE
        /\ hand' = [hand EXCEPT ![t] = c]
        /\ pc' = [pc EXCEPT ![t] = "install"]
        /\ UNCHANGED coex_list
     \/ /\ coex_cmd_send
        /\ coex_list' = Append(coex_list, c)
        /\ pc' = [pc EXCEPT ![t] = After(t)]
        /\ UNCHANGED <<coex_cmd_send, hand>>

\* A coexistence command: profile report, bit pool, mailbox, bt_on.  The threads
\* that send them are stopped by userial_vendor_close after the service.
coex_command(t) ==
  /\ phase # "closed" /\ pc[t] = "idle"
  /\ coexes < MaxCoex
  /\ coexes' = coexes + 1
  /\ rtk_vendor_cmd_to_fw(t, "none")
  /\ UNCHANGED <<current_cback, service_vars, heartbeat_vars, event, phase, ctrl_vars, sent, answered, held_over, ticks, opens>>

\* rtk_prof.current_cback = p_cback, of a new command or of one from the list.
install(t) ==
  /\ pc[t] = "install"
  /\ current_cback' = hand[t].cb
  /\ pc' = [pc EXCEPT ![t] = "xmit"]
  /\ UNCHANGED <<coex_cmd_send, coex_list, service_vars, heartbeat_vars, hand, event, phase, ctrl_vars, count_vars, bound_vars>>

\* bt_vendor_cbacks->xmit_cb
xmit(t) ==
  /\ pc[t] = "xmit"
  /\ ctrl' = Append(ctrl, hand[t])
  /\ sent' = hand[t].id
  /\ hand' = [hand EXCEPT ![t] = None]
  /\ pc' = [pc EXCEPT ![t] = After(t)]
  /\ UNCHANGED <<parse_vars, service_vars, heartbeat_vars, event, phase, events, ctrl_seq, alive, accepted, answered, bound_vars>>

\* mutant: the next command is taken and the server is free at the same time
complete_pop_frees ==
  /\ phase = "open" /\ pc["evt"] = "idle" /\ events # << >>
  /\ event' = Head(events)
  /\ events' = Tail(events)
  /\ coex_cmd_send' = FALSE
  /\ IF coex_list # << >>
     THEN hand' = [hand EXCEPT !["evt"] = Head(coex_list)] /\ coex_list' = Tail(coex_list)
     ELSE UNCHANGED <<coex_list, hand>>
  /\ pc' = [pc EXCEPT !["evt"] = "call"]
  /\ UNCHANGED <<current_cback, service_vars, heartbeat_vars, phase, ctrl, ctrl_seq, alive, count_vars, bound_vars>>

\* rtk_cmd_complete_cback up to the unlock: take the next command or be free.
\* The stack passes nothing on once it has begun to close the library.
complete_pop ==
  /\ phase = "open" /\ pc["evt"] = "idle" /\ events # << >>
  /\ event' = Head(events)
  /\ events' = Tail(events)
  /\ \/ /\ coex_list # << >>
        /\ hand' = [hand EXCEPT !["evt"] = Head(coex_list)]
        /\ coex_list' = Tail(coex_list)
        /\ UNCHANGED coex_cmd_send
     \/ /\ coex_list = << >>
        /\ coex_cmd_send' = FALSE
        /\ UNCHANGED <<coex_list, hand>>
  /\ pc' = [pc EXCEPT !["evt"] = "call"]
  /\ UNCHANGED <<current_cback, service_vars, heartbeat_vars, phase, ctrl, ctrl_seq, alive, count_vars, bound_vars>>

Holds(t) == hand[t].id # 0

\* mutant: the command taken from the list is sent only if there was nobody to tell
AfterCall_drops == IF Holds("evt") /\ pc["evt"] = "call" THEN "install" ELSE "idle"

\* After the callback the command taken from the list, if any, is sent.
AfterCall == IF Holds("evt") THEN "install" ELSE "idle"

\* current_cback is null: nobody is told.
complete_untold ==
  /\ pc["evt"] = "call" /\ current_cback = "none"
  /\ pc' = [pc EXCEPT !["evt"] = AfterCall]
  /\ event' = NoEvent
  /\ UNCHANGED <<parse_vars, service_vars, heartbeat_vars, hand, phase, ctrl_vars, count_vars, bound_vars>>

\* The first hardware error event is the one the stack restarts for.
raise(what) == alarm' = IF alarm = "none" THEN what ELSE alarm

\* rtkbt_heartbeat_cmpl_cback.  In the answer to another command the bytes at the
\* offsets of status and number may have any value.
rtkbt_heartbeat_cmpl_cback ==
  \/ /\ heartbeatFlag
     /\ event.cb = "none" \/ event.seq = nextSeqNum
     /\ nextSeqNum' = (nextSeqNum + 1) % SeqMod
     /\ heartbeatCount' = 0
     /\ UNCHANGED alarm
  \/ /\ heartbeatFlag
     /\ event.cb = "none" \/ event.seq # nextSeqNum
     /\ raise("missing")
     /\ UNCHANGED <<nextSeqNum, heartbeatCount>>
  \/ /\ ~heartbeatFlag
     /\ UNCHANGED <<nextSeqNum, heartbeatCount, alarm>>

\* Rtk_Service_Cmd_Event_Cback, called through current_cback ...
complete_call ==
  /\ pc["evt"] = "call" /\ current_cback = "svc"
  /\ pc' = [pc EXCEPT !["evt"] = "post"]
  /\ event' = NoEvent
  /\ \/ complete_cback /\ rtkbt_heartbeat_cmpl_cback
     \/ ~complete_cback /\ UNCHANGED <<nextSeqNum, heartbeatCount, alarm>>
  /\ UNCHANGED <<parse_vars, service_vars, heartbeatFlag, poll_timer, hb, hand, phase, ctrl_vars, count_vars, bound_vars>>

\* ... to its end: the service may send its next command.
complete_post ==
  /\ pc["evt"] = "post"
  /\ complete_cback' = FALSE
  /\ reply_timer' = FALSE
  /\ cmdsend_sem' = cmdsend_sem + 1
  /\ pc' = [pc EXCEPT !["evt"] = "clear"]
  /\ UNCHANGED <<parse_vars, cmdqueue, cmdqueue_sem, cmdqueue_thread_running, heartbeat_vars, hand, event, phase, ctrl_vars, count_vars, bound_vars>>

\* mutant: current_cback keeps its value
complete_clear_keeps ==
  /\ pc["evt"] = "clear"
  /\ pc' = [pc EXCEPT !["evt"] = AfterCall]
  /\ UNCHANGED <<parse_vars, service_vars, heartbeat_vars, hand, event, phase, ctrl_vars, count_vars, bound_vars>>

\* rtk_prof.current_cback = NULL, whoever has written it in the meantime.
complete_clear ==
  /\ pc["evt"] = "clear"
  /\ current_cback' = "none"
  /\ pc' = [pc EXCEPT !["evt"] = AfterCall]
  /\ UNCHANGED <<coex_cmd_send, coex_list, service_vars, heartbeat_vars, hand, event, phase, ctrl_vars, count_vars, bound_vars>>

-----------------------------------------------------------------------------
(* rtk_btservice.c: the queue of the service and its thread.               *)

\* Rtk_Service_Vendorcmd_Hook; without a service (a null pointer) nothing happens.
Rtk_Service_Vendorcmd_Hook ==
  IF phase \in {"open", "stop", "join"}
  THEN cmdqueue' = cmdqueue + 1 /\ cmdqueue_sem' = cmdqueue_sem + 1
  ELSE UNCHANGED <<cmdqueue, cmdqueue_sem>>

svc_step(from, to) == pc["svc"] = from /\ pc' = [pc EXCEPT !["svc"] = to]

cmdready_loop ==
  /\ svc_step("loop", IF cmdqueue_thread_running THEN "wait_queue" ELSE "exit")
  /\ UNCHANGED <<parse_vars, service_vars, heartbeat_vars, hand, event, phase, ctrl_vars, count_vars, bound_vars>>

\* sem_wait(&cmdqueue_sem)
cmdready_wait_queue ==
  /\ cmdqueue_sem > 0
  /\ cmdqueue_sem' = cmdqueue_sem - 1
  /\ svc_step("wait_queue", "wait_send")
  /\ UNCHANGED <<parse_vars, cmdqueue, cmdsend_sem, cmdqueue_thread_running, complete_cback, reply_timer, heartbeat_vars, hand, event, phase, ctrl_vars, count_vars, bound_vars>>

\* sem_wait(&cmdsend_sem): the last command of the service has been answered.
cmdready_wait_send ==
  /\ cmdsend_sem > 0
  /\ cmdsend_sem' = cmdsend_sem - 1
  /\ svc_step("wait_send", "pop")
  /\ UNCHANGED <<parse_vars, cmdqueue, cmdqueue_sem, cmdqueue_thread_running, complete_cback, reply_timer, heartbeat_vars, hand, event, phase, ctrl_vars, count_vars, bound_vars>>

\* mutant: the queue is taken to hold a command whenever the thread has been woken
cmdready_pop_unchecked ==
  /\ svc_step("pop", "submit") /\ cmdqueue' = cmdqueue - 1 /\ complete_cback' = TRUE
  /\ UNCHANGED <<parse_vars, cmdqueue_sem, cmdsend_sem, cmdqueue_thread_running, reply_timer, heartbeat_vars, hand, event, phase, ctrl_vars, count_vars, bound_vars>>

cmdready_pop ==
  /\ IF cmdqueue_thread_running /\ cmdqueue > 0
     THEN svc_step("pop", "submit") /\ cmdqueue' = cmdqueue - 1 /\ complete_cback' = TRUE
     ELSE svc_step("pop", "loop") /\ UNCHANGED <<cmdqueue, complete_cback>>
  /\ UNCHANGED <<parse_vars, cmdqueue_sem, cmdsend_sem, cmdqueue_thread_running, reply_timer, heartbeat_vars, hand, event, phase, ctrl_vars, count_vars, bound_vars>>

cmdready_submit ==
  /\ pc["svc"] = "submit"
  /\ rtk_vendor_cmd_to_fw("svc", "svc")
  /\ UNCHANGED <<current_cback, service_vars, heartbeat_vars, event, phase, ctrl_vars, sent, answered, bound_vars>>

\* hcicmd_start_reply_timer, after the command has gone out.
cmdready_arm ==
  /\ svc_step("arm", "loop")
  /\ reply_timer' = TRUE
  /\ UNCHANGED <<parse_vars, cmdqueue, cmdqueue_sem, cmdsend_sem, cmdqueue_thread_running, complete_cback, heartbeat_vars, hand, event, phase, ctrl_vars, count_vars, bound_vars>>

-----------------------------------------------------------------------------
(* The heartbeat.                                                          *)

\* Nobody can do anything but wait.
Quiet ==
  /\ phase = "open" /\ hb = "idle"
  /\ \/ pc["svc"] = "wait_queue" /\ cmdqueue_sem = 0
     \/ pc["svc"] = "wait_send" /\ cmdsend_sem = 0
  /\ \A t \in Threads \ {"svc"} : pc[t] = "idle"
  /\ events = << >>
  /\ alive => ctrl = << >>

\* hcicmd_reply_timeout_handler; the timer is periodic.  Its 8 seconds are more than
\* the one of the heartbeat timer.
reply_timer_expires ==
  /\ reply_timer
  /\ Punctual => Quiet /\ ~poll_timer
  /\ alarm = "none" /\ raise("reply")
  /\ UNCHANGED <<parse_vars, service_vars, heartbeatFlag, heartbeatCount, nextSeqNum, poll_timer, hb, thread_vars, ctrl_vars, count_vars, bound_vars>>

\* Heartbeat_init, when the stack sets the event mask, on a controller that has
\* heartbeats: flags, timer, first command.
Heartbeat_init ==
  /\ phase = "open" /\ ~heartbeatFlag
  /\ heartbeatFlag' = TRUE
  /\ heartbeatCount' = 0
  /\ Rtk_Service_Vendorcmd_Hook
  /\ poll_timer' = TRUE
  /\ UNCHANGED <<parse_vars, cmdsend_sem, cmdqueue_thread_running, complete_cback, reply_timer, nextSeqNum, hb, alarm, thread_vars, ctrl_vars, count_vars, bound_vars>>

\* The timer expires; a new thread will run heartbeat_timed_out.
poll_timer_expires ==
  /\ poll_timer /\ hb = "idle"
  /\ Punctual => Quiet
  /\ alive => ticks < MaxTicks
  /\ ticks' = IF alive THEN ticks + 1 ELSE ticks
  /\ poll_timer' = FALSE
  /\ hb' = "due"
  /\ UNCHANGED <<parse_vars, service_vars, heartbeatFlag, heartbeatCount, nextSeqNum, alarm, thread_vars, ctrl_vars, count_vars, held_over, coexes, opens>>

\* heartbeat_timed_out to the unlock of heartbeat_mutex: count, or give up.
heartbeat_timed_out ==
  /\ hb = "due"
  /\ \/ /\ ~heartbeatFlag
        /\ hb' = "idle"
        /\ UNCHANGED <<heartbeatCount, alarm>>
     \/ /\ heartbeatFlag
        /\ heartbeatCount' = heartbeatCount + 1
        /\ IF heartbeatCount + 1 >= CountLimit
           THEN raise("suspend") /\ hb' = "idle"
           ELSE UNCHANGED alarm /\ hb' = "send"
  /\ UNCHANGED <<parse_vars, service_vars, heartbeatFlag, nextSeqNum, poll_timer, thread_vars, ctrl_vars, count_vars, bound_vars>>

\* Its second half: the next heartbeat ...
heartbeat_send ==
  /\ hb = "send"
  /\ IF heartbeatFlag
     THEN Rtk_Service_Vendorcmd_Hook /\ hb' = "flush"
     ELSE UNCHANGED <<cmdqueue, cmdqueue_sem>> /\ hb' = "idle"
  /\ UNCHANGED <<parse_vars, cmdsend_sem, cmdqueue_thread_running, complete_cback, reply_timer, heartbeatFlag, heartbeatCount, nextSeqNum, poll_timer, alarm, thread_vars, ctrl_vars, count_vars, bound_vars>>

\* mutant: the one-shot timer is not armed again
poll_timer_flush_once ==
  /\ hb = "flush"
  /\ hb' = "idle"
  /\ UNCHANGED <<parse_vars, service_vars, heartbeatFlag, heartbeatCount, nextSeqNum, poll_timer, alarm, thread_vars, ctrl_vars, count_vars, bound_vars>>

\* ... and poll_timer_flush, which does nothing after poll_enable(FALSE).
poll_timer_flush ==
  /\ hb = "flush"
  /\ poll_timer' = heartbeatFlag
  /\ hb' = "idle"
  /\ UNCHANGED <<parse_vars, service_vars, heartbeatFlag, heartbeatCount, nextSeqNum, alarm, thread_vars, ctrl_vars, count_vars, bound_vars>>

-----------------------------------------------------------------------------
(* The controller and the stack (external).                                *)

\* The controller completes its command; heartbeats are numbered.
ctrl_answers ==
  /\ alive /\ ctrl # << >>
  /\ LET c == Head(ctrl)
         n == IF c.cb = "svc" THEN (ctrl_seq + 1) % SeqMod ELSE ctrl_seq
     IN  /\ ctrl_seq' = n
         /\ events' = Append(events, [cb |-> c.cb, seq |-> n])
  /\ ctrl' = Tail(ctrl)
  /\ answered' = answered + 1
  /\ UNCHANGED <<parse_vars, service_vars, heartbeat_vars, thread_vars, alive, accepted, sent, bound_vars>>

\* The controller hangs.
ctrl_dies ==
  /\ alive /\ phase = "open"
  /\ alive' = FALSE
  /\ UNCHANGED <<parse_vars, service_vars, heartbeat_vars, thread_vars, ctrl, events, ctrl_seq, count_vars, bound_vars>>

-----------------------------------------------------------------------------
(* Opening and closing.                                                    *)

\* userial_vendor_init with rtk_parse_init, then RTK_btservice_init; the controller
\* has been powered on.  coex_cmd_send is a static variable that nobody resets.
open ==
  /\ phase = "closed" /\ opens < MaxOpens
  /\ opens' = opens + 1
  /\ phase' = "open"
  /\ coex_list' = << >> /\ current_cback' = "none" /\ UNCHANGED coex_cmd_send
  /\ cmdqueue' = 0 /\ cmdqueue_sem' = 0 /\ cmdsend_sem' = 1
  /\ cmdqueue_thread_running' = TRUE /\ complete_cback' = FALSE /\ reply_timer' = FALSE
  /\ pc' = [pc EXCEPT !["svc"] = "loop"]
  /\ ctrl_seq' = 0 /\ alive' = TRUE
  /\ alarm' = "none" /\ held_over' = coex_cmd_send
  /\ UNCHANGED <<heartbeatFlag, heartbeatCount, nextSeqNum, poll_timer, hb, hand, event, ctrl, events, count_vars, coexes, ticks>>

\* userial_vendor_close: Heartbeat_cleanup.  The handler of the timer may be running.
Heartbeat_cleanup ==
  /\ phase = "open" /\ pc["evt"] = "idle"
  /\ phase' = "stop"
  /\ heartbeatFlag' = FALSE
  /\ nextSeqNum' = IF heartbeatFlag THEN 1 ELSE nextSeqNum
  /\ heartbeatCount' = IF heartbeatFlag THEN 0 ELSE heartbeatCount
  /\ poll_timer' = FALSE
  /\ UNCHANGED <<parse_vars, service_vars, hb, alarm, pc, hand, event, ctrl_vars, count_vars, bound_vars>>

\* mutant: only the thread that waits for a command is woken
thread_stop_queue_only ==
  /\ phase = "stop"
  /\ phase' = "join"
  /\ cmdqueue_thread_running' = FALSE
  /\ cmdqueue_sem' = cmdqueue_sem + 1
  /\ UNCHANGED <<parse_vars, cmdqueue, cmdsend_sem, complete_cback, reply_timer, heartbeat_vars, pc, hand, event, ctrl_vars, count_vars, bound_vars>>

\* RTK_btservice_thread_stop up to pthread_join
thread_stop ==
  /\ phase = "stop"
  /\ phase' = "join"
  /\ cmdqueue_thread_running' = FALSE
  /\ cmdqueue_sem' = cmdqueue_sem + 1
  /\ cmdsend_sem' = cmdsend_sem + 1
  /\ UNCHANGED <<parse_vars, cmdqueue, complete_cback, reply_timer, heartbeat_vars, pc, hand, event, ctrl_vars, count_vars, bound_vars>>

\* The rest of RTK_btservice_destroyed, once the thread has ended.
RTK_btservice_destroyed ==
  /\ phase = "join" /\ pc["svc"] = "exit"
  /\ phase' = "destroyed"
  /\ cmdqueue' = 0 /\ cmdqueue_sem' = 0 /\ cmdsend_sem' = 0
  /\ complete_cback' = FALSE /\ reply_timer' = FALSE
  /\ UNCHANGED <<parse_vars, cmdqueue_thread_running, heartbeat_vars, pc, hand, event, ctrl_vars, count_vars, bound_vars>>

\* The threads of userial are joined, rtk_parse_cleanup, and the controller is cut off
\* with whatever it had to do.  coex_cmd_send keeps its value.
rtk_parse_cleanup ==
  /\ phase = "destroyed" /\ \A t \in Callers : pc[t] = "idle"
  /\ phase' = "closed"
  /\ coex_list' = << >> /\ current_cback' = "none" /\ UNCHANGED coex_cmd_send
  /\ ctrl' = << >> /\ events' = << >> /\ UNCHANGED <<ctrl_seq, alive>>
  /\ accepted' = 0 /\ answered' = 0 /\ sent' = 0
  /\ UNCHANGED <<service_vars, heartbeat_vars, pc, hand, event, bound_vars>>

-----------------------------------------------------------------------------
Caller(t) == coex_command(t) \/ install(t) \/ xmit(t)
Evt ==
  \/ complete_pop \/ complete_untold \/ complete_call \/ complete_post \/ complete_clear
  \/ install("evt") \/ xmit("evt")
Svc ==
  \/ cmdready_loop \/ cmdready_wait_queue \/ cmdready_wait_send \/ cmdready_pop
  \/ cmdready_submit \/ cmdready_arm \/ install("svc") \/ xmit("svc")
Handler == heartbeat_timed_out \/ heartbeat_send \/ poll_timer_flush
Close == thread_stop \/ RTK_btservice_destroyed \/ rtk_parse_cleanup

Next ==
  \/ \E t \in Callers : Caller(t)
  \/ Evt \/ Svc \/ Handler \/ Close
  \/ Heartbeat_init \/ poll_timer_expires \/ reply_timer_expires
  \/ ctrl_answers \/ ctrl_dies
  \/ open \/ Heartbeat_cleanup

Spec == Init /\ [][Next]_vars

\* Threads run, armed timers expire, a closing that has begun goes on, and a controller
\* that is alive answers.  Nothing forces anybody to send commands, to open or to close.
FairSpec ==
  /\ Spec
  /\ \A t \in Callers : WF_vars(install(t) \/ xmit(t))
  /\ WF_vars(Evt) /\ WF_vars(Svc) /\ WF_vars(Handler) /\ WF_vars(Close)
  /\ WF_vars(poll_timer_expires) /\ WF_vars(ctrl_answers)

-----------------------------------------------------------------------------
(* Properties.                                                             *)

TypeOK ==
  /\ coex_cmd_send \in BOOLEAN
  /\ coex_list \in Seq(Command)
  /\ current_cback \in Cback
  /\ cmdqueue \in Nat /\ cmdqueue_sem \in Nat /\ cmdsend_sem \in Nat
  /\ cmdqueue_thread_running \in BOOLEAN /\ complete_cback \in BOOLEAN /\ reply_timer \in BOOLEAN
  /\ heartbeatFlag \in BOOLEAN /\ heartbeatCount \in Nat /\ nextSeqNum \in SeqNum
  /\ poll_timer \in BOOLEAN
  /\ hb \in {"idle", "due", "send", "flush"}
  /\ alarm \in {"none", "missing", "suspend", "reply"}
  /\ pc \in [Threads -> {"idle", "install", "xmit", "call", "post", "clear", "loop",
                         "wait_queue", "wait_send", "pop", "submit", "arm", "exit"}]
  /\ hand \in [Threads -> Command]
  /\ event \in Event
  /\ phase \in {"closed", "open", "stop", "join", "destroyed"}
  /\ ctrl \in Seq(Command) /\ events \in Seq(Event)
  /\ ctrl_seq \in SeqNum /\ alive \in BOOLEAN
  /\ accepted \in Nat /\ sent \in Nat /\ answered \in Nat
  /\ held_over \in BOOLEAN /\ coexes \in Nat /\ ticks \in Nat /\ opens \in Nat

\* The server of rtk_parse.c keeps to VendorServer: whichever threads submit, answer and
\* complete at the same time, commands go out in the order in which they were accepted,
\* none twice, and never two before an answer.
Server == INSTANCE VendorServer
ServesInOrder == Server!Spec

\* The inductive invariant behind it.  The waiting commands are the last ones accepted;
\* a command that left the list or never entered it is in one hand, with the controller
\* or on its way back, and coex_cmd_send says so: it is set with no command under way only
\* in a session that found it set.
Waiting ==
  \A i \in 1..Len(coex_list) : coex_list[i].id = accepted - Len(coex_list) + i
InHand ==
  \A t \in Threads : Holds(t) =>
    /\ coex_cmd_send /\ ctrl = << >> /\ events = << >>
    /\ hand[t].id = sent + 1
    /\ accepted = sent + 1 + Len(coex_list)
    /\ \A u \in Threads : Holds(u) => u = t
NoneInHand == (\A t \in Threads : ~Holds(t)) => accepted = sent + Len(coex_list)
Free ==
  ~coex_cmd_send =>
    /\ coex_list = << >> /\ ctrl = << >> /\ events = << >>
    /\ \A t \in Threads : ~Holds(t)
OnePlace ==
  /\ Len(ctrl) + Len(events) <= 1
  /\ answered + Len(ctrl) = sent
Counters ==
  /\ \A t \in Threads :
       /\ pc[t] \in {"install", "xmit"} => Holds(t)
       /\ Holds(t) => pc[t] \in {"install", "xmit"} \/ (t = "evt" /\ pc[t] # "idle")
  /\ pc["evt"] # "idle" => phase = "open"
  /\ phase \in {"destroyed", "closed"} => pc["svc"] = "exit"
Emptied == phase = "closed" => coex_list = << >>
Occupied ==
  coex_cmd_send =>
    \/ ctrl # << >> \/ events # << >> \/ \E t \in Threads : Holds(t)
    \/ held_over \/ phase = "closed"
ServerInv ==
  Waiting /\ InHand /\ NoneInHand /\ Free /\ OnePlace /\ Counters /\ Emptied /\ Occupied

\* Where the permit of cmdsend_sem can be but in the semaphore: with cmdready_thread until it
\* has submitted its command; with the command until its callback is installed; with the
\* installed callback, unless the thread of the stack is about to clear it; and with that
\* thread between the callback and sem_post.
InService == pc["svc"] \in {"pop", "submit"}
Listed(i) == coex_list[i].cb = "svc"
InList == \E i \in 1..Len(coex_list) : Listed(i)
OnItsWay == \E t \in Threads : Holds(t) /\ hand[t].cb = "svc" /\ pc[t] # "xmit"
Installed == current_cback = "svc" /\ pc["evt"] \notin {"post", "clear"}
Posting == pc["evt"] = "post"

Apart ==
  /\ cmdsend_sem = 1 => ~InService /\ ~InList /\ ~OnItsWay /\ ~Installed /\ ~Posting
  /\ InService => ~InList /\ ~OnItsWay /\ ~Installed /\ ~Posting
  /\ InList => ~OnItsWay /\ ~Installed /\ ~Posting
  /\ OnItsWay => ~Installed /\ ~Posting
ListedOnce == \A i, j \in 1..Len(coex_list) : Listed(i) /\ Listed(j) => i = j
OnePermit == cmdsend_sem \in {0, 1} /\ Apart /\ ListedOnce

\* The service has one permit: while it runs (RTK_btservice_init to RTK_btservice_thread_stop)
\* the permit of cmdsend_sem is in one place at most, whatever the threads do to the unlocked
\* current_cback, so that no second heartbeat is handed to rtk_vendor_cmd_to_fw, waits in
\* coex_list or has its callback installed beside the first, and sem_post never makes two
\* permits of one.  The permit may be lost (complete_clear erases a callback just installed),
\* and it may come back early (the callback of a heartbeat is called with the answer to
\* another command): this does not say that the heartbeat before has been answered.
ServiceSerial == phase \in {"open", "stop"} => OnePermit

\* The commands accepted go to the controller if that answers and the library stays open:
\* completion and submission at the same time strand no command in coex_list.  The exception
\* is a session that finds coex_cmd_send still set by the one before, which was closed with
\* a command unanswered.  (Within the bounds the supply of commands ends, so the last of them
\* is sent as well.)
CommandsSent ==
  (sent < accepted) ~> (sent = accepted \/ phase # "open" \/ ~alive \/ held_over)

\* A controller that hangs is noticed: no race of its last answers with the timer or the
\* service thread stops the count before the hardware error event.
SilenceNoticed == (~alive /\ heartbeatFlag) ~> (alarm # "none" \/ ~heartbeatFlag)

\* userial_vendor_close returns: the service thread ends wherever the close finds it, also
\* while it waits for an answer that does not come.
CloseEnds == (phase = "stop") ~> (phase = "closed")

\* The stack is told to restart ("controller may be suspend! Now restart bluedroid stack",
\* "heartbeat event missing:  restart bluedroid stack") only if the controller of this session
\* hangs.
NoFalseAlarm == alive => alarm = "none"
=============================================================================
