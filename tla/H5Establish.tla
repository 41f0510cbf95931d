---------------------------- MODULE H5Establish ----------------------------
(***************************************************************************)
(* Link establishment of the H5 (three-wire UART) link, hci_h5.c: from     *)
(* HCI_VSC_H5_INIT through the SYNC and CONF handshakes to H5_ACTIVE, with  *)
(* the two periodic timers that repeat the requests, the result reported   *)
(* to the hardware configuration, and the fall back to H5_UNINITIALIZED    *)
(* when the controller restarts.                                           *)
(*                                                                         *)
(* Four threads run this code:                                             *)
(*   cmd    userial_recv_socket_thread, in hci_h5_send_sync_cmd;           *)
(*   rx     userial_recv_uart_thread, in h5_process_ctl_pkts;              *)
(*   sync, conf   the threads that run the handlers of the two timers.     *)
(* None of the variables is protected by a lock.  A link control packet is *)
(* unreliable: hci_h5_send_*_req and _resp put it in unrel and h5_wake_up  *)
(* writes it to the UART before they return, so that sending is one append *)
(* to the wire.  The handler of a received packet is one step where the    *)
(* accesses of the other threads in between could as well happen before or *)
(* after it, and two steps where they could not.                           *)
(***************************************************************************)
EXTENDS Integers, Sequences

CONSTANTS
  SyncLimit,    \* SYNC_RETRANS_COUNT
  ConfLimit,    \* CONF_RETRANS_COUNT
  MaxRestarts,  \* bound: restarts of the controller
  WireCap       \* bound: packets on each wire; more are lost

ASSUME LimitsAssumption ==
  /\ SyncLimit \in Nat
  /\ ConfLimit \in Nat
ASSUME CapsAssumption ==
  /\ MaxRestarts \in Nat
  /\ WireCap \in Nat

VARIABLES
  link_estab_state,
  sync_timer, conf_timer,                  \* the timers are armed
  sync_due, conf_due,                      \* an expiry waits for its handler
  sync_retrans_count, conf_retrans_count,
  loaded,       \* what a count++ has read, per handler
  pc,           \* where each thread is
  oks, fails,   \* results queued by rtk_notify_hw_h5_init_result
  hw_errors,    \* calls of rtkbt_h5_send_hw_error
  syncs, confs, \* history: requests sent, counted up to one above the limit
  h2c, c2h,     \* the two wires
  c_state,      \* controller: the state of its side
  restarts      \* controller: restarts so far

timers  == <<sync_timer, conf_timer, sync_due, conf_due>>
counts  == <<sync_retrans_count, conf_retrans_count, loaded>>
ctrl    == <<c_state, restarts>>
vars == <<link_estab_state, timers, counts, pc, oks, fails, hw_errors, syncs, confs,
          h2c, c2h, ctrl>>

Threads == {"cmd", "rx", "sync", "conf"}
States  == {"H5_UNINITIALIZED", "H5_INITIALIZED", "H5_ACTIVE"}
Ctl     == {"sync", "sync_resp", "conf", "conf_resp"}

DataTypeOK ==
  /\ link_estab_state \in States
  /\ sync_retrans_count \in Nat /\ conf_retrans_count \in Nat
  /\ loaded \in [{"sync", "conf"} -> Nat]
  /\ pc \in [Threads -> {"idle", "send", "start_timer", "done", "resync",
                         "check", "load", "store", "state", "notify", "stop"}]
  /\ oks \in Nat /\ fails \in Nat
  /\ hw_errors \in Nat
  /\ syncs \in 0..(SyncLimit + 1) /\ confs \in 0..(ConfLimit + 1)
  /\ h2c \in Seq(Ctl) /\ c2h \in Seq(Ctl)
  /\ c_state \in States
  /\ restarts \in 0..MaxRestarts

FlagTypeOK ==
  /\ sync_timer \in BOOLEAN /\ conf_timer \in BOOLEAN
  /\ sync_due \in BOOLEAN /\ conf_due \in BOOLEAN

\* The type invariant: one of the three states of the link, threads at known
\* places, link control packets on the wires.
TypeOK == DataTypeOK /\ FlagTypeOK

Init ==
  /\ link_estab_state = "H5_UNINITIALIZED"
  /\ sync_timer = FALSE /\ conf_timer = FALSE
  /\ sync_due = FALSE /\ conf_due = FALSE
  /\ sync_retrans_count = 0 /\ conf_retrans_count = 0
  /\ loaded = [h \in {"sync", "conf"} |-> 0]
  /\ pc = [t \in Threads |-> "idle"]
  /\ oks = 0 /\ fails = 0 /\ hw_errors = 0
  /\ syncs = 0 /\ confs = 0
  /\ h2c = << >> /\ c2h = << >>
  /\ c_state = "H5_UNINITIALIZED" /\ restarts = 0

Goto(t, l) == pc' = [pc EXCEPT ![t] = l]
UpTo(n, max) == IF n < max THEN n + 1 ELSE n
Put(w, p) == IF Len(w) < WireCap THEN Append(w, p) ELSE w

hci_h5_send_sync_req == h2c' = Put(h2c, "sync") /\ syncs' = UpTo(syncs, SyncLimit + 1)
hci_h5_send_conf_req == h2c' = Put(h2c, "conf") /\ confs' = UpTo(confs, ConfLimit + 1)
hci_h5_send_sync_resp == h2c' = Put(h2c, "sync_resp")
hci_h5_send_conf_resp == h2c' = Put(h2c, "conf_resp")
rtk_notify_hw_h5_init_result(status) ==
  /\ oks' = IF status = "ok" THEN oks + 1 ELSE oks
  /\ fails' = IF status = "ok" THEN fails ELSE fails + 1

-----------------------------------------------------------------------------
(* hci_h5_send_sync_cmd, for HCI_VSC_H5_INIT.                              *)

\* The state is looked at first (timer_h5_hw_init_ready, started here too, has a
\* handler that only logs),
send_sync_cmd ==
  /\ pc["cmd"] = "idle"
  /\ Goto("cmd", IF link_estab_state = "H5_UNINITIALIZED" THEN "send" ELSE "done")
  /\ UNCHANGED <<link_estab_state, timers, counts, oks, fails, hw_errors, syncs, confs,
                 h2c, c2h, ctrl>>

\* then the first request goes out,
send_sync_cmd_req ==
  /\ pc["cmd"] = "send"
  /\ hci_h5_send_sync_req
  /\ Goto("cmd", "start_timer")
  /\ UNCHANGED <<link_estab_state, timers, counts, oks, fails, hw_errors, confs, c2h, ctrl>>

\* mutant: nobody repeats the first request
send_sync_cmd_no_timer ==
  /\ pc["cmd"] = "start_timer"
  /\ Goto("cmd", "done")
  /\ UNCHANGED <<link_estab_state, timers, counts, oks, fails, hw_errors, syncs, confs,
                 h2c, c2h, ctrl>>

\* and only then its timer is started, when the answer may have been handled.
send_sync_cmd_timer ==
  /\ pc["cmd"] = "start_timer"
  /\ sync_timer' = TRUE
  /\ Goto("cmd", "done")
  /\ UNCHANGED <<link_estab_state, conf_timer, sync_due, conf_due, counts, oks, fails,
                 hw_errors, syncs, confs, h2c, c2h, ctrl>>

-----------------------------------------------------------------------------
(* h5_process_ctl_pkts, by packet and state of the link.                   *)

Receive(p) == pc["rx"] = "idle" /\ c2h # << >> /\ Head(c2h) = p /\ c2h' = Tail(c2h)

\* A SYNC is answered in every state; before H5_ACTIVE that is all.
recv_sync ==
  /\ Receive("sync") /\ link_estab_state # "H5_ACTIVE"
  /\ hci_h5_send_sync_resp
  /\ UNCHANGED <<link_estab_state, timers, counts, pc, oks, fails, hw_errors, syncs, confs, ctrl>>

\* In H5_ACTIVE it means that the controller has restarted: the stack is told by
\* a hardware error event and the link falls back,
recv_sync_active ==
  /\ Receive("sync") /\ link_estab_state = "H5_ACTIVE"
  /\ hw_errors' = hw_errors + 1
  /\ hci_h5_send_sync_resp
  /\ link_estab_state' = "H5_UNINITIALIZED"
  /\ Goto("rx", "resync")
  /\ UNCHANGED <<timers, counts, oks, fails, syncs, confs, ctrl>>

\* and the handshake starts again.
resync ==
  /\ pc["rx"] = "resync"
  /\ hci_h5_send_sync_req
  /\ sync_timer' = TRUE
  /\ Goto("rx", "idle")
  /\ UNCHANGED <<link_estab_state, conf_timer, sync_due, conf_due, counts, oks, fails,
                 hw_errors, confs, c2h, ctrl>>

recv_sync_resp_no_timer ==   \* mutant: the CONF request is sent, its timer not started
  /\ Receive("sync_resp") /\ link_estab_state = "H5_UNINITIALIZED"
  /\ sync_timer' = FALSE
  /\ sync_retrans_count' = 0
  /\ link_estab_state' = "H5_INITIALIZED"
  /\ hci_h5_send_conf_req
  /\ UNCHANGED <<conf_timer, sync_due, conf_due, conf_retrans_count, loaded, pc, oks, fails,
                 hw_errors, syncs, ctrl>>

recv_sync_resp ==
  /\ Receive("sync_resp") /\ link_estab_state = "H5_UNINITIALIZED"
  /\ sync_timer' = FALSE
  /\ sync_retrans_count' = 0
  /\ link_estab_state' = "H5_INITIALIZED"
  /\ hci_h5_send_conf_req
  /\ conf_timer' = TRUE
  /\ UNCHANGED <<sync_due, conf_due, conf_retrans_count, loaded, pc, oks, fails, hw_errors,
                 syncs, ctrl>>

\* A CONF is answered from H5_INITIALIZED on,
recv_conf ==
  /\ Receive("conf") /\ link_estab_state # "H5_UNINITIALIZED"
  /\ hci_h5_send_conf_resp
  /\ UNCHANGED <<link_estab_state, timers, counts, pc, oks, fails, hw_errors, syncs, confs, ctrl>>

conf_resp_wanted_any == link_estab_state # "H5_UNINITIALIZED"   \* mutant: repeated ones too

conf_resp_wanted == link_estab_state = "H5_INITIALIZED"

\* and the answer to ours makes the link active, takes over the window and the
\* checksum setting of the controller, and reports success.
recv_conf_resp ==
  /\ Receive("conf_resp") /\ conf_resp_wanted
  /\ conf_timer' = FALSE
  /\ conf_retrans_count' = 0
  /\ link_estab_state' = "H5_ACTIVE"
  /\ rtk_notify_hw_h5_init_result("ok")
  /\ UNCHANGED <<sync_timer, sync_due, conf_due, sync_retrans_count, loaded, pc, hw_errors,
                 syncs, confs, h2c, ctrl>>

\* Whatever else arrives is ignored.
recv_ignored ==
  /\ \/ Receive("sync_resp") /\ link_estab_state # "H5_UNINITIALIZED"
     \/ Receive("conf") /\ link_estab_state = "H5_UNINITIALIZED"
     \/ Receive("conf_resp") /\ ~conf_resp_wanted
  /\ UNCHANGED <<link_estab_state, timers, counts, pc, oks, fails, hw_errors, syncs, confs,
                 h2c, ctrl>>

-----------------------------------------------------------------------------
(* The timers and their handlers.  A timer is periodic; an expiry whose    *)
(* handler has not started yet survives the stopping of the timer.         *)

sync_expires ==
  /\ sync_timer /\ ~sync_due
  /\ sync_due' = TRUE
  /\ UNCHANGED <<link_estab_state, sync_timer, conf_timer, conf_due, counts, pc, oks, fails,
                 hw_errors, syncs, confs, h2c, c2h, ctrl>>

conf_expires ==
  /\ conf_timer /\ ~conf_due
  /\ conf_due' = TRUE
  /\ UNCHANGED <<link_estab_state, sync_timer, conf_timer, sync_due, counts, pc, oks, fails,
                 hw_errors, syncs, confs, h2c, c2h, ctrl>>

sync_handler_start ==
  /\ pc["sync"] = "idle" /\ sync_due
  /\ sync_due' = FALSE
  /\ Goto("sync", "check")
  /\ UNCHANGED <<link_estab_state, sync_timer, conf_timer, conf_due, counts, oks, fails,
                 hw_errors, syncs, confs, h2c, c2h, ctrl>>

conf_handler_start ==
  /\ pc["conf"] = "idle" /\ conf_due
  /\ conf_due' = FALSE
  /\ Goto("conf", "check")
  /\ UNCHANGED <<link_estab_state, sync_timer, conf_timer, sync_due, counts, oks, fails,
                 hw_errors, syncs, confs, h2c, c2h, ctrl>>

sync_try_again_early == sync_retrans_count + 1 < SyncLimit   \* mutant: one try too few

sync_try_again == sync_retrans_count < SyncLimit

\* As long as the limit is not reached the request is repeated, whatever the
\* state of the link,
sync_repeat ==
  /\ pc["sync"] = "check" /\ sync_try_again
  /\ hci_h5_send_sync_req
  /\ Goto("sync", "load")
  /\ UNCHANGED <<link_estab_state, timers, counts, oks, fails, hw_errors, confs, c2h, ctrl>>

conf_repeat ==
  /\ pc["conf"] = "check" /\ conf_retrans_count < ConfLimit
  /\ hci_h5_send_conf_req
  /\ Goto("conf", "load")
  /\ UNCHANGED <<link_estab_state, timers, counts, oks, fails, hw_errors, syncs, c2h, ctrl>>

\* and counted, a load and a store without a lock.
count_load(h) ==
  /\ pc[h] = "load"
  /\ loaded' = [loaded EXCEPT ![h] = IF h = "sync" THEN sync_retrans_count ELSE conf_retrans_count]
  /\ Goto(h, "store")
  /\ UNCHANGED <<link_estab_state, timers, sync_retrans_count, conf_retrans_count, oks, fails,
                 hw_errors, syncs, confs, h2c, c2h, ctrl>>

count_store_down(h) ==   \* mutant: the count goes down
  /\ pc[h] = "store"
  /\ sync_retrans_count' = IF h = "sync" THEN loaded[h] - 1 ELSE sync_retrans_count
  /\ conf_retrans_count' = IF h = "conf" THEN loaded[h] - 1 ELSE conf_retrans_count
  /\ loaded' = [loaded EXCEPT ![h] = 0]
  /\ Goto(h, "idle")
  /\ UNCHANGED <<link_estab_state, timers, oks, fails, hw_errors, syncs, confs, h2c, c2h, ctrl>>

count_store(h) ==
  /\ pc[h] = "store"
  /\ sync_retrans_count' = IF h = "sync" THEN loaded[h] + 1 ELSE sync_retrans_count
  /\ conf_retrans_count' = IF h = "conf" THEN loaded[h] + 1 ELSE conf_retrans_count
  /\ loaded' = [loaded EXCEPT ![h] = 0]
  /\ Goto(h, "idle")
  /\ UNCHANGED <<link_estab_state, timers, oks, fails, hw_errors, syncs, confs, h2c, c2h, ctrl>>

\* At the limit the handler looks at the state of the link,
limit_reached(h) ==
  /\ pc[h] = "check"
  /\ IF h = "sync" THEN ~sync_try_again ELSE conf_retrans_count >= ConfLimit
  /\ Goto(h, "state")
  /\ UNCHANGED <<link_estab_state, timers, counts, oks, fails, hw_errors, syncs, confs,
                 h2c, c2h, ctrl>>

give_up_now(h) ==
  IF h = "sync" THEN link_estab_state = "H5_UNINITIALIZED" ELSE link_estab_state # "H5_ACTIVE"

limit_state(h) ==
  /\ pc[h] = "state"
  /\ Goto(h, IF give_up_now(h) THEN "notify" ELSE "stop")
  /\ UNCHANGED <<link_estab_state, timers, counts, oks, fails, hw_errors, syncs, confs,
                 h2c, c2h, ctrl>>

\* reports failure if the link is not up,
limit_notify(h) ==
  /\ pc[h] = "notify"
  /\ rtk_notify_hw_h5_init_result("fail")
  /\ Goto(h, "stop")
  /\ UNCHANGED <<link_estab_state, timers, counts, hw_errors, syncs, confs, h2c, c2h, ctrl>>

limit_stop_forgotten(h) ==   \* mutant: the timer goes on
  /\ pc[h] = "stop"
  /\ Goto(h, "idle")
  /\ UNCHANGED <<link_estab_state, timers, counts, oks, fails, hw_errors, syncs, confs,
                 h2c, c2h, ctrl>>

\* and stops its timer.
limit_stop(h) ==
  /\ pc[h] = "stop"
  /\ sync_timer' = (sync_timer /\ h # "sync")
  /\ conf_timer' = (conf_timer /\ h # "conf")
  /\ Goto(h, "idle")
  /\ UNCHANGED <<link_estab_state, sync_due, conf_due, counts, oks, fails, hw_errors, syncs,
                 confs, h2c, c2h, ctrl>>

-----------------------------------------------------------------------------
(* The controller and the wires, which are not part of the repository.     *)

host == <<link_estab_state, timers, counts, pc, oks, fails, hw_errors, syncs, confs>>

ctrl_recv ==
  /\ h2c # << >>
  /\ h2c' = Tail(h2c)
  /\ CASE Head(h2c) = "sync" -> c2h' = Put(c2h, "sync_resp") /\ UNCHANGED c_state
       [] Head(h2c) = "conf" ->
            /\ c2h' = IF c_state = "H5_UNINITIALIZED" THEN c2h ELSE Put(c2h, "conf_resp")
            /\ UNCHANGED c_state
       [] Head(h2c) = "sync_resp" ->
            /\ c_state' = IF c_state = "H5_UNINITIALIZED" THEN "H5_INITIALIZED" ELSE c_state
            /\ UNCHANGED c2h
       [] Head(h2c) = "conf_resp" ->
            /\ c_state' = IF c_state = "H5_INITIALIZED" THEN "H5_ACTIVE" ELSE c_state
            /\ UNCHANGED c2h
  /\ UNCHANGED <<host, restarts>>

ctrl_send ==
  /\ c_state # "H5_ACTIVE" /\ Len(c2h) < WireCap
  /\ c2h' = Append(c2h, IF c_state = "H5_UNINITIALIZED" THEN "sync" ELSE "conf")
  /\ UNCHANGED <<host, h2c, ctrl>>

ctrl_restart ==
  /\ restarts < MaxRestarts
  /\ restarts' = restarts + 1
  /\ c_state' = "H5_UNINITIALIZED"
  /\ UNCHANGED <<host, h2c, c2h>>

uart_loss ==
  /\ \/ h2c # << >> /\ h2c' = Tail(h2c) /\ UNCHANGED c2h
     \/ c2h # << >> /\ c2h' = Tail(c2h) /\ UNCHANGED h2c
  /\ UNCHANGED <<host, ctrl>>

-----------------------------------------------------------------------------
Cmd == send_sync_cmd \/ send_sync_cmd_req \/ send_sync_cmd_timer

Rx == \/ recv_sync \/ recv_sync_active \/ resync \/ recv_sync_resp \/ recv_conf
      \/ recv_conf_resp \/ recv_ignored

Handler(h) ==
  \/ count_load(h) \/ count_store(h)
  \/ limit_reached(h) \/ limit_state(h) \/ limit_notify(h) \/ limit_stop(h)
SyncHandler == sync_handler_start \/ sync_repeat \/ Handler("sync")
ConfHandler == conf_handler_start \/ conf_repeat \/ Handler("conf")

Controller == ctrl_recv \/ ctrl_send \/ ctrl_restart \/ uart_loss

Next ==
  \/ Cmd \/ Rx \/ SyncHandler \/ ConfHandler
  \/ sync_expires \/ conf_expires \/ Controller

Spec == Init /\ [][Next]_vars

\* Fairness of the host alone: its threads run and its timers expire.  The wires
\* may lose everything and the controller may never answer.
FairSpec ==
  /\ Spec
  /\ WF_vars(Cmd) /\ WF_vars(Rx)
  /\ WF_vars(SyncHandler) /\ WF_vars(ConfHandler)
  /\ WF_vars(sync_expires) /\ WF_vars(conf_expires)

-----------------------------------------------------------------------------
(* Properties.                                                             *)

\* Success is reported once for each time the link comes up: repeated or late
\* CONF responses report it again only after the hardware error event of
\* h5_process_ctl_pkts has told the stack that the link was lost.
OkOncePerLink == oks <= hw_errors + 1

\* Failure is reported only after a full round of requests: the lost updates of
\* the unlocked counters and the late handlers do not shorten the first round.
FailAfterLimit == fails > 0 => syncs > SyncLimit \/ confs > ConfLimit

\* From HCI_VSC_H5_INIT until a result is reported the timer that repeats the
\* request of the present state is armed: whatever the order in which the command,
\* the receiver and a late handler start and stop the timers.
HandshakeWatched ==
  pc["cmd"] = "done" /\ oks + fails = 0 =>
    \/ link_estab_state = "H5_UNINITIALIZED" /\ sync_timer
    \/ link_estab_state = "H5_INITIALIZED" /\ conf_timer

-----------------------------------------------------------------------------
(* The inductive invariants behind these properties.                       *)

\* The results and the hardware errors say together whether the link is up.
OkCounted == oks = hw_errors + (IF link_estab_state = "H5_ACTIVE" THEN 1 ELSE 0)

\* What a repeating thread has counted it has also sent, after a first request of
\* somebody else.  "n" is the count, "l" what has been loaded, "sent" the history.
Counted(h, armed, due, n, l, sent, limit) ==
  /\ armed \/ due \/ pc[h] # "idle" => sent > 0
  /\ n > 0 => n < sent \/ sent > limit
  /\ pc[h] \in {"load", "store"} => n + 1 < sent \/ sent > limit
  /\ pc[h] = "store" => l + 1 < sent \/ sent > limit
  /\ pc[h] \in {"state", "notify"} => sent > limit

RequestsCounted ==
  /\ Counted("sync", sync_timer, sync_due, sync_retrans_count, loaded["sync"], syncs, SyncLimit)
  /\ Counted("conf", conf_timer, conf_due, conf_retrans_count, loaded["conf"], confs, ConfLimit)
  /\ pc["cmd"] = "start_timer" => syncs > 0
  /\ FailAfterLimit

\* Before the first result no handler stops a timer that is still needed.
TimersKept ==
  oks + fails = 0 =>
    /\ pc["sync"] = "stop" => link_estab_state # "H5_UNINITIALIZED"
    /\ pc["conf"] # "stop" /\ pc["rx"] # "resync"
    /\ link_estab_state = "H5_INITIALIZED" => conf_timer
    /\ pc["cmd"] = "done" /\ link_estab_state = "H5_UNINITIALIZED" => sync_timer

EstablishInv == OkCounted /\ RequestsCounted /\ TimersKept

-----------------------------------------------------------------------------
(* Liveness.                                                               *)

\* hci_h5_send_sync_cmd is answered: with any losses and any controller, a
\* result reaches the hardware configuration.
InitAnswered == (pc["cmd"] # "idle") ~> (oks + fails > 0)

\* The repetition of requests comes to an end in every run, also of requests that
\* are repeated although the link is up.
RepetitionEnds == <>[](~sync_timer /\ ~conf_timer)
=============================================================================
