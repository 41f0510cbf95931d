---------------------------- MODULE H5Transport ----------------------------
(***************************************************************************)
(* The reliable data path of the H5 (three-wire UART) link of the Realtek  *)
(* Bluetooth vendor library, hardware/bt/src/hci_h5.c, once the link is    *)
(* H5_ACTIVE: sequence and acknowledgement numbers, the sliding window,    *)
(* the retransmission timer and its give-up counter.                       *)
(*                                                                         *)
(* Three threads of the host run this code at once:                        *)
(*   "stack"    userial_recv_socket_thread, carrying packets of the stack  *)
(*              down through hci_h5_send_cmd / _acl_data / _sco_data;      *)
(*   "rx"       userial_recv_uart_thread, which parses the UART;           *)
(*   "retrans"  data_retransfer_thread, woken by the retransmission timer. *)
(* They share rtk_h5 and meet in h5_wake_up, which sends whatever may be   *)
(* sent while it holds h5_wakeup_mutex.  The wires keep the order of the   *)
(* bytes; a packet damaged on the way fails its checksum at the receiver.  *)
(* The controller is not in the repository: it is any peer that accepts    *)
(* reliable packets in order and acknowledges them.                        *)
(*                                                                         *)
(* A reliable packet is named by its position in the order of sending: the *)
(* n-th packet the stack hands over is n, so is the n-th of the controller.*)
(* "id" and "cum" of a packet on the wire are that name and the full       *)
(* (unwrapped) count behind its acknowledgement number: the code sees only *)
(* the 3-bit "seq" and "ack"; id stands for the payload, cum is history.   *)
(***************************************************************************)
EXTENDS Integers, Sequences

CONSTANTS
  SeqMod,        \* sequence numbers wrap at this value: 8 in the code
  Win,           \* rtk_h5.sliding_window_size, from the configuration response
  CtrlWin,       \* the window the controller keeps
  RetransLimit,  \* DATA_RETRANS_COUNT or BT_INIT_DATA_RETRANS_COUNT
  MaxDown,       \* bound: reliable packets the stack hands over
  MaxUp,         \* bound: reliable packets the controller has to send
  MaxUnrel,      \* bound: unreliable packets waiting in unrel
  WireCap,       \* bound: packets on each wire
  MaxHandlers,   \* bound: timer handlers under way at once
  BaudAnswer,    \* the controller's packet that answers HCI_VSC_UPDATE_BAUDRATE, 0: none
  NotPassed      \* its packets of a type with pass_up = 0

ASSUME SeqModAssumption == SeqMod \in {2, 4, 8}
ASSUME WinAssumption ==
  /\ Win \in 0..(SeqMod - 1)
  /\ CtrlWin \in 0..(SeqMod - 1)
ASSUME BoundsAssumption ==
  /\ RetransLimit \in Nat
  /\ MaxDown \in Nat
  /\ MaxUp \in Nat
  /\ MaxUnrel \in Nat
  /\ WireCap \in Nat
  /\ MaxHandlers \in Nat
ASSUME PassUpAssumption == BaudAnswer \in Nat /\ NotPassed \subseteq Nat \ {BaudAnswer}

VARIABLES
  sent,                \* history: reliable packets handed over by the stack
  rel, unack,          \* queues: to be sent, sent and not yet acknowledged
  unrel,               \* number of packets in the unreliable queue
  msgq_txseq,          \* next sequence number to send
  rxseq_txack,         \* next sequence number expected, the ack we send
  is_txack_req,        \* an acknowledgement is owed to the controller
  up,                  \* history: reliable packets taken by h5_complete_rx_pkt
  rx_skb,              \* the packet the rx thread is working on
  internal_skb,        \* the packet held back for its timer, 0: none
  recv_data,           \* history: packets queued for the stack
  timer,               \* timer_data_retrans is armed
  handlers,            \* timer handlers that have started, not yet signalled
  ready_event,         \* h5_ready_events has H5_EVENT_RX
  data_retrans_count,  \* retransmission rounds so far
  loaded,              \* value read by data_retrans_count++ before it is stored
  hw_error,            \* rtkbt_h5_send_hw_error has been called
  mutex,               \* holder of h5_wakeup_mutex
  pc,                  \* where each thread is
  h2c, c2h,            \* the two wires
  got,                 \* controller: reliable packets accepted, in order
  ack_owed,            \* controller: it owes an acknowledgement
  c_base, c_top        \* controller: packets acknowledged, packets sent so far

hostvars == <<sent, rel, unack, unrel, msgq_txseq>>
passvars == <<internal_skb, recv_data>>
rxvars   == <<rxseq_txack, up, rx_skb, passvars>>
tmrvars  == <<timer, handlers, ready_event, data_retrans_count, loaded, hw_error>>
ctrlvars == <<got, ack_owed, c_base, c_top>>
vars == <<hostvars, is_txack_req, rxvars, tmrvars, mutex, pc, h2c, c2h, ctrlvars>>

Threads == {"stack", "rx", "retrans"}
Free    == "free"
NoPkt   == [kind |-> "none", seq |-> 0, ack |-> 0, id |-> 0, cum |-> 0]
Seqno   == 0..(SeqMod - 1)

\* "data" is a reliable packet; "unrel" is SCO data or an empty ack, of which
\* only the acknowledgement number matters here.
Packet == [kind : {"data", "unrel"}, seq : Seqno, ack : Seqno, id : Nat, cum : Nat]

DataTypeOK ==
  /\ sent \in Nat
  /\ rel \in Seq(Nat)
  /\ unack \in Seq(Nat)
  /\ unrel \in Nat
  /\ msgq_txseq \in Seqno
  /\ rxseq_txack \in Seqno
  /\ up \in Seq(Nat)
  /\ rx_skb \in Packet \cup {NoPkt}
  /\ internal_skb \in Nat
  /\ recv_data \in Seq(Nat)
  /\ handlers \in Nat
  /\ data_retrans_count \in Nat
  /\ loaded \in Nat
  /\ mutex \in Threads \cup {Free}
  /\ pc \in [Threads -> {"idle", "wake", "tx", "remove", "deliver",
                         "check", "requeue", "load", "store"}]
  /\ h2c \in Seq(Packet)
  /\ c2h \in Seq(Packet)
  /\ got \in Seq(Nat)
  /\ c_base \in Nat
  /\ c_top \in Nat

FlagTypeOK ==
  /\ is_txack_req \in BOOLEAN
  /\ timer \in BOOLEAN
  /\ ready_event \in BOOLEAN
  /\ hw_error \in BOOLEAN
  /\ ack_owed \in BOOLEAN

\* The type invariant: sequence numbers stay in their three bits, every queue
\* holds packets of this link, every thread is at a known place.
TypeOK == DataTypeOK /\ FlagTypeOK

Init ==
  /\ sent = 0
  /\ rel = << >> /\ unack = << >> /\ unrel = 0
  /\ msgq_txseq = 0 /\ rxseq_txack = 0 /\ is_txack_req = FALSE
  /\ up = << >> /\ rx_skb = NoPkt
  /\ internal_skb = 0 /\ recv_data = << >>
  /\ timer = FALSE /\ handlers = 0 /\ ready_event = FALSE
  /\ data_retrans_count = 0 /\ loaded = 0 /\ hw_error = FALSE
  /\ mutex = Free
  /\ pc = [t \in Threads |-> "idle"]
  /\ h2c = << >> /\ c2h = << >>
  /\ got = << >> /\ ack_owed = FALSE
  /\ c_base = 0 /\ c_top = 0

Goto(t, l) == pc' = [pc EXCEPT ![t] = l]

-----------------------------------------------------------------------------
(* Sending: h5_enqueue, h5_dequeue, h5_prepare_pkt, h5_wake_up.            *)

\* Reliable packets of the controller that the host has accepted so far.
RxCount == Len(up) + (IF rx_skb.kind = "data" THEN 1 ELSE 0)

\* The stack thread hands over a command or ACL packet.
h5_enqueue_rel ==
  /\ pc["stack"] = "idle" /\ sent < MaxDown
  /\ sent' = sent + 1
  /\ rel' = Append(rel, sent + 1)
  /\ Goto("stack", "wake")
  /\ UNCHANGED <<unack, unrel, msgq_txseq, is_txack_req, rxvars, tmrvars,
                 mutex, h2c, c2h, ctrlvars>>

\* ... or a SCO packet,
h5_enqueue_unrel ==
  /\ pc["stack"] = "idle" /\ unrel < MaxUnrel
  /\ unrel' = unrel + 1
  /\ Goto("stack", "wake")
  /\ UNCHANGED <<sent, rel, unack, msgq_txseq, is_txack_req, rxvars, tmrvars,
                 mutex, h2c, c2h, ctrlvars>>

\* ... or a packet longer than 0xFFF or of another type, which is freed; the
\* caller wakes the sender all the same.
h5_enqueue_freed ==
  /\ pc["stack"] = "idle"
  /\ Goto("stack", "wake")
  /\ UNCHANGED <<hostvars, is_txack_req, rxvars, tmrvars, mutex, h2c, c2h, ctrlvars>>

h5_prepare_pkt_unmasked(kind, id) ==   \* mutant: "& 0x07" forgotten
  /\ Len(h2c) < WireCap
  /\ h2c' = Append(h2c, [kind |-> kind, seq |-> msgq_txseq, ack |-> rxseq_txack,
                         id |-> id, cum |-> RxCount])
  /\ is_txack_req' = FALSE
  /\ msgq_txseq' = IF kind = "data" THEN msgq_txseq + 1 ELSE msgq_txseq

\* h5_prepare_pkt: the header carries the acknowledgement, so nothing is owed
\* any more; the bytes go to the UART before h5_wake_up looks again.
h5_prepare_pkt(kind, id) ==
  LET seq == IF kind = "data" THEN msgq_txseq ELSE 0
  IN /\ Len(h2c) < WireCap
     /\ h2c' = Append(h2c, [kind |-> kind, seq |-> seq, ack |-> rxseq_txack,
                            id |-> id, cum |-> RxCount])
     /\ is_txack_req' = FALSE
     /\ msgq_txseq' = IF kind = "data" THEN (msgq_txseq + 1) % SeqMod ELSE msgq_txseq

window_open_at_limit == Len(unack) <= Win   \* mutant: off by one

window_open == Len(unack) < Win

\* First of all an unreliable packet,
dequeue_unrel(t) ==
  /\ pc[t] = "tx" /\ unrel > 0
  /\ unrel' = unrel - 1
  /\ h5_prepare_pkt("unrel", 0)
  /\ UNCHANGED <<sent, rel, unack, rxvars, tmrvars, mutex, pc, c2h, ctrlvars>>

\* then a reliable one if the window allows: it is kept in unack, and the
\* retransmission timer is (re)started,
dequeue_rel(t) ==
  /\ pc[t] = "tx" /\ unrel = 0
  /\ window_open /\ rel # << >>
  /\ h5_prepare_pkt("data", Head(rel))
  /\ rel' = Tail(rel)
  /\ unack' = Append(unack, Head(rel))
  /\ timer' = TRUE
  /\ UNCHANGED <<sent, unrel, rxvars, handlers, ready_event, data_retrans_count,
                 loaded, hw_error, mutex, pc, c2h, ctrlvars>>

\* then an empty packet if only an acknowledgement is owed.
dequeue_ack(t) ==
  /\ pc[t] = "tx" /\ unrel = 0
  /\ ~(window_open /\ rel # << >>)
  /\ is_txack_req
  /\ h5_prepare_pkt("unrel", 0)
  /\ UNCHANGED <<sent, rel, unack, unrel, rxvars, tmrvars, mutex, pc, c2h, ctrlvars>>

\* h5_wake_up: take the mutex, send as long as h5_dequeue finds a packet,
\* release it.  The rx thread goes on with the packet it holds, if any.
h5_wake_up_lock(t) ==
  /\ pc[t] = "wake" /\ mutex = Free
  /\ mutex' = t
  /\ Goto(t, "tx")
  /\ UNCHANGED <<hostvars, is_txack_req, rxvars, tmrvars, h2c, c2h, ctrlvars>>

h5_wake_up_done(t) ==
  /\ pc[t] = "tx" /\ unrel = 0
  /\ ~(window_open /\ rel # << >>)
  /\ ~is_txack_req
  /\ mutex' = Free
  /\ Goto(t, IF t = "rx" /\ rx_skb # NoPkt THEN "remove" ELSE "idle")
  /\ UNCHANGED <<hostvars, is_txack_req, rxvars, tmrvars, h2c, c2h, ctrlvars>>

-----------------------------------------------------------------------------
(* Receiving: h5_recv, h5_complete_rx_pkt, h5_remove_acked_pkt.            *)

in_order_any(p) == TRUE   \* mutant: the sequence number is not looked at

in_order(p) == p.seq = rxseq_txack

\* mutant: the acknowledgement is asked for, but h5_wake_up is not called
recv_out_of_order_silent ==
  /\ pc["rx"] = "idle" /\ c2h # << >>
  /\ Head(c2h).kind = "data" /\ ~in_order(Head(c2h))
  /\ c2h' = Tail(c2h)
  /\ is_txack_req' = TRUE
  /\ UNCHANGED <<hostvars, rxvars, tmrvars, mutex, pc, h2c, ctrlvars>>

\* h5_recv drops a reliable packet that is not the expected one, together with
\* the acknowledgement in it, and has the expected number sent again.
recv_out_of_order ==
  /\ pc["rx"] = "idle" /\ c2h # << >>
  /\ Head(c2h).kind = "data" /\ ~in_order(Head(c2h))
  /\ c2h' = Tail(c2h)
  /\ is_txack_req' = TRUE
  /\ Goto("rx", "wake")
  /\ UNCHANGED <<hostvars, rxvars, tmrvars, mutex, h2c, ctrlvars>>

\* The expected one is accepted: expect the next, owe an acknowledgement and
\* wake the sender, before anything else is done with the packet.
complete_reliable ==
  /\ pc["rx"] = "idle" /\ c2h # << >>
  /\ Head(c2h).kind = "data" /\ in_order(Head(c2h))
  /\ mutex = Free
  /\ c2h' = Tail(c2h)
  /\ rx_skb' = Head(c2h)
  /\ rxseq_txack' = (Head(c2h).seq + 1) % SeqMod
  /\ is_txack_req' = TRUE
  /\ Goto("rx", "wake")
  /\ UNCHANGED <<hostvars, up, passvars, tmrvars, mutex, h2c, ctrlvars>>

complete_unreliable ==
  /\ pc["rx"] = "idle" /\ c2h # << >>
  /\ Head(c2h).kind = "unrel"
  /\ c2h' = Tail(c2h)
  /\ rx_skb' = Head(c2h)
  /\ Goto("rx", "remove")
  /\ UNCHANGED <<hostvars, is_txack_req, rxseq_txack, up, passvars, tmrvars, mutex, h2c,
                 ctrlvars>>

\* A header checksum or CRC failure: the packet is dropped.
recv_checksum_error ==
  /\ pc["rx"] = "idle" /\ c2h # << >>
  /\ c2h' = Tail(c2h)
  /\ UNCHANGED <<hostvars, is_txack_req, rxvars, tmrvars, mutex, pc, h2c, ctrlvars>>

least(S) == CHOOSE d \in S : \A e \in S : d <= e

pkts_to_be_removed_one_more(next, n, ack) ==   \* mutant: ack taken for the last received
  LET hits == {d \in 0..n : (next - d - 1) % SeqMod = ack}
  IN IF hits = {} THEN 0 ELSE n - least(hits)

\* Walk back from the next number to send: with n packets outstanding, how many
\* an acknowledgement covers.  None if it names no outstanding packet.
pkts_to_be_removed(next, n, ack) ==
  LET hits == {d \in 0..n : (next - d) % SeqMod = ack}
  IN IF hits = {} THEN 0 ELSE n - least(hits)

timer_after_ack_off(left) == FALSE   \* mutant: any acknowledgement stops the timer

timer_after_ack(left) == timer /\ left # << >>

\* An acknowledgement that leaves nothing outstanding stops the timer and
\* forgets the retransmissions; it does not wake the sender.
h5_remove_acked_pkt ==
  LET k == pkts_to_be_removed(msgq_txseq, Len(unack), rx_skb.ack)
      left == SubSeq(unack, k + 1, Len(unack))
  IN /\ pc["rx"] = "remove" /\ mutex = Free
     /\ unack' = left
     /\ timer' = timer_after_ack(left)
     /\ data_retrans_count' = IF left = << >> THEN 0 ELSE data_retrans_count
     /\ Goto("rx", IF rx_skb.kind = "data" THEN "deliver" ELSE "idle")
     /\ rx_skb' = IF rx_skb.kind = "data" THEN rx_skb ELSE NoPkt
     /\ UNCHANGED <<sent, rel, unrel, msgq_txseq, is_txack_req, rxseq_txack, up, passvars,
                    handlers, ready_event, loaded, hw_error, mutex, h2c, c2h, ctrlvars>>

pass_up_both(id) ==   \* mutant: hci_recv_frame returns 0 for the packet it holds
  /\ internal_skb' = IF id = BaudAnswer THEN id ELSE internal_skb
  /\ recv_data' = IF id \in NotPassed THEN recv_data ELSE Append(recv_data, id)

\* A packet of a type that is not passed up is freed; the answer to the change
\* of the UART speed is held back and its timer started; the others are queued.
pass_up(id) ==
  /\ internal_skb' = IF id = BaudAnswer THEN id ELSE internal_skb
  /\ recv_data' = IF id \in NotPassed \cup {BaudAnswer} THEN recv_data
                  ELSE Append(recv_data, id)

\* The rest of h5_complete_rx_pkt, with the interception in hci_recv_frame.
hci_recv_frame ==
  /\ pc["rx"] = "deliver"
  /\ up' = Append(up, rx_skb.id)
  /\ pass_up(rx_skb.id)
  /\ rx_skb' = NoPkt
  /\ Goto("rx", "idle")
  /\ UNCHANGED <<hostvars, is_txack_req, rxseq_txack, tmrvars, mutex, h2c, c2h, ctrlvars>>

\* The timer of the packet held back, in a thread of its own: it is queued
\* behind whatever h5_complete_rx_pkt has queued meanwhile.
h5_wait_controller_baudrate_ready_timeout_handler ==
  /\ internal_skb # 0
  /\ recv_data' = Append(recv_data, internal_skb)
  /\ internal_skb' = 0
  /\ UNCHANGED <<hostvars, is_txack_req, rxseq_txack, up, rx_skb, tmrvars, mutex, pc,
                 h2c, c2h, ctrlvars>>

-----------------------------------------------------------------------------
(* Retransmission: the one-shot timer, its handler and the thread.         *)

\* The timer expires and a thread starts to run the handler; stopping or
\* restarting the timer does not reach that thread any more.
timer_expires ==
  /\ timer /\ handlers < MaxHandlers
  /\ timer' = FALSE
  /\ handlers' = handlers + 1
  /\ UNCHANGED <<hostvars, is_txack_req, rxvars, ready_event, data_retrans_count,
                 loaded, hw_error, mutex, pc, h2c, c2h, ctrlvars>>

h5_retransfer_timeout_handler ==
  /\ handlers > 0
  /\ handlers' = handlers - 1
  /\ ready_event' = TRUE
  /\ UNCHANGED <<hostvars, is_txack_req, rxvars, timer, data_retrans_count,
                 loaded, hw_error, mutex, pc, h2c, c2h, ctrlvars>>

retrans_take_event ==
  /\ pc["retrans"] = "idle" /\ ready_event
  /\ ready_event' = FALSE
  /\ Goto("retrans", "check")
  /\ UNCHANGED <<hostvars, is_txack_req, rxvars, timer, handlers, data_retrans_count,
                 loaded, hw_error, mutex, h2c, c2h, ctrlvars>>

retrans_go_on ==
  /\ pc["retrans"] = "check" /\ data_retrans_count < RetransLimit
  /\ Goto("retrans", "requeue")
  /\ UNCHANGED <<hostvars, is_txack_req, rxvars, tmrvars, mutex, h2c, c2h, ctrlvars>>

\* rtkbt_h5_send_hw_error: the stack is told, what is in unack stays there and
\* nothing is sent.
retrans_give_up ==
  /\ pc["retrans"] = "check" /\ data_retrans_count >= RetransLimit
  /\ hw_error' = TRUE
  /\ Goto("retrans", "idle")
  /\ UNCHANGED <<hostvars, is_txack_req, rxvars, timer, handlers, ready_event,
                 data_retrans_count, loaded, mutex, h2c, c2h, ctrlvars>>

\* mutant: unack is emptied from its head
requeue_unack_reversed ==
  /\ rel' = [i \in 1..Len(unack) |-> unack[Len(unack) + 1 - i]] \o rel
  /\ unack' = << >>
  /\ msgq_txseq' = (msgq_txseq - Len(unack)) % SeqMod

\* The loop that moves unack, from its tail, to the head of rel.
requeue_unack ==
  /\ rel' = unack \o rel
  /\ unack' = << >>
  /\ msgq_txseq' = (msgq_txseq - Len(unack)) % SeqMod

retrans_requeue ==
  /\ pc["retrans"] = "requeue" /\ mutex = Free
  /\ requeue_unack
  /\ Goto("retrans", "load")
  /\ UNCHANGED <<sent, unrel, is_txack_req, rxvars, tmrvars, mutex, h2c, c2h, ctrlvars>>

\* data_retrans_count++ runs without the mutex: a load, then a store.
retrans_load ==
  /\ pc["retrans"] = "load"
  /\ loaded' = data_retrans_count
  /\ Goto("retrans", "store")
  /\ UNCHANGED <<hostvars, is_txack_req, rxvars, timer, handlers, ready_event,
                 data_retrans_count, hw_error, mutex, h2c, c2h, ctrlvars>>

\* mutant: the requeued packets are left to the next caller of h5_wake_up
retrans_store_no_wake ==
  /\ pc["retrans"] = "store"
  /\ data_retrans_count' = loaded + 1
  /\ loaded' = 0
  /\ Goto("retrans", "idle")
  /\ UNCHANGED <<hostvars, is_txack_req, rxvars, timer, handlers, ready_event,
                 hw_error, mutex, h2c, c2h, ctrlvars>>

retrans_store ==
  /\ pc["retrans"] = "store"
  /\ data_retrans_count' = loaded + 1
  /\ loaded' = 0
  /\ Goto("retrans", "wake")
  /\ UNCHANGED <<hostvars, is_txack_req, rxvars, timer, handlers, ready_event,
                 hw_error, mutex, h2c, c2h, ctrlvars>>

-----------------------------------------------------------------------------
(* The controller, which is not part of the repository: it accepts the     *)
(* reliable packets in order, acknowledges, keeps CtrlWin packets          *)
(* outstanding and may send any of them again.                             *)

ctrl_recv ==
  LET p == Head(h2c)
      expected == p.kind = "data" /\ p.seq = Len(got) % SeqMod
  IN /\ h2c # << >>
     /\ h2c' = Tail(h2c)
     /\ got' = IF expected THEN Append(got, p.id) ELSE got
     /\ ack_owed' = (ack_owed \/ p.kind = "data")
     /\ c_base' = c_base + pkts_to_be_removed(c_top % SeqMod, c_top - c_base, p.ack)
     /\ UNCHANGED <<hostvars, is_txack_req, rxvars, tmrvars, mutex, pc, c2h, c_top>>

ctrl_checksum_error ==
  /\ h2c # << >>
  /\ h2c' = Tail(h2c)
  /\ UNCHANGED <<hostvars, is_txack_req, rxvars, tmrvars, mutex, pc, c2h, ctrlvars>>

ctrl_send(kind, id) ==
  /\ Len(c2h) < WireCap
  /\ c2h' = Append(c2h, [kind |-> kind, seq |-> IF kind = "data" THEN (id - 1) % SeqMod ELSE 0,
                         ack |-> Len(got) % SeqMod, id |-> id, cum |-> Len(got)])
  /\ ack_owed' = FALSE
  /\ UNCHANGED <<hostvars, is_txack_req, rxvars, tmrvars, mutex, pc, h2c, got, c_base>>

ctrl_send_ack ==
  /\ ack_owed
  /\ ctrl_send("unrel", 0)
  /\ UNCHANGED c_top

ctrl_send_data ==
  \E id \in (c_base + 1)..(c_base + CtrlWin) :
    /\ id <= c_top + 1 /\ id <= MaxUp
    /\ ctrl_send("data", id)
    /\ c_top' = IF id > c_top THEN id ELSE c_top

-----------------------------------------------------------------------------
dequeue(t) == dequeue_unrel(t) \/ dequeue_rel(t) \/ dequeue_ack(t)
h5_wake_up(t) == h5_wake_up_lock(t) \/ dequeue(t) \/ h5_wake_up_done(t)

Stack == h5_enqueue_rel \/ h5_enqueue_unrel \/ h5_enqueue_freed

RxTake == recv_out_of_order \/ complete_reliable \/ complete_unreliable
Rx == RxTake \/ recv_checksum_error \/ h5_remove_acked_pkt \/ hci_recv_frame

Retrans ==
  \/ retrans_take_event \/ retrans_go_on \/ retrans_give_up \/ retrans_requeue
  \/ retrans_load \/ retrans_store

Controller == ctrl_recv \/ ctrl_checksum_error \/ ctrl_send_ack \/ ctrl_send_data

Next ==
  \/ Stack \/ Rx \/ Retrans \/ Controller
  \/ timer_expires \/ h5_retransfer_timeout_handler
  \/ h5_wait_controller_baudrate_ready_timeout_handler
  \/ \E t \in Threads : h5_wake_up(t)

Spec == Init /\ [][Next]_vars

-----------------------------------------------------------------------------
(* Properties.                                                             *)

\* Packets the controller is known to have: h5_remove_acked_pkt has dropped them.
Base == sent - Len(rel) - Len(unack)

\* Both directions of the link keep the promise of ReliableLink: whatever is
\* lost, repeated or late, the controller accepts the packets of the stack, and
\* h5_complete_rx_pkt takes those of the controller, in order, each once.  What
\* of the latter reaches the stack, and in which order, is PassedUp.
Down == INSTANCE ReliableLink
Up   == INSTANCE ReliableLink WITH sent <- c_top, got <- up
DownRefines == Down!Spec
UpRefines   == Up!Spec

\* h5_remove_acked_pkt frees a packet only if the controller has accepted it,
\* although it sees the acknowledgement modulo SeqMod and maybe much later.
AckSafe == Base <= Len(got)

\* The threads move packets between rel and unack without losing, repeating or
\* reordering one: together the queues hold everything not yet acknowledged.
QueuesHoldRest ==
  /\ \A i \in 1..Len(unack) : unack[i] = Base + i
  /\ \A i \in 1..Len(rel) : rel[i] = Base + Len(unack) + i

\* A packet on its way is watched: as long as something is unacknowledged the
\* timer runs, or its expiry is on the way to data_retransfer_thread, or that
\* thread is at work, or the stack has been told of the failure.
Watched ==
  unack # << >> =>
    \/ timer \/ handlers > 0 \/ ready_event
    \/ pc["retrans"] # "idle"
    \/ hw_error

\* An acknowledgement asked for is never forgotten: while one is owed, the rx
\* thread that asked for it is still inside h5_wake_up.
AckNotForgotten == is_txack_req => pc["rx"] \in {"wake", "tx"}

\* What the stack gets of the packets h5_complete_rx_pkt has taken: every one of
\* a type to be passed up is queued or held back, none is queued twice, and only
\* the one held back for its timer is overtaken by later ones.
PassedUp ==
  /\ {recv_data[i] : i \in 1..Len(recv_data)} \cup ({internal_skb} \ {0})
       = 1..Len(up) \ NotPassed
  /\ \A i \in 1..Len(recv_data) : recv_data[i] # internal_skb
  /\ \A i, j \in 1..Len(recv_data) : i < j =>
       /\ recv_data[i] # recv_data[j]
       /\ recv_data[j] # BaudAnswer => recv_data[i] < recv_data[j]

-----------------------------------------------------------------------------
(* Why it works: the inductive invariant behind the properties above.      *)

\* The rx thread holds a packet exactly where h5_complete_rx_pkt works on one.
RxPlace ==
  /\ rx_skb = NoPkt \/ rx_skb.kind \in {"data", "unrel"}
  /\ pc["rx"] = "idle" => rx_skb = NoPkt
  /\ pc["rx"] = "remove" => rx_skb # NoPkt
  /\ pc["rx"] = "deliver" => rx_skb.kind = "data"

\* Sender and receiver of one direction: the counts behind the numbers, and how
\* far they can be apart.
DownCounts ==
  /\ Len(rel) + Len(unack) <= sent
  /\ QueuesHoldRest
  /\ msgq_txseq = (Base + Len(unack)) % SeqMod
  /\ \A i \in 1..Len(got) : got[i] = i
  /\ Base <= Len(got) /\ Len(got) <= Base + Win /\ Len(got) <= sent

UpCounts ==
  /\ rxseq_txack = RxCount % SeqMod
  /\ \A i \in 1..Len(up) : up[i] = i
  /\ rx_skb.kind = "data" => rx_skb.id = Len(up) + 1
  /\ c_base <= RxCount /\ RxCount <= c_base + CtrlWin /\ RxCount <= c_top

\* The reliable packets on a wire: none is further from the count its receiver
\* has reached than the window, and one behind another is less than a window
\* older, so that the receiver can tell an old one from a new one.
OnWire(w, base, win, top, reached) ==
  /\ \A j \in 1..Len(w) : w[j].kind = "data" =>
       /\ w[j].seq = (w[j].id - 1) % SeqMod
       /\ 1 <= w[j].id /\ w[j].id <= base + win /\ w[j].id <= top
       /\ reached < w[j].id + win
  /\ \A j, k \in 1..Len(w) :
       j < k /\ w[j].kind = "data" /\ w[k].kind = "data" => w[j].id < w[k].id + win

\* The acknowledgements on a wire: truthful, never going back, none behind what
\* its receiver has already taken as acknowledged.
AcksOnWire(w, base, reached) ==
  /\ \A j \in 1..Len(w) :
       w[j].ack = w[j].cum % SeqMod /\ base <= w[j].cum /\ w[j].cum <= reached
  /\ \A j, k \in 1..Len(w) : j < k => w[j].cum <= w[k].cum

\* The same for the packet h5_complete_rx_pkt holds, which is ahead of the wire.
AckHeld ==
  rx_skb # NoPkt =>
    /\ rx_skb.ack = rx_skb.cum % SeqMod
    /\ Base <= rx_skb.cum /\ rx_skb.cum <= Len(got)
    /\ \A j \in 1..Len(c2h) : rx_skb.cum <= c2h[j].cum

\* The sliding windows of both directions are consistent with what is on the
\* wires and with what the other side has: the invariant the proofs rest on.
WindowsConsistent ==
  /\ RxPlace
  /\ DownCounts
  /\ UpCounts
  /\ OnWire(h2c, Base, Win, sent, Len(got))
  /\ OnWire(c2h, c_base, CtrlWin, c_top, RxCount)
  /\ AcksOnWire(c2h, Base, Len(got))
  /\ AcksOnWire(h2c, c_base, RxCount)
  /\ AckHeld

-----------------------------------------------------------------------------
(* Fairness.  Each thread that can go on again and again does so (SF for   *)
(* the places where it waits for the mutex).  The timer and its handler    *)
(* run.  The UART does not damage every packet for ever, and the           *)
(* controller reads and answers.  Nothing makes the stack send more.       *)
Fairness ==
  /\ SF_vars(h5_wake_up("stack"))
  /\ SF_vars(RxTake \/ h5_wake_up("rx") \/ h5_remove_acked_pkt \/ hci_recv_frame)
  /\ SF_vars(Retrans \/ h5_wake_up("retrans"))
  /\ WF_vars(timer_expires \/ h5_retransfer_timeout_handler)
  /\ SF_vars(ctrl_recv)
  /\ WF_vars(ctrl_send_ack)

FairSpec == Spec /\ Fairness

\* A packet that h5_dequeue has sent reaches the controller, however often it is
\* damaged, or the stack is told by the hardware error event.
InFlightResolved ==
  \A n \in 1..MaxDown :
    (\E i \in 1..Len(unack) : unack[i] = n) ~> (Len(got) >= n \/ hw_error)

\* A packet that the stack has handed over reaches the controller, or the stack
\* is told.  h5_dequeue: "We can only send a reliable packet if the number of
\* packets sent but not yet ack'ed is < than the winsize": when an
\* acknowledgement makes room again, the packets held back should go out.
AllDelivered ==
  \A n \in 1..MaxDown : (sent >= n) ~> (Len(got) >= n \/ hw_error)
=============================================================================
