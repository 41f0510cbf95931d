------------------------- MODULE H5TransportProofs -------------------------
(***************************************************************************)
(* Proofs about H5Transport, for every window, limit and bound and for     *)
(* sequence numbers of one, two or three bits.                             *)
(***************************************************************************)
EXTENDS H5Transport, TLAPS

-----------------------------------------------------------------------------
(* Numbers that wrap.                                                      *)

\* Two counts less than SeqMod apart have different numbers.
LEMMA ModInjective ==
  ASSUME NEW a \in Int, NEW b \in Int, a % SeqMod = b % SeqMod,
         a - b < SeqMod, b - a < SeqMod
  PROVE  a = b
<1>1. CASE SeqMod = 2  BY <1>1
<1>2. CASE SeqMod = 4  BY <1>2
<1>3. CASE SeqMod = 8  BY <1>3
<1> QED  BY <1>1, <1>2, <1>3, SeqModAssumption

\* A number is in range, and steps by one or by -n like the count behind it.
LEMMA ModStep ==
  ASSUME NEW a \in Int, NEW n \in Int
  PROVE  /\ a % SeqMod \in Seqno
         /\ ((a % SeqMod) + 1) % SeqMod = (a + 1) % SeqMod
         /\ ((a % SeqMod) - n) % SeqMod = (a - n) % SeqMod
<1>1. CASE SeqMod = 2  BY <1>1 DEF Seqno
<1>2. CASE SeqMod = 4  BY <1>2 DEF Seqno
<1>3. CASE SeqMod = 8  BY <1>3 DEF Seqno
<1> QED  BY <1>1, <1>2, <1>3, SeqModAssumption

\* pkts_to_be_removed: the walk back from the next number stops at the count the
\* acknowledgement stands for, and only there, as long as n is less than SeqMod.
LEMMA RemovedExact ==
  ASSUME NEW next \in Int, NEW n \in Nat, n < SeqMod, NEW d \in 0..n
  PROVE  pkts_to_be_removed(next, n, (next - d) % SeqMod) = n - d
<1> DEFINE hits == {e \in 0..n : (next - e) % SeqMod = (next - d) % SeqMod}
<1>1. \A e \in hits : e = d
  <2>1. TAKE e \in hits
  <2>2. /\ next - e \in Int
        /\ next - d \in Int
        /\ (next - e) - (next - d) < SeqMod
        /\ (next - d) - (next - e) < SeqMod
    BY SeqModAssumption
  <2>3. (next - e) % SeqMod = (next - d) % SeqMod
    OBVIOUS
  <2>4. next - e = next - d
    BY <2>2, <2>3, ModInjective
  <2> QED  BY <2>4
<1>2. hits = {d} /\ d <= d
  BY <1>1
<1>3. least({d}) = d
  BY <1>2 DEF least
<1>4. pkts_to_be_removed(next, n, (next - d) % SeqMod) = n - least(hits)
  BY <1>2 DEF pkts_to_be_removed
<1> QED  BY <1>2, <1>3, <1>4

\* Whatever the acknowledgement is, it covers no more than the n packets.
LEMMA RemovedBounds ==
  ASSUME NEW next \in Int, NEW n \in Nat, n < SeqMod, NEW ack
  PROVE  pkts_to_be_removed(next, n, ack) \in 0..n
<1>1. CASE {d \in 0..n : (next - d) % SeqMod = ack} = {}
  BY <1>1 DEF pkts_to_be_removed
<1>2. CASE {d \in 0..n : (next - d) % SeqMod = ack} # {}
  <2>1. PICK d \in 0..n : (next - d) % SeqMod = ack
    BY <1>2
  <2>2. pkts_to_be_removed(next, n, (next - d) % SeqMod) = n - d
    BY RemovedExact
  <2> QED  BY <2>1, <2>2
<1> QED  BY <1>1, <1>2

-----------------------------------------------------------------------------
(* Types.  The windows are part of the induction: pkts_to_be_removed has a *)
(* meaning only for fewer than SeqMod outstanding packets.                 *)

TypeInv ==
  /\ TypeOK
  /\ Len(unack) <= Win
  /\ c_base <= c_top /\ c_top <= c_base + CtrlWin

\* Init satisfies it.
LEMMA TypeInit == Init => TypeInv
<1> SUFFICES ASSUME Init PROVE TypeInv
  OBVIOUS
<1>1. DataTypeOK
  BY SeqModAssumption DEF Init, DataTypeOK, Threads, Free, Seqno
<1>2. FlagTypeOK
  BY DEF Init, FlagTypeOK
<1>3. Len(unack) <= Win /\ c_base <= c_top /\ c_top <= c_base + CtrlWin
  BY SeqModAssumption, WinAssumption DEF Init
<1> QED  BY <1>1, <1>2, <1>3 DEF TypeInv, TypeOK

\* Every action preserves it.
LEMMA TypeStep == TypeInv /\ [Next]_vars => TypeInv'
<1> SUFFICES ASSUME TypeInv, [Next]_vars PROVE TypeInv'
  OBVIOUS
<1> USE SeqModAssumption, WinAssumption DEF TypeInv, TypeOK, DataTypeOK,
        Threads, Free, Seqno, Goto, hostvars, rxvars, passvars, tmrvars, ctrlvars
<1>1. CASE h5_enqueue_rel
  <2>1. FlagTypeOK'
    BY <1>1 DEF FlagTypeOK, h5_enqueue_rel
  <2>2. DataTypeOK' /\ Len(unack') <= Win /\ c_base' <= c_top' /\ c_top' <= c_base' + CtrlWin
    BY <1>1 DEF h5_enqueue_rel
  <2> QED  BY <2>1, <2>2
<1>2. CASE h5_enqueue_unrel
  <2>1. FlagTypeOK'
    BY <1>2 DEF FlagTypeOK, h5_enqueue_unrel
  <2>2. DataTypeOK' /\ Len(unack') <= Win /\ c_base' <= c_top' /\ c_top' <= c_base' + CtrlWin
    BY <1>2 DEF h5_enqueue_unrel
  <2> QED  BY <2>1, <2>2
<1>3. CASE h5_enqueue_freed
  <2>1. FlagTypeOK'
    BY <1>3 DEF FlagTypeOK, h5_enqueue_freed
  <2>2. DataTypeOK' /\ Len(unack') <= Win /\ c_base' <= c_top' /\ c_top' <= c_base' + CtrlWin
    BY <1>3 DEF h5_enqueue_freed
  <2> QED  BY <2>1, <2>2
<1>4. CASE recv_out_of_order
  <2>1. FlagTypeOK'
    BY <1>4 DEF FlagTypeOK, recv_out_of_order
  <2>2. DataTypeOK' /\ Len(unack') <= Win /\ c_base' <= c_top' /\ c_top' <= c_base' + CtrlWin
    BY <1>4 DEF recv_out_of_order
  <2> QED  BY <2>1, <2>2
<1>5. CASE complete_reliable
  <2>1. FlagTypeOK'
    BY <1>5 DEF FlagTypeOK, complete_reliable
  <2> DEFINE p == Head(c2h)
  <2>h. p \in Packet
    BY <1>5 DEF complete_reliable
  <2>p. p.seq \in Int
    BY <2>h DEF Packet
  <2>q. (p.seq + 1) % SeqMod \in Seqno
    BY <2>p, ModStep, SMTT(60)
  <2>2. DataTypeOK' /\ Len(unack') <= Win /\ c_base' <= c_top' /\ c_top' <= c_base' + CtrlWin
    BY <1>5, <2>h, <2>q DEF complete_reliable
  <2> QED  BY <2>1, <2>2
<1>6. CASE complete_unreliable
  <2>1. FlagTypeOK'
    BY <1>6 DEF FlagTypeOK, complete_unreliable
  <2>2. DataTypeOK' /\ Len(unack') <= Win /\ c_base' <= c_top' /\ c_top' <= c_base' + CtrlWin
    BY <1>6 DEF complete_unreliable
  <2> QED  BY <2>1, <2>2
<1>7. CASE recv_checksum_error
  <2>1. FlagTypeOK'
    BY <1>7 DEF FlagTypeOK, recv_checksum_error
  <2>2. DataTypeOK' /\ Len(unack') <= Win /\ c_base' <= c_top' /\ c_top' <= c_base' + CtrlWin
    BY <1>7 DEF recv_checksum_error
  <2> QED  BY <2>1, <2>2
<1>8. CASE hci_recv_frame
  <2>1. FlagTypeOK'
    BY <1>8 DEF FlagTypeOK, hci_recv_frame, Packet, NoPkt
  <2>2. DataTypeOK' /\ Len(unack') <= Win /\ c_base' <= c_top' /\ c_top' <= c_base' + CtrlWin
    BY <1>8 DEF hci_recv_frame, pass_up, Packet, NoPkt
  <2> QED  BY <2>1, <2>2
<1>w. CASE h5_wait_controller_baudrate_ready_timeout_handler
  <2>1. FlagTypeOK'
    BY <1>w DEF FlagTypeOK, h5_wait_controller_baudrate_ready_timeout_handler
  <2>2. DataTypeOK' /\ Len(unack') <= Win /\ c_base' <= c_top' /\ c_top' <= c_base' + CtrlWin
    BY <1>w DEF h5_wait_controller_baudrate_ready_timeout_handler
  <2> QED  BY <2>1, <2>2
<1>9. CASE timer_expires
  <2>1. FlagTypeOK'
    BY <1>9 DEF FlagTypeOK, timer_expires
  <2>2. DataTypeOK' /\ Len(unack') <= Win /\ c_base' <= c_top' /\ c_top' <= c_base' + CtrlWin
    BY <1>9 DEF timer_expires
  <2> QED  BY <2>1, <2>2
<1>10. CASE h5_retransfer_timeout_handler
  <2>1. FlagTypeOK'
    BY <1>10 DEF FlagTypeOK, h5_retransfer_timeout_handler
  <2>2. DataTypeOK' /\ Len(unack') <= Win /\ c_base' <= c_top' /\ c_top' <= c_base' + CtrlWin
    BY <1>10 DEF h5_retransfer_timeout_handler
  <2> QED  BY <2>1, <2>2
<1>11. CASE retrans_take_event
  <2>1. FlagTypeOK'
    BY <1>11 DEF FlagTypeOK, retrans_take_event
  <2>2. DataTypeOK' /\ Len(unack') <= Win /\ c_base' <= c_top' /\ c_top' <= c_base' + CtrlWin
    BY <1>11 DEF retrans_take_event
  <2> QED  BY <2>1, <2>2
<1>12. CASE retrans_go_on
  <2>1. FlagTypeOK'
    BY <1>12 DEF FlagTypeOK, retrans_go_on
  <2>2. DataTypeOK' /\ Len(unack') <= Win /\ c_base' <= c_top' /\ c_top' <= c_base' + CtrlWin
    BY <1>12 DEF retrans_go_on
  <2> QED  BY <2>1, <2>2
<1>13. CASE retrans_give_up
  <2>1. FlagTypeOK'
    BY <1>13 DEF FlagTypeOK, retrans_give_up
  <2>2. DataTypeOK' /\ Len(unack') <= Win /\ c_base' <= c_top' /\ c_top' <= c_base' + CtrlWin
    BY <1>13 DEF retrans_give_up
  <2> QED  BY <2>1, <2>2
<1>14. CASE retrans_requeue
  <2>1. FlagTypeOK'
    BY <1>14 DEF FlagTypeOK, retrans_requeue, requeue_unack
  <2>2. DataTypeOK' /\ Len(unack') <= Win /\ c_base' <= c_top' /\ c_top' <= c_base' + CtrlWin
    BY <1>14 DEF retrans_requeue, requeue_unack
  <2> QED  BY <2>1, <2>2
<1>15. CASE retrans_load
  <2>1. FlagTypeOK'
    BY <1>15 DEF FlagTypeOK, retrans_load
  <2>2. DataTypeOK' /\ Len(unack') <= Win /\ c_base' <= c_top' /\ c_top' <= c_base' + CtrlWin
    BY <1>15 DEF retrans_load
  <2> QED  BY <2>1, <2>2
<1>16. CASE retrans_store
  <2>1. FlagTypeOK'
    BY <1>16 DEF FlagTypeOK, retrans_store
  <2>2. DataTypeOK' /\ Len(unack') <= Win /\ c_base' <= c_top' /\ c_top' <= c_base' + CtrlWin
    BY <1>16 DEF retrans_store
  <2> QED  BY <2>1, <2>2
<1>17. CASE ctrl_checksum_error
  <2>1. FlagTypeOK'
    BY <1>17 DEF FlagTypeOK, ctrl_checksum_error
  <2>2. DataTypeOK' /\ Len(unack') <= Win /\ c_base' <= c_top' /\ c_top' <= c_base' + CtrlWin
    BY <1>17 DEF ctrl_checksum_error
  <2> QED  BY <2>1, <2>2
<1>18. CASE h5_remove_acked_pkt
  <2> DEFINE k == pkts_to_be_removed(msgq_txseq, Len(unack), rx_skb.ack)
             left == SubSeq(unack, k + 1, Len(unack))
  <2>1. k \in 0..Len(unack)
    BY RemovedBounds
  <2>2. left \in Seq(Nat) /\ Len(left) <= Len(unack)
    BY <2>1, SMTT(60)
  <2>3. FlagTypeOK'
    BY <1>18 DEF FlagTypeOK, h5_remove_acked_pkt, timer_after_ack
  <2> HIDE DEF k
  <2>4. DataTypeOK' /\ Len(unack') <= Win /\ c_base' <= c_top' /\ c_top' <= c_base' + CtrlWin
    BY <1>18, <2>2, SMTT(60) DEF h5_remove_acked_pkt, k
  <2> QED  BY <2>3, <2>4
<1>19. CASE ctrl_recv
  <2> DEFINE p == Head(h2c)
             k == pkts_to_be_removed(c_top % SeqMod, c_top - c_base, p.ack)
  <2>h. p \in Packet
    BY <1>19 DEF ctrl_recv
  <2>1. p.id \in Nat
    BY <2>h DEF Packet
  <2>2. k \in 0..(c_top - c_base)
    <3>1. c_top % SeqMod \in Int /\ c_top - c_base \in Nat /\ c_top - c_base < SeqMod
      BY ModStep
    <3> QED  BY <3>1, RemovedBounds
  <2>3. FlagTypeOK'
    BY <1>19 DEF FlagTypeOK, ctrl_recv
  <2> HIDE DEF k
  <2>b. c_base' = c_base + k
    BY <1>19 DEF ctrl_recv, k
  <2>4. c_base' \in Nat /\ c_base' <= c_top /\ c_top <= c_base' + CtrlWin
    BY <2>2, <2>b
  <2>g. got' = got \/ got' = Append(got, p.id)
    BY <1>19 DEF ctrl_recv
  <2>5. got' \in Seq(Nat) /\ h2c' \in Seq(Packet)
    BY <1>19, <2>1, <2>g DEF ctrl_recv
  <2> QED  BY <1>19, <2>3, <2>4, <2>5 DEF ctrl_recv
<1>20. ASSUME NEW kind \in {"data", "unrel"}, NEW id \in Nat, ctrl_send(kind, id),
              kind = "data" => id >= 1
       PROVE  c2h' \in Seq(Packet) /\ FlagTypeOK'
  <2>1. (id - 1) % SeqMod \in Seqno /\ Len(got) % SeqMod \in Seqno
    BY ModStep
  <2>2. c2h' \in Seq(Packet)
    BY <1>20, <2>1 DEF ctrl_send, Packet
  <2>3. FlagTypeOK'
    BY <1>20 DEF FlagTypeOK, ctrl_send
  <2> QED  BY <2>2, <2>3
<1>21. CASE ctrl_send_ack
  <2>1. c2h' \in Seq(Packet) /\ FlagTypeOK'
    BY <1>20, <1>21 DEF ctrl_send_ack
  <2> QED  BY <1>21, <2>1 DEF ctrl_send_ack, ctrl_send
<1>22. CASE ctrl_send_data
  <2>1. PICK id \in (c_base + 1)..(c_base + CtrlWin) :
          /\ id <= c_top + 1 /\ id <= MaxUp
          /\ ctrl_send("data", id)
          /\ c_top' = IF id > c_top THEN id ELSE c_top
    BY <1>22 DEF ctrl_send_data
  <2>i. id \in Nat /\ id >= 1
    BY <2>1
  <2>2. c2h' \in Seq(Packet) /\ FlagTypeOK'
    BY <1>20, <2>1, <2>i
  <2>3. c_top' \in Nat /\ c_base <= c_top' /\ c_top' <= c_base + CtrlWin
    BY <2>1
  <2> QED  BY <2>1, <2>2, <2>3 DEF ctrl_send
<1>23. ASSUME NEW kind \in {"data", "unrel"}, NEW id \in Nat, h5_prepare_pkt(kind, id)
       PROVE  h2c' \in Seq(Packet) /\ is_txack_req' \in BOOLEAN /\ msgq_txseq' \in Seqno
  <2>1. RxCount \in Nat
    BY DEF RxCount
  <2>2. (msgq_txseq + 1) % SeqMod \in Seqno
    BY ModStep
  <2>3. is_txack_req' \in BOOLEAN
    BY <1>23 DEF h5_prepare_pkt
  <2>4. h2c' \in Seq(Packet) /\ msgq_txseq' \in Seqno
    BY <1>23, <2>1, <2>2 DEF h5_prepare_pkt, Packet
  <2> QED  BY <2>3, <2>4
<1>24. ASSUME NEW t \in Threads, h5_wake_up(t) PROVE TypeInv'
  <2>1. CASE h5_wake_up_lock(t)
    <3>1. FlagTypeOK'
      BY <2>1 DEF FlagTypeOK, h5_wake_up_lock
    <3> QED  BY <2>1, <3>1 DEF h5_wake_up_lock
  <2>2. CASE h5_wake_up_done(t)
    <3>1. FlagTypeOK'
      BY <2>2 DEF FlagTypeOK, h5_wake_up_done
    <3> QED  BY <2>2, <3>1 DEF h5_wake_up_done
  <2>3. CASE dequeue_unrel(t)
    <3>1. h2c' \in Seq(Packet) /\ is_txack_req' \in BOOLEAN /\ msgq_txseq' \in Seqno
      BY <1>23, <2>3 DEF dequeue_unrel
    <3>2. FlagTypeOK'
      BY <2>3, <3>1 DEF FlagTypeOK, dequeue_unrel
    <3> QED  BY <2>3, <3>1, <3>2 DEF dequeue_unrel
  <2>4. CASE dequeue_rel(t)
    <3>1. Head(rel) \in Nat
      BY <2>4, SMTT(60) DEF dequeue_rel
    <3>2. h2c' \in Seq(Packet) /\ is_txack_req' \in BOOLEAN /\ msgq_txseq' \in Seqno
      BY <1>23, <2>4, <3>1 DEF dequeue_rel
    <3>3. FlagTypeOK'
      BY <2>4, <3>2 DEF FlagTypeOK, dequeue_rel
    <3> QED  BY <2>4, <3>1, <3>2, <3>3 DEF dequeue_rel, window_open
  <2>5. CASE dequeue_ack(t)
    <3>1. h2c' \in Seq(Packet) /\ is_txack_req' \in BOOLEAN /\ msgq_txseq' \in Seqno
      BY <1>23, <2>5 DEF dequeue_ack
    <3>2. FlagTypeOK'
      BY <2>5, <3>1 DEF FlagTypeOK, dequeue_ack
    <3> QED  BY <2>5, <3>1, <3>2 DEF dequeue_ack
  <2> QED  BY <1>24, <2>1, <2>2, <2>3, <2>4, <2>5 DEF h5_wake_up, dequeue
<1>25. CASE UNCHANGED vars
  <2>1. FlagTypeOK'
    BY <1>25 DEF FlagTypeOK, vars
  <2> QED  BY <1>25, <2>1 DEF vars
<1> HIDE DEF TypeInv
<1> QED
  BY <1>1, <1>2, <1>3, <1>4, <1>5, <1>6, <1>7, <1>8, <1>9, <1>10, <1>11, <1>12, <1>13,
     <1>14, <1>15, <1>16, <1>17, <1>18, <1>19, <1>21, <1>22, <1>24, <1>25, <1>w
     DEF Next, Stack, Rx, RxTake, Retrans, Controller

\* Type correctness of the transport, in every reachable state.
THEOREM TypeCorrect == Spec => []TypeOK
<1>1. TypeInv => TypeOK
  BY DEF TypeInv
<1> QED  BY TypeInit, TypeStep, <1>1, PTL DEF Spec

-----------------------------------------------------------------------------
(* What happens to the packets and acknowledgements on a wire.             *)

\* The fields of a packet have their types.
LEMMA PacketFields ==
  ASSUME NEW p \in Packet
  PROVE  /\ p.kind \in {"data", "unrel"} /\ p.seq \in Int /\ p.ack \in Int
         /\ p.id \in Nat /\ p.cum \in Nat
  BY DEF Packet, Seqno

\* A packet of the window is put on the wire.
LEMMA OnWireAppend ==
  ASSUME NEW w \in Seq(Packet), NEW base \in Nat, NEW win \in Nat, NEW top \in Nat,
         NEW reached \in Nat, NEW p \in Packet,
         OnWire(w, base, win, top, reached),
         p.kind = "data" => /\ p.seq = (p.id - 1) % SeqMod
                            /\ base + 1 <= p.id /\ p.id <= base + win /\ p.id <= top
                            /\ reached < p.id + win
  PROVE  OnWire(Append(w, p), base, win, top, reached)
<1> DEFINE v == Append(w, p)
<1>1. /\ Len(v) = Len(w) + 1
      /\ \A j \in 1..Len(w) : v[j] = w[j] /\ v[j] \in Packet
      /\ v[Len(w) + 1] = p
  OBVIOUS
<1>2. \A j \in 1..Len(v) : v[j] \in Packet /\ v[j].id \in Nat
  BY <1>1, SMTT(60) DEF Packet
<1> HIDE DEF v
<1>3. \A j \in 1..Len(v) : v[j].kind = "data" =>
        /\ v[j].seq = (v[j].id - 1) % SeqMod
        /\ 1 <= v[j].id /\ v[j].id <= base + win /\ v[j].id <= top
        /\ reached < v[j].id + win
  BY <1>1, <1>2, SMTT(60) DEF OnWire
<1>4. ASSUME NEW j \in 1..Len(v), NEW k \in 1..Len(v), j < k,
             v[j].kind = "data", v[k].kind = "data"
      PROVE  v[j].id < v[k].id + win
  <2>1. CASE k = Len(w) + 1
    BY <1>1, <1>2, <1>3, <1>4, <2>1, SMTT(60)
  <2>2. CASE k # Len(w) + 1
    BY <1>1, <1>4, <2>2 DEF OnWire
  <2> QED  BY <2>1, <2>2
<1> QED  BY <1>3, <1>4 DEF OnWire, v

\* The packet at the head is taken off.
LEMMA OnWireTail ==
  ASSUME NEW w \in Seq(Packet), w # << >>, NEW base \in Nat, NEW win \in Nat,
         NEW top \in Nat, NEW reached \in Nat, OnWire(w, base, win, top, reached)
  PROVE  OnWire(Tail(w), base, win, top, reached)
<1> DEFINE v == Tail(w)
<1>1. Len(v) = Len(w) - 1 /\ \A j \in 1..Len(v) : v[j] = w[j + 1]
  OBVIOUS
<1>2. \A j \in 1..Len(v) : j + 1 \in 1..Len(w)
  BY <1>1
<1> HIDE DEF v
<1> QED  BY <1>1, <1>2 DEF OnWire, v

\* ... and accepted, because it is the next one.
LEMMA OnWireAccept ==
  ASSUME NEW w \in Seq(Packet), w # << >>, NEW base \in Nat, NEW win \in Nat,
         NEW top \in Nat, NEW reached \in Nat, OnWire(w, base, win, top, reached),
         Head(w).kind = "data", Head(w).id = reached + 1
  PROVE  OnWire(Tail(w), base, win, top, reached + 1)
<1> DEFINE v == Tail(w)
<1>1. Len(v) = Len(w) - 1 /\ \A j \in 1..Len(v) : v[j] = w[j + 1]
  OBVIOUS
<1>2. \A j \in 1..Len(v) : j + 1 \in 1..Len(w) /\ 1 < j + 1
  BY <1>1
<1>3. 1 \in 1..Len(w) /\ w[1].kind = "data" /\ w[1].id = reached + 1
  OBVIOUS
<1> HIDE DEF v
<1>4. \A j \in 1..Len(v) : v[j].kind = "data" => reached + 1 < v[j].id + win
  BY <1>1, <1>2, <1>3 DEF OnWire
<1> QED  BY <1>1, <1>2, <1>4 DEF OnWire, v

\* The sender goes on: more packets are acknowledged, more are there to be sent.
LEMMA OnWireMono ==
  ASSUME NEW w \in Seq(Packet), NEW base \in Nat, NEW win \in Nat,
         NEW top \in Nat, NEW reached \in Nat, OnWire(w, base, win, top, reached),
         NEW base2 \in Nat, NEW top2 \in Nat, base <= base2, top <= top2
  PROVE  OnWire(w, base2, win, top2, reached)
<1>1. \A j \in 1..Len(w) : w[j] \in Packet
  OBVIOUS
<1>2. \A j \in 1..Len(w) : w[j].id \in Nat
  BY <1>1, PacketFields
<1> QED  BY <1>2 DEF OnWire

\* A packet on the wire that carries the expected number is the expected packet.
LEMMA ExpectedIsNext ==
  ASSUME NEW w \in Seq(Packet), w # << >>, NEW base \in Nat, NEW win \in 0..(SeqMod - 1),
         NEW top \in Nat, NEW reached \in Nat, OnWire(w, base, win, top, reached),
         base <= reached, Head(w).kind = "data", Head(w).seq = reached % SeqMod
  PROVE  Head(w).id = reached + 1 /\ Head(w).id <= base + win /\ Head(w).id <= top
<1> DEFINE h == Head(w)
<1>1. h \in Packet /\ h = w[1] /\ 1 \in 1..Len(w)
  OBVIOUS
<1>2. h.id \in Nat
  BY <1>1 DEF Packet
<1> HIDE DEF h
<1>3. /\ h.seq = (h.id - 1) % SeqMod
      /\ 1 <= h.id /\ h.id <= base + win /\ h.id <= top
      /\ reached < h.id + win
  BY <1>1 DEF OnWire, h
<1>4. h.id - 1 \in Int /\ (h.id - 1) - reached < SeqMod /\ reached - (h.id - 1) < SeqMod
  BY <1>2, <1>3, SeqModAssumption, SMTT(60)
<1>5. h.id - 1 = reached
  BY <1>3, <1>4, ModInjective DEF h
<1> QED  BY <1>2, <1>3, <1>5 DEF h

\* A packet carries the acknowledgement of everything its sender has received.
LEMMA AcksAppend ==
  ASSUME NEW w \in Seq(Packet), NEW base \in Nat, NEW reached \in Nat, NEW p \in Packet,
         AcksOnWire(w, base, reached), base <= reached,
         p.cum = reached, p.ack = reached % SeqMod
  PROVE  AcksOnWire(Append(w, p), base, reached)
<1> DEFINE v == Append(w, p)
<1>1. /\ Len(v) = Len(w) + 1
      /\ \A j \in 1..Len(w) : v[j] = w[j] /\ v[j] \in Packet
      /\ v[Len(w) + 1] = p
  OBVIOUS
<1> HIDE DEF v
<1>2. \A j \in 1..Len(v) :
        v[j].ack = v[j].cum % SeqMod /\ base <= v[j].cum /\ v[j].cum <= reached
  BY <1>1 DEF AcksOnWire
<1>3. \A j, k \in 1..Len(v) : j < k => v[j].cum <= v[k].cum
  BY <1>1, <1>2 DEF AcksOnWire
<1> QED  BY <1>2, <1>3 DEF AcksOnWire, v

\* The head of the wire is taken off, and its acknowledgement believed; its
\* sender may have received more.
LEMMA AcksTail ==
  ASSUME NEW w \in Seq(Packet), w # << >>, NEW base \in Nat, NEW reached \in Nat,
         AcksOnWire(w, base, reached)
  PROVE  /\ AcksOnWire(Tail(w), base, reached)
         /\ AcksOnWire(Tail(w), Head(w).cum, reached)
         /\ \A j \in 1..Len(Tail(w)) : Head(w).cum <= Tail(w)[j].cum
         /\ Head(w).ack = Head(w).cum % SeqMod
         /\ base <= Head(w).cum /\ Head(w).cum <= reached
<1> DEFINE v == Tail(w)
<1>1. Len(v) = Len(w) - 1 /\ \A j \in 1..Len(v) : v[j] = w[j + 1]
  OBVIOUS
<1>2. \A j \in 1..Len(v) : j + 1 \in 1..Len(w) /\ 1 < j + 1
  BY <1>1
<1>3. 1 \in 1..Len(w) /\ Head(w) = w[1]
  OBVIOUS
<1> HIDE DEF v
<1>4. \A j \in 1..Len(v) : w[1].cum <= v[j].cum
  BY <1>1, <1>2, <1>3 DEF AcksOnWire
<1>5. AcksOnWire(v, base, reached)
  <2>1. \A j \in 1..Len(v) :
          v[j].ack = v[j].cum % SeqMod /\ base <= v[j].cum /\ v[j].cum <= reached
    BY <1>1, <1>2 DEF AcksOnWire
  <2>2. ASSUME NEW j \in 1..Len(v), NEW k \in 1..Len(v), j < k
        PROVE  v[j].cum <= v[k].cum
    <3>1. j + 1 < k + 1
      BY <2>2
    <3> QED  BY <1>1, <1>2, <3>1 DEF AcksOnWire
  <2> QED  BY <2>1, <2>2 DEF AcksOnWire
<1>6. AcksOnWire(v, w[1].cum, reached)
  BY <1>4, <1>5 DEF AcksOnWire
<1>7. w[1].ack = w[1].cum % SeqMod /\ base <= w[1].cum /\ w[1].cum <= reached
  BY <1>3 DEF AcksOnWire
<1> QED  BY <1>3, <1>4, <1>5, <1>6, <1>7 DEF v

\* Acknowledgements on the wire stay truthful when the other side accepts more.
LEMMA AcksMono ==
  ASSUME NEW w \in Seq(Packet), NEW base \in Nat, NEW reached \in Nat,
         AcksOnWire(w, base, reached), NEW reached2 \in Nat, reached <= reached2
  PROVE  AcksOnWire(w, base, reached2)
<1>1. \A j \in 1..Len(w) : w[j] \in Packet
  OBVIOUS
<1>2. \A j \in 1..Len(w) : w[j].cum \in Nat
  BY <1>1, PacketFields
<1> QED  BY <1>2 DEF AcksOnWire

\* ... and when the sender has removed more, if none on the wire is older.
LEMMA AcksRaise ==
  ASSUME NEW w \in Seq(Packet), NEW base \in Nat, NEW reached \in Nat,
         AcksOnWire(w, base, reached), NEW base2 \in Nat,
         \A j \in 1..Len(w) : base2 <= w[j].cum
  PROVE  AcksOnWire(w, base2, reached)
  BY DEF AcksOnWire

-----------------------------------------------------------------------------
(* The windows stay consistent, action by action.                          *)

Links == <<sent, rel, unack, msgq_txseq, rxseq_txack, up, rx_skb, h2c, c2h, got, c_base, c_top>>

\* The counts are natural numbers, so that the lemmas above apply to them.
LEMMA CountTypes ==
  ASSUME TypeInv, WindowsConsistent
  PROVE  /\ Base \in Nat /\ RxCount \in Nat /\ Len(got) \in Nat /\ sent \in Nat
         /\ c_base \in Nat /\ c_top \in Nat /\ Win \in Nat /\ CtrlWin \in Nat
         /\ h2c \in Seq(Packet) /\ c2h \in Seq(Packet)
  BY SeqModAssumption, WinAssumption, SMTT(60)
     DEF TypeInv, TypeOK, DataTypeOK, WindowsConsistent, DownCounts, Base, RxCount

\* An action that moves only threads, timers, flags and counters keeps it.
LEMMA QuietStep ==
  ASSUME WindowsConsistent, UNCHANGED Links, RxPlace'
  PROVE  WindowsConsistent'
<1>1. Base' = Base /\ RxCount' = RxCount
  BY DEF Links, Base, RxCount
<1>2. DownCounts'
  BY <1>1 DEF Links, WindowsConsistent, DownCounts, QueuesHoldRest
<1>3. UpCounts'
  BY <1>1 DEF Links, WindowsConsistent, UpCounts
<1>4. AckHeld'
  BY <1>1 DEF Links, WindowsConsistent, AckHeld
<1> QED  BY <1>1, <1>2, <1>3, <1>4 DEF Links, WindowsConsistent

\* The actions that move only threads, timers, flags and counters.
LEMMA QuietActions ==
  ASSUME TypeInv, WindowsConsistent,
         \/ h5_enqueue_unrel \/ h5_enqueue_freed
         \/ \E t \in Threads : h5_wake_up_lock(t) \/ h5_wake_up_done(t)
         \/ timer_expires \/ h5_retransfer_timeout_handler
         \/ retrans_take_event \/ retrans_go_on \/ retrans_give_up
         \/ retrans_load \/ retrans_store
  PROVE  WindowsConsistent'
<1> USE DEF TypeInv, TypeOK, DataTypeOK, WindowsConsistent, RxPlace, Threads, Goto
<1>1. UNCHANGED Links
  BY DEF Links, h5_enqueue_unrel, h5_enqueue_freed, h5_wake_up_lock, h5_wake_up_done,
         timer_expires, h5_retransfer_timeout_handler, retrans_take_event, retrans_go_on,
         retrans_give_up, retrans_load, retrans_store, hostvars, rxvars, ctrlvars
<1>2. RxPlace'
  <2>1. CASE \E t \in Threads : h5_wake_up_lock(t) \/ h5_wake_up_done(t)
    BY <2>1 DEF h5_wake_up_lock, h5_wake_up_done, rxvars
  <2>2. CASE h5_enqueue_unrel \/ h5_enqueue_freed
    BY <2>2 DEF h5_enqueue_unrel, h5_enqueue_freed, rxvars
  <2>3. CASE timer_expires \/ h5_retransfer_timeout_handler
    BY <2>3 DEF timer_expires, h5_retransfer_timeout_handler, rxvars
  <2>4. CASE retrans_take_event \/ retrans_go_on \/ retrans_give_up \/ retrans_load \/ retrans_store
    BY <2>4 DEF retrans_take_event, retrans_go_on, retrans_give_up, retrans_load,
                retrans_store, rxvars
  <2> QED  BY <2>1, <2>2, <2>3, <2>4
<1> HIDE DEF WindowsConsistent, RxPlace
<1> QED  BY <1>1, <1>2, QuietStep

\* A new packet of the stack joins the end of rel.
LEMMA EnqueueStep ==
  ASSUME TypeInv, WindowsConsistent, h5_enqueue_rel
  PROVE  WindowsConsistent'
<1> USE DEF TypeInv, TypeOK, DataTypeOK
<1>1. /\ sent' = sent + 1 /\ rel' = Append(rel, sent + 1)
      /\ UNCHANGED <<unack, msgq_txseq, rxseq_txack, up, rx_skb, h2c, c2h, got, c_base, c_top>>
  BY DEF h5_enqueue_rel, rxvars, ctrlvars
<1>2. Base' = Base /\ RxCount' = RxCount
  BY <1>1 DEF Base, RxCount
<1>3. RxPlace'
  BY DEF WindowsConsistent, RxPlace, h5_enqueue_rel, Goto, Threads, rxvars
<1>4. DownCounts'
  <2>1. Base + Len(unack) + (Len(rel) + 1) = sent + 1
    BY DEF Base
  <2>2. Len(rel') = Len(rel) + 1 /\ \A i \in 1..Len(rel) : rel'[i] = rel[i]
    BY <1>1
  <2>3. rel'[Len(rel) + 1] = sent + 1
    BY <1>1
  <2>4. \A i \in 1..Len(rel) : rel[i] = Base + Len(unack) + i
    BY DEF WindowsConsistent, DownCounts, QueuesHoldRest
  <2>5. \A i \in 1..Len(rel') : rel'[i] = Base + Len(unack) + i
    <3>1. TAKE i \in 1..Len(rel')
    <3>2. CASE i \in 1..Len(rel)
      BY <2>2, <2>4, <3>2
    <3>3. CASE i = Len(rel) + 1
      BY <2>1, <2>3, <3>3
    <3> QED  BY <2>2, <3>2, <3>3
  <2>6. QueuesHoldRest'
    BY <1>1, <1>2, <2>5 DEF WindowsConsistent, DownCounts, QueuesHoldRest
  <2>7. Len(rel') + Len(unack') <= sent' /\ Len(got') <= sent'
    BY <1>1, <2>2 DEF WindowsConsistent, DownCounts
  <2> QED  BY <1>1, <1>2, <2>6, <2>7 DEF WindowsConsistent, DownCounts
<1>5. UpCounts'
  BY <1>1, <1>2 DEF WindowsConsistent, UpCounts
<1>6. OnWire(h2c, Base, Win, sent + 1, Len(got))
  <2>1. sent + 1 \in Nat /\ sent <= sent + 1 /\ Base <= Base
    BY CountTypes
  <2>2. OnWire(h2c, Base, Win, sent, Len(got))
    BY DEF WindowsConsistent
  <2> QED  BY <2>1, <2>2, CountTypes, OnWireMono
<1>7. AckHeld'
  BY <1>1, <1>2 DEF WindowsConsistent, AckHeld
<1> QED  BY <1>1, <1>2, <1>3, <1>4, <1>5, <1>6, <1>7 DEF WindowsConsistent

\* h5_prepare_pkt puts a packet on the wire that fits the windows.
LEMMA PrepareStep ==
  ASSUME TypeInv, WindowsConsistent, NEW kind \in {"data", "unrel"}, NEW id \in Nat,
         h5_prepare_pkt(kind, id),
         kind = "data" => id = Base + Len(unack) + 1 /\ Len(unack) < Win /\ id <= sent
  PROVE  /\ OnWire(h2c', Base, Win, sent, Len(got))
         /\ AcksOnWire(h2c', c_base, RxCount)
<1> DEFINE p == [kind |-> kind, seq |-> IF kind = "data" THEN msgq_txseq ELSE 0,
                 ack |-> rxseq_txack, id |-> id, cum |-> RxCount]
<1>1. h2c' = Append(h2c, p)
  BY DEF h5_prepare_pkt
<1>2. p \in Packet
  BY CountTypes, SeqModAssumption DEF Packet, TypeInv, TypeOK, DataTypeOK, Seqno
<1>3. ASSUME kind = "data"
      PROVE  /\ msgq_txseq = (id - 1) % SeqMod
             /\ Base + 1 <= id /\ id <= Base + Win /\ id <= sent /\ Len(got) < id + Win
  <2>1. Base \in Nat /\ Len(unack) \in Nat /\ Win \in Nat
    BY CountTypes DEF TypeInv, TypeOK, DataTypeOK
  <2>2. id - 1 = Base + Len(unack)
    BY <1>3, <2>1
  <2>3. Len(got) <= Base + Win /\ msgq_txseq = (Base + Len(unack)) % SeqMod
    BY DEF WindowsConsistent, DownCounts
  <2>4. Base + 1 <= id /\ id <= Base + Win
    BY <1>3, <2>1
  <2>5. Len(got) < id + Win
    BY <2>1, <2>3, <2>4, CountTypes
  <2> QED  BY <1>3, <2>2, <2>3, <2>4, <2>5
<1>4. OnWire(Append(h2c, p), Base, Win, sent, Len(got))
  <2>1. OnWire(h2c, Base, Win, sent, Len(got))
    BY DEF WindowsConsistent
  <2>2. p.kind = "data" => /\ p.seq = (p.id - 1) % SeqMod
                           /\ Base + 1 <= p.id /\ p.id <= Base + Win /\ p.id <= sent
                           /\ Len(got) < p.id + Win
    BY <1>3
  <2> HIDE DEF p
  <2> QED  BY <1>2, <2>1, <2>2, CountTypes, OnWireAppend
<1>5. AcksOnWire(Append(h2c, p), c_base, RxCount)
  <2>1. AcksOnWire(h2c, c_base, RxCount) /\ c_base <= RxCount
    BY DEF WindowsConsistent, UpCounts
  <2>2. p.cum = RxCount /\ p.ack = RxCount % SeqMod
    BY DEF WindowsConsistent, UpCounts
  <2> HIDE DEF p
  <2> QED  BY <1>2, <2>1, <2>2, CountTypes, AcksAppend
<1> QED  BY <1>1, <1>4, <1>5

\* An unreliable packet or an empty acknowledgement is sent.
LEMMA SendUnreliableStep ==
  ASSUME TypeInv, WindowsConsistent, NEW t \in Threads, dequeue_unrel(t) \/ dequeue_ack(t)
  PROVE  WindowsConsistent'
<1>1. /\ h5_prepare_pkt("unrel", 0)
      /\ UNCHANGED <<sent, rel, unack, rxseq_txack, up, rx_skb, pc, c2h, got, c_base, c_top>>
  BY DEF dequeue_unrel, dequeue_ack, rxvars, ctrlvars
<1>2. msgq_txseq' = msgq_txseq
  BY <1>1 DEF h5_prepare_pkt
<1>3. OnWire(h2c', Base, Win, sent, Len(got)) /\ AcksOnWire(h2c', c_base, RxCount)
  BY <1>1, PrepareStep
<1>4. Base' = Base /\ RxCount' = RxCount
  BY <1>1 DEF Base, RxCount
<1>5. RxPlace'
  BY <1>1 DEF WindowsConsistent, RxPlace
<1>6. DownCounts'
  BY <1>1, <1>2, <1>4 DEF WindowsConsistent, DownCounts, QueuesHoldRest
<1>7. UpCounts'
  BY <1>1, <1>4 DEF WindowsConsistent, UpCounts
<1>8. AckHeld'
  BY <1>1, <1>4 DEF WindowsConsistent, AckHeld
<1> QED  BY <1>1, <1>3, <1>4, <1>5, <1>6, <1>7, <1>8 DEF WindowsConsistent

\* The packet at the head of rel is sent and moves to the end of unack.
LEMMA SendReliableStep ==
  ASSUME TypeInv, WindowsConsistent, NEW t \in Threads, dequeue_rel(t)
  PROVE  WindowsConsistent'
<1> DEFINE id == Head(rel)
<1>1. /\ h5_prepare_pkt("data", id) /\ rel # << >> /\ Len(unack) < Win
      /\ rel' = Tail(rel) /\ unack' = Append(unack, id)
      /\ UNCHANGED <<sent, rxseq_txack, up, rx_skb, pc, c2h, got, c_base, c_top>>
  BY DEF dequeue_rel, window_open, rxvars, ctrlvars
<1>2. rel \in Seq(Nat) /\ unack \in Seq(Nat) /\ sent \in Nat /\ msgq_txseq \in Int
  BY DEF TypeInv, TypeOK, DataTypeOK, Seqno
<1>3. msgq_txseq' = (msgq_txseq + 1) % SeqMod
  BY <1>1 DEF h5_prepare_pkt
<1>4. /\ \A i \in 1..Len(unack) : unack[i] = Base + i
      /\ \A i \in 1..Len(rel) : rel[i] = Base + Len(unack) + i
      /\ Len(rel) + Len(unack) <= sent
      /\ msgq_txseq = (Base + Len(unack)) % SeqMod
  BY DEF WindowsConsistent, DownCounts, QueuesHoldRest
<1>5. Base \in Nat /\ Base = sent - Len(rel) - Len(unack)
  BY CountTypes DEF Base
<1>6. id = Base + Len(unack) + 1 /\ id <= sent /\ id \in Nat
  <2>1. id = rel[1] /\ 1 \in 1..Len(rel)
    BY <1>1, <1>2
  <2> HIDE DEF id
  <2>2. id = Base + Len(unack) + 1
    BY <1>4, <2>1
  <2> QED  BY <1>2, <1>5, <2>1, <2>2
<1> HIDE DEF id
<1>7. OnWire(h2c', Base, Win, sent, Len(got)) /\ AcksOnWire(h2c', c_base, RxCount)
  BY <1>1, <1>6, PrepareStep
<1>8. /\ Len(rel') = Len(rel) - 1 /\ Len(unack') = Len(unack) + 1
      /\ \A i \in 1..Len(rel') : rel'[i] = rel[i + 1] /\ i + 1 \in 1..Len(rel)
      /\ \A i \in 1..Len(unack) : unack'[i] = unack[i]
      /\ unack'[Len(unack) + 1] = id
  BY <1>1, <1>2, <1>6
<1>9. Base' = Base /\ RxCount' = RxCount
  BY <1>1, <1>2, <1>8 DEF Base, RxCount
<1>10. RxPlace'
  BY <1>1 DEF WindowsConsistent, RxPlace
<1>11. DownCounts'
  <2>1. ASSUME NEW i \in 1..Len(unack') PROVE unack'[i] = Base + i
    <3>1. CASE i \in 1..Len(unack)
      BY <1>4, <1>8, <3>1
    <3>2. CASE i = Len(unack) + 1
      <4>1. Base + (Len(unack) + 1) = Base + Len(unack) + 1
        BY <1>2, <1>5
      <4> QED  BY <1>6, <1>8, <3>2, <4>1
    <3> QED  BY <1>2, <1>8, <3>1, <3>2
  <2>2. ASSUME NEW i \in 1..Len(rel') PROVE rel'[i] = Base + Len(unack') + i
    <3>1. rel'[i] = Base + Len(unack) + (i + 1)
      BY <1>4, <1>8
    <3> QED  BY <1>2, <1>5, <1>8, <3>1
  <2>3. msgq_txseq' = (Base + Len(unack')) % SeqMod
    <3>1. Base + Len(unack) \in Int /\ Base + Len(unack') = (Base + Len(unack)) + 1
      BY <1>2, <1>5, <1>8
    <3> QED  BY <1>3, <1>4, <3>1, ModStep
  <2>4. Len(rel') + Len(unack') <= sent'
    BY <1>1, <1>2, <1>4, <1>8
  <2> QED  BY <1>1, <1>9, <2>1, <2>2, <2>3, <2>4
             DEF WindowsConsistent, DownCounts, QueuesHoldRest
<1>12. UpCounts'
  BY <1>1, <1>9 DEF WindowsConsistent, UpCounts
<1>13. AckHeld'
  BY <1>1, <1>9 DEF WindowsConsistent, AckHeld
<1> QED  BY <1>1, <1>7, <1>9, <1>10, <1>11, <1>12, <1>13 DEF WindowsConsistent

\* h5_recv drops the packet at the head of the wire: damaged or out of order.
LEMMA DropStep ==
  ASSUME TypeInv, WindowsConsistent, recv_checksum_error \/ recv_out_of_order
  PROVE  WindowsConsistent'
<1>1. /\ c2h # << >> /\ c2h' = Tail(c2h)
      /\ UNCHANGED <<sent, rel, unack, msgq_txseq, rxseq_txack, up, rx_skb, h2c, got, c_base, c_top>>
  BY DEF recv_checksum_error, recv_out_of_order, hostvars, rxvars, ctrlvars
<1>2. Base' = Base /\ RxCount' = RxCount
  BY <1>1 DEF Base, RxCount
<1>3. RxPlace' /\ rx_skb = NoPkt
  BY DEF WindowsConsistent, RxPlace, recv_checksum_error, recv_out_of_order, Goto,
         Threads, rxvars, TypeInv, TypeOK, DataTypeOK
<1>4. DownCounts'
  BY <1>1, <1>2 DEF WindowsConsistent, DownCounts, QueuesHoldRest
<1>5. UpCounts'
  BY <1>1, <1>2 DEF WindowsConsistent, UpCounts
<1>6. OnWire(Tail(c2h), c_base, CtrlWin, c_top, RxCount)
  BY <1>1, CountTypes, OnWireTail DEF WindowsConsistent
<1>7. AcksOnWire(Tail(c2h), Base, Len(got))
  BY <1>1, CountTypes, AcksTail DEF WindowsConsistent
<1>8. AckHeld'
  BY <1>1, <1>3 DEF AckHeld
<1> QED  BY <1>1, <1>2, <1>3, <1>4, <1>5, <1>6, <1>7, <1>8 DEF WindowsConsistent

\* h5_complete_rx_pkt takes the packet at the head of the wire.
LEMMA HoldStep ==
  ASSUME TypeInv, WindowsConsistent, c2h # << >>, rx_skb = NoPkt,
         c2h' = Tail(c2h), rx_skb' = Head(c2h),
         UNCHANGED <<sent, rel, unack, got>>
  PROVE  Base' = Base /\ AckHeld' /\ AcksOnWire(Tail(c2h), Base, Len(got))
<1>1. Base' = Base
  BY DEF Base
<1>2. /\ AcksOnWire(Tail(c2h), Base, Len(got))
      /\ \A j \in 1..Len(Tail(c2h)) : Head(c2h).cum <= Tail(c2h)[j].cum
      /\ Head(c2h).ack = Head(c2h).cum % SeqMod
      /\ Base <= Head(c2h).cum /\ Head(c2h).cum <= Len(got)
  BY CountTypes, AcksTail DEF WindowsConsistent
<1> QED  BY <1>1, <1>2 DEF AckHeld

\* A packet without a number is passed on: nothing the windows speak of changes.
LEMMA TakeUnreliableStep ==
  ASSUME TypeInv, WindowsConsistent, complete_unreliable
  PROVE  WindowsConsistent'
<1>1. /\ c2h # << >> /\ c2h' = Tail(c2h) /\ rx_skb' = Head(c2h) /\ Head(c2h).kind = "unrel"
      /\ UNCHANGED <<sent, rel, unack, msgq_txseq, rxseq_txack, up, h2c, got, c_base, c_top>>
  BY DEF complete_unreliable, hostvars, ctrlvars
<1>2. rx_skb = NoPkt
  BY DEF complete_unreliable, WindowsConsistent, RxPlace
<1>3. Base' = Base /\ AckHeld' /\ AcksOnWire(Tail(c2h), Base, Len(got))
  BY <1>1, <1>2, HoldStep
<1>4. RxCount' = RxCount
  BY <1>1, <1>2 DEF RxCount, NoPkt
<1>5. RxPlace'
  BY <1>1 DEF complete_unreliable, RxPlace, NoPkt, Goto, Threads, TypeInv, TypeOK, DataTypeOK
<1>6. DownCounts'
  BY <1>1, <1>3 DEF WindowsConsistent, DownCounts, QueuesHoldRest
<1>7. UpCounts'
  BY <1>1, <1>4 DEF WindowsConsistent, UpCounts
<1>8. OnWire(Tail(c2h), c_base, CtrlWin, c_top, RxCount)
  BY <1>1, CountTypes, OnWireTail DEF WindowsConsistent
<1> QED  BY <1>1, <1>3, <1>4, <1>5, <1>6, <1>7, <1>8 DEF WindowsConsistent

\* The packet with the expected number is the next one of the controller.
LEMMA TakeReliableStep ==
  ASSUME TypeInv, WindowsConsistent, complete_reliable
  PROVE  WindowsConsistent'
<1>1. /\ c2h # << >> /\ c2h' = Tail(c2h) /\ rx_skb' = Head(c2h) /\ Head(c2h).kind = "data"
      /\ Head(c2h).seq = rxseq_txack
      /\ rxseq_txack' = (rxseq_txack + 1) % SeqMod
      /\ UNCHANGED <<sent, rel, unack, msgq_txseq, up, h2c, got, c_base, c_top>>
  BY DEF complete_reliable, in_order, hostvars, ctrlvars
<1>2. rx_skb = NoPkt
  BY DEF complete_reliable, WindowsConsistent, RxPlace
<1>3. Base' = Base /\ AckHeld' /\ AcksOnWire(Tail(c2h), Base, Len(got))
  BY <1>1, <1>2, HoldStep
<1>4. RxCount = Len(up) /\ RxCount' = RxCount + 1
  BY <1>1, <1>2 DEF RxCount, NoPkt, TypeInv, TypeOK, DataTypeOK
<1>5. RxPlace'
  BY <1>1 DEF complete_reliable, RxPlace, NoPkt, Goto, Threads, TypeInv, TypeOK, DataTypeOK
<1>6. DownCounts'
  BY <1>1, <1>3 DEF WindowsConsistent, DownCounts, QueuesHoldRest
<1>7. /\ rxseq_txack = RxCount % SeqMod
      /\ c_base <= RxCount /\ RxCount <= c_base + CtrlWin /\ RxCount <= c_top
      /\ \A i \in 1..Len(up) : up[i] = i
      /\ OnWire(c2h, c_base, CtrlWin, c_top, RxCount)
      /\ AcksOnWire(h2c, c_base, RxCount)
  BY DEF WindowsConsistent, UpCounts
<1>8. /\ Head(c2h).id = RxCount + 1
      /\ Head(c2h).id <= c_base + CtrlWin /\ Head(c2h).id <= c_top
  BY <1>1, <1>7, CountTypes, ExpectedIsNext, WinAssumption, SMTT(60)
<1>9. UpCounts'
  <2>1. rxseq_txack' = (RxCount + 1) % SeqMod
    BY <1>1, <1>7, CountTypes, ModStep
  <2>2. c_base <= RxCount + 1 /\ RxCount + 1 <= c_base + CtrlWin /\ RxCount + 1 <= c_top
    BY <1>7, <1>8, CountTypes
  <2> QED  BY <1>1, <1>4, <1>7, <1>8, <2>1, <2>2 DEF UpCounts
<1>10. OnWire(Tail(c2h), c_base, CtrlWin, c_top, RxCount + 1)
  BY <1>1, <1>7, <1>8, CountTypes, OnWireAccept
<1>11. AcksOnWire(h2c, c_base, RxCount + 1)
  <2>1. RxCount + 1 \in Nat /\ RxCount <= RxCount + 1
    BY CountTypes
  <2> QED  BY <1>7, <2>1, CountTypes, AcksMono
<1> QED  BY <1>1, <1>3, <1>4, <1>5, <1>6, <1>9, <1>10, <1>11 DEF WindowsConsistent

\* An acknowledgement of a count within the window removes exactly the packets up
\* to that count; one of packets that have been taken back to rel removes none.
LEMMA RemovedByCount ==
  ASSUME NEW base \in Nat, NEW n \in Nat, NEW cum \in Nat,
         n < SeqMod, base <= cum, cum < base + SeqMod
  PROVE  pkts_to_be_removed((base + n) % SeqMod, n, cum % SeqMod)
           = IF cum <= base + n THEN cum - base ELSE 0
<1> DEFINE next == (base + n) % SeqMod
<1>1. next \in Int /\ \A d \in Int : (next - d) % SeqMod = (base + n - d) % SeqMod
  <2>1. base + n \in Int
    OBVIOUS
  <2>2. next \in Seqno
    BY <2>1, ModStep
  <2>3. ASSUME NEW d \in Int PROVE (next - d) % SeqMod = (base + n - d) % SeqMod
    BY <2>1, ModStep
  <2> HIDE DEF next
  <2> QED  BY <2>2, <2>3, SeqModAssumption DEF Seqno
<1> HIDE DEF next
<1>2. CASE cum <= base + n
  <2> DEFINE d == base + n - cum
  <2>1. d \in 0..n /\ base + n - d = cum /\ n - d = cum - base
    BY <1>2
  <2> HIDE DEF d
  <2>2. cum % SeqMod = (next - d) % SeqMod
    BY <1>1, <2>1
  <2>3. pkts_to_be_removed(next, n, (next - d) % SeqMod) = n - d
    BY <1>1, <2>1, RemovedExact
  <2> QED  BY <1>2, <2>1, <2>2, <2>3 DEF next
<1>3. CASE cum > base + n
  <2>1. ASSUME NEW d \in 0..n PROVE (next - d) % SeqMod # cum % SeqMod
    <3>1. (next - d) % SeqMod = (base + n - d) % SeqMod
      BY <1>1
    <3>2. /\ base + n - d \in Int /\ base + n - d # cum
          /\ (base + n - d) - cum < SeqMod /\ cum - (base + n - d) < SeqMod
      BY <1>3, SeqModAssumption
    <3> QED  BY <3>1, <3>2, ModInjective
  <2>2. {d \in 0..n : (next - d) % SeqMod = cum % SeqMod} = {}
    BY <2>1
  <2>3. pkts_to_be_removed(next, n, cum % SeqMod) = 0
    BY <2>2 DEF pkts_to_be_removed
  <2> QED  BY <1>3, <2>3 DEF next
<1> QED  BY <1>2, <1>3

\* h5_remove_acked_pkt forgets only packets the controller has.
LEMMA RemoveStep ==
  ASSUME TypeInv, WindowsConsistent, h5_remove_acked_pkt
  PROVE  WindowsConsistent'
<1> DEFINE n == Len(unack)
           cum == rx_skb.cum
           k == pkts_to_be_removed(msgq_txseq, n, rx_skb.ack)
<1>1. /\ unack' = SubSeq(unack, k + 1, n)
      /\ rx_skb' = IF rx_skb.kind = "data" THEN rx_skb ELSE NoPkt
      /\ UNCHANGED <<sent, rel, msgq_txseq, rxseq_txack, up, h2c, c2h, got, c_base, c_top>>
  BY DEF h5_remove_acked_pkt, ctrlvars
<1>2. rx_skb # NoPkt /\ rx_skb \in Packet
  BY DEF h5_remove_acked_pkt, WindowsConsistent, RxPlace, TypeInv, TypeOK, DataTypeOK
<1>3. /\ rx_skb.ack = cum % SeqMod /\ Base <= cum /\ cum <= Len(got)
      /\ \A j \in 1..Len(c2h) : cum <= c2h[j].cum
  BY <1>2 DEF WindowsConsistent, AckHeld
<1>4. /\ Len(rel) + n <= sent
      /\ \A i \in 1..n : unack[i] = Base + i
      /\ \A i \in 1..Len(rel) : rel[i] = Base + n + i
      /\ msgq_txseq = (Base + n) % SeqMod
      /\ Len(got) <= Base + Win
  BY DEF WindowsConsistent, DownCounts, QueuesHoldRest
<1>5. /\ rel \in Seq(Nat) /\ unack \in Seq(Nat) /\ n \in Nat /\ n < SeqMod /\ cum \in Nat
      /\ Base \in Nat /\ cum < Base + SeqMod
  <2>1. cum \in Nat
    BY <1>2, PacketFields
  <2>2. rel \in Seq(Nat) /\ unack \in Seq(Nat) /\ n <= Win
    BY DEF TypeInv, TypeOK, DataTypeOK
  <2>3. n \in Nat /\ n < SeqMod
    BY <2>2, SeqModAssumption, WinAssumption
  <2> HIDE DEF cum
  <2>5. Win < SeqMod /\ SeqMod \in Nat
    BY SeqModAssumption, WinAssumption
  <2>6. Base \in Nat /\ Len(got) \in Nat /\ Win \in Nat
    BY CountTypes
  <2>4. cum < Base + SeqMod
    BY <1>3, <1>4, <2>1, <2>5, <2>6
  <2> QED  BY <2>1, <2>2, <2>3, <2>4, CountTypes
<1>6. k = IF cum <= Base + n THEN cum - Base ELSE 0
  BY <1>3, <1>4, <1>5, RemovedByCount, SMTT(60)
<1> HIDE DEF k, n, cum
<1>7. k \in 0..n /\ Base + k <= cum
  BY <1>3, <1>5, <1>6
<1>8. /\ unack' \in Seq(Nat) /\ Len(unack') = n - k
      /\ \A i \in 1..Len(unack') : unack'[i] = unack[i + k] /\ i + k \in 1..n
  <2>0. n = Len(unack)
    BY DEF n
  <2>1. /\ SubSeq(unack, k + 1, n) \in Seq(Nat)
        /\ Len(SubSeq(unack, k + 1, n)) = n - k
    BY <1>5, <1>7, <2>0
  <2>2. \A i \in 1..(n - k) : SubSeq(unack, k + 1, n)[i] = unack[i + k] /\ i + k \in 1..n
    BY <1>5, <1>7, <2>0
  <2> QED  BY <1>1, <2>1, <2>2
<1>9. Base' = Base + k
  <2>1. Base = sent - Len(rel) - n /\ Base' = sent - Len(rel) - (n - k)
    BY <1>1, <1>8 DEF Base, n
  <2>2. sent \in Nat /\ Len(rel) \in Nat
    BY <1>5 DEF TypeInv, TypeOK, DataTypeOK
  <2> QED  BY <1>5, <1>7, <2>1, <2>2
<1>10. RxCount' = RxCount
  BY <1>1 DEF RxCount, NoPkt
<1>11. RxPlace'
  BY <1>1, <1>2, PacketFields
     DEF h5_remove_acked_pkt, WindowsConsistent, RxPlace, NoPkt, Goto, Threads, TypeInv, TypeOK, DataTypeOK
<1>12. DownCounts'
  <2>1. ASSUME NEW i \in 1..Len(unack') PROVE unack'[i] = Base' + i
    <3>1. unack'[i] = Base + (i + k)
      BY <1>4, <1>8
    <3> QED  BY <1>5, <1>7, <1>8, <1>9, <3>1
  <2>2. ASSUME NEW i \in 1..Len(rel') PROVE rel'[i] = Base' + Len(unack') + i
    <3>1. rel'[i] = Base + n + i
      BY <1>1, <1>4
    <3>2. Base' + Len(unack') = Base + n
      BY <1>5, <1>7, <1>8, <1>9
    <3> QED  BY <3>1, <3>2
  <2>3. msgq_txseq' = (Base' + Len(unack')) % SeqMod
    <3>1. Base' + Len(unack') = Base + n
      BY <1>5, <1>7, <1>8, <1>9
    <3> QED  BY <1>1, <1>4, <3>1
  <2>4. Len(rel') + Len(unack') <= sent'
    <3>1. sent \in Nat /\ Len(rel) \in Nat
      BY <1>5 DEF TypeInv, TypeOK, DataTypeOK
    <3>2. Len(rel) + (n - k) <= sent
      BY <1>4, <1>5, <1>7, <3>1
    <3> QED  BY <1>1, <1>8, <3>2
  <2>5. Base' <= Len(got) /\ Len(got) <= Base' + Win
    <3>1. Len(got) \in Nat /\ Win \in Nat
      BY CountTypes
    <3>2. Base + k <= Len(got) /\ Len(got) <= Base + k + Win
      BY <1>3, <1>4, <1>5, <1>7, <3>1
    <3> QED  BY <1>9, <3>2
  <2> QED  BY <1>1, <2>1, <2>2, <2>3, <2>4, <2>5 DEF WindowsConsistent, DownCounts, QueuesHoldRest
<1>13. UpCounts'
  BY <1>1, <1>10 DEF WindowsConsistent, UpCounts, NoPkt
<1>14. OnWire(h2c, Base + k, Win, sent, Len(got))
  <2>1. Base + k \in Nat /\ Base <= Base + k /\ sent <= sent
    BY <1>5, <1>7, CountTypes
  <2> QED  BY <2>1, CountTypes, OnWireMono DEF WindowsConsistent
<1>15. AcksOnWire(c2h, Base + k, Len(got))
  <2>1. c2h \in Seq(Packet)
    BY CountTypes
  <2>2. \A j \in 1..Len(c2h) : c2h[j] \in Packet
    BY <2>1
  <2>3. \A j \in 1..Len(c2h) : c2h[j].cum \in Nat
    BY <2>2, PacketFields
  <2>4. \A j \in 1..Len(c2h) : Base + k <= c2h[j].cum
    BY <1>3, <1>5, <1>7, <2>3
  <2>5. Base + k \in Nat
    BY <1>5, <1>7
  <2> QED  BY <2>4, <2>5, CountTypes, AcksRaise DEF WindowsConsistent
<1>16. AckHeld'
  <2>1. rx_skb' = rx_skb \/ rx_skb' = NoPkt
    BY <1>1
  <2>2. /\ rx_skb.ack = rx_skb.cum % SeqMod
        /\ Base' <= rx_skb.cum /\ rx_skb.cum <= Len(got')
        /\ \A j \in 1..Len(c2h') : rx_skb.cum <= c2h'[j].cum
    BY <1>1, <1>3, <1>7, <1>9 DEF cum
  <2> QED  BY <2>1, <2>2 DEF AckHeld
<1> QED  BY <1>1, <1>9, <1>10, <1>11, <1>12, <1>13, <1>14, <1>15, <1>16 DEF WindowsConsistent

\* The packet held is passed up, in its turn.
LEMMA DeliverStep ==
  ASSUME TypeInv, WindowsConsistent, hci_recv_frame
  PROVE  WindowsConsistent'
<1>1. /\ up' = Append(up, rx_skb.id) /\ rx_skb' = NoPkt
      /\ UNCHANGED <<sent, rel, unack, msgq_txseq, rxseq_txack, h2c, c2h, got, c_base, c_top>>
  BY DEF hci_recv_frame, hostvars, ctrlvars
<1>2. up \in Seq(Nat) /\ rx_skb.kind = "data" /\ rx_skb.id = Len(up) + 1
  BY DEF hci_recv_frame, WindowsConsistent, RxPlace, UpCounts, TypeInv, TypeOK, DataTypeOK
<1>3. Base' = Base
  BY <1>1 DEF Base
<1>4. Len(up') = Len(up) + 1 /\ \A i \in 1..Len(up') : up'[i] = IF i = Len(up) + 1 THEN Len(up) + 1 ELSE up[i]
  BY <1>1, <1>2
<1>5. RxCount' = RxCount
  BY <1>1, <1>2, <1>4 DEF RxCount, NoPkt
<1>6. RxPlace'
  BY <1>1 DEF hci_recv_frame, RxPlace, NoPkt, Goto, Threads, TypeInv, TypeOK, DataTypeOK
<1>7. DownCounts'
  BY <1>1, <1>3 DEF WindowsConsistent, DownCounts, QueuesHoldRest
<1>8. UpCounts'
  <2>1. \A i \in 1..Len(up') : up'[i] = i
    BY <1>2, <1>4 DEF WindowsConsistent, UpCounts
  <2> QED  BY <1>1, <1>5, <2>1 DEF WindowsConsistent, UpCounts, NoPkt
<1>9. AckHeld'
  BY <1>1 DEF AckHeld
<1> QED  BY <1>1, <1>3, <1>5, <1>6, <1>7, <1>8, <1>9 DEF WindowsConsistent

\* The retransmission thread takes everything in unack back to the head of rel.
LEMMA RequeueStep ==
  ASSUME TypeInv, WindowsConsistent, retrans_requeue
  PROVE  WindowsConsistent'
<1> DEFINE n == Len(unack)
<1>1. /\ rel' = unack \o rel /\ unack' = << >> /\ msgq_txseq' = (msgq_txseq - n) % SeqMod
      /\ UNCHANGED <<sent, rxseq_txack, up, rx_skb, h2c, c2h, got, c_base, c_top>>
  BY DEF retrans_requeue, requeue_unack, rxvars, ctrlvars
<1>2. rel \in Seq(Nat) /\ unack \in Seq(Nat) /\ sent \in Nat /\ n \in Nat
  BY DEF TypeInv, TypeOK, DataTypeOK
<1>3. /\ Len(rel) + n <= sent
      /\ \A i \in 1..n : unack[i] = Base + i
      /\ \A i \in 1..Len(rel) : rel[i] = Base + n + i
      /\ msgq_txseq = (Base + n) % SeqMod
  BY DEF WindowsConsistent, DownCounts, QueuesHoldRest
<1>4. /\ Len(rel') = n + Len(rel) /\ Len(unack') = 0
      /\ \A i \in 1..Len(rel') : rel'[i] = IF i <= n THEN unack[i] ELSE rel[i - n]
  BY <1>1, <1>2
<1>5. Base' = Base /\ RxCount' = RxCount
  BY <1>1, <1>2, <1>4 DEF Base, RxCount
<1>6. RxPlace'
  BY <1>1 DEF retrans_requeue, WindowsConsistent, RxPlace, Goto, Threads, TypeInv, TypeOK, DataTypeOK
<1>7. DownCounts'
  <2>1. ASSUME NEW i \in 1..Len(rel') PROVE rel'[i] = Base + i
    <3>1. CASE i <= n
      BY <1>2, <1>3, <1>4, <3>1, SMTT(60)
    <3>2. CASE i > n
      <4>1. i - n \in 1..Len(rel) /\ rel'[i] = rel[i - n]
        BY <1>2, <1>4, <3>2
      <4>2. rel'[i] = Base + n + (i - n)
        BY <1>3, <4>1
      <4> QED  BY <1>2, <4>1, <4>2, CountTypes, SMTT(60)
    <3> QED  BY <1>2, <3>1, <3>2
  <2>2. \A i \in 1..Len(rel') : rel'[i] = Base + Len(unack') + i
    <3>1. Base + Len(unack') = Base
      BY <1>4, CountTypes
    <3> QED  BY <2>1, <3>1
  <2>3. msgq_txseq' = (Base + Len(unack')) % SeqMod
    <3>1. Base + n \in Int /\ (Base + n) - n = Base + Len(unack')
      BY <1>2, <1>4, CountTypes
    <3> QED  BY <1>1, <1>2, <1>3, <3>1, ModStep
  <2>4. \A i \in 1..Len(unack') : unack'[i] = Base + i
    BY <1>4
  <2>5. Len(rel') + Len(unack') <= sent'
    BY <1>1, <1>2, <1>3, <1>4
  <2> QED  BY <1>1, <1>5, <2>2, <2>3, <2>4, <2>5 DEF WindowsConsistent, DownCounts, QueuesHoldRest
<1>8. UpCounts'
  BY <1>1, <1>5 DEF WindowsConsistent, UpCounts
<1>9. AckHeld'
  BY <1>1, <1>5 DEF WindowsConsistent, AckHeld
<1> QED  BY <1>1, <1>5, <1>6, <1>7, <1>8, <1>9 DEF WindowsConsistent

\* The controller loses a packet of the host.
LEMMA CtrlDropStep ==
  ASSUME TypeInv, WindowsConsistent, ctrl_checksum_error
  PROVE  WindowsConsistent'
<1>1. /\ h2c # << >> /\ h2c' = Tail(h2c)
      /\ UNCHANGED <<sent, rel, unack, msgq_txseq, rxseq_txack, up, rx_skb, pc, c2h, got, c_base, c_top>>
  BY DEF ctrl_checksum_error, hostvars, rxvars, ctrlvars
<1>2. Base' = Base /\ RxCount' = RxCount
  BY <1>1 DEF Base, RxCount
<1>3. RxPlace'
  BY <1>1 DEF WindowsConsistent, RxPlace
<1>4. DownCounts'
  BY <1>1, <1>2 DEF WindowsConsistent, DownCounts, QueuesHoldRest
<1>5. UpCounts'
  BY <1>1, <1>2 DEF WindowsConsistent, UpCounts
<1>6. OnWire(Tail(h2c), Base, Win, sent, Len(got))
  BY <1>1, CountTypes, OnWireTail DEF WindowsConsistent
<1>7. AcksOnWire(Tail(h2c), c_base, RxCount)
  BY <1>1, CountTypes, AcksTail DEF WindowsConsistent
<1>8. AckHeld'
  BY <1>1, <1>2 DEF WindowsConsistent, AckHeld
<1> QED  BY <1>1, <1>2, <1>3, <1>4, <1>5, <1>6, <1>7, <1>8 DEF WindowsConsistent

\* The controller takes the expected packet, or none, and always the
\* acknowledgement.
LEMMA CtrlRecvStep ==
  ASSUME TypeInv, WindowsConsistent, ctrl_recv
  PROVE  /\ WindowsConsistent'
         /\ \/ got' = got
            \/ Len(got) < sent /\ got' = Append(got, Len(got) + 1)
<1> DEFINE p == Head(h2c)
           m == c_top - c_base
<1>1. /\ h2c # << >> /\ h2c' = Tail(h2c)
      /\ got' = IF p.kind = "data" /\ p.seq = Len(got) % SeqMod THEN Append(got, p.id) ELSE got
      /\ c_base' = c_base + pkts_to_be_removed(c_top % SeqMod, m, p.ack)
      /\ UNCHANGED <<sent, rel, unack, msgq_txseq, rxseq_txack, up, rx_skb, pc, c2h, c_top>>
  BY DEF ctrl_recv, hostvars, rxvars
<1>2. Base' = Base /\ RxCount' = RxCount
  BY <1>1 DEF Base, RxCount
<1>3. /\ AcksOnWire(Tail(h2c), p.cum, RxCount)
      /\ p.ack = p.cum % SeqMod /\ c_base <= p.cum /\ p.cum <= RxCount
  BY <1>1, CountTypes, AcksTail DEF WindowsConsistent
<1>4. p \in Packet
  BY <1>1, CountTypes
<1>5. p.cum \in Nat /\ p.id \in Nat
  BY <1>4, PacketFields
<1> HIDE DEF p
<1>6. RxCount <= c_base + CtrlWin /\ RxCount <= c_top
  BY DEF WindowsConsistent, UpCounts
<1>7. c_base' = p.cum
  <2>1. m \in Nat /\ m < SeqMod /\ c_base + m = c_top
    BY CountTypes, SeqModAssumption, WinAssumption DEF TypeInv
  <2> HIDE DEF m
  <2>2. p.cum <= c_base + m /\ p.cum < c_base + SeqMod
    BY <1>3, <1>5, <1>6, <2>1, CountTypes, SeqModAssumption, WinAssumption, SMTT(60)
  <2>3. pkts_to_be_removed((c_base + m) % SeqMod, m, p.cum % SeqMod) = p.cum - c_base
    BY <1>3, <1>5, <2>1, <2>2, CountTypes, RemovedByCount
  <2> QED  BY <1>1, <1>3, <1>5, <2>1, <2>3, CountTypes
<1>8. RxPlace'
  BY <1>1 DEF WindowsConsistent, RxPlace
<1>9. UpCounts'
  <2>1. RxCount <= p.cum + CtrlWin
    BY <1>3, <1>5, <1>6, CountTypes
  <2> QED  BY <1>1, <1>2, <1>3, <1>7, <2>1 DEF WindowsConsistent, UpCounts
<1>10. AcksOnWire(h2c', c_base', RxCount')
  BY <1>1, <1>2, <1>3, <1>7
<1>11. OnWire(c2h', c_base', CtrlWin, c_top', RxCount')
  <2>1. p.cum \in Nat /\ c_base <= p.cum /\ c_top <= c_top
    BY <1>3, <1>5, CountTypes
  <2>2. OnWire(c2h, p.cum, CtrlWin, c_top, RxCount)
    BY <2>1, CountTypes, OnWireMono DEF WindowsConsistent
  <2> QED  BY <1>1, <1>2, <1>7, <2>2
<1>12. CASE ~(p.kind = "data" /\ p.seq = Len(got) % SeqMod)
  <2>1. got' = got
    BY <1>1, <1>12
  <2>2. OnWire(Tail(h2c), Base, Win, sent, Len(got))
    BY <1>1, CountTypes, OnWireTail DEF WindowsConsistent
  <2>3. DownCounts'
    BY <1>1, <1>2, <2>1 DEF WindowsConsistent, DownCounts, QueuesHoldRest
  <2>4. AckHeld'
    BY <1>1, <1>2, <2>1 DEF WindowsConsistent, AckHeld
  <2> QED  BY <1>1, <1>2, <1>8, <1>9, <1>10, <1>11, <2>1, <2>2, <2>3, <2>4 DEF WindowsConsistent
<1>13. CASE p.kind = "data" /\ p.seq = Len(got) % SeqMod
  <2>1. /\ Base <= Len(got) /\ OnWire(h2c, Base, Win, sent, Len(got))
        /\ AcksOnWire(c2h, Base, Len(got))
        /\ \A i \in 1..Len(got) : got[i] = i
    BY DEF WindowsConsistent, DownCounts
  <2>2. p.id = Len(got) + 1 /\ p.id <= Base + Win /\ p.id <= sent
    BY <1>1, <1>13, <2>1, CountTypes, ExpectedIsNext, WinAssumption DEF p
  <2>3. got' = Append(got, Len(got) + 1)
    BY <1>1, <1>13, <2>2
  <2>4. got \in Seq(Nat)
    BY DEF TypeInv, TypeOK, DataTypeOK
  <2>5. /\ Len(got') = Len(got) + 1
        /\ \A i \in 1..Len(got') : got'[i] = IF i = Len(got) + 1 THEN Len(got) + 1 ELSE got[i]
    BY <2>3, <2>4
  <2>6. \A i \in 1..Len(got') : got'[i] = i
    BY <2>1, <2>4, <2>5
  <2>7. OnWire(Tail(h2c), Base, Win, sent, Len(got) + 1)
    BY <1>1, <1>13, <2>1, <2>2, CountTypes, OnWireAccept DEF p
  <2>8. AcksOnWire(c2h, Base, Len(got) + 1)
    <3>1. Len(got) + 1 \in Nat /\ Len(got) <= Len(got) + 1
      BY CountTypes
    <3> QED  BY <2>1, <3>1, CountTypes, AcksMono
  <2>9. Base <= Len(got) + 1 /\ Len(got) + 1 <= Base + Win /\ Len(got) + 1 <= sent /\ Len(got) < sent
    BY <2>1, <2>2, CountTypes
  <2>10. DownCounts'
    BY <1>1, <1>2, <2>5, <2>6, <2>9 DEF WindowsConsistent, DownCounts, QueuesHoldRest
  <2>11. AckHeld'
    <3>1. rx_skb # NoPkt => rx_skb.cum \in Nat
      BY PacketFields DEF TypeInv, TypeOK, DataTypeOK
    <3>2. rx_skb # NoPkt => rx_skb.cum <= Len(got) + 1
      BY <3>1, CountTypes DEF WindowsConsistent, AckHeld
    <3> QED  BY <1>1, <1>2, <2>5, <3>2 DEF WindowsConsistent, AckHeld
  <2> QED  BY <1>1, <1>2, <1>8, <1>9, <1>10, <1>11, <2>3, <2>5, <2>7, <2>8, <2>9, <2>10, <2>11
             DEF WindowsConsistent
<1> QED  BY <1>12, <1>13

\* The controller sends: an acknowledgement, or a packet of its window.
LEMMA CtrlSendStep ==
  ASSUME TypeInv, WindowsConsistent, NEW kind \in {"data", "unrel"}, NEW id \in Nat,
         ctrl_send(kind, id), c_top' \in Nat, c_top <= c_top',
         kind = "data" => c_base + 1 <= id /\ id <= c_base + CtrlWin /\ id <= c_top'
  PROVE  WindowsConsistent'
<1> DEFINE p == [kind |-> kind, seq |-> IF kind = "data" THEN (id - 1) % SeqMod ELSE 0,
                 ack |-> Len(got) % SeqMod, id |-> id, cum |-> Len(got)]
<1>1. /\ c2h' = Append(c2h, p)
      /\ UNCHANGED <<sent, rel, unack, msgq_txseq, rxseq_txack, up, rx_skb, pc, h2c, got, c_base>>
  BY DEF ctrl_send, hostvars, rxvars
<1>2. Base' = Base /\ RxCount' = RxCount
  BY <1>1 DEF Base, RxCount
<1>3. p \in Packet
  <2>1. (id - 1) % SeqMod \in Seqno /\ Len(got) % SeqMod \in Seqno /\ 0 \in Seqno
    BY ModStep, CountTypes, SeqModAssumption, SMTT(60) DEF Seqno
  <2> QED  BY <2>1, CountTypes DEF Packet
<1>4. RxPlace'
  BY <1>1 DEF WindowsConsistent, RxPlace
<1>5. DownCounts'
  BY <1>1, <1>2 DEF WindowsConsistent, DownCounts, QueuesHoldRest
<1>6. UpCounts'
  <2>1. RxCount <= c_top'
    BY CountTypes DEF WindowsConsistent, UpCounts
  <2> QED  BY <1>1, <1>2, <2>1 DEF WindowsConsistent, UpCounts
<1>7. p.kind = kind /\ p.id = id /\ p.cum = Len(got) /\ p.ack = Len(got) % SeqMod
      /\ (kind = "data" => p.seq = (id - 1) % SeqMod)
  OBVIOUS
<1> HIDE DEF p
<1>8. OnWire(Append(c2h, p), c_base, CtrlWin, c_top', RxCount)
  <2>1. OnWire(c2h, c_base, CtrlWin, c_top', RxCount)
    <3>1. c_base <= c_base
      BY CountTypes
    <3> QED  BY <3>1, CountTypes, OnWireMono DEF WindowsConsistent
  <2>2. kind = "data" => RxCount < id + CtrlWin
    BY CountTypes DEF WindowsConsistent, UpCounts
  <2> QED  BY <1>3, <1>7, <2>1, <2>2, CountTypes, OnWireAppend
<1>9. AcksOnWire(Append(c2h, p), Base, Len(got))
  <2>1. AcksOnWire(c2h, Base, Len(got)) /\ Base <= Len(got)
    BY DEF WindowsConsistent, DownCounts
  <2> QED  BY <1>3, <1>7, <2>1, CountTypes, AcksAppend
<1>10. AckHeld'
  <2>1. Len(c2h') = Len(c2h) + 1 /\ \A j \in 1..Len(c2h') : c2h'[j] = IF j = Len(c2h) + 1 THEN p ELSE c2h[j]
    BY <1>1, <1>3, CountTypes
  <2>2. ASSUME rx_skb # NoPkt, NEW j \in 1..Len(c2h') PROVE rx_skb.cum <= c2h'[j].cum
    <3>1. CASE j = Len(c2h) + 1
      BY <1>7, <2>1, <2>2, <3>1 DEF WindowsConsistent, AckHeld
    <3>2. CASE j # Len(c2h) + 1
      <4>1. j \in 1..Len(c2h)
        BY <2>1, <3>2, CountTypes, SMTT(60)
      <4> QED  BY <2>1, <2>2, <3>2, <4>1, SMTT(60) DEF WindowsConsistent, AckHeld
    <3> QED  BY <3>1, <3>2
  <2> QED  BY <1>1, <1>2, <2>2 DEF WindowsConsistent, AckHeld
<1> QED  BY <1>1, <1>2, <1>4, <1>5, <1>6, <1>8, <1>9, <1>10 DEF WindowsConsistent

\* The controller sends an empty acknowledgement.
LEMMA CtrlSendAckStep ==
  ASSUME TypeInv, WindowsConsistent, ctrl_send_ack
  PROVE  WindowsConsistent'
<1>1. ctrl_send("unrel", 0) /\ c_top' = c_top
  BY DEF ctrl_send_ack
<1>2. c_top' \in Nat /\ c_top <= c_top'
  BY <1>1, CountTypes
<1> QED  BY <1>1, <1>2, CtrlSendStep

\* The controller sends a packet of its window.
LEMMA CtrlSendDataStep ==
  ASSUME TypeInv, WindowsConsistent, ctrl_send_data
  PROVE  /\ WindowsConsistent'
         /\ c_top' = c_top \/ c_top' = c_top + 1
<1>1. PICK id \in (c_base + 1)..(c_base + CtrlWin) :
        /\ id <= c_top + 1
        /\ ctrl_send("data", id)
        /\ c_top' = IF id > c_top THEN id ELSE c_top
  BY DEF ctrl_send_data
<1>2. /\ id \in Nat /\ c_base + 1 <= id /\ id <= c_base + CtrlWin
      /\ c_top' \in Nat /\ c_top <= c_top' /\ id <= c_top'
      /\ c_top' = c_top \/ c_top' = c_top + 1
  BY <1>1, CountTypes, SMTT(60)
<1> QED  BY <1>1, <1>2, CtrlSendStep

-----------------------------------------------------------------------------
(* The theorems.                                                           *)

\* Init satisfies WindowsConsistent.
LEMMA WindowsInit == Init => WindowsConsistent
<1> SUFFICES ASSUME Init PROVE WindowsConsistent
  OBVIOUS
<1>0. /\ Len(got) = 0 /\ Len(h2c) = 0 /\ Len(c2h) = 0
      /\ Len(rel) = 0 /\ Len(unack) = 0 /\ Len(up) = 0 /\ sent = 0
  BY DEF Init
<1>r. rx_skb.kind # "data"
  BY DEF Init, NoPkt
<1>1. Base = 0 /\ RxCount = 0 /\ Len(got) = 0 /\ Len(h2c) = 0 /\ Len(c2h) = 0
  BY <1>0, <1>r DEF Base, RxCount
<1>2. 0 % SeqMod = 0 /\ Win \in Nat /\ CtrlWin \in Nat
  BY SeqModAssumption, WinAssumption
<1>3. RxPlace
  BY DEF Init, RxPlace, Threads
<1>4. DownCounts
  BY <1>1, <1>2 DEF Init, DownCounts, QueuesHoldRest
<1>5. UpCounts
  BY <1>1, <1>2 DEF Init, UpCounts, NoPkt
<1>6. AckHeld
  BY DEF Init, AckHeld
<1>7. /\ OnWire(h2c, Base, Win, sent, Len(got)) /\ OnWire(c2h, c_base, CtrlWin, c_top, RxCount)
      /\ AcksOnWire(c2h, Base, Len(got)) /\ AcksOnWire(h2c, c_base, RxCount)
  BY <1>1 DEF OnWire, AcksOnWire
<1> QED  BY <1>3, <1>4, <1>5, <1>6, <1>7 DEF WindowsConsistent

\* Every step keeps WindowsConsistent.
LEMMA WindowsStep == TypeInv /\ WindowsConsistent /\ [Next]_vars => WindowsConsistent'
<1> SUFFICES ASSUME TypeInv, WindowsConsistent, [Next]_vars PROVE WindowsConsistent'
  OBVIOUS
<1>1. CASE UNCHANGED vars
  <2>1. UNCHANGED Links /\ pc' = pc
    BY <1>1 DEF vars, Links, hostvars, rxvars, ctrlvars
  <2>2. RxPlace'
    BY <2>1 DEF Links, WindowsConsistent, RxPlace
  <2> QED  BY <2>1, <2>2, QuietStep
<1>2. CASE Stack
  <2>1. CASE h5_enqueue_rel
    BY <2>1, EnqueueStep
  <2>2. CASE h5_enqueue_unrel \/ h5_enqueue_freed
    BY <2>2, QuietActions
  <2> QED  BY <1>2, <2>1, <2>2 DEF Stack
<1>3. CASE Rx
  BY <1>3, DropStep, TakeUnreliableStep, TakeReliableStep, RemoveStep, DeliverStep DEF Rx, RxTake
<1>4. CASE Retrans
  BY <1>4, RequeueStep, QuietActions DEF Retrans
<1>5. CASE Controller
  BY <1>5, CtrlDropStep, CtrlRecvStep, CtrlSendAckStep, CtrlSendDataStep DEF Controller
<1>6. CASE timer_expires \/ h5_retransfer_timeout_handler
  BY <1>6, QuietActions
<1>7. ASSUME NEW t \in Threads, h5_wake_up(t) PROVE WindowsConsistent'
  <2>1. CASE h5_wake_up_lock(t) \/ h5_wake_up_done(t)
    BY <2>1, QuietActions
  <2>2. CASE dequeue(t)
    BY <2>2, SendUnreliableStep, SendReliableStep DEF dequeue
  <2> QED  BY <1>7, <2>1, <2>2 DEF h5_wake_up
<1>8. CASE h5_wait_controller_baudrate_ready_timeout_handler
  <2>1. UNCHANGED Links /\ pc' = pc
    BY <1>8 DEF h5_wait_controller_baudrate_ready_timeout_handler, Links, hostvars,
                ctrlvars
  <2>2. RxPlace'
    BY <2>1 DEF Links, WindowsConsistent, RxPlace
  <2> QED  BY <2>1, <2>2, QuietStep
<1> QED  BY <1>1, <1>2, <1>3, <1>4, <1>5, <1>6, <1>7, <1>8 DEF Next

\* The sliding windows of both directions are consistent with the wires and with
\* the other side, in every reachable state.
THEOREM WindowsCorrect == Spec => []WindowsConsistent
<1> QED  BY TypeInit, TypeStep, WindowsInit, WindowsStep, PTL DEF Spec

\* h5_remove_acked_pkt frees a packet only if the controller has accepted it.
THEOREM AckSafety == Spec => []AckSafe
<1>1. WindowsConsistent => AckSafe
  BY DEF WindowsConsistent, DownCounts, AckSafe
<1> QED  BY WindowsCorrect, <1>1, PTL

\* The queues hold exactly the packets not yet acknowledged, in order.
THEOREM QueuesCorrect == Spec => []QueuesHoldRest
<1>1. WindowsConsistent => QueuesHoldRest
  BY DEF WindowsConsistent, DownCounts
<1> QED  BY WindowsCorrect, <1>1, PTL

\* The controller accepts what the stack hands over in order, each packet once:
\* the transport implements ReliableLink from the host to the controller.
THEOREM DownRefinement == Spec => DownRefines
<1>1. Init => Down!Init
  BY DEF Init, Down!Init
<1>2. TypeInv /\ WindowsConsistent /\ [Next]_vars => [Down!Next]_<<sent, got>>
  <2> SUFFICES ASSUME TypeInv, WindowsConsistent, [Next]_vars
               PROVE  [Down!Next]_<<sent, got>>
    OBVIOUS
  <2> USE DEF Down!Next, Down!Accept, Down!Deliver
  <2>1. CASE h5_enqueue_rel
    BY <2>1 DEF h5_enqueue_rel, ctrlvars
  <2>2. CASE ctrl_recv
    BY <2>2, CtrlRecvStep DEF ctrl_recv, hostvars
  <2>3. CASE h5_enqueue_unrel \/ h5_enqueue_freed
    BY <2>3 DEF h5_enqueue_unrel, h5_enqueue_freed, hostvars, ctrlvars
  <2>4. CASE Rx
    BY <2>4 DEF Rx, RxTake, recv_out_of_order, complete_reliable, complete_unreliable,
                recv_checksum_error, h5_remove_acked_pkt, hci_recv_frame, hostvars, ctrlvars
  <2>5. CASE Retrans
    BY <2>5 DEF Retrans, retrans_take_event, retrans_go_on, retrans_give_up, retrans_requeue,
                retrans_load, retrans_store, hostvars, ctrlvars
  <2>6. CASE ctrl_checksum_error \/ ctrl_send_ack \/ ctrl_send_data
    BY <2>6 DEF ctrl_checksum_error, ctrl_send_ack, ctrl_send_data, ctrl_send, hostvars, ctrlvars
  <2>7. CASE \/ timer_expires \/ h5_retransfer_timeout_handler
             \/ h5_wait_controller_baudrate_ready_timeout_handler
    BY <2>7 DEF timer_expires, h5_retransfer_timeout_handler,
                h5_wait_controller_baudrate_ready_timeout_handler, hostvars, ctrlvars
  <2>8. ASSUME NEW t \in Threads, h5_wake_up(t) PROVE UNCHANGED <<sent, got>>
    BY <2>8 DEF h5_wake_up, dequeue, h5_wake_up_lock, h5_wake_up_done, dequeue_unrel,
                dequeue_rel, dequeue_ack, hostvars, ctrlvars
  <2>9. CASE UNCHANGED vars
    BY <2>9 DEF vars, hostvars, ctrlvars
  <2> QED  BY <2>1, <2>2, <2>3, <2>4, <2>5, <2>6, <2>7, <2>8, <2>9 DEF Next, Stack, Controller
<1> QED  BY <1>1, <1>2, TypeInit, TypeStep, WindowsInit, WindowsStep, PTL
           DEF Spec, DownRefines, Down!Spec

\* h5_complete_rx_pkt takes what the controller sends in order, each packet once:
\* the transport implements ReliableLink from the controller to the host.
THEOREM UpRefinement == Spec => UpRefines
<1>1. Init => Up!Init
  BY DEF Init, Up!Init
<1>2. TypeInv /\ WindowsConsistent /\ [Next]_vars => [Up!Next]_<<c_top, up>>
  <2> SUFFICES ASSUME TypeInv, WindowsConsistent, [Next]_vars
               PROVE  [Up!Next]_<<c_top, up>>
    OBVIOUS
  <2> USE DEF Up!Next, Up!Accept, Up!Deliver
  <2>1. CASE ctrl_send_data
    <3>1. up' = up
      BY <2>1 DEF ctrl_send_data, ctrl_send, rxvars
    <3> QED  BY <2>1, <3>1, CtrlSendDataStep
  <2>2. CASE hci_recv_frame
    <3>1. up' = Append(up, rx_skb.id) /\ c_top' = c_top
      BY <2>2 DEF hci_recv_frame, ctrlvars
    <3>2. rx_skb.kind = "data" /\ rx_skb.id = Len(up) + 1
      BY <2>2 DEF hci_recv_frame, WindowsConsistent, RxPlace, UpCounts
    <3>3. Len(up) < c_top
      <4>1. Len(up) + 1 <= c_top
        BY <3>2 DEF WindowsConsistent, UpCounts, RxCount
      <4> QED  BY <4>1 DEF TypeInv, TypeOK, DataTypeOK
    <3> QED  BY <3>1, <3>2, <3>3
  <2>3. CASE Stack
    BY <2>3 DEF Stack, h5_enqueue_rel, h5_enqueue_unrel, h5_enqueue_freed, rxvars, ctrlvars
  <2>4. CASE RxTake \/ recv_checksum_error \/ h5_remove_acked_pkt
    BY <2>4 DEF RxTake, recv_out_of_order, complete_reliable, complete_unreliable,
                recv_checksum_error, h5_remove_acked_pkt, rxvars, ctrlvars
  <2>5. CASE Retrans
    BY <2>5 DEF Retrans, retrans_take_event, retrans_go_on, retrans_give_up, retrans_requeue,
                retrans_load, retrans_store, rxvars, ctrlvars
  <2>6. CASE ctrl_recv \/ ctrl_checksum_error \/ ctrl_send_ack
    BY <2>6 DEF ctrl_recv, ctrl_checksum_error, ctrl_send_ack, ctrl_send, rxvars, ctrlvars
  <2>7. CASE \/ timer_expires \/ h5_retransfer_timeout_handler
             \/ h5_wait_controller_baudrate_ready_timeout_handler
    BY <2>7 DEF timer_expires, h5_retransfer_timeout_handler,
                h5_wait_controller_baudrate_ready_timeout_handler, rxvars, ctrlvars
  <2>8. ASSUME NEW t \in Threads, h5_wake_up(t) PROVE UNCHANGED <<c_top, up>>
    BY <2>8 DEF h5_wake_up, dequeue, h5_wake_up_lock, h5_wake_up_done, dequeue_unrel,
                dequeue_rel, dequeue_ack, rxvars, ctrlvars
  <2>9. CASE UNCHANGED vars
    BY <2>9 DEF vars, rxvars, ctrlvars
  <2> QED  BY <2>1, <2>2, <2>3, <2>4, <2>5, <2>6, <2>7, <2>8, <2>9 DEF Next, Rx, Controller
<1> QED  BY <1>1, <1>2, TypeInit, TypeStep, WindowsInit, WindowsStep, PTL
           DEF Spec, UpRefines, Up!Spec

\* Only the answer to the change of the UART speed is ever held back.
PassInv == PassedUp /\ internal_skb \in {0, BaudAnswer}

\* The next packet taken keeps PassInv: it is in neither place before.
LEMMA PassUpStep ==
  ASSUME TypeInv, WindowsConsistent, PassInv, hci_recv_frame
  PROVE  PassInv'
<1> DEFINE id == rx_skb.id
           r == recv_data
           Q == {r[i] : i \in 1..Len(r)}
<1>1. up \in Seq(Nat) /\ r \in Seq(Nat) /\ internal_skb \in Nat
  BY DEF TypeInv, TypeOK, DataTypeOK
<1>2. up' = Append(up, id) /\ pass_up(id)
  BY DEF hci_recv_frame
<1>3. id = Len(up) + 1
  BY DEF hci_recv_frame, WindowsConsistent, RxPlace, UpCounts
<1>4. Len(up') = Len(up) + 1
  BY <1>1, <1>2
<1>5. /\ Q \cup ({internal_skb} \ {0}) = 1..Len(up) \ NotPassed
      /\ \A i \in 1..Len(r) : r[i] # internal_skb
      /\ \A i, j \in 1..Len(r) : i < j =>
           r[i] # r[j] /\ (r[j] # BaudAnswer => r[i] < r[j])
      /\ internal_skb \in {0, BaudAnswer}
  BY DEF PassInv, PassedUp
<1>6. \A i \in 1..Len(r) : r[i] \in 1..Len(up)
  BY <1>5
<1>7. internal_skb # id
  <2>1. internal_skb = 0 \/ internal_skb \in 1..Len(up)
    BY <1>5
  <2>2. Len(up) \in Nat
    BY <1>1
  <2> QED  BY <1>3, <2>1, <2>2
<1>8. 1..Len(up') = 1..Len(up) \cup {id} /\ id \in Nat /\ id # 0 /\ id \notin 1..Len(up)
  BY <1>1, <1>3, <1>4
<1>9. CASE id \in NotPassed
  <2>1. recv_data' = r /\ internal_skb' = internal_skb
    BY <1>2, <1>9, PassUpAssumption DEF pass_up
  <2>2. 1..Len(up') \ NotPassed = 1..Len(up) \ NotPassed
    BY <1>8, <1>9
  <2> QED  BY <1>5, <2>1, <2>2 DEF PassInv, PassedUp
<1>10. CASE id = BaudAnswer
  <2>1. recv_data' = r /\ internal_skb' = id
    BY <1>2, <1>10 DEF pass_up
  <2>2. internal_skb = 0
    BY <1>5, <1>7, <1>10
  <2>3. 1..Len(up') \ NotPassed = (1..Len(up) \ NotPassed) \cup {id}
    BY <1>8, <1>10, PassUpAssumption
  <2>4. Q \cup ({id} \ {0}) = 1..Len(up') \ NotPassed
    BY <1>5, <1>8, <2>2, <2>3
  <2>5. \A i \in 1..Len(r) : r[i] # id
    BY <1>6, <1>8
  <2> QED  BY <1>5, <1>10, <2>1, <2>4, <2>5 DEF PassInv, PassedUp
<1>11. CASE id \notin NotPassed /\ id # BaudAnswer
  <2> DEFINE s == Append(r, id)
  <2>1. recv_data' = s /\ internal_skb' = internal_skb
    BY <1>2, <1>11 DEF pass_up
  <2>2. /\ Len(s) = Len(r) + 1
        /\ \A i \in 1..Len(r) : s[i] = r[i]
        /\ s[Len(r) + 1] = id
    BY <1>1, <1>8
  <2>3. 1..Len(s) = 1..Len(r) \cup {Len(r) + 1} /\ Len(r) \in Nat
    BY <1>1, <2>2
  <2> HIDE DEF s
  <2>4. {s[i] : i \in 1..Len(s)} = Q \cup {id}
    BY <2>2, <2>3
  <2>5. 1..Len(up') \ NotPassed = (1..Len(up) \ NotPassed) \cup {id}
    BY <1>8, <1>11
  <2>6. {s[i] : i \in 1..Len(s)} \cup ({internal_skb} \ {0}) = 1..Len(up') \ NotPassed
    BY <1>5, <2>4, <2>5
  <2>7. \A i \in 1..Len(s) : s[i] # internal_skb
    BY <1>5, <1>7, <2>2, <2>3
  <2>8. ASSUME NEW i \in 1..Len(s), NEW j \in 1..Len(s), i < j
        PROVE  s[i] # s[j] /\ (s[j] # BaudAnswer => s[i] < s[j])
    <3>1. i \in 1..Len(r)
      BY <2>3, <2>8
    <3>2. CASE j \in 1..Len(r)
      BY <1>5, <2>2, <2>8, <3>1, <3>2
    <3>3. CASE j = Len(r) + 1
      <4>1. s[i] \in 1..Len(up) /\ s[j] = id
        BY <1>6, <2>2, <3>1, <3>3
      <4> QED  BY <1>1, <1>3, <4>1
    <3> QED  BY <2>3, <3>2, <3>3
  <2> QED  BY <1>5, <2>1, <2>6, <2>7, <2>8 DEF PassInv, PassedUp
<1> QED  BY <1>9, <1>10, <1>11

\* The timer of the packet held back keeps it.
LEMMA HeldBackStep ==
  ASSUME TypeInv, PassInv, h5_wait_controller_baudrate_ready_timeout_handler
  PROVE  PassInv'
<1> DEFINE r == recv_data
           s == Append(r, internal_skb)
           Q == {r[i] : i \in 1..Len(r)}
<1>1. r \in Seq(Nat) /\ internal_skb \in Nat
  BY DEF TypeInv, TypeOK, DataTypeOK
<1>2. recv_data' = s /\ internal_skb' = 0 /\ up' = up /\ internal_skb # 0
  BY DEF h5_wait_controller_baudrate_ready_timeout_handler
<1>3. /\ Q \cup ({internal_skb} \ {0}) = 1..Len(up) \ NotPassed
      /\ \A i \in 1..Len(r) : r[i] # internal_skb
      /\ \A i, j \in 1..Len(r) : i < j =>
           r[i] # r[j] /\ (r[j] # BaudAnswer => r[i] < r[j])
      /\ internal_skb = BaudAnswer
  BY <1>2 DEF PassInv, PassedUp
<1>4. /\ Len(s) = Len(r) + 1
      /\ \A i \in 1..Len(r) : s[i] = r[i]
      /\ s[Len(r) + 1] = internal_skb
  BY <1>1
<1>5. 1..Len(s) = 1..Len(r) \cup {Len(r) + 1} /\ Len(r) \in Nat
  BY <1>1, <1>4
<1> HIDE DEF s
<1>6. {s[i] : i \in 1..Len(s)} = Q \cup {internal_skb}
  BY <1>4, <1>5
<1>7. {s[i] : i \in 1..Len(s)} \cup ({0} \ {0}) = 1..Len(up) \ NotPassed
  BY <1>2, <1>3, <1>6
<1>8. \A i \in 1..Len(s) : s[i] # 0
  BY <1>7
<1>9. ASSUME NEW i \in 1..Len(s), NEW j \in 1..Len(s), i < j
      PROVE  s[i] # s[j] /\ (s[j] # BaudAnswer => s[i] < s[j])
  <2>1. i \in 1..Len(r)
    BY <1>5, <1>9
  <2>2. CASE j \in 1..Len(r)
    BY <1>3, <1>4, <1>9, <2>1, <2>2
  <2>3. CASE j = Len(r) + 1
    BY <1>3, <1>4, <2>1, <2>3
  <2> QED  BY <1>5, <2>2, <2>3
<1> QED  BY <1>2, <1>7, <1>8, <1>9 DEF PassInv, PassedUp

\* Of the packets taken, every one of a type to be passed up is queued for the
\* stack once or held back, and only the one held back is overtaken.
THEOREM PassUpCorrect == Spec => []PassedUp
<1>1. Init => PassInv
  <2> SUFFICES ASSUME Init PROVE PassInv
    OBVIOUS
  <2>1. Len(recv_data) = 0 /\ Len(up) = 0 /\ internal_skb = 0
    BY DEF Init
  <2> QED  BY <2>1 DEF PassInv, PassedUp
<1>2. TypeInv /\ WindowsConsistent /\ PassInv /\ [Next]_vars => PassInv'
  <2> SUFFICES ASSUME TypeInv, WindowsConsistent, PassInv, [Next]_vars PROVE PassInv'
    OBVIOUS
  <2>0. ASSUME UNCHANGED <<up, passvars>> PROVE PassInv'
    BY <2>0 DEF PassInv, PassedUp, passvars
  <2>1. CASE hci_recv_frame
    BY <2>1, PassUpStep
  <2>2. CASE h5_wait_controller_baudrate_ready_timeout_handler
    BY <2>2, HeldBackStep
  <2>3. CASE Stack
    BY <2>0, <2>3 DEF Stack, h5_enqueue_rel, h5_enqueue_unrel, h5_enqueue_freed, rxvars
  <2>4. CASE RxTake \/ recv_checksum_error \/ h5_remove_acked_pkt
    BY <2>0, <2>4 DEF RxTake, recv_out_of_order, complete_reliable, complete_unreliable,
                      recv_checksum_error, h5_remove_acked_pkt, rxvars
  <2>5. CASE Retrans
    BY <2>0, <2>5 DEF Retrans, retrans_take_event, retrans_go_on, retrans_give_up,
                      retrans_requeue, retrans_load, retrans_store, rxvars
  <2>6. CASE Controller
    BY <2>0, <2>6 DEF Controller, ctrl_recv, ctrl_checksum_error, ctrl_send_ack,
                      ctrl_send_data, ctrl_send, rxvars
  <2>7. CASE timer_expires \/ h5_retransfer_timeout_handler
    BY <2>0, <2>7 DEF timer_expires, h5_retransfer_timeout_handler, rxvars
  <2>8. ASSUME NEW t \in Threads, h5_wake_up(t) PROVE PassInv'
    BY <2>0, <2>8 DEF h5_wake_up, dequeue, h5_wake_up_lock, h5_wake_up_done, dequeue_unrel,
                      dequeue_rel, dequeue_ack, rxvars
  <2>9. CASE UNCHANGED vars
    BY <2>0, <2>9 DEF vars, rxvars
  <2> QED  BY <2>1, <2>2, <2>3, <2>4, <2>5, <2>6, <2>7, <2>8, <2>9 DEF Next, Rx
<1>3. PassInv => PassedUp
  BY DEF PassInv
<1> QED  BY <1>1, <1>2, <1>3, TypeInit, TypeStep, WindowsInit, WindowsStep, PTL DEF Spec

\* A packet in unack is watched by the timer, its handler, the pending event or
\* the retransmission thread before it has requeued; after that unack is empty
\* until the next packet is sent, which starts the timer again.
WatchInv ==
  unack # << >> =>
    \/ timer \/ handlers > 0 \/ ready_event
    \/ pc["retrans"] \in {"check", "requeue"}
    \/ hw_error

\* Every step keeps WatchInv.
LEMMA WatchStep == TypeInv /\ WatchInv /\ [Next]_vars => WatchInv'
<1> SUFFICES ASSUME TypeInv, WatchInv, [Next]_vars PROVE WatchInv'
  OBVIOUS
<1>t. pc \in [Threads -> {"idle", "wake", "tx", "remove", "deliver", "check", "requeue", "load", "store"}]
  BY DEF TypeInv, TypeOK, DataTypeOK
<1> USE DEF WatchInv, Goto, Threads, hostvars, tmrvars
<1>1. CASE UNCHANGED vars
  BY <1>1 DEF vars
<1>2. CASE Stack
  BY <1>2, <1>t DEF Stack, h5_enqueue_rel, h5_enqueue_unrel, h5_enqueue_freed
<1>3. CASE RxTake \/ recv_checksum_error \/ hci_recv_frame
  BY <1>3, <1>t DEF RxTake, recv_out_of_order, complete_reliable, complete_unreliable,
                    recv_checksum_error, hci_recv_frame
<1>4. CASE h5_remove_acked_pkt
  <2>1. /\ timer' = (timer /\ unack' # << >>)
        /\ UNCHANGED <<handlers, ready_event, hw_error>>
        /\ pc'["retrans"] = pc["retrans"]
    BY <1>4, <1>t DEF h5_remove_acked_pkt, timer_after_ack
  <2>2. unack = << >> => unack' = << >>
    <3>1. SUFFICES ASSUME unack = << >> PROVE unack' = << >>
      OBVIOUS
    <3>2. Len(unack) = 0 /\ unack \in Seq(Nat)
      BY <3>1
    <3>3. pkts_to_be_removed(msgq_txseq, Len(unack), rx_skb.ack) \in 0..Len(unack)
      BY <3>2, RemovedBounds, SeqModAssumption DEF TypeInv, TypeOK, DataTypeOK, Seqno
    <3>4. pkts_to_be_removed(msgq_txseq, Len(unack), rx_skb.ack) = 0
      BY <3>2, <3>3
    <3>5. unack' = SubSeq(unack, 1, 0)
      BY <1>4, <3>2, <3>4 DEF h5_remove_acked_pkt
    <3> QED  BY <3>2, <3>5
  <2> QED  BY <2>1, <2>2
<1>5. CASE timer_expires
  BY <1>5 DEF timer_expires, TypeInv, TypeOK, DataTypeOK
<1>6. CASE h5_retransfer_timeout_handler
  BY <1>6 DEF h5_retransfer_timeout_handler
<1>7. CASE retrans_take_event \/ retrans_go_on \/ retrans_give_up
  BY <1>7, <1>t DEF retrans_take_event, retrans_go_on, retrans_give_up
<1>8. CASE retrans_requeue
  BY <1>8 DEF retrans_requeue, requeue_unack
<1>9. CASE retrans_load \/ retrans_store
  BY <1>9, <1>t DEF retrans_load, retrans_store
<1>10. CASE Controller
  BY <1>10 DEF Controller, ctrl_recv, ctrl_checksum_error, ctrl_send_ack, ctrl_send_data, ctrl_send
<1>11. ASSUME NEW t \in Threads, h5_wake_up(t) PROVE WatchInv'
  <2>1. CASE dequeue_rel(t)
    BY <2>1 DEF dequeue_rel
  <2>2. CASE dequeue_unrel(t) \/ dequeue_ack(t)
    BY <2>2 DEF dequeue_unrel, dequeue_ack
  <2>3. CASE h5_wake_up_lock(t) \/ h5_wake_up_done(t)
    BY <2>3, <1>t DEF h5_wake_up_lock, h5_wake_up_done
  <2> QED  BY <1>11, <2>1, <2>2, <2>3 DEF h5_wake_up, dequeue
<1>12. CASE h5_wait_controller_baudrate_ready_timeout_handler
  BY <1>12 DEF h5_wait_controller_baudrate_ready_timeout_handler
<1> HIDE DEF WatchInv
<1> QED  BY <1>1, <1>2, <1>3, <1>4, <1>5, <1>6, <1>7, <1>8, <1>9, <1>10, <1>11, <1>12
           DEF Next, Rx, Retrans

\* No packet in flight is left without a timer, an expiry on its way, a running
\* retransmission or a report to the stack.
THEOREM AlwaysWatched == Spec => []Watched
<1>1. Init => WatchInv
  BY DEF Init, WatchInv
<1>2. WatchInv => Watched
  BY DEF WatchInv, Watched
<1> QED  BY <1>1, <1>2, TypeInit, TypeStep, WatchStep, PTL DEF Spec

\* An acknowledgement owed to the controller is never forgotten.
THEOREM AcksSent == Spec => []AckNotForgotten
<1>1. Init => AckNotForgotten
  BY DEF Init, AckNotForgotten
<1>2. TypeInv /\ AckNotForgotten /\ [Next]_vars => AckNotForgotten'
  <2> SUFFICES ASSUME TypeInv, AckNotForgotten, [Next]_vars PROVE AckNotForgotten'
    OBVIOUS
  <2>t. pc \in [Threads -> {"idle", "wake", "tx", "remove", "deliver", "check", "requeue", "load", "store"}]
    BY DEF TypeInv, TypeOK, DataTypeOK
  <2> USE DEF AckNotForgotten, Goto, Threads
  <2>1. CASE Stack
    BY <2>1, <2>t DEF Stack, h5_enqueue_rel, h5_enqueue_unrel, h5_enqueue_freed
  <2>2. CASE Rx
    BY <2>2, <2>t DEF Rx, RxTake, recv_out_of_order, complete_reliable, complete_unreliable,
                      recv_checksum_error, h5_remove_acked_pkt, hci_recv_frame
  <2>3. CASE Retrans
    BY <2>3, <2>t DEF Retrans, retrans_take_event, retrans_go_on, retrans_give_up,
                      retrans_requeue, retrans_load, retrans_store
  <2>4. CASE Controller
    BY <2>4 DEF Controller, ctrl_recv, ctrl_checksum_error, ctrl_send_ack, ctrl_send_data, ctrl_send
  <2>5. CASE \/ timer_expires \/ h5_retransfer_timeout_handler
             \/ h5_wait_controller_baudrate_ready_timeout_handler
    BY <2>5 DEF timer_expires, h5_retransfer_timeout_handler,
                h5_wait_controller_baudrate_ready_timeout_handler
  <2>6. ASSUME NEW t \in Threads, h5_wake_up(t) PROVE AckNotForgotten'
    BY <2>6, <2>t DEF h5_wake_up, dequeue, h5_wake_up_lock, h5_wake_up_done, dequeue_unrel,
                      dequeue_rel, dequeue_ack, h5_prepare_pkt
  <2>7. CASE UNCHANGED vars
    BY <2>7 DEF vars
  <2> QED  BY <2>1, <2>2, <2>3, <2>4, <2>5, <2>6, <2>7 DEF Next
<1> QED  BY <1>1, <1>2, TypeInit, TypeStep, PTL DEF Spec
=============================================================================
