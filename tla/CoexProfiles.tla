---------------------------- MODULE CoexProfiles ----------------------------
(***************************************************************************)
(* The profile state that hardware/bt/src/rtk_parse.c keeps for the        *)
(* coexistence of Bluetooth and wifi: from the HCI events and L2CAP        *)
(* signals that pass by it counts, for all connections and for each one,   *)
(* which profiles are connected, and from the data packets which ones are  *)
(* busy.                                                                   *)
(*                                                                         *)
(* All parsing runs in userial_coex_thread, so the handling of one packet  *)
(* is one action.  The two periodic timers that find out whether A2DP and  *)
(* PAN are busy run in threads of their own.  Nobody takes a lock to load  *)
(* profile_status, change it and store it back: either side may overwrite  *)
(* what the other has stored in between.                                   *)
(*                                                                         *)
(* chans is what the two ends of the L2CAP channels know (external): it    *)
(* makes the signals come in an order the protocol allows.  A signal of    *)
(* the host waits in late before it is parsed, and may be parsed after     *)
(* what the other side answers, because userial_send_acl_to_controller     *)
(* queues a packet for parsing only after it has been sent; overtaken      *)
(* records that this has happened.                                         *)
(***************************************************************************)
EXTENDS Integers, Sequences, FiniteSets, SequencesExt

CONSTANTS
  Handles,     \* connection handles, with bit 8 clear (see find_connection_by_handle)
  HostCids,    \* channel numbers of the host
  RemoteCids,  \* channel numbers of the other side
  Psms,        \* the profiles L2CAP channels are opened for
  PanLimit,    \* packets in a period that make PAN busy: PAN_PACKET_COUNT
  MaxLate,     \* bound: signals sent and not parsed
  MaxBegins,   \* bound: connections and channels begun, changes of the interval
  MaxPackets   \* bound: data packets

ASSUME HandlesAssumption == IsFiniteSet(Handles)
ASSUME CidAssumption == 0 \notin HostCids \cup RemoteCids
ASSUME PsmAssumption == Psms \subseteq {"hid", "a2dp", "pan"}
ASSUME BoundsAssumption ==
  /\ PanLimit \in Nat \ {0}
  /\ MaxLate \in Nat
  /\ MaxBegins \in Nat
  /\ MaxPackets \in Nat

Profiles == {"sco", "hid", "a2dp", "pan", "hid_interval", "sink"}
Timers == {"a2dp", "pan"}

VARIABLES
  prof,       \* rtk_prof: conn, list, ref, map, status, timers, count
  handler,    \* where the handler of each timer is
  loaded,     \* the profile_status a handler has loaded and is about to store
  chans,      \* the L2CAP channels (external)
  late,       \* signals of the host that have been sent and not parsed
  overtaken,  \* history: something of the other side was parsed while signals were late
  begins,     \* connections and channels begun so far, changes of the interval
  packets     \* data packets so far

vars == <<prof, handler, loaded, chans, late, overtaken, begins, packets>>

NoConn == [type |-> "none", map |-> {}, ref |-> [p \in Profiles |-> 0]]

\* rtk_parse_init
Init ==
  /\ prof = [conn   |-> [h \in Handles |-> NoConn],
             list   |-> << >>,
             ref    |-> [p \in Profiles |-> 0],
             map    |-> {},
             status |-> {},
             timers |-> {},
             count  |-> [t \in Timers |-> 0]]
  /\ handler = [t \in Timers |-> "idle"]
  /\ loaded = [t \in Timers |-> {}]
  /\ chans = {}
  /\ late = << >>
  /\ overtaken = FALSE
  /\ begins = 0
  /\ packets = 0

-----------------------------------------------------------------------------
(* Helpers of rtk_parse.c, as functions of rtk_prof.                       *)

\* find_profile_by_handle_scid, _dcid and _dcid_scid: the first entry that matches, or 0.
find_scid(g, h, scid) == SelectInSeq(g.list, LAMBDA e : e.handle = h /\ e.scid = scid)
find_dcid(g, h, dcid) == SelectInSeq(g.list, LAMBDA e : e.handle = h /\ e.dcid = dcid)
find_both(g, h, dcid, scid) ==
  SelectInSeq(g.list, LAMBDA e : e.handle = h /\ e.dcid = dcid /\ e.scid = scid)

\* delete_profile_from_hash for the entries at the positions in gone: the others move up.
Without(l, gone) ==
  LET stay == (1..Len(l)) \ gone
      at(k) == CHOOSE i \in stay : Cardinality({j \in stay : j <= i}) = k
  IN [k \in 1..Cardinality(stay) |-> l[at(k)]]

\* mutant: a timer is set up for every profile
setup_timer_any(g, p) == [g EXCEPT !.timers = @ \cup {p}, !.count[p] = 0]

\* rtk_check_setup_timer
setup_timer(g, p) ==
  IF p \in Timers THEN [g EXCEPT !.timers = @ \cup {p}, !.count[p] = 0] ELSE g
\* rtk_check_del_timer for every profile in over
del_timers(g, over) ==
  [g EXCEPT !.timers = @ \ over, !.count = [t \in Timers |-> IF t \in over THEN 0 ELSE @[t]]]

\* update_profile_connection(conn of h, p, TRUE), and what it does to phci_conn.
conn_add(c, p) ==
  [c EXCEPT !.map = IF c.ref[p] = 0 THEN @ \cup {p} ELSE @, !.ref[p] = @ + 1]
add_profile(g, h, p) ==
  LET first == g.ref[p] = 0
      g1 == IF first
            THEN setup_timer([g EXCEPT !.map = @ \cup {p},
                                       !.status = IF p = "sco" THEN @ \cup {p} ELSE @], p)
            ELSE g
  IN [g1 EXCEPT !.ref[p] = @ + 1,
                !.conn[h] = conn_add(@, p)]

\* mutant: the bit of the connection is not cleared
remove_profiles_stale(g, h, n) ==
  LET over == {p \in Profiles : g.ref[p] \in 1..n[p]}
  IN del_timers([g EXCEPT !.ref = [p \in Profiles |-> @[p] - n[p]], !.map = @ \ over, !.status = @ \ over,
                          !.conn[h].ref = [p \in Profiles |-> @[p] - n[p]]], over)

\* update_profile_connection(conn of h, p, FALSE), n[p] times for every profile p.  A bit is
\* cleared when its count, which goes down one by one, is at 0.
remove_profiles(g, h, n) ==
  LET over == {p \in Profiles : g.ref[p] \in 1..n[p]}
      left == {p \in Profiles : g.conn[h].ref[p] \in 1..n[p]}
      active == IF "hid" \in left THEN {"hid_interval"} \cap (g.conn[h].map \ left) ELSE {}
  IN del_timers([g EXCEPT !.ref = [p \in Profiles |-> @[p] - n[p] - IF p \in active THEN 1 ELSE 0],
                          !.map = @ \ over, !.status = @ \ over,
                          !.conn[h].ref = [p \in Profiles |-> @[p] - n[p]],
                          !.conn[h].map = (@ \ left) \ active], over)
remove_profile(g, h, p) == remove_profiles(g, h, [q \in Profiles |-> IF q = p THEN 1 ELSE 0])

\* update_profile_state: a profile that is not connected keeps its status.
set_busy(g, p) == IF p \in g.map THEN [g EXCEPT !.status = @ \cup {p}] ELSE g

\* update_hid_active_state; "short" says whether the interval is below INTERVAL_60.
hid_active(g, h, short) ==
  LET on == "hid_interval" \in g.conn[h].map
      n == g.ref["hid_interval"]
  IN IF "hid" \notin g.conn[h].map \/ short = on THEN g
     ELSE IF short
     THEN [g EXCEPT !.conn[h].map = @ \cup {"hid_interval"}, !.ref["hid_interval"] = n + 1,
                    !.status = IF n + 1 = 1 THEN @ \cup {"hid"} ELSE @]
     ELSE [g EXCEPT !.conn[h].map = @ \ {"hid_interval"}, !.ref["hid_interval"] = n - 1,
                    !.status = IF n - 1 = 0 THEN @ \ {"hid"} ELSE @]

\* A new connection: allocate_connection_by_handle and what is set at once.
new_conn(g, h, type) == [g EXCEPT !.conn[h] = [NoConn EXCEPT !.type = type]]

-----------------------------------------------------------------------------
(* HCI events.                                                             *)

\* The lines that change profile_status are executed: 891, 980, 1001, 1045, 1055.
StatusWritten ==
  \/ prof'.status # prof.status
  \/ prof.map \ prof'.map # {} \/ "sco" \in prof'.map \ prof.map
  \/ prof.ref["hid_interval"] = 0 /\ prof'.ref["hid_interval"] = 1
  \/ prof.ref["hid_interval"] = 1 /\ prof'.ref["hid_interval"] = 0 /\ prof'.ref["hid"] = prof.ref["hid"]

\* Where the handler of t goes on after a store.
AfterStore(t) == IF t = "a2dp" /\ handler[t] = "store" THEN "sink" ELSE "reset"

\* The parser at work.  The store of a handler that falls between its own load and store of
\* profile_status is lost.
Parser ==
  /\ \E lost \in SUBSET {t \in Timers : StatusWritten /\ handler[t] \in {"store", "store_sink"}} :
       handler' = [t \in Timers |-> IF t \in lost THEN AfterStore(t) ELSE handler[t]]
  /\ loaded' = [t \in Timers |-> IF handler'[t] = handler[t] THEN loaded[t] ELSE {}]
Overtakes == overtaken' = (overtaken \/ late # << >>)
Begins == begins < MaxBegins /\ begins' = begins + 1

\* rtk_handle_connection_complete_evt with status 0, for an ACL or a (e)SCO link.  The
\* controller gives no handle that is in use, so that the branch for one is not taken.
connection_complete(h, type) ==
  /\ Begins
  /\ prof.conn[h].type = "none"
  /\ prof' = IF type = "sco" THEN add_profile(new_conn(prof, h, type), h, "sco")
             ELSE new_conn(prof, h, type)
  /\ Parser /\ UNCHANGED <<chans, late, overtaken, packets>>

\* rtk_handle_le_connection_complete_evt with status 0
le_connection_complete(h, short) ==
  /\ Begins
  /\ prof.conn[h].type = "none"
  /\ prof' = hid_active(add_profile(new_conn(prof, h, "le"), h, "hid"), h, short)
  /\ Parser /\ UNCHANGED <<chans, late, overtaken, packets>>

\* HCI_MODE_CHANGE_EVT and the LE connection update
interval_change(h, short) ==
  /\ Begins
  /\ prof.conn[h].type \in {"acl", "le"}
  /\ prof' = hid_active(prof, h, short)
  /\ Parser /\ UNCHANGED <<chans, late, overtaken, packets>>

\* handle_disconnect_hci_conn_type_zero: the channels of which both numbers are known
\* are gone; the other entries of the list stay.
Established(e) == e.scid # 0 /\ e.dcid # 0
Positions(l, h, p) == {i \in 1..Len(l) : l[i].handle = h /\ l[i].profile = p /\ Established(l[i])}
drop_channels(g, h) ==
  LET gone == {i \in 1..Len(g.list) : g.list[i].handle = h /\ Established(g.list[i])}
      n == [p \in Profiles |-> Cardinality(Positions(g.list, h, p))]
  IN [remove_profiles(g, h, n) EXCEPT !.list = Without(g.list, gone)]

\* rtk_handle_disconnect_complete_evt with status 0
disconnect_complete(h) ==
  LET type == prof.conn[h].type
      g == CASE type = "acl" -> drop_channels(prof, h)
             [] type = "sco" -> remove_profile(prof, h, "sco")
             [] type = "le"  -> remove_profile(prof, h, "hid")
  IN /\ type # "none"
     /\ prof' = [g EXCEPT !.conn[h] = NoConn]
     /\ Overtakes
     /\ chans' = {c \in chans : c.handle # h}
     /\ Parser /\ UNCHANGED <<late, begins, packets>>

-----------------------------------------------------------------------------
(* L2CAP signals.  scid and dcid are the numbers of the host and of the    *)
(* other side in an entry of the list.                                     *)

\* handle_l2cap_con_req; list_allocate_add
con_req(g, h, p, scid, dcid) ==
  LET found == IF scid # 0 THEN find_scid(g, h, scid) ELSE find_dcid(g, h, dcid)
  IN IF found # 0 THEN g
     ELSE [g EXCEPT !.list = Append(@, [handle |-> h, profile |-> p, scid |-> scid, dcid |-> dcid])]

\* handle_l2cap_con_rsp: i is the entry of the request, the answer tells the missing number.
con_rsp(g, h, i, scid, dcid, ok) ==
  IF i = 0 \/ ~ok THEN g
  ELSE LET g1 == [g EXCEPT !.list[i].scid = scid, !.list[i].dcid = dcid]
       IN IF g.conn[h].type # "none" THEN add_profile(g1, h, g.list[i].profile) ELSE g1

\* mutant: the entry stays in the list
discon_req_keeps(g, h, scid, dcid) ==
  LET i == find_both(g, h, dcid, scid)
      g1 == remove_profile(g, h, g.list[i].profile)
  IN IF i = 0 \/ g.conn[h].type = "none" THEN g
     ELSE IF g.list[i].profile = "a2dp" /\ "sink" \in g1.conn[h].map
     THEN remove_profile(g1, h, "sink") ELSE g1

\* handle_l2cap_discon_req
discon_req(g, h, scid, dcid) ==
  LET i == find_both(g, h, dcid, scid)
      g1 == remove_profile(g, h, g.list[i].profile)
      g2 == IF g.list[i].profile = "a2dp" /\ "sink" \in g1.conn[h].map
            THEN remove_profile(g1, h, "sink") ELSE g1
  IN IF i = 0 \/ g.conn[h].type = "none" THEN g ELSE [g2 EXCEPT !.list = Without(@, {i})]

\* The entry of a response: the request's own number is in it already.
rsp_in(g, h, scid, dcid, ok) ==
  LET i == find_scid(g, h, scid) IN con_rsp(g, h, i, scid, dcid, ok)
rsp_out(g, h, scid, dcid, ok) ==
  LET i == find_dcid(g, h, dcid) IN con_rsp(g, h, i, scid, dcid, ok)

Unused(h, scid, dcid) ==
  \A c \in chans : c.handle = h => (scid = 0 \/ c.scid # scid) /\ (dcid = 0 \/ c.dcid # dcid)
Channel(h, p, scid, dcid, st) ==
  [handle |-> h, profile |-> p, scid |-> scid, dcid |-> dcid, st |-> st]
Sends(sig) ==
  /\ Len(late) < MaxLate
  /\ late' = Append(late, sig)
  /\ UNCHANGED <<prof, handler, loaded, overtaken, packets>>
Receives(g) ==
  /\ Overtakes
  /\ prof' = g
  /\ UNCHANGED <<late, packets>> /\ Parser

\* The host opens a channel, the other side answers.
host_req(h, p, scid) ==
  /\ Begins
  /\ prof.conn[h].type = "acl" /\ Unused(h, scid, 0)
  /\ chans' = chans \cup {Channel(h, p, scid, 0, "asked")}
  /\ Sends([kind |-> "req", handle |-> h, profile |-> p, scid |-> scid])
remote_rsp(c, dcid, ok) ==
  /\ UNCHANGED begins
  /\ c.st = "asked" /\ Unused(c.handle, 0, dcid)
  /\ chans' = (chans \ {c}) \cup
                (IF ok THEN {[c EXCEPT !.dcid = dcid, !.st = "open"]} ELSE {})
  /\ Receives(rsp_in(prof, c.handle, c.scid, dcid, ok))

\* The other side opens a channel, the host answers.
remote_req(h, p, dcid) ==
  /\ Begins
  /\ prof.conn[h].type = "acl" /\ Unused(h, 0, dcid)
  /\ chans' = chans \cup {Channel(h, p, 0, dcid, "answering")}
  /\ Receives(con_req(prof, h, p, 0, dcid))
host_rsp(c, scid, ok) ==
  /\ UNCHANGED begins
  /\ c.st = "answering" /\ Unused(c.handle, scid, 0)
  /\ chans' = (chans \ {c}) \cup
                (IF ok THEN {[c EXCEPT !.scid = scid, !.st = "open"]} ELSE {})
  /\ Sends([kind |-> "rsp", handle |-> c.handle, scid |-> scid, dcid |-> c.dcid, ok |-> ok])

\* Either side closes a channel.
host_discon(c) ==
  /\ UNCHANGED begins
  /\ c.st = "open"
  /\ chans' = chans \ {c}
  /\ Sends([kind |-> "discon", handle |-> c.handle, scid |-> c.scid, dcid |-> c.dcid])
remote_discon(c) ==
  /\ UNCHANGED begins
  /\ c.st = "open"
  /\ chans' = chans \ {c}
  /\ Receives(discon_req(prof, c.handle, c.scid, c.dcid))

\* rtk_parse_l2cap_data of a signal of the host, from the queue of userial_coex_thread
parse_sent ==
  /\ late # << >>
  /\ late' = Tail(late)
  /\ LET s == Head(late) IN
     prof' = CASE s.kind = "req"    -> con_req(prof, s.handle, s.profile, s.scid, 0)
               [] s.kind = "rsp"    -> rsp_out(prof, s.handle, s.scid, s.dcid, s.ok)
               [] s.kind = "discon" -> discon_req(prof, s.handle, s.scid, s.dcid)
  /\ Parser /\ UNCHANGED <<chans, overtaken, begins, packets>>

\* packets_count for a data packet longer than LENGTH_100; "incoming" is direction 0.
packets_count(c, incoming) ==
  LET h == c.handle
      i == IF incoming THEN find_scid(prof, h, c.scid) ELSE find_dcid(prof, h, c.dcid)
      p == prof.list[i].profile
      first == p = "a2dp" /\ "a2dp" \notin prof.status
      g1 == IF first THEN set_busy(prof, "a2dp") ELSE prof
      g2 == IF first /\ incoming THEN set_busy(add_profile(g1, h, "sink"), "sink") ELSE g1
      limit == IF p = "pan" THEN PanLimit ELSE 1
  IN /\ c.st = "open" /\ packets < MaxPackets
     /\ prof.map \cap {"a2dp", "pan"} # {} /\ i # 0
     /\ p \in Timers
     /\ prof' = [g2 EXCEPT !.count[p] = IF @ < limit THEN @ + 1 ELSE @]
     /\ packets' = packets + 1
     /\ Parser /\ UNCHANGED <<chans, late, overtaken, begins>>

-----------------------------------------------------------------------------
(* The timer threads.  update_profile_state is a load and a store there.   *)

Go(t, where) == handler' = [handler EXCEPT ![t] = where]
Timer == UNCHANGED <<chans, late, overtaken, begins, packets>>

timer_expires(t) ==
  /\ t \in prof.timers /\ handler[t] = "idle"
  /\ Go(t, "due")
  /\ Timer /\ UNCHANGED <<prof, loaded>>

\* timer_a2dp_packet_count and timer_pan_packet_count: is the status still right?
\* A2DP becomes busy in packets_count, PAN here.
Changes(t) ==
  LET busy == t \in prof.status IN
  /\ t \in prof.map
  /\ IF t = "a2dp" THEN busy /\ prof.count[t] = 0
                   ELSE busy = (prof.count[t] < PanLimit)
timer_test(t) ==
  /\ handler[t] = "due"
  /\ \/ Changes(t) /\ Go(t, "store") /\ loaded' = [loaded EXCEPT ![t] = prof.status]
     \/ ~Changes(t) /\ Go(t, "reset") /\ UNCHANGED loaded
  /\ Timer /\ UNCHANGED prof

timer_store(t) ==
  /\ handler[t] = "store"
  /\ prof' = [prof EXCEPT !.status = IF t \in loaded[t] THEN loaded[t] \ {t}
                                                        ELSE loaded[t] \cup {t}]
  /\ Go(t, AfterStore(t))
  /\ loaded' = [loaded EXCEPT ![t] = {}]
  /\ Timer

\* With A2DP the sink becomes idle, too.
timer_sink ==
  /\ handler["a2dp"] = "sink"
  /\ \/ /\ "sink" \in prof.status \cap prof.map
        /\ Go("a2dp", "store_sink") /\ loaded' = [loaded EXCEPT !["a2dp"] = prof.status]
     \/ /\ "sink" \notin prof.status \cap prof.map
        /\ Go("a2dp", "reset") /\ UNCHANGED loaded
  /\ Timer /\ UNCHANGED prof
timer_store_sink ==
  /\ handler["a2dp"] = "store_sink"
  /\ prof' = [prof EXCEPT !.status = loaded["a2dp"] \ {"sink"}]
  /\ Go("a2dp", "reset")
  /\ loaded' = [loaded EXCEPT !["a2dp"] = {}]
  /\ Timer

\* mutant: the next period starts with the old count
timer_reset_keeps(t) ==
  /\ handler[t] = "reset"
  /\ Go(t, "idle")
  /\ Timer /\ UNCHANGED <<prof, loaded>>

timer_reset(t) ==
  /\ handler[t] = "reset"
  /\ prof' = [prof EXCEPT !.count[t] = 0]
  /\ Go(t, "idle")
  /\ Timer /\ UNCHANGED loaded

Handler(t) ==
  \/ timer_test(t) \/ timer_store(t) \/ timer_reset(t)
  \/ t = "a2dp" /\ (timer_sink \/ timer_store_sink)

HciEvent(h) ==
  \/ \E type \in {"acl", "sco"} : connection_complete(h, type)
  \/ \E short \in BOOLEAN : le_connection_complete(h, short) \/ interval_change(h, short)
  \/ disconnect_complete(h)
Signal ==
  \/ \E h \in Handles, p \in Psms, cid \in HostCids : host_req(h, p, cid)
  \/ \E h \in Handles, p \in Psms, cid \in RemoteCids : remote_req(h, p, cid)
  \/ \E c \in chans, ok \in BOOLEAN, cid \in RemoteCids : remote_rsp(c, cid, ok)
  \/ \E c \in chans, ok \in BOOLEAN, cid \in HostCids : host_rsp(c, cid, ok)
  \/ \E c \in chans : host_discon(c) \/ remote_discon(c)
  \/ parse_sent
Next ==
  \/ \E h \in Handles : HciEvent(h)
  \/ Signal
  \/ \E c \in chans, incoming \in BOOLEAN : packets_count(c, incoming)
  \/ \E t \in Timers : timer_expires(t) \/ Handler(t)

Spec == Init /\ [][Next]_vars

\* The timers are periodic and their handlers run.  Nothing is assumed of the parser.
FairSpec ==
  /\ Spec
  /\ \A t \in Timers : WF_vars(timer_expires(t)) /\ WF_vars(Handler(t))

-----------------------------------------------------------------------------
(* Properties.                                                             *)

Entry == [handle : Handles, profile : Psms, scid : HostCids \cup {0}, dcid : RemoteCids \cup {0}]
TypeOK ==
  /\ prof.conn \in [Handles -> [type : {"none", "acl", "sco", "le"}, map : SUBSET Profiles,
                                ref : [Profiles -> Int]]]
  /\ \A i \in 1..Len(prof.list) : prof.list[i] \in Entry
  /\ prof.ref \in [Profiles -> Int]
  /\ prof.map \subseteq Profiles /\ prof.status \subseteq Profiles
  /\ prof.timers \subseteq Timers
  /\ prof.count \in [Timers -> Nat]
  /\ handler \in [Timers -> {"idle", "due", "store", "sink", "store_sink", "reset"}]
  /\ loaded \in [Timers -> SUBSET Profiles]
  /\ overtaken \in BOOLEAN

Counted == Profiles \ {"hid_interval"}

\* The reported bitmaps say what the counters say, for all connections together and for
\* each one, however connections and channels come and go and also when signals parsed too
\* late have taken a count below zero, and the timer that notices the end of the traffic runs
\* exactly as long as its profile is connected.
MapsMatchCounts ==
  /\ \A p \in Counted : p \in prof.map <=> prof.ref[p] > 0
  /\ \A p \in Counted, h \in Handles : p \in prof.conn[h].map <=> prof.conn[h].ref[p] > 0
  /\ prof.timers = prof.map \cap Timers

\* "If both scid and dcid > 0, L2cap connection is exist": an ACL connection counts a profile
\* as often as the list has such entries for it, so its end takes exactly those away; entries
\* left by refused requests do not break this, nor do signals that are parsed late, unless
\* something of the other side overtakes them in the parser: an answer parsed before its
\* request is not counted, and a disconnection leaves the counts of what comes after it.  The
\* total is what the connections count together, and the short intervals are counted.  (Not so
\* for the sink, which packets_count adds at every start of a stream and a disconnection does
\* not take away.)
Counts(conn, p) == UNION {{h} \X (1..conn[h].ref[p]) : h \in Handles}
CountsMatchList ==
  ~overtaken =>
    /\ \A h \in Handles : prof.conn[h].type = "acl" =>
         \A p \in Psms : prof.conn[h].ref[p] = Cardinality(Positions(prof.list, h, p))
    /\ \A p \in Counted \ {"sink"} : prof.ref[p] = Cardinality(Counts(prof.conn, p))
    /\ prof.ref["hid_interval"] = Cardinality({h \in Handles : "hid_interval" \in prof.conn[h].map})

\* A profile whose traffic has ended (the packets are bounded) is not reported busy for ever:
\* the handlers come again, whatever their unlocked updates have overwritten.
BusyEnds ==
  \A p \in Timers : (p \in prof.status \cap prof.map) ~> (p \notin prof.status \cap prof.map)
=============================================================================
